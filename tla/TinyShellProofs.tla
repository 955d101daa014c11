--------------------------- MODULE TinyShellProofs ---------------------------
(***************************************************************************)
(* Proofs about TinyShell, for any commands, paths, peers and programs:     *)
(* what number a text is read as, which descriptors are open, and what cp,  *)
(* ping, run, nc and fetch have done when they are back at the prompt.      *)
(***************************************************************************)
EXTENDS TinyShell, WellFoundedInduction, TLAPS

-----------------------------------------------------------------------------
\* Numbers. An induction over the digits is the choice of a least counterexample.

LEMMA LeastOf ==
  ASSUME NEW T \in SUBSET Nat, T # {}
  PROVE  \E x \in T : \A y \in T : x <= y
<1> DEFINE R == {ss \in Nat \X Nat : ss[1] < ss[2]}
<1>1. IsWellFoundedOn(R, Nat)
  BY NatLessThanWellFounded DEF OpToRel
<1> HIDE DEF R
<1>2. PICK x \in T : \A y \in T : <<y, x>> \notin R
  BY <1>1, WFMin
<1>3. \A y \in T : ~(y < x)
  BY <1>2 DEF R
<1> QED  BY <1>3

\* The digits are numbers.
LEMMA DigitsOf ==
  ASSUME NEW text \in Seq(0..9)
  PROVE  /\ Len(text) \in Nat
         /\ \A i \in 1..Len(text) :
              i \in Nat /\ i - 1 \in 0..Len(text) /\ text[i] \in 0..9 /\ text[i] \in Nat
<1>1. Len(text) \in Nat /\ \A i \in 1..Len(text) : text[i] \in 0..9
  OBVIOUS
<1>2. \A i \in 1..Len(text) : i \in Nat /\ i - 1 \in 0..Len(text)
  BY <1>1
<1>3. \A d \in 0..9 : d \in Nat
  OBVIOUS
<1> QED  BY <1>1, <1>2, <1>3

\* What goes from step to step on 0..n.
LEMMA AlongSteps ==
  ASSUME NEW n \in Nat, NEW S, S \subseteq 0..n, 0 \in S,
         \A i \in 1..n : i - 1 \in S => i \in S
  PROVE  \A i \in 0..n : i \in S
<1> DEFINE T == (0..n) \ S
<1>1. SUFFICES ASSUME T # {} PROVE FALSE
  OBVIOUS
<1>0. T \in SUBSET Nat
  OBVIOUS
<1> HIDE DEF T
<1>2. PICK x \in T : \A y \in T : x <= y
  BY <1>0, <1>1, LeastOf
<1> USE DEF T
<1>3. x \in 1..n /\ x - 1 \in 0..n /\ ~(x <= x - 1)
  OBVIOUS
<1>4. x - 1 \in S
  BY <1>2, <1>3
<1> QED  BY <1>2, <1>3, <1>4

\* f is defined on 0..n by its first value and from each by the next.
Follows(f, V, n, first, step) ==
  f \in [0..n -> V] /\ f[0] = first /\ \A i \in 1..n : f[i] = step[<<f[i - 1], i>>]

LEMMA StepsDefine ==
  ASSUME NEW n \in Nat, NEW V, NEW first \in V, NEW step \in [V \X (1..n) -> V]
  PROVE  \E f : Follows(f, V, n, first, step)
<1> DEFINE Upto(k, f) == Follows(f, V, k, first, step)
           S == {k \in 0..n : \E f : Upto(k, f)}
<1> USE DEF Follows
<1>1. 0 \in S
  <2> DEFINE f == [i \in 0..0 |-> first]
  <2>1. Upto(0, f)
    OBVIOUS
  <2> HIDE DEF Upto, f
  <2> QED  BY <2>1
<1>2. ASSUME NEW k \in 1..n, k - 1 \in S PROVE k \in S
  <2>1. PICK f : Upto(k - 1, f)
    BY <1>2
  <2> DEFINE last == step[<<f[k - 1], k>>]
             g == [i \in 0..k |-> IF i = k THEN last ELSE f[i]]
  <2>2. last \in V
    <3>1. f[k - 1] \in V
      BY <2>1
    <3> QED  BY <3>1
  <2>3. g \in [0..k -> V] /\ g[k] = last /\ \A i \in 0..(k - 1) : g[i] = f[i]
    <3> HIDE DEF last
    <3> QED  BY <2>1, <2>2
  <2> HIDE DEF g
  <2>4. ASSUME NEW i \in 1..k
        PROVE  g[i] = step[<<g[i - 1], i>>]
    <3>1. CASE i = k
      <4>1. k - 1 \in 0..(k - 1)
        OBVIOUS
      <4> QED  BY <2>3, <3>1, <4>1
    <3>2. CASE i # k
      <4>1. i \in 1..(k - 1) /\ i \in 0..(k - 1) /\ i - 1 \in 0..(k - 1)
        BY <3>2
      <4> QED  BY <2>1, <2>3, <4>1
    <3> QED  BY <3>1, <3>2
  <2>5. Upto(k, g)
    <3>1. 0 \in 0..(k - 1) /\ g[0] = f[0]
      BY <2>3
    <3> QED  BY <2>1, <2>3, <2>4, <3>1
  <2> HIDE DEF Upto
  <2> QED  BY <2>5
<1>3. n \in S
  <2> HIDE DEF S
  <2>1. S \subseteq 0..n
    BY DEF S
  <2>2. \A i \in 1..n : i - 1 \in S => i \in S
    BY <1>2
  <2>3. \A i \in 0..n : i \in S
    BY <1>1, <2>1, <2>2, AlongSteps
  <2> QED  BY <2>3
<1>4. PICK f : Upto(n, f)
  BY <1>3
<1> QED  BY <1>4

\* The values of Decimal and Parsed, prefix by prefix.
DecimalSteps(value, text) ==
  value = [i \in 0..Len(text) |-> IF i = 0 THEN 0 ELSE value[i - 1] * 10 + text[i]]

ParsedSteps(parsed, text) ==
  parsed = [i \in 0..Len(text) |->
              IF i = 0 THEN 0
              ELSE LET next == (parsed[i - 1] * 10 + text[i]) % Wrap
                   IN IF parsed[i - 1] = Bad \/ next < parsed[i - 1] THEN Bad ELSE next]

LEMMA DecimalDefined ==
  ASSUME NEW text \in Seq(0..9)
  PROVE  \E value \in [0..Len(text) -> Nat] :
           /\ value[0] = 0 /\ \A i \in 1..Len(text) : value[i] = value[i - 1] * 10 + text[i]
           /\ Decimal(text) = value[Len(text)]
<1> DEFINE n == Len(text)
           step == [x \in Nat \X (1..n) |-> x[1] * 10 + text[x[2]]]
           chosen == CHOOSE value : DecimalSteps(value, text)
<1>1. n \in Nat /\ step \in [Nat \X (1..n) -> Nat]
  <2>1. n \in Nat /\ \A i \in 1..n : text[i] \in Nat
    BY DigitsOf
  <2>2. ASSUME NEW x \in Nat \X (1..n) PROVE x[1] * 10 + text[x[2]] \in Nat
    <3>1. x[1] \in Nat /\ text[x[2]] \in Nat
      BY <2>1
    <3> QED  BY <3>1
  <2> QED  BY <2>1, <2>2
<1>2. ASSUME NEW v \in Nat, NEW i \in 1..n PROVE step[<<v, i>>] = v * 10 + text[i]
  <2> DEFINE x == <<v, i>>
  <2>1. x \in Nat \X (1..n) /\ x[1] = v /\ x[2] = i
    OBVIOUS
  <2> HIDE DEF x
  <2>2. step[x] = x[1] * 10 + text[x[2]]
    BY <2>1
  <2> QED  BY <2>1, <2>2 DEF x
<1> HIDE DEF step
<1>3. PICK f : Follows(f, Nat, n, 0, step)
  BY <1>1, StepsDefine
<1>0. f \in [0..n -> Nat] /\ f[0] = 0 /\ \A i \in 1..n : f[i] = step[<<f[i - 1], i>>]
  BY <1>3 DEF Follows
<1>4. ASSUME NEW i \in 1..n PROVE f[i] = f[i - 1] * 10 + text[i]
  <2>1. i - 1 \in 0..n
    OBVIOUS
  <2>2. f[i - 1] \in Nat
    BY <1>0, <2>1
  <2> QED  BY <1>0, <1>2, <2>2
<1>5. DecimalSteps(f, text)
  <2>1. \A i \in 0..n : f[i] = IF i = 0 THEN 0 ELSE f[i - 1] * 10 + text[i]
    <3> SUFFICES ASSUME NEW i \in 0..n PROVE f[i] = IF i = 0 THEN 0 ELSE f[i - 1] * 10 + text[i]
      OBVIOUS
    <3>1. i = 0 \/ i \in 1..n
      OBVIOUS
    <3> QED  BY <1>0, <1>4, <3>1
  <2> QED  BY <1>0, <2>1 DEF DecimalSteps
<1>6. DecimalSteps(chosen, text)
  BY <1>5
<1>7. Decimal(text) = chosen[n]
  BY DEF Decimal, DecimalSteps
<1> HIDE DEF chosen
<1>8. /\ chosen[0] = 0 /\ chosen = [i \in 0..n |-> chosen[i]]
      /\ \A i \in 1..n : chosen[i] = chosen[i - 1] * 10 + text[i]
  BY <1>6 DEF DecimalSteps
<1> DEFINE S == {i \in 0..n : chosen[i] \in Nat}
<1>9. \A i \in 0..n : i \in S
  <2>1. S \subseteq 0..n /\ 0 \in S
    BY <1>8
  <2>2. ASSUME NEW i \in 1..n, i - 1 \in S PROVE i \in S
    <3>1. chosen[i - 1] \in Nat /\ text[i] \in Nat /\ i \in 0..n
      BY <1>1, <2>2, DigitsOf
    <3>2. chosen[i] = chosen[i - 1] * 10 + text[i]
      BY <1>8
    <3>3. chosen[i] \in Nat
      BY <3>1, <3>2
    <3> QED  BY <3>1, <3>3
  <2> HIDE DEF S
  <2> QED  BY <1>1, <2>1, <2>2, AlongSteps
<1>10. chosen \in [0..n -> Nat]
  BY <1>8, <1>9
<1> QED  BY <1>7, <1>8, <1>10

\* The accumulator: the next value, or none.
NextParsed(v, d) ==
  LET next == (v * 10 + d) % Wrap IN IF v = Bad \/ next < v THEN Bad ELSE next

LEMMA NextParsedRange ==
  ASSUME NEW v \in 0..Wrap, NEW d \in 0..9
  PROVE  /\ NextParsed(v, d) \in 0..Wrap /\ v <= NextParsed(v, d)
         /\ v # Bad /\ v * 10 + d < Wrap => NextParsed(v, d) = v * 10 + d
<1> DEFINE x == v * 10 + d
           next == x % Wrap
<1>1. Wrap \in Nat /\ 0 < Wrap /\ x \in Nat /\ v <= x
  BY NumberAssumption
<1> HIDE DEF x
<1>2. next \in 0..(Wrap - 1) /\ (x < Wrap => next = x)
  BY <1>1
<1>3. NextParsed(v, d) = IF v = Bad \/ next < v THEN Bad ELSE next
  BY DEF NextParsed, x
<1> HIDE DEF next
<1> QED  BY <1>1, <1>2, <1>3 DEF Bad, x

LEMMA ParsedDefined ==
  ASSUME NEW text \in Seq(0..9)
  PROVE  /\ Parsed(text) \in [0..Len(text) -> 0..Wrap] /\ Parsed(text)[0] = 0
         /\ \A i \in 1..Len(text) : Parsed(text)[i] = NextParsed(Parsed(text)[i - 1], text[i])
<1> DEFINE n == Len(text)
           step == [x \in (0..Wrap) \X (1..n) |-> NextParsed(x[1], text[x[2]])]
           chosen == CHOOSE parsed : ParsedSteps(parsed, text)
<1>1. n \in Nat /\ Wrap \in Nat /\ 0 \in 0..Wrap
  BY NumberAssumption
<1>2. ASSUME NEW x \in (0..Wrap) \X (1..n) PROVE NextParsed(x[1], text[x[2]]) \in 0..Wrap
  <2>1. x[1] \in 0..Wrap /\ text[x[2]] \in 0..9
    OBVIOUS
  <2> QED  BY <2>1, NextParsedRange
<1>3. step \in [(0..Wrap) \X (1..n) -> 0..Wrap]
  BY <1>2
<1>4. ASSUME NEW v \in 0..Wrap, NEW i \in 1..n PROVE step[<<v, i>>] = NextParsed(v, text[i])
  <2> DEFINE x == <<v, i>>
  <2>1. x \in (0..Wrap) \X (1..n) /\ x[1] = v /\ x[2] = i
    OBVIOUS
  <2> HIDE DEF x
  <2>2. step[x] = NextParsed(x[1], text[x[2]])
    BY <2>1
  <2> QED  BY <2>1, <2>2 DEF x
<1> HIDE DEF step
<1>5. PICK f : Follows(f, 0..Wrap, n, 0, step)
  BY <1>1, <1>3, StepsDefine
<1>6. f \in [0..n -> 0..Wrap] /\ f[0] = 0 /\ \A i \in 1..n : f[i] = step[<<f[i - 1], i>>]
  BY <1>5 DEF Follows
<1>7. ASSUME NEW i \in 1..n PROVE f[i] = NextParsed(f[i - 1], text[i])
  <2>1. i - 1 \in 0..n
    OBVIOUS
  <2>2. f[i - 1] \in 0..Wrap
    BY <1>6, <2>1
  <2> QED  BY <1>4, <1>6, <2>2
<1>8. ASSUME NEW parsed
      PROVE  ParsedSteps(parsed, text) <=>
               parsed = [i \in 0..n |-> IF i = 0 THEN 0 ELSE NextParsed(parsed[i - 1], text[i])]
  BY DEF ParsedSteps, NextParsed
<1>9. ParsedSteps(f, text)
  <2>1. \A i \in 0..n : f[i] = IF i = 0 THEN 0 ELSE NextParsed(f[i - 1], text[i])
    <3> SUFFICES ASSUME NEW i \in 0..n PROVE f[i] = IF i = 0 THEN 0 ELSE NextParsed(f[i - 1], text[i])
      OBVIOUS
    <3>1. i = 0 \/ i \in 1..n
      OBVIOUS
    <3> QED  BY <1>6, <1>7, <3>1
  <2> QED  BY <1>6, <1>8, <2>1
<1>10. ParsedSteps(chosen, text)
  BY <1>9
<1>11. Parsed(text) = chosen
  BY DEF Parsed, ParsedSteps
<1> HIDE DEF chosen
<1>12. /\ chosen[0] = 0 /\ chosen = [i \in 0..n |-> chosen[i]]
       /\ \A i \in 1..n : chosen[i] = NextParsed(chosen[i - 1], text[i])
  BY <1>8, <1>10
<1> DEFINE S == {i \in 0..n : chosen[i] \in 0..Wrap}
<1>13. \A i \in 0..n : i \in S
  <2>1. S \subseteq 0..n /\ 0 \in S
    BY <1>1, <1>12
  <2>2. ASSUME NEW i \in 1..n, i - 1 \in S PROVE i \in S
    <3>1. chosen[i - 1] \in 0..Wrap /\ text[i] \in 0..9
      BY <2>2
    <3> QED  BY <1>12, <3>1, NextParsedRange
  <2> HIDE DEF S
  <2> QED  BY <1>1, <2>1, <2>2, AlongSteps
<1>14. chosen \in [0..n -> 0..Wrap]
  BY <1>12, <1>13
<1> QED  BY <1>11, <1>12, <1>14

\* What never falls is nowhere above its last value.
LEMMA LastIsMost ==
  ASSUME NEW n \in Nat, NEW v \in [0..n -> Nat], \A i \in 1..n : v[i - 1] <= v[i]
  PROVE  \A i \in 0..n : v[i] <= v[n]
<1> DEFINE S == {k \in 0..n : v[n - k] <= v[n]}
<1>1. S \subseteq 0..n /\ 0 \in S
  OBVIOUS
<1>2. ASSUME NEW k \in 1..n, k - 1 \in S PROVE k \in S
  <2>1. PICK i \in 1..n : i = n - (k - 1)
    OBVIOUS
  <2>2. i - 1 = n - k /\ i - 1 \in 0..n /\ n \in 0..n
    BY <2>1
  <2>3. v[i] <= v[n] /\ v[i - 1] <= v[i]
    BY <1>2, <2>1
  <2>4. v[i - 1] \in Nat /\ v[i] \in Nat /\ v[n] \in Nat
    BY <2>2
  <2>5. v[i - 1] <= v[n]
    BY <2>3, <2>4
  <2>6. v[n - k] <= v[n]
    BY <2>2, <2>5
  <2> QED  BY <2>6
<1>3. \A k \in 0..n : k \in S
  <2>1. \A k \in 1..n : k - 1 \in S => k \in S
    BY <1>2
  <2> HIDE DEF S
  <2> QED  BY <1>1, <2>1, AlongSteps
<1>4. ASSUME NEW i \in 0..n PROVE v[i] <= v[n]
  <2>1. n - i \in 0..n /\ n - (n - i) = i
    OBVIOUS
  <2> QED  BY <1>3, <2>1
<1> QED  BY <1>4

LEMMA DecimalIsNumber == \A text \in Seq(0..9) : Decimal(text) \in Nat
<1> SUFFICES ASSUME NEW text \in Seq(0..9) PROVE Decimal(text) \in Nat
  OBVIOUS
<1> QED  BY DecimalDefined

LEMMA DecimalOfNone == Decimal(<<>>) = 0
<1>1. <<>> \in Seq(0..9) /\ Len(<<>>) = 0
  OBVIOUS
<1> QED  BY <1>1, DecimalDefined

LEMMA ParsedRange == \A text \in Seq(0..9) : ParseUnsigned(text) \in 0..Wrap
<1> SUFFICES ASSUME NEW text \in Seq(0..9) PROVE ParseUnsigned(text) \in 0..Wrap
  OBVIOUS
<1>1. Wrap \in Nat /\ Len(text) \in 0..Len(text)
  BY NumberAssumption
<1>2. Parsed(text)[Len(text)] \in 0..Wrap
  BY <1>1, ParsedDefined
<1> QED  BY <1>1, <1>2 DEF ParseUnsigned, Bad

\* As long as the numeral of no prefix is too large, the accumulator has it.
LEMMA ParsedIsDecimal ==
  ASSUME NEW text \in Seq(0..9), NEW value \in [0..Len(text) -> Nat], value[0] = 0,
         \A i \in 1..Len(text) : value[i] = value[i - 1] * 10 + text[i],
         \A i \in 1..Len(text) : Parsed(text)[i - 1] = value[i - 1] => value[i] < Wrap
  PROVE  \A i \in 0..Len(text) : Parsed(text)[i] = value[i]
<1> DEFINE n == Len(text)
           acc == Parsed(text)
           S == {i \in 0..n : acc[i] = value[i]}
<1>1. /\ n \in Nat /\ Wrap \in Nat
      /\ \A i \in 1..n : text[i] \in 0..9 /\ text[i] \in Nat /\ i - 1 \in 0..n
  BY NumberAssumption, DigitsOf
<1>2. acc[0] = 0 /\ \A i \in 1..n : acc[i] = NextParsed(acc[i - 1], text[i])
  BY ParsedDefined
<1> HIDE DEF acc
<1>3. S \subseteq 0..n /\ 0 \in S
  BY <1>1, <1>2
<1>4. ASSUME NEW i \in 1..n, i - 1 \in S PROVE i \in S
  <2>1. /\ acc[i - 1] = value[i - 1] /\ value[i - 1] \in Nat /\ text[i] \in 0..9
        /\ value[i] = value[i - 1] * 10 + text[i] /\ value[i] < Wrap
    <3>1. acc[i - 1] = value[i - 1]
      BY <1>4
    <3>2. value[i - 1] \in Nat /\ text[i] \in 0..9
      BY <1>1
    <3>3. value[i] = value[i - 1] * 10 + text[i]
      OBVIOUS
    <3>4. Parsed(text)[i - 1] = value[i - 1]
      BY <3>1 DEF acc
    <3> QED  BY <3>1, <3>2, <3>3, <3>4
  <2>2. acc[i - 1] \in 0..Wrap /\ acc[i - 1] # Bad
    <3>1. acc[i - 1] \in Nat /\ acc[i - 1] < Wrap
      BY <1>1, <2>1
    <3> QED  BY <1>1, <3>1 DEF Bad
  <2>3. NextParsed(acc[i - 1], text[i]) = acc[i - 1] * 10 + text[i]
    BY <2>1, <2>2, NextParsedRange
  <2> QED  BY <1>2, <2>1, <2>3
<1> HIDE DEF S
<1>5. \A i \in 0..n : i \in S
  BY <1>1, <1>3, <1>4, AlongSteps
<1> QED  BY <1>5 DEF S, acc

\* parse_unsigned reads a number below 2^w as it is written, leading zeros or not
\* (payload/util.c).
THEOREM SmallIsRead ==
  ASSUME NEW text \in Seq(0..9), text # <<>>, Decimal(text) < Wrap
  PROVE  ParseUnsigned(text) = Decimal(text)
<1> DEFINE n == Len(text)
<1>1. /\ n \in Nat /\ Wrap \in Nat
      /\ \A i \in 1..n : text[i] \in 0..9 /\ text[i] \in Nat /\ i - 1 \in 0..n
  BY NumberAssumption, DigitsOf
<1>2. PICK value \in [0..n -> Nat] :
        /\ value[0] = 0 /\ \A i \in 1..n : value[i] = value[i - 1] * 10 + text[i]
        /\ Decimal(text) = value[n]
  BY DecimalDefined
<1>3. \A i \in 1..n : value[i - 1] <= value[i]
  <2> SUFFICES ASSUME NEW i \in 1..n PROVE value[i - 1] <= value[i]
    OBVIOUS
  <2>1. value[i - 1] \in Nat /\ text[i] \in Nat
    BY <1>1
  <2>2. value[i] = value[i - 1] * 10 + text[i]
    BY <1>2
  <2> QED  BY <2>1, <2>2
<1>4. \A i \in 0..n : value[i] <= value[n]
  BY <1>1, <1>3, LastIsMost
<1>5. ASSUME NEW i \in 1..n PROVE value[i] < Wrap
  <2>1. i \in 0..n /\ value[i] \in Nat /\ value[n] \in Nat
    BY <1>1
  <2> QED  BY <1>1, <1>2, <1>4, <2>1
<1>6. Parsed(text)[n] = value[n]
  <2>1. n \in 0..n
    BY <1>1
  <2> QED  BY <1>2, <1>5, <2>1, ParsedIsDecimal
<1> QED  BY <1>2, <1>6 DEF ParseUnsigned

\* A port that parse_unsigned reads is the number that was written, although the
\* test for overflow misses products that wrap past the old value, and larger
\* numbers may then be read as smaller ones (payload/util.c).
THEOREM PortIsRead ==
  ASSUME NEW text \in Seq(0..9), ParseUnsigned(text) \in 1..MaxPort
  PROVE  ParseUnsigned(text) = Decimal(text)
<1> DEFINE n == Len(text)
           acc == Parsed(text)
<1>1. /\ n \in Nat /\ \A i \in 1..n : text[i] \in 0..9 /\ i - 1 \in 0..n
      /\ Wrap \in Nat /\ MaxPort \in Nat /\ 10 * MaxPort + 9 < Wrap
  BY NumberAssumption, DigitsOf
<1>2. text # <<>> /\ acc[n] \in 1..MaxPort
  BY <1>1 DEF ParseUnsigned, Bad
<1>3. /\ acc \in [0..n -> 0..Wrap]
      /\ \A i \in 1..n : acc[i] = NextParsed(acc[i - 1], text[i])
  BY ParsedDefined
<1> HIDE DEF acc
<1>4. \A i \in 1..n : acc[i - 1] <= acc[i]
  <2> SUFFICES ASSUME NEW i \in 1..n PROVE acc[i - 1] <= acc[i]
    OBVIOUS
  <2>1. i - 1 \in 0..n
    BY <1>1
  <2>2. acc[i - 1] \in 0..Wrap /\ text[i] \in 0..9
    BY <1>1, <1>3, <2>1
  <2> QED  BY <1>3, <2>2, NextParsedRange
<1>5. acc \in [0..n -> Nat]
  BY <1>1, <1>3
<1>6. \A i \in 0..n : acc[i] <= acc[n]
  BY <1>1, <1>4, <1>5, LastIsMost
<1>7. PICK value \in [0..n -> Nat] :
        /\ value[0] = 0 /\ \A i \in 1..n : value[i] = value[i - 1] * 10 + text[i]
        /\ Decimal(text) = value[n]
  BY DecimalDefined
<1>8. ASSUME NEW i \in 1..n, acc[i - 1] = value[i - 1] PROVE value[i] < Wrap
  <2>1. i - 1 \in 0..n /\ text[i] \in 0..9
    BY <1>1
  <2>2. acc[i - 1] \in Nat /\ acc[i - 1] <= MaxPort
    BY <1>1, <1>2, <1>5, <1>6, <2>1
  <2>3. value[i] = acc[i - 1] * 10 + text[i]
    BY <1>7, <1>8
  <2> DEFINE a == acc[i - 1]
             d == text[i]
  <2>4. a * 10 + d < Wrap
    <3>1. a \in Nat /\ d \in 0..9 /\ a <= MaxPort
      BY <2>1, <2>2
    <3> HIDE DEF a, d
    <3> QED  BY <1>1, <3>1
  <2> QED  BY <2>3, <2>4
<1>9. acc[n] = value[n]
  <2>1. n \in 0..n
    BY <1>1
  <2> QED  BY <1>7, <1>8, <2>1, ParsedIsDecimal DEF acc
<1> QED  BY <1>2, <1>7, <1>9 DEF ParseUnsigned, acc

-----------------------------------------------------------------------------
\* Descriptors.

\* The places where descriptors may be open, and which.
Holding ==
  {"header", "open", "receive", "store", "finish", "discard", "copy", "copy out", "copied", "show",
   "request", "answer", "replies", "accept", "relay", "relay socket", "relay console"}

OpenInv ==
  /\ at \in {"header", "open"} => fds \subseteq {"socket"}
  /\ at \in {"receive", "store", "finish", "discard"} => fds \subseteq {"socket", "output"}
  /\ at \in {"copy", "copy out", "copied"} => fds \subseteq {"source", "output"}
  /\ at = "show" => fds \subseteq {"source"}
  /\ at \in {"request", "answer", "replies"} => fds \subseteq {"raw"}
  /\ at = "accept" => fds \subseteq {"listener"}
  /\ at \in {"relay", "relay socket", "relay console"} => fds \subseteq {"socket", "listener"}
  /\ at \notin Holding => fds = {}

\* Steps that neither move the shell nor open or close anything.
Elsewhere == UNCHANGED <<at, fds>>

LEMMA OpenFetch ==
  ASSUME OpenInv,
         FetchConnect \/ FetchHeader \/ FetchOpen \/ FetchRead \/ FetchWrite \/ FetchFinish
  PROVE  OpenInv'
<1>1. CASE FetchConnect
  BY <1>1 DEF OpenInv, Holding, FetchConnect, Dial, Return, Usage
<1>2. CASE FetchHeader
  BY <1>2 DEF OpenInv, Holding, FetchHeader, Return
<1>3. CASE FetchOpen
  BY <1>3 DEF OpenInv, Holding, FetchOpen, Return
<1>4. CASE FetchRead
  BY <1>4 DEF OpenInv, Holding, FetchRead
<1>5. CASE FetchWrite
  BY <1>5 DEF OpenInv, Holding, FetchWrite
<1>6. CASE FetchFinish
  BY <1>6 DEF OpenInv, Holding, FetchFinish, Return
<1> QED  BY <1>1, <1>2, <1>3, <1>4, <1>5, <1>6

LEMMA OpenFiles ==
  ASSUME OpenInv,
         CpOpen \/ CpRead \/ CpWrite \/ CpClose \/ Cat \/ Show \/ Touch \/ Unlink
  PROVE  OpenInv'
<1>1. CASE CpOpen
  BY <1>1 DEF OpenInv, Holding, CpOpen, Return
<1>2. CASE CpRead
  BY <1>2 DEF OpenInv, Holding, CpRead
<1>3. CASE CpWrite
  BY <1>3 DEF OpenInv, Holding, CpWrite
<1>4. CASE CpClose
  BY <1>4 DEF OpenInv, Holding, CpClose, Return
<1>5. CASE Cat
  BY <1>5 DEF OpenInv, Holding, Cat, Return
<1>6. CASE Show
  BY <1>6 DEF OpenInv, Holding, Show
<1>7. CASE Touch
  BY <1>7 DEF OpenInv, Holding, Touch, Return
<1>8. CASE Unlink
  BY <1>8 DEF OpenInv, Holding, Unlink, Return
<1> QED  BY <1>1, <1>2, <1>3, <1>4, <1>5, <1>6, <1>7, <1>8

LEMMA OpenPing ==
  ASSUME OpenInv, PingOpen \/ PingSend \/ PingTimeout \/ PingReceive \/ PingClose
  PROVE  OpenInv'
<1>1. CASE PingOpen
  BY <1>1 DEF OpenInv, Holding, PingOpen, Return
<1>2. CASE PingSend
  BY <1>2 DEF OpenInv, Holding, PingSend, NextRequest
<1>3. CASE PingTimeout
  BY <1>3 DEF OpenInv, Holding, PingTimeout, NextRequest
<1>4. CASE PingReceive
  BY <1>4 DEF OpenInv, Holding, PingReceive, NextRequest
<1>5. CASE PingClose
  BY <1>5 DEF OpenInv, Holding, PingClose, Return
<1> QED  BY <1>1, <1>2, <1>3, <1>4, <1>5

LEMMA OpenRelay ==
  ASSUME OpenInv, NcConnect \/ NcListen \/ NcAccept \/ RelayPoll \/ RelayToConsole \/ RelayToSocket
  PROVE  OpenInv'
<1>1. CASE NcConnect
  BY <1>1 DEF OpenInv, Holding, NcConnect, Dial, Return, Usage
<1>2. CASE NcListen
  BY <1>2 DEF OpenInv, Holding, NcListen, Return, Usage
<1>3. CASE NcAccept
  BY <1>3 DEF OpenInv, Holding, NcAccept, Dial, Return
<1>4. CASE RelayPoll
  BY <1>4 DEF OpenInv, Holding, RelayPoll, HangUp, Return
<1>5. CASE RelayToConsole
  BY <1>5 DEF OpenInv, Holding, RelayToConsole, HangUp, Return
<1>6. CASE RelayToSocket
  BY <1>6 DEF OpenInv, Holding, RelayToSocket, HangUp, Return
<1> QED  BY <1>1, <1>2, <1>3, <1>4, <1>5, <1>6

LEMMA OpenRun ==
  ASSUME OpenInv, RunClone \/ Exec \/ Wait \/ ReadLine
  PROVE  OpenInv'
<1>1. CASE RunClone
  BY <1>1 DEF OpenInv, Holding, RunClone, Return
<1>2. CASE Exec
  BY <1>2 DEF OpenInv, Holding, Exec
<1>3. CASE Wait
  BY <1>3 DEF OpenInv, Holding, Wait, Return
<1>4. CASE ReadLine
  BY <1>4 DEF OpenInv, Holding, ReadLine, RunCommand, Builtins
<1> QED  BY <1>1, <1>2, <1>3, <1>4

LEMMA OpenElsewhere ==
  ASSUME OpenInv, Elsewhere
  PROVE  OpenInv'
BY DEF OpenInv, Holding, Elsewhere

LEMMA OpenStep == OpenInv /\ [Next]_vars => OpenInv'
<1> SUFFICES ASSUME OpenInv, [Next]_vars  PROVE OpenInv'
  OBVIOUS
<1>1. CASE UNCHANGED vars
  BY <1>1, OpenElsewhere DEF vars, Elsewhere
<1>2. CASE Run \/ ReadLine \/ NcAccept
  BY <1>2, OpenFetch, OpenFiles, OpenPing, OpenRelay, OpenRun DEF Run
<1>3. ASSUME NEW line, Type(line)  PROVE OpenInv'
  BY <1>3, OpenElsewhere DEF Type, Elsewhere
<1>4. ASSUME NEW p, ProgramForks(p) \/ ProgramEnds(p)  PROVE OpenInv'
  BY <1>4, OpenElsewhere DEF ProgramForks, ProgramEnds, Elsewhere
<1>5. ASSUME NEW m, Arrive(m) \/ Lose \/ PeerSends \/ PeerEnds  PROVE OpenInv'
  BY <1>5, OpenElsewhere DEF Arrive, Lose, PeerSends, PeerEnds, Elsewhere
<1> QED  BY <1>1, <1>2, <1>3, <1>4, <1>5 DEF Next

\* At the prompt every descriptor is closed (payload/*.c): the invariant
\* gives for each place what may be open there.
THEOREM PromptClosesAll == Spec => []DescriptorsClosed
<1>1. Init => OpenInv
  BY DEF Init, OpenInv, Holding
<1>2. OpenInv => DescriptorsClosed
  BY DEF OpenInv, Holding, DescriptorsClosed
<1> QED  BY <1>1, <1>2, OpenStep, PTL DEF Spec

-----------------------------------------------------------------------------
\* cp.

IsFile(f) == f = Copy(f.of, f.size) /\ f.size \in Nat

FetchPlaces == {"fetch", "header", "open", "receive", "store", "finish", "discard"}
CopyPlaces == {"cp", "copy", "copy out", "copied"}

\* What is typed, and what the files are.
TypedInv ==
  /\ session \in Sessions /\ command \in session \cup {Data}
  /\ typed \in Seq(session \cup {Data, Eof})
  /\ files = [p \in Paths |-> files[p]]
  /\ \A p \in Paths : files[p] = None \/ IsFile(files[p])

\* What is written where.
WriteInv ==
  /\ at \in FetchPlaces => command.name = "fetch"
  /\ at \in CopyPlaces => command.name = "cp"
  /\ at = "cp" => total = 0
  /\ at \in {"receive", "store"} => IsFile(files[command.path])
  /\ at \in {"copy", "copy out"} => IsFile(files[command.to]) /\ total \in Nat
  /\ at \in {"store", "copy out"} => buffer \in Nat

\* How far a copy is.
CopyInv ==
  command.name = "cp" /\ command.from # command.to =>
    /\ at \in CopyPlaces \cup {"prompt"}
    /\ at = "cp" => files = before /\ said = {}
    /\ at \in {"copy", "copy out", "copied"} =>
         files[command.from] = before[command.from] /\ IsFile(files[command.from])
    /\ at \in {"copy", "copy out"} => ~Failed /\ files[command.to].of = files[command.from].of
    /\ at = "copy" => files[command.to].size = total
    /\ at = "copy out" => files[command.to].size + buffer = total
    /\ at \in {"copied", "prompt"} => Failed \/ files[command.to] = before[command.from]

FilesInv == TypedInv /\ WriteInv /\ CopyInv

\* The numbers a read may return.
LEMMA PiecesAreNumbers == \A k : \A n \in Pieces(k) : n \in Nat
BY DEF Pieces

LEMMA SumIsNumber == \A k, n \in Nat : k + n \in Nat
OBVIOUS

LEMMA BelowIsNumber == \A k \in Nat : \A n \in 0..(k - 1) : n \in Nat
OBVIOUS

\* What is typed, after a line more or less.
LEMMA MoreTyped ==
  ASSUME NEW S, NEW line \in S, typed \in Seq(S), typed' = Append(typed, line)
  PROVE  typed' \in Seq(S)
OBVIOUS

LEMMA LessTyped ==
  ASSUME NEW S, typed \in Seq(S), typed # <<>>, typed' = Tail(typed)
  PROVE  typed' \in Seq(S)
OBVIOUS

LEMMA CopyIsFile ==
  ASSUME NEW of, NEW n \in Nat
  PROVE  IsFile(Copy(of, n)) /\ Copy(of, n).of = of /\ Copy(of, n).size = n
BY DEF IsFile, Copy

\* A file is set and the others stay.
LEMMA SetOne ==
  ASSUME TypedInv, NEW path \in Paths, NEW f, SetFile(path, f), f = None \/ IsFile(f)
  PROVE  /\ files' = [p \in Paths |-> files'[p]]
         /\ \A p \in Paths : files'[p] = None \/ IsFile(files'[p])
         /\ files'[path] = f
         /\ \A p \in Paths \ {path} : files'[p] = files[p]
BY DEF TypedInv, SetFile

LEMMA GrowOne ==
  ASSUME TypedInv, NEW path \in Paths, NEW n \in Nat, Grow(path, n), IsFile(files[path])
  PROVE  /\ files' = [p \in Paths |-> files'[p]]
         /\ \A p \in Paths : files'[p] = None \/ IsFile(files'[p])
         /\ IsFile(files'[path])
         /\ files'[path].of = files[path].of /\ files'[path].size = files[path].size + n
         /\ \A p \in Paths \ {path} : files'[p] = files[p]
<1>1. files[path].size + n \in Nat
  BY DEF IsFile
<1> QED  BY <1>1, CopyIsFile, SetOne DEF Grow

\* The words of a command.
LEMMA PathsTyped ==
  ASSUME TypedInv
  PROVE  /\ command.name = "fetch" => command.path \in Paths
         /\ command.name = "cp" => command.from \in Paths /\ command.to \in Paths
         /\ command.name \in {"fetch", "nc", "nc -l"} => command.port \in Seq(0..9)
<1>1. CASE command = Data
  BY <1>1 DEF Data
<1>2. CASE command \in session /\ session \in Sessions
  BY <1>2, CommandAssumption
<1> QED  BY <1>1, <1>2 DEF TypedInv

LEMMA FilesFetch ==
  ASSUME FilesInv,
         FetchConnect \/ FetchHeader \/ FetchOpen \/ FetchRead \/ FetchWrite \/ FetchFinish
  PROVE  FilesInv'
<1> USE DEF FilesInv, TypedInv, WriteInv, CopyInv, FetchPlaces, CopyPlaces
<1>1. CASE FetchConnect
  BY <1>1 DEF FetchConnect, Dial, Return, Usage, console, disk
<1>2. CASE FetchHeader
  BY <1>2 DEF FetchHeader, Return, console
<1>3. CASE FetchOpen
  <2>1. command.path \in Paths
    BY <1>3, PathsTyped DEF FetchOpen
  <2>2. IsFile(Copy(peer.size, 0))
    BY CopyIsFile
  <2>3. CASE at' = "prompt" /\ UNCHANGED files
    BY <1>3, <2>3 DEF FetchOpen, Return, SetFile, console
  <2>4. CASE at' = "prompt" /\ SetFile(command.path, None)
    BY <1>3, <2>1, <2>4, SetOne DEF FetchOpen, console
  <2>5. CASE at' = "receive" /\ SetFile(command.path, Copy(peer.size, 0))
    BY <1>3, <2>1, <2>2, <2>5, SetOne DEF FetchOpen, console
  <2> QED  BY <1>3, <2>3, <2>4, <2>5 DEF FetchOpen, Return
<1>4. CASE FetchRead
  BY <1>4, PiecesAreNumbers DEF FetchRead, console
<1>5. CASE FetchWrite
  <2>1. command.path \in Paths /\ IsFile(files[command.path])
    BY <1>5, PathsTyped DEF FetchWrite
  <2>2. PICK n \in Nat : Grow(command.path, n)
    BY <1>5 DEF FetchWrite
  <2> QED  BY <1>5, <2>1, <2>2, GrowOne DEF FetchWrite, console
<1>6. CASE FetchFinish
  BY <1>6 DEF FetchFinish, Return, SetFile, console
<1> QED  BY <1>1, <1>2, <1>3, <1>4, <1>5, <1>6

LEMMA FilesCopy ==
  ASSUME FilesInv, CpOpen \/ CpRead \/ CpWrite \/ CpClose
  PROVE  FilesInv'
<1> USE DEF FilesInv, TypedInv, WriteInv, CopyInv, FetchPlaces, CopyPlaces, Failed
<1>0. at \in CopyPlaces => command.from \in Paths /\ command.to \in Paths
  BY PathsTyped
<1>1. CASE CpOpen
  <2>1. CASE at' = "prompt"
    BY <1>1, <2>1 DEF CpOpen, Return, Say, console
  <2>2. CASE /\ at' = "copy" /\ files[command.from] # None /\ UNCHANGED said
             /\ SetFile(command.to, Copy(files[command.from].of, 0))
    <3>1. IsFile(files[command.from]) /\ IsFile(Copy(files[command.from].of, 0))
      BY <1>0, <1>1, <2>2, CopyIsFile DEF CpOpen
    <3>2. Copy(files[command.from].of, 0).of = files[command.from].of
          /\ Copy(files[command.from].of, 0).size = 0
      BY DEF Copy
    <3> QED  BY <1>0, <1>1, <2>2, <3>1, <3>2, SetOne DEF CpOpen, console
  <2> QED  BY <1>1, <2>1, <2>2 DEF CpOpen, Return
<1>2. CASE CpRead
  <2>1. ASSUME NEW n \in Nat, at' = "copy out", buffer' = n, total' = total + n, UNCHANGED said
        PROVE  FilesInv'
    <3>1. TypedInv'
      BY <1>2 DEF CpRead, console
    <3>2. total \in Nat /\ IsFile(files'[command'.to]) /\ command'.name = "cp"
      BY <1>2 DEF CpRead, console
    <3>5. WriteInv'
      <4>1. total' \in Nat
        BY <2>1, <3>2, SumIsNumber
      <4> QED  BY <2>1, <3>2, <4>1
    <3>3. ASSUME command'.name = "cp", command'.from # command'.to
          PROVE  files'[command'.to].size + buffer' = total'
      BY <1>2, <2>1, <3>3 DEF CpRead, console
    <3>4. CopyInv'
      BY <1>2, <2>1, <3>3 DEF CpRead, console
    <3> QED  BY <3>1, <3>5, <3>4
  <2>2. CASE files[command.from].size = total /\ at' = "copied" /\ UNCHANGED <<said, buffer, total>>
    BY <1>0, <1>2, <2>2 DEF CpRead, console, IsFile
  <2>3. CASE at' = "copied" /\ Say("failed") /\ UNCHANGED <<buffer, total>>
    BY <1>2, <2>3 DEF CpRead, Say, console
  <2> QED  BY <1>2, <2>1, <2>2, <2>3, PiecesAreNumbers DEF CpRead
<1>3. CASE CpWrite
  <2>1. command.to \in Paths /\ IsFile(files[command.to])
    BY <1>0, <1>3 DEF CpWrite
  <2>2. CASE at' = "copy" /\ Grow(command.to, buffer) /\ UNCHANGED said
    BY <1>0, <1>3, <2>1, <2>2, GrowOne DEF CpWrite, console
  <2>3. ASSUME at' = "copied", NEW n \in 0..(buffer - 1), Grow(command.to, n), Say("failed")
        PROVE  FilesInv'
    <3>0. buffer \in Nat
      BY <1>3 DEF CpWrite
    <3>1. n \in Nat
      BY <2>3, <3>0, BelowIsNumber
    <3> QED  BY <1>0, <1>3, <2>1, <2>3, <3>1, GrowOne DEF CpWrite, Say, console
  <2> QED  BY <1>3, <2>2, <2>3 DEF CpWrite
<1>4. CASE CpClose
  BY <1>4 DEF CpClose, Return, console, disk
<1> QED  BY <1>1, <1>2, <1>3, <1>4

\* Steps elsewhere that leave the files and the command alone.
LEMMA FilesQuiet ==
  ASSUME FilesInv, at \notin FetchPlaces \cup CopyPlaces \cup {"prompt"},
         at' \notin FetchPlaces \cup CopyPlaces,
         UNCHANGED <<session, command, files>>, typed' \in Seq(session \cup {Data, Eof})
  PROVE  FilesInv'
BY DEF FilesInv, TypedInv, WriteInv, CopyInv, FetchPlaces, CopyPlaces

LEMMA FilesStill ==
  ASSUME FilesInv,
         UNCHANGED <<at, said, session, command, before, files, buffer, total>>,
         typed' \in Seq(session \cup {Data, Eof})
  PROVE  FilesInv'
BY DEF FilesInv, TypedInv, WriteInv, CopyInv, FetchPlaces, CopyPlaces, Failed

LEMMA FilesCommand ==
  ASSUME FilesInv, ReadLine
  PROVE  FilesInv'
<1> USE DEF FilesInv, TypedInv, WriteInv, CopyInv, FetchPlaces, CopyPlaces, Failed
<1>1. Head(typed) \in session \cup {Data, Eof} /\ typed' \in Seq(session \cup {Data, Eof})
  BY DEF ReadLine
<1>2. CASE Head(typed) = Eof
  BY <1>1, <1>2 DEF ReadLine
<1>3. CASE Head(typed) # Eof
  <2>1. TypedInv'
    BY <1>1, <1>3 DEF ReadLine, RunCommand
  <2>2. WriteInv'
    BY <1>3 DEF ReadLine, RunCommand, Builtins
  <2>3. CopyInv'
    BY <1>3 DEF ReadLine, RunCommand, Builtins
  <2> QED  BY <2>1, <2>2, <2>3
<1> QED  BY <1>2, <1>3

\* touch and rm.
LEMMA FilesOther ==
  ASSUME FilesInv, Touch \/ Unlink
  PROVE  FilesInv'
<1> USE DEF FilesInv, TypedInv, WriteInv, CopyInv, FetchPlaces, CopyPlaces
<1>1. CASE Touch
  <2>1. IsFile(Copy(<<0>>, 0))
    BY CopyIsFile
  <2> QED  BY <1>1, <2>1 DEF Touch, Return, console
<1>2. CASE Unlink
  BY <1>2 DEF Unlink, Return, SetFile, console
<1> QED  BY <1>1, <1>2

LEMMA FilesElsewhere ==
  ASSUME FilesInv,
         \/ Cat \/ Show \/ RunClone \/ Exec \/ Wait
         \/ PingOpen \/ PingSend \/ PingTimeout \/ PingReceive \/ PingClose
         \/ NcConnect \/ NcListen \/ NcAccept \/ RelayPoll \/ RelayToConsole \/ RelayToSocket
  PROVE  FilesInv'
<1> USE DEF FetchPlaces, CopyPlaces, console, disk
<1>0. typed \in Seq(session \cup {Data, Eof})
  BY DEF FilesInv, TypedInv
<1>1. CASE Cat \/ Show
  BY <1>0, <1>1, FilesQuiet DEF Cat, Show, Return
<1>2. CASE RunClone \/ Wait
  BY <1>0, <1>2, FilesQuiet DEF RunClone, Wait, Return
<1>3. CASE Exec
  BY <1>0, <1>3, FilesQuiet DEF Exec
<1>4. CASE PingOpen \/ PingClose
  BY <1>0, <1>4, FilesQuiet DEF PingOpen, PingClose, Return
<1>5. CASE PingSend \/ PingTimeout \/ PingReceive
  BY <1>0, <1>5, FilesQuiet DEF PingSend, PingTimeout, PingReceive, NextRequest
<1>6. CASE NcConnect \/ NcListen \/ NcAccept
  BY <1>0, <1>6, FilesQuiet DEF NcConnect, NcListen, NcAccept, Dial, Return, Usage
<1>7. CASE RelayPoll \/ RelayToConsole
  BY <1>0, <1>7, FilesQuiet DEF RelayPoll, RelayToConsole, HangUp, Return
<1>8. CASE RelayToSocket
  <2>1. typed' \in Seq(session \cup {Data, Eof})
    BY <1>0, <1>8, LessTyped DEF RelayToSocket
  <2> QED  BY <1>8, <2>1, FilesQuiet DEF RelayToSocket, HangUp, Return
<1> QED  BY <1>1, <1>2, <1>3, <1>4, <1>5, <1>6, <1>7, <1>8

LEMMA FilesInit == Init => FilesInv
<1>1. IsFile(Copy(LocalSize, Decimal(LocalSize)))
  BY DigitAssumption, DecimalIsNumber, CopyIsFile
<1> QED
  BY <1>1 DEF Init, FilesInv, TypedInv, WriteInv, CopyInv, FetchPlaces, CopyPlaces, Data

LEMMA FilesStep == FilesInv /\ [Next]_vars => FilesInv'
<1> SUFFICES ASSUME FilesInv, [Next]_vars  PROVE FilesInv'
  OBVIOUS
<1>0. typed \in Seq(session \cup {Data, Eof})
  BY DEF FilesInv, TypedInv
<1>1. CASE UNCHANGED vars
  BY <1>0, <1>1, FilesStill DEF vars, console, disk
<1>2. CASE Run \/ ReadLine \/ NcAccept
  BY <1>2, FilesFetch, FilesCopy, FilesOther, FilesElsewhere, FilesCommand DEF Run
<1>3. ASSUME NEW line \in session \cup {Data, Eof}, Type(line)  PROVE FilesInv'
  <2>1. typed' \in Seq(session \cup {Data, Eof})
    BY <1>0, <1>3, MoreTyped DEF Type
  <2> QED  BY <1>3, <2>1, FilesStill DEF Type, disk
<1>4. ASSUME NEW p, ProgramForks(p) \/ ProgramEnds(p)  PROVE FilesInv'
  BY <1>0, <1>4, FilesStill DEF ProgramForks, ProgramEnds, console, disk
<1>5. ASSUME NEW m, Arrive(m) \/ Lose \/ PeerSends \/ PeerEnds  PROVE FilesInv'
  BY <1>0, <1>5, FilesStill DEF Arrive, Lose, PeerSends, PeerEnds, console, disk
<1> QED  BY <1>1, <1>2, <1>3, <1>4, <1>5 DEF Next

\* A cp that prints no error has copied the whole file (payload/commands.c):
\* what is in the destination is what was read so far, and only an end of the
\* source ends the loop without a message.
THEOREM CopyComplete == Spec => []CopiedOrFailed
<1>1. FilesInv => CopiedOrFailed
  BY DEF FilesInv, CopyInv, CopiedOrFailed, Done
<1> QED  BY <1>1, FilesInit, FilesStep, PTL DEF Spec

-----------------------------------------------------------------------------
\* ping.

\* With r counted, the replies in the queue q do not bring the count above a:
\* n[i] bounds the count once the first i messages have been received.
Counted(q, r, a) ==
  \E n \in [0..Len(q) -> Nat] :
    /\ r <= n[0]
    /\ \A i \in 0..Len(q) : n[i] <= a
    /\ \A i \in 1..Len(q) : n[i - 1] <= n[i] /\ (q[i] = "reply" => n[i - 1] < n[i])

Messages == Seq({"reply", "other"})
WireType == [pending : Nat, queue : Messages]
PingType == [seq : Nat, answered : Nat, received : Nat]

PingInv ==
  /\ wire \in WireType /\ ping \in PingType /\ ping.received <= ping.answered
  /\ at = "ping" => ping.received = 0
  /\ at \in {"request", "answer"} => Counted(wire.queue, ping.received, ping.answered)

LEMMA CountedEmpty ==
  ASSUME NEW r \in Nat, NEW a \in Nat, r <= a
  PROVE  Counted(<<>>, r, a)
<1> DEFINE n == [i \in 0..0 |-> a]
<1>1. n \in [0..0 -> Nat] /\ Len(<<>>) = 0
  OBVIOUS
<1>2. r <= n[0] /\ \A i \in 0..0 : n[i] <= a
  OBVIOUS
<1>3. 1..0 = {}
  OBVIOUS
<1> HIDE DEF n
<1> QED  BY <1>1, <1>2, <1>3 DEF Counted

LEMMA CountedMore ==
  ASSUME NEW q \in Seq({"reply", "other"}), NEW r \in Nat, NEW a \in Nat, Counted(q, r, a),
         NEW m \in {"reply", "other"}
  PROVE  Counted(Append(q, m), r, IF m = "reply" THEN a + 1 ELSE a)
<1>1. PICK n \in [0..Len(q) -> Nat] :
        /\ r <= n[0]
        /\ \A i \in 0..Len(q) : n[i] <= a
        /\ \A i \in 1..Len(q) : n[i - 1] <= n[i] /\ (q[i] = "reply" => n[i - 1] < n[i])
  BY DEF Counted
<1> DEFINE k == Len(q)
           b == IF m = "reply" THEN a + 1 ELSE a
           o == [i \in 0..(k + 1) |-> IF i = k + 1 THEN b ELSE n[i]]
<1>2. k \in Nat /\ Len(Append(q, m)) = k + 1 /\ b \in Nat /\ a <= b
  OBVIOUS
<1>3. o \in [0..(k + 1) -> Nat] /\ o[0] = n[0] /\ o[k + 1] = b
      /\ \A i \in 0..k : o[i] = n[i]
  BY <1>2
<1>4. \A i \in 0..(k + 1) : o[i] <= b
  <2> SUFFICES ASSUME NEW i \in 0..(k + 1) PROVE o[i] <= b
    OBVIOUS
  <2>1. CASE i = k + 1
    BY <1>2, <1>3, <2>1
  <2>2. CASE i # k + 1
    <3>1. i \in 0..k
      BY <1>2, <2>2
    <3>2. o[i] = n[i] /\ n[i] \in Nat /\ n[i] <= a
      BY <1>1, <1>3, <3>1
    <3> QED  BY <1>2, <3>2
  <2> QED  BY <2>1, <2>2
<1>5. ASSUME NEW i \in 1..(k + 1)
      PROVE  o[i - 1] <= o[i] /\ (Append(q, m)[i] = "reply" => o[i - 1] < o[i])
  <2>1. CASE i = k + 1
    <3>1. i - 1 = k /\ Append(q, m)[i] = m /\ o[i] = b
      BY <1>2, <1>3, <2>1
    <3>2. o[i - 1] = n[k] /\ n[k] \in Nat /\ n[k] <= a
      BY <1>1, <1>2, <1>3, <3>1
    <3> QED  BY <1>2, <3>1, <3>2
  <2>2. CASE i # k + 1
    <3>1. i \in 1..k /\ i \in 0..k /\ i - 1 \in 0..k
      BY <1>2, <2>2
    <3>2. o[i] = n[i] /\ o[i - 1] = n[i - 1] /\ Append(q, m)[i] = q[i]
      BY <1>3, <3>1
    <3> QED  BY <1>1, <3>1, <3>2
  <2> QED  BY <2>1, <2>2
<1> QED
  <2> HIDE DEF o, b, k
  <2> QED  BY <1>1, <1>2, <1>3, <1>4, <1>5 DEF Counted, b

LEMMA CountedLess ==
  ASSUME NEW q \in Seq({"reply", "other"}), NEW r \in Nat, NEW a \in Nat, Counted(q, r, a), q # <<>>
  PROVE  LET s == IF Head(q) = "reply" THEN r + 1 ELSE r
         IN  Counted(Tail(q), s, a) /\ s <= a
<1> DEFINE k == Len(q)
           s == IF Head(q) = "reply" THEN r + 1 ELSE r
<1>1. PICK n \in [0..Len(q) -> Nat] :
        /\ r <= n[0]
        /\ \A i \in 0..Len(q) : n[i] <= a
        /\ \A i \in 1..Len(q) : n[i - 1] <= n[i] /\ (q[i] = "reply" => n[i - 1] < n[i])
  BY DEF Counted
<1>2. k \in Nat \ {0} /\ Len(Tail(q)) = k - 1 /\ Head(q) = q[1]
      /\ \A i \in 1..(k - 1) : Tail(q)[i] = q[i + 1]
  OBVIOUS
<1> DEFINE o == [i \in 0..(k - 1) |-> n[i + 1]]
<1>3. o \in [0..(k - 1) -> Nat] /\ \A i \in 0..(k - 1) : o[i] = n[i + 1] /\ i + 1 \in 1..k
  BY <1>2
<1>4. s <= o[0] /\ s \in Nat
  <2>1. 1 \in 1..k /\ o[0] = n[1] /\ n[0] \in Nat /\ n[1] \in Nat
    BY <1>2, <1>3
  <2>2. n[0] <= n[1] /\ (q[1] = "reply" => n[0] < n[1])
    <3>1. n[1 - 1] <= n[1] /\ (q[1] = "reply" => n[1 - 1] < n[1])
      BY <1>1, <2>1
    <3> QED  BY <3>1
  <2> QED  BY <1>1, <1>2, <2>1, <2>2
<1>5. \A i \in 0..(k - 1) : o[i] <= a
  BY <1>1, <1>2, <1>3
<1>6. ASSUME NEW i \in 1..(k - 1)
      PROVE  o[i - 1] <= o[i] /\ (Tail(q)[i] = "reply" => o[i - 1] < o[i])
  <2>1. i \in 0..(k - 1) /\ i - 1 \in 0..(k - 1) /\ (i - 1) + 1 = i /\ i + 1 \in 1..k /\ (i + 1) - 1 = i
    BY <1>2
  <2>2. o[i] = n[i + 1] /\ o[i - 1] = n[i]
    BY <1>3, <2>1
  <2>3. n[(i + 1) - 1] <= n[i + 1] /\ (q[i + 1] = "reply" => n[(i + 1) - 1] < n[i + 1])
    BY <1>1, <2>1
  <2> QED  BY <1>2, <2>1, <2>2, <2>3
<1>7. s <= a
  <2>1. o[0] \in Nat /\ o[0] <= a
    BY <1>2, <1>3, <1>5
  <2> QED  BY <1>4, <2>1
<1> QED
  <2> HIDE DEF o, s, k
  <2>1. Counted(Tail(q), s, a)
    BY <1>2, <1>3, <1>4, <1>5, <1>6 DEF Counted
  <2> QED  BY <1>7, <2>1 DEF s

LEMMA PingStill ==
  ASSUME PingInv, UNCHANGED <<wire, ping>>,
         at' \in {"ping", "request", "answer"} => at' = at
  PROVE  PingInv'
BY DEF PingInv

\* A round is over, with or without a reply.
LEMMA NextRound ==
  ASSUME ping \in PingType, NEW n \in {0, 1}, NextRequest(n)
  PROVE  /\ ping' \in PingType /\ at' \in {"request", "replies"}
         /\ ping'.answered = ping.answered /\ ping'.received = ping.received + n
<1> DEFINE x == IF ping.seq = 3 THEN 3 ELSE ping.seq + 1
           y == ping.received + n
<1>1. x \in Nat /\ y \in Nat
  BY DEF PingType
<1>2. ping' = [ping EXCEPT !.seq = x, !.received = y] /\ at' \in {"request", "replies"}
  BY DEF NextRequest
<1> HIDE DEF x, y
<1>3. ping' \in PingType /\ ping'.answered = ping.answered /\ ping'.received = y
  BY <1>1, <1>2 DEF PingType
<1> QED  BY <1>2, <1>3 DEF y

LEMMA QueueSet ==
  ASSUME wire \in WireType, NEW q \in Messages, wire' = [wire EXCEPT !.queue = q]
  PROVE  wire' \in WireType /\ wire'.queue = q
BY DEF WireType

LEMMA TailTyped == ASSUME NEW q \in Messages, q # <<>> PROVE Tail(q) \in Messages
BY DEF Messages

LEMMA PingRounds ==
  ASSUME PingInv, PingOpen \/ PingSend \/ PingTimeout \/ PingReceive \/ PingClose
  PROVE  PingInv'
<1>0. /\ wire \in WireType /\ ping \in PingType /\ wire.queue \in Messages
      /\ ping.received \in Nat /\ ping.answered \in Nat /\ ping.received <= ping.answered
  BY DEF PingInv, WireType, PingType
<1>1. CASE PingOpen
  <2>1. CASE Return({}) /\ UNCHANGED icmp
    BY <2>1 DEF PingInv, Return, icmp
  <2>2. CASE at' = "request" /\ UNCHANGED ping /\ wire' = [wire EXCEPT !.queue = <<>>]
    <3>1. <<>> \in Messages
      BY DEF Messages
    <3>2. wire' \in WireType /\ wire'.queue = <<>>
      BY <1>0, <2>2, <3>1, QueueSet
    <3>3. Counted(<<>>, ping.received, ping.answered)
      BY <1>0, CountedEmpty
    <3> QED  BY <1>0, <2>2, <3>2, <3>3 DEF PingInv
  <2> QED  BY <1>1, <2>1, <2>2 DEF PingOpen
<1>2. CASE PingSend
  <2>1. CASE /\ at' = "answer" /\ UNCHANGED ping
             /\ wire' = [wire EXCEPT !.pending = IF @ = MaxPending THEN @ ELSE @ + 1]
    <3> DEFINE n == IF wire.pending = MaxPending THEN wire.pending ELSE wire.pending + 1
    <3>1. n \in Nat
      BY <1>0 DEF WireType
    <3>2. wire' = [wire EXCEPT !.pending = n]
      BY <2>1
    <3> HIDE DEF n
    <3>3. wire' \in WireType /\ wire'.queue = wire.queue
      BY <1>0, <3>1, <3>2 DEF WireType
    <3> QED  BY <1>0, <1>2, <2>1, <3>3 DEF PingInv, PingSend
  <2>2. CASE NextRequest(0) /\ UNCHANGED wire
    <3>1. /\ ping' \in PingType /\ at' \in {"request", "replies"}
          /\ ping'.answered = ping.answered /\ ping'.received = ping.received
      BY <1>0, <2>2, NextRound
    <3> QED  BY <1>0, <1>2, <2>2, <3>1 DEF PingInv, PingSend
  <2> QED  BY <1>2, <2>1, <2>2 DEF PingSend
<1>3. CASE PingTimeout
  <2>1. /\ ping' \in PingType /\ at' \in {"request", "replies"}
        /\ ping'.answered = ping.answered /\ ping'.received = ping.received
    BY <1>0, <1>3, NextRound DEF PingTimeout
  <2> QED  BY <1>0, <1>3, <2>1 DEF PingInv, PingTimeout
<1>4. CASE PingReceive
  <2> DEFINE n == IF Head(wire.queue) = "reply" THEN 1 ELSE 0
  <2>1. /\ at = "answer" /\ wire.queue # <<>> /\ wire' = [wire EXCEPT !.queue = Tail(wire.queue)]
        /\ NextRequest(n)
    BY <1>4 DEF PingReceive
  <2>2. Counted(wire.queue, ping.received, ping.answered)
    BY <2>1 DEF PingInv
  <2>3. Counted(Tail(wire.queue), ping.received + n, ping.answered) /\ ping.received + n <= ping.answered
    BY <1>0, <2>1, <2>2, CountedLess DEF Messages
  <2>4. /\ ping' \in PingType /\ at' \in {"request", "replies"}
        /\ ping'.answered = ping.answered /\ ping'.received = ping.received + n
    BY <1>0, <2>1, NextRound
  <2>5. wire' \in WireType /\ wire'.queue = Tail(wire.queue)
    BY <1>0, <2>1, TailTyped, QueueSet
  <2> HIDE DEF n
  <2> QED  BY <2>3, <2>4, <2>5 DEF PingInv
<1>5. CASE PingClose
  BY <1>5 DEF PingInv, PingClose, Return, icmp
<1> QED  BY <1>1, <1>2, <1>3, <1>4, <1>5

LEMMA PingArrive ==
  ASSUME PingInv, OpenInv, NEW m \in {"reply", "other"}, Arrive(m)
  PROVE  PingInv'
<1>0. /\ wire \in WireType /\ ping \in PingType /\ wire.queue \in Messages /\ wire.pending \in Nat
      /\ ping.received \in Nat /\ ping.answered \in Nat /\ ping.received <= ping.answered
      /\ at' = at /\ wire.pending - 1 \in Nat
  BY DEF PingInv, WireType, PingType, Arrive
<1>1. at = "ping" => ping.received = 0
  BY DEF PingInv
<1>2. CASE "raw" \in fds
  <2> DEFINE b == IF m = "reply" THEN ping.answered + 1 ELSE ping.answered
  <2>1. b \in Nat /\ ping.received <= b
    <3>1. b \in {ping.answered, ping.answered + 1}
      OBVIOUS
    <3> HIDE DEF b
    <3> QED  BY <1>0, <3>1
  <2>2. ping' \in PingType /\ ping'.received = ping.received /\ ping'.answered = b
    <3>1. CASE m = "reply"
      <4>1. b = ping.answered + 1 /\ ping' = [ping EXCEPT !.answered = b]
        BY <1>2, <3>1 DEF Arrive
      <4> HIDE DEF b
      <4> QED  BY <1>0, <2>1, <4>1 DEF PingType
    <3>2. CASE m # "reply"
      BY <1>0, <1>2, <3>2 DEF Arrive
    <3> QED  BY <3>1, <3>2
  <2>3. wire' = [pending |-> wire.pending - 1, queue |-> Append(wire.queue, m)]
    BY <1>2 DEF Arrive
  <2>4. Append(wire.queue, m) \in Messages
    BY <1>0 DEF Messages
  <2>5. wire' \in WireType /\ wire'.queue = Append(wire.queue, m)
    BY <1>0, <2>3, <2>4 DEF WireType
  <2>6. at \in {"request", "answer"} => Counted(Append(wire.queue, m), ping.received, b)
    BY <1>0, CountedMore DEF PingInv, Messages
  <2> HIDE DEF b
  <2> QED  BY <1>0, <1>1, <2>1, <2>2, <2>5, <2>6 DEF PingInv
<1>3. CASE "raw" \notin fds
  <2>1. ping' = ping /\ wire' = [pending |-> wire.pending - 1, queue |-> wire.queue]
    BY <1>3 DEF Arrive
  <2>2. wire' \in WireType /\ wire'.queue = wire.queue
    BY <1>0, <2>1 DEF WireType
  <2> QED  BY <1>0, <2>1, <2>2 DEF PingInv
<1> QED  BY <1>2, <1>3

LEMMA PingElsewhere ==
  ASSUME PingInv, OpenInv, [Next]_vars
  PROVE  PingInv'
<1>1. CASE UNCHANGED vars
  BY <1>1, PingStill DEF vars, icmp
<1>2. CASE PingOpen \/ PingSend \/ PingTimeout \/ PingReceive \/ PingClose
  BY <1>2, PingRounds
<1>3. CASE FetchConnect \/ FetchHeader \/ FetchOpen \/ FetchRead \/ FetchWrite \/ FetchFinish
  BY <1>3, PingStill DEF FetchConnect, FetchHeader, FetchOpen, FetchRead, FetchWrite, FetchFinish,
    Dial, Return, Usage, icmp
<1>4. CASE CpOpen \/ CpRead \/ CpWrite \/ CpClose \/ Cat \/ Show \/ Touch \/ Unlink
  BY <1>4, PingStill DEF CpOpen, CpRead, CpWrite, CpClose, Cat, Show, Touch, Unlink, Return, icmp
<1>5. CASE RunClone \/ Exec \/ Wait
  BY <1>5, PingStill DEF RunClone, Exec, Wait, Return, icmp
<1>6. CASE NcConnect \/ NcListen \/ NcAccept
  BY <1>6, PingStill DEF NcConnect, NcListen, NcAccept, Dial, Return, Usage, icmp
<1>7. CASE RelayPoll \/ RelayToConsole \/ RelayToSocket
  BY <1>7, PingStill DEF RelayPoll, RelayToConsole, RelayToSocket, HangUp, Return, icmp
<1>8. CASE ReadLine
  <2>1. CASE UNCHANGED ping /\ UNCHANGED at
    BY <1>8, <2>1, PingStill DEF ReadLine
  <2>2. CASE RunCommand(Head(typed))
    <3> DEFINE start == [seq |-> 1, answered |-> 0, received |-> 0]
    <3>1. start \in PingType /\ start.received = 0 /\ start.answered = 0
      BY DEF PingType
    <3>2. ping' = start /\ at' \notin {"request", "answer"} /\ wire' = wire
      BY <1>8, <2>2 DEF ReadLine, RunCommand, Builtins
    <3> HIDE DEF start
    <3> QED  BY <3>1, <3>2 DEF PingInv
  <2> QED  BY <1>8, <2>1, <2>2 DEF ReadLine
<1>9. ASSUME NEW line, NEW p, NEW m \in {"reply", "other"},
             \/ Type(line) \/ ProgramForks(p) \/ ProgramEnds(p) \/ PeerSends \/ PeerEnds
      PROVE  PingInv'
  BY <1>9, PingStill DEF Type, ProgramForks, ProgramEnds, PeerSends, PeerEnds, icmp
<1>10. CASE Lose
  BY <1>10 DEF Lose, PingInv, WireType
<1> QED
  BY <1>1, <1>2, <1>3, <1>4, <1>5, <1>6, <1>7, <1>8, <1>9, <1>10, PingArrive DEF Next, Run

\* ping never counts a reply that has not come (payload/net.c): a reply is
\* counted when it is taken from the queue, and each was put there once.
THEOREM RepliesCounted == Spec => []CountsReplies
<1>1. Init => OpenInv /\ PingInv
  BY DEF Init, OpenInv, Holding, PingInv, WireType, PingType, Messages
<1>2. OpenInv /\ PingInv /\ [Next]_vars => OpenInv' /\ PingInv'
  BY OpenStep, PingElsewhere
<1>3. PingInv => CountsReplies
  BY DEF PingInv, CountsReplies
<1> QED  BY <1>1, <1>2, <1>3, PTL DEF Spec

-----------------------------------------------------------------------------
\* run.

Exits == [how : {"exited"}, code : 0..255]
Signals == [how : {"killed", "dumped"}, code : 1..127]
ProcessType == [is : {"none", "forked", "running", "zombie"}, parent : Nat \cup Pids,
                end : Exits \cup Signals \cup {None}]

\* What the shell has printed is no status.
NoStatus(words) == \A n \in 0..255 : <<"exit", n>> \notin words /\ <<"signal", n>> \notin words

\* What is printed of an end, if it is of this one.
Truthful(words, e) ==
  /\ \A c \in 0..255 : <<"exit", c>> \in words => e = [how |-> "exited", code |-> c]
  /\ \A n \in 0..255 : <<"signal", n>> \in words => e.how # "exited" /\ e.code = n

\* The child is there until the shell has waited for it.
RunInv ==
  /\ procs \in [Pids -> ProcessType]
  /\ command.name = "run" => at \in {"run", "wait", "prompt"}
  /\ at \in {"run", "wait"} => NoStatus(said)
  /\ at = "wait" => /\ child \in Pids /\ procs[child].is \in {"forked", "running", "zombie"}
                    /\ procs[child].is = "zombie" =>
                         procs[child].end = ended /\ ended \in Exits \cup Signals
  /\ command.name = "run" /\ at = "prompt" => Truthful(said, ended)

\* The status of either width tells how the program ended.
LEMMA StatusTells ==
  ASSUME NEW e \in Exits \cup Signals, NEW s \in {KernelStatus(e), WaitidStatus(e)}
  PROVE  /\ e \in Exits => s % 128 = 0 /\ (s \div 256) % 256 = e.code
         /\ e \in Signals => s % 128 # 0 /\ s % 128 = e.code
<1>1. CASE e \in Exits
  <2>1. e.how = "exited" /\ e.code \in 0..255 /\ e \notin Signals
    BY <1>1 DEF Exits, Signals
  <2>2. KernelStatus(e) = (e.code % 256) * 256 /\ WaitidStatus(e) = (e.code % 256) * 256
    BY <2>1 DEF KernelStatus, WaitidStatus
  <2>3. e.code % 256 = e.code
    BY <2>1
  <2>4. s = e.code * 256
    BY <2>2, <2>3
  <2> DEFINE c == e.code
  <2>5. c \in 0..255 /\ s = c * 256
    BY <2>1, <2>4
  <2> HIDE DEF c
  <2>6. s % 128 = 0 /\ s \div 256 = c /\ c % 256 = c
    BY <2>5
  <2> QED  BY <2>1, <2>6 DEF c
<1>2. CASE e \in Signals
  <2>1. e.how \in {"killed", "dumped"} /\ e.code \in 1..127 /\ e \notin Exits
    BY <1>2 DEF Exits, Signals
  <2>2. e.code % 128 = e.code
    BY <2>1
  <2>3. s \in {e.code, e.code + 128}
    BY <2>1, <2>2 DEF KernelStatus, WaitidStatus
  <2> QED  BY <2>1, <2>3
<1> QED  BY <1>1, <1>2

\* What Report adds is true of the end whose status it is given.
LEMMA ReportTrue ==
  ASSUME NEW e \in Exits \cup Signals, NEW s \in {KernelStatus(e), WaitidStatus(e)},
         NoStatus(said), Report(s)
  PROVE  Truthful(said', e)
<1>1. CASE e \in Exits
  <2>1. s % 128 = 0 /\ (s \div 256) % 256 = e.code /\ e = [how |-> "exited", code |-> e.code]
    BY <1>1, StatusTells DEF Exits
  <2>2. said' = said \cup {<<"exit", e.code>>}
    BY <2>1 DEF Report
  <2> QED  BY <2>1, <2>2 DEF NoStatus, Truthful
<1>2. CASE e \in Signals
  <2>1. s % 128 # 0 /\ s % 128 = e.code /\ e.how # "exited"
    BY <1>2, StatusTells DEF Signals
  <2>2. said' = said \cup {<<"signal", e.code>>}
    BY <2>1 DEF Report
  <2> QED  BY <2>1, <2>2 DEF NoStatus, Truthful
<1> QED  BY <1>1, <1>2

LEMMA SayNoStatus == ASSUME NEW m, Say(m), NoStatus(said) PROVE NoStatus(said')
BY DEF Say, NoStatus

\* Steps of other commands.
LEMMA RunOther ==
  ASSUME RunInv, at \notin {"run", "wait", "prompt"}, at' \notin {"run", "wait"},
         UNCHANGED <<command, procs>>
  PROVE  RunInv'
BY DEF RunInv

LEMMA RunStill ==
  ASSUME RunInv, UNCHANGED <<at, said, command, procs, child, ended>>
  PROVE  RunInv'
<1>1. NoStatus(said') = NoStatus(said) /\ Truthful(said', ended') = Truthful(said, ended)
  BY DEF NoStatus, Truthful
<1> QED  BY <1>1 DEF RunInv

\* A new process takes nobody's place.
LEMMA ForkKeeps ==
  ASSUME RunInv, NEW p \in Pids, NEW parent \in Nat \cup Pids, NEW is \in {"forked", "running"},
         Fork(p, parent, is)
  PROVE  /\ procs' \in [Pids -> ProcessType] /\ procs'[p].is = is
         /\ procs[p].is = "none" /\ \A q \in Pids \ {p} : procs'[q] = procs[q]
<1> DEFINE new == [is |-> is, parent |-> parent, end |-> None]
<1>1. new \in ProcessType /\ new.is = is
  BY DEF ProcessType
<1>2. procs' = [procs EXCEPT ![p] = new] /\ procs[p].is = "none"
  BY DEF Fork, NoProcess
<1> HIDE DEF new
<1> QED  BY <1>1, <1>2 DEF RunInv

\* One that ends leaves the others where they are.
LEMMA EndKeeps ==
  ASSUME RunInv, NEW p \in Pids, NEW e \in Exits \cup Signals, End(p, e)
  PROVE  /\ procs' \in [Pids -> ProcessType]
         /\ procs'[p].is = "zombie" /\ procs'[p].end = e
         /\ \A q \in Pids \ {p} : procs'[q].is = procs[q].is /\ procs'[q].end = procs[q].end
<1>1. procs \in [Pids -> ProcessType]
  BY DEF RunInv
<1>2. ASSUME NEW r \in ProcessType
      PROVE  /\ [r EXCEPT !.is = "zombie", !.end = e] \in ProcessType
             /\ [r EXCEPT !.is = "zombie", !.end = e].is = "zombie"
             /\ [r EXCEPT !.is = "zombie", !.end = e].end = e
             /\ [r EXCEPT !.parent = 1] \in ProcessType
             /\ [r EXCEPT !.parent = 1].is = r.is /\ [r EXCEPT !.parent = 1].end = r.end
  BY DEF ProcessType
<1>3. \A q \in Pids : procs'[q] = IF q = p THEN [procs[p] EXCEPT !.is = "zombie", !.end = e]
                                 ELSE IF procs[q].parent = p THEN [procs[q] EXCEPT !.parent = 1]
                                 ELSE procs[q]
  BY DEF End
<1>4. DOMAIN procs' = Pids /\ procs' = [q \in Pids |-> procs'[q]]
  BY DEF End
<1>5. ASSUME NEW q \in Pids
      PROVE  /\ procs'[q] \in ProcessType
             /\ q = p => procs'[q].is = "zombie" /\ procs'[q].end = e
             /\ q # p => procs'[q].is = procs[q].is /\ procs'[q].end = procs[q].end
  <2> DEFINE dead == [procs[q] EXCEPT !.is = "zombie", !.end = e]
             adopted == [procs[q] EXCEPT !.parent = 1]
  <2>1. procs[q] \in ProcessType
    BY <1>1
  <2>2. /\ dead \in ProcessType /\ dead.is = "zombie" /\ dead.end = e
        /\ adopted \in ProcessType /\ adopted.is = procs[q].is /\ adopted.end = procs[q].end
    BY <1>2, <2>1
  <2>3. procs'[q] = IF q = p THEN dead ELSE IF procs[q].parent = p THEN adopted ELSE procs[q]
    BY <1>3
  <2> HIDE DEF dead, adopted
  <2> QED  BY <2>1, <2>2, <2>3
<1> QED
  <2>1. procs' \in [Pids -> ProcessType]
    BY <1>4, <1>5
  <2> QED  BY <2>1, <1>5

LEMMA RunEnds ==
  ASSUME RunInv, NEW p \in Pids, NEW e \in Exits \cup Signals, End(p, e),
         at' = at, command' = command, child' = child,
         at = "wait" => procs[p].is # "zombie",
         NoStatus(said) /\ at = "wait" => NoStatus(said'), at # "wait" => said' = said
  PROVE  RunInv'
<1>1. /\ procs' \in [Pids -> ProcessType]
      /\ procs'[p].is = "zombie" /\ procs'[p].end = e
      /\ \A q \in Pids \ {p} : procs'[q].is = procs[q].is /\ procs'[q].end = procs[q].end
  BY EndKeeps
<1>2. ended' = IF at = "wait" /\ child = p THEN e ELSE ended
  BY DEF End
<1>3. CASE at = "wait"
  <2>1. CASE child = p
    BY <1>1, <1>2, <1>3, <2>1 DEF RunInv
  <2>2. CASE child # p
    BY <1>1, <1>2, <1>3, <2>2 DEF RunInv
  <2> QED  BY <2>1, <2>2
<1>4. CASE at # "wait"
  BY <1>1, <1>2, <1>4 DEF RunInv, NoStatus, Truthful
<1> QED  BY <1>3, <1>4

LEMMA RunProgram ==
  ASSUME RunInv, RunClone \/ Exec \/ Wait
  PROVE  RunInv'
<1>1. CASE RunClone
  <2>1. CASE Return({}) /\ Say("failed") /\ UNCHANGED <<procs, child>>
    <3>1. NoStatus(said')
      BY <1>1, <2>1, SayNoStatus DEF RunClone, RunInv
    <3> QED  BY <1>1, <2>1, <3>1 DEF RunClone, Return, RunInv, NoStatus, Truthful, console
  <2>2. ASSUME NEW p \in Pids, Fork(p, 1, "forked"), child' = p, at' = "wait", UNCHANGED said
        PROVE  RunInv'
    <3>1. procs' \in [Pids -> ProcessType] /\ procs'[p].is = "forked"
      BY <2>2, ForkKeeps
    <3>2. NoStatus(said')
      BY <1>1, <2>2 DEF RunClone, RunInv
    <3> QED  BY <2>2, <3>1, <3>2 DEF RunInv
  <2> QED  BY <1>1, <2>1, <2>2 DEF RunClone
<1>2. CASE Exec
  <2>1. at = "wait" /\ at' = at /\ UNCHANGED console /\ child' = child /\ procs[child].is = "forked"
        /\ child \in Pids /\ procs \in [Pids -> ProcessType] /\ NoStatus(said)
    BY <1>2 DEF Exec, RunInv
  <2>2. CASE procs' = [procs EXCEPT ![child].is = "running"] /\ UNCHANGED <<said, ended>>
    <3>1. [procs[child] EXCEPT !.is = "running"] \in ProcessType
          /\ [procs[child] EXCEPT !.is = "running"].is = "running"
      BY <2>1 DEF ProcessType
    <3>2. procs' \in [Pids -> ProcessType] /\ procs'[child].is = "running"
      BY <2>1, <2>2, <3>1
    <3> QED  BY <2>1, <2>2, <3>2 DEF RunInv, console
  <2>3. CASE Say("failed") /\ End(child, [how |-> "exited", code |-> 127])
    <3>1. [how |-> "exited", code |-> 127] \in Exits \cup Signals
      BY DEF Exits
    <3>2. NoStatus(said')
      BY <2>1, <2>3, SayNoStatus
    <3> QED  BY <2>1, <2>3, <3>1, <3>2, RunEnds DEF console
  <2> QED  BY <1>2, <2>2, <2>3 DEF Exec
<1>3. CASE Wait
  <2>1. /\ at = "wait" /\ child \in Pids /\ procs[child].is = "zombie" /\ NoStatus(said)
        /\ procs[child].end = ended /\ ended \in Exits \cup Signals /\ procs \in [Pids -> ProcessType]
    BY <1>3 DEF Wait, RunInv
  <2>2. /\ at' = "prompt" /\ ended' = ended /\ procs' = [procs EXCEPT ![child] = NoProcess]
    BY <1>3 DEF Wait, Return
  <2>3. Report(KernelStatus(ended)) \/ Report(WaitidStatus(ended))
    BY <1>3, <2>1 DEF Wait
  <2>4. Truthful(said', ended)
    BY <2>1, <2>3, ReportTrue
  <2>5. NoProcess \in ProcessType
    BY DEF NoProcess, ProcessType
  <2>6. procs' \in [Pids -> ProcessType]
    BY <2>1, <2>2, <2>5
  <2> QED  BY <2>2, <2>4, <2>6 DEF RunInv, Truthful
<1> QED  BY <1>1, <1>2, <1>3

LEMMA RunPrograms ==
  ASSUME RunInv, NEW p \in Pids, ProgramForks(p) \/ ProgramEnds(p)
  PROVE  RunInv'
<1>1. ASSUME NEW q \in Pids, ProgramForks(p), Fork(q, p, "running") PROVE RunInv'
  <2>1. /\ procs' \in [Pids -> ProcessType] /\ procs[q].is = "none"
        /\ \A r \in Pids \ {q} : procs'[r] = procs[r]
    BY <1>1, ForkKeeps
  <2>2. UNCHANGED <<at, said, command, child, ended>>
    BY <1>1 DEF ProgramForks, console
  <2>3. at = "wait" => child # q
    BY <2>1 DEF RunInv
  <2>4. at = "wait" => procs'[child] = procs[child]
    BY <2>1, <2>3 DEF RunInv
  <2>5. NoStatus(said)' <=> NoStatus(said)
    BY <2>2 DEF NoStatus
  <2>6. Truthful(said, ended)' <=> Truthful(said, ended)
    BY <2>2 DEF Truthful
  <2> QED  BY <2>1, <2>2, <2>4, <2>5, <2>6 DEF RunInv
<1>2. ASSUME NEW e \in Ends, ProgramEnds(p), End(p, e) PROVE RunInv'
  <2>1. e \in Exits \cup Signals
    <3>1. e \in [how : {"exited"}, code : 0..255] \cup [how : {"killed", "dumped"}, code : 1..127]
      BY EndAssumption
    <3> QED  BY <3>1 DEF Exits, Signals
  <2>2. UNCHANGED <<at, said, command, child>> /\ procs[p].is = "running"
    BY <1>2 DEF ProgramEnds, console
  <2> QED  BY <1>2, <2>1, <2>2, RunEnds
<1> QED  BY <1>1, <1>2 DEF ProgramForks, ProgramEnds

LEMMA RunCommands ==
  ASSUME RunInv, ReadLine
  PROVE  RunInv'
<1>1. CASE UNCHANGED <<at, said, command, procs, child, ended>>
  BY <1>1, RunStill
<1>2. CASE RunCommand(Head(typed))
  <2>1. /\ command'.name = "run" => at' = "run" /\ said' = {}
        /\ at' \in {"run", "wait"} => said' = {}
        /\ at' # "wait" /\ procs' = procs
    BY <1>2 DEF RunCommand, Builtins, ReadLine
  <2> QED  BY <2>1 DEF RunInv, NoStatus
<1> QED  BY <1>1, <1>2 DEF ReadLine

LEMMA RunStep == ASSUME RunInv, [Next]_vars PROVE RunInv'
<1> USE DEF console, processes
<1>1. CASE UNCHANGED vars
  BY <1>1, RunStill DEF vars
<1>2. CASE RunClone \/ Exec \/ Wait \/ ReadLine
  BY <1>2, RunProgram, RunCommands
<1>3. CASE FetchConnect \/ FetchHeader \/ FetchOpen \/ FetchRead \/ FetchWrite \/ FetchFinish
  BY <1>3, RunOther DEF FetchConnect, FetchHeader, FetchOpen, FetchRead, FetchWrite, FetchFinish,
    Dial, Return, Usage
<1>4. CASE CpOpen \/ CpRead \/ CpWrite \/ CpClose \/ Cat \/ Show \/ Touch \/ Unlink
  BY <1>4, RunOther DEF CpOpen, CpRead, CpWrite, CpClose, Cat, Show, Touch, Unlink, Return
<1>5. CASE PingOpen \/ PingSend \/ PingTimeout \/ PingReceive \/ PingClose
  BY <1>5, RunOther DEF PingOpen, PingSend, PingTimeout, PingReceive, PingClose, NextRequest, Return
<1>6. CASE NcConnect \/ NcListen \/ NcAccept
  BY <1>6, RunOther DEF NcConnect, NcListen, NcAccept, Dial, Return, Usage
<1>7. CASE RelayPoll \/ RelayToConsole \/ RelayToSocket
  BY <1>7, RunOther DEF RelayPoll, RelayToConsole, RelayToSocket, HangUp, Return
<1>8. ASSUME NEW line, Type(line)  PROVE RunInv'
  BY <1>8, RunStill DEF Type
<1>9. ASSUME NEW m, Arrive(m) \/ Lose \/ PeerSends \/ PeerEnds  PROVE RunInv'
  BY <1>9, RunStill DEF Arrive, Lose, PeerSends, PeerEnds
<1> QED  BY <1>1, <1>2, <1>3, <1>4, <1>5, <1>6, <1>7, <1>8, <1>9, RunPrograms DEF Next, Run

\* run prints how its own program ended (payload/transfer.c, payload/syscall.c),
\* whatever other programs fork and end meanwhile and on either width.
THEOREM OwnProgramReported == Spec => []ReportsOwnProgram
<1>1. Init => RunInv
  BY DEF Init, RunInv, NoProcess, ProcessType, Data
<1>2. RunInv => ReportsOwnProgram
  BY DEF RunInv, Truthful, ReportsOwnProgram, Done
<1> QED  BY <1>1, <1>2, RunStep, PTL DEF Spec

-----------------------------------------------------------------------------
\* nc.

\* No more is taken of a connection than was sent, nor sent than there is.
PeerInv ==
  /\ {"is", "port", "size", "sent", "taken"} = DOMAIN peer /\ peer.sent \in Nat /\ peer.taken \in Nat
  /\ peer.size \in Sizes \cup {<<>>} /\ peer.taken <= peer.sent /\ peer.sent <= Decimal(peer.size)

LEMMA SizeIsNumber == \A size \in Sizes \cup {<<>>} : Decimal(size) \in Nat
BY DigitAssumption, DecimalIsNumber, DecimalOfNone

LEMMA PeerInit == Init => PeerInv
BY DecimalOfNone DEF Init, NoPeer, PeerInv

LEMMA NoPeerTyped == ASSUME peer' = NoPeer PROVE PeerInv'
BY DecimalOfNone DEF NoPeer, PeerInv

LEMMA DialTyped == ASSUME NEW next, Dial(next) PROVE PeerInv'
<1>1. PICK size \in Sizes :
        peer' = [NoPeer EXCEPT !.is = "open", !.port = ParseUnsigned(command.port), !.size = size]
  BY DEF Dial
<1> QED  BY <1>1, SizeIsNumber DEF NoPeer, PeerInv

\* A read takes some, no more than fits the buffer and no more than there is.
LEMMA PiecesThere ==
  ASSUME NEW k \in Int, NEW n \in Pieces(k)
  PROVE  n \in 1..BufferSize /\ n <= k
BY NumberAssumption DEF Pieces

LEMMA TakeTyped ==
  ASSUME PeerInv, NEW n \in Pieces(Available), peer' = [peer EXCEPT !.taken = @ + n]
  PROVE  PeerInv'
<1>1. Available \in Int /\ n \in Nat /\ n <= Available
  <2>1. Available \in Int
    BY DEF PeerInv, Available
  <2> QED  BY <2>1, PiecesThere, PiecesAreNumbers
<1>2. peer.taken + n \in Nat /\ peer.taken + n <= peer.sent
  BY <1>1 DEF PeerInv, Available
<1> QED  BY <1>2 DEF PeerInv

LEMMA PeerStill == ASSUME PeerInv, UNCHANGED peer PROVE PeerInv'
BY DEF PeerInv

LEMMA PeerStep == ASSUME PeerInv, [Next]_vars PROVE PeerInv'
<1> USE DEF tcp
<1>1. CASE UNCHANGED vars
  BY <1>1, PeerStill DEF vars
<1>2. CASE FetchConnect \/ FetchHeader \/ FetchOpen \/ FetchWrite \/ FetchFinish
  BY <1>2, PeerStill, NoPeerTyped, DialTyped
    DEF FetchConnect, FetchHeader, FetchOpen, FetchWrite, FetchFinish
<1>3. CASE FetchRead
  BY <1>3, PeerStill, TakeTyped DEF FetchRead
<1>4. CASE CpOpen \/ CpRead \/ CpWrite \/ CpClose \/ Cat \/ Show \/ Touch \/ Unlink
  BY <1>4, PeerStill DEF CpOpen, CpRead, CpWrite, CpClose, Cat, Show, Touch, Unlink
<1>5. CASE RunClone \/ Exec \/ Wait \/ ReadLine
  BY <1>5, PeerStill DEF RunClone, Exec, Wait, ReadLine
<1>6. CASE PingOpen \/ PingSend \/ PingTimeout \/ PingReceive \/ PingClose
  BY <1>6, PeerStill DEF PingOpen, PingSend, PingTimeout, PingReceive, PingClose
<1>7. CASE NcConnect \/ NcListen \/ NcAccept
  BY <1>7, PeerStill, DialTyped DEF NcConnect, NcListen, NcAccept
<1>8. CASE RelayPoll \/ RelayToSocket
  BY <1>8, PeerStill, NoPeerTyped DEF RelayPoll, RelayToSocket, HangUp
<1>9. CASE RelayToConsole
  BY <1>9, PeerStill, NoPeerTyped, TakeTyped DEF RelayToConsole, HangUp
<1>10. CASE PeerSends
  BY <1>10, SizeIsNumber DEF PeerSends, PeerInv
<1>11. CASE PeerEnds
  BY <1>11 DEF PeerEnds, PeerInv
<1>12. ASSUME NEW line, NEW p, NEW m,
             Type(line) \/ ProgramForks(p) \/ ProgramEnds(p) \/ Arrive(m) \/ Lose
       PROVE PeerInv'
  BY <1>12, PeerStill DEF Type, ProgramForks, ProgramEnds, Arrive, Lose
<1> QED
  BY <1>1, <1>2, <1>3, <1>4, <1>5, <1>6, <1>7, <1>8, <1>9, <1>10, <1>11, <1>12 DEF Next, Run

\* Only the step that reads the socket leaves the relay from there.
LEMMA RelayLeft ==
  ASSUME [Next]_vars, at = "relay socket", at' # at
  PROVE  RelayToConsole
<1>1. Run \/ NcAccept \/ ReadLine
  BY DEF Next, vars, Type, ProgramForks, ProgramEnds, Arrive, Lose, PeerSends, PeerEnds
<1>2. ~ReadLine /\ ~NcAccept
  BY DEF ReadLine, NcAccept
<1>3. ~(\/ FetchConnect \/ FetchHeader \/ FetchOpen \/ FetchRead \/ FetchWrite \/ FetchFinish
        \/ CpOpen \/ CpRead \/ CpWrite \/ CpClose \/ Cat \/ Show \/ Touch \/ Unlink)
  BY DEF FetchConnect, FetchHeader, FetchOpen, FetchRead, FetchWrite, FetchFinish,
    CpOpen, CpRead, CpWrite, CpClose, Cat, Show, Touch, Unlink
<1>4. ~(\/ RunClone \/ Exec \/ Wait
        \/ PingOpen \/ PingSend \/ PingTimeout \/ PingReceive \/ PingClose
        \/ NcConnect \/ NcListen \/ RelayPoll \/ RelayToSocket)
  BY DEF RunClone, Exec, Wait, PingOpen, PingSend, PingTimeout, PingReceive, PingClose,
    NcConnect, NcListen, RelayPoll, RelayToSocket
<1> QED  BY <1>1, <1>2, <1>3, <1>4 DEF Run

\* The relay of nc ends with the connection only once everything is read that
\* the peer has sent before it closed (payload/net.c).
THEOREM RelayReadsAll == Spec => RelayDrains
<1>2. ASSUME PeerInv, [Next]_vars, at = "relay socket", at' = "prompt", peer.is = "closed", ~Failed'
      PROVE  peer.taken = peer.sent
  <2>1. RelayToConsole
    BY <1>2, RelayLeft
  <2>2. Available = 0 \/ Say("failed")
    BY <1>2, <2>1 DEF RelayToConsole, HangUp, Return
  <2>3. ~Say("failed")
    BY <1>2 DEF Say, Failed
  <2>4. Available = 0
    BY <2>2, <2>3
  <2>5. peer.sent \in Nat /\ peer.taken \in Nat
    BY <1>2 DEF PeerInv
  <2> QED  BY <2>4, <2>5 DEF Available
<1>3. PeerInv /\ [Next]_vars =>
        [at = "relay socket" /\ at' = "prompt" /\ peer.is = "closed" /\ ~Failed'
          => peer.taken = peer.sent]_vars
  BY <1>2
<1> QED  BY <1>3, PeerInit, PeerStep, PTL DEF Spec, RelayDrains

-----------------------------------------------------------------------------
\* fetch.

Receiving == {"receive", "store", "finish", "discard"}

\* Of a fetch: what has been printed, what has been stored, and which length is
\* expected of which.
FetchInv ==
  command.name = "fetch" =>
    /\ at \in FetchPlaces \cup {"prompt"}
    /\ at \in FetchPlaces => <<"saved">> \notin said
    /\ at \in {"fetch", "header", "open"} => files = before /\ total = 0
    /\ at \in Receiving \cup {"header", "open"} => peer.size \in Sizes
    /\ at \in Receiving \cup {"open"} => expected \in {None, ContentLength(peer.size)} \ {Bad}
    /\ at \in Receiving => IsFile(files[command.path]) /\ files[command.path].of = peer.size
    /\ at \in {"receive", "store", "finish"} => files[command.path].size = total
    /\ at = "prompt" =>
         IF <<"saved">> \in said
         THEN LET f == files[command.path]
              IN f # None /\ (expected # None /\ Decimal(f.of) < Wrap => Whole(f))
         ELSE files[command.path] \in {None, before[command.path]}

LEMMA FetchOther ==
  ASSUME FetchInv, at \notin FetchPlaces \cup {"prompt"}, UNCHANGED command
  PROVE  FetchInv'
BY DEF FetchInv

LEMMA FetchStill ==
  ASSUME FetchInv, UNCHANGED <<at, said, command, before, files, total, expected>>,
         peer'.size = peer.size
  PROVE  FetchInv'
BY DEF FetchInv, Receiving, FetchPlaces, IsFile, Whole

LEMMA FetchPeer ==
  ASSUME PeerInv, PeerSends \/ PeerEnds
  PROVE  peer'.size = peer.size
BY DEF PeerInv, PeerSends, PeerEnds

\* A body that was received to the length the server gave is whole.
LEMMA ReceivedWhole ==
  ASSUME NEW f, IsFile(f), f.of \in Sizes, NEW n, n \in {None, ContentLength(f.of)} \ {Bad},
         n \in {None, f.size}
  PROVE  f # None /\ (n # None /\ Decimal(f.of) < Wrap => Whole(f))
<1>1. f # None
  BY NoneAssumption DEF IsFile, Copy
<1>2. ASSUME n # None, Decimal(f.of) < Wrap PROVE Whole(f)
  <2>1. n = f.size /\ n = ContentLength(f.of) /\ n # Bad
    BY <1>2
  <2>2. ContentLength(f.of) \in {Bad, Decimal(f.of)}
    BY <1>2, DigitAssumption, SmallIsRead DEF ContentLength, ParseUnsigned
  <2> QED  BY <2>1, <2>2 DEF Whole
<1> QED  BY <1>1, <1>2

LEMMA SayNotSaved ==
  ASSUME NEW m, m # "saved", Say(m), <<"saved">> \notin said
  PROVE  <<"saved">> \notin said'
<1>1. <<m>> # <<"saved">>
  <2>1. <<m>>[1] = m /\ <<"saved">>[1] = "saved"
    OBVIOUS
  <2> QED  BY <2>1
<1> QED  BY <1>1 DEF Say

LEMMA FetchBegins ==
  ASSUME FilesInv, FetchInv, FetchConnect \/ FetchHeader
  PROVE  FetchInv'
<1>0. /\ command.name = "fetch" /\ <<"saved">> \notin said /\ files = before /\ total = 0
      /\ at \in {"fetch", "header"} /\ files' = files /\ before' = before /\ command' = command
      /\ total' = total
  BY DEF FilesInv, WriteInv, FetchInv, FetchPlaces, FetchConnect, FetchHeader, console, disk
<1>1. CASE at' = "prompt"
  <2>1. <<"saved">> \notin said'
    <3>1. Say("failed") \/ Say("usage") \/ Say("invalid Content-Length")
      BY <1>1 DEF FetchConnect, FetchHeader, Dial, Usage
    <3> QED  BY <1>0, <3>1, SayNotSaved
  <2> QED  BY <1>0, <1>1, <2>1 DEF FetchInv, Receiving, FetchPlaces
<1>2. CASE at' # "prompt" /\ FetchConnect
  <2>1. Dial("header")
    BY <1>2 DEF FetchConnect, Return, Usage
  <2>2. at' = "header" /\ said' = said /\ peer'.size \in Sizes
    <3>1. PICK size \in Sizes :
            peer' = [NoPeer EXCEPT !.is = "open", !.port = ParseUnsigned(command.port), !.size = size]
      BY <2>1 DEF Dial
    <3>2. peer'.size = size
      BY <3>1 DEF NoPeer
    <3> QED  BY <2>1, <3>2 DEF Dial
  <2> QED  BY <1>0, <2>2 DEF FetchInv, Receiving, FetchPlaces
<1>3. CASE at' # "prompt" /\ FetchHeader
  <2>1. /\ at = "header" /\ at' = "open" /\ said' = said /\ peer' = peer
        /\ expected' \in {None, ContentLength(peer.size)} \ {Bad}
    BY <1>3 DEF FetchHeader, Return
  <2> QED  BY <1>0, <2>1 DEF FetchInv, Receiving, FetchPlaces
<1> QED  BY <1>1, <1>2, <1>3

LEMMA FetchOpens ==
  ASSUME FilesInv, FetchInv, FetchOpen
  PROVE  FetchInv'
<1>0. /\ command.name = "fetch" /\ <<"saved">> \notin said /\ files = before /\ at = "open" /\ total = 0
      /\ before' = before /\ command' = command /\ peer.size \in Sizes
      /\ expected' = expected /\ total' = total /\ expected \in {None, ContentLength(peer.size)} \ {Bad}
  BY DEF FilesInv, WriteInv, FetchInv, FetchPlaces, Receiving, FetchOpen, console
<1>1. command.path \in Paths /\ TypedInv
  BY <1>0, PathsTyped DEF FilesInv
<1>2. CASE at' = "prompt"
  <2>1. <<"saved">> \notin said' /\ (files' = files \/ SetFile(command.path, None))
    BY <1>0, <1>2 DEF FetchOpen, Return, Say
  <2>2. files'[command.path] \in {None, before[command.path]}
    BY <1>0, <1>1, <2>1, SetOne
  <2> QED  BY <1>0, <1>2, <2>1, <2>2 DEF FetchInv, Receiving, FetchPlaces
<1>3. CASE at' # "prompt"
  <2>1. /\ at' = "receive" /\ said' = said /\ peer' = peer
        /\ SetFile(command.path, Copy(peer.size, 0))
    BY <1>3 DEF FetchOpen, Return
  <2>2. /\ IsFile(Copy(peer.size, 0)) /\ Copy(peer.size, 0).of = peer.size
        /\ Copy(peer.size, 0).size = 0
    BY CopyIsFile
  <2>3. files'[command.path] = Copy(peer.size, 0)
    BY <1>1, <2>1, <2>2, SetOne
  <2> QED  BY <1>0, <2>1, <2>2, <2>3 DEF FetchInv, Receiving, FetchPlaces
<1> QED  BY <1>2, <1>3

LEMMA FetchReceives ==
  ASSUME FilesInv, FetchInv, PeerInv, FetchRead \/ FetchWrite
  PROVE  FetchInv'
<1>0. /\ command.name = "fetch" /\ <<"saved">> \notin said /\ at \in {"receive", "store"}
      /\ said' = said /\ before' = before /\ command' = command /\ expected' = expected
      /\ peer.size \in Sizes /\ expected \in {None, ContentLength(peer.size)} \ {Bad}
      /\ IsFile(files[command.path]) /\ files[command.path].of = peer.size
      /\ files[command.path].size = total
  BY DEF FilesInv, WriteInv, FetchInv, FetchPlaces, Receiving, FetchRead, FetchWrite, console
<1>1. command.path \in Paths /\ TypedInv
  BY <1>0, PathsTyped DEF FilesInv
<1>2. CASE FetchRead
  <2>1. at' \in {"store", "finish", "discard"} /\ files' = files /\ total' = total
    BY <1>2 DEF FetchRead
  <2>2. peer'.size = peer.size
    BY <1>2 DEF FetchRead, PeerInv
  <2> QED  BY <1>0, <2>1, <2>2 DEF FetchInv, Receiving, FetchPlaces
<1>3. CASE FetchWrite
  <2>1. peer' = peer /\ at = "store" /\ buffer \in Nat
    BY <1>3 DEF FetchWrite, tcp, FilesInv, WriteInv
  <2>2. CASE at' = "receive" /\ Grow(command.path, buffer) /\ total' = total + buffer
    <3>1. /\ IsFile(files'[command.path]) /\ files'[command.path].of = peer.size
          /\ files'[command.path].size = total'
      BY <1>0, <1>1, <2>1, <2>2, GrowOne
    <3> QED  BY <1>0, <2>1, <2>2, <3>1 DEF FetchInv, Receiving, FetchPlaces
  <2>3. ASSUME at' = "discard", NEW n \in 0..(buffer - 1), Grow(command.path, n) PROVE FetchInv'
    <3>1. n \in Nat
      BY <2>1, BelowIsNumber
    <3>2. IsFile(files'[command.path]) /\ files'[command.path].of = peer.size
      BY <1>0, <1>1, <2>3, <3>1, GrowOne
    <3> QED  BY <1>0, <2>1, <2>3, <3>2 DEF FetchInv, Receiving, FetchPlaces
  <2> QED  BY <1>3, <2>2, <2>3 DEF FetchWrite
<1> QED  BY <1>2, <1>3

LEMMA FetchEnds ==
  ASSUME FilesInv, FetchInv, FetchFinish
  PROVE  FetchInv'
<1>0. /\ command.name = "fetch" /\ <<"saved">> \notin said /\ at \in {"finish", "discard"}
      /\ at' = "prompt" /\ before' = before /\ command' = command /\ expected' = expected
      /\ peer.size \in Sizes /\ expected \in {None, ContentLength(peer.size)} \ {Bad}
      /\ IsFile(files[command.path]) /\ files[command.path].of = peer.size
      /\ at = "finish" => files[command.path].size = total
  BY DEF FilesInv, WriteInv, FetchInv, FetchPlaces, Receiving, FetchFinish, Return, console
<1>1. command.path \in Paths /\ TypedInv
  BY <1>0, PathsTyped DEF FilesInv
<1>2. CASE at = "finish" /\ expected \in {None, total}
  <2>1. <<"saved">> \in said' /\ files' = files
    BY <1>2 DEF FetchFinish, Say
  <2>2. LET f == files[command.path]
        IN f # None /\ (expected # None /\ Decimal(f.of) < Wrap => Whole(f))
    BY <1>0, <1>2, ReceivedWhole
  <2> QED  BY <1>0, <2>1, <2>2 DEF FetchInv, Receiving, FetchPlaces
<1>3. CASE ~(at = "finish" /\ expected \in {None, total})
  <2>1. <<"saved">> \notin said' /\ SetFile(command.path, None)
    BY <1>0, <1>3 DEF FetchFinish, Say
  <2>2. files'[command.path] = None
    BY <1>1, <2>1, SetOne
  <2> QED  BY <1>0, <2>1, <2>2 DEF FetchInv, Receiving, FetchPlaces
<1> QED  BY <1>2, <1>3

LEMMA FetchCommand ==
  ASSUME FilesInv, FetchInv, ReadLine
  PROVE  FetchInv'
<1>1. CASE Head(typed) = Eof
  BY <1>1, FetchStill DEF ReadLine, tcp
<1>2. CASE Head(typed) # Eof
  BY <1>2 DEF ReadLine, RunCommand, Builtins, FetchInv, FetchPlaces, Receiving
<1> QED  BY <1>1, <1>2

LEMMA FetchStep == ASSUME FilesInv, PeerInv, FetchInv, [Next]_vars PROVE FetchInv'
<1> USE DEF console, disk, tcp, FetchPlaces
<1>1. CASE UNCHANGED vars
  BY <1>1, FetchStill DEF vars
<1>2. CASE FetchConnect \/ FetchHeader \/ FetchOpen \/ FetchRead \/ FetchWrite \/ FetchFinish \/ ReadLine
  BY <1>2, FetchBegins, FetchOpens, FetchReceives, FetchEnds, FetchCommand
<1>3. CASE CpOpen \/ CpRead \/ CpWrite \/ CpClose \/ Cat \/ Show \/ Touch \/ Unlink
  BY <1>3, FetchOther DEF CpOpen, CpRead, CpWrite, CpClose, Cat, Show, Touch, Unlink
<1>4. CASE RunClone \/ Exec \/ Wait
  BY <1>4, FetchOther DEF RunClone, Exec, Wait
<1>5. CASE PingOpen \/ PingSend \/ PingTimeout \/ PingReceive \/ PingClose
  BY <1>5, FetchOther DEF PingOpen, PingSend, PingTimeout, PingReceive, PingClose
<1>6. CASE NcConnect \/ NcListen \/ NcAccept \/ RelayPoll \/ RelayToConsole \/ RelayToSocket
  BY <1>6, FetchOther DEF NcConnect, NcListen, NcAccept, RelayPoll, RelayToConsole, RelayToSocket
<1>7. CASE PeerSends \/ PeerEnds
  BY <1>7, FetchPeer, FetchStill DEF PeerSends, PeerEnds
<1>8. ASSUME NEW line, NEW p, NEW m,
             Type(line) \/ ProgramForks(p) \/ ProgramEnds(p) \/ Arrive(m) \/ Lose
      PROVE  FetchInv'
  BY <1>8, FetchStill DEF Type, ProgramForks, ProgramEnds, Arrive, Lose
<1> QED
  BY <1>1, <1>2, <1>3, <1>4, <1>5, <1>6, <1>7, <1>8 DEF Next, Run

\* fetch leaves the whole body or what was there before, however reads, writes
\* and the connection fail (payload/transfer.c).
THEOREM FetchComplete == Spec => []FetchAllOrNothing
<1>1. Init => FilesInv /\ PeerInv /\ FetchInv
  BY FilesInit, PeerInit DEF Init, FetchInv, Data
<1>2. FilesInv /\ PeerInv /\ FetchInv /\ [Next]_vars => FilesInv' /\ PeerInv' /\ FetchInv'
  BY FilesStep, PeerStep, FetchStep
<1>3. FetchInv => FetchAllOrNothing
  BY DEF FetchInv, FetchAllOrNothing, Done
<1> QED  BY <1>1, <1>2, <1>3, PTL DEF Spec

-----------------------------------------------------------------------------
\* The port that is dialled.

\* The places where the connection is.
Connected ==
  {"header", "open", "receive", "store", "finish", "discard", "relay", "relay socket", "relay console"}

PortInv ==
  /\ at = "nc" => command.name = "nc"
  /\ at \in {"nc -l", "accept"} => command.name = "nc -l"
  /\ at = "accept" => ParseUnsigned(command.port) \in 1..MaxPort
  /\ peer # NoPeer => at \in Connected /\ peer.port = Decimal(command.port)

LEMMA PortDialled ==
  ASSUME TypedInv, NEW next \in Connected, Dial(next), UNCHANGED command,
         command.name \in {"fetch", "nc", "nc -l"}, ParseUnsigned(command.port) \in 1..MaxPort
  PROVE  PortInv'
<1>1. ParseUnsigned(command.port) = Decimal(command.port)
  BY PathsTyped, PortIsRead
<1>2. PICK size : peer' = [NoPeer EXCEPT !.is = "open", !.port = ParseUnsigned(command.port), !.size = size]
  BY DEF Dial
<1>3. peer'.port = Decimal(command.port)
  BY <1>1, <1>2 DEF NoPeer
<1> QED  BY <1>3 DEF PortInv, Dial, Connected

\* The connection is over, or there was none.
LEMMA PortClosed ==
  ASSUME peer' = NoPeer, at' \notin {"nc", "nc -l", "accept"}
  PROVE  PortInv'
BY DEF PortInv

LEMMA PortIdle ==
  ASSUME PortInv, at \notin Connected, UNCHANGED peer, at' \notin {"nc", "nc -l", "accept"}
  PROVE  PortInv'
BY DEF PortInv

\* It goes on.
LEMMA PortHeld ==
  ASSUME PortInv, UNCHANGED command, at' = at \/ at' \in Connected,
         peer' # NoPeer => peer # NoPeer /\ peer'.port = peer.port
  PROVE  PortInv'
BY DEF PortInv, Connected

LEMMA TakeHeld ==
  ASSUME PeerInv, NEW n \in Pieces(Available), peer' = [peer EXCEPT !.taken = @ + n]
  PROVE  peer # NoPeer /\ peer'.port = peer.port
<1>1. n \in Nat /\ 1 <= n /\ n <= Available
  <2>1. Available \in Int
    BY DEF PeerInv, Available
  <2> QED  BY <2>1, PiecesThere, PiecesAreNumbers
<1>2. peer # NoPeer
  BY <1>1 DEF NoPeer, Available
<1> QED  BY <1>2 DEF PeerInv

LEMMA PortFetch ==
  ASSUME FilesInv, PeerInv, PortInv,
         FetchConnect \/ FetchHeader \/ FetchOpen \/ FetchRead \/ FetchWrite \/ FetchFinish
  PROVE  PortInv'
<1> USE DEF Connected
<1>1. CASE FetchConnect
  <2>1. TypedInv /\ command.name = "fetch" /\ UNCHANGED command
    BY <1>1 DEF FetchConnect, FilesInv, WriteInv, FetchPlaces, console
  <2>2. CASE Dial("header")
    BY <1>1, <2>1, <2>2, PortDialled DEF FetchConnect, Return, Usage, Dial
  <2>3. CASE Return({}) /\ UNCHANGED peer
    BY <1>1, <2>3, PortIdle DEF FetchConnect, Return
  <2> QED  BY <1>1, <2>2, <2>3 DEF FetchConnect, Usage
<1>2. CASE FetchHeader
  BY <1>2, PortHeld, PortClosed DEF FetchHeader, Return, console
<1>3. CASE FetchOpen
  BY <1>3, PortHeld, PortClosed DEF FetchOpen, Return, console
<1>4. CASE FetchRead
  BY <1>4, PortHeld, TakeHeld DEF FetchRead, console
<1>5. CASE FetchWrite
  BY <1>5, PortHeld DEF FetchWrite, console, tcp
<1>6. CASE FetchFinish
  BY <1>6, PortClosed DEF FetchFinish, Return
<1> QED  BY <1>1, <1>2, <1>3, <1>4, <1>5, <1>6

LEMMA PortRelay ==
  ASSUME FilesInv, PeerInv, PortInv,
         NcConnect \/ NcListen \/ NcAccept \/ RelayPoll \/ RelayToConsole \/ RelayToSocket
  PROVE  PortInv'
<1> USE DEF Connected
<1>0. TypedInv
  BY DEF FilesInv
<1>1. CASE NcConnect
  <2>1. command.name = "nc" /\ UNCHANGED command
    BY <1>1 DEF NcConnect, PortInv, console
  <2>2. CASE Dial("relay") /\ ParseUnsigned(command.port) \in 1..MaxPort
    BY <1>0, <2>1, <2>2, PortDialled
  <2>3. CASE Return({}) /\ UNCHANGED peer
    BY <1>1, <2>3, PortIdle DEF NcConnect, Return
  <2> QED  BY <1>1, <2>2, <2>3 DEF NcConnect, Usage
<1>2. CASE NcListen
  <2>1. command.name = "nc -l" /\ UNCHANGED <<command, peer>> /\ peer = NoPeer
    BY <1>2 DEF NcListen, PortInv, console, tcp
  <2>2. CASE at' = "prompt"
    BY <2>1, <2>2, PortClosed
  <2>3. CASE at' = "accept" /\ ParseUnsigned(command.port) \in 1..MaxPort
    BY <2>1, <2>3 DEF PortInv
  <2> QED  BY <1>2, <2>2, <2>3 DEF NcListen, Return, Usage
<1>3. CASE NcAccept
  <2>1. command.name = "nc -l" /\ UNCHANGED command /\ ParseUnsigned(command.port) \in 1..MaxPort
    BY <1>3 DEF NcAccept, PortInv, console
  <2>2. CASE Dial("relay")
    BY <1>0, <2>1, <2>2, PortDialled
  <2>3. CASE Return({"listener"}) /\ UNCHANGED peer
    BY <1>3, <2>3, PortIdle DEF NcAccept, Return
  <2> QED  BY <1>3, <2>2, <2>3 DEF NcAccept
<1>4. CASE RelayPoll
  BY <1>4, PortHeld, PortClosed DEF RelayPoll, HangUp, Return, console
<1>5. CASE RelayToConsole
  BY <1>5, PortHeld, PortClosed, TakeHeld DEF RelayToConsole, HangUp, Return, console, tcp
<1>6. CASE RelayToSocket
  BY <1>6, PortHeld, PortClosed DEF RelayToSocket, HangUp, Return, tcp
<1> QED  BY <1>1, <1>2, <1>3, <1>4, <1>5, <1>6

LEMMA PortStep == ASSUME FilesInv, PeerInv, PortInv, [Next]_vars PROVE PortInv'
<1> USE DEF console, tcp
<1>1. CASE UNCHANGED vars
  BY <1>1, PortHeld DEF vars
<1>2. CASE FetchConnect \/ FetchHeader \/ FetchOpen \/ FetchRead \/ FetchWrite \/ FetchFinish
  BY <1>2, PortFetch
<1>3. CASE NcConnect \/ NcListen \/ NcAccept \/ RelayPoll \/ RelayToConsole \/ RelayToSocket
  BY <1>3, PortRelay
<1>4. CASE CpOpen \/ CpRead \/ CpWrite \/ CpClose \/ Cat \/ Show \/ Touch \/ Unlink
  BY <1>4, PortIdle DEF CpOpen, CpRead, CpWrite, CpClose, Cat, Show, Touch, Unlink, Return, Connected
<1>5. CASE RunClone \/ Exec \/ Wait
  BY <1>5, PortIdle DEF RunClone, Exec, Wait, Return, Connected
<1>6. CASE PingOpen \/ PingSend \/ PingTimeout \/ PingReceive \/ PingClose
  BY <1>6, PortIdle DEF PingOpen, PingSend, PingTimeout, PingReceive, PingClose, NextRequest,
    Return, Connected
<1>7. CASE ReadLine
  BY <1>7 DEF ReadLine, RunCommand, Builtins, PortInv, Connected
<1>8. CASE PeerSends
  BY <1>8, PortHeld DEF PeerSends, PeerInv, NoPeer
<1>9. CASE PeerEnds
  BY <1>9, PortHeld DEF PeerEnds, PeerInv, NoPeer
<1>10. ASSUME NEW line, NEW p, NEW m,
              Type(line) \/ ProgramForks(p) \/ ProgramEnds(p) \/ Arrive(m) \/ Lose
       PROVE  PortInv'
  BY <1>10, PortHeld DEF Type, ProgramForks, ProgramEnds, Arrive, Lose
<1> QED
  BY <1>1, <1>2, <1>3, <1>4, <1>5, <1>6, <1>7, <1>8, <1>9, <1>10 DEF Next, Run

\* A connection is to the port that was typed (payload/util.c): although the
\* test for overflow lets some numbers pass that do not fit, none of them is
\* taken for a port.
THEOREM PortAsTyped == Spec => []DialsWhatWasTyped
<1>1. Init => FilesInv /\ PeerInv /\ PortInv
  BY FilesInit, PeerInit DEF Init, PortInv
<1>2. FilesInv /\ PeerInv /\ PortInv /\ [Next]_vars => FilesInv' /\ PeerInv' /\ PortInv'
  BY FilesStep, PeerStep, PortStep
<1>3. PortInv => DialsWhatWasTyped
  BY DEF PortInv, DialsWhatWasTyped
<1> QED  BY <1>1, <1>2, <1>3, PTL DEF Spec

-----------------------------------------------------------------------------
\* The type invariant, in three parts beside those above: what is printed, what
\* the commands on files count, and what is waited for.

\* No more replies are counted than rounds are over.
SaidInv ==
  /\ said \subseteq Words /\ ping.seq \in 1..3
  /\ at = "ping" => ping.seq = 1
  /\ at \in {"request", "answer"} => ping.received < ping.seq
  /\ at = "replies" => ping.received <= 3

LEMMA SayWord == ASSUME NEW m \in Notices, said \subseteq Words, Say(m) PROVE said' \subseteq Words
BY DEF Say, Words

LEMMA SaySame == ASSUME said \subseteq Words, UNCHANGED said PROVE said' \subseteq Words
OBVIOUS

LEMMA ReportWord ==
  ASSUME NEW e \in Exits \cup Signals, NEW s \in {KernelStatus(e), WaitidStatus(e)},
         said \subseteq Words, Report(s)
  PROVE  said' \subseteq Words
<1>1. e \in Exits => e.code \in 0..255
  BY DEF Exits
<1>2. e \in Signals => e.code \in 0..255
  BY DEF Signals
<1>3. PICK m \in {"exit", "signal"} : said' = said \cup {<<m, e.code>>}
  <2>1. CASE e \in Exits
    BY <2>1, StatusTells DEF Report
  <2>2. CASE e \in Signals
    BY <2>2, StatusTells DEF Report
  <2> QED  BY <2>1, <2>2
<1> QED  BY <1>1, <1>2, <1>3 DEF Words

\* Steps that have nothing to do with ping.
LEMMA SaidOther ==
  ASSUME SaidInv, said' \subseteq Words, UNCHANGED ping,
         at' \in {"ping", "request", "answer", "replies"} => at' = at
  PROVE  SaidInv'
BY DEF SaidInv

LEMMA SaidFetch ==
  ASSUME SaidInv, FetchConnect \/ FetchHeader \/ FetchOpen \/ FetchRead \/ FetchWrite \/ FetchFinish
  PROVE  SaidInv'
<1> USE DEF icmp, Return, Notices
<1>0. said \subseteq Words
  BY DEF SaidInv
<1>1. CASE FetchConnect
  BY <1>0, <1>1, SaidOther, SayWord DEF FetchConnect, Dial, Usage
<1>2. CASE FetchHeader
  BY <1>0, <1>2, SaidOther, SayWord DEF FetchHeader
<1>3. CASE FetchOpen
  BY <1>0, <1>3, SaidOther, SayWord DEF FetchOpen
<1>4. CASE FetchRead \/ FetchWrite
  BY <1>0, <1>4, SaidOther DEF FetchRead, FetchWrite
<1>5. CASE FetchFinish
  BY <1>0, <1>5, SaidOther, SayWord DEF FetchFinish
<1> QED  BY <1>1, <1>2, <1>3, <1>4, <1>5

LEMMA SaidFiles ==
  ASSUME SaidInv, CpOpen \/ CpRead \/ CpWrite \/ CpClose \/ Cat \/ Show \/ Touch \/ Unlink
  PROVE  SaidInv'
<1> USE DEF icmp, Return, Notices
<1>0. said \subseteq Words
  BY DEF SaidInv
<1>1. CASE CpOpen \/ CpRead
  BY <1>0, <1>1, SaidOther, SayWord DEF CpOpen, CpRead
<1>2. CASE CpWrite \/ CpClose
  BY <1>0, <1>2, SaidOther, SayWord DEF CpWrite, CpClose
<1>3. CASE Cat \/ Show
  BY <1>0, <1>3, SaidOther, SayWord DEF Cat, Show
<1>4. CASE Touch \/ Unlink
  BY <1>0, <1>4, SaidOther, SayWord DEF Touch, Unlink
<1> QED  BY <1>1, <1>2, <1>3, <1>4

LEMMA SaidRun ==
  ASSUME SaidInv, RunInv, RunClone \/ Exec \/ Wait
  PROVE  SaidInv'
<1> USE DEF icmp, Return, Notices
<1>0. said \subseteq Words
  BY DEF SaidInv
<1>1. CASE RunClone
  BY <1>0, <1>1, SaidOther, SayWord DEF RunClone
<1>2. CASE Exec
  BY <1>0, <1>2, SaidOther, SayWord DEF Exec
<1>3. CASE Wait
  <2>1. procs[child].end \in Exits \cup Signals
    BY <1>3 DEF RunInv, Wait
  <2>2. said' \subseteq Words
    BY <1>0, <1>3, <2>1, ReportWord DEF Wait
  <2> QED  BY <1>3, <2>2, SaidOther DEF Wait
<1> QED  BY <1>1, <1>2, <1>3

LEMMA SaidRelay ==
  ASSUME SaidInv, NcConnect \/ NcListen \/ NcAccept \/ RelayPoll \/ RelayToConsole \/ RelayToSocket
  PROVE  SaidInv'
<1> USE DEF icmp, Return, Notices
<1>0. said \subseteq Words
  BY DEF SaidInv
<1>1. CASE NcConnect \/ NcListen \/ NcAccept
  BY <1>0, <1>1, SaidOther, SayWord DEF NcConnect, NcListen, NcAccept, Dial, Usage
<1>2. CASE RelayPoll \/ RelayToConsole \/ RelayToSocket
  BY <1>0, <1>2, SaidOther, SayWord DEF RelayPoll, RelayToConsole, RelayToSocket, HangUp
<1> QED  BY <1>1, <1>2

\* A round is over with at most one more reply.
LEMMA SaidRound ==
  ASSUME SaidInv, PingInv, at \in {"request", "answer"}, NEW n \in {0, 1}, NextRequest(n),
         said' \subseteq Words
  PROVE  SaidInv'
<1>1. /\ ping \in PingType /\ ping.received \in Nat /\ ping.seq \in 1..3
      /\ ping.received + 1 <= ping.seq
  BY DEF SaidInv, PingInv, PingType
<1> DEFINE x == IF ping.seq = 3 THEN 3 ELSE ping.seq + 1
           y == ping.received + n
<1>2. ping' = [ping EXCEPT !.seq = x, !.received = y]
  BY DEF NextRequest
<1>3. x \in 1..3 /\ y <= 3 /\ (ping.seq # 3 => y < x)
  BY <1>1
<1>4. at' = IF ping.seq = 3 THEN "replies" ELSE "request"
  BY DEF NextRequest
<1> HIDE DEF x, y
<1>5. ping'.seq = x /\ ping'.received = y
  BY <1>1, <1>2 DEF PingType
<1> QED  BY <1>3, <1>4, <1>5 DEF SaidInv

LEMMA SaidPing ==
  ASSUME SaidInv, PingInv, PingOpen \/ PingSend \/ PingTimeout \/ PingReceive \/ PingClose
  PROVE  SaidInv'
<1> USE DEF Notices
<1>0. said \subseteq Words
  BY DEF SaidInv
<1>1. CASE PingOpen
  <2>1. CASE Return({}) /\ Say("failed") /\ UNCHANGED icmp
    BY <1>0, <2>1, SaidOther, SayWord DEF Return, icmp
  <2>2. CASE at' = "request" /\ UNCHANGED <<said, ping>>
    BY <1>1, <2>2 DEF PingOpen, PingInv, SaidInv
  <2> QED  BY <1>1, <2>1, <2>2 DEF PingOpen
<1>2. CASE PingSend
  <2>1. CASE at' = "answer" /\ UNCHANGED <<said, ping>>
    BY <1>2, <2>1 DEF PingSend, SaidInv
  <2>2. CASE NextRequest(0) /\ Say("failed")
    BY <1>0, <1>2, <2>2, SaidRound, SayWord DEF PingSend
  <2> QED  BY <1>2, <2>1, <2>2 DEF PingSend
<1>3. CASE PingTimeout
  BY <1>0, <1>3, SaidRound, SayWord DEF PingTimeout
<1>4. CASE PingReceive
  BY <1>0, <1>4, SaidRound, SayWord, SaySame DEF PingReceive
<1>5. CASE PingClose
  <2>1. ping.received \in 0..255
    BY <1>5 DEF PingClose, SaidInv, PingInv, PingType
  <2>2. said' \subseteq Words
    <3>1. <<"replies", ping.received>> \in Words
      BY <2>1 DEF Words
    <3> QED  BY <1>0, <1>5, <3>1 DEF PingClose
  <2> QED  BY <1>5, <2>2, SaidOther DEF PingClose, Return, icmp
<1> QED  BY <1>1, <1>2, <1>3, <1>4, <1>5

LEMMA SaidStep == ASSUME SaidInv, PingInv, RunInv, [Next]_vars PROVE SaidInv'
<1>0. said \subseteq Words
  BY DEF SaidInv
<1>1. CASE UNCHANGED vars
  BY <1>0, <1>1, SaidOther DEF vars, icmp
<1>2. CASE FetchConnect \/ FetchHeader \/ FetchOpen \/ FetchRead \/ FetchWrite \/ FetchFinish
  BY <1>2, SaidFetch
<1>3. CASE CpOpen \/ CpRead \/ CpWrite \/ CpClose \/ Cat \/ Show \/ Touch \/ Unlink
  BY <1>3, SaidFiles
<1>4. CASE RunClone \/ Exec \/ Wait
  BY <1>4, SaidRun
<1>5. CASE PingOpen \/ PingSend \/ PingTimeout \/ PingReceive \/ PingClose
  BY <1>5, SaidPing
<1>6. CASE NcConnect \/ NcListen \/ NcAccept \/ RelayPoll \/ RelayToConsole \/ RelayToSocket
  BY <1>6, SaidRelay
<1>7. CASE ReadLine
  <2>1. CASE UNCHANGED <<at, said, ping>>
    BY <1>0, <2>1, SaidOther
  <2>2. CASE RunCommand(Head(typed))
    <3>1. said' = {} \/ said' = {<<"unknown command">>}
      BY <2>2 DEF RunCommand
    <3>0. ping'.seq = 1 /\ at' \notin {"request", "answer", "replies"}
      BY <2>2 DEF RunCommand, Builtins
    <3>2. <<"unknown command">> \in Words
      BY DEF Words, Notices
    <3>3. said' \subseteq Words
      BY <3>1, <3>2
    <3> QED  BY <3>0, <3>3 DEF SaidInv
  <2> QED  BY <1>7, <2>1, <2>2 DEF ReadLine
<1>8. ASSUME NEW m, Arrive(m) PROVE SaidInv'
  <2>1. ping'.seq = ping.seq /\ ping'.received = ping.received /\ at' = at /\ said' = said
    BY <1>8 DEF Arrive, PingInv, PingType
  <2> QED  BY <2>1 DEF SaidInv
<1>9. ASSUME NEW line, NEW p,
             Type(line) \/ ProgramForks(p) \/ ProgramEnds(p) \/ Lose \/ PeerSends \/ PeerEnds
      PROVE  SaidInv'
  BY <1>0, <1>9, SaidOther DEF Type, ProgramForks, ProgramEnds, Lose, PeerSends, PeerEnds, icmp
<1> QED
  BY <1>1, <1>2, <1>3, <1>4, <1>5, <1>6, <1>7, <1>8, <1>9 DEF Next, Run

\* What fetch and cp count, and what the files are copies of.
StoreInv ==
  /\ buffer \in 0..BufferSize /\ total \in Nat /\ expected \in 0..(Wrap - 1) \cup {None}
  /\ \A p \in Paths : files[p] = None \/ files[p].of \in Seq(0..9)
  /\ at \in {"receive", "store"} => files[command.path].of \in Seq(0..9)
  /\ at \in {"copy", "copy out"} => files[command.to].of \in Seq(0..9)

\* Steps that have nothing to do with files.
LEMMA StoreOther ==
  ASSUME StoreInv, UNCHANGED <<disk, command>>,
         at' \in {"receive", "store", "copy", "copy out"} => at' = at
  PROVE  StoreInv'
BY DEF StoreInv, disk

\* A file is set to a copy, grows or goes.
LEMMA StoreSet ==
  ASSUME TypedInv, StoreInv, NEW path \in Paths, NEW of \in Seq(0..9), NEW n, SetFile(path, Copy(of, n))
  PROVE  /\ \A p \in Paths : files'[p] = None \/ files'[p].of \in Seq(0..9)
         /\ files'[path].of \in Seq(0..9)
BY DEF TypedInv, StoreInv, SetFile, Copy

LEMMA StoreGrow ==
  ASSUME TypedInv, StoreInv, NEW path \in Paths, NEW n, Grow(path, n), files[path].of \in Seq(0..9)
  PROVE  /\ \A p \in Paths : files'[p] = None \/ files'[p].of \in Seq(0..9)
         /\ files'[path].of \in Seq(0..9)
BY StoreSet DEF Grow

LEMMA StoreUnlink ==
  ASSUME TypedInv, StoreInv, NEW path \in Paths, SetFile(path, None)
  PROVE  \A p \in Paths : files'[p] = None \/ files'[p].of \in Seq(0..9)
BY DEF TypedInv, StoreInv, SetFile

LEMMA StoreFetch ==
  ASSUME FilesInv, PeerInv, StoreInv,
         FetchConnect \/ FetchHeader \/ FetchOpen \/ FetchRead \/ FetchWrite \/ FetchFinish
  PROVE  StoreInv'
<1>0. /\ TypedInv /\ command' = command /\ command.path \in Paths /\ peer.size \in Seq(0..9)
      /\ buffer \in 0..BufferSize /\ total \in Nat /\ expected \in 0..(Wrap - 1) \cup {None}
  <2>1. command' = command /\ command.path \in Paths /\ TypedInv
    BY PathsTyped DEF FetchConnect, FetchHeader, FetchOpen, FetchRead, FetchWrite, FetchFinish,
      FilesInv, WriteInv, FetchPlaces, console
  <2>2. peer.size \in Seq(0..9)
    <3>1. <<>> \in Seq(0..9)
      OBVIOUS
    <3> QED  BY <3>1, DigitAssumption DEF PeerInv
  <2> QED  BY <2>1, <2>2 DEF StoreInv
<1>1. CASE FetchConnect
  BY <1>0, <1>1, StoreOther DEF FetchConnect, Dial, Usage, Return
<1>2. CASE FetchHeader
  <2>1. ContentLength(peer.size) \in 0..Wrap
    BY <1>0, ParsedRange DEF ContentLength
  <2>2. expected' \in 0..(Wrap - 1) \cup {None}
    <3>1. expected' \in {expected, None} \/ (expected' = ContentLength(peer.size) /\ expected' # Wrap)
      BY <1>2 DEF FetchHeader, Return, Bad
    <3>2. expected' = expected \/ expected' = None \/ (expected' \in 0..Wrap /\ expected' # Wrap)
      BY <2>1, <3>1
    <3> QED  BY <1>0, <3>2, NumberAssumption
  <2> QED  BY <1>0, <1>2, <2>2 DEF FetchHeader, Return, StoreInv
<1>3. CASE FetchOpen
  <2>1. UNCHANGED <<buffer, total, expected>> /\ at' \in {"prompt", "receive"}
    BY <1>3 DEF FetchOpen, Return
  <2>2. CASE at' = "receive" /\ SetFile(command.path, Copy(peer.size, 0))
    BY <1>0, <2>1, <2>2, StoreSet DEF StoreInv
  <2>3. CASE at' = "prompt" /\ SetFile(command.path, None)
    BY <1>0, <2>1, <2>3, StoreUnlink DEF StoreInv
  <2>4. CASE at' = "prompt" /\ UNCHANGED files
    BY <1>0, <2>1, <2>4 DEF StoreInv
  <2> QED  BY <1>3, <2>2, <2>3, <2>4 DEF FetchOpen, Return
<1>4. CASE FetchRead
  <2>1. buffer' \in 0..BufferSize
    <3>1. Available \in Int
      BY DEF PeerInv, Available
    <3>2. \A n \in Pieces(Available) : n \in 0..BufferSize
      BY <3>1, PiecesThere, NumberAssumption
    <3> QED  BY <1>0, <1>4, <3>2 DEF FetchRead
  <2> QED  BY <1>0, <1>4, <2>1 DEF FetchRead, StoreInv
<1>5. CASE FetchWrite
  <2>1. PICK n : Grow(command.path, n)
    BY <1>5 DEF FetchWrite
  <2>2. /\ \A p \in Paths : files'[p] = None \/ files'[p].of \in Seq(0..9)
        /\ files'[command.path].of \in Seq(0..9)
    BY <1>0, <1>5, <2>1, StoreGrow DEF StoreInv, FetchWrite
  <2>3. buffer' \in 0..BufferSize /\ total' \in Nat
    BY <1>0, <1>5, NumberAssumption DEF FetchWrite
  <2> QED  BY <1>0, <1>5, <2>2, <2>3 DEF FetchWrite, StoreInv
<1>6. CASE FetchFinish
  BY <1>0, <1>6, StoreUnlink DEF FetchFinish, Return, StoreInv
<1> QED  BY <1>1, <1>2, <1>3, <1>4, <1>5, <1>6

LEMMA StoreCopy ==
  ASSUME FilesInv, StoreInv, CpOpen \/ CpRead \/ CpWrite \/ CpClose
  PROVE  StoreInv'
<1>0. /\ TypedInv /\ command' = command /\ command.from \in Paths /\ command.to \in Paths
      /\ buffer \in 0..BufferSize /\ total \in Nat /\ expected \in 0..(Wrap - 1) \cup {None}
  <2>1. command' = command /\ command.from \in Paths /\ command.to \in Paths /\ TypedInv
    BY PathsTyped DEF CpOpen, CpRead, CpWrite, CpClose, FilesInv, WriteInv, CopyPlaces, console
  <2> QED  BY <2>1 DEF StoreInv
<1>1. CASE CpOpen
  <2>1. UNCHANGED <<buffer, total, expected>> /\ at' \in {"prompt", "copy"}
    BY <1>1 DEF CpOpen, Return
  <2>2. CASE at' = "prompt" /\ UNCHANGED files
    BY <1>0, <2>1, <2>2 DEF StoreInv
  <2>3. CASE /\ at' = "copy" /\ files[command.from] # None
             /\ SetFile(command.to, Copy(files[command.from].of, 0))
    <3>1. files[command.from].of \in Seq(0..9)
      BY <1>0, <2>3 DEF StoreInv
    <3> QED  BY <1>0, <2>1, <2>3, <3>1, StoreSet DEF StoreInv
  <2> QED  BY <1>1, <2>2, <2>3 DEF CpOpen, Return
<1>2. CASE CpRead
  <2>1. UNCHANGED <<files, expected>> /\ at = "copy" /\ at' \in {"copy out", "copied"}
    BY <1>2 DEF CpRead
  <2>2. buffer' \in 0..BufferSize /\ total' \in Nat
    <3>1. IsFile(files[command.from])
      BY <2>1 DEF FilesInv, WriteInv, CopyInv, CopyPlaces
    <3> DEFINE k == files[command.from].size - total
    <3>2. k \in Int
      BY <1>0, <3>1 DEF IsFile
    <3> HIDE DEF k
    <3>3. \A n \in Pieces(k) : n \in 0..BufferSize /\ total + n \in Nat
      BY <1>0, <3>2, PiecesThere, NumberAssumption
    <3>4. \/ \E n \in Pieces(k) : buffer' = n /\ total' = total + n
          \/ UNCHANGED <<buffer, total>>
      BY <1>2 DEF CpRead, k
    <3> QED  BY <1>0, <3>3, <3>4
  <2> QED  BY <1>0, <2>1, <2>2 DEF StoreInv
<1>3. CASE CpWrite
  <2>1. PICK n : Grow(command.to, n)
    BY <1>3 DEF CpWrite
  <2>2. /\ \A p \in Paths : files'[p] = None \/ files'[p].of \in Seq(0..9)
        /\ files'[command.to].of \in Seq(0..9)
    BY <1>0, <1>3, <2>1, StoreGrow DEF StoreInv, CpWrite
  <2>3. buffer' \in 0..BufferSize
    <3>1. buffer' = 0
      BY <1>3 DEF CpWrite
    <3>2. BufferSize \in Nat
      BY NumberAssumption
    <3> QED  BY <3>1, <3>2
  <2>4. UNCHANGED <<total, expected>> /\ at' \in {"copy", "copied"}
    BY <1>3 DEF CpWrite
  <2> QED  BY <1>0, <2>2, <2>3, <2>4 DEF StoreInv
<1>4. CASE CpClose
  BY <1>0, <1>4, StoreOther DEF CpClose, Return
<1> QED  BY <1>1, <1>2, <1>3, <1>4

LEMMA StoreStep == ASSUME FilesInv, PeerInv, StoreInv, [Next]_vars PROVE StoreInv'
<1> USE DEF console
<1>1. CASE UNCHANGED vars
  BY <1>1, StoreOther DEF vars
<1>2. CASE FetchConnect \/ FetchHeader \/ FetchOpen \/ FetchRead \/ FetchWrite \/ FetchFinish
  BY <1>2, StoreFetch
<1>3. CASE CpOpen \/ CpRead \/ CpWrite \/ CpClose
  BY <1>3, StoreCopy
<1>4. CASE Cat \/ Show
  BY <1>4 DEF Cat, Show, Return, StoreInv
<1>5. CASE Touch
  <2>1. Copy(<<0>>, 0).of \in Seq(0..9)
    BY DEF Copy
  <2>2. \A p \in Paths : files'[p] \in {files[p], Copy(<<0>>, 0)}
    BY <1>5 DEF Touch
  <2>3. \A p \in Paths : files'[p] = None \/ files'[p].of \in Seq(0..9)
    BY <2>1, <2>2 DEF StoreInv
  <2> QED  BY <1>5, <2>3 DEF Touch, Return, StoreInv
<1>6. CASE Unlink
  BY <1>6 DEF Unlink, SetFile, Return, FilesInv, TypedInv, StoreInv
<1>7. CASE RunClone \/ Exec \/ Wait
  BY <1>7, StoreOther DEF RunClone, Exec, Wait, Return
<1>8. CASE PingOpen \/ PingSend \/ PingTimeout \/ PingReceive \/ PingClose
  BY <1>8, StoreOther DEF PingOpen, PingSend, PingTimeout, PingReceive, PingClose, NextRequest, Return
<1>9. CASE NcConnect \/ NcListen \/ NcAccept
  BY <1>9, StoreOther DEF NcConnect, NcListen, NcAccept, Dial, Return, Usage
<1>10. CASE RelayPoll \/ RelayToConsole \/ RelayToSocket
  BY <1>10, StoreOther DEF RelayPoll, RelayToConsole, RelayToSocket, HangUp, Return
<1>11. CASE ReadLine
  <2>1. UNCHANGED <<files, buffer>> /\ (total' = total \/ total' = 0) /\ expected' \in {expected, None}
    BY <1>11 DEF ReadLine, RunCommand
  <2>2. at' \notin {"receive", "store", "copy", "copy out"}
    BY <1>11 DEF ReadLine, RunCommand, Builtins
  <2>3. total \in Nat /\ expected \in 0..(Wrap - 1) \cup {None}
    BY DEF StoreInv
  <2>4. total' \in Nat
    BY <2>1, <2>3
  <2>5. expected' \in 0..(Wrap - 1) \cup {None}
    BY <2>1, <2>3
  <2> QED  BY <2>1, <2>2, <2>4, <2>5 DEF StoreInv
<1>12. ASSUME NEW line, NEW p, NEW m,
              \/ Type(line) \/ ProgramForks(p) \/ ProgramEnds(p) \/ Arrive(m) \/ Lose
              \/ PeerSends \/ PeerEnds
       PROVE  StoreInv'
  BY <1>12, StoreOther DEF Type, ProgramForks, ProgramEnds, Arrive, Lose, PeerSends, PeerEnds
<1> QED
  BY <1>1, <1>2, <1>3, <1>4, <1>5, <1>6, <1>7, <1>8, <1>9, <1>10, <1>11, <1>12 DEF Next, Run

\* What is waited for: lines, a program and answers.
WaitInv == Len(typed) <= MaxTyped /\ child \in Pids \cup {None} /\ wire.pending \in 0..MaxPending

LEMMA WaitOther == ASSUME WaitInv, UNCHANGED <<typed, child, wire>> PROVE WaitInv'
BY DEF WaitInv

LEMMA WaitTyped ==
  ASSUME FilesInv, WaitInv, typed # <<>>, typed' = Tail(typed), UNCHANGED <<child, wire>>
  PROVE  WaitInv'
<1>1. typed \in Seq(session \cup {Data, Eof}) /\ MaxTyped \in Nat
  BY NumberAssumption DEF FilesInv, TypedInv
<1>2. Len(typed') <= MaxTyped
  BY <1>1 DEF WaitInv
<1> QED  BY <1>2 DEF WaitInv

LEMMA WaitStep == ASSUME FilesInv, PingInv, WaitInv, [Next]_vars PROVE WaitInv'
<1> USE DEF console, processes, icmp
<1>1. CASE UNCHANGED vars
  BY <1>1, WaitOther DEF vars
<1>2. CASE FetchConnect \/ FetchHeader \/ FetchOpen \/ FetchRead \/ FetchWrite \/ FetchFinish
  BY <1>2, WaitOther DEF FetchConnect, FetchHeader, FetchOpen, FetchRead, FetchWrite, FetchFinish
<1>3. CASE CpOpen \/ CpRead \/ CpWrite \/ CpClose \/ Cat \/ Show \/ Touch \/ Unlink
  BY <1>3, WaitOther DEF CpOpen, CpRead, CpWrite, CpClose, Cat, Show, Touch, Unlink
<1>4. CASE RunClone \/ Exec \/ Wait
  BY <1>4 DEF RunClone, Exec, Wait, WaitInv
<1>5. CASE PingOpen \/ PingSend
  <2>1. CASE UNCHANGED wire
    BY <1>5, <2>1, WaitOther DEF PingOpen, PingSend
  <2>2. CASE wire' = [wire EXCEPT !.queue = <<>>]
    BY <1>5, <2>2 DEF PingOpen, PingSend, WaitInv, PingInv, WireType
  <2>3. CASE wire' = [wire EXCEPT !.pending = IF @ = MaxPending THEN @ ELSE @ + 1]
    <3> DEFINE n == IF wire.pending = MaxPending THEN wire.pending ELSE wire.pending + 1
    <3>1. n \in 0..MaxPending
      BY NumberAssumption DEF WaitInv
    <3>2. wire' = [wire EXCEPT !.pending = n]
      BY <2>3
    <3> HIDE DEF n
    <3>3. wire'.pending = n
      BY <3>2 DEF PingInv, WireType
    <3> QED  BY <1>5, <3>1, <3>3 DEF PingOpen, PingSend, WaitInv
  <2> QED  BY <1>5, <2>1, <2>2, <2>3 DEF PingOpen, PingSend
<1>6. CASE PingTimeout \/ PingClose
  BY <1>6, WaitOther DEF PingTimeout, PingClose
<1>7. CASE PingReceive
  BY <1>7 DEF PingReceive, WaitInv, PingInv, WireType
<1>8. CASE NcConnect \/ NcListen \/ NcAccept \/ RelayPoll \/ RelayToConsole
  BY <1>8, WaitOther DEF NcConnect, NcListen, NcAccept, RelayPoll, RelayToConsole
<1>9. CASE RelayToSocket \/ ReadLine
  BY <1>9, WaitOther, WaitTyped DEF RelayToSocket, ReadLine
<1>10. ASSUME NEW line \in session \cup {Data, Eof}, Type(line) PROVE WaitInv'
  <2>1. typed \in Seq(session \cup {Data, Eof}) /\ MaxTyped \in Nat
    BY NumberAssumption DEF FilesInv, TypedInv
  <2>2. Len(typed) < MaxTyped /\ typed' = Append(typed, line)
    BY <1>10 DEF Type
  <2>3. Len(typed') <= MaxTyped
    BY <2>1, <2>2
  <2> QED  BY <1>10, <2>3 DEF Type, WaitInv
<1>11. ASSUME NEW m, Arrive(m) PROVE WaitInv'
  <2>1. wire'.pending = wire.pending - 1 /\ wire.pending > 0
    BY <1>11 DEF Arrive
  <2> QED  BY <1>11, <2>1, NumberAssumption DEF Arrive, WaitInv
<1>12. CASE Lose
  BY <1>12, NumberAssumption DEF Lose, WaitInv, PingInv, WireType
<1>13. ASSUME NEW p, ProgramForks(p) \/ ProgramEnds(p) \/ PeerSends \/ PeerEnds PROVE WaitInv'
  BY <1>13, WaitOther DEF ProgramForks, ProgramEnds, PeerSends, PeerEnds
<1> QED
  BY <1>1, <1>2, <1>3, <1>4, <1>5, <1>6, <1>7, <1>8, <1>9, <1>10, <1>11, <1>12, <1>13 DEF Next, Run

TypeInv == OpenInv /\ FilesInv /\ PingInv /\ RunInv /\ PeerInv /\ SaidInv /\ StoreInv /\ WaitInv

LEMMA TypeInit == Init => TypeInv
<1> SUFFICES ASSUME Init PROVE TypeInv
  OBVIOUS
<1>1. OpenInv /\ PingInv /\ RunInv
  BY DEF Init, OpenInv, Holding, PingInv, WireType, PingType, Messages, RunInv, NoProcess, ProcessType, Data
<1>2. SaidInv /\ WaitInv
  BY NumberAssumption DEF Init, SaidInv, WaitInv
<1>3. StoreInv
  <2>1. Copy(LocalSize, Decimal(LocalSize)).of \in Seq(0..9)
    BY DigitAssumption DEF Copy
  <2> QED  BY <2>1, NumberAssumption DEF Init, StoreInv
<1> QED  BY <1>1, <1>2, <1>3, FilesInit, PeerInit DEF TypeInv

LEMMA TypeInvIsType == TypeInv => TypeOK
<1> SUFFICES ASSUME TypeInv PROVE TypeOK
  OBVIOUS
<1>1. said \subseteq Words
  BY DEF TypeInv, SaidInv
<1>2. typed \in Seq(Lines) /\ Len(typed) <= MaxTyped
  <2>1. session \cup {Data, Eof} \subseteq Lines
    BY DEF TypeInv, FilesInv, TypedInv, Lines, Commands
  <2> QED  BY <2>1 DEF TypeInv, FilesInv, TypedInv, WaitInv
<1>3. fds \subseteq {"socket", "output", "source", "raw", "listener"}
  BY DEF TypeInv, OpenInv, Holding
<1>4. ASSUME NEW p \in Paths PROVE files[p] = None \/ files[p] \in FileType
  <2>1. files[p] = None \/ (IsFile(files[p]) /\ files[p].of \in Seq(0..9))
    BY DEF TypeInv, FilesInv, TypedInv, StoreInv
  <2> QED  BY <2>1 DEF IsFile, Copy, FileType
<1>5. buffer \in 0..BufferSize /\ total \in Nat /\ expected \in 0..(Wrap - 1) \cup {None}
  BY DEF TypeInv, StoreInv
<1>6. peer.taken <= peer.sent /\ peer.sent <= Decimal(peer.size)
  BY DEF TypeInv, PeerInv
<1>7. \A p \in Pids : procs[p].is \in {"none", "forked", "running", "zombie"}
  BY DEF TypeInv, RunInv, ProcessType
<1>8. child \in Pids \cup {None} /\ (at = "wait" => child # None)
  BY NoneAssumption DEF TypeInv, WaitInv, RunInv
<1>9. wire.pending \in 0..MaxPending /\ ping.seq \in 1..3
  BY DEF TypeInv, WaitInv, SaidInv
<1> QED
  BY <1>1, <1>2, <1>3, <1>4, <1>5, <1>6, <1>7, <1>8, <1>9 DEF TypeOK

\* What the shell holds has the types that are said, for any commands, sizes
\* and programs: no read fills more than the buffer, no status that is printed
\* is out of range, and no more is received than was sent.
THEOREM ShellTyped == Spec => []TypeOK
<1>1. TypeInv /\ [Next]_vars => TypeInv'
  BY OpenStep, FilesStep, PingElsewhere, RunStep, PeerStep, SaidStep, StoreStep, WaitStep DEF TypeInv
<1> QED  BY <1>1, TypeInit, TypeInvIsType, PTL DEF Spec
=============================================================================
