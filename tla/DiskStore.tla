----------------------------- MODULE DiskStore -----------------------------
(***************************************************************************)
(* What the build of distribution disks promises: an output gets a disk    *)
(* when it has none and keeps it, with what guests write to it, until the  *)
(* user moves it aside; it is certified once, as what was provisioned on   *)
(* it; and what is shipped is the provisioned disk of an output that is    *)
(* certified at that moment, or nothing the audit accepts.                 *)
(***************************************************************************)
EXTENDS Naturals

CONSTANTS
  Outputs,
  Pristine,  \* the outputs that are shipped
  Guests,    \* what is provisioned
  None

VARIABLES
  disk,    \* the guest on each output, and how often it was written since
  origin,  \* what each output is certified to have had, or None
  shipped  \* the disk of the archive, or None

Provisioned(g) == [serial |-> g, guest |-> 0]

Init ==
  /\ disk = [o \in Outputs |-> None]
  /\ origin = [o \in Outputs |-> None]
  /\ shipped = None

Provide(o, g) ==
  /\ disk[o] = None
  /\ disk' = [disk EXCEPT ![o] = Provisioned(g)]
  /\ UNCHANGED <<origin, shipped>>

Certify(o) ==
  /\ disk[o] # None /\ origin[o] = None
  /\ origin' = [origin EXCEPT ![o] = Provisioned(disk[o].serial)]
  /\ UNCHANGED <<disk, shipped>>

Use(o) ==
  /\ disk[o] # None
  /\ disk' = [disk EXCEPT ![o] = [serial |-> @.serial, guest |-> @.guest + 1]]
  /\ UNCHANGED <<origin, shipped>>

Retire(o) ==
  /\ disk[o] # None
  /\ disk' = [disk EXCEPT ![o] = None] /\ origin' = [origin EXCEPT ![o] = None]
  /\ UNCHANGED shipped

Ship(o) ==
  /\ o \in Pristine /\ disk[o] # None /\ origin[o] # None
  /\ shipped' = origin[o]
  /\ UNCHANGED <<disk, origin>>

Withdraw == shipped' = None /\ UNCHANGED <<disk, origin>>

Next ==
  \/ Withdraw
  \/ \E o \in Outputs :
       \/ \E g \in Guests : Provide(o, g)
       \/ Certify(o) \/ Use(o) \/ Retire(o) \/ Ship(o)

Spec == Init /\ [][Next]_<<disk, origin, shipped>>
=============================================================================
