------------------------------ MODULE PhoneMap ------------------------------
(***************************************************************************)
(* What InternalBuffers promises to DirectoryMap: a finite map from phone  *)
(* numbers to uuids.  insert maps the number to the uuid whether or not it *)
(* was mapped before and returns TRUE when it was not; remove unmaps the   *)
(* number and returns TRUE when it was mapped.  Both reject the numbers    *)
(* that mark free and deleted slots.                                       *)
(***************************************************************************)
EXTENDS Integers

CONSTANTS Phones, Uuids

VARIABLES map,  \* the set of pairs <<e164, uuid>>
          ret   \* what the last operation returned

vars == <<map, ret>>

Mapped(k) == \E u \in Uuids : <<k, u>> \in map

Init == map = {} /\ ret = "none"

Insert(k, u) ==
  /\ map' = {p \in map : p[1] # k} \cup {<<k, u>>}
  /\ ret' = IF Mapped(k) THEN "false" ELSE "true"

Remove(k) ==
  /\ map' = {p \in map : p[1] # k}
  /\ ret' = IF Mapped(k) THEN "true" ELSE "false"

Reject == ret' = "invalid_e164" /\ UNCHANGED map

Next == \/ \E k \in Phones, u \in Uuids : Insert(k, u)
        \/ \E k \in Phones : Remove(k)
        \/ Reject

Spec == Init /\ [][Next]_vars
=============================================================================
