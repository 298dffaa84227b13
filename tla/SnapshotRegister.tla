-------------------------- MODULE SnapshotRegister --------------------------
(***************************************************************************)
(* What DirectoryMap promises: one map that is updated number by number or *)
(* loaded as a whole, and a published copy of it.  Publishing copies the   *)
(* latest map and changes nothing else.                                    *)
(***************************************************************************)
CONSTANTS Phones, Loads

VARIABLES latest, published

vars == <<latest, published>>

Init == latest = published

UpdateNumber ==
  /\ \E k \in Phones : \A j \in Phones \ {k} : latest'[j] = latest[j]
  /\ UNCHANGED published

Load == latest' \in Loads /\ UNCHANGED published

Publish == published' = latest /\ UNCHANGED latest

Next == UpdateNumber \/ Load \/ Publish

Spec == Init /\ [][Next]_vars
=============================================================================
