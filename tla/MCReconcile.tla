----------------------------- MODULE MCReconcile -----------------------------
(* Instance of Reconcile: one account at the beginning, which has one of   *)
(* the numbers; they are interchangeable.                                  *)
EXTENDS Reconcile
First == CHOOSE k \in Numbers : TRUE
MCAccounts == {[u \in Uuids |-> IF u = 1 THEN First ELSE NoNumber]}
=============================================================================
