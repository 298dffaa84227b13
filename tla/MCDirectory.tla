---------------------------- MODULE MCDirectory -----------------------------
(***************************************************************************)
(* Two nodes with one updating thread each.                                *)
(***************************************************************************)
EXTENDS Directory, TLC

CONSTANTS A, B, tA, tB, u1, k1

MCHome == tA :> A @@ tB :> B

\* Every node builds from Redis.
MCNoPeer == A :> A @@ B :> B

\* B loads A's snapshot.
MCPeer == A :> A @@ B :> A

\* The directory treats every number by itself, so one is enough.
MCOneUser == {<<u1, k1>>}
=============================================================================
