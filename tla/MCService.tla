----------------------------- MODULE MCService ------------------------------
(***************************************************************************)
(* The tables of the directory and the limits on requests.  The parts      *)
(* share no state here, so only one of them moves in a behaviour and the   *)
(* others keep one initial state.                                          *)
(***************************************************************************)
EXTENDS InternalBuffers, DirectoryMap, LeakyBucket, PhoneLimiter, TLC

CONSTANTS p1, p2, u1, u2, c1, c2, b1, b2

VARIABLE moves \* the part that moves

\* Numbers that collide in three, four and five slots.
MCPhones == {1, 4, 5, 9}

MCStreams == {p1 :> u1 @@ p2 :> u2, p1 :> NoUuid @@ p2 :> u1}

\* Every configuration of one or two ranges, those with gaps, overlaps and
\* ranges in the wrong order too.
MCConfigs == UNION {[1..n -> [start : Hashes, end : Hashes]] : n \in 1..2}

ServiceInit ==
  /\ moves \in {"buffers", "map", "limit", "phone"}
  /\ Init /\ MapInit /\ LimitInit
  /\ PhoneInit
  /\ moves = "phone" \/ (kind = "attest" /\ config = <<[start |-> 0, end |-> 0]>>)

ServiceNext ==
  \/ /\ moves = "buffers" /\ Next
     /\ UNCHANGED <<moves, mapVars, limitVars, phoneVars>>
  \/ /\ moves = "map" /\ MapNext
     /\ UNCHANGED <<moves, vars, limitVars, phoneVars>>
  \/ /\ moves = "limit" /\ LimitNext
     /\ UNCHANGED <<moves, vars, mapVars, phoneVars>>
  \/ /\ moves = "phone" /\ PhoneNext
     /\ UNCHANGED <<moves, vars, mapVars, limitVars>>

ServiceSpec == ServiceInit /\ [][ServiceNext]_<<moves, vars, mapVars, limitVars, phoneVars>>
=============================================================================
