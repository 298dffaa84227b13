-------------------------- MODULE MCPendingRequests --------------------------
(***************************************************************************)
(* Three clients and two enclaves.  In one queue, the requests of two      *)
(* clients fill a batch together and those of all three exceed it.  In two *)
(* queues, clients c1 and c2 need one enclave and c3 the other.            *)
(***************************************************************************)
EXTENDS PendingRequests, TLC

CONSTANTS c1, c2, c3, A, B, w1, w2

MCAddressCount == [r \in Requests |-> IF r = c2 THEN 2 ELSE 1]
MCOneQueue     == [r \in Requests |-> A]
MCTwoQueues    == [r \in Requests |-> IF r = c3 THEN B ELSE A]
MCRates        == {0, 2}

WorkerSymmetry == Permutations(Workers)

=============================================================================
