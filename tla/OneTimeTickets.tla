--------------------------- MODULE OneTimeTickets ---------------------------
(***************************************************************************)
(* What the enclave promises about pending requests: a negotiation issues  *)
(* a ticket, numbered from 1; a ticket may be looked up while it is open   *)
(* and redeemed once; it stays open until it is redeemed or Size further   *)
(* tickets have been issued, and nothing else closes it.                   *)
(***************************************************************************)
EXTENDS Integers

CONSTANT Size

VARIABLES
  issued,   \* number of tickets issued
  open      \* tickets that can be redeemed

Init == issued = 0 /\ open = {}

Issue ==
  /\ issued' = issued + 1
  /\ open' = (open \ {issued + 1 - Size}) \cup {issued + 1}

Redeem(id) ==
  /\ id \in open
  /\ open' = open \ {id}
  /\ UNCHANGED issued

Next == Issue \/ \E id \in 1..issued : Redeem(id)

Spec == Init /\ [][Next]_<<issued, open>>
=============================================================================
