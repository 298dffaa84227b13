---------------------------- MODULE MCSgxEnclave ----------------------------
(* Instances of SgxEnclave for TLC.                                        *)
EXTENDS SgxEnclave

Request(kind, count) == [kind |-> kind, count |-> count]

\* Batches in which a refused request stands between, before or after others,
\* and one that a malformed request aborts.
MCBatches ==
  { <<Request("refused", 1), Request("good", 2), Request("good", 1)>>,
    <<Request("good", 1), Request("refused", 2), Request("good", 2)>>,
    <<Request("good", 2), Request("malformed", 1)>> }
=============================================================================
