---------------------------- MODULE MCHashLookup ----------------------------
(* Chains of the real size; more numbers in one slot than it has places.   *)
EXTENDS HashLookup
Count == 13
MCHashes == {[n \in 0..Count \cup {Invalid} |-> 0], [n \in 0..Count \cup {Invalid} |-> n]}
MCBatches == {[i \in 1..n |-> i] : n \in 1..Count}
MCDirectories == {[i \in 1..Count |-> <<i, {1}>>]}
=============================================================================
