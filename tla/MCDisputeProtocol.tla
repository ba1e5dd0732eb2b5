------------------------- MODULE MCDisputeProtocol --------------------------
(***************************************************************************)
(* Small instances of DisputeProtocol: two batches of up to two.           *)
(***************************************************************************)
EXTENDS DisputeProtocol

MCBatch == UNION {[1..n -> Tx] : n \in 1..2}
MCPromise == [txData: Tx, nonceId: 0..1, batchId: 0..1, commitTimestamp: 2 .. MaxTime + 1]

=============================================================================
