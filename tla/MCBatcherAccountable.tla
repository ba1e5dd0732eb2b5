------------------------ MODULE MCBatcherAccountable ------------------------
(***************************************************************************)
(* Small instances of BatcherAccountable.                                  *)
(***************************************************************************)
EXTENDS BatcherAccountable

MCBatch == {<<>>, <<"a">>, <<"b">>, <<"a", "b">>}
MCPromise == {[txData |-> "a", nonceId |-> 0, batchId |-> 0, commitTimestamp |-> 1],
              [txData |-> "b", nonceId |-> 1, batchId |-> 1, commitTimestamp |-> 2]}

=============================================================================
