------------------------ MODULE MCCommitCoordinator ------------------------
(***************************************************************************)
(* Instances of CommitCoordinator for TLC.                                 *)
(***************************************************************************)
EXTENDS CommitCoordinator, TLC

CONSTANTS k1, k2, c1, c2, t1, t2, t3, t4

Request(kind, key, createOnly, cohort, owned) ==
    [kind |-> kind, key |-> key, src |-> key, createOnly |-> createOnly, cohort |-> cohort,
     owned |-> owned]

Put(key, cohort) == Request("put", key, FALSE, cohort, FALSE)
Create(key, cohort) == Request("put", key, TRUE, cohort, FALSE)
Delete(key) == Request("delete", key, FALSE, c1, FALSE)
Stream(key, createOnly) == Request("stream", key, createOnly, c1, TRUE)
StreamUnknownLength(key) == Request("stream", key, FALSE, c1, FALSE)
Snapshotting == Request("snapshot", k1, FALSE, c1, TRUE)
Window == Request("window", k1, FALSE, c1, TRUE)
Reload == Request("reload", k1, FALSE, c1, TRUE)

\* A copy between two keys, whose source is in the retained cohort.
Copy == [kind |-> "copy", key |-> k2, src |-> k1, createOnly |-> FALSE, cohort |-> c1, owned |-> FALSE]

\* Conditional and unconditional writes and deletes of two protection cohorts.
ClientRequests ==
    {Put(k1, c1), Put(k1, c2), Create(k1, c1), Delete(k1), Stream(k1, TRUE), Copy}

\* Checkpoints, compaction and maintenance windows between writes.
Maintenance == {Put(k1, c1), Delete(k1), Snapshotting, Window, Reload}

\* Streamed puts of known and of unknown length among requests of the handler.
Cancellable == {Put(k1, c1), Delete(k1), Stream(k1, FALSE), StreamUnknownLength(k1)}

\* A write, a request of the handler that drains it, and a checkpoint.
Drained == {Put(k1, c1), Delete(k1), Snapshotting}

Streamed == {Put(k1, c1), Stream(k1, FALSE)}

Checkpointed == {Put(k1, c1), Snapshotting}

Symmetry == Permutations(Tasks)
=============================================================================
