--------------------------- MODULE PendingOverlay ---------------------------
(***************************************************************************)
(* The speculative overlay of a v3 repository (PendingV3State): staged     *)
(* mutations that no accepted anchor covers yet.  It is an append-only     *)
(* vector addressed by absolute positions, so that a rollback position     *)
(* taken before a publication consumed a prefix stays meaningful after it. *)
(*                                                                         *)
(* An operation stages one delta: the manifests and payloads that the code *)
(* keeps in parallel vectors have the same positions as the deltas, and a  *)
(* key stands for its one blinded key (no namespace-key rotation is in     *)
(* progress).                                                              *)
(***************************************************************************)
EXTENDS Integers, Sequences, FiniteSets

CONSTANTS
    NoPrefix,            \* the overlay has no frozen prefix
    MaxPendingOperations \* V3_MAX_PENDING_OPERATIONS

ASSUME MaxPendingAssumption == MaxPendingOperations \in Nat \ {0}

NewOverlay(seq) ==
    [revision |-> 0, base |-> 0, end |-> 0, frozen |-> NoPrefix,
     alloc |-> seq, deltas |-> <<>>]

IsEmpty(o) == o.deltas = <<>>

\* maximum_delta_generation; 0 stands for None (generations start at 1)
MaxGeneration(ds) ==
    IF ds = {} THEN 0 ELSE CHOOSE g \in {d.gen : d \in ds} : \A d \in ds : d.gen <= g

\* Mutation of Coalesce: the first delta of a key wins.
CoalesceFirst(ds) ==
    {ds[i] : i \in {j \in DOMAIN ds : \A k \in DOMAIN ds : k < j => ds[k].key # ds[j].key}}

\* Keep the last delta of every key.
Coalesce(ds) ==
    {ds[i] : i \in {j \in DOMAIN ds : \A k \in DOMAIN ds : k > j => ds[k].key # ds[j].key}}

\* `ops` keeps the uncoalesced mutations for the properties to refer to.
Snapshot(o) ==
    [revision |-> o.revision, ops |-> o.deltas, deltas |-> Coalesce(o.deltas),
     seq |-> MaxGeneration(Coalesce(o.deltas))]

\* Mutation of AllocateSequence: the cursor is not advanced.
AllocateNothing(o) == o

\* allocate_sequence: the cursor only moves forward.
AllocateSequence(o) == [o EXCEPT !.alloc = @ + 1]

CanFreeze(o) == o.frozen = NoPrefix /\ ~IsEmpty(o)

Freeze(o) ==
    [o EXCEPT !.frozen = [revision |-> o.revision, end |-> o.end, seq |-> Snapshot(o).seq]]

CanAppend(o) == Len(o.deltas) + 1 <= MaxPendingOperations

\* append_operation; the checkpoint it returns is the old o.end
AppendOperation(o, delta) ==
    [o EXCEPT !.deltas = Append(@, delta), !.revision = @ + 1, !.end = @ + 1]

\* relative_position fails outside base .. end
InRange(o, position) == o.base <= position /\ position <= o.end

CanRollback(o, checkpoint) == InRange(o, checkpoint)

\* Mutation of Rollback: the end position is not reset.
RollbackKeepsEnd(o, checkpoint) ==
    [o EXCEPT !.deltas = SubSeq(@, 1, checkpoint - o.base), !.revision = @ + 1, !.frozen = NoPrefix]

Rollback(o, checkpoint) ==
    [o EXCEPT !.deltas = SubSeq(@, 1, checkpoint - o.base), !.revision = @ + 1,
              !.end = checkpoint, !.frozen = NoPrefix]

ValidSnapshot(o, s) ==
    IF o.frozen # NoPrefix
    THEN /\ InRange(o, o.frozen.end)
         /\ s.revision = o.frozen.revision /\ s.seq = o.frozen.seq
    ELSE s.revision = o.revision /\ s.seq = MaxGeneration({o.deltas[i] : i \in DOMAIN o.deltas})

CanFinish(o) == o.frozen # NoPrefix => InRange(o, o.frozen.end)

\* finish_publication consumes the frozen prefix, or everything.
FinishPublication(o) ==
    IF o.frozen # NoPrefix
    THEN [o EXCEPT !.deltas = SubSeq(@, o.frozen.end - o.base + 1, Len(@)),
                   !.base = o.frozen.end, !.frozen = NoPrefix]
    ELSE [o EXCEPT !.deltas = <<>>, !.base = o.end]

\* effective_head(...).live(): the newest staged delta of the key, else accepted.
EffectiveLive(o, acceptedLive, key) ==
    LET staged == {i \in DOMAIN o.deltas : o.deltas[i].key = key}
    IN  IF staged = {} THEN acceptedLive
        ELSE o.deltas[CHOOSE i \in staged : \A j \in staged : j <= i].live
=============================================================================
