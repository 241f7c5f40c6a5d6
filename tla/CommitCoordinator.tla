------------------------- MODULE CommitCoordinator -------------------------
(***************************************************************************)
(* The v3 commit coordinator (coordinator.rs): concurrent client requests  *)
(* stage into one pending batch, spawned publishers publish it, and every  *)
(* caller is answered only after the covering commit was accepted.  While  *)
(* a publisher works on a frozen prefix, a bounded successor batch stages  *)
(* behind it.  Deletes, streamed puts, checkpoints, maintenance windows    *)
(* and enqueue barriers drain the batch under both locks, in that order:   *)
(* publisher, then stage.                                                  *)
(*                                                                         *)
(* A task is one request.  Code that runs while the stage lock is held and *)
(* awaits nothing contended is one step.                                   *)
(***************************************************************************)
EXTENDS CommitPublication

CONSTANTS
    Requests,            \* the requests a task may make
    Retained,            \* cohorts whose copy source must be protected first
    Free,                \* nobody holds the lock
    NoCohort,            \* PendingBatch.protection is None
    MaxBatchItems, MaxPendingItems,
    RequestRuns, PauseRuns, RetryInterval, \* V3_INDEX_COMPACTION_*
    HasGuard,            \* a maintenance guard is configured
    MaxCrashes

VARIABLES
    req,        \* [Tasks -> Requests]
    pc,         \* where each task is
    answer,     \* what each caller was told
    notified,   \* capacity_changed fired since the task registered
    checked,    \* compaction_checked of enqueue_write
    goal,       \* why a task takes both locks
    publisher, stage,
    batch,      \* PendingBatch
    timers,     \* spawned publishers that do not hold the publisher lock yet
    running,    \* the generation expected by the one that does
    crashes

taskVars == <<req, pc, answer, notified, checked, goal>>
lockVars == <<publisher, stage>>
spawnVars == <<timers, running>>
vars == <<overlay, accepted, recoveryRequired, chain, limbo, pub, faults,
          req, pc, answer, notified, checked, goal,
          publisher, stage, batch, timers, running, crashes>>

NoDeltas == [revision |-> 0, ops |-> <<>>, deltas |-> {}, seq |-> 0]

NewBatch ==
    [waiters |-> <<>>, rollback |-> <<>>, publishing |-> FALSE, items |-> 0, gen |-> 0,
     failed |-> FALSE, protection |-> NoCohort]

Init ==
    /\ PubInit
    /\ req \in [Tasks -> Requests]
    /\ pc = [t \in Tasks |-> "idle"]
    /\ answer = [t \in Tasks |-> "none"]
    /\ notified = [t \in Tasks |-> FALSE]
    /\ checked = [t \in Tasks |-> FALSE]
    /\ goal = [t \in Tasks |-> "own"]
    /\ publisher = Free /\ stage = Free
    /\ batch = NewBatch
    /\ timers = {} /\ running = 0 /\ crashes = 0

(***************************************************************************)
(* Helpers                                                                 *)
(***************************************************************************)
Occupied == batch.publishing \/ batch.waiters # <<>>

PendingItems == Len(batch.waiters) + batch.items

CompactionDue(runs) ==
    runs >= RequestRuns /\ (runs >= PauseRuns \/ runs % RetryInterval = 0)

\* A copy inherits the protection of its accepted source.
CohortOf(t) == IF req[t].kind = "copy" THEN accepted.ns[req[t].src].cohort ELSE req[t].cohort

PayloadOf(t) ==
    CASE req[t].kind = "put" -> "buffered" [] req[t].kind = "copy" -> "copied"
      [] req[t].kind = "stream" -> "detached" [] OTHER -> "none"

RetainedCopy(t) == req[t].kind = "copy" /\ CohortOf(t) \in Retained

\* The caller gets `a`; the locks the task holds are dropped.
Return(t, a) ==
    /\ pc' = [pc EXCEPT ![t] = "done"]
    /\ answer' = [answer EXCEPT ![t] = a]
    /\ publisher' = IF publisher = t THEN Free ELSE publisher
    /\ stage' = IF stage = t THEN Free ELSE stage

Goto(t, l) == pc' = [pc EXCEPT ![t] = l] /\ UNCHANGED answer

\* finish_v3_waiters sends one result to every waiter; a caller that went away
\* ignores it.
Told(waiters) == {t \in Tasks : pc[t] = "waiting" /\ \E i \in DOMAIN waiters : waiters[i] = t}

Tell(waiters, a, nextPc, nextAnswer) ==
    /\ pc' = [t \in Tasks |-> IF t \in Told(waiters) THEN "done" ELSE nextPc[t]]
    /\ answer' = [t \in Tasks |-> IF t \in Told(waiters) THEN a ELSE nextAnswer[t]]

\* Mutation of NotifyAll: capacity_changed is not signalled.
NotifyNobody == UNCHANGED notified

NotifyAll == notified' = [t \in Tasks |-> TRUE]

(***************************************************************************)
(* Requests enter                                                          *)
(***************************************************************************)
NeedsReadyState(t) == req[t].kind \in {"put", "stream"}

Start(t) ==
    /\ pc[t] = "idle"
    /\ \/ /\ NeedsReadyState(t) /\ recoveryRequired
          /\ Return(t, "recovery")
       \/ /\ req[t].kind = "window" /\ ~HasGuard
          /\ Return(t, "failed")
       \/ /\ ~(NeedsReadyState(t) /\ recoveryRequired)
          /\ ~(req[t].kind = "window" /\ ~HasGuard)
          /\ Goto(t, IF req[t].kind \in {"put", "copy"} THEN "register" ELSE "lockPublisher")
          /\ UNCHANGED lockVars
    /\ UNCHANGED <<pubVars, req, notified, checked, goal, batch, spawnVars, crashes>>

(***************************************************************************)
(* enqueue_write                                                           *)
(***************************************************************************)
\* The wake-up is registered before capacity is looked at.
Register(t) ==
    /\ pc[t] = "register"
    /\ notified' = [notified EXCEPT ![t] = FALSE]
    /\ Goto(t, "lockStage")
    /\ UNCHANGED <<pubVars, req, checked, goal, lockVars, batch, spawnVars, crashes>>

CopySource(t) == accepted.ns[req[t].src]

MissingSource(t) == req[t].kind = "copy" /\ (recoveryRequired \/ CopySource(t) = Absent)

WaitForCapacity ==
    /\ ~batch.failed
    /\ \/ batch.publishing /\ PendingItems >= MaxPendingItems
       \/ Len(batch.waiters) >= MaxBatchItems

\* Mutation of NeedsBarrier: cohorts do not wait for each other.
NeedsNoCohortBarrier(t) ==
    \/ RetainedCopy(t) /\ batch.publishing
    \/ ~checked[t] /\ CompactionDue(accepted.catalog.runs)

NeedsBarrier(t) ==
    \/ Occupied /\ batch.protection # CohortOf(t)
    \/ RetainedCopy(t) /\ batch.publishing
    \/ ~checked[t] /\ CompactionDue(accepted.catalog.runs)

\* What refuses the write once the loop is left, in the order of the code.
Refusal(t) ==
    CASE batch.failed -> "failed"
      [] PendingItems >= MaxPendingItems -> "backpressure"
      [] recoveryRequired -> "recovery"
      [] RetainedCopy(t) /\ (~HasGuard \/ ~AnchorMatches) -> "failed"
      [] Incompatible(CohortOf(t)) -> "failed"
      [] req[t].createOnly /\ IsLive(req[t].key) -> "exists"
      [] OTHER -> "none"

\* Mutation of Spawned: the delay timer is forgotten.
SpawnedWhenFull(first, now, gen) == IF now THEN {[gen |-> gen, now |-> TRUE]} ELSE {}

\* A full batch is published at once, the first write of a batch starts the delay.
Spawned(first, now, gen) == IF first \/ now THEN {[gen |-> gen, now |-> now]} ELSE {}

Enqueue(t) ==
    LET delta == DeltaOf(t, req[t].key, CohortOf(t), PayloadOf(t))
        first == batch.waiters = <<>>
        gen == IF first THEN batch.gen + 1 ELSE batch.gen
        now == Len(batch.waiters) + 1 >= MaxBatchItems
    IN  /\ Refusal(t) = "none" /\ CanAppend(overlay)
        /\ Stage(delta)
        /\ batch' = [batch EXCEPT
                        !.waiters = Append(@, t), !.rollback = Append(@, overlay.end), !.gen = gen,
                        !.protection = IF Occupied THEN @ ELSE CohortOf(t)]
        /\ timers' = timers \union Spawned(first, now, gen)
        /\ Goto(t, "waiting")
        /\ UNCHANGED <<lockVars, goal>>

Refuse(t) ==
    /\ Refusal(t) # "none" \/ ~CanAppend(overlay)
    /\ overlay' = IF Refusal(t) = "none" THEN AllocateSequence(overlay) ELSE overlay
    /\ Return(t, IF Refusal(t) = "none" THEN "backpressure" ELSE Refusal(t))
    /\ UNCHANGED <<batch, timers, goal>>

\* One pass of the loop under the stage lock.
EnqueuePass(t) ==
    /\ pc[t] = "lockStage" /\ stage = Free
    /\ \/ /\ MissingSource(t)
          /\ IF recoveryRequired THEN Return(t, "recovery") /\ UNCHANGED goal
             ELSE IF Occupied THEN /\ goal' = [goal EXCEPT ![t] = "flush"]
                                   /\ Goto(t, "lockPublisher") /\ UNCHANGED lockVars
             ELSE Return(t, "notfound") /\ UNCHANGED goal
          /\ UNCHANGED <<overlay, batch, timers>>
       \/ /\ ~MissingSource(t) /\ WaitForCapacity
          /\ Goto(t, "capacity")
          /\ UNCHANGED <<overlay, batch, timers, goal, lockVars>>
       \/ /\ ~MissingSource(t) /\ ~WaitForCapacity /\ NeedsBarrier(t)
          /\ goal' = [goal EXCEPT ![t] = "grow"]
          /\ Goto(t, "lockPublisher")
          /\ UNCHANGED <<overlay, batch, timers, lockVars>>
       \/ /\ ~MissingSource(t) /\ ~WaitForCapacity /\ ~NeedsBarrier(t)
          /\ Enqueue(t) \/ Refuse(t)
    /\ UNCHANGED <<accepted, recoveryRequired, anchorVars, pub, faults, req, notified, checked,
                   running, crashes>>

\* Protecting the source of a retained copy fails.
ProtectFault(t) ==
    /\ pc[t] = "lockStage" /\ stage = Free
    /\ ~MissingSource(t) /\ ~WaitForCapacity /\ ~NeedsBarrier(t)
    /\ RetainedCopy(t) /\ Refusal(t) \notin {"failed", "backpressure", "recovery"}
    /\ Fault("protect")
    /\ Return(t, "failed")
    /\ UNCHANGED <<repoVars, anchorVars, pub, req, notified, checked, goal, batch,
                   spawnVars, crashes>>

Wake(t) ==
    /\ pc[t] = "capacity" /\ notified[t]
    /\ Goto(t, "register")
    /\ UNCHANGED <<pubVars, req, notified, checked, goal, lockVars, batch, spawnVars, crashes>>

(***************************************************************************)
(* Both locks                                                              *)
(***************************************************************************)
LockPublisher(t) ==
    /\ pc[t] = "lockPublisher" /\ publisher = Free
    /\ publisher' = t
    /\ Goto(t, "lockBoth")
    /\ UNCHANGED <<pubVars, req, notified, checked, goal, stage, batch, spawnVars, crashes>>

LockStage(t) ==
    /\ pc[t] = "lockBoth" /\ stage = Free
    /\ stage' = t
    /\ Goto(t, "drain")
    /\ UNCHANGED <<pubVars, req, notified, checked, goal, publisher, batch, spawnVars, crashes>>

\* Where publish_locked_batch()? continues; a flush loops with the locks dropped.
AfterDrain(t) ==
    CASE goal[t] = "flush" -> "register"
      [] goal[t] # "flush" /\ req[t].kind \in {"window", "reload"} -> "own"
      [] OTHER -> "catalog"

DropBoth == publisher' = Free /\ stage' = Free

LocksAfterDrain(t) == IF goal[t] = "flush" THEN DropBoth ELSE UNCHANGED lockVars

\* publish_locked_batch up to its publication
Drain(t) ==
    /\ pc[t] = "drain"
    /\ \/ /\ batch.failed
          /\ Return(t, "failed")
          /\ UNCHANGED <<batch, pub>>
       \/ /\ ~batch.failed /\ batch.waiters = <<>>
          /\ Goto(t, AfterDrain(t))
          /\ LocksAfterDrain(t)
          /\ UNCHANGED <<batch, pub>>
       \/ /\ ~batch.failed /\ batch.waiters # <<>>
          /\ batch' = [batch EXCEPT !.publishing = TRUE, !.items = Len(batch.waiters),
                                    !.waiters = <<>>, !.rollback = <<>>]
          /\ pub' = Begin(t, "batch", Snapshot(overlay), batch.waiters, batch.rollback)
          /\ Goto(t, "draining")
          /\ UNCHANGED lockVars
    /\ UNCHANGED <<repoVars, anchorVars, faults, req, notified, checked, goal, spawnVars, crashes>>

\* Mutation of Outcome: every publication that returned is acknowledged.
OutcomeOk(p) == "ok"

\* Mutation of OverlayAfter: a failed batch stays staged.
OverlayKept(p, rollback) == overlay

\* finish_v3_waiters, shared by both publishers: a failed batch is rolled back,
\* an unresolved one is left to recovery and poisons the coordinator.
Outcome(p) ==
    CASE p.phase = "installed" -> "ok" [] p.phase = "failed" -> "failed" [] OTHER -> "recovery"

Poisons(p, rollback) == p.phase = "recovery" \/ (p.phase = "failed" /\ ~CanRollbackAll(rollback))

OverlayAfter(p, rollback) ==
    IF p.phase = "failed" /\ CanRollbackAll(rollback) THEN RollbackAll(rollback) ELSE overlay

\* ... and after it: the drained batch is free again.
FinishDrain(t) ==
    /\ pc[t] = "draining" /\ Settled /\ pub.owner = t /\ pub.what = "batch"
    /\ overlay' = OverlayAfter(pub, pub.rollback)
    /\ batch' = [batch EXCEPT !.publishing = FALSE, !.items = 0, !.protection = NoCohort,
                              !.failed = Poisons(pub, pub.rollback)]
    /\ NotifyAll
    /\ IF pub.phase = "installed"
       THEN /\ Tell(pub.waiters, "ok", [pc EXCEPT ![t] = AfterDrain(t)], answer)
            /\ LocksAfterDrain(t)
       ELSE /\ Tell(pub.waiters, Outcome(pub), [pc EXCEPT ![t] = "done"],
                    [answer EXCEPT ![t] = "failed"])
            /\ DropBoth
    /\ pub' = NoPub
    /\ UNCHANGED <<accepted, recoveryRequired, anchorVars, faults, req, checked, goal,
                   spawnVars, crashes>>

(***************************************************************************)
(* prepare_index_catalog_for_growth_locked                                 *)
(***************************************************************************)
\* Mutation of MarkChecked: the enqueue loop forgets that it has checked.
MarkNothing(t) == UNCHANGED checked

MarkChecked(t) == checked' = [checked EXCEPT ![t] = TRUE]

\* It returned: an enqueue loops, any other request does its own work, except
\* that a checkpoint request is satisfied by the root of a compaction.
CatalogReady(t, compacted) ==
    IF goal[t] = "grow"
    THEN /\ MarkChecked(t)
         /\ Goto(t, "register") /\ DropBoth
    ELSE /\ UNCHANGED checked
         /\ IF compacted /\ req[t].kind = "snapshot" THEN Return(t, "ok")
            ELSE Goto(t, "own") /\ UNCHANGED lockVars

\* poison_for_compaction_failure
PoisonForCompaction(t) ==
    /\ batch' = [batch EXCEPT !.failed = TRUE]
    /\ Return(t, "failed")
    /\ UNCHANGED checked

CanCompact == accepted.catalog.levelZero >= 2 /\ HasGuard

\* The batch is drained and the stage lock held: the second drain is empty.
Catalog(t) ==
    /\ pc[t] = "catalog"
    /\ \/ /\ ~CompactionDue(accepted.catalog.runs)
          /\ CatalogReady(t, FALSE) /\ UNCHANGED <<batch, pub>>
       \/ /\ CompactionDue(accepted.catalog.runs) /\ accepted.catalog.runs < PauseRuns
          /\ CatalogReady(t, FALSE) /\ UNCHANGED <<batch, pub>>  \* too few runs, not reducing or no guard
       \/ /\ CompactionDue(accepted.catalog.runs) /\ accepted.catalog.runs >= PauseRuns
          /\ PoisonForCompaction(t) /\ UNCHANGED pub
       \/ /\ CompactionDue(accepted.catalog.runs) /\ CanCompact
          /\ IF recoveryRequired THEN PoisonForCompaction(t) /\ UNCHANGED pub
             ELSE /\ pub' = Begin(t, "compact", NoDeltas, <<>>, <<>>)
                  /\ Goto(t, "compacting") /\ UNCHANGED <<batch, checked, lockVars>>
    /\ UNCHANGED <<repoVars, anchorVars, faults, req, notified, goal, spawnVars, crashes>>

FinishCompaction(t) ==
    /\ pc[t] = "compacting" /\ Settled /\ pub.owner = t
    /\ IF pub.phase = "installed" THEN CatalogReady(t, TRUE) /\ UNCHANGED batch
                                  ELSE PoisonForCompaction(t)
    /\ pub' = NoPub
    /\ UNCHANGED <<repoVars, anchorVars, faults, req, notified, goal, spawnVars, crashes>>

(***************************************************************************)
(* The request's own work, both locks held                                 *)
(***************************************************************************)
\* Mutation of OwnRefusal: the recovery flag is not consulted.
OwnRefusalUnchecked(t) ==
    CASE ~AnchorMatches -> "failed"
      [] req[t].kind = "delete" /\ ~IsLive(req[t].key) -> "notfound"
      [] OTHER -> "none"

OwnRefusal(t) ==
    CASE recoveryRequired -> "recovery"
      [] ~AnchorMatches -> "failed"
      [] req[t].kind = "delete" /\ ~IsLive(req[t].key) -> "notfound"
      [] req[t].kind = "stream" /\ Incompatible(req[t].cohort) -> "failed"
      [] req[t].kind = "stream" /\ req[t].createOnly /\ IsLive(req[t].key) -> "exists"
      [] OTHER -> "none"

\* delete_committed_inner and publish_standalone_streaming stage one mutation
\* and publish the whole overlay.
OwnMutation(t) ==
    LET delta == DeltaOf(t, req[t].key, req[t].cohort, PayloadOf(t))
    IN  /\ pc[t] = "own" /\ req[t].kind \in {"delete", "stream"}
        /\ \/ /\ OwnRefusal(t) # "none"
              /\ Return(t, OwnRefusal(t))
              /\ UNCHANGED <<overlay, pub>>
           \/ /\ OwnRefusal(t) = "none" /\ ~CanAppend(overlay)
              /\ Stage(delta)
              /\ Return(t, "backpressure")
              /\ UNCHANGED pub
           \/ /\ OwnRefusal(t) = "none" /\ CanAppend(overlay)
              /\ Stage(delta)
              /\ pub' = Begin(t, "own", Snapshot(overlay'), <<>>, <<overlay.end>>)
              /\ Goto(t, "publishing") /\ UNCHANGED lockVars
        /\ UNCHANGED <<accepted, recoveryRequired, anchorVars, faults, req, notified, checked, goal,
                       batch, spawnVars, crashes>>

\* write_index_snapshot_if_needed publishes what is left in the overlay, then
\* the root; a maintenance window needs a root only when history expired.
OwnCheckpoint(t) ==
    /\ pc[t] = "own" /\ req[t].kind \in {"snapshot", "window"}
    /\ \/ /\ recoveryRequired
          /\ Return(t, "recovery") /\ UNCHANGED pub
       \/ /\ ~recoveryRequired
          /\ pub' = IF IsEmpty(overlay) THEN Begin(t, "root", NoDeltas, <<>>, <<>>)
                                        ELSE Begin(t, "orphans", Snapshot(overlay), <<>>, <<>>)
          /\ Goto(t, "publishing") /\ UNCHANGED lockVars
       \/ /\ ~recoveryRequired /\ req[t].kind = "window" /\ IsEmpty(overlay)
          /\ Return(t, "ok") /\ UNCHANGED pub
    /\ UNCHANGED <<repoVars, anchorVars, faults, req, notified, checked, goal, batch,
                   spawnVars, crashes>>

\* Mutation of AcceptedFromChain: the namespace is not rebuilt.
AcceptedKeepsNamespace ==
    [ns |-> accepted.ns, nextSeq |-> MaxGeneration(ChainDeltas), anchor |-> Anchor,
     catalog |-> accepted.catalog]

AcceptedFromChain ==
    [ns |-> Replay(chain), nextSeq |-> MaxGeneration(ChainDeltas), anchor |-> Anchor,
     catalog |-> IF chain = <<>> THEN [runs |-> 0, levelZero |-> 0] ELSE chain[Anchor].catalog]

\* load_chain_from_anchor_inner: the accepted state is replaced before a
\* non-empty overlay refuses the reset.
OwnReload(t) ==
    /\ pc[t] = "own" /\ req[t].kind = "reload"
    /\ IF recoveryRequired
       THEN Return(t, "recovery") /\ UNCHANGED <<accepted, overlay>>
       ELSE /\ accepted' = AcceptedFromChain
            /\ IF IsEmpty(overlay)
               THEN Return(t, "ok") /\ overlay' = [overlay EXCEPT !.alloc = accepted'.nextSeq]
               ELSE Return(t, "failed") /\ UNCHANGED overlay
    /\ UNCHANGED <<recoveryRequired, anchorVars, pub, faults, req, notified, checked, goal,
                   batch, spawnVars, crashes>>

\* Mutation of RollsBack: the staged mutation is left behind.
RollsBackNever(t) == FALSE

\* A delete rolls back on every error, a streamed put not on an unresolved one.
RollsBack(t) ==
    /\ pub.what = "own" /\ CanRollbackAll(pub.rollback)
    /\ pub.phase = "failed" \/ (pub.phase = "recovery" /\ req[t].kind = "delete")

FinishOwn(t) ==
    /\ pc[t] = "publishing" /\ Settled /\ pub.owner = t
    /\ overlay' = IF RollsBack(t) THEN RollbackAll(pub.rollback) ELSE overlay
    /\ IF pub.phase = "installed" /\ pub.what = "orphans"
       THEN Goto(t, "own") /\ UNCHANGED lockVars
       ELSE Return(t, Outcome(pub))
    /\ pub' = NoPub
    /\ UNCHANGED <<accepted, recoveryRequired, anchorVars, faults, req, notified, checked, goal,
                   batch, spawnVars, crashes>>

\* A streamed put reads the anchor again after its commit is installed.  When
\* the read fails the caller gets the CommitFailed of any other failure;
\* "unread" keeps the two apart.
ReadBackFault(t) ==
    /\ pc[t] = "publishing" /\ Settled /\ pub.owner = t
    /\ req[t].kind = "stream" /\ pub.phase = "installed"
    /\ Fault("read")
    /\ Return(t, "unread")
    /\ pub' = NoPub
    /\ UNCHANGED <<repoVars, anchorVars, req, notified, checked, goal, batch, spawnVars, crashes>>

(***************************************************************************)
(* publish_pending_v3_batch, spawned at once or after the batch delay      *)
(***************************************************************************)
PublisherLock(x) ==
    /\ x \in timers /\ publisher = Free
    /\ publisher' = Publisher /\ running' = x.gen /\ timers' = timers \ {x}
    /\ UNCHANGED <<pubVars, taskVars, stage, batch, crashes>>

NothingToPublish ==
    \/ batch.gen # running \/ batch.publishing \/ batch.waiters = <<>> \/ batch.failed

PublisherTake ==
    /\ publisher = Publisher /\ pub = NoPub /\ stage = Free
    /\ \/ /\ NothingToPublish
          /\ publisher' = Free
          /\ UNCHANGED <<overlay, pub, notified, batch>>
       \/ /\ ~NothingToPublish
          /\ batch' = [batch EXCEPT !.publishing = TRUE, !.items = Len(batch.waiters),
                                    !.waiters = <<>>, !.rollback = <<>>]
          /\ overlay' = IF CanFreeze(overlay) THEN Freeze(overlay) ELSE overlay
          /\ pub' = [Begin(Publisher, "batch", Snapshot(overlay), batch.waiters, batch.rollback)
                        EXCEPT !.phase = IF CanFreeze(overlay) THEN "prepare" ELSE "failed"]
          /\ NotifyAll
          /\ UNCHANGED publisher
    /\ UNCHANGED <<accepted, recoveryRequired, anchorVars, faults, req, pc, answer, checked, goal,
                   stage, spawnVars, crashes>>

\* A failed prefix takes its successor with it: the successor's conditions were
\* evaluated against the prefix.
FinishFrozen ==
    LET ok == pub.phase = "installed"
        waiters == IF ok THEN pub.waiters ELSE pub.waiters \o batch.waiters
        rollback == IF ok THEN pub.rollback ELSE pub.rollback \o batch.rollback
    IN  /\ publisher = Publisher /\ Settled /\ pub.owner = Publisher /\ stage = Free
        /\ overlay' = OverlayAfter(pub, rollback)
        /\ batch' = [batch EXCEPT !.publishing = FALSE, !.items = 0,
                        !.waiters = IF ok THEN @ ELSE <<>>, !.rollback = IF ok THEN @ ELSE <<>>,
                        !.protection = IF ok /\ batch.waiters # <<>> THEN @ ELSE NoCohort,
                        !.failed = @ \/ Poisons(pub, rollback)]
        /\ NotifyAll
        /\ Tell(waiters, Outcome(pub), pc, answer)
        /\ publisher' = Free
        /\ pub' = NoPub
        /\ UNCHANGED <<accepted, recoveryRequired, anchorVars, faults, req, checked, goal, stage,
                       spawnVars, crashes>>

(***************************************************************************)
(* A dropped connection drops the handler's future (server.rs); streamed   *)
(* puts of known length and maintenance run in tasks of their own          *)
(* ("owned"), those of unknown length in the handler.  The guards of the   *)
(* future release the locks, nothing else is undone.                       *)
(***************************************************************************)
Cancel(t) ==
    /\ pc[t] \notin {"idle", "done"} /\ ~req[t].owned
    /\ LET mine == pub # NoPub /\ pub.owner = t
           dropped == IF mine THEN pub.waiters ELSE <<>>
       IN  /\ Tell(dropped, "failed", [pc EXCEPT ![t] = "done"], [answer EXCEPT ![t] = "cancelled"])
           /\ pub' = IF mine THEN NoPub ELSE pub
           /\ limbo' \in IF mine /\ pub.phase = "cas"
                        THEN {limbo, [commit |-> Commit(pub), base |-> pub.base]} ELSE {limbo}
    /\ Fault("cancel")
    /\ publisher' = IF publisher = t THEN Free ELSE publisher
    /\ stage' = IF stage = t THEN Free ELSE stage
    /\ UNCHANGED <<repoVars, chain, req, notified, checked, goal, batch, spawnVars, crashes>>

\* The process stops and another one loads the chain from the anchor; taking
\* the Lease over changes its resource version.
Crash ==
    /\ crashes < MaxCrashes
    /\ crashes' = crashes + 1
    /\ accepted' = AcceptedFromChain
    /\ overlay' = NewOverlay(accepted'.nextSeq)
    /\ recoveryRequired' = FALSE
    /\ limbo' = NoCommit /\ pub' = NoPub
    /\ pc' = [t \in Tasks |-> IF pc[t] = "idle" THEN "idle" ELSE "done"]
    /\ answer' = [t \in Tasks |-> IF pc[t] \in {"idle", "done"} THEN answer[t] ELSE "crashed"]
    /\ publisher' = Free /\ stage' = Free
    /\ batch' = NewBatch /\ timers' = {} /\ running' = 0
    /\ UNCHANGED <<chain, faults, req, notified, checked, goal>>

(***************************************************************************)
(* The specification                                                       *)
(***************************************************************************)
CoordinatorUnchanged == UNCHANGED <<taskVars, lockVars, batch, spawnVars, crashes>>

Publication == PublicationStep /\ CoordinatorUnchanged

PublicationFailure == PublicationFault /\ CoordinatorUnchanged

Apply == LateApply /\ CoordinatorUnchanged

\* Steps of a task that wait for nothing but the task itself, or for its publication.
Step(t) ==
    \/ Start(t) \/ Register(t) \/ Wake(t) \/ Drain(t) \/ FinishDrain(t)
    \/ Catalog(t) \/ FinishCompaction(t)
    \/ OwnMutation(t) \/ OwnCheckpoint(t) \/ OwnReload(t) \/ FinishOwn(t)

\* Nothing is left to do.
Terminated ==
    /\ \A t \in Tasks : pc[t] = "done"
    /\ timers = {} /\ publisher = Free
    /\ UNCHANGED vars

Next ==
    \/ Publication \/ PublicationFailure \/ Apply
    \/ \E t \in Tasks : \/ Step(t) \/ EnqueuePass(t) \/ LockPublisher(t) \/ LockStage(t)
                        \/ ProtectFault(t) \/ ReadBackFault(t) \/ Cancel(t)
    \/ \E x \in timers : PublisherLock(x)
    \/ PublisherTake \/ FinishFrozen
    \/ Crash \/ Terminated

Spec == Init /\ [][Next]_vars

\* A task that can run is run; a tokio Mutex serves its waiters in order, so a
\* task that waits for a lock that is free again and again gets it.
Fairness ==
    /\ WF_vars(Publication)
    /\ \A t \in Tasks : SF_vars(Step(t) \/ EnqueuePass(t) \/ LockPublisher(t) \/ LockStage(t))
    /\ SF_vars((\E x \in timers : PublisherLock(x)) \/ PublisherTake \/ FinishFrozen)

FairSpec == Spec /\ Fairness

(***************************************************************************)
(* Properties                                                              *)
(***************************************************************************)
Kinds == {"put", "copy", "stream", "delete", "snapshot", "window", "reload"}
Mutations == {"put", "copy", "stream", "delete"}
Refusals == {"failed", "exists", "notfound", "backpressure"}
Errors == Refusals \union {"unread"}

Delta == [key : Keys, task : Tasks, gen : Nat, cohort : Cohorts,
          payload : {"buffered", "detached", "copied", "none"}, live : BOOLEAN]

\* The state has its type.
TypeOK ==
    /\ DOMAIN overlay = {"revision", "base", "end", "frozen", "alloc", "deltas"}
    /\ \A i \in DOMAIN overlay.deltas : overlay.deltas[i] \in Delta
    /\ overlay.end = overlay.base + Len(overlay.deltas)
    /\ \A k \in Keys : accepted.ns[k] \in Delta \union {Absent}
    /\ accepted.anchor \in 0 .. Anchor /\ accepted.catalog.levelZero <= accepted.catalog.runs
    /\ recoveryRequired \in BOOLEAN
    /\ \A t \in Tasks : req[t].kind \in Kinds /\ answer[t] \in Errors \union
                          {"none", "ok", "recovery", "cancelled", "crashed"}
    /\ {publisher, stage} \subseteq Tasks \union {Free, Publisher}
    /\ batch.protection \in Cohorts \union {NoCohort}
    /\ Len(batch.waiters) = Len(batch.rollback)

\* The anchored history as single mutations: positions <<commit, operation>>.
Ops(n) == {x \in (1 .. n) \X (1 .. MaxPendingOperations) : x[2] <= Len(chain[x[1]].ops)}

OpAt(x) == chain[x[1]].ops[x[2]]

Before(x, y) == x[1] < y[1] \/ (x[1] = y[1] /\ x[2] < y[2])

\* What the mutations of S leave at the key.
LastOf(S, k) ==
    LET touching == {x \in S : OpAt(x).key = k}
    IN  IF touching = {} THEN Absent
        ELSE Entry(OpAt(CHOOSE x \in touching : \A y \in touching : ~Before(x, y)))

TasksIn(ops) == {ops[i].task : i \in DOMAIN ops}

\* put_committed and its siblings answer Ok only for a mutation that is in a
\* commit the accepted state has reached: an acknowledged write survives, and
\* so does a streamed put whose caller was told that the anchor was unreadable.
AckedIsDurable ==
    \A t \in Tasks : answer[t] \in {"ok", "unread"} /\ req[t].kind \in Mutations =>
        \E x \in Ops(accepted.anchor) : OpAt(x).task = t

\* A write whose caller got CommitFailed or another definite error is never
\* anchored.
RefusedIsNotAnchored ==
    \A t \in Tasks : answer[t] \in Errors => \A x \in Ops(Anchor) : OpAt(x).task # t

\* No publication anchors a write whose caller was told before that it failed:
\* "the staged overlay entry must not outlive a rejected enqueue, or the next
\* batch publishes a write whose client saw failure" (enqueue_write).
RefusedIsNotPublished ==
    pub # NoPub /\ pub.phase = "accepted" =>
        \A d \in pub.snap.deltas : answer[d.task] \notin Errors

\* A caller that got a definite error never has its mutation published: not
\* in the chain, not in a request that may still land, not staged for the
\* next batch.  The one exception is a streamed put that failed to read the
\* anchor back after its commit ("unread").
RefusedIsInvisible ==
    \A t \in Tasks : answer[t] \in Refusals =>
        /\ \A x \in Ops(Anchor) : OpAt(x).task # t
        /\ limbo # NoCommit => t \notin TasksIn(limbo.commit.ops)
        /\ t \notin TasksIn(overlay.deltas)

\* Conditions evaluated against the speculative overlay hold in the history
\* that was anchored: a create-only put found no live entry, a delete found one.
ConditionsHoldInHistory ==
    \A x \in Ops(Anchor) :
        LET live == LastOf({y \in Ops(Anchor) : Before(y, x)}, OpAt(x).key) # Absent
        IN  IF OpAt(x).live THEN req[OpAt(x).task].createOnly => ~live ELSE live

\* The accepted namespace is the history up to the accepted anchor, whatever
\* was coalesced, installed, rolled back or reloaded on the way.
AcceptedIsHistory ==
    /\ \A k \in Keys : accepted.ns[k] = LastOf(Ops(accepted.anchor), k)
    /\ \A x \in Ops(accepted.anchor) : OpAt(x).gen <= accepted.nextSeq

\* Generations increase from commit to commit: a run of a later commit wins
\* over every earlier run (validate_accepted_run_append).
GenerationsIncrease ==
    \A x, y \in Ops(Anchor) : Before(x, y) => OpAt(x).gen < OpAt(y).gen

\* A request that meets no fault is not failed because of the requests around
\* it: a write of another protection cohort waits for the batch, it is not
\* refused (V3ProtectionCohort).
NoSpuriousFailure ==
    faults = 0 /\ crashes = 0 => \A t \in Tasks : answer[t] # "failed"

\* Every staged entry belongs to a batch waiter or to the request that holds
\* both locks: nothing is left for a later batch to publish.
NoOrphanStaged ==
    ~recoveryRequired /\ ~batch.failed /\ (pub # NoPub => pub.phase # "installed") =>
        Len(overlay.deltas) = PendingItems + (IF pub # NoPub /\ pub.what = "own" THEN 1 ELSE 0)

\* A batch that waits has a publisher on its way that expects its generation.
NoStrandedBatch ==
    batch.waiters # <<>> /\ ~batch.failed =>
        \/ \E x \in timers : x.gen = batch.gen
        \/ publisher = Publisher /\ running = batch.gen /\ pub = NoPub

\* Whoever waits for capacity without a wake-up waits for a batch in progress.
NoLostWakeup ==
    \A t \in Tasks : pc[t] = "capacity" /\ ~notified[t] => ~batch.failed /\ Occupied

\* While recovery is required the anchor moves only by a request sent before.
RecoveryStopsWrites ==
    [][recoveryRequired /\ recoveryRequired' /\ chain' # chain =>
         limbo # NoCommit /\ chain' = Append(chain, limbo.commit)]_vars

\* An unresolved anchor update stops new mutations ("callers receive a
\* recovery-required error and new mutations stop", docs/architecture.md).
UnresolvedStopsWrites ==
    limbo # NoCommit /\ pub = NoPub => recoveryRequired \/ batch.failed

\* Every request is answered.
EveryRequestAnswered == \A t \in Tasks : <>(pc[t] = "done")

(***************************************************************************)
(* The coordinator implements CommittedStore                               *)
(***************************************************************************)
StoreLog == [i \in DOMAIN chain |-> chain[i].ops]

\* The error of an "unread" put hides a commit: to the store its outcome is unknown.
StoreTold ==
    [t \in Tasks |-> CASE answer[t] = "none" -> "none"
                       [] answer[t] = "ok" /\ req[t].kind \in Mutations -> "ok"
                       [] answer[t] \in Refusals -> "no"
                       [] OTHER -> "unknown"]

Store == INSTANCE CommittedStore WITH log <- StoreLog, told <- StoreTold

\* Batching, overlapped publication, rollback, compaction, crashes and late
\* anchor updates are invisible to clients: every step is a commit of a group
\* whose conditions hold, an answer consistent with the log, or no step.
ImplementsCommittedStore == Store!Spec
=============================================================================
