------------------------- MODULE CommitPublication -------------------------
(***************************************************************************)
(* One publication of a v3 repository (service.rs, repository.rs): the     *)
(* staged deltas are uploaded as a child commit of the accepted anchor,    *)
(* verified, adopted by a compare-and-swap of the external anchor, and     *)
(* installed into the accepted state.  A compare-and-swap without a usable *)
(* reply is settled by a fencing update of the Lease; while that update    *)
(* has not landed the first request may still be applied ("limbo").        *)
(*                                                                         *)
(* The anchored history is `chain`; the anchor is its length.  A commit    *)
(* carries deltas ("delta"), or is a checkpoint of the run catalog: a      *)
(* plain one ("root") or a compacted one ("compact").                      *)
(***************************************************************************)
EXTENDS PendingOverlay

CONSTANTS
    Keys, Tasks, Cohorts,
    Absent,             \* no live namespace entry
    NoCommit,           \* no anchor request is in limbo
    NoPub,              \* no publication is in progress
    Publisher,          \* the spawned batch publisher, as an owner
    MaxRuns,            \* V3_INDEX_ROOT_MAX_RUNS
    Faults, MaxFaults   \* which faults may happen, and how many of them

VARIABLES
    overlay,            \* V3Repository.pending
    accepted,           \* V3Repository.accepted
    recoveryRequired,   \* V3Repository.recovery_required
    chain,              \* commits reached by the external anchor
    limbo,              \* an anchor request that may still be applied
    pub,                \* the publication in progress
    faults              \* faults so far

repoVars == <<overlay, accepted, recoveryRequired>>
anchorVars == <<chain, limbo>>
pubVars == <<overlay, accepted, recoveryRequired, chain, limbo, pub, faults>>

Anchor == Len(chain)

Entry(delta) == IF delta.live THEN delta ELSE Absent

\* Commits are applied oldest first; a tombstone removes the entry.
Replay(commits) ==
    [k \in Keys |->
        LET touching == {i \in DOMAIN commits : \E d \in commits[i].deltas : d.key = k}
        IN  IF touching = {} THEN Absent
            ELSE LET last == CHOOSE i \in touching : \A j \in touching : j <= i
                     d == CHOOSE e \in commits[last].deltas : e.key = k
                 IN  Entry(d)]

ChainDeltas == UNION {chain[i].deltas : i \in DOMAIN chain}

Fault(f) == f \in Faults /\ faults < MaxFaults /\ faults' = faults + 1

PubInit ==
    /\ overlay = NewOverlay(0)
    /\ accepted = [ns |-> [k \in Keys |-> Absent], nextSeq |-> 0, anchor |-> 0,
                   catalog |-> [runs |-> 0, levelZero |-> 0]]
    /\ recoveryRequired = FALSE
    /\ chain = <<>>
    /\ limbo = NoCommit
    /\ pub = NoPub
    /\ faults = 0

(***************************************************************************)
(* Staging                                                                 *)
(***************************************************************************)
AcceptedLive(k) == accepted.ns[k] # Absent

\* Mutation of IsLive: conditions ignore what is staged.
IsLiveAccepted(k) == AcceptedLive(k)

IsLive(k) == EffectiveLive(overlay, AcceptedLive(k), k)

\* A staged upsert of another protection cohort refuses the put.
Incompatible(cohort) ==
    \E i \in DOMAIN overlay.deltas : overlay.deltas[i].live /\ overlay.deltas[i].cohort # cohort

AnchorMatches == accepted.anchor = Anchor

\* The payload is staged with the entry ("buffered"), is an object of its own
\* that only the put itself can name ("detached"), is that of the source of a
\* copy ("copied"), or there is none: a tombstone.
DeltaOf(t, key, cohort, payload) ==
    [key |-> key, task |-> t, gen |-> overlay.alloc + 1, cohort |-> cohort, payload |-> payload,
     live |-> payload # "none"]

\* The sequence is allocated before the bounded append can refuse.
Stage(delta) ==
    overlay' = IF CanAppend(overlay) THEN AppendOperation(AllocateSequence(overlay), delta)
                                     ELSE AllocateSequence(overlay)

\* rollback_staged_puts / rollback_state_mutations, newest checkpoint first
CanRollbackAll(checkpoints) == \A i \in DOMAIN checkpoints : CanRollback(overlay, checkpoints[i])

RollbackAll(checkpoints) ==
    IF checkpoints = <<>> THEN overlay
    ELSE [Rollback(overlay, checkpoints[1]) EXCEPT !.revision = overlay.revision + Len(checkpoints)]

(***************************************************************************)
(* Publication                                                             *)
(***************************************************************************)
Begin(owner, what, snapshot, waiters, rollback) ==
    [owner |-> owner, what |-> what, snap |-> snapshot, waiters |-> waiters,
     rollback |-> rollback, base |-> 0, catalog |-> accepted.catalog, phase |-> "prepare"]

IsDelta(p) == p.what \in {"batch", "own", "orphans"}

Commit(p) == [kind |-> IF IsDelta(p) THEN "delta" ELSE p.what, by |-> p.owner, ops |-> p.snap.ops,
              deltas |-> p.snap.deltas, catalog |-> p.catalog]

\* The run catalog a commit leads to.  A delta adds a level-zero run; a compaction
\* replaces `taken` level-zero and `older` other runs by fewer.
Catalogs(p) ==
    LET c == accepted.catalog
    IN  CASE IsDelta(p) -> {[runs |-> c.runs + 1, levelZero |-> c.levelZero + 1]}
          [] p.what = "root" -> {c}
          [] p.what = "compact" ->
               {[runs |-> c.runs - taken - older + made, levelZero |-> c.levelZero - taken] :
                   <<taken, older, made>> \in {x \in (0 .. c.levelZero) \X (0 .. (c.runs - c.levelZero))
                                                     \X (1 .. c.runs) : x[3] < x[1] + x[2]}}

\* A streamed put names its own payload and packs no other; every other
\* publication packs the buffered ones and can name no detached one.
Streams(p) == p.what = "own" /\ \E d \in p.snap.deltas : d.task = p.owner /\ d.payload = "detached"

Resolvable(p) ==
    \A d \in p.snap.deltas :
        /\ d.payload = "buffered" => ~Streams(p)
        /\ d.payload = "detached" => Streams(p) /\ d.task = p.owner

\* Every semantic check of the code happens before the compare-and-swap.
Publishable(p) ==
    /\ AnchorMatches
    /\ IsDelta(p) => /\ p.snap.seq > accepted.nextSeq
                     /\ \A d \in p.snap.deltas : d.gen > accepted.nextSeq
                     /\ accepted.catalog.runs < MaxRuns
                     /\ Resolvable(p)
                     /\ ValidSnapshot(overlay, p.snap)
    /\ p.what = "compact" => IsEmpty(overlay)

Prepare ==
    /\ pub # NoPub /\ pub.phase = "prepare"
    /\ IF Publishable(pub)
       THEN \E c \in Catalogs(pub) :
                pub' = [pub EXCEPT !.phase = "cas", !.base = Anchor, !.catalog = c]
       ELSE pub' = [pub EXCEPT !.phase = "failed"]
    /\ UNCHANGED <<repoVars, anchorVars, faults>>

PrepareFault ==
    /\ pub # NoPub /\ pub.phase = "prepare"
    /\ Fault("prepare")
    /\ pub' = [pub EXCEPT !.phase = "failed"]
    /\ UNCHANGED <<repoVars, anchorVars>>

\* The update is applied and its reply arrives.  Any applied update of the
\* Lease changes its resource version, so an older request is dead.
CasAccepted ==
    /\ pub # NoPub /\ pub.phase = "cas" /\ Anchor = pub.base
    /\ chain' = Append(chain, Commit(pub))
    /\ limbo' = NoCommit
    /\ pub' = [pub EXCEPT !.phase = "accepted"]
    /\ UNCHANGED <<repoVars, faults>>

\* No usable reply: the request may be applied later.
CasUncertain ==
    /\ pub # NoPub /\ pub.phase = "cas" /\ Anchor = pub.base
    /\ Fault("cas")
    /\ limbo' = [commit |-> Commit(pub), base |-> pub.base]
    /\ pub' = [pub EXCEPT !.phase = "fence"]
    /\ UNCHANGED <<repoVars, chain>>

\* The anchor moved: seen by the read before the update, or refused by it.
CasStale ==
    /\ pub # NoPub /\ pub.phase = "cas" /\ Anchor # pub.base
    /\ \E phase \in {"failed", "fence"} : pub' = [pub EXCEPT !.phase = phase]
    /\ UNCHANGED <<repoVars, anchorVars, faults>>

\* Mutation of Unresolved: an unresolved update is reported as failed.
UnresolvedIsFailure(p) == "failed"

\* What an unresolved outcome becomes: publication_error marks the local
\* state; the checkpoint paths map it to an ordinary error.
Unresolved(p) == IF IsDelta(p) THEN "recovery" ELSE "failed"

FenceResolves ==
    /\ pub # NoPub /\ pub.phase = "fence"
    /\ limbo' = NoCommit
    /\ LET accept == Anchor > pub.base /\ chain[Anchor] = Commit(pub)
           phase == IF accept THEN "accepted"
                    ELSE IF Anchor = pub.base THEN "failed" ELSE Unresolved(pub)
       IN  /\ pub' = [pub EXCEPT !.phase = phase]
           /\ recoveryRequired' = (recoveryRequired \/ phase = "recovery")
    /\ UNCHANGED <<overlay, accepted, chain, faults>>

FenceFault ==
    /\ pub # NoPub /\ pub.phase = "fence"
    /\ Fault("fence")
    /\ pub' = [pub EXCEPT !.phase = Unresolved(pub)]
    /\ recoveryRequired' = (recoveryRequired \/ Unresolved(pub) = "recovery")
    /\ UNCHANGED <<overlay, accepted, chain, limbo>>

\* The API server applies a request whose caller stopped waiting for it.
LateApply ==
    /\ limbo # NoCommit
    /\ limbo.base = Anchor
    /\ chain' = Append(chain, limbo.commit)
    /\ limbo' = NoCommit
    /\ UNCHANGED <<repoVars, pub, faults>>

\* Mutation of Installed: a tombstone does not remove the entry.
InstalledUpserts(deltas, k) ==
    LET d == {e \in deltas : e.key = k /\ e.live}
    IN  IF d = {} THEN accepted.ns[k] ELSE CHOOSE e \in d : TRUE

Installed(deltas, k) ==
    LET d == {e \in deltas : e.key = k}
    IN  IF d = {} THEN accepted.ns[k] ELSE Entry(CHOOSE e \in d : TRUE)

\* install_pending_commit; a checkpoint changes only the catalog and the anchor.
Install ==
    /\ pub # NoPub /\ pub.phase = "accepted"
    /\ IsDelta(pub) => CanFinish(overlay)
    /\ overlay' = IF IsDelta(pub) THEN FinishPublication(overlay) ELSE overlay
    /\ accepted' = [ns |-> [k \in Keys |-> Installed(pub.snap.deltas, k)],
                    nextSeq |-> IF IsDelta(pub) THEN pub.snap.seq ELSE accepted.nextSeq,
                    anchor |-> pub.base + 1, catalog |-> pub.catalog]
    /\ pub' = [pub EXCEPT !.phase = "installed"]
    /\ UNCHANGED <<recoveryRequired, anchorVars, faults>>

InstallFault ==
    /\ pub # NoPub /\ pub.phase = "accepted"
    /\ Fault("install")
    /\ recoveryRequired' = TRUE
    /\ pub' = [pub EXCEPT !.phase = "recovery"]
    /\ UNCHANGED <<overlay, accepted, anchorVars>>

PublicationStep ==
    \/ Prepare \/ CasAccepted \/ CasStale \/ FenceResolves \/ Install

PublicationFault ==
    \/ PrepareFault \/ CasUncertain \/ FenceFault \/ InstallFault

Settled == pub # NoPub /\ pub.phase \in {"installed", "failed", "recovery"}
=============================================================================
