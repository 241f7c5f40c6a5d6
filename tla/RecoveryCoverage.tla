-------------------------- MODULE RecoveryCoverage --------------------------
(***************************************************************************)
(* Physical protection of recovery points on a store with object locks     *)
(* (maintenance/coverage.rs, maintenance/introduced.rs and their use in    *)
(* service/recovery.rs).                                                   *)
(*                                                                         *)
(* A promise is worth something only if every object a restore of the      *)
(* point reads is locked until the deadline.  Walking the whole graph at   *)
(* every commit would be too slow, so the gateway caches a proof: under    *)
(* this exact head, everything the head depends on is locked until this    *)
(* floor.  A publication reuses the proof or walks and extends the graph,  *)
(* protects what it introduces, and passes the smaller floor on.           *)
(*                                                                         *)
(* Another gateway may take the writer claim over and publish; a store     *)
(* that is reloaded onto its head (reload_from_anchor) keeps the proof it   *)
(* cached for an older one.                                                 *)
(*                                                                         *)
(* A restore also reads the format root and the keyring envelope.  They     *)
(* are never rewritten and share every lock, so they are one object here,   *)
(* Metadata.  A walk reaches it after the objects of the graph and not as   *)
(* one of them, and extends it less far.                                    *)
(***************************************************************************)
EXTENDS RecoveryHistory

CONSTANT UploadLocks    \* how far beyond now a streamed upload may be locked

ASSUME UploadAssumption == UploadLocks \subseteq Nat

VARIABLES
    lock,       \* object -> the end of its lock; 0 is unlocked
    graph,      \* the objects the head depends on
    restore,    \* history: sequence -> the objects a restore of it reads
    proof,      \* the cached RecoveryCoverage, or None
    prepared    \* the protection of the pending publication

coverageVars == <<vars, lock, graph, restore, proof, prepared>>

Unprepared == [stage |-> "none"]
Commit(n)  == <<"commit", n>>
Payload(n) == <<"payload", n>>
Metadata   == <<"metadata", 0>>
Objects    == {Commit(n) : n \in 1 .. MaxCommits} \cup {Payload(n) : n \in 1 .. MaxCommits}
              \cup {Metadata}

Lowest(S)  == CHOOSE x \in S : \A y \in S : x <= y
Highest(S) == CHOOSE x \in S : \A y \in S : x >= y
Extended(objects, until) == [o \in Objects |-> IF o \in objects THEN Larger(lock[o], until) ELSE lock[o]]

-----------------------------------------------------------------------------
(* required_coverage_until_ms and the admission bound of a publication.    *)

RequiredCoverage ==
    Larger(CoverageUntil(accepted.policy, pending.time),
           CoverageUntil(pending.section.policy, pending.time))

(* Variant: only the policy that will govern the successor is looked at.   *)
AdmissionOfSuccessor == PromisedUntil(pending.section.policy, pending.time)

Admission ==
    Larger(PromisedUntil(accepted.policy, pending.time),
           PromisedUntil(pending.section.policy, pending.time))


Reusable ==
    /\ proof # None
    /\ proof.base = accepted.seq
    /\ proof.floor >= Admission

(* The tail and every page are blocks; the largest deadline of a block is   *)
(* demanded for the restore of each of its live points, and of the commit   *)
(* that carries the page.                                                   *)
Blocks ==
    {[points |-> Live(b.points, accepted.cutoff), until |-> MaxDeadline(b),
      carriers |-> IF b.carrier = 0 THEN {} ELSE {Commit(b.carrier)}] :
        b \in LivePages(accepted.pages \cup {[points |-> accepted.tail, carrier |-> 0]},
                        accepted.cutoff)}

Demanded(o) ==
    {b.until : b \in {c \in Blocks : o \in c.carriers \cup UNION {restore[p.seq] : p \in c.points}}}

(* include_restore_metadata_roots: the largest deadline that any target has  *)
(* when the metadata is added, which is before a publication raises the      *)
(* objects of the graph to what it requires.                                 *)
MetadataDeadline(now) ==
    Highest({CoverageUntil(accepted.policy, now)} \cup {b.until : b \in Blocks})


(* What a walk at now demands of a target: the deadlines of the history, and *)
(* of the objects of the graph the coverage of the accepted policy and the   *)
(* floor of the publication.                                                 *)
Required(o, now, floor) ==
    IF o = Metadata
    THEN {MetadataDeadline(now)}
    ELSE Demanded(o) \cup (IF o \in graph THEN {CoverageUntil(accepted.policy, now), floor} ELSE {})

Renewed(now, floor) == [o \in Objects |-> Highest({lock[o]} \cup Required(o, now, floor))]

-----------------------------------------------------------------------------
CoverageInit ==
    /\ Init
    /\ graph = {Commit(1)}
    /\ restore = [n \in 1 .. MaxCommits |-> {}]
    /\ lock = [o \in Objects |->
                 IF o \in {Commit(1), Metadata} THEN CoverageUntil(configured, accepted.time) ELSE 0]
    /\ proof = None
    /\ prepared = Unprepared

Begin ==
    /\ PublishDelta \/ PublishRoot
    /\ prepared' = [stage |-> "captured", base |-> accepted.seq]
    /\ UNCHANGED <<lock, graph, restore, proof>>

(* protect_recovery_publication: the cached proof is good enough ...       *)
ReuseProof ==
    /\ prepared.stage = "captured" /\ prepared.base = accepted.seq
    /\ Reusable
    /\ prepared' = [stage |-> "covered", base |-> prepared.base, floor |-> proof.floor]
    /\ UNCHANGED <<vars, lock, graph, restore, proof>>

(* ... or the graph is walked, every target extended and verified.         *)
WalkGraph ==
    /\ prepared.stage = "captured" /\ prepared.base = accepted.seq
    /\ ~Reusable
    /\ \E now \in Samples : lock' = Renewed(now, RequiredCoverage)
    /\ proof' = [base |-> prepared.base, floor |-> RequiredCoverage]
    /\ prepared' = [stage |-> "covered", base |-> prepared.base, floor |-> RequiredCoverage]
    /\ UNCHANGED <<vars, graph, restore>>

(* A target cannot be extended: what was extended before it stays locked.  *)
WalkFails ==
    /\ prepared.stage = "captured" /\ prepared.base = accepted.seq
    /\ ~Reusable
    /\ \E now \in Samples, o \in Objects :
          lock' = [lock EXCEPT ![o] = Renewed(now, RequiredCoverage)[o]]
    /\ Abandon
    /\ prepared' = Unprepared
    /\ UNCHANGED <<graph, restore, proof>>

(* The commit is uploaded with the lock it requires; the object a streamed  *)
(* write uploaded earlier carries whatever lock it got then.                *)
Upload ==
    /\ prepared.stage = "covered" /\ prepared.base = accepted.seq
    /\ \E streamed \in BOOLEAN, days \in UploadLocks,
          dropped \in {{}} \cup {{o} : o \in graph} :
          LET n == accepted.seq + 1
          IN  /\ lock' = [lock EXCEPT ![Commit(n)] = RequiredCoverage,
                                      ![Payload(n)] = IF streamed THEN real + days ELSE @]
              /\ prepared' = [stage |-> "uploaded", base |-> prepared.base, floor |-> prepared.floor,
                              introduced |-> {Commit(n)} \cup (IF streamed THEN {Payload(n)} ELSE {}),
                              kept |-> graph \ dropped]
    /\ UNCHANGED <<vars, graph, restore, proof>>

(* Variant: only the commit itself is protected.                           *)
IntroducedCommitOnly == {Commit(accepted.seq + 1)}

Introduced == prepared.introduced

(* protect_recovery_introduced: what is locked too briefly is extended.     *)
ProtectIntroduced ==
    /\ prepared.stage = "uploaded" /\ prepared.base = accepted.seq
    /\ lock' = Extended(Introduced, RequiredCoverage)
    /\ prepared' = [stage |-> "protected", base |-> prepared.base, floor |-> prepared.floor,
                    introducedFloor |-> Lowest({lock'[o] : o \in Introduced}),
                    graph |-> prepared.kept \cup prepared.introduced]
    /\ UNCHANGED <<vars, graph, restore, proof>>

Verify ==
    /\ prepared.stage = "protected" /\ prepared.base = accepted.seq
    /\ VerifyAndCheckFresh
    /\ UNCHANGED <<lock, graph, restore, proof, prepared>>

(* Variant: the successor inherits the floor of its parent unchanged.      *)
InheritedFloor == prepared.floor

AdvancedFloor == Smaller(prepared.floor, prepared.introducedFloor)

Moved(newGraph) ==
    /\ restore' = [restore EXCEPT ![accepted.seq] = graph]
    /\ graph' = newGraph

(* advance_recovery_coverage, once the publication is accepted.            *)
Adopt ==
    /\ prepared.stage = "protected" /\ prepared.base = accepted.seq
    /\ Accept
    /\ Moved(prepared.graph)
    /\ proof' = [base |-> accepted.seq + 1, floor |-> AdvancedFloor]
    /\ prepared' = Unprepared
    /\ UNCHANGED lock

AdoptUnseen ==
    /\ prepared.stage = "protected" /\ prepared.base = accepted.seq
    /\ AcceptUnseen
    /\ Moved(prepared.graph)
    /\ prepared' = Unprepared
    /\ UNCHANGED <<lock, proof>>

(* What was uploaded for a publication that is given up is an orphan; the   *)
(* next attempt has objects of its own.                                     *)
WithoutOrphans == [o \in Objects |-> IF o[2] > accepted.seq THEN 0 ELSE lock[o]]

GiveUp ==
    /\ Abandon
    /\ prepared' = Unprepared
    /\ lock' = WithoutOrphans
    /\ UNCHANGED <<graph, restore, proof>>

(* A restart loses the cache; a reload onto the head of another gateway     *)
(* does not.                                                                *)
Restart(policy) ==
    /\ Reopen(policy)
    /\ proof' = None
    /\ prepared' = Unprepared
    /\ lock' = WithoutOrphans
    /\ UNCHANGED <<graph, restore>>

(* Another gateway publishes one commit, with the protection of its own.    *)
OtherGateway(policy) ==
    /\ accepted.seq < MaxCommits
    /\ LET n        == accepted.seq + 1
           sampled  == real
           chosen   == ChoosePublishTime(sampled, accepted.time)
           section  == CapturedSection(accepted, policy, sampled, chosen, FALSE)
           next     == AppliedDelta(section, accepted, n)
           required == Larger(CoverageUntil(accepted.policy, chosen), CoverageUntil(policy, chosen))
       IN  /\ PublicationTimeOk(sampled, chosen)
           /\ HasCapacity(accepted, CapturedCutoff(accepted, policy, sampled))
           /\ accepted' = [seq |-> n, time |-> chosen, policy |-> policy,
                           tail |-> next.tail, pages |-> next.pages, cutoff |-> next.cutoff]
           /\ superseded' = superseded \cup {section.register}
           /\ lock' = [Renewed(sampled, required) EXCEPT ![Commit(n)] = required,
                                                ![Payload(n)] = required]
    /\ Moved(graph \cup {Commit(accepted.seq + 1), Payload(accepted.seq + 1)})
    /\ UNCHANGED <<real, configured, pending, granted, proof, prepared>>

(* A complete maintenance run under an unchanged head: every target is     *)
(* renewed to the floor of the accepted policy, and the proof is cached.   *)
FullMaintenance ==
    /\ pending.kind = "none"
    /\ \E now \in Samples :
          LET floor == CoverageUntil(accepted.policy, now)
          IN  lock' = Renewed(now, floor) /\ proof' = [base |-> accepted.seq, floor |-> floor]
    /\ UNCHANGED <<vars, graph, restore, prepared>>

Clock == Tick /\ UNCHANGED <<lock, graph, restore, proof, prepared>>

CoverageNext ==
    \/ Clock \/ Begin \/ ReuseProof \/ WalkGraph \/ WalkFails \/ Upload \/ ProtectIntroduced
    \/ Verify \/ Adopt \/ AdoptUnseen \/ GiveUp \/ FullMaintenance
    \/ \E p \in Policies : Restart(p)
    \/ \E p \in Policies : OtherGateway(p)

CoverageSpec == CoverageInit /\ [][CoverageNext]_coverageVars

-----------------------------------------------------------------------------
(* Properties.                                                             *)

(* A cached proof for the current head is true: every commit and payload    *)
(* the head depends on is locked until the floor, over any number of reuses *)
(* and takeovers.  The floor is not one of the metadata.                    *)
ProofSound ==
    proof # None /\ proof.base = accepted.seq => \A o \in graph : lock[o] >= proof.floor

(* Every live recovery point can be restored until its deadline: the commits *)
(* and payloads its restore reads are locked that long, whatever policy it   *)
(* was accepted under and whichever gateway superseded it.                   *)
PointsCovered ==
    \A p \in Registered(accepted) :
        p.until > accepted.cutoff => \A o \in restore[p.seq] : lock[o] >= p.until

(* The head itself, without the metadata, is covered from the start as if it *)
(* were superseded at the moment of its publication.                         *)
HeadCovered == \A o \in graph : lock[o] >= PromisedUntil(accepted.policy, accepted.time)


(* The metadata is locked until the deadline of every live recovery point.   *)
(* A publication under a raised window proves its floor without it, and the  *)
(* publication that supersedes it reuses that proof.                         *)
MetadataCovered ==
    \A p \in Registered(accepted) : p.until > accepted.cutoff => lock[Metadata] >= p.until
=============================================================================
