-------------------------- MODULE RecoveryHistory --------------------------
(***************************************************************************)
(* The authenticated recovery registry (crates/rs3-repository/src/v3,      *)
(* recovery/*.rs and service/recovery.rs).                                 *)
(*                                                                         *)
(* Every accepted commit registers its exact predecessor as a recovery     *)
(* point with a deadline fixed at supersession.  The registry is a bounded *)
(* tail of points and a bounded list of pages into which a full tail is    *)
(* rolled; expiry is a cutoff that a later accepted commit publishes.  A   *)
(* publication samples the clock once, captures the whole transition, and  *)
(* validates it again, against a later sample, just before the anchor CAS. *)
(*                                                                         *)
(* "real" is true time; a sample of the gateway clock may err by ClockError*)
(* in either direction.  Points carry strictly increasing sequences, so    *)
(* the tail and a page are sets and their order is that of the sequences.  *)
(***************************************************************************)
EXTENDS Integers, FiniteSets

CONSTANTS
    Policies,     \* [window, margin, uncertainty]: values RecoveryPolicy::new admits
    ClockError,   \* the true error bound of a clock sample
    MaxLead,      \* MAX_PUBLICATION_CLOCK_LEAD_MS
    MaxTail,      \* MAX_RECOVERY_TAIL_RECORDS
    MaxPages,     \* MAX_RECOVERY_PAGES
    MaxTime,      \* bound on true time
    MaxCommits    \* bound on the sequence of the head

ASSUME RecoveryAssumption ==
    /\ \A p \in Policies :
          /\ p \in [window : Nat, margin : Nat, uncertainty : Nat]
          /\ p.window > 0 /\ p.uncertainty > 0 /\ p.margin > p.uncertainty
          /\ ClockError <= p.uncertainty
    /\ ClockError \in Nat /\ MaxLead \in Nat
    /\ MaxTail \in Nat \ {0} /\ MaxPages \in Nat
    /\ MaxTime \in Nat /\ MaxCommits \in Nat

VARIABLES
    real,         \* true time
    configured,   \* the policy of the running gateway (options().recovery_policy)
    accepted,     \* the state the anchor selects: head, its policy, its registry
    pending,      \* the captured publication, NoPublication or Blocked
    superseded,   \* history: every point ever registered
    granted       \* history: the last promise and when it was checked

vars == <<real, configured, accepted, pending, superseded, granted>>

NoPublication == [kind |-> "none"]
Blocked       == [kind |-> "blocked"]
None          == [none |-> TRUE]
NoExpiry      == -1

Larger(a, b)  == IF a >= b THEN a ELSE b
Smaller(a, b) == IF a <= b THEN a ELSE b

-----------------------------------------------------------------------------
(* Policies and clocks: recovery/policy.rs and recovery.rs.                *)

Samples == {s \in (real - ClockError) .. (real + ClockError) : s >= 0}

PromisedUntil(p, t) == t + p.window + p.uncertainty

CoverageUntil(p, t) == PromisedUntil(p, t) + p.margin + p.uncertainty

(* Variant: the cutoff forgets the uncertainty of the clock.               *)
ExpiryCutoffAtNow(p, now) == now

ExpiryCutoff(p, now) == Larger(now - p.uncertainty, 0)

ChoosePublishTime(now, parentTime) == Larger(now, parentTime + 1)

PublicationTimeOk(now, chosen) == chosen <= now + MaxLead

(* Variant: an old timestamp is as good as a new one.                      *)
FreshWhenNotAhead(now, chosen, uncertainty) == PublicationTimeOk(now, chosen)

FreshEnough(now, chosen, uncertainty) ==
    PublicationTimeOk(now, chosen) /\ chosen >= now - uncertainty

-----------------------------------------------------------------------------
(* The registry: recovery/history.rs.  A page is the set of its points with *)
(* the sequence of the commit that carries it, 0 for "this section".        *)

Live(points, cutoff) == {p \in points : p.until > cutoff}

LivePages(pages, cutoff) == {g \in pages : Live(g.points, cutoff) # {}}

PagedPoints(pages) == UNION {g.points : g \in pages}

Registered(registry) == registry.tail \cup PagedPoints(registry.pages)

Deadlines(page) == {p.until : p \in page.points}

MinDeadline(page) == CHOOSE d \in Deadlines(page) : \A e \in Deadlines(page) : d <= e

MaxDeadline(page) == CHOOSE d \in Deadlines(page) : \A e \in Deadlines(page) : d >= e

ValidPoints(points) ==
    /\ \A p \in points : p.until > p.time
    /\ \A p, q \in points : p # q => /\ p.seq # q.seq
                                     /\ p.seq < q.seq <=> p.time < q.time

Before(ps, qs) == \A p \in ps, q \in qs : p.seq < q.seq

ValidSnapshot(s) ==
    /\ Cardinality(s.pages) <= MaxPages
    /\ Cardinality(s.tail) <= MaxTail
    /\ s.cutoff >= 0
    /\ ValidPoints(s.tail)
    /\ Live(s.tail, s.cutoff) = s.tail
    /\ LivePages(s.pages, s.cutoff) = s.pages
    /\ \A g \in s.pages : /\ ValidPoints(g.points)
                          /\ g.carrier # 0 => \A p \in g.points : p.seq < g.carrier
                          /\ Before(g.points, s.tail)
    /\ \A g, h \in s.pages : g # h => Before(g.points, h.points) \/ Before(h.points, g.points)

Registry(state) == [tail |-> state.tail, pages |-> state.pages, cutoff |-> state.cutoff]

-----------------------------------------------------------------------------
(* One captured transition: CapturedRecoveryPublication::new.              *)

PreviousLive(previous, cutoff) == Live(previous.tail, cutoff)

CapturedCutoff(previous, policy, sampled) ==
    Larger(ExpiryCutoff(policy, sampled), previous.cutoff)

Rolls(previous, cutoff) == Cardinality(PreviousLive(previous, cutoff)) = MaxTail

(* Variant: the roll of a full tail does not look at the page limit.       *)
HasCapacityAlways(previous, cutoff) == TRUE

HasCapacity(previous, cutoff) ==
    Rolls(previous, cutoff) => Cardinality(LivePages(previous.pages, cutoff)) < MaxPages

PredecessorPoint(previous, chosen) ==
    [seq |-> previous.seq, time |-> previous.time, policy |-> previous.policy,
     until |-> PromisedUntil(previous.policy, chosen)]

RootSnapshot(previous, cutoff, point, localPages) ==
    [tail |-> {point} \cup (IF localPages # {} THEN {} ELSE PreviousLive(previous, cutoff)),
     pages |-> LivePages(previous.pages, cutoff) \cup {[points |-> l, carrier |-> 0] : l \in localPages},
     cutoff |-> cutoff]

CapturedSection(previous, policy, sampled, chosen, isRoot) ==
    LET cutoff == CapturedCutoff(previous, policy, sampled)
        point  == PredecessorPoint(previous, chosen)
        locals == IF Rolls(previous, cutoff) THEN {PreviousLive(previous, cutoff)} ELSE {}
    IN  [policy     |-> policy,
         register   |-> point,
         expire     |-> IF cutoff > previous.cutoff THEN cutoff ELSE NoExpiry,
         localPages |-> locals,
         snapshot   |-> IF isRoot THEN RootSnapshot(previous, cutoff, point, locals) ELSE None]

-----------------------------------------------------------------------------
(* Validation and application of a section: RecoverySection.               *)

NormalizedSnapshot(snapshot, seq) ==
    [snapshot EXCEPT !.pages = {[g EXCEPT !.carrier = IF @ = 0 THEN seq ELSE @] : g \in snapshot.pages}]

ValidSection(section) ==
    LET here == IF section.snapshot = None THEN {}
                ELSE {g.points : g \in {x \in section.snapshot.pages : x.carrier = 0}}
    IN  /\ section.register.until > section.register.time
        /\ \A l \in section.localPages : l # {} /\ ValidPoints(l)
        /\ here \subseteq section.localPages
        /\ section.snapshot # None =>
              /\ ValidSnapshot(section.snapshot)
              /\ section.expire # NoExpiry => section.expire = section.snapshot.cutoff

ValidForHeader(section, parent, time, isRoot) ==
    /\ ValidSection(section)
    /\ (section.snapshot # None) = isRoot
    /\ section.expire <= time
    /\ section.snapshot # None => section.snapshot.cutoff <= time
    /\ section.register.seq = parent
    /\ section.register.time < time
    /\ section.register.until > time
    /\ section.snapshot # None => /\ section.register \in section.snapshot.tail
                                  /\ \A p \in section.snapshot.tail : p.seq <= parent
                                  /\ \A g \in section.snapshot.pages : g.carrier <= parent
    /\ \A l \in section.localPages : \A p \in l : p.seq < parent

ValidForCommit(section, previous, time, isRoot, safeExpiry) ==
    /\ ValidForHeader(section, previous.seq, time, isRoot)
    /\ section.expire <= safeExpiry
    /\ section.register.time = previous.time
    /\ section.register.until >= PromisedUntil(previous.policy, time)
    /\ section.register.policy = previous.policy

(* Variant: a rolled page is attributed to the predecessor.                *)
AppliedDeltaAtParent(section, previous, seq) ==
    LET cutoff == IF section.expire = NoExpiry THEN previous.cutoff ELSE section.expire
        live   == Live(previous.tail, cutoff)
        rolled == {[points |-> l, carrier |-> seq - 1] : l \in section.localPages}
    IN  [tail   |-> {section.register} \cup (IF rolled # {} THEN {} ELSE live),
         pages  |-> LivePages(previous.pages, cutoff) \cup rolled,
         cutoff |-> cutoff]

AppliedDelta(section, previous, seq) ==
    LET cutoff == IF section.expire = NoExpiry THEN previous.cutoff ELSE section.expire
        live   == Live(previous.tail, cutoff)
        rolled == {[points |-> l, carrier |-> seq] : l \in section.localPages}
    IN  [tail   |-> {section.register} \cup (IF rolled # {} THEN {} ELSE live),
         pages  |-> LivePages(previous.pages, cutoff) \cup rolled,
         cutoff |-> cutoff]

DeltaApplies(section, previous, seq) ==
    LET next == AppliedDelta(section, previous, seq)
    IN  /\ section.expire # NoExpiry => section.expire >= previous.cutoff
        /\ section.register.seq + 1 = seq
        /\ \A l \in section.localPages : l = Live(previous.tail, next.cutoff)
        /\ ValidSnapshot(next)
        /\ section.snapshot # None => NormalizedSnapshot(section.snapshot, seq) = next

-----------------------------------------------------------------------------
(* Expiry: AcceptedRecoveryState.  A tail point counts with its own         *)
(* deadline; a page with its first unexpired extremum.                      *)

(* Variant: a page is forgotten once its first deadline has passed.        *)
NextExpiriesByMinimum(state) ==
    {d \in {p.until : p \in state.tail} \cup {MinDeadline(g) : g \in state.pages} :
        d > state.cutoff}

NextExpiries(state) ==
    LET pageExpiry(g) == IF MinDeadline(g) > state.cutoff THEN MinDeadline(g) ELSE MaxDeadline(g)
    IN  {d \in {p.until : p \in state.tail} \cup {pageExpiry(g) : g \in state.pages} :
            d > state.cutoff}

ExpiryCheckpointDue(state, policy, sampled) ==
    \E d \in NextExpiries(state) : d <= CapturedCutoff(state, policy, sampled)

-----------------------------------------------------------------------------
(* The gateway.                                                            *)

Init ==
    /\ real = 0
    /\ configured \in Policies
    /\ \E s \in Samples :
          accepted = [seq |-> 1, time |-> s, policy |-> configured,
                      tail |-> {}, pages |-> {}, cutoff |-> 0]
    /\ pending = NoPublication
    /\ superseded = {}
    /\ granted = None

Tick ==
    /\ real < MaxTime
    /\ real' = real + 1
    /\ UNCHANGED <<configured, accepted, pending, superseded, granted>>

(* prepare_child_publication and CapturedRecoveryPublication::new; a lead  *)
(* of the clock, a full registry or an invalid section refuses it.         *)
Capture(isRoot) ==
    /\ pending = NoPublication
    /\ accepted.seq < MaxCommits
    /\ \E sampled \in Samples :
          LET chosen  == ChoosePublishTime(sampled, accepted.time)
              cutoff  == CapturedCutoff(accepted, configured, sampled)
              section == CapturedSection(accepted, configured, sampled, chosen, isRoot)
          IN  /\ PublicationTimeOk(sampled, chosen)
              /\ HasCapacity(accepted, cutoff)
              /\ ValidForCommit(section, accepted, chosen, isRoot, cutoff)
              /\ pending' = [kind |-> "captured", sampled |-> sampled, time |-> chosen,
                             root |-> isRoot, section |-> section, checked |-> 0]
    /\ UNCHANGED <<real, configured, accepted, superseded, granted>>

PublishDelta == Capture(FALSE)

PublishRoot == Capture(TRUE)

(* maybe_publish_recovery_expiry_checkpoint: a root, only when it is due.  *)
ExpiryCheckpoint ==
    /\ \E sampled \in Samples : ExpiryCheckpointDue(accepted, configured, sampled)
    /\ Capture(TRUE)

(* verify_recovery_publication on the uploaded bytes, then the freshness    *)
(* check that is the last thing before the anchor CAS is sent.              *)
VerifyAndCheckFresh ==
    /\ pending.kind = "captured"
    /\ LET section == pending.section
           safe    == Larger(accepted.cutoff, ExpiryCutoff(section.policy, pending.sampled))
           bound   == Smaller(accepted.policy.uncertainty, section.policy.uncertainty)
       IN  /\ ValidForCommit(section, accepted, pending.time, pending.root, safe)
           /\ DeltaApplies(section, accepted, accepted.seq + 1)
           /\ \E now \in Samples : FreshEnough(now, pending.time, bound)
    /\ pending' = [pending EXCEPT !.kind = "sent", !.checked = real]
    /\ UNCHANGED <<real, configured, accepted, superseded, granted>>

(* Variant: the accepted state keeps the parent's publication time.        *)
AnchorAcceptsParentTime(replied) ==
    /\ pending.kind = "sent"
    /\ LET next == AppliedDelta(pending.section, accepted, accepted.seq + 1)
       IN  accepted' = [seq |-> accepted.seq + 1, time |-> accepted.time,
                        policy |-> pending.section.policy,
                        tail |-> next.tail, pages |-> next.pages, cutoff |-> next.cutoff]
    /\ superseded' = superseded \cup {pending.section.register}
    /\ granted' = [point |-> pending.section.register, checked |-> pending.checked]
    /\ pending' = IF replied THEN NoPublication ELSE Blocked
    /\ UNCHANGED <<real, configured>>

(* The anchor accepts the successor; the reply arrives, or it is lost and   *)
(* the gateway stays blocked until it is opened again.                      *)
AnchorAccepts(replied) ==
    /\ pending.kind = "sent"
    /\ LET next == AppliedDelta(pending.section, accepted, accepted.seq + 1)
       IN  accepted' = [seq |-> accepted.seq + 1, time |-> pending.time,
                        policy |-> pending.section.policy,
                        tail |-> next.tail, pages |-> next.pages, cutoff |-> next.cutoff]
    /\ superseded' = superseded \cup {pending.section.register}
    /\ granted' = [point |-> pending.section.register, checked |-> pending.checked]
    /\ pending' = IF replied THEN NoPublication ELSE Blocked
    /\ UNCHANGED <<real, configured>>

Accept == AnchorAccepts(TRUE)

AcceptUnseen == AnchorAccepts(FALSE)

(* Any failure before the CAS applied, or a CAS settled as not applied.     *)
Abandon ==
    /\ pending.kind \in {"captured", "sent"}
    /\ pending' = NoPublication
    /\ UNCHANGED <<real, configured, accepted, superseded, granted>>

(* The gateway is opened again, perhaps under another configured policy:    *)
(* it replays the accepted chain and forgets what it had captured.          *)
Reopen(policy) ==
    /\ configured' = policy
    /\ pending' = NoPublication
    /\ UNCHANGED <<real, accepted, superseded, granted>>

Next ==
    \/ Tick
    \/ PublishDelta
    \/ PublishRoot
    \/ ExpiryCheckpoint
    \/ VerifyAndCheckFresh
    \/ Accept
    \/ AcceptUnseen
    \/ Abandon
    \/ \E p \in Policies : Reopen(p)

Spec == Init /\ [][Next]_vars

-----------------------------------------------------------------------------
(* Properties.                                                             *)

Point == [seq : Nat, time : Nat, until : Nat, policy : Policies]

Page == [points : SUBSET Point, carrier : Nat]

(* The registry the anchor selects is one its own decoder accepts: bounded  *)
(* tail and pages, sequences and publication times in order, nothing in it  *)
(* at or below the cutoff, every page carried by a later commit.            *)
RegistryValid ==
    /\ accepted.tail \subseteq Point /\ accepted.pages \subseteq Page
    /\ ValidSnapshot(Registry(accepted))
    /\ \A p \in Registered(accepted) : p.seq < accepted.seq /\ p.time < accepted.time

Publishing == pending.kind \in {"captured", "sent"}

(* What makes the promises below inductive: no published or captured cutoff *)
(* is ahead of true time, a captured transition has the shape and, once it  *)
(* is verified, the rolled page and the deadline the accepted state calls   *)
(* for.                                                                     *)
Inductive ==
    /\ real \in Nat /\ configured \in Policies /\ accepted.policy \in Policies
    /\ accepted.time \in Int /\ accepted.cutoff \in Int /\ accepted.cutoff <= real
    /\ \A p \in Registered(accepted) \cup superseded : p.until \in Int
    /\ Publishing =>
          /\ pending = [kind |-> pending.kind, sampled |-> pending.sampled, time |-> pending.time,
                        root |-> pending.root, section |-> pending.section,
                        checked |-> pending.checked]
          /\ pending.time \in Int /\ pending.section.policy \in Policies
          /\ pending.section.expire \in Int /\ pending.section.expire <= real
          /\ pending.section.register.until \in Int
          /\ \A l \in pending.section.localPages : l \subseteq accepted.tail
    /\ pending.kind = "sent" =>
          /\ DeltaApplies(pending.section, accepted, accepted.seq + 1)
          /\ pending.section.register.policy \in Policies /\ pending.checked \in Nat
          /\ pending.section.register.until + ClockError
                >= pending.checked + pending.section.register.policy.window

(* A promise is honoured in true time: as long as a superseded point's      *)
(* deadline has not really passed, that exact point, with that deadline, is *)
(* in the registry, whatever the clock read, however the policy changed and *)
(* however often the tail was rolled or the chain cut by a root.            *)
PromiseHonoured ==
    \A p \in superseded : real < p.until => p \in Registered(accepted)

(* The deadline covers the whole window of the policy the point was         *)
(* accepted under, counted in true time from the freshness check that       *)
(* precedes the CAS, up to the clock's own error.                           *)
WindowKept ==
    granted # None =>
        granted.point.until + ClockError >= granted.checked + granted.point.policy.window

(* The only things that refuse a publication are a clock that lags the      *)
(* chain too far and a full registry: a transition captured from any        *)
(* reachable registry passes every check its replay will make of it.        *)
CaptureAlwaysValid ==
    pending = NoPublication =>
        \A sampled \in Samples, isRoot \in BOOLEAN :
            LET chosen  == ChoosePublishTime(sampled, accepted.time)
                cutoff  == CapturedCutoff(accepted, configured, sampled)
                section == CapturedSection(accepted, configured, sampled, chosen, isRoot)
            IN  PublicationTimeOk(sampled, chosen) /\ HasCapacity(accepted, cutoff) =>
                  /\ ValidForCommit(section, accepted, chosen, isRoot, cutoff)
                  /\ DeltaApplies(section, accepted, accepted.seq + 1)

(* Nothing releasable is forgotten: whenever the cutoff the clock allows    *)
(* would drop a tail point or a whole page, the expiry checkpoint is due,   *)
(* also for a page whose first deadline an earlier cutoff already passed.   *)
DueWhenReleasable ==
    \A sampled \in Samples :
        LET cutoff == CapturedCutoff(accepted, configured, sampled)
        IN  (\/ Live(accepted.tail, cutoff) # accepted.tail
             \/ LivePages(accepted.pages, cutoff) # accepted.pages)
            => ExpiryCheckpointDue(accepted, configured, sampled)
=============================================================================
