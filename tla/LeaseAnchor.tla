----------------------------- MODULE LeaseAnchor -----------------------------
(***************************************************************************)
(* The external anchor in a Kubernetes Lease (rs3-k8s) and how a writer    *)
(* advances it (adopt_verified_unanchored_child).  One Lease object holds  *)
(* both the writer's ownership (holder, fence token) and the anchor state; *)
(* every change is a replace guarded by the resource version that was      *)
(* read.  Each process has a guard (acquire, renew, release) and an anchor *)
(* client (advance, fence) that work at the same time.                     *)
(*                                                                         *)
(* The API server may apply a request long after its caller stopped        *)
(* waiting ("adrift"), which covers a lost reply.  Time is left out: a     *)
(* takeover may happen at any moment, and a locally live claim may expire  *)
(* at any moment.  A replace is applied only to the version it was built   *)
(* from, so its contents follow from the current Lease.                    *)
(***************************************************************************)
EXTENDS Integers, FiniteSets

CONSTANTS
    Writers,
    Nobody,      \* the Lease has no holder
    NoRequest,   \* the client waits for no reply
    MaxCommits,  \* bound: commits that are ever uploaded
    MaxVersion,  \* bound: no new acquisition, renewal or commit from this version on
    MaxAdrift    \* bound: requests under way that nobody waits for

ASSUME BoundsAssumption == MaxCommits \in Nat /\ MaxVersion \in Nat /\ MaxAdrift \in Nat

VARIABLES
    lease,       \* the Lease object: rv, holder, token, anchor
    commits,     \* what became of each uploaded commit
    nextCommit,  \* the next commit to upload
    anchored,    \* every commit the anchor has ever named
    claim,       \* WriterFenceClaim.token of each process, 0 for none
    active,      \* LocalFenceState.active
    known,       \* the accepted anchor of each process
    pc,          \* where its anchor client is
    current,     \* the commit it is publishing
    guardReq, anchorReq, \* the requests the two clients wait for
    adrift       \* requests nobody waits for any more

vars == <<lease, commits, nextCommit, anchored, claim, active, known, pc, current,
          guardReq, anchorReq, adrift>>
localVars == <<claim, active, known, pc, current>>

Commits == 1 .. MaxCommits
Genesis == 0

Requests ==
    [kind : {"acquire", "renew", "release", "advance", "fence"}, by : Writers,
     version : Nat, commit : Nat]

ASSUME NamesAssumption == Nobody \notin Writers /\ NoRequest \notin Requests

Request(kind, w, commit) == [kind |-> kind, by |-> w, version |-> lease.rv, commit |-> commit]

\* The Lease after `m`, which was built from its current version.
Replaced(m) ==
    [rv |-> lease.rv + 1,
     holder |-> IF m.kind = "acquire" THEN m.by ELSE IF m.kind = "release" THEN Nobody ELSE lease.holder,
     token |-> IF m.kind = "acquire" THEN lease.token + 1 ELSE lease.token,
     anchor |-> IF m.kind = "advance" THEN m.commit ELSE lease.anchor]

\* Mutation of Fresh: the resource version is not compared.
AlwaysFresh(m) == TRUE

\* The API server: apply, or refuse with a conflict.
Fresh(m) == m.version = lease.rv

Serve(m) ==
    /\ lease' = IF Fresh(m) THEN Replaced(m) ELSE lease
    /\ anchored' = IF Fresh(m) /\ m.kind = "advance" THEN anchored \union {m.commit} ELSE anchored

Init ==
    /\ lease = [rv |-> 0, holder |-> Nobody, token |-> 0, anchor |-> Genesis]
    /\ commits = [c \in Commits |-> [parent |-> 0, token |-> 0, kind |-> "delta", outcome |-> "unused"]]
    /\ nextCommit = 1
    /\ anchored = {Genesis}
    /\ claim = [w \in Writers |-> 0]
    /\ active = [w \in Writers |-> FALSE]
    /\ known = [w \in Writers |-> Genesis]
    /\ pc = [w \in Writers |-> "down"]
    /\ current = [w \in Writers |-> 0]
    /\ guardReq = [w \in Writers |-> NoRequest]
    /\ anchorReq = [w \in Writers |-> NoRequest]
    /\ adrift = {}

\* Nobody waits for the requests any more.
Abandon(requests) ==
    /\ adrift' = adrift \union requests
    /\ Cardinality(adrift') <= MaxAdrift

Deliver(m) ==
    /\ m \in adrift
    /\ adrift' = adrift \ {m}
    /\ Serve(m)
    /\ UNCHANGED <<commits, nextCommit, localVars, guardReq, anchorReq>>

(***************************************************************************)
(* LeaseGuard: acquire_at, renew_at, release_at                            *)
(***************************************************************************)
\* Mutation of HoldsClaim: the fence token is not compared.
HoldsLease(w) == lease.holder = w

\* lease_holds_claim
HoldsClaim(w) == lease.holder = w /\ lease.token = claim[w]

GuardSend(w, kind) ==
    /\ guardReq' = [guardReq EXCEPT ![w] = Request(kind, w, 0)]
    /\ UNCHANGED <<lease, commits, nextCommit, anchored, localVars, anchorReq, adrift>>

Acquire(w) ==
    /\ guardReq[w] = NoRequest /\ claim[w] = 0 /\ lease.rv < MaxVersion
    /\ GuardSend(w, "acquire")

\* current_claim needs an active claim; a lost Lease deactivates it.
RenewOrRelease(w) ==
    /\ guardReq[w] = NoRequest /\ claim[w] # 0 /\ active[w] /\ lease.rv < MaxVersion
    /\ IF HoldsClaim(w)
       THEN \E kind \in {"renew", "release"} : GuardSend(w, kind)
       ELSE /\ active' = [active EXCEPT ![w] = FALSE]
            /\ UNCHANGED <<lease, commits, nextCommit, anchored, claim, known, pc, current,
                           guardReq, anchorReq, adrift>>

\* A conflict is retried: the guard is free to send again.
GuardAnswered(w) ==
    LET m == guardReq[w]
    IN  /\ m # NoRequest
        /\ Serve(m)
        /\ claim' = IF Fresh(m) /\ m.kind = "acquire" THEN [claim EXCEPT ![w] = lease.token + 1] ELSE claim
        /\ active' = IF Fresh(m) THEN [active EXCEPT ![w] = m.kind # "release"] ELSE active
        /\ guardReq' = [guardReq EXCEPT ![w] = NoRequest]
        /\ UNCHANGED <<commits, nextCommit, known, pc, current, anchorReq, adrift>>

GuardUnanswered(w) ==
    /\ guardReq[w] # NoRequest
    /\ Abandon({guardReq[w]})
    /\ guardReq' = [guardReq EXCEPT ![w] = NoRequest]
    /\ UNCHANGED <<lease, commits, nextCommit, anchored, localVars, anchorReq>>

(***************************************************************************)
(* The anchor client: adopt_verified_unanchored_child                      *)
(***************************************************************************)
Set(w, place) == pc' = [pc EXCEPT ![w] = place]

Outcome(w, o) == commits' = [commits EXCEPT ![current[w]].outcome = o]

\* The chain is loaded from the anchor once the Lease is held.
Load(w) ==
    /\ pc[w] = "down" /\ claim[w] # 0
    /\ known' = [known EXCEPT ![w] = lease.anchor]
    /\ Set(w, "idle")
    /\ UNCHANGED <<lease, commits, nextCommit, anchored, claim, active, current, guardReq,
                   anchorReq, adrift>>

\* A child of the accepted anchor is uploaded: a delta of mutations, or the
\* root of a checkpoint or of an index compaction.
Upload(w) ==
    /\ pc[w] = "idle" /\ nextCommit \in Commits /\ lease.rv < MaxVersion
    /\ \E kind \in {"delta", "root"} :
          commits' = [commits EXCEPT ![nextCommit] =
                          [parent |-> known[w], token |-> claim[w], kind |-> kind,
                           outcome |-> "pending"]]
    /\ current' = [current EXCEPT ![w] = nextCommit]
    /\ nextCommit' = nextCommit + 1
    /\ Set(w, "check")
    /\ UNCHANGED <<lease, anchored, claim, active, known, guardReq, anchorReq, adrift>>

\* The read before the update: a moved anchor is a plain failure.
Check(w) ==
    /\ pc[w] = "check"
    /\ IF lease.anchor = commits[current[w]].parent
       THEN Set(w, "advance") /\ UNCHANGED commits
       ELSE Set(w, "idle") /\ Outcome(w, "failed")
    /\ UNCHANGED <<lease, nextCommit, anchored, claim, active, known, current, guardReq, anchorReq,
                   adrift>>

AnchorSend(w, kind) ==
    /\ anchorReq' = [anchorReq EXCEPT ![w] = Request(kind, w, IF kind = "advance" THEN current[w] ELSE 0)]
    /\ UNCHANGED <<lease, commits, nextCommit, anchored, localVars, guardReq, adrift>>

\* validate_writer_fence: the claim is locally live and the Lease holds it.
MaySend(w) == active[w] /\ HoldsClaim(w)

\* compare_and_advance_lease reads, compares and replaces.
Advance(w) ==
    /\ pc[w] = "advance" /\ anchorReq[w] = NoRequest
    /\ MaySend(w) /\ lease.anchor = commits[current[w]].parent
    /\ AnchorSend(w, "advance")

\* Its errors: stale anchor, lost or expired claim, failed read, retries exhausted.
AdvanceFails(w) ==
    /\ pc[w] = "advance" /\ anchorReq[w] = NoRequest
    /\ Set(w, "fence")
    /\ UNCHANGED <<lease, commits, nextCommit, anchored, claim, active, known, current, guardReq,
                   anchorReq, adrift>>

AdvanceAnswered(w) ==
    LET m == anchorReq[w]
    IN  /\ pc[w] = "advance" /\ m # NoRequest
        /\ Serve(m)
        /\ IF Fresh(m)
           THEN Outcome(w, "accepted") /\ Set(w, "idle") /\ known' = [known EXCEPT ![w] = current[w]]
           ELSE UNCHANGED <<commits, pc, known>>  \* a conflict: read again
        /\ anchorReq' = [anchorReq EXCEPT ![w] = NoRequest]
        /\ UNCHANGED <<nextCommit, claim, active, current, guardReq, adrift>>

AdvanceUnanswered(w) ==
    /\ pc[w] = "advance" /\ anchorReq[w] # NoRequest
    /\ Abandon({anchorReq[w]})
    /\ anchorReq' = [anchorReq EXCEPT ![w] = NoRequest]
    /\ Set(w, "fence")
    /\ UNCHANGED <<lease, commits, nextCommit, anchored, claim, active, known, current, guardReq>>

\* Mutation of Fence: a plain read settles the outcome.
FenceByReading(w) ==
    /\ pc[w] = "fence" /\ anchorReq[w] = NoRequest
    /\ IF lease.anchor = commits[current[w]].parent
       THEN Outcome(w, "failed") /\ Set(w, "idle") ELSE Outcome(w, "unknown") /\ Set(w, "stopped")
    /\ UNCHANGED <<lease, nextCommit, anchored, claim, active, known, current, guardReq, anchorReq, adrift>>

\* fence_and_read_lease
Fence(w) ==
    /\ pc[w] = "fence" /\ anchorReq[w] = NoRequest
    /\ MaySend(w)
    /\ AnchorSend(w, "fence")

\* Mutation of Stop: the outcome is taken as accepted.
StopAsAccepted(w) == Set(w, "idle") /\ Outcome(w, "accepted") /\ UNCHANGED known

\* Mutation of Stop: no unresolved outcome blocks the writer.
StopNever(w) == Set(w, "idle") /\ Outcome(w, "unknown") /\ UNCHANGED known

\* An unresolved delta blocks the writer until it restarts (publication_error);
\* an unresolved checkpoint or compaction is an ordinary error, and the writer
\* goes on from the anchor it knows while the update may still be applied.
Stop(w) ==
    /\ Set(w, IF commits[current[w]].kind = "delta" THEN "stopped" ELSE "idle")
    /\ Outcome(w, "unknown")
    /\ UNCHANGED known

FenceFails(w) ==
    /\ pc[w] = "fence" /\ anchorReq[w] = NoRequest
    /\ Stop(w)
    /\ UNCHANGED <<lease, nextCommit, anchored, claim, active, current, guardReq, anchorReq, adrift>>

\* The state the fencing update carried is final for the commit.
Settle(w) ==
    IF lease.anchor = current[w]
    THEN Outcome(w, "accepted") /\ Set(w, "idle") /\ known' = [known EXCEPT ![w] = current[w]]
    ELSE IF lease.anchor = commits[current[w]].parent
         THEN Outcome(w, "failed") /\ Set(w, "idle") /\ UNCHANGED known
         ELSE Stop(w)

FenceAnswered(w) ==
    LET m == anchorReq[w]
    IN  /\ pc[w] = "fence" /\ m # NoRequest
        /\ Serve(m)
        /\ IF Fresh(m) THEN Settle(w) ELSE UNCHANGED <<commits, pc, known>>
        /\ anchorReq' = [anchorReq EXCEPT ![w] = NoRequest]
        /\ UNCHANGED <<nextCommit, claim, active, current, guardReq, adrift>>

FenceUnanswered(w) ==
    /\ pc[w] = "fence" /\ anchorReq[w] # NoRequest
    /\ Abandon({anchorReq[w]})
    /\ anchorReq' = [anchorReq EXCEPT ![w] = NoRequest]
    /\ Stop(w)
    /\ UNCHANGED <<lease, nextCommit, anchored, claim, active, current, guardReq>>

Publishing(w) == pc[w] \in {"check", "advance", "fence"}

\* The process ends at any point; its requests stay under way.
Restart(w) ==
    /\ pc' = [pc EXCEPT ![w] = "down"]
    /\ claim' = [claim EXCEPT ![w] = 0]
    /\ active' = [active EXCEPT ![w] = FALSE]
    /\ commits' = IF Publishing(w) THEN [commits EXCEPT ![current[w]].outcome = "unknown"] ELSE commits
    /\ Abandon({guardReq[w], anchorReq[w]} \ {NoRequest})
    /\ guardReq' = [guardReq EXCEPT ![w] = NoRequest]
    /\ anchorReq' = [anchorReq EXCEPT ![w] = NoRequest]
    /\ UNCHANGED <<lease, nextCommit, anchored, known, current>>

WriterStep(w) ==
    \/ Acquire(w) \/ RenewOrRelease(w) \/ GuardAnswered(w) \/ GuardUnanswered(w)
    \/ Load(w) \/ Upload(w) \/ Check(w)
    \/ Advance(w) \/ AdvanceFails(w) \/ AdvanceAnswered(w) \/ AdvanceUnanswered(w)
    \/ Fence(w) \/ FenceFails(w) \/ FenceAnswered(w) \/ FenceUnanswered(w)
    \/ Restart(w)

Next == (\E w \in Writers : WriterStep(w)) \/ (\E m \in adrift : Deliver(m))

Spec == Init /\ [][Next]_vars

(***************************************************************************)
(* Properties                                                              *)
(***************************************************************************)
CommitRecord ==
    [parent : Nat, token : Nat, kind : {"delta", "root"},
     outcome : {"unused", "pending", "accepted", "failed", "unknown"}]

\* The state has its type.
TypeOK ==
    /\ lease \in [rv : Nat, holder : Writers \union {Nobody}, token : Nat, anchor : Nat]
    /\ commits \in [Commits -> CommitRecord]
    /\ nextCommit \in Nat \ {0}
    /\ anchored \subseteq Nat
    /\ claim \in [Writers -> Nat]
    /\ active \in [Writers -> BOOLEAN]
    /\ known \in [Writers -> Nat]
    /\ pc \in [Writers -> {"down", "idle", "check", "advance", "fence", "stopped"}]
    /\ current \in [Writers -> Nat]
    /\ guardReq \in [Writers -> Requests \union {NoRequest}]
    /\ anchorReq \in [Writers -> Requests \union {NoRequest}]
    /\ adrift \subseteq Requests

\* A commit reported as failed is never anchored, although a request for it
\* may still be under way: what adopt_verified_unanchored_child returns after
\* the fencing update is final.
FailedNeverAnchored ==
    \A c \in Commits : commits[c].outcome = "failed" => c \notin anchored

\* A commit reported as accepted was anchored.
AcceptedIsAnchored ==
    \A c \in Commits : commits[c].outcome = "accepted" => c \in anchored

\* The root of a checkpoint or compaction that was reported as unresolved.
LeftOpen(c) == commits[c].kind = "root" /\ commits[c].outcome = "unknown"

\* The anchor names one that w uploaded in this epoch on top of what it knows.
Overtaken(w) ==
    /\ lease.anchor \in Commits /\ LeftOpen(lease.anchor)
    /\ commits[lease.anchor].parent = known[w] /\ commits[lease.anchor].token = claim[w]

\* The writer that holds the Lease and publishes nothing knows the anchor: no
\* superseded writer, earlier incarnation or late request moved it, save one
\* late update: that of its own unresolved checkpoint or compaction.
HolderIsCurrent ==
    \A w \in Writers :
        pc[w] = "idle" /\ HoldsClaim(w) => known[w] = lease.anchor \/ Overtaken(w)

\* The anchored history is one line: the anchor only moves to a child of the
\* commit it names.
AnchorExtends ==
    [][lease'.anchor # lease.anchor => commits[lease'.anchor].parent = lease.anchor]_vars

\* Only the writer epoch in the Lease moves the anchor.
StaleWriterFenced ==
    [][lease'.anchor # lease.anchor => commits[lease'.anchor].token = lease.token]_vars

(***************************************************************************)
(* The inductive invariant behind them                                     *)
(***************************************************************************)
UnderWay ==
    (adrift \union {guardReq[w] : w \in Writers} \union {anchorReq[w] : w \in Writers}) \ {NoRequest}

\* Requests are built from a version that was current.
RequestsOK ==
    /\ \A m \in UnderWay : m.version <= lease.rv
    /\ \A w \in Writers : guardReq[w] # NoRequest =>
         /\ guardReq[w].kind \in {"acquire", "renew", "release"} /\ guardReq[w].by = w
         /\ guardReq[w].kind = "acquire" => claim[w] = 0
    /\ \A w \in Writers : anchorReq[w] # NoRequest =>
         \/ pc[w] = "advance" /\ anchorReq[w].kind = "advance" /\ anchorReq[w].commit = current[w]
         \/ pc[w] = "fence" /\ anchorReq[w].kind = "fence"

Settling(w, c) == current[w] = c /\ pc[w] \in {"advance", "fence", "stopped"}

\* An update that would be applied now moves the anchor to an undecided child,
\* on behalf of the epoch in the Lease, whose owner still builds on the anchor:
\* it is settling that child, or left it unresolved and went on.
AdvancesOK ==
    \A m \in UnderWay : m.kind = "advance" =>
        /\ m.commit \in Commits /\ m.commit < nextCommit
        /\ Fresh(m) => /\ commits[m.commit].parent = lease.anchor
                       /\ commits[m.commit].token = lease.token
                       /\ commits[m.commit].outcome # "failed"
                       /\ \A w \in Writers : HoldsClaim(w) =>
                             /\ known[w] = lease.anchor
                             /\ Settling(w, m.commit) \/ LeftOpen(m.commit)

CommitsOK ==
    \A c \in Commits :
        /\ c < nextCommit <=> commits[c].outcome # "unused"
        /\ c < nextCommit => commits[c].parent < c
        /\ commits[c].outcome = "accepted" => c \in anchored
        /\ commits[c].outcome = "failed" => c \notin anchored

AnchorOK ==
    /\ lease.anchor \in anchored
    /\ \A c \in anchored : c <= lease.anchor /\ c < nextCommit

\* The anchor is what w knows, unless its own update was applied behind its
\* back: an unresolved one it left, or the one in doubt now.
FollowsAnchor(w) ==
    \/ known[w] = lease.anchor
    \/ Overtaken(w)
    \/ pc[w] = "fence" /\ lease.anchor = current[w]

EpochOK(w) ==
    /\ claim[w] <= lease.token
    /\ lease.holder = w => lease.token > 0
    /\ pc[w] # "down" => claim[w] # 0
    /\ known[w] < nextCommit
    /\ pc[w] \notin {"down", "stopped"} /\ HoldsClaim(w) => FollowsAnchor(w)

PublishingOK(w) ==
    Publishing(w) =>
        /\ current[w] \in Commits /\ current[w] < nextCommit
        /\ commits[current[w]].outcome = "pending"
        /\ commits[current[w]].parent = known[w]
        /\ commits[current[w]].token = claim[w]
        /\ \A v \in Writers : Publishing(v) /\ current[v] = current[w] => v = w

\* Before the outcome is in doubt, no request for the commit is adrift.
UndoubtedOK(w) ==
    pc[w] \in {"check", "advance"} =>
        /\ current[w] \notin anchored
        /\ \A m \in adrift : m.kind = "advance" => m.commit # current[w]
        /\ pc[w] = "check" => anchorReq[w] = NoRequest

WritersOK == \A w \in Writers : EpochOK(w) /\ PublishingOK(w) /\ UndoubtedOK(w)

\* Outcomes are final because of this: every request still under way is either
\* older than the Lease, or an undecided update of the current epoch.
Inductive ==
    TypeOK /\ RequestsOK /\ AdvancesOK /\ CommitsOK /\ AnchorOK /\ WritersOK
=============================================================================
