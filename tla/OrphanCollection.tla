-------------------------- MODULE OrphanCollection --------------------------
(***************************************************************************)
(* Deletion of unreachable objects by full maintenance                     *)
(* (crates/rs3-repository/src/v3/maintenance.rs, the maintenance window of *)
(* coordinator.rs, the streamed uploads of service.rs and the claims in    *)
(* repository.rs).                                                         *)
(*                                                                         *)
(* A gateway uploads a payload under a fresh name, which it claims in its  *)
(* own memory, uploads a commit that names it, and moves the anchor.  What *)
(* was uploaded and never anchored is garbage, and so is what neither the  *)
(* head nor a live recovery point needs any more.  Full maintenance closes *)
(* the gateway's publications out, computes what is reachable, lists the   *)
(* store, renews what it keeps and deletes the rest, one request at a time.*)
(*                                                                         *)
(* Uploads go on meanwhile.  A gateway may die or lose its claim at any    *)
(* point, another one takes over, and what the first one sent may arrive   *)
(* later.  Deadlines of recovery points are the subject of RecoveryHistory *)
(* and the anchor protocol that of LeaseAnchor: here a point may expire    *)
(* with any commit, and an update is adrift until it is applied or lost.   *)
(***************************************************************************)
EXTENDS Naturals

CONSTANTS
    Gateways,    \* gateway processes
    Commits,     \* names of commit objects, under commits/v03/
    Payloads,    \* names of standalone payload objects, under objects/v03/
    Genesis,     \* the commit of the initial head
    MaxFaults    \* bound on crashes, lost claims and interrupted runs

ASSUME CollectionAssumption ==
    /\ Genesis \in Commits
    /\ Commits \cap Payloads = {}
    /\ MaxFaults \in Nat

Objects == Commits \cup Payloads

VARIABLES
    epoch,      \* gateway -> its writer epoch, 0 when it does not run
    owner,      \* the epoch in the Lease
    live,       \* the gateways whose writer fence is live (WriterFence::is_live)
    head,       \* the anchored state
    store,      \* the objects in the store
    used,       \* every name chosen so far
    sequence,   \* commit -> its sequence number, 0 until it is published
    claims,     \* gateway -> inflight_standalone_objects
    uploads,    \* gateway -> payloads being uploaded or waiting for their commit
    pub,        \* gateway -> its publication
    adrift,     \* anchor updates sent and not decided
    doomed,     \* objects whose deletion was sent and not decided
    gc,         \* gateway -> its maintenance run
    faults      \* the faults so far

vars == <<epoch, owner, live, head, store, used, sequence, claims, uploads, pub, adrift, doomed, gc, faults>>
lease == <<epoch, owner, live>>
names == <<used, sequence>>

NoPub == [stage |-> "none"]
NoRun == [stage |-> "none"]

Heads == [commit : Commits, needs : SUBSET Objects, points : SUBSET SUBSET Objects]

TypeOK ==
    /\ epoch \in [Gateways -> Nat] /\ owner \in Nat /\ live \subseteq Gateways
    /\ head \in Heads
    /\ store \subseteq used /\ used \subseteq Objects /\ doomed \subseteq used
    /\ sequence \in [Commits -> Nat]
    /\ claims \in [Gateways -> SUBSET Payloads] /\ uploads \in [Gateways -> SUBSET Payloads]
    /\ pub \in [Gateways -> {NoPub} \cup [stage : {"uploaded", "sent"}, base : Heads,
                                          next : Heads, payloads : SUBSET Payloads]]
    /\ adrift \subseteq [epoch : Nat, base : Heads, next : Heads]
    /\ gc \in [Gateways -> {NoRun}
                 \cup [stage : {"plan"}]
                 \cup [stage : {"commits", "objects", "renew", "delete"}, base : Heads,
                       reach : SUBSET Objects, orphans : SUBSET Objects]]
    /\ faults \in Nat

-----------------------------------------------------------------------------
(* What a head keeps: its chain and live payloads, and what every live      *)
(* recovery point needs (load_reachability).                                *)

Reachable(h) == h.needs \cup UNION h.points

(* What an undecided update names was uploaded moments ago: it is younger   *)
(* than the age limit of at least an hour (MIN_ORPHAN_GC_AGE).              *)
Named(r)    == {r.next.commit} \cup Reachable(r.next)
TooYoung(o) == \E r \in adrift : o \in Named(r)

(* A commit that shares the sequence of the anchor is never deleted: nothing *)
(* in production sets delete_same_sequence.                                  *)
SameSequence(o, h) == o \in Commits /\ sequence[o] = sequence[h.commit]

(* Names are random; which fresh one is taken makes no difference.           *)
Fresh(o, pool) == o \notin used /\ o = CHOOSE n \in pool \ used : TRUE

Running(g)   == epoch[g] # 0
Fault        == faults < MaxFaults /\ faults' = faults + 1
Forgotten(g) == /\ claims' = [claims EXCEPT ![g] = {}]
                /\ uploads' = [uploads EXCEPT ![g] = {}]
                /\ pub' = [pub EXCEPT ![g] = NoPub]
                /\ gc' = [gc EXCEPT ![g] = NoRun]

Init ==
    /\ epoch = [g \in Gateways |-> 0] /\ owner = 0 /\ live = {}
    /\ head = [commit |-> Genesis, needs |-> {Genesis}, points |-> {}]
    /\ store = {Genesis} /\ used = {Genesis} /\ sequence = [c \in Commits |-> 0]
    /\ claims = [g \in Gateways |-> {}] /\ uploads = [g \in Gateways |-> {}]
    /\ pub = [g \in Gateways |-> NoPub]
    /\ adrift = {} /\ doomed = {}
    /\ gc = [g \in Gateways |-> NoRun]
    /\ faults = 0

-----------------------------------------------------------------------------
(* Gateways.  A takeover waits for a whole lease duration without a renewal. *)
(* It is assumed that the fence of the owner is then no longer live; a slow  *)
(* read of the Lease can leave it live for as long as the read takes.        *)

Start(g) ==
    /\ ~Running(g) /\ g = CHOOSE h \in Gateways : ~Running(h)
    /\ live = {}
    /\ owner' = owner + 1
    /\ epoch' = [epoch EXCEPT ![g] = owner + 1]
    /\ live' = {g}
    /\ UNCHANGED <<head, store, names, claims, uploads, pub, adrift, doomed, gc, faults>>

(* The fence is live for one lease duration after the last renewal.          *)
LoseClaim(g) ==
    /\ g \in live /\ Fault
    /\ live' = live \ {g}
    /\ UNCHANGED <<epoch, owner, head, store, names, claims, uploads, pub, adrift, doomed, gc>>

(* A renewal that succeeds before anyone took over makes the fence live again. *)
RenewClaim(g) ==
    /\ Running(g) /\ epoch[g] = owner /\ g \notin live
    /\ live' = live \cup {g}
    /\ UNCHANGED <<epoch, owner, head, store, names, claims, uploads, pub, adrift, doomed, gc, faults>>

(* A gateway that lost its claim shuts down; any gateway may crash.         *)
Stop(g) ==
    /\ Running(g)
    /\ IF g \in live THEN Fault ELSE UNCHANGED faults
    /\ epoch' = [epoch EXCEPT ![g] = 0]
    /\ live' = live \ {g}
    /\ Forgotten(g)
    /\ UNCHANGED <<owner, head, store, names, adrift, doomed>>

-----------------------------------------------------------------------------
(* Streamed uploads and publications.                                       *)

(* upload_standalone_streaming: the name is claimed before the first byte    *)
(* is sent and the object appears when the upload is completed.              *)
Upload(g, o) ==
    /\ Running(g) /\ Fresh(o, Payloads)
    /\ used' = used \cup {o}
    /\ claims' = [claims EXCEPT ![g] = @ \cup {o}]
    /\ uploads' = [uploads EXCEPT ![g] = @ \cup {o}]
    /\ store' = store \cup {o}
    /\ UNCHANGED <<lease, head, sequence, pub, adrift, doomed, gc, faults>>

Committing(g) == IF pub[g] = NoPub THEN {} ELSE pub[g].payloads

\* Variant: the claim outlives a request that is given up.
AbandonClaimed(g, o) ==
    /\ o \in uploads[g] \ Committing(g)
    /\ uploads' = [uploads EXCEPT ![g] = @ \ {o}]
    /\ UNCHANGED <<lease, head, store, names, claims, pub, adrift, doomed, gc, faults>>

(* The request ends before its commit: the claim is dropped with it.        *)
Abandon(g, o) ==
    /\ o \in uploads[g] \ Committing(g)
    /\ uploads' = [uploads EXCEPT ![g] = @ \ {o}]
    /\ claims' = [claims EXCEPT ![g] = @ \ {o}]
    /\ UNCHANGED <<lease, head, store, names, pub, adrift, doomed, gc, faults>>

(* A commit keeps what its parent needs, except payloads that are overwritten *)
(* or deleted; a root may drop commits of the chain too.  The parent becomes  *)
(* a recovery point and any of the older points may expire.                   *)
Children(c, payloads) ==
    {[commit |-> c, needs |-> kept \cup {c} \cup payloads, points |-> points \cup {head.needs}] :
        kept \in SUBSET head.needs, points \in SUBSET head.points}

(* The window holds the publisher and stage locks.                          *)
\* Variant: maintenance does not keep publications out.
PublicationsOpenAlways(g) == pub[g] = NoPub

PublicationsOpen(g) == pub[g] = NoPub /\ gc[g] = NoRun

Publish(g, c) ==
    /\ Running(g) /\ PublicationsOpen(g) /\ Fresh(c, Commits)
    /\ used' = used \cup {c}
    /\ store' = store \cup {c}
    /\ sequence' = [sequence EXCEPT ![c] = sequence[head.commit] + 1]
    /\ \E payloads \in {{}} \cup {{o} : o \in uploads[g]} : \E next \in Children(c, payloads) :
          pub' = [pub EXCEPT ![g] = [stage |-> "uploaded", base |-> head, next |-> next,
                                     payloads |-> payloads]]
    /\ UNCHANGED <<lease, head, claims, uploads, adrift, doomed, gc, faults>>

Send(g) ==
    /\ g \in live /\ pub[g].stage = "uploaded"
    /\ adrift' = adrift \cup {[epoch |-> epoch[g], base |-> pub[g].base, next |-> pub[g].next]}
    /\ pub' = [pub EXCEPT ![g].stage = "sent"]
    /\ UNCHANGED <<lease, head, store, names, claims, uploads, doomed, gc, faults>>

Applicable(r) == r.epoch = owner /\ r.base = head

Advance(r) ==
    /\ r \in adrift /\ Applicable(r)
    /\ head' = r.next
    /\ adrift' = adrift \ {r}
    /\ UNCHANGED <<lease, store, names, claims, uploads, pub, doomed, gc, faults>>

Lost(r) ==
    /\ r \in adrift
    /\ adrift' = adrift \ {r}
    /\ UNCHANGED <<lease, head, store, names, claims, uploads, pub, doomed, gc, faults>>

(* The publication ends: accepted, refused, never sent, or unresolved, with  *)
(* its update still adrift.  The upload and its claim end with it.           *)
Settle(g) ==
    /\ pub[g] # NoPub
    /\ uploads' = [uploads EXCEPT ![g] = @ \ Committing(g)]
    /\ claims' = [claims EXCEPT ![g] = @ \ Committing(g)]
    /\ pub' = [pub EXCEPT ![g] = NoPub]
    /\ UNCHANGED <<lease, head, store, names, adrift, doomed, gc, faults>>

-----------------------------------------------------------------------------
(* Full maintenance.                                                        *)

(* begin_maintenance_window: publications are drained and kept out.         *)
OpenWindow(g) ==
    /\ g \in live /\ pub[g] = NoPub /\ gc[g] = NoRun
    /\ gc' = [gc EXCEPT ![g] = [stage |-> "plan"]]
    /\ UNCHANGED <<lease, head, store, names, claims, uploads, pub, adrift, doomed, faults>>

(* load_reachability; the anchor it reads is the base of the plan.          *)
Load(g) ==
    /\ gc[g].stage = "plan"
    /\ gc' = [gc EXCEPT ![g] = [stage |-> "commits", base |-> head,
                                reach |-> Reachable(head), orphans |-> {}]]
    /\ UNCHANGED <<lease, head, store, names, claims, uploads, pub, adrift, doomed, faults>>

\* Variant: the in-flight objects of this process are not left out.
UnreachableObjects(g) == (store \cap Payloads) \ gc[g].reach

OrphanObjects(g) == (store \cap Payloads) \ (gc[g].reach \cup claims[g])

(* report_orphans_from_reachability: the two prefixes, one after the other.  *)
ListCommits(g) ==
    /\ gc[g].stage = "commits"
    /\ gc' = [gc EXCEPT ![g].stage = "objects", ![g].orphans = (store \cap Commits) \ gc[g].reach]
    /\ UNCHANGED <<lease, head, store, names, claims, uploads, pub, adrift, doomed, faults>>

ListObjects(g) ==
    /\ gc[g].stage = "objects"
    /\ gc' = [gc EXCEPT ![g].stage = "renew", ![g].orphans = @ \cup OrphanObjects(g)]
    /\ UNCHANGED <<lease, head, store, names, claims, uploads, pub, adrift, doomed, faults>>

(* Before every renewal and every deletion the fence and the anchor are      *)
(* checked again.                                                            *)
\* Variant: nobody looks at the fence after the window was opened.
StillBase(g) == gc[g].base = head

MayMutate(g) == g \in live /\ gc[g].base = head

Renewed(g) ==
    /\ gc[g].stage = "renew" /\ MayMutate(g)
    /\ gc' = [gc EXCEPT ![g].stage = "delete"]
    /\ UNCHANGED <<lease, head, store, names, claims, uploads, pub, adrift, doomed, faults>>

Skipped(g, o) == TooYoung(o) \/ SameSequence(o, gc[g].base)

(* One candidate of delete_expired_orphan_candidates.  The fence is checked  *)
(* first, then the anchor is read, and the request leaves after a pause: the *)
(* head never returns to a former base, so an anchor found at the base later *)
(* was there when the fence was checked, and doomed holds the request from    *)
(* that moment on.                                                            *)
Delete(g, o) ==
    /\ gc[g].stage = "delete" /\ o \in gc[g].orphans
    /\ ~Skipped(g, o) /\ MayMutate(g)
    /\ doomed' = doomed \cup {o}
    /\ gc' = [gc EXCEPT ![g].orphans = @ \ {o}]
    /\ UNCHANGED <<lease, head, store, names, claims, uploads, pub, adrift, faults>>

(* The request arrives, at once or after its sender gave up or died.        *)
Deleted(o) ==
    /\ o \in doomed
    /\ store' = store \ {o}
    /\ doomed' = doomed \ {o}
    /\ UNCHANGED <<lease, head, names, claims, uploads, pub, adrift, gc, faults>>

(* The request fails; the candidate is left to a later run.                  *)
NotDeleted(o) ==
    /\ o \in doomed /\ Fault
    /\ doomed' = doomed \ {o}
    /\ UNCHANGED <<lease, head, store, names, claims, uploads, pub, adrift, gc>>

Exhausted(g) == gc[g].stage = "delete" /\ \A o \in gc[g].orphans : Skipped(g, o)

(* The run ends when its candidates are used up or a check fails; it may be  *)
(* cancelled, or fail, anywhere.                                             *)
EndRun(g) ==
    /\ gc[g] # NoRun
    /\ IF Exhausted(g) \/ (gc[g].stage \in {"renew", "delete"} /\ ~MayMutate(g))
       THEN UNCHANGED faults ELSE Fault
    /\ gc' = [gc EXCEPT ![g] = NoRun]
    /\ UNCHANGED <<lease, head, store, names, claims, uploads, pub, adrift, doomed>>

-----------------------------------------------------------------------------
Maintain(g) ==
    \/ OpenWindow(g) \/ Load(g) \/ ListCommits(g) \/ ListObjects(g) \/ Renewed(g)
    \/ \E o \in Objects : Delete(g, o)
    \/ EndRun(g)

Write(g) ==
    \/ \E o \in Payloads : Upload(g, o) \/ Abandon(g, o)
    \/ \E c \in Commits : Publish(g, c)
    \/ Send(g) \/ Settle(g)

Next ==
    \/ \E g \in Gateways : Start(g) \/ LoseClaim(g) \/ RenewClaim(g) \/ Stop(g)
    \/ \E g \in Gateways : Write(g) \/ Maintain(g)
    \/ \E r \in adrift : Advance(r) \/ Lost(r)
    \/ \E o \in doomed : Deleted(o) \/ NotDeleted(o)

Spec == Init /\ [][Next]_vars

(* The supervisor runs maintenance again and again; requests are decided,    *)
(* publications end, and a gateway that lost its claim is replaced.          *)
Fairness ==
    /\ WF_vars(\E g \in Gateways : Maintain(g))
    /\ WF_vars(\E g \in Gateways : Settle(g))
    /\ WF_vars(\E g \in Gateways : Start(g) \/ (g \notin live /\ Stop(g)))
    /\ WF_vars(\/ \E r \in adrift : Lost(r)
               \/ \E o \in doomed : Deleted(o))

FairSpec == Spec /\ Fairness

-----------------------------------------------------------------------------
(* Properties.                                                             *)

(* Whatever the head or a live recovery point needs is in the store, however *)
(* uploads, runs, crashes and takeovers are interleaved and however late a    *)
(* deletion or an anchor update arrives.                                      *)
NothingNeededDeleted == Reachable(head) \subseteq store

(* An uploaded payload waits for its commit in the store as long as its       *)
(* gateway is the writer; maintenance of the same gateway leaves it alone.     *)
UploadsKept == \A g \in live : uploads[g] \subseteq store

(* What no head, no live point, no upload and no publication needs does not   *)
(* stay: a moment comes at which maintenance has deleted all of it, whoever    *)
(* left it behind.  Only a sibling of the head waits until the head has moved. *)
Wanted(o) ==
    \/ o \in Reachable(head) \/ TooYoung(o) \/ SameSequence(o, head)
    \/ \E g \in Gateways : o \in uploads[g] \/ (pub[g] # NoPub /\ o = pub[g].next.commit)

GarbageReclaimed == (\E o \in store : ~Wanted(o)) ~> (\A o \in store : Wanted(o))

(* The inductive invariant.  Safe objects are in the store and no deletion of *)
(* them is under way: what the head keeps, what the current writer has         *)
(* uploaded or is publishing, and what an update of its epoch names.  A run    *)
(* keeps its own gateway from publishing, and its candidates are neither       *)
(* reachable from its base nor claimed.  A gateway that does not run has       *)
(* nothing under way, so a takeover starts clean.                              *)
Safe(objects) == objects \subseteq store \ doomed

EpochsOK ==
    /\ \A g \in Gateways : epoch[g] <= owner
    /\ \A g, h \in Gateways : epoch[g] = epoch[h] /\ Running(g) => g = h
    /\ \A g \in live : Running(g) /\ epoch[g] = owner
    /\ \A r \in adrift : r.epoch <= owner

RunOK(g) ==
    gc[g] # NoRun =>
        /\ pub[g] = NoPub
        /\ gc[g].stage # "plan" =>
              /\ gc[g].reach = Reachable(gc[g].base)
              /\ gc[g].orphans \subseteq used \ (gc[g].reach \cup uploads[g])

CurrentOK(g) ==
    /\ ~Running(g) => uploads[g] = {} /\ pub[g] = NoPub
    /\ Running(g) /\ epoch[g] = owner =>
          /\ Safe(uploads[g])
          /\ pub[g] # NoPub => Safe(Named(pub[g]))

Inductive ==
    /\ TypeOK /\ EpochsOK
    /\ Safe(Reachable(head))
    /\ \A r \in adrift : r.epoch = owner => Safe(Named(r))
    /\ \A g \in Gateways : uploads[g] \subseteq claims[g] /\ RunOK(g) /\ CurrentOK(g)
=============================================================================
