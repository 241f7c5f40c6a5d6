----------------------- MODULE OrphanCollectionProofs -----------------------
(***************************************************************************)
(* Full maintenance deletes nothing that is needed, for any number of      *)
(* gateways, objects and faults.                                           *)
(***************************************************************************)
EXTENDS OrphanCollection, TLAPS

(* A child commit keeps nothing but itself, its payloads and what the head   *)
(* it is built on keeps.                                                     *)
LEMMA ChildNames ==
    ASSUME head \in Heads, NEW c \in Commits, NEW payloads \in SUBSET Payloads,
           NEW next \in Children(c, payloads)
    PROVE  /\ next \in Heads /\ next.commit = c
           /\ Reachable(next) \subseteq Reachable(head) \cup {c} \cup payloads
  <1>1. PICK kept \in SUBSET head.needs, points \in SUBSET head.points :
            next = [commit |-> c, needs |-> kept \cup {c} \cup payloads,
                    points |-> points \cup {head.needs}]
    BY DEF Children
  <1>2. head.needs \subseteq Objects /\ head.points \subseteq SUBSET Objects
    BY DEF Heads
  <1>3. next \in Heads
    BY <1>1, <1>2 DEF Heads, Objects
  <1>4. UNION next.points \subseteq Reachable(head)
    BY <1>1 DEF Reachable
  <1>5. next.needs \subseteq Reachable(head) \cup {c} \cup payloads
    BY <1>1 DEF Reachable
  <1> QED
    BY <1>1, <1>3, <1>4, <1>5 DEF Reachable

(* The genesis head is all there is.                                         *)
LEMMA InductiveInit == Init => Inductive
  <1> SUFFICES ASSUME Init PROVE Inductive
    OBVIOUS
  <1>1. TypeOK
    BY CollectionAssumption DEF Init, TypeOK, Heads, Objects
  <1>2. Reachable(head) = {Genesis}
    BY DEF Init, Reachable
  <1>3. /\ live = {} /\ adrift = {} /\ doomed = {} /\ store = {Genesis} /\ owner = 0
        /\ \A g \in Gateways :
              epoch[g] = 0 /\ uploads[g] = {} /\ pub[g] = NoPub /\ gc[g] = NoRun
    BY DEF Init
  <1>4. EpochsOK
    BY <1>3 DEF EpochsOK, Running
  <1>5. Safe(Reachable(head))
    BY <1>2, <1>3 DEF Safe
  <1>6. \A g \in Gateways : uploads[g] \subseteq claims[g] /\ RunOK(g) /\ CurrentOK(g)
    BY <1>3, Zenon DEF RunOK, CurrentOK, Running
  <1> QED
    BY <1>1, <1>3, <1>4, <1>5, <1>6, Zenon DEF Inductive

(* Gateways come and go: a new owner's epoch is above that of every update   *)
(* under way, and a gateway that does not run has left nothing behind.       *)
LEMMA StartInductive ==
    ASSUME Inductive, NEW g \in Gateways, Start(g)
    PROVE  Inductive'
  <1>1. TypeOK'
    <2>1. epoch' \in [Gateways -> Nat] /\ owner' \in Nat /\ live' \subseteq Gateways
      BY DEF Inductive, TypeOK, Start
    <2>2. UNCHANGED <<head, store, used, sequence, claims, uploads, pub, adrift, doomed, gc, faults>>
      BY DEF Start, names
    <2> QED
      BY <2>1, <2>2 DEF Inductive, TypeOK
  <1>2. EpochsOK'
    <2>1. /\ epoch \in [Gateways -> Nat] /\ owner \in Nat /\ owner' = owner + 1
          /\ epoch' = [epoch EXCEPT ![g] = owner + 1] /\ live' = {g} /\ adrift' = adrift
          /\ \A r \in adrift : r.epoch \in Nat
      BY DEF Inductive, TypeOK, Start
    <2>2. epoch'[g] = owner' /\ owner' # 0 /\ \A h \in Gateways \ {g} : epoch'[h] = epoch[h]
      BY <2>1
    <2>3. (\A h \in Gateways : epoch[h] <= owner) /\ (\A r \in adrift : r.epoch <= owner)
      BY DEF Inductive, EpochsOK
    <2>4. \A h \in Gateways \ {g} : epoch[h] # owner'
      BY <2>1, <2>3
    <2>5. \A h \in Gateways : epoch'[h] <= owner'
      BY <2>1, <2>2, <2>3
    <2>6. \A h, k \in Gateways : epoch'[h] = epoch'[k] /\ epoch'[h] # 0 => h = k
      BY <2>2, <2>4 DEF Inductive, EpochsOK, Running
    <2>7. \A r \in adrift' : r.epoch <= owner'
      BY <2>1, <2>3
    <2> QED
      BY <2>1, <2>2, <2>5, <2>6, <2>7 DEF EpochsOK, Running
  <1>3. \A r \in adrift' : r.epoch # owner'
    BY DEF Inductive, TypeOK, EpochsOK, Start
  <1>4. ASSUME NEW h \in Gateways PROVE uploads'[h] \subseteq claims'[h] /\ RunOK(h)' /\ CurrentOK(h)'
    <2>1. h # g => ~(epoch'[h] = owner')
      BY DEF Inductive, TypeOK, EpochsOK, Start
    <2>2. h = g => uploads[h] = {} /\ pub[h] = NoPub
      BY DEF Inductive, CurrentOK, Start
    <2>3. h # g => epoch'[h] = epoch[h]
      BY DEF Inductive, TypeOK, Start
    <2> QED
      BY <2>1, <2>2, <2>3 DEF Inductive, RunOK, CurrentOK, Running, Start, Safe, Reachable, names
  <1> QED
    BY <1>1, <1>2, <1>3, <1>4 DEF Inductive, Start, Safe, Reachable, Named, names

(* A fence that lapses or is renewed changes nothing else.                   *)
LEMMA FenceInductive ==
    ASSUME Inductive, NEW g \in Gateways, LoseClaim(g) \/ RenewClaim(g)
    PROVE  Inductive'
  <1>1. /\ UNCHANGED <<epoch, owner, head, store, used, sequence, claims, uploads, pub, adrift, doomed, gc>>
        /\ live' \subseteq Gateways /\ faults' \in Nat
        /\ \A h \in live' : h \in live \/ (Running(h) /\ epoch[h] = owner)
    BY DEF Inductive, TypeOK, LoseClaim, RenewClaim, Fault, names
  <1> QED
    BY <1>1 DEF Inductive, TypeOK, EpochsOK, Running, Safe, Reachable, Named, RunOK, CurrentOK

LEMMA StopInductive ==
    ASSUME Inductive, NEW g \in Gateways, Stop(g)
    PROVE  Inductive'
  <1>1. TypeOK'
    BY DEF Inductive, TypeOK, Stop, Forgotten, Fault, names
  <1>2. EpochsOK'
    BY DEF Inductive, TypeOK, EpochsOK, Stop, Running, names
  <1>3. ASSUME NEW h \in Gateways PROVE uploads'[h] \subseteq claims'[h] /\ RunOK(h)' /\ CurrentOK(h)'
    BY DEF Inductive, TypeOK, RunOK, CurrentOK, Running, Stop, Forgotten, Safe, Reachable, Named, names
  <1> QED
    BY <1>1, <1>2, <1>3 DEF Inductive, Stop, Safe, Reachable, Named, names
(* A streamed upload takes a name nobody has used, so no deletion of it is   *)
(* under way and no run has listed it.                                       *)
LEMMA UploadInductive ==
    ASSUME Inductive, NEW g \in Gateways, NEW o \in Payloads, Upload(g, o)
    PROVE  Inductive'
  <1>1. o \notin used /\ o \notin doomed
    BY DEF Inductive, TypeOK, Upload, Fresh
  <1>2. TypeOK'
    BY DEF Inductive, TypeOK, Upload, Objects, lease
  <1>3. EpochsOK'
    BY DEF Inductive, EpochsOK, Upload, Running, lease
  <1>4. ASSUME NEW h \in Gateways PROVE uploads'[h] \subseteq claims'[h] /\ RunOK(h)' /\ CurrentOK(h)'
    BY <1>1 DEF Inductive, TypeOK, RunOK, CurrentOK, Running, Upload, Safe, Reachable, Named, lease
  <1> QED
    BY <1>1, <1>2, <1>3, <1>4 DEF Inductive, Upload, Safe, Reachable, Named, lease

(* A request that is given up, or a publication that ends, gives up payloads *)
(* and their claims together.                                                *)
LEMMA AbandonInductive ==
    ASSUME Inductive, NEW g \in Gateways, NEW o \in Payloads, Abandon(g, o)
    PROVE  Inductive'
  <1>1. TypeOK'
    BY DEF Inductive, TypeOK, Abandon, lease, names
  <1>2. EpochsOK'
    BY DEF Inductive, EpochsOK, Abandon, Running, lease
  <1>3. ASSUME NEW h \in Gateways PROVE uploads'[h] \subseteq claims'[h] /\ RunOK(h)' /\ CurrentOK(h)'
    BY DEF Inductive, TypeOK, RunOK, CurrentOK, Running, Abandon, Safe, Reachable, Named, lease, names
  <1> QED
    BY <1>1, <1>2, <1>3 DEF Inductive, Abandon, Safe, Reachable, Named, lease

LEMMA SettleInductive ==
    ASSUME Inductive, NEW g \in Gateways, Settle(g)
    PROVE  Inductive'
  <1>1. TypeOK'
    BY DEF Inductive, TypeOK, Settle, lease, names
  <1>2. EpochsOK'
    BY DEF Inductive, EpochsOK, Settle, Running, lease
  <1>3. ASSUME NEW h \in Gateways PROVE uploads'[h] \subseteq claims'[h] /\ RunOK(h)' /\ CurrentOK(h)'
    BY DEF Inductive, TypeOK, RunOK, CurrentOK, Running, Settle, Safe, Reachable, Named, lease, names
  <1> QED
    BY <1>1, <1>2, <1>3 DEF Inductive, Settle, Safe, Reachable, Named, lease

(* A commit is uploaded under a fresh name too, outside a maintenance window, *)
(* and names only what is safe.                                               *)
LEMMA PublishInductive ==
    ASSUME Inductive, NEW g \in Gateways, NEW c \in Commits, Publish(g, c)
    PROVE  Inductive'
  <1>1. PICK payloads \in {{}} \cup {{o} : o \in uploads[g]} : \E next \in Children(c, payloads) :
            pub' = [pub EXCEPT ![g] = [stage |-> "uploaded", base |-> head, next |-> next,
                                       payloads |-> payloads]]
    BY DEF Publish
  <1>2. PICK next \in Children(c, payloads) :
            pub' = [pub EXCEPT ![g] = [stage |-> "uploaded", base |-> head, next |-> next,
                                       payloads |-> payloads]]
    BY <1>1
  <1>3. payloads \subseteq uploads[g] /\ payloads \subseteq Payloads /\ head \in Heads
    BY <1>1 DEF Inductive, TypeOK
  <1>4. /\ next \in Heads /\ next.commit = c
        /\ Reachable(next) \subseteq Reachable(head) \cup {c} \cup payloads
    BY <1>3, ChildNames
  <1>5. c \notin used /\ c \notin doomed
    BY DEF Inductive, TypeOK, Publish, Fresh
  <1>6. pub'[g] = [stage |-> "uploaded", base |-> head, next |-> next, payloads |-> payloads]
        /\ \A h \in Gateways \ {g} : pub'[h] = pub[h]
    BY <1>2 DEF Inductive, TypeOK
  <1>7. TypeOK'
    <2>1. pub'[g] \in [stage : {"uploaded", "sent"}, base : Heads, next : Heads, payloads : SUBSET Payloads]
      BY <1>3, <1>4, <1>6
    <2>2. pub' \in [Gateways -> {NoPub} \cup [stage : {"uploaded", "sent"}, base : Heads,
                                              next : Heads, payloads : SUBSET Payloads]]
      BY <1>2, <1>6, <2>1 DEF Inductive, TypeOK
    <2>3. sequence' \in [Commits -> Nat]
      BY <1>3 DEF Inductive, TypeOK, Publish, Heads
    <2> QED
      BY <2>2, <2>3 DEF Inductive, TypeOK, Publish, Objects, lease
  <1>8. EpochsOK'
    BY DEF Inductive, EpochsOK, Publish, Running, lease
  <1>9. ASSUME NEW h \in Gateways PROVE uploads'[h] \subseteq claims'[h] /\ RunOK(h)' /\ CurrentOK(h)'
    <2>1. RunOK(h)'
      BY <1>6 DEF Inductive, TypeOK, RunOK, Publish, PublicationsOpen, Reachable
    <2>2. Running(g) /\ epoch[g] = owner => Safe(Named(pub[g]))'
      BY <1>3, <1>4, <1>5, <1>6 DEF Inductive, CurrentOK, Safe, Named, Publish
    <2>3. CurrentOK(h)'
      BY SMTT(60), <1>6, <2>2 DEF Inductive, CurrentOK, Running, Safe, Named, Reachable, Publish, PublicationsOpen, lease
    <2> QED
      BY <2>1, <2>3 DEF Inductive, Publish
  <1> QED
    BY <1>7, <1>8, <1>9 DEF Inductive, Publish, Safe, Reachable, Named, lease
(* An update is sent under a live fence, so it has the epoch of the owner    *)
(* and names what its publication keeps safe.                                *)
LEMMA SendInductive ==
    ASSUME Inductive, NEW g \in Gateways, Send(g)
    PROVE  Inductive'
  <1>1. /\ g \in live /\ Running(g) /\ epoch[g] = owner /\ pub[g] # NoPub
        /\ pub[g] \in [stage : {"uploaded", "sent"}, base : Heads, next : Heads, payloads : SUBSET Payloads]
    BY DEF Inductive, TypeOK, EpochsOK, Send, NoPub
  <1> DEFINE r == [epoch |-> epoch[g], base |-> pub[g].base, next |-> pub[g].next]
  <1>2. Safe(Named(pub[g])) /\ Named(r) = Named(pub[g])
    BY <1>1 DEF Inductive, CurrentOK, Named
  <1>3. r \in [epoch : Nat, base : Heads, next : Heads] /\ r.epoch = owner
    BY <1>1 DEF Inductive, TypeOK
  <1>4. adrift' = adrift \cup {r} /\ UNCHANGED <<epoch, owner, live, head, store, used, sequence, claims, uploads, doomed, gc, faults>>
    BY DEF Send, lease, names
  <1>5. /\ pub'[g] = [pub[g] EXCEPT !.stage = "sent"] /\ pub'[g].next = pub[g].next
        /\ pub'[g] \in [stage : {"uploaded", "sent"}, base : Heads, next : Heads, payloads : SUBSET Payloads]
        /\ \A h \in Gateways \ {g} : pub'[h] = pub[h]
    BY <1>1 DEF Inductive, TypeOK, Send
  <1>6. TypeOK'
    <2>1. pub' \in [Gateways -> {NoPub} \cup [stage : {"uploaded", "sent"}, base : Heads,
                                              next : Heads, payloads : SUBSET Payloads]]
      BY <1>5 DEF Inductive, TypeOK, Send
    <2> HIDE DEF r
    <2> QED
      BY <1>3, <1>4, <2>1 DEF Inductive, TypeOK
  <1> HIDE DEF r
  <1>7. EpochsOK'
    BY <1>3, <1>4 DEF Inductive, TypeOK, EpochsOK, Running
  <1>8. ASSUME NEW h \in Gateways PROVE uploads'[h] \subseteq claims'[h] /\ RunOK(h)' /\ CurrentOK(h)'
    BY <1>1, <1>2, <1>4, <1>5 DEF Inductive, RunOK, CurrentOK, Running, Safe, Named, Reachable
  <1>9. Safe(Reachable(head))' /\ \A q \in adrift' : q.epoch = owner' => Safe(Named(q))'
    BY <1>2, <1>4 DEF Inductive, Safe, Named, Reachable
  <1> QED
    BY <1>6, <1>7, <1>8, <1>9 DEF Inductive

(* The API server applies an update of the owner's epoch: what it names is   *)
(* safe, so the new head's objects are; a lost update takes nothing away.    *)
LEMMA AdriftInductive ==
    ASSUME Inductive, NEW r \in adrift, Advance(r) \/ Lost(r)
    PROVE  Inductive'
  <1>1. /\ UNCHANGED <<epoch, owner, live, store, used, sequence, claims, uploads, pub, doomed, gc, faults>>
        /\ adrift' \subseteq adrift /\ r.next \in Heads
        /\ head' = head \/ (head' = r.next /\ r.epoch = owner)
    BY DEF Inductive, TypeOK, Advance, Applicable, Lost, lease, names
  <1>2. head' \in Heads /\ Safe(Reachable(head'))
    BY <1>1 DEF Inductive, TypeOK, Safe, Named
  <1>3. TypeOK' /\ EpochsOK'
    BY <1>1, <1>2 DEF Inductive, TypeOK, EpochsOK, Running
  <1>4. ASSUME NEW h \in Gateways PROVE uploads'[h] \subseteq claims'[h] /\ RunOK(h)' /\ CurrentOK(h)'
    BY <1>1 DEF Inductive, RunOK, CurrentOK, Running, Safe, Named, Reachable
  <1> QED
    BY <1>1, <1>2, <1>3, <1>4 DEF Inductive, Safe, Named, Reachable

(* The steps of a run before its deletions change nothing but the run.  Its  *)
(* candidates are neither reachable from its base nor uploads of its gateway. *)
LEMMA PlanInductive ==
    ASSUME Inductive, NEW g \in Gateways,
           \/ OpenWindow(g) \/ Load(g) \/ ListCommits(g) \/ ListObjects(g)
           \/ Renewed(g) \/ EndRun(g)
    PROVE  Inductive'
  <1> DEFINE Planned == [stage : {"commits", "objects", "renew", "delete"}, base : Heads,
                         reach : SUBSET Objects, orphans : SUBSET Objects]
             Runs == {NoRun} \cup [stage : {"plan"}] \cup Planned
  <1>1. UNCHANGED <<epoch, owner, live, head, store, used, sequence, claims, uploads, pub, adrift, doomed>>
        /\ faults' \in Nat
    BY DEF Inductive, TypeOK, OpenWindow, Load, ListCommits, ListObjects, Renewed, EndRun, Fault, lease, names
  <1>2. gc'[g] \in Runs /\ RunOK(g)' /\ gc' = [gc EXCEPT ![g] = gc'[g]]
    <2>1. CASE OpenWindow(g)
      BY <2>1 DEF Inductive, TypeOK, OpenWindow, RunOK
    <2>2. CASE Load(g)
      <3>1. gc[g].stage = "plan" /\ head \in Heads /\ gc \in [Gateways -> Runs]
        BY <2>2, Zenon DEF Inductive, TypeOK, Load
      <3>2. gc'[g] = [stage |-> "commits", base |-> head, reach |-> Reachable(head), orphans |-> {}]
            /\ gc' = [gc EXCEPT ![g] = gc'[g]]
        BY <2>2, <3>1 DEF Load
      <3>3. Reachable(head) \subseteq Objects
        BY <3>1 DEF Reachable, Heads
      <3>4. gc'[g] \in Planned
        BY <3>1, <3>2, <3>3
      <3>5. gc[g] # NoRun
        BY <3>1 DEF NoRun
      <3>6. pub[g] = NoPub
        BY <3>5, Zenon DEF Inductive, RunOK
      <3>7. RunOK(g)'
        <4>1. gc'[g].base = head /\ gc'[g].reach = Reachable(head) /\ gc'[g].orphans = {}
          BY <3>2
        <4>2. gc'[g].reach = Reachable(gc'[g].base) /\ pub'[g] = NoPub
          BY <1>1, <3>6, <4>1
        <4> QED
          BY <4>1, <4>2, Zenon DEF RunOK, Reachable
      <3> QED
        BY <3>2, <3>4, <3>7, Zenon
    <2>3. CASE ListCommits(g)
      <3>1. gc[g] \in Planned /\ gc[g].stage = "commits"
        BY <2>3 DEF Inductive, TypeOK, ListCommits, NoRun
      <3>2. gc'[g] = [gc[g] EXCEPT !.stage = "objects",
                                   !.orphans = (store \cap Commits) \ gc[g].reach]
        BY <2>3, <3>1 DEF Inductive, TypeOK, ListCommits
      <3>3. /\ gc'[g] \in Planned /\ gc'[g].stage # "plan"
            /\ gc'[g].base = gc[g].base /\ gc'[g].reach = gc[g].reach
        BY <3>1, <3>2 DEF Inductive, TypeOK
      <3>4. gc[g] # NoRun /\ gc'[g].orphans \subseteq used \ (gc[g].reach \cup uploads[g])
        BY <3>1, <3>2, CollectionAssumption DEF Inductive, TypeOK, RunOK, NoRun
      <3>5. gc' = [gc EXCEPT ![g] = gc'[g]]
        BY <2>3, <3>1 DEF Inductive, TypeOK, ListCommits
      <3> QED
        BY <1>1, <3>1, <3>3, <3>4, <3>5 DEF Inductive, RunOK, Reachable
    <2>4. CASE ListObjects(g)
      <3>1. gc[g] \in Planned /\ gc[g].stage = "objects"
        BY <2>4 DEF Inductive, TypeOK, ListObjects, NoRun
      <3>2. gc'[g] = [gc[g] EXCEPT !.stage = "renew",
                                   !.orphans = gc[g].orphans \cup OrphanObjects(g)]
        BY <2>4, <3>1 DEF Inductive, TypeOK, ListObjects
      <3>3. /\ gc'[g] \in Planned /\ gc'[g].stage # "plan"
            /\ gc'[g].base = gc[g].base /\ gc'[g].reach = gc[g].reach
        BY <3>1, <3>2 DEF Inductive, TypeOK, OrphanObjects
      <3>4. gc[g] # NoRun /\ gc'[g].orphans \subseteq used \ (gc[g].reach \cup uploads[g])
        BY <3>1, <3>2 DEF Inductive, TypeOK, RunOK, NoRun, OrphanObjects
      <3>5. gc' = [gc EXCEPT ![g] = gc'[g]]
        BY <2>4, <3>1 DEF Inductive, TypeOK, ListObjects
      <3> QED
        BY <1>1, <3>1, <3>3, <3>4, <3>5 DEF Inductive, RunOK, Reachable
    <2>5. CASE Renewed(g)
      <3>1. gc[g] \in Planned /\ gc[g].stage = "renew"
        BY <2>5 DEF Inductive, TypeOK, Renewed, NoRun
      <3>2. gc'[g] = [gc[g] EXCEPT !.stage = "delete"]
        BY <2>5, <3>1 DEF Inductive, TypeOK, Renewed
      <3>3. /\ gc'[g] \in Planned /\ gc'[g].stage # "plan"
            /\ gc'[g].base = gc[g].base /\ gc'[g].reach = gc[g].reach
        BY <3>1, <3>2 DEF Inductive, TypeOK
      <3>4. gc[g] # NoRun /\ gc'[g].orphans \subseteq used \ (gc[g].reach \cup uploads[g])
        BY <3>1, <3>2 DEF Inductive, TypeOK, RunOK, NoRun
      <3>5. gc' = [gc EXCEPT ![g] = gc'[g]]
        BY <2>5, <3>1 DEF Inductive, TypeOK, Renewed
      <3> QED
        BY <1>1, <3>1, <3>3, <3>4, <3>5 DEF Inductive, RunOK, Reachable
    <2>6. CASE EndRun(g)
      BY <2>6 DEF Inductive, TypeOK, EndRun, RunOK
    <2> QED
      BY <2>1, <2>2, <2>3, <2>4, <2>5, <2>6
  <1>3. TypeOK'
    BY <1>1, <1>2 DEF Inductive, TypeOK
  <1>4. EpochsOK'
    BY <1>1 DEF Inductive, EpochsOK, Running
  <1>5. ASSUME NEW h \in Gateways PROVE uploads'[h] \subseteq claims'[h] /\ RunOK(h)' /\ CurrentOK(h)'
    <2>1. uploads'[h] \subseteq claims'[h] /\ CurrentOK(h)'
      BY <1>1, Zenon DEF Inductive, CurrentOK, Running, Safe, Named, Reachable
    <2>2. RunOK(h)'
      <3>1. CASE h = g
        BY <1>2, <3>1, Zenon
      <3>2. CASE h # g
        <4>1. gc'[h] = gc[h]
          BY <1>2, <3>2 DEF Inductive, TypeOK
        <4> QED
          BY <1>1, <4>1, Zenon DEF Inductive, RunOK, Reachable
      <3> QED
        BY <3>1, <3>2
    <2> QED
      BY <2>1, <2>2
  <1> QED
    BY <1>1, <1>3, <1>4, <1>5 DEF Inductive, Safe, Named, Reachable

(* A deletion is decided under a live fence, with the anchor at the base of   *)
(* the run: the candidate is not reachable, no undecided update names it, and *)
(* the one current gateway, which is the deleting one, neither holds it as an *)
(* upload nor publishes.                                                      *)
LEMMA DeleteInductive ==
    ASSUME Inductive, NEW g \in Gateways, NEW o \in Objects, Delete(g, o)
    PROVE  Inductive'
  <1> DEFINE Planned == [stage : {"commits", "objects", "renew", "delete"}, base : Heads,
                         reach : SUBSET Objects, orphans : SUBSET Objects]
  <1>1. /\ gc[g] \in Planned /\ gc[g].stage = "delete" /\ gc[g] # NoRun /\ o \in gc[g].orphans
        /\ g \in live /\ gc[g].base = head /\ \A r \in adrift : o \notin Named(r)
    BY DEF Inductive, TypeOK, Delete, MayMutate, Skipped, TooYoung, NoRun
  <1>2. Running(g) /\ epoch[g] = owner /\ pub[g] = NoPub
    BY <1>1 DEF Inductive, EpochsOK, RunOK
  <1>3. o \in used /\ o \notin Reachable(head) /\ o \notin uploads[g]
    BY <1>1 DEF Inductive, RunOK
  <1>4. /\ doomed' = doomed \cup {o}
        /\ UNCHANGED <<epoch, owner, live, head, store, used, sequence, claims, uploads, pub, adrift, faults>>
    BY DEF Delete, lease, names
  <1>5. gc'[g] = [gc[g] EXCEPT !.orphans = gc[g].orphans \ {o}] /\ gc' = [gc EXCEPT ![g] = gc'[g]]
    BY <1>1 DEF Inductive, TypeOK, Delete
  <1>6. /\ gc'[g] \in Planned /\ gc'[g].base = gc[g].base /\ gc'[g].reach = gc[g].reach
        /\ gc'[g].stage = "delete" /\ gc'[g].orphans \subseteq gc[g].orphans
    BY <1>1, <1>5
  <1>7. TypeOK'
    BY <1>3, <1>4, <1>5, <1>6 DEF Inductive, TypeOK
  <1>8. EpochsOK'
    BY <1>4 DEF Inductive, EpochsOK, Running
  <1>9. ASSUME NEW h \in Gateways PROVE uploads'[h] \subseteq claims'[h] /\ RunOK(h)' /\ CurrentOK(h)'
    <2>1. RunOK(h)'
      <3>1. CASE h = g
        BY <1>1, <1>2, <1>4, <1>6, <3>1 DEF Inductive, RunOK, Reachable
      <3>2. CASE h # g
        BY <1>4, <1>5, <3>2 DEF Inductive, TypeOK, RunOK, Reachable
      <3> QED
        BY <3>1, <3>2
    <2>2. Running(h) /\ epoch[h] = owner => h = g
      BY <1>2 DEF Inductive, EpochsOK
    <2>3. CurrentOK(h)'
      BY <1>2, <1>3, <1>4, <2>2 DEF Inductive, CurrentOK, Running, Safe, Named, Reachable
    <2> QED
      BY <1>4, <2>1, <2>3 DEF Inductive
  <1>10. Safe(Reachable(head))' /\ \A r \in adrift' : r.epoch = owner' => Safe(Named(r))'
    BY <1>1, <1>3, <1>4 DEF Inductive, Safe, Named, Reachable
  <1> QED
    BY <1>7, <1>8, <1>9, <1>10 DEF Inductive

(* The store carries a deletion out or refuses it: no doomed object is safe.  *)
LEMMA DoomedInductive ==
    ASSUME Inductive, NEW o \in doomed, Deleted(o) \/ NotDeleted(o)
    PROVE  Inductive'
  <1>1. /\ UNCHANGED <<epoch, owner, live, head, used, sequence, claims, uploads, pub, adrift, gc>>
        /\ doomed' = doomed \ {o} /\ store \ {o} \subseteq store' /\ store' \subseteq store
        /\ faults' \in Nat
    BY DEF Inductive, TypeOK, Deleted, NotDeleted, Fault, lease, names
  <1>2. TypeOK' /\ EpochsOK'
    BY <1>1 DEF Inductive, TypeOK, EpochsOK, Running
  <1>3. ASSUME NEW h \in Gateways PROVE uploads'[h] \subseteq claims'[h] /\ RunOK(h)' /\ CurrentOK(h)'
    BY <1>1 DEF Inductive, RunOK, CurrentOK, Running, Safe, Named, Reachable
  <1> QED
    BY <1>1, <1>2, <1>3 DEF Inductive, Safe, Named, Reachable

(* Every step keeps the invariant.                                           *)
LEMMA InductiveNext == Inductive /\ [Next]_vars => Inductive'
  <1> SUFFICES ASSUME Inductive, [Next]_vars PROVE Inductive'
    OBVIOUS
  <1>1. CASE UNCHANGED vars
    BY <1>1 DEF Inductive, TypeOK, EpochsOK, Running, Safe, Named, Reachable, RunOK, CurrentOK, vars
  <1>2. ASSUME NEW g \in Gateways, Start(g) \/ LoseClaim(g) \/ RenewClaim(g) \/ Stop(g)
        PROVE  Inductive'
    BY <1>2, StartInductive, FenceInductive, StopInductive
  <1>3. ASSUME NEW g \in Gateways, Write(g) PROVE Inductive'
    BY <1>3, UploadInductive, AbandonInductive, PublishInductive, SendInductive, SettleInductive DEF Write
  <1>4. ASSUME NEW g \in Gateways, Maintain(g) PROVE Inductive'
    BY <1>4, PlanInductive, DeleteInductive DEF Maintain
  <1> QED
    BY <1>1, <1>2, <1>3, <1>4, AdriftInductive, DoomedInductive DEF Next

(* In every behaviour of full maintenance beside uploads, publications,       *)
(* crashes and takeovers the inductive invariant holds.                       *)
THEOREM CollectionInvariant == Spec => []Inductive
  BY InductiveInit, InductiveNext, PTL DEF Spec

(* Full maintenance never deletes what the head or a live recovery point      *)
(* needs, nor a payload its own gateway has uploaded for a commit to come.    *)
THEOREM CollectionSafe == Spec => [](NothingNeededDeleted /\ UploadsKept)
  <1>1. Inductive => NothingNeededDeleted /\ UploadsKept
    BY DEF Inductive, TypeOK, EpochsOK, CurrentOK, Safe, NothingNeededDeleted, UploadsKept
  <1> QED
    BY <1>1, CollectionInvariant, PTL
=============================================================================
