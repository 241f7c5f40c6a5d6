-------------------------- MODULE LeaseAnchorProofs --------------------------
(***************************************************************************)
(* Proofs about LeaseAnchor, for any number of writers, commits, Lease     *)
(* versions and abandoned requests.                                        *)
(***************************************************************************)
EXTENDS LeaseAnchor, TLAPS

USE DEF Commits, Genesis, CommitRecord, LeftOpen, Settling

\* The initial state satisfies the inductive invariant.
LEMMA InitInductive == Init => Inductive
<1>. SUFFICES ASSUME Init PROVE Inductive
  BY Zenon
<1>. USE BoundsAssumption, NamesAssumption DEF Init
<1>1. TypeOK
  BY DEF TypeOK
<1>2. UnderWay = {}
  BY Zenon DEF UnderWay
<1>3. RequestsOK /\ AdvancesOK
  BY Zenon, <1>2 DEF RequestsOK, AdvancesOK
<1>4. CommitsOK
  BY DEF CommitsOK
<1>5. AnchorOK
  BY DEF AnchorOK
<1>6. WritersOK
  BY DEF WritersOK, EpochOK, PublishingOK, UndoubtedOK, HoldsClaim, Publishing
<1>7. QED
  BY Zenon, <1>1, <1>3, <1>4, <1>5, <1>6 DEF Inductive

\* What every request under way looks like.
LEMMA UnderWayType ==
  ASSUME TypeOK, NEW m \in UnderWay
  PROVE  m \in Requests /\ m # NoRequest /\ m.version \in Nat
BY DEF TypeOK, UnderWay, Requests

\* The API server keeps the types of what it changes.
LEMMA ServeType ==
  ASSUME TypeOK, NEW m \in Requests, Serve(m)
  PROVE  /\ lease' \in [rv : Nat, holder : Writers \union {Nobody}, token : Nat, anchor : Nat]
         /\ anchored' \subseteq Nat
<1>1. m.commit \in Nat /\ m.by \in Writers
  BY Zenon DEF Requests
<1>2. Replaced(m) \in [rv : Nat, holder : Writers \union {Nobody}, token : Nat, anchor : Nat]
  <2>1. lease.rv \in Nat /\ lease.holder \in Writers \union {Nobody} /\ lease.token \in Nat /\ lease.anchor \in Nat
    BY Zenon DEF TypeOK
  <2>2. (IF m.kind = "acquire" THEN m.by ELSE IF m.kind = "release" THEN Nobody ELSE lease.holder)
           \in Writers \union {Nobody}
    BY Zenon, <1>1, <2>1
  <2>3. (IF m.kind = "acquire" THEN lease.token + 1 ELSE lease.token) \in Nat
    BY <2>1
  <2>4. (IF m.kind = "advance" THEN m.commit ELSE lease.anchor) \in Nat
    BY Zenon, <1>1, <2>1
  <2>5. QED
    BY <2>1, <2>2, <2>3, <2>4 DEF Replaced
<1>3. QED
  BY Zenon, <1>1, <1>2 DEF Serve, TypeOK

\* A request that is applied makes every other request obsolete; one that is
\* refused changes nothing.
LEMMA ServeObsoletes ==
  ASSUME TypeOK, RequestsOK, NEW m \in UnderWay, Serve(m)
  PROVE  /\ Fresh(m) => \A n \in UnderWay : n.version < lease'.rv
         /\ ~Fresh(m) => lease' = lease /\ anchored' = anchored
  BY UnderWayType DEF TypeOK, RequestsOK, Serve, Replaced, Fresh

\* What serving a request does to the anchor and the owner of the Lease.
LEMMA ServeEffect ==
  ASSUME Inductive, NEW m \in UnderWay, Serve(m), Fresh(m)
  PROVE  /\ lease'.rv = lease.rv + 1
         /\ m.kind # "advance" => lease'.anchor = lease.anchor /\ anchored' = anchored
         /\ m.kind = "advance" => /\ lease'.anchor = m.commit /\ anchored' = anchored \union {m.commit}
                                  /\ m.commit > lease.anchor
         /\ m.kind # "acquire" => lease'.token = lease.token
         /\ m.kind = "acquire" => lease'.token = lease.token + 1 /\ lease'.holder = m.by
         /\ m.kind \notin {"acquire", "release"} => lease'.holder = lease.holder
         /\ m.kind = "release" => lease'.holder = Nobody
<1>1. m \in Requests /\ TypeOK /\ AdvancesOK /\ CommitsOK
  BY Zenon, UnderWayType DEF Inductive
<1>2. m.kind = "advance" => m.commit > lease.anchor
  BY Zenon, <1>1 DEF AdvancesOK, CommitsOK, TypeOK
<1>3. QED
  BY Zenon, <1>1, <1>2 DEF Serve, Replaced, TypeOK, Requests

\* Serving a request never makes an old claim the current one.
LEMMA ServeOwner ==
  ASSUME Inductive, NEW m \in UnderWay, Serve(m), NEW w \in Writers
  PROVE  /\ lease.token <= lease'.token
         /\ claim[w] <= lease'.token
         /\ lease'.holder = w => lease'.token > 0
         /\ lease'.holder = w /\ lease'.token = claim[w] => HoldsClaim(w)
<1>1. /\ lease.token \in Nat /\ claim[w] \in Nat /\ claim[w] <= lease.token
      /\ lease.holder = w => lease.token > 0
      /\ w # Nobody
  BY Zenon, NamesAssumption DEF Inductive, TypeOK, WritersOK, EpochOK
<1>2. CASE ~Fresh(m)
  BY <1>1, <1>2 DEF Serve, HoldsClaim
<1>3. CASE Fresh(m) /\ m.kind = "acquire"
  <2>1. lease'.token = lease.token + 1
    BY Zenon, <1>3, ServeEffect
  <2>2. QED
    BY <1>1, <2>1
<1>4. CASE Fresh(m) /\ m.kind # "acquire"
  <2>1. lease'.token = lease.token /\ (lease'.holder = lease.holder \/ lease'.holder = Nobody)
    BY Zenon, <1>4, ServeEffect
  <2>2. QED
    BY <1>1, <2>1 DEF HoldsClaim
<1>5. QED
  BY Zenon, <1>2, <1>3, <1>4

\* Obsolete requests satisfy the invariant about updates.
LEMMA ObsoleteAdvances ==
  ASSUME Inductive, UnderWay' \subseteq UnderWay, nextCommit' = nextCommit, TypeOK',
         \A n \in UnderWay : n.version < lease'.rv
  PROVE  AdvancesOK' /\ \A n \in UnderWay' : n.version <= lease'.rv
<1>1. \A n \in UnderWay : n.version \in Nat
  BY Zenon, UnderWayType DEF Inductive
<1>2. \A n \in UnderWay' : n.version <= lease'.rv
  BY <1>1 DEF TypeOK
<1>3. ASSUME NEW n \in UnderWay', n.kind = "advance"
      PROVE  n.commit \in Commits /\ n.commit < nextCommit' /\ ~Fresh(n)'
  <2>1. n \in UnderWay
    BY Zenon
  <2>2. n.commit \in Commits /\ n.commit < nextCommit
    BY Zenon, <1>3, <2>1 DEF Inductive, AdvancesOK
  <2>3. n.version # lease'.rv
    BY <1>1, <2>1 DEF TypeOK
  <2>4. QED
    BY Zenon, <2>2, <2>3 DEF Fresh
<1>4. QED
  BY Zenon, <1>2, <1>3 DEF AdvancesOK

\* Serving a request keeps the anchor and the outcomes consistent.
LEMMA ServeAnchor ==
  ASSUME Inductive, NEW m \in UnderWay, Serve(m), nextCommit' = nextCommit
  PROVE  AnchorOK' /\ (commits' = commits => CommitsOK')
<1>. USE DEF Inductive
<1>1. m \in Requests
  BY Zenon, UnderWayType
<1>2. m.kind = "advance" /\ Fresh(m) =>
        m.commit \in Commits /\ m.commit < nextCommit /\ commits[m.commit].outcome # "failed"
  BY Zenon DEF AdvancesOK
<1>3. CASE Fresh(m) /\ m.kind = "advance"
  <2>1. m.commit \in Nat /\ m.commit > lease.anchor /\ anchored' = anchored \union {m.commit}
            /\ lease'.anchor = m.commit
    BY Zenon, <1>1, <1>3, ServeEffect DEF Requests
  <2>2. \A c \in anchored : c \in Nat /\ c <= lease.anchor /\ c < nextCommit
    BY Zenon DEF AnchorOK, TypeOK
  <2>3. AnchorOK'
    BY <1>2, <1>3, <2>1, <2>2 DEF AnchorOK, TypeOK
  <2>4. commits' = commits => CommitsOK'
    BY Zenon, <1>2, <1>3, <2>1 DEF CommitsOK, TypeOK
  <2>5. QED
    BY Zenon, <2>3, <2>4
<1>4. CASE ~(Fresh(m) /\ m.kind = "advance")
  <2>1. lease'.anchor = lease.anchor /\ anchored' = anchored
    BY Zenon, <1>4, ServeEffect DEF Serve
  <2>2. QED
    BY Zenon, <2>1 DEF AnchorOK, CommitsOK
<1>5. QED
  BY Zenon, <1>3, <1>4

\* A request that is served leaves only obsolete requests, or everything as it was.
LEMMA ServeRequests ==
  ASSUME Inductive, NEW m \in UnderWay, Serve(m), UnderWay' \subseteq UnderWay,
         nextCommit' = nextCommit, TypeOK'
  PROVE  /\ \A n \in UnderWay' : n.version <= lease'.rv
         /\ Fresh(m) => AdvancesOK'
<1>1. CASE Fresh(m)
  BY Zenon, <1>1, ServeObsoletes, ObsoleteAdvances DEF Inductive
<1>2. CASE ~Fresh(m)
  BY Zenon, <1>2 DEF Serve, Inductive, RequestsOK
<1>3. QED
  BY Zenon, <1>1, <1>2

\* What a writer knows stays in step with the anchor while neither changes and
\* no unresolved commit is decided.
LEMMA FollowsKept ==
  ASSUME NEW v \in Writers, FollowsAnchor(v), lease'.anchor = lease.anchor,
         known'[v] = known[v], claim'[v] = claim[v], current'[v] = current[v],
         pc[v] = "fence" => pc'[v] = "fence",
         \A c \in Commits : LeftOpen(c) => commits'[c] = commits[c]
  PROVE  FollowsAnchor(v)'
<1>1. CASE known[v] = lease.anchor
  BY Zenon, <1>1 DEF FollowsAnchor
<1>2. CASE Overtaken(v)
  BY Zenon, <1>2 DEF FollowsAnchor, Overtaken
<1>3. CASE pc[v] = "fence" /\ lease.anchor = current[v]
  BY Zenon, <1>3 DEF FollowsAnchor
<1>4. QED
  BY Zenon, <1>1, <1>2, <1>3 DEF FollowsAnchor

\* A late delivery preserves the invariant.
LEMMA DeliverInductive ==
  ASSUME Inductive, NEW m \in adrift, Deliver(m)
  PROVE  Inductive'
<1>. USE DEF Inductive
<1>1. m \in UnderWay /\ m \in Requests /\ m # NoRequest
  BY Zenon, NamesAssumption DEF UnderWay, TypeOK
<1>2. UnderWay' \subseteq UnderWay
  BY Zenon DEF UnderWay, Deliver
<1>3. Serve(m) /\ UNCHANGED <<claim, active, known, pc, current, commits, nextCommit, guardReq, anchorReq>>
  BY Zenon DEF Deliver, localVars
<1>4. TypeOK'
  BY Zenon, <1>1, <1>3, ServeType DEF TypeOK, Deliver
<1>5. \A n \in UnderWay' : n.version <= lease'.rv
  BY Zenon, <1>1, <1>2, <1>3, <1>4, ServeRequests
<1>6. RequestsOK'
  BY Zenon, <1>3, <1>5 DEF RequestsOK
<1>7. AdvancesOK'
  <2>1. CASE Fresh(m)
    BY Zenon, <1>1, <1>2, <1>3, <1>4, <2>1, ServeRequests
  <2>2. CASE ~Fresh(m)
    BY Zenon, <1>2, <1>3, <2>2 DEF Serve, AdvancesOK, Fresh, HoldsClaim
  <2>3. QED
    BY Zenon, <2>1, <2>2
<1>8. CommitsOK' /\ AnchorOK'
  BY Zenon, <1>1, <1>3, ServeAnchor
<1>9. ASSUME NEW w \in Writers
      PROVE  EpochOK(w)' /\ PublishingOK(w)' /\ UndoubtedOK(w)'
  <2>1. EpochOK(w) /\ PublishingOK(w) /\ UndoubtedOK(w)
    BY Zenon DEF WritersOK
  <2>2. ASSUME pc[w] \notin {"down", "stopped"}, HoldsClaim(w)' PROVE FollowsAnchor(w)'
    <3>1. HoldsClaim(w)
      BY Zenon, <1>1, <1>3, <2>2, ServeOwner DEF HoldsClaim
    <3>2. CASE ~(Fresh(m) /\ m.kind = "advance")
      <4>1. lease'.anchor = lease.anchor
        BY Zenon, <1>1, <1>3, <3>2, ServeEffect DEF Serve
      <4>2. FollowsAnchor(w)
        BY Zenon, <2>1, <2>2, <3>1 DEF EpochOK
      <4>3. QED
        BY Zenon, <1>3, <4>1, <4>2, FollowsKept
    <3>3. CASE Fresh(m) /\ m.kind = "advance"
      <4>1. /\ m.commit \in Commits /\ commits[m.commit].parent = known[w]
            /\ commits[m.commit].token = claim[w]
            /\ Settling(w, m.commit) \/ LeftOpen(m.commit)
        BY Zenon, <1>1, <3>1, <3>3 DEF AdvancesOK, HoldsClaim
      <4>2. lease'.anchor = m.commit
        BY Zenon, <1>1, <1>3, <3>3, ServeEffect
      <4>3. pc[w] # "advance" \/ current[w] # m.commit
        BY Zenon, <2>1, <3>3 DEF UndoubtedOK
      <4>4. CASE LeftOpen(m.commit)
        BY Zenon, <1>3, <4>1, <4>2, <4>4 DEF FollowsAnchor, Overtaken
      <4>5. CASE Settling(w, m.commit)
        BY Zenon, <1>3, <2>2, <4>2, <4>3, <4>5 DEF FollowsAnchor
      <4>6. QED
        BY Zenon, <4>1, <4>4, <4>5
    <3>4. QED
      BY Zenon, <3>2, <3>3
  <2>3. EpochOK(w)'
    BY Zenon, <1>1, <1>3, <2>1, <2>2, ServeOwner DEF EpochOK
  <2>4. PublishingOK(w)'
    BY Zenon, <1>3, <2>1 DEF PublishingOK, Publishing
  <2>5. UndoubtedOK(w)'
    BY Zenon, <1>1, <1>3, <2>1 DEF UndoubtedOK, Deliver, Serve
  <2>6. QED
    BY Zenon, <2>3, <2>4, <2>5
<1>10. QED
  BY Zenon, <1>4, <1>6, <1>7, <1>8, <1>9 DEF WritersOK

\* A request of the guard preserves the invariant.
LEMMA GuardSendInductive ==
  ASSUME Inductive, NEW w \in Writers, NEW kind \in {"acquire", "renew", "release"},
         guardReq[w] = NoRequest, kind = "acquire" => claim[w] = 0, GuardSend(w, kind)
  PROVE  Inductive'
<1>. USE DEF Inductive
<1>. DEFINE m == Request(kind, w, 0)
<1>1. m \in Requests /\ m.kind = kind /\ m.by = w /\ m.version = lease.rv
  BY Zenon DEF Request, Requests, TypeOK
<1>2. /\ guardReq' = [guardReq EXCEPT ![w] = m]
      /\ UNCHANGED <<lease, commits, nextCommit, anchored, claim, active, known, pc, current,
                     anchorReq, adrift>>
  BY Zenon DEF GuardSend, localVars
<1>. HIDE DEF m
<1>3. TypeOK'
  BY Zenon, <1>1, <1>2 DEF TypeOK
<1>4. UnderWay' \subseteq UnderWay \union {m}
  BY <1>1, <1>2 DEF UnderWay, TypeOK
<1>5. RequestsOK'
  <2>1. \A n \in UnderWay' : n.version <= lease'.rv
    BY <1>1, <1>2, <1>4 DEF RequestsOK, TypeOK
  <2>2. ASSUME NEW v \in Writers, guardReq'[v] # NoRequest
        PROVE  /\ guardReq'[v].kind \in {"acquire", "renew", "release"} /\ guardReq'[v].by = v
               /\ guardReq'[v].kind = "acquire" => claim'[v] = 0
    BY <1>1, <1>2, <2>2 DEF RequestsOK, TypeOK
  <2>3. QED
    BY Zenon, <1>2, <2>1, <2>2 DEF RequestsOK
<1>6. AdvancesOK'
  BY Zenon, <1>1, <1>2, <1>4 DEF AdvancesOK, Fresh, HoldsClaim
<1>7. CommitsOK' /\ AnchorOK'
  BY Zenon, <1>2 DEF CommitsOK, AnchorOK
<1>8. WritersOK'
  BY <1>2 DEF WritersOK, EpochOK, FollowsAnchor, Overtaken, PublishingOK, UndoubtedOK, HoldsClaim,
     Publishing
<1>9. QED
  BY Zenon, <1>3, <1>5, <1>6, <1>7, <1>8

\* Requests under way stay acceptable when the Lease does not change and
\* nothing new is sent.
LEMMA QuietRequests ==
  ASSUME Inductive, UnderWay' \subseteq UnderWay, lease' = lease
  PROVE  \A n \in UnderWay' : n \in UnderWay /\ n.version <= lease'.rv
BY Zenon DEF Inductive, RequestsOK

\* acquire_at preserves the invariant.
LEMMA AcquireInductive ==
  ASSUME Inductive, NEW w \in Writers, Acquire(w)
  PROVE  Inductive'
BY Zenon, GuardSendInductive DEF Acquire

\* renew_at and release_at preserve the invariant.
LEMMA RenewOrReleaseInductive ==
  ASSUME Inductive, NEW w \in Writers, RenewOrRelease(w)
  PROVE  Inductive'
<1>1. CASE HoldsClaim(w)
  <2>1. PICK kind \in {"renew", "release"} : GuardSend(w, kind)
    BY Zenon, <1>1 DEF RenewOrRelease
  <2>2. QED
    BY Zenon, <2>1, GuardSendInductive DEF RenewOrRelease
<1>2. CASE ~HoldsClaim(w)
  <2>1. /\ active' = [active EXCEPT ![w] = FALSE]
        /\ UNCHANGED <<lease, commits, nextCommit, anchored, claim, known, pc, current, guardReq,
                       anchorReq, adrift>>
    BY Zenon, <1>2 DEF RenewOrRelease
  <2>2. TypeOK'
    BY Zenon, <2>1 DEF TypeOK, Inductive
  <2>3. UnderWay' = UnderWay
    BY Zenon, <2>1 DEF UnderWay
  <2>4. RequestsOK' /\ AdvancesOK'
    BY <2>1, <2>3 DEF Inductive, RequestsOK, AdvancesOK, Fresh, HoldsClaim
  <2>5. CommitsOK' /\ AnchorOK'
    BY Zenon, <2>1 DEF Inductive, CommitsOK, AnchorOK
  <2>6. WritersOK'
    BY <2>1 DEF Inductive, WritersOK, EpochOK, FollowsAnchor, Overtaken, PublishingOK, UndoubtedOK,
       HoldsClaim, Publishing
  <2>7. QED
    BY Zenon, <2>2, <2>4, <2>5, <2>6 DEF Inductive
<1>3. QED
  BY Zenon, <1>1, <1>2

\* An answer to the guard preserves the invariant.
LEMMA GuardAnsweredInductive ==
  ASSUME Inductive, NEW w \in Writers, GuardAnswered(w)
  PROVE  Inductive'
<1>. USE DEF Inductive
<1>. DEFINE m == guardReq[w]
<1>1. m \in UnderWay /\ m \in Requests /\ m # NoRequest
  BY Zenon DEF UnderWay, TypeOK, GuardAnswered
<1>2. /\ Serve(m)
      /\ guardReq' = [guardReq EXCEPT ![w] = NoRequest]
      /\ UNCHANGED <<commits, nextCommit, known, pc, current, anchorReq, adrift>>
  BY Zenon DEF GuardAnswered
<1>3. /\ claim' = IF Fresh(m) /\ m.kind = "acquire" THEN [claim EXCEPT ![w] = lease.token + 1] ELSE claim
      /\ active' = IF Fresh(m) THEN [active EXCEPT ![w] = m.kind # "release"] ELSE active
  BY Zenon DEF GuardAnswered
<1>4. m.kind \in {"acquire", "renew", "release"} /\ (m.kind = "acquire" => claim[w] = 0)
  BY Zenon, <1>1 DEF RequestsOK
<1>. HIDE DEF m
<1>5. TypeOK'
  <2>1. claim' \in [Writers -> Nat] /\ active' \in [Writers -> BOOLEAN]
    BY <1>3 DEF TypeOK
  <2>2. QED
    BY Zenon, <1>1, <1>2, <2>1, ServeType DEF TypeOK
<1>6. UnderWay' \subseteq UnderWay
  BY Zenon, <1>2 DEF UnderWay, TypeOK
<1>7. \A n \in UnderWay' : n.version <= lease'.rv
  BY Zenon, <1>1, <1>2, <1>5, <1>6, ServeRequests
<1>8. \A v \in Writers : v # w => claim'[v] = claim[v]
  BY Zenon, <1>3 DEF TypeOK
<1>9. RequestsOK'
  BY <1>2, <1>7, <1>8 DEF RequestsOK, TypeOK
<1>10. AdvancesOK'
  <2>1. CASE Fresh(m)
    BY Zenon, <1>1, <1>2, <1>5, <1>6, <2>1, ServeRequests
  <2>2. CASE ~Fresh(m)
    BY Zenon, <1>2, <1>3, <1>6, <2>2 DEF Serve, AdvancesOK, Fresh, HoldsClaim
  <2>3. QED
    BY Zenon, <2>1, <2>2
<1>11. CommitsOK' /\ AnchorOK'
  BY Zenon, <1>1, <1>2, ServeAnchor
<1>12. lease'.anchor = lease.anchor /\ anchored' = anchored
  BY Zenon, <1>1, <1>2, <1>4, ServeEffect DEF Serve
<1>13. ASSUME NEW v \in Writers
       PROVE  EpochOK(v)' /\ PublishingOK(v)' /\ UndoubtedOK(v)'
  <2>1. EpochOK(v) /\ PublishingOK(v) /\ UndoubtedOK(v)
    BY Zenon DEF WritersOK
  <2>2. CASE claim'[v] = claim[v]
    <3>1. EpochOK(v)'
      <4>1. HoldsClaim(v)' => HoldsClaim(v)
        BY Zenon, <1>1, <1>2, <2>2, ServeOwner DEF HoldsClaim
      <4>2. FollowsAnchor(v) => FollowsAnchor(v)'
        BY Zenon, <1>2, <1>12, <2>2, FollowsKept
      <4>3. QED
        BY Zenon, <1>1, <1>2, <2>1, <2>2, <4>1, <4>2, ServeOwner DEF EpochOK
    <3>2. PublishingOK(v)'
      BY Zenon, <1>2, <2>1, <2>2 DEF PublishingOK, Publishing
    <3>3. UndoubtedOK(v)'
      BY Zenon, <1>2, <1>12, <2>1 DEF UndoubtedOK
    <3>4. QED
      BY Zenon, <3>1, <3>2, <3>3
  <2>3. CASE claim'[v] # claim[v]
    <3>1. v = w /\ Fresh(m) /\ m.kind = "acquire" /\ claim'[v] = lease.token + 1
      BY Zenon, <1>3, <1>8, <2>3 DEF TypeOK
    <3>2. pc'[v] = "down"
      BY Zenon, <1>2, <1>4, <2>1, <3>1 DEF EpochOK
    <3>3. lease'.token = lease.token + 1 /\ lease.token \in Nat
      BY Zenon, <1>1, <1>2, <3>1, ServeEffect DEF TypeOK
    <3>4. QED
      BY <1>2, <2>1, <3>1, <3>2, <3>3 DEF EpochOK, PublishingOK, UndoubtedOK, Publishing
  <2>4. QED
    BY Zenon, <2>2, <2>3
<1>14. QED
  BY Zenon, <1>5, <1>9, <1>10, <1>11, <1>13 DEF WritersOK

\* A guard that stops waiting preserves the invariant.
LEMMA GuardUnansweredInductive ==
  ASSUME Inductive, NEW w \in Writers, GuardUnanswered(w)
  PROVE  Inductive'
<1>. USE DEF Inductive
<1>1. /\ guardReq[w] # NoRequest /\ adrift' = adrift \union {guardReq[w]}
      /\ guardReq' = [guardReq EXCEPT ![w] = NoRequest]
      /\ UNCHANGED <<lease, commits, nextCommit, anchored, claim, active, known, pc, current, anchorReq>>
  BY Zenon DEF GuardUnanswered, Abandon, localVars
<1>2. TypeOK'
  BY Zenon, <1>1 DEF TypeOK
<1>3. UnderWay' \subseteq UnderWay
  BY <1>1 DEF UnderWay, TypeOK
<1>4. RequestsOK'
  BY <1>1, <1>3, QuietRequests DEF RequestsOK, TypeOK
<1>5. AdvancesOK'
  BY Zenon, <1>1, <1>3 DEF AdvancesOK, Fresh, HoldsClaim
<1>6. CommitsOK' /\ AnchorOK'
  BY Zenon, <1>1 DEF CommitsOK, AnchorOK
<1>7. guardReq[w].kind # "advance"
  BY Zenon, <1>1 DEF RequestsOK
<1>8. WritersOK'
  BY <1>1, <1>7 DEF WritersOK, EpochOK, FollowsAnchor, Overtaken, PublishingOK, UndoubtedOK, HoldsClaim,
     Publishing
<1>9. QED
  BY Zenon, <1>2, <1>4, <1>5, <1>6, <1>8

\* Loading the chain preserves the invariant.
LEMMA LoadInductive ==
  ASSUME Inductive, NEW w \in Writers, Load(w)
  PROVE  Inductive'
<1>. USE DEF Inductive
<1>1. /\ pc[w] = "down" /\ claim[w] # 0
      /\ known' = [known EXCEPT ![w] = lease.anchor] /\ pc' = [pc EXCEPT ![w] = "idle"]
      /\ UNCHANGED <<lease, commits, nextCommit, anchored, claim, active, current, guardReq,
                     anchorReq, adrift>>
  BY Zenon DEF Load, Set
<1>2. TypeOK'
  BY Zenon, <1>1 DEF TypeOK
<1>3. UnderWay' = UnderWay
  BY Zenon, <1>1 DEF UnderWay
<1>4. RequestsOK'
  <2>1. anchorReq[w] = NoRequest
    BY Zenon, <1>1 DEF RequestsOK
  <2>2. QED
    BY <1>1, <1>3, <2>1 DEF RequestsOK, TypeOK
<1>5. AdvancesOK'
  <2>1. \A v \in Writers : v # w => pc'[v] = pc[v]
    BY Zenon, <1>1 DEF TypeOK
  <2>2. \A n \in UnderWay : n.kind = "advance" /\ Fresh(n) /\ HoldsClaim(w) => LeftOpen(n.commit)
    BY Zenon, <1>1 DEF AdvancesOK
  <2>3. known'[w] = lease.anchor /\ \A v \in Writers : v # w => known'[v] = known[v]
    BY Zenon, <1>1 DEF TypeOK
  <2>4. QED
    BY <1>1, <1>3, <2>1, <2>2, <2>3 DEF AdvancesOK, Fresh, HoldsClaim
<1>6. CommitsOK' /\ AnchorOK'
  BY Zenon, <1>1 DEF CommitsOK, AnchorOK
<1>7. lease.anchor < nextCommit
  BY Zenon DEF AnchorOK
<1>8. ASSUME NEW v \in Writers
      PROVE  EpochOK(v)' /\ PublishingOK(v)' /\ UndoubtedOK(v)'
  BY <1>1, <1>7 DEF WritersOK, EpochOK, FollowsAnchor, Overtaken, PublishingOK, UndoubtedOK, HoldsClaim,
     Publishing, TypeOK
<1>9. QED
  BY Zenon, <1>2, <1>4, <1>5, <1>6, <1>8 DEF WritersOK

\* Uploading a child of the accepted anchor preserves the invariant.
LEMMA UploadInductive ==
  ASSUME Inductive, NEW w \in Writers, Upload(w)
  PROVE  Inductive'
<1>. USE BoundsAssumption DEF Inductive
<1>. PICK kind \in {"delta", "root"} :
       commits' = [commits EXCEPT ![nextCommit] =
                       [parent |-> known[w], token |-> claim[w], kind |-> kind, outcome |-> "pending"]]
  BY Zenon DEF Upload
<1>. DEFINE r == [parent |-> known[w], token |-> claim[w], kind |-> kind, outcome |-> "pending"]
<1>1. /\ pc[w] = "idle" /\ nextCommit \in Commits
      /\ commits' = [commits EXCEPT ![nextCommit] = r]
      /\ current' = [current EXCEPT ![w] = nextCommit]
      /\ nextCommit' = nextCommit + 1 /\ pc' = [pc EXCEPT ![w] = "check"]
      /\ UNCHANGED <<lease, anchored, claim, active, known, guardReq, anchorReq, adrift>>
  BY Zenon DEF Upload, Set
<1>2. r \in CommitRecord
  BY Zenon DEF TypeOK
<1>3. TypeOK'
  <2>1. /\ nextCommit' \in Nat \ {0} /\ current' \in [Writers -> Nat]
        /\ pc' \in [Writers -> {"down", "idle", "check", "advance", "fence", "stopped"}]
    BY SMTT(60), <1>1 DEF TypeOK
  <2>2. commits' \in [Commits -> CommitRecord]
    BY Zenon, <1>1, <1>2 DEF TypeOK
  <2>3. QED
    BY Zenon, <1>1, <2>1, <2>2 DEF TypeOK
<1>4. UnderWay' = UnderWay
  BY Zenon, <1>1 DEF UnderWay
<1>5. anchorReq[w] = NoRequest
  BY Zenon, <1>1 DEF RequestsOK
<1>6. RequestsOK'
  <2>1. \A v \in Writers : v # w => pc'[v] = pc[v] /\ current'[v] = current[v]
    BY Zenon, <1>1 DEF TypeOK
  <2>2. UNCHANGED <<lease, claim, guardReq, anchorReq>>
    BY Zenon, <1>1
  <2>3. QED
    BY ZenonT(60), <1>4, <1>5, <2>1, <2>2 DEF RequestsOK
<1>7. \A c \in Commits : c # nextCommit => commits'[c] = commits[c]
  BY Zenon, <1>1 DEF TypeOK
<1>8. \A v \in Writers : v # w => pc'[v] = pc[v] /\ current'[v] = current[v]
  BY Zenon, <1>1 DEF TypeOK
<1>9. AdvancesOK'
  <2>1. \A n \in UnderWay : n.kind = "advance" /\ Fresh(n) /\ HoldsClaim(w) => LeftOpen(n.commit)
    BY Zenon, <1>1 DEF AdvancesOK
  <2>2. ASSUME NEW n \in UnderWay, n.kind = "advance"
        PROVE  n.commit \in Commits /\ n.commit < nextCommit' /\ commits'[n.commit] = commits[n.commit]
    <3>1. n.commit \in Commits /\ n.commit < nextCommit
      BY Zenon, <2>2 DEF AdvancesOK
    <3>2. nextCommit \in Nat /\ n.commit \in Nat /\ nextCommit' = nextCommit + 1
      BY SMTT(60), <1>1, <3>1 DEF TypeOK, Commits
    <3>3. n.commit < nextCommit' /\ n.commit # nextCommit
      BY <3>1, <3>2
    <3>4. QED
      BY Zenon, <1>7, <3>1, <3>3
  <2>3. QED
    BY <1>1, <1>4, <1>8, <2>1, <2>2 DEF AdvancesOK, Fresh, HoldsClaim
<1>10. known[w] < nextCommit /\ known[w] \in Nat /\ nextCommit \in Nat
  BY Zenon DEF WritersOK, EpochOK, TypeOK
<1>11. commits'[nextCommit] = r
  BY Zenon, <1>1 DEF TypeOK
<1>12. nextCommit \notin anchored
  BY <1>10 DEF AnchorOK
<1>13. CommitsOK'
  BY <1>1, <1>7, <1>10, <1>11, <1>12 DEF CommitsOK
<1>14. AnchorOK'
  BY <1>1, <1>10 DEF AnchorOK, TypeOK
<1>15. ASSUME NEW v \in Writers
       PROVE  EpochOK(v)' /\ PublishingOK(v)' /\ UndoubtedOK(v)'
  <2>1. EpochOK(v) /\ PublishingOK(v) /\ UndoubtedOK(v) /\ EpochOK(w)
    BY Zenon DEF WritersOK
  <2>2. EpochOK(v)'
    <3>1. \A c \in Commits : LeftOpen(c) => commits'[c] = commits[c]
      BY <1>7, <1>10 DEF CommitsOK
    <3>2. pc[v] \notin {"down", "stopped"} /\ FollowsAnchor(v) => FollowsAnchor(v)'
      <4>1. CASE v = w
        BY Zenon, <1>1, <3>1, <4>1 DEF FollowsAnchor, Overtaken
      <4>2. CASE v # w
        BY Zenon, <1>1, <1>8, <3>1, <4>2, FollowsKept
      <4>3. QED
        BY Zenon, <4>1, <4>2
    <3>3. pc'[v] \in {"down", "stopped"} <=> pc[v] \in {"down", "stopped"}
      BY Zenon, <1>1, <1>8 DEF TypeOK
    <3>4. QED
      BY SMTT(60), <1>1, <1>8, <1>10, <2>1, <3>2, <3>3 DEF EpochOK, HoldsClaim, TypeOK
  <2>3. \A u \in Writers : u # w /\ Publishing(u) => current[u] \in Commits /\ current[u] < nextCommit
    BY Zenon DEF WritersOK, PublishingOK
  <2>4. current'[w] = nextCommit /\ pc'[w] = "check"
    BY Zenon, <1>1 DEF TypeOK
  <2>5. PublishingOK(v)'
    <3>1. CASE v = w
      BY <1>1, <1>8, <1>10, <1>11, <2>3, <2>4, <3>1 DEF PublishingOK, Publishing
    <3>2. CASE v # w
      BY <1>1, <1>7, <1>8, <1>10, <2>1, <2>3, <2>4, <3>2 DEF PublishingOK, Publishing
    <3>3. QED
      BY Zenon, <3>1, <3>2
  <2>6. \A n \in adrift : n \in UnderWay
    BY Zenon, NamesAssumption DEF UnderWay, TypeOK
  <2>7. \A n \in adrift : n.kind = "advance" => n.commit # nextCommit
    BY <1>10, <2>6 DEF AdvancesOK
  <2>8. UndoubtedOK(v)'
    BY <1>1, <1>5, <1>8, <1>12, <2>1, <2>4, <2>7 DEF UndoubtedOK
  <2>9. QED
    BY Zenon, <2>2, <2>5, <2>8
<1>16. QED
  BY Zenon, <1>3, <1>6, <1>9, <1>13, <1>14, <1>15 DEF WritersOK

\* Deciding a commit changes its outcome and nothing else.
LEMMA OutcomeEffect ==
  ASSUME TypeOK, NEW c \in Commits, NEW o \in {"accepted", "failed", "unknown"},
         commits' = [commits EXCEPT ![c].outcome = o]
  PROVE  /\ commits' \in [Commits -> CommitRecord]
         /\ commits'[c].outcome = o
         /\ \A d \in Commits : /\ commits'[d].parent = commits[d].parent
                               /\ commits'[d].token = commits[d].token
                               /\ commits'[d].kind = commits[d].kind
                               /\ d # c => commits'[d] = commits[d]
<1>1. commits[c] \in CommitRecord
  BY Zenon DEF TypeOK
<1>2. commits' = [commits EXCEPT ![c] = [commits[c] EXCEPT !.outcome = o]]
  BY Zenon
<1>3. [commits[c] EXCEPT !.outcome = o] \in
        CommitRecord
  BY Zenon, <1>1
<1>4. QED
  BY SMTT(60), <1>1, <1>2, <1>3 DEF TypeOK

\* A request for the commit that `w` publishes is its own, or adrift.
LEMMA OwnAdvance ==
  ASSUME Inductive, NEW w \in Writers, Publishing(w),
         NEW n \in UnderWay, n.kind = "advance", n.commit = current[w]
  PROVE  n \in adrift \/ n = anchorReq[w]
<1>. USE DEF Inductive
<1>1. \A v \in Writers : guardReq[v] # NoRequest => guardReq[v].kind # "advance"
  BY Zenon DEF RequestsOK
<1>2. \A v \in Writers : anchorReq[v] # NoRequest /\ anchorReq[v].kind = "advance" =>
        Publishing(v) /\ anchorReq[v].commit = current[v]
  BY Zenon DEF RequestsOK, Publishing
<1>3. \A v \in Writers : Publishing(v) /\ current[v] = current[w] => v = w
  BY Zenon DEF WritersOK, PublishingOK
<1>4. QED
  BY Zenon, <1>1, <1>2, <1>3 DEF UnderWay

\* The read before the update preserves the invariant.
LEMMA CheckInductive ==
  ASSUME Inductive, NEW w \in Writers, Check(w)
  PROVE  Inductive'
<1>. USE DEF Inductive
<1>1. /\ pc[w] = "check" /\ Publishing(w)
      /\ UNCHANGED <<lease, nextCommit, anchored, claim, active, known, current, guardReq,
                     anchorReq, adrift>>
  BY Zenon DEF Check, Publishing
<1>2. EpochOK(w) /\ PublishingOK(w) /\ UndoubtedOK(w)
  BY Zenon DEF WritersOK
<1>3. anchorReq[w] = NoRequest /\ current[w] \in Commits
  BY Zenon, <1>1, <1>2 DEF UndoubtedOK, PublishingOK
<1>4. UnderWay' = UnderWay
  BY Zenon, <1>1 DEF UnderWay
<1>5. \A n \in UnderWay : n.kind = "advance" => n.commit # current[w]
  <2>1. \A n \in UnderWay : n # NoRequest
    BY Zenon DEF UnderWay
  <2>2. QED
    BY Zenon, <1>1, <1>2, <1>3, <2>1, OwnAdvance DEF UndoubtedOK
<1>6. CASE lease.anchor = commits[current[w]].parent
  <2>1. pc' = [pc EXCEPT ![w] = "advance"] /\ commits' = commits
    BY Zenon, <1>6 DEF Check, Set
  <2>2. TypeOK'
    BY Zenon, <1>1, <2>1 DEF TypeOK
  <2>3. (\A v \in Writers : v # w => pc'[v] = pc[v]) /\ pc'[w] = "advance"
    BY Zenon, <2>1 DEF TypeOK
  <2>4. RequestsOK'
    BY ZenonT(60), <1>1, <1>3, <1>4, <2>3 DEF RequestsOK
  <2>5. \A n \in UnderWay : n.kind = "advance" /\ Fresh(n) /\ HoldsClaim(w) => LeftOpen(n.commit)
    BY Zenon, <1>1 DEF AdvancesOK
  <2>6. AdvancesOK'
    BY ZenonT(60), <1>1, <1>4, <2>1, <2>3, <2>5 DEF AdvancesOK, Fresh, HoldsClaim
  <2>7. CommitsOK' /\ AnchorOK'
    BY Zenon, <1>1, <2>1 DEF CommitsOK, AnchorOK
  <2>8. ASSUME NEW v \in Writers
        PROVE  EpochOK(v)' /\ PublishingOK(v)' /\ UndoubtedOK(v)'
    <3>1. EpochOK(v) /\ PublishingOK(v) /\ UndoubtedOK(v)
      BY Zenon DEF WritersOK
    <3>2. \A u \in Writers : Publishing(u)' <=> Publishing(u)
      BY Zenon, <1>1, <2>3 DEF Publishing
    <3>3. EpochOK(v)'
      <4>1. FollowsAnchor(v) => FollowsAnchor(v)'
        BY Zenon, <1>1, <2>1, <2>3, FollowsKept
      <4>2. QED
        BY Zenon, <1>1, <2>3, <3>1, <4>1 DEF EpochOK, HoldsClaim
    <3>4. PublishingOK(v)'
      BY Zenon, <1>1, <2>1, <3>1, <3>2 DEF PublishingOK
    <3>5. UndoubtedOK(v)'
      BY Zenon, <1>1, <2>3, <3>1 DEF UndoubtedOK
    <3>6. QED
      BY Zenon, <3>3, <3>4, <3>5
  <2>9. QED
    BY Zenon, <2>2, <2>4, <2>6, <2>7, <2>8 DEF WritersOK
<1>7. CASE lease.anchor # commits[current[w]].parent
  <2>1. pc' = [pc EXCEPT ![w] = "idle"] /\ commits' = [commits EXCEPT ![current[w]].outcome = "failed"]
    BY Zenon, <1>7 DEF Check, Set, Outcome
  <2>2. (\A v \in Writers : v # w => pc'[v] = pc[v]) /\ pc'[w] = "idle"
    BY Zenon, <2>1 DEF TypeOK
  <2>3. TypeOK'
    BY Zenon, <1>1, <1>3, <2>1, OutcomeEffect DEF TypeOK
  <2>4. RequestsOK'
    BY <1>1, <1>3, <1>4, <2>2 DEF RequestsOK
  <2>5. \A d \in Commits : /\ commits'[d].parent = commits[d].parent
                           /\ commits'[d].token = commits[d].token
                           /\ commits'[d].kind = commits[d].kind
                           /\ d # current[w] => commits'[d] = commits[d]
    BY Zenon, <1>3, <2>1, OutcomeEffect
  <2>6. \A n \in UnderWay : n.kind = "advance" /\ Fresh(n) /\ HoldsClaim(w) => LeftOpen(n.commit)
    BY Zenon, <1>1 DEF AdvancesOK
  <2>7. AdvancesOK'
    <3>1. ASSUME NEW n \in UnderWay, n.kind = "advance"
          PROVE  n.commit \in Commits /\ n.commit < nextCommit /\ commits'[n.commit] = commits[n.commit]
      BY Zenon, <1>5, <2>5, <3>1 DEF AdvancesOK
    <3>2. ASSUME NEW n \in UnderWay, n.kind = "advance", Fresh(n), NEW v \in Writers, HoldsClaim(v)
          PROVE  known[v] = lease.anchor /\ (Settling(v, n.commit)' \/ LeftOpen(n.commit)')
      <4>1. known[v] = lease.anchor /\ (Settling(v, n.commit) \/ LeftOpen(n.commit))
        BY Zenon, <3>2 DEF AdvancesOK
      <4>2. LeftOpen(n.commit) => LeftOpen(n.commit)'
        BY Zenon, <3>1, <3>2 DEF LeftOpen
      <4>3. v # w => Settling(v, n.commit)' = Settling(v, n.commit)
        BY Zenon, <1>1, <2>2 DEF Settling
      <4>4. QED
        BY Zenon, <2>6, <3>2, <4>1, <4>2, <4>3
    <3>3. QED
      BY ZenonT(60), <1>1, <1>4, <3>1, <3>2 DEF AdvancesOK, Fresh, HoldsClaim
  <2>8. commits'[current[w]].outcome = "failed" /\ current[w] < nextCommit /\ current[w] \notin anchored
    BY Zenon, <1>1, <1>2, <1>3, <2>1, OutcomeEffect DEF PublishingOK, UndoubtedOK
  <2>9. CommitsOK' /\ AnchorOK'
    BY Zenon, <1>1, <2>5, <2>8 DEF CommitsOK, AnchorOK
  <2>10. \A c \in Commits : LeftOpen(c) => commits'[c] = commits[c]
    BY Zenon, <1>1, <1>2, <2>5 DEF PublishingOK
  <2>11. ASSUME NEW v \in Writers
         PROVE  EpochOK(v)' /\ PublishingOK(v)' /\ UndoubtedOK(v)'
    <3>1. EpochOK(v) /\ PublishingOK(v) /\ UndoubtedOK(v)
      BY Zenon DEF WritersOK
    <3>2. EpochOK(v)'
      <4>1. FollowsAnchor(v) => FollowsAnchor(v)'
        BY Zenon, <1>1, <2>2, <2>10, FollowsKept
      <4>2. QED
        BY Zenon, <1>1, <2>2, <3>1, <4>1 DEF EpochOK, HoldsClaim
    <3>3. v # w /\ Publishing(v) => current[v] # current[w]
      BY Zenon, <1>1, <1>2 DEF PublishingOK
    <3>4. PublishingOK(v)'
      BY Zenon, <1>1, <2>2, <2>5, <3>1, <3>3 DEF PublishingOK, Publishing
    <3>5. UndoubtedOK(v)'
      BY Zenon, <1>1, <2>2, <3>1 DEF UndoubtedOK
    <3>6. QED
      BY Zenon, <3>2, <3>4, <3>5
  <2>12. QED
    BY Zenon, <2>3, <2>4, <2>7, <2>9, <2>11 DEF WritersOK
<1>8. QED
  BY Zenon, <1>6, <1>7

\* Sending the compare-and-swap or the fencing update preserves the invariant:
\* only the current owner sends, and only for the child of the anchor.
LEMMA AnchorSendInductive ==
  ASSUME Inductive, NEW w \in Writers, NEW kind \in {"advance", "fence"}, pc[w] = kind,
         anchorReq[w] = NoRequest, MaySend(w), AnchorSend(w, kind),
         kind = "advance" => lease.anchor = commits[current[w]].parent
  PROVE  Inductive'
<1>. USE DEF Inductive
<1>. DEFINE m == Request(kind, w, IF kind = "advance" THEN current[w] ELSE 0)
<1>1. EpochOK(w) /\ PublishingOK(w) /\ UndoubtedOK(w) /\ Publishing(w) /\ HoldsClaim(w)
  BY Zenon DEF WritersOK, Publishing, MaySend
<1>2. (IF kind = "advance" THEN current[w] ELSE 0) \in Nat
  BY Zenon DEF TypeOK
<1>3. /\ m \in Requests /\ m.kind = kind /\ m.version = lease.rv
      /\ kind = "advance" => m.commit = current[w]
  BY Zenon, <1>2 DEF Request, Requests, TypeOK
<1>4. /\ anchorReq' = [anchorReq EXCEPT ![w] = m]
      /\ UNCHANGED <<lease, commits, nextCommit, anchored, claim, active, known, pc, current,
                     guardReq, adrift>>
  BY Zenon DEF AnchorSend, localVars
<1>. HIDE DEF m
<1>5. TypeOK'
  BY Zenon, <1>3, <1>4 DEF TypeOK
<1>6. UnderWay' \subseteq UnderWay \union {m}
  BY <1>3, <1>4 DEF UnderWay, TypeOK
<1>7. RequestsOK'
  <2>1. \A n \in UnderWay' : n.version <= lease'.rv
    BY <1>3, <1>4, <1>6 DEF RequestsOK, TypeOK
  <2>2. (\A v \in Writers : v # w => anchorReq'[v] = anchorReq[v]) /\ anchorReq'[w] = m
    BY Zenon, <1>4 DEF TypeOK
  <2>3. QED
    BY <1>3, <1>4, <2>1, <2>2 DEF RequestsOK
<1>8. AdvancesOK'
  <2>1. ASSUME kind = "advance"
        PROVE  /\ current[w] \in Commits /\ current[w] < nextCommit
               /\ commits[current[w]].parent = lease.anchor
               /\ commits[current[w]].token = lease.token
               /\ commits[current[w]].outcome # "failed"
    BY Zenon, <1>1, <2>1 DEF PublishingOK, HoldsClaim
  <2>2. \A v \in Writers : HoldsClaim(v) => v = w
    BY Zenon, <1>1 DEF HoldsClaim
  <2>3. ASSUME NEW n \in UnderWay', n.kind = "advance", n = m
        PROVE  /\ n.commit \in Commits /\ n.commit < nextCommit
               /\ commits[n.commit].parent = lease.anchor
               /\ commits[n.commit].token = lease.token
               /\ commits[n.commit].outcome # "failed"
               /\ \A v \in Writers : HoldsClaim(v) => known[v] = lease.anchor /\ Settling(v, n.commit)
    <3>1. known[w] = lease.anchor
      BY Zenon, <1>1, <1>3, <2>1, <2>3 DEF PublishingOK
    <3>2. QED
      BY Zenon, <1>3, <2>1, <2>2, <2>3, <3>1
  <2>4. QED
    BY Zenon, <1>4, <1>6, <2>3 DEF AdvancesOK, Fresh, HoldsClaim
<1>9. CommitsOK' /\ AnchorOK'
  BY Zenon, <1>4 DEF CommitsOK, AnchorOK
<1>10. ASSUME NEW v \in Writers
       PROVE  EpochOK(v)' /\ PublishingOK(v)' /\ UndoubtedOK(v)'
  <2>1. EpochOK(v) /\ PublishingOK(v) /\ UndoubtedOK(v)
    BY Zenon DEF WritersOK
  <2>2. v # w => anchorReq'[v] = anchorReq[v]
    BY Zenon, <1>4 DEF TypeOK
  <2>3. QED
    BY Zenon, <1>4, <2>1, <2>2 DEF EpochOK, FollowsAnchor, Overtaken, PublishingOK, UndoubtedOK,
       HoldsClaim, Publishing
<1>11. QED
  BY Zenon, <1>5, <1>7, <1>8, <1>9, <1>10 DEF WritersOK

\* The compare-and-swap and the fencing update.
LEMMA SendsInductive ==
  ASSUME Inductive, NEW w \in Writers, Advance(w) \/ Fence(w)
  PROVE  Inductive'
<1>1. CASE Advance(w)
  BY Zenon, <1>1, AnchorSendInductive DEF Advance
<1>2. CASE Fence(w)
  BY Zenon, <1>2, AnchorSendInductive DEF Fence
<1>3. QED
  BY Zenon, <1>1, <1>2

\* An update without an outcome preserves the invariant: the doubt is settled next.
LEMMA AdvanceInDoubtInductive ==
  ASSUME Inductive, NEW w \in Writers, AdvanceFails(w) \/ AdvanceUnanswered(w)
  PROVE  Inductive'
<1>. USE DEF Inductive
<1>1. /\ pc[w] = "advance" /\ pc' = [pc EXCEPT ![w] = "fence"]
      /\ anchorReq' = [anchorReq EXCEPT ![w] = NoRequest]
      /\ adrift' = adrift \union ({anchorReq[w]} \ {NoRequest})
      /\ UNCHANGED <<lease, commits, nextCommit, anchored, claim, active, known, current, guardReq>>
  <2>1. CASE AdvanceFails(w)
    BY Zenon, <2>1 DEF AdvanceFails, Set, TypeOK
  <2>2. CASE AdvanceUnanswered(w)
    BY Zenon, <2>2 DEF AdvanceUnanswered, Set, Abandon, TypeOK
  <2>3. QED
    BY Zenon, <2>1, <2>2
<1>2. TypeOK'
  <2>1. anchorReq' \in [Writers -> Requests \union {NoRequest}] /\ adrift' \subseteq Requests
    BY Zenon, <1>1 DEF TypeOK
  <2>2. pc' \in [Writers -> {"down", "idle", "check", "advance", "fence", "stopped"}]
    BY Zenon, <1>1 DEF TypeOK
  <2>3. QED
    BY Zenon, <1>1, <2>1, <2>2 DEF TypeOK
<1>3. UnderWay' \subseteq UnderWay
  BY Zenon, <1>1 DEF UnderWay, TypeOK
<1>4. /\ pc'[w] = "fence" /\ anchorReq'[w] = NoRequest
      /\ \A v \in Writers : v # w => pc'[v] = pc[v] /\ anchorReq'[v] = anchorReq[v]
  BY Zenon, <1>1 DEF TypeOK
<1>5. RequestsOK'
  BY <1>1, <1>3, <1>4, QuietRequests DEF RequestsOK
<1>6. AdvancesOK'
  BY ZenonT(60), <1>1, <1>3, <1>4 DEF AdvancesOK, Fresh, HoldsClaim
<1>7. CommitsOK' /\ AnchorOK'
  BY Zenon, <1>1 DEF CommitsOK, AnchorOK
<1>8. ASSUME NEW v \in Writers
      PROVE  EpochOK(v)' /\ PublishingOK(v)' /\ UndoubtedOK(v)'
  <2>1. EpochOK(v) /\ PublishingOK(v) /\ UndoubtedOK(v) /\ PublishingOK(w)
    BY Zenon DEF WritersOK
  <2>2. \A u \in Writers : Publishing(u)' <=> Publishing(u)
    BY Zenon, <1>1, <1>4 DEF Publishing
  <2>3. EpochOK(v)'
    <3>1. FollowsAnchor(v) => FollowsAnchor(v)'
      BY Zenon, <1>1, <1>4, FollowsKept
    <3>2. QED
      BY Zenon, <1>1, <1>4, <2>1, <3>1 DEF EpochOK, HoldsClaim
  <2>4. PublishingOK(v)'
    BY Zenon, <1>1, <2>1, <2>2 DEF PublishingOK
  <2>5. UndoubtedOK(v)'
    <3>1. anchorReq[w] # NoRequest => anchorReq[w].commit = current[w]
      BY Zenon, <1>1 DEF RequestsOK
    <3>2. v # w /\ Publishing(v) => current[v] # current[w]
      BY Zenon, <1>1, <2>1 DEF PublishingOK, Publishing
    <3>3. QED
      BY Zenon, <1>1, <1>4, <2>1, <3>1, <3>2 DEF UndoubtedOK, Publishing
  <2>6. QED
    BY Zenon, <2>3, <2>4, <2>5
<1>9. QED
  BY Zenon, <1>2, <1>5, <1>6, <1>7, <1>8 DEF WritersOK

\* An unresolved outcome preserves the invariant: the commit stays undecided, and
\* the writer stops or goes on from what it knows.
LEMMA StopInductive ==
  ASSUME Inductive, NEW w \in Writers, FenceFails(w) \/ FenceUnanswered(w)
  PROVE  Inductive'
<1>. USE DEF Inductive
<1>. DEFINE place == IF commits[current[w]].kind = "delta" THEN "stopped" ELSE "idle"
<1>1. /\ pc[w] = "fence" /\ pc' = [pc EXCEPT ![w] = place]
      /\ commits' = [commits EXCEPT ![current[w]].outcome = "unknown"]
      /\ anchorReq' = [anchorReq EXCEPT ![w] = NoRequest]
      /\ adrift' = adrift \union ({anchorReq[w]} \ {NoRequest})
      /\ UNCHANGED <<lease, nextCommit, anchored, claim, active, known, current, guardReq>>
  <2>1. CASE FenceFails(w)
    BY Zenon, <2>1 DEF FenceFails, Stop, Outcome, Set, TypeOK
  <2>2. CASE FenceUnanswered(w)
    BY Zenon, <2>2 DEF FenceUnanswered, Stop, Outcome, Set, Abandon, TypeOK
  <2>3. QED
    BY Zenon, <2>1, <2>2
<1>2. current[w] \in Commits /\ current[w] < nextCommit /\ commits[current[w]].outcome = "pending"
  BY Zenon, <1>1 DEF WritersOK, PublishingOK, Publishing
<1>3. /\ commits' \in [Commits -> CommitRecord]
      /\ commits'[current[w]].outcome = "unknown"
      /\ \A d \in Commits : /\ commits'[d].parent = commits[d].parent
                            /\ commits'[d].token = commits[d].token
                            /\ commits'[d].kind = commits[d].kind
                            /\ d # current[w] => commits'[d] = commits[d]
  BY Zenon, <1>1, <1>2, OutcomeEffect
<1>4. TypeOK'
  <2>1. anchorReq' \in [Writers -> Requests \union {NoRequest}] /\ adrift' \subseteq Requests
    BY Zenon, <1>1 DEF TypeOK
  <2>2. pc' \in [Writers -> {"down", "idle", "check", "advance", "fence", "stopped"}]
    BY Zenon, <1>1 DEF TypeOK
  <2>3. QED
    BY Zenon, <1>1, <1>3, <2>1, <2>2 DEF TypeOK
<1>5. UnderWay' \subseteq UnderWay
  BY Zenon, <1>1 DEF UnderWay, TypeOK
<1>6. /\ pc'[w] = place /\ anchorReq'[w] = NoRequest
      /\ \A v \in Writers : v # w => pc'[v] = pc[v] /\ anchorReq'[v] = anchorReq[v]
  BY Zenon, <1>1 DEF TypeOK
<1>7. RequestsOK'
  BY <1>1, <1>5, <1>6, QuietRequests DEF RequestsOK
<1>8. AdvancesOK'
  <2>1. \A d \in Commits : commits'[d].outcome = "failed" => commits[d].outcome = "failed"
    BY Zenon, <1>2, <1>3
  <2>2. \A d \in Commits : LeftOpen(d) => LeftOpen(d)'
    BY Zenon, <1>2, <1>3
  <2>3. \A d \in Commits : Settling(w, d) => Settling(w, d)' \/ LeftOpen(d)'
    BY Zenon, <1>1, <1>2, <1>3, <1>6 DEF TypeOK
  <2>4. \A v \in Writers, d \in Commits : v # w /\ Settling(v, d) => Settling(v, d)'
    BY Zenon, <1>1, <1>6
  <2>5. QED
    BY <1>1, <1>3, <1>5, <2>1, <2>2, <2>3, <2>4 DEF AdvancesOK, Fresh, HoldsClaim
<1>9. CommitsOK' /\ AnchorOK'
  BY Zenon, <1>1, <1>2, <1>3 DEF CommitsOK, AnchorOK
<1>10. ASSUME NEW v \in Writers
       PROVE  EpochOK(v)' /\ PublishingOK(v)' /\ UndoubtedOK(v)'
  <2>1. EpochOK(v) /\ PublishingOK(v) /\ UndoubtedOK(v) /\ PublishingOK(w)
    BY Zenon DEF WritersOK
  <2>2. EpochOK(v)'
    <3>1. \A d \in Commits : LeftOpen(d) => commits'[d] = commits[d]
      BY Zenon, <1>2, <1>3
    <3>2. CASE v # w
      <4>1. FollowsAnchor(v) => FollowsAnchor(v)'
        BY Zenon, <1>1, <1>6, <3>1, <3>2, FollowsKept
      <4>2. QED
        BY Zenon, <1>1, <1>6, <2>1, <3>2, <4>1 DEF EpochOK, HoldsClaim
    <3>3. CASE v = w
      <4>1. ASSUME pc'[w] = "idle", FollowsAnchor(w) PROVE FollowsAnchor(w)'
        <5>1. commits[current[w]].kind = "root"
          BY Zenon, <1>2, <1>6, <4>1 DEF TypeOK
        <5>2. CASE lease.anchor = current[w]
          BY Zenon, <1>1, <1>2, <1>3, <2>1, <5>1, <5>2 DEF FollowsAnchor, Overtaken, PublishingOK,
             Publishing
        <5>3. CASE lease.anchor # current[w]
          BY Zenon, <1>1, <3>1, <4>1, <5>3 DEF FollowsAnchor, Overtaken
        <5>4. QED
          BY Zenon, <5>2, <5>3
      <4>2. QED
        BY Zenon, <1>1, <1>6, <2>1, <3>3, <4>1 DEF EpochOK, HoldsClaim
    <3>4. QED
      BY Zenon, <3>2, <3>3
  <2>3. v # w /\ Publishing(v) => current[v] # current[w]
    BY Zenon, <1>1, <2>1 DEF PublishingOK, Publishing
  <2>4. PublishingOK(v)'
    BY <1>1, <1>3, <1>6, <2>1, <2>3 DEF PublishingOK, Publishing
  <2>5. UndoubtedOK(v)'
    <3>1. anchorReq[w] # NoRequest => anchorReq[w].kind = "fence"
      BY Zenon, <1>1 DEF RequestsOK
    <3>2. QED
      BY <1>1, <1>6, <2>1, <3>1 DEF UndoubtedOK
  <2>6. QED
    BY Zenon, <2>2, <2>4, <2>5
<1>11. QED
  BY Zenon, <1>4, <1>7, <1>8, <1>9, <1>10 DEF WritersOK

\* A restart preserves the invariant: the dead incarnation no longer owns the
\* Lease, and its requests are adrift.
LEMMA RestartInductive ==
  ASSUME Inductive, NEW w \in Writers, Restart(w)
  PROVE  Inductive'
<1>. USE DEF Inductive
<1>1. /\ pc' = [pc EXCEPT ![w] = "down"] /\ claim' = [claim EXCEPT ![w] = 0]
      /\ active' = [active EXCEPT ![w] = FALSE]
      /\ guardReq' = [guardReq EXCEPT ![w] = NoRequest]
      /\ anchorReq' = [anchorReq EXCEPT ![w] = NoRequest]
      /\ adrift' = adrift \union ({guardReq[w], anchorReq[w]} \ {NoRequest})
      /\ UNCHANGED <<lease, nextCommit, anchored, known, current>>
      /\ commits' = IF Publishing(w) THEN [commits EXCEPT ![current[w]].outcome = "unknown"] ELSE commits
  BY Zenon DEF Restart, Abandon
<1>2. Publishing(w) =>
        current[w] \in Commits /\ current[w] < nextCommit /\ commits[current[w]].outcome = "pending"
  BY Zenon DEF WritersOK, PublishingOK
<1>3. /\ commits' \in [Commits -> CommitRecord]
      /\ \A d \in Commits : /\ commits'[d].parent = commits[d].parent
                            /\ commits'[d].token = commits[d].token
                            /\ commits'[d].kind = commits[d].kind
                            /\ ~(Publishing(w) /\ d = current[w]) => commits'[d] = commits[d]
                            /\ Publishing(w) /\ d = current[w] => commits'[d].outcome = "unknown"
  <2>1. CASE Publishing(w)
    BY Zenon, <1>1, <1>2, <2>1, OutcomeEffect
  <2>2. CASE ~Publishing(w)
    BY Zenon, <1>1, <2>2 DEF TypeOK
  <2>3. QED
    BY Zenon, <2>1, <2>2
<1>4. TypeOK'
  <2>1. /\ anchorReq' \in [Writers -> Requests \union {NoRequest}] /\ adrift' \subseteq Requests
        /\ guardReq' \in [Writers -> Requests \union {NoRequest}]
    BY <1>1 DEF TypeOK
  <2>2. /\ pc' \in [Writers -> {"down", "idle", "check", "advance", "fence", "stopped"}]
        /\ claim' \in [Writers -> Nat] /\ active' \in [Writers -> BOOLEAN]
    BY Zenon, <1>1 DEF TypeOK
  <2>3. QED
    BY Zenon, <1>1, <1>3, <2>1, <2>2 DEF TypeOK
<1>5. UnderWay' \subseteq UnderWay
  BY <1>1 DEF UnderWay, TypeOK
<1>6. /\ pc'[w] = "down" /\ anchorReq'[w] = NoRequest /\ guardReq'[w] = NoRequest /\ claim'[w] = 0
      /\ \A v \in Writers : v # w => /\ pc'[v] = pc[v] /\ anchorReq'[v] = anchorReq[v]
                                     /\ guardReq'[v] = guardReq[v] /\ claim'[v] = claim[v]
  BY Zenon, <1>1 DEF TypeOK
<1>7. RequestsOK'
  BY <1>1, <1>5, <1>6, QuietRequests DEF RequestsOK
<1>8. lease.holder = w => lease.token > 0
  BY Zenon DEF WritersOK, EpochOK
<1>9. ~HoldsClaim(w)'
  BY <1>1, <1>6, <1>8 DEF HoldsClaim, TypeOK
<1>10. AdvancesOK'
  <2>1. \A d \in Commits : commits'[d].outcome = "failed" => commits[d].outcome = "failed"
    BY Zenon, <1>2, <1>3
  <2>2. \A v \in Writers : HoldsClaim(v)' => HoldsClaim(v) /\ v # w
    BY Zenon, <1>1, <1>6, <1>9 DEF HoldsClaim
  <2>3. \A d \in Commits : LeftOpen(d) => LeftOpen(d)'
    BY Zenon, <1>2, <1>3
  <2>4. \A v \in Writers, d \in Commits : v # w /\ Settling(v, d) => Settling(v, d)'
    BY Zenon, <1>1, <1>6
  <2>5. QED
    BY <1>1, <1>3, <1>5, <2>1, <2>2, <2>3, <2>4 DEF AdvancesOK, Fresh
<1>11. CommitsOK' /\ AnchorOK'
  BY Zenon, <1>1, <1>2, <1>3 DEF CommitsOK, AnchorOK
<1>12. ASSUME NEW v \in Writers
       PROVE  EpochOK(v)' /\ PublishingOK(v)' /\ UndoubtedOK(v)'
  <2>1. EpochOK(v) /\ PublishingOK(v) /\ UndoubtedOK(v) /\ PublishingOK(w)
    BY Zenon DEF WritersOK
  <2>2. EpochOK(v)'
    <3>1. \A d \in Commits : LeftOpen(d) => commits'[d] = commits[d]
      BY Zenon, <1>2, <1>3
    <3>2. v # w /\ FollowsAnchor(v) => FollowsAnchor(v)'
      BY Zenon, <1>1, <1>6, <3>1, FollowsKept
    <3>3. QED
      BY <1>1, <1>6, <1>9, <2>1, <3>2 DEF EpochOK, HoldsClaim, TypeOK
  <2>3. v # w /\ Publishing(v) /\ Publishing(w) => current[v] # current[w]
    BY Zenon, <2>1 DEF PublishingOK
  <2>4. PublishingOK(v)'
    BY Zenon, <1>1, <1>3, <1>6, <2>1, <2>3 DEF PublishingOK, Publishing
  <2>5. UndoubtedOK(v)'
    <3>1. guardReq[w] # NoRequest => guardReq[w].kind # "advance"
      BY Zenon DEF RequestsOK
    <3>2. anchorReq[w] # NoRequest /\ anchorReq[w].kind = "advance" =>
            Publishing(w) /\ anchorReq[w].commit = current[w]
      BY Zenon DEF RequestsOK, Publishing
    <3>3. QED
      BY Zenon, <1>1, <1>6, <2>1, <2>3, <3>1, <3>2 DEF UndoubtedOK, Publishing
  <2>6. QED
    BY Zenon, <2>2, <2>4, <2>5
<1>13. QED
  BY Zenon, <1>4, <1>7, <1>10, <1>11, <1>12 DEF WritersOK

\* A refused update or fencing update is dropped, and changes nothing else.
LEMMA ConflictInductive ==
  ASSUME Inductive, NEW w \in Writers, anchorReq[w] # NoRequest,
         anchorReq' = [anchorReq EXCEPT ![w] = NoRequest],
         UNCHANGED <<lease, anchored, commits, pc, known, nextCommit, claim, active, current,
                     guardReq, adrift>>
  PROVE  Inductive'
<1>. USE DEF Inductive
<1>1. TypeOK'
  BY Zenon DEF TypeOK
<1>2. UnderWay' \subseteq UnderWay
  BY ZenonT(60) DEF UnderWay, TypeOK
<1>3. anchorReq'[w] = NoRequest /\ \A v \in Writers : v # w => anchorReq'[v] = anchorReq[v]
  BY Zenon DEF TypeOK
<1>4. RequestsOK'
  BY <1>2, <1>3, SMTT(60) DEF RequestsOK
<1>5. AdvancesOK'
  BY Zenon, <1>2 DEF AdvancesOK, Fresh, HoldsClaim
<1>6. CommitsOK' /\ AnchorOK'
  BY Zenon DEF CommitsOK, AnchorOK
<1>7. ASSUME NEW v \in Writers
      PROVE  EpochOK(v)' /\ PublishingOK(v)' /\ UndoubtedOK(v)'
  BY Zenon, <1>3 DEF WritersOK, EpochOK, FollowsAnchor, Overtaken, PublishingOK, UndoubtedOK, HoldsClaim,
     Publishing
<1>8. QED
  BY Zenon, <1>1, <1>4, <1>5, <1>6, <1>7 DEF WritersOK

\* An applied update or fencing update decides the commit: every other request
\* is now obsolete, so the outcome is final.
LEMMA DecidedInductive ==
  ASSUME Inductive, NEW w \in Writers, anchorReq[w] # NoRequest, Fresh(anchorReq[w]),
         Serve(anchorReq[w]), NEW o \in {"accepted", "failed", "unknown"},
         NEW place \in {"idle", "stopped"}, NEW k \in Nat,
         commits' = [commits EXCEPT ![current[w]].outcome = o],
         pc' = [pc EXCEPT ![w] = place],
         known' = [known EXCEPT ![w] = k],
         anchorReq' = [anchorReq EXCEPT ![w] = NoRequest],
         UNCHANGED <<nextCommit, claim, active, current, guardReq, adrift>>,
         k < nextCommit,
         place = "idle" /\ HoldsClaim(w) => k = lease'.anchor \/ Overtaken(w)',
         o = "accepted" => current[w] \in anchored',
         o = "failed" => current[w] \notin anchored'
  PROVE  Inductive'
<1>. USE DEF Inductive
<1>. DEFINE m == anchorReq[w]
<1>1. m \in UnderWay /\ m \in Requests /\ m.kind \notin {"acquire", "release"}
  <2>1. m \in UnderWay
    BY Zenon DEF UnderWay
  <2>2. m.kind \in {"advance", "fence"}
    BY Zenon DEF RequestsOK
  <2>3. QED
    BY Zenon, <2>1, <2>2, UnderWayType
<1>2. /\ Publishing(w) /\ current[w] \in Commits /\ current[w] < nextCommit
      /\ commits[current[w]].outcome = "pending"
      /\ m.kind = "advance" => m.commit = current[w]
  BY Zenon DEF RequestsOK, Publishing, WritersOK, PublishingOK
<1>. HIDE DEF m
<1>3. Serve(m) /\ Fresh(m)
  BY Zenon DEF m
<1>4. /\ commits' \in [Commits -> CommitRecord]
      /\ commits'[current[w]].outcome = o
      /\ \A d \in Commits : /\ commits'[d].parent = commits[d].parent
                            /\ commits'[d].token = commits[d].token
                            /\ commits'[d].kind = commits[d].kind
                            /\ d # current[w] => commits'[d] = commits[d]
  BY Zenon, <1>2, OutcomeEffect
<1>5. TypeOK'
  <2>1. /\ anchorReq' \in [Writers -> Requests \union {NoRequest}] /\ known' \in [Writers -> Nat]
        /\ pc' \in [Writers -> {"down", "idle", "check", "advance", "fence", "stopped"}]
    BY Zenon DEF TypeOK
  <2>2. /\ lease' \in [rv : Nat, holder : Writers \union {Nobody}, token : Nat, anchor : Nat]
        /\ anchored' \subseteq Nat
    BY Zenon, <1>1, <1>3, ServeType
  <2>3. QED
    BY Zenon, <1>4, <2>1, <2>2 DEF TypeOK
<1>6. UnderWay' \subseteq UnderWay
  BY Zenon DEF UnderWay, TypeOK
<1>7. /\ pc'[w] = place /\ known'[w] = k /\ anchorReq'[w] = NoRequest
      /\ \A v \in Writers : v # w => pc'[v] = pc[v] /\ known'[v] = known[v] /\ anchorReq'[v] = anchorReq[v]
  BY Zenon DEF TypeOK
<1>8. AdvancesOK' /\ \A n \in UnderWay' : n.version <= lease'.rv
  BY Zenon, <1>1, <1>3, <1>5, <1>6, ServeRequests
<1>9. RequestsOK'
  BY <1>7, <1>8 DEF RequestsOK
<1>10. AnchorOK'
  BY Zenon, <1>1, <1>3, ServeAnchor
<1>11. lease'.token = lease.token /\ lease'.holder = lease.holder
  BY Zenon, <1>1, <1>3, ServeEffect
<1>12. /\ anchored \subseteq anchored' /\ anchored' \subseteq anchored \union {current[w]}
       /\ lease'.anchor # lease.anchor => m.kind = "advance"
  BY Zenon, <1>1, <1>2, <1>3, ServeEffect
<1>13. CommitsOK'
  BY Zenon, <1>2, <1>4, <1>12 DEF CommitsOK
<1>14. ASSUME NEW v \in Writers
       PROVE  EpochOK(v)' /\ PublishingOK(v)' /\ UndoubtedOK(v)'
  <2>1. EpochOK(v) /\ PublishingOK(v) /\ UndoubtedOK(v) /\ PublishingOK(w) /\ EpochOK(w)
    BY Zenon DEF WritersOK
  <2>2. v # w /\ Publishing(v) => current[v] # current[w]
    BY Zenon, <1>2, <2>1 DEF PublishingOK
  <2>3. EpochOK(v)'
    <3>1. CASE v = w
      <4>1. pc[w] # "down"
        BY Zenon, <1>2 DEF Publishing
      <4>2. HoldsClaim(w)' => HoldsClaim(w)
        BY Zenon, <1>11 DEF HoldsClaim
      <4>3. place = "idle" /\ HoldsClaim(w) => FollowsAnchor(w)'
        BY Zenon, <1>7 DEF FollowsAnchor
      <4>4. QED
        BY Zenon, <1>7, <1>11, <2>1, <3>1, <4>1, <4>2, <4>3 DEF EpochOK
    <3>2. CASE v # w
      <4>1. HoldsClaim(v)' => HoldsClaim(v)
        BY Zenon, <1>11 DEF HoldsClaim
      <4>2. ASSUME pc[v] \notin {"down", "stopped"}, HoldsClaim(v) PROVE lease'.anchor = lease.anchor
        <5>1. SUFFICES ASSUME m.kind = "advance" PROVE FALSE
          BY Zenon, <1>12
        <5>2. Settling(v, current[w])
          BY Zenon, <1>1, <1>2, <1>3, <4>2, <5>1 DEF AdvancesOK
        <5>3. QED
          BY Zenon, <2>2, <3>2, <4>2, <5>2 DEF Publishing
      <4>3. \A d \in Commits : LeftOpen(d) => commits'[d] = commits[d]
        BY Zenon, <1>2, <1>4
      <4>4. pc[v] \notin {"down", "stopped"} /\ HoldsClaim(v) /\ FollowsAnchor(v) => FollowsAnchor(v)'
        BY Zenon, <1>7, <3>2, <4>2, <4>3, FollowsKept
      <4>5. QED
        BY Zenon, <1>7, <1>11, <2>1, <3>2, <4>1, <4>4 DEF EpochOK
    <3>3. QED
      BY Zenon, <3>1, <3>2
  <2>4. PublishingOK(v)'
    BY Zenon, <1>4, <1>7, <2>1, <2>2 DEF PublishingOK, Publishing
  <2>5. UndoubtedOK(v)'
    BY Zenon, <1>7, <1>12, <2>1, <2>2 DEF UndoubtedOK, Publishing
  <2>6. QED
    BY Zenon, <2>3, <2>4, <2>5
<1>15. QED
  BY Zenon, <1>5, <1>8, <1>9, <1>10, <1>13, <1>14 DEF WritersOK

\* The answer to the compare-and-swap preserves the invariant.
LEMMA AdvanceAnsweredInductive ==
  ASSUME Inductive, NEW w \in Writers, AdvanceAnswered(w)
  PROVE  Inductive'
<1>. USE DEF Inductive
<1>1. /\ pc[w] = "advance" /\ anchorReq[w] # NoRequest /\ Serve(anchorReq[w])
      /\ anchorReq' = [anchorReq EXCEPT ![w] = NoRequest]
      /\ UNCHANGED <<nextCommit, claim, active, current, guardReq, adrift>>
  BY Zenon DEF AdvanceAnswered
<1>2. CASE Fresh(anchorReq[w])
  <2>1. /\ commits' = [commits EXCEPT ![current[w]].outcome = "accepted"]
        /\ pc' = [pc EXCEPT ![w] = "idle"] /\ known' = [known EXCEPT ![w] = current[w]]
    BY Zenon, <1>2 DEF AdvanceAnswered, Outcome, Set
  <2>2. /\ anchorReq[w] \in UnderWay /\ anchorReq[w].kind = "advance" /\ anchorReq[w].commit = current[w]
        /\ current[w] \in Nat /\ current[w] < nextCommit
    BY <1>1 DEF UnderWay, RequestsOK, TypeOK, WritersOK, PublishingOK, Publishing
  <2>3. lease'.anchor = current[w] /\ current[w] \in anchored'
    BY Zenon, <1>1, <1>2, <2>2, ServeEffect
  <2>4. QED
    BY Zenon, <1>1, <1>2, <2>1, <2>2, <2>3, DecidedInductive
<1>3. CASE ~Fresh(anchorReq[w])
  <2>1. UNCHANGED <<lease, anchored, commits, pc, known>>
    BY Zenon, <1>1, <1>3 DEF AdvanceAnswered, Serve
  <2>2. QED
    BY Zenon, <1>1, <2>1, ConflictInductive
<1>4. QED
  BY Zenon, <1>2, <1>3

\* The answer to the fencing update preserves the invariant.
LEMMA FenceAnsweredInductive ==
  ASSUME Inductive, NEW w \in Writers, FenceAnswered(w)
  PROVE  Inductive'
<1>. USE DEF Inductive
<1>1. /\ pc[w] = "fence" /\ anchorReq[w] # NoRequest /\ Serve(anchorReq[w])
      /\ anchorReq' = [anchorReq EXCEPT ![w] = NoRequest]
      /\ UNCHANGED <<nextCommit, claim, active, current, guardReq, adrift>>
  BY Zenon DEF FenceAnswered
<1>2. CASE Fresh(anchorReq[w])
  <2>1. anchorReq[w] \in UnderWay /\ anchorReq[w].kind = "fence"
    BY Zenon, <1>1 DEF UnderWay, RequestsOK
  <2>2. lease'.anchor = lease.anchor /\ anchored' = anchored
    BY Zenon, <1>1, <1>2, <2>1, ServeEffect
  <2>3. /\ current[w] \in Commits /\ current[w] < nextCommit /\ current[w] \in Nat
        /\ commits[current[w]].parent = known[w]
    BY Zenon, <1>1 DEF TypeOK, WritersOK, PublishingOK, Publishing
  <2>4. known[w] \in Nat /\ known[w] < nextCommit
    BY Zenon DEF TypeOK, WritersOK, EpochOK
  <2>5. Settle(w)
    BY Zenon, <1>2 DEF FenceAnswered
  <2>6. CASE lease.anchor = current[w]
    <3>1. /\ commits' = [commits EXCEPT ![current[w]].outcome = "accepted"]
          /\ pc' = [pc EXCEPT ![w] = "idle"] /\ known' = [known EXCEPT ![w] = current[w]]
      BY Zenon, <2>5, <2>6 DEF Settle, Outcome, Set
    <3>2. lease'.anchor = current[w] /\ current[w] \in anchored'
      BY Zenon, <2>2, <2>6 DEF AnchorOK
    <3>3. QED
      BY Zenon, <1>1, <1>2, <2>3, <3>1, <3>2, DecidedInductive
  <2>7. CASE lease.anchor # current[w] /\ lease.anchor = commits[current[w]].parent
    <3>1. /\ commits' = [commits EXCEPT ![current[w]].outcome = "failed"]
          /\ pc' = [pc EXCEPT ![w] = "idle"] /\ known' = [known EXCEPT ![w] = known[w]]
      BY Zenon, <2>5, <2>7 DEF Settle, Outcome, Set, TypeOK
    <3>2. commits[current[w]].parent < current[w] /\ commits[current[w]].parent \in Nat
      BY Zenon, <2>3 DEF CommitsOK, TypeOK
    <3>3. current[w] \notin anchored'
      BY <2>2, <2>3, <2>7, <3>2 DEF AnchorOK
    <3>4. lease'.anchor = known[w]
      BY Zenon, <2>2, <2>3, <2>7
    <3>5. QED
      BY Zenon, <1>1, <1>2, <2>4, <3>1, <3>3, <3>4, DecidedInductive
  <2>8. CASE lease.anchor # current[w] /\ lease.anchor # commits[current[w]].parent
    <3>1. PICK place \in {"idle", "stopped"} :
            /\ commits' = [commits EXCEPT ![current[w]].outcome = "unknown"]
            /\ pc' = [pc EXCEPT ![w] = place] /\ known' = [known EXCEPT ![w] = known[w]]
      BY Zenon, <2>5, <2>8 DEF Settle, Stop, Outcome, Set, TypeOK
    <3>2. ASSUME HoldsClaim(w) PROVE Overtaken(w)'
      <4>1. Overtaken(w)
        BY Zenon, <1>1, <2>3, <2>8, <3>2 DEF WritersOK, EpochOK, FollowsAnchor
      <4>2. commits'[lease.anchor] = commits[lease.anchor]
        BY Zenon, <2>3, <2>8, <3>1, <4>1, OutcomeEffect DEF Overtaken
      <4>3. known'[w] = known[w] /\ claim'[w] = claim[w]
        BY Zenon, <1>1, <3>1 DEF TypeOK
      <4>4. QED
        BY Zenon, <2>2, <4>1, <4>2, <4>3 DEF Overtaken
    <3>3. QED
      BY Zenon, <1>1, <1>2, <2>4, <3>1, <3>2, DecidedInductive
  <2>9. QED
    BY Zenon, <2>6, <2>7, <2>8
<1>3. CASE ~Fresh(anchorReq[w])
  <2>1. UNCHANGED <<lease, anchored, commits, pc, known>>
    BY Zenon, <1>1, <1>3 DEF FenceAnswered, Serve
  <2>2. QED
    BY Zenon, <1>1, <2>1, ConflictInductive
<1>4. QED
  BY Zenon, <1>2, <1>3

\* Every step preserves the inductive invariant.
LEMMA NextInductive == Inductive /\ [Next]_vars => Inductive'
<1>. SUFFICES ASSUME Inductive, [Next]_vars PROVE Inductive'
  BY Zenon
<1>1. ASSUME NEW w \in Writers, WriterStep(w) PROVE Inductive'
  <2>1. CASE Acquire(w) \/ RenewOrRelease(w)
    BY Zenon, <2>1, AcquireInductive, RenewOrReleaseInductive
  <2>2. CASE GuardAnswered(w) \/ GuardUnanswered(w)
    BY Zenon, <2>2, GuardAnsweredInductive, GuardUnansweredInductive
  <2>3. CASE Load(w) \/ Upload(w) \/ Check(w)
    BY Zenon, <2>3, LoadInductive, UploadInductive, CheckInductive
  <2>4. CASE Advance(w) \/ Fence(w)
    BY Zenon, <2>4, SendsInductive
  <2>5. CASE AdvanceFails(w) \/ AdvanceUnanswered(w)
    BY <2>5, AdvanceInDoubtInductive, Zenon
  <2>6. CASE FenceFails(w) \/ FenceUnanswered(w)
    BY Zenon, <2>6, StopInductive
  <2>7. CASE AdvanceAnswered(w) \/ FenceAnswered(w)
    BY Zenon, <2>7, AdvanceAnsweredInductive, FenceAnsweredInductive
  <2>8. CASE Restart(w)
    BY Zenon, <2>8, RestartInductive
  <2>9. QED
    BY Zenon, <1>1, <2>1, <2>2, <2>3, <2>4, <2>5, <2>6, <2>7, <2>8 DEF WriterStep
<1>2. ASSUME NEW m \in adrift, Deliver(m) PROVE Inductive'
  BY <1>2, DeliverInductive, Zenon
<1>3. CASE UNCHANGED vars
  <2>1. UNCHANGED <<lease, commits, nextCommit, anchored, claim, active, known, pc, current,
                    guardReq, anchorReq, adrift>>
    BY Zenon, <1>3 DEF vars
  <2>2. TypeOK'
    BY Zenon, <2>1 DEF Inductive, TypeOK
  <2>3. UnderWay' = UnderWay
    BY Zenon, <2>1 DEF UnderWay
  <2>4. RequestsOK' /\ AdvancesOK'
    BY <2>1, <2>3 DEF Inductive, RequestsOK, AdvancesOK, Fresh, HoldsClaim
  <2>5. CommitsOK' /\ AnchorOK'
    BY Zenon, <2>1 DEF Inductive, CommitsOK, AnchorOK
  <2>6. WritersOK'
    BY <2>1 DEF Inductive, WritersOK, EpochOK, FollowsAnchor, Overtaken, PublishingOK, UndoubtedOK,
       HoldsClaim, Publishing
  <2>7. QED
    BY Zenon, <2>2, <2>4, <2>5, <2>6 DEF Inductive
<1>4. QED
  BY Zenon, <1>1, <1>2, <1>3 DEF Next

\* The Lease protocol of rs3-k8s and adopt_verified_unanchored_child keeps the
\* inductive invariant, type correctness included.
THEOREM InductiveInvariant == Spec => []Inductive
<1>1. Init => Inductive
  BY Zenon, InitInductive
<1>2. Inductive /\ [Next]_vars => Inductive'
  BY Zenon, NextInductive
<1>3. QED
  BY <1>1, <1>2, PTL DEF Spec

\* The state of the Lease and its clients keeps its type.
THEOREM TypeCorrect == Spec => []TypeOK
<1>1. Inductive => TypeOK
  BY Zenon DEF Inductive
<1>2. QED
  BY <1>1, InductiveInvariant, PTL

\* A commit that adopt_verified_unanchored_child reports as failed is never
\* anchored, whatever requests are still under way.
THEOREM FailureIsFinal == Spec => []FailedNeverAnchored
<1>1. Inductive => FailedNeverAnchored
  BY Zenon DEF Inductive, CommitsOK, FailedNeverAnchored
<1>2. QED
  BY <1>1, InductiveInvariant, PTL

\* A commit it reports as accepted is part of the anchored history.
THEOREM AcceptanceIsDurable == Spec => []AcceptedIsAnchored
<1>1. Inductive => AcceptedIsAnchored
  BY Zenon DEF Inductive, CommitsOK, AcceptedIsAnchored
<1>2. QED
  BY <1>1, InductiveInvariant, PTL

\* The owner of the Lease that publishes nothing knows the anchor, or is one
\* unresolved checkpoint or compaction of its own behind it.
THEOREM OwnerKnowsAnchor == Spec => []HolderIsCurrent
<1>1. Inductive => HolderIsCurrent
  BY Zenon DEF Inductive, WritersOK, EpochOK, FollowsAnchor, HolderIsCurrent
<1>2. QED
  BY <1>1, InductiveInvariant, PTL

\* A step that moves the anchor applies an update of the current epoch.
LEMMA AnchorMoves ==
  ASSUME Inductive, [Next]_vars, lease'.anchor # lease.anchor
  PROVE  commits[lease'.anchor].parent = lease.anchor /\ commits[lease'.anchor].token = lease.token
<1>1. PICK m \in UnderWay : Serve(m)
  <2>1. CASE \E m \in adrift : Deliver(m)
    BY <2>1, NamesAssumption DEF Deliver, UnderWay, Inductive, TypeOK
  <2>2. CASE \E w \in Writers : WriterStep(w)
    <3>1. PICK w \in Writers : WriterStep(w)
      BY Zenon, <2>2
    <3>2. lease' = lease \/ GuardAnswered(w) \/ AdvanceAnswered(w) \/ FenceAnswered(w)
      BY Zenon, <3>1 DEF WriterStep, Acquire, RenewOrRelease, GuardSend, GuardUnanswered, Load, Upload,
         Check, Advance, Fence, AnchorSend, AdvanceFails, AdvanceUnanswered, FenceFails,
         FenceUnanswered, Restart
    <3>3. GuardAnswered(w) => guardReq[w] \in UnderWay /\ Serve(guardReq[w])
      BY Zenon DEF GuardAnswered, UnderWay
    <3>4. AdvanceAnswered(w) \/ FenceAnswered(w) => anchorReq[w] \in UnderWay /\ Serve(anchorReq[w])
      BY Zenon DEF AdvanceAnswered, FenceAnswered, UnderWay
    <3>5. QED
      BY Zenon, <3>2, <3>3, <3>4
  <2>3. CASE UNCHANGED vars
    BY Zenon, <2>3 DEF vars
  <2>4. QED
    BY Zenon, <2>1, <2>2, <2>3 DEF Next
<1>2. Fresh(m) /\ m.kind = "advance" /\ lease'.anchor = m.commit
  BY Zenon, <1>1, ServeEffect DEF Serve
<1>3. QED
  BY Zenon, <1>2 DEF Inductive, AdvancesOK

\* The anchored history is one line of descent.
THEOREM AnchoredHistoryExtends == Spec => AnchorExtends
<1>1. Inductive /\ [Next]_vars => [lease'.anchor # lease.anchor => commits[lease'.anchor].parent = lease.anchor]_vars
  BY Zenon, AnchorMoves
<1>2. QED
  BY <1>1, InductiveInvariant, PTL DEF Spec, AnchorExtends

\* Only a commit prepared in the epoch the Lease names moves the anchor.
THEOREM OldEpochsAreFenced == Spec => StaleWriterFenced
<1>1. Inductive /\ [Next]_vars => [lease'.anchor # lease.anchor => commits[lease'.anchor].token = lease.token]_vars
  BY Zenon, AnchorMoves
<1>2. QED
  BY <1>1, InductiveInvariant, PTL DEF Spec, StaleWriterFenced
=============================================================================
