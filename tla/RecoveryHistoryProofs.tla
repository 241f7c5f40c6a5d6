----------------------- MODULE RecoveryHistoryProofs -----------------------
(***************************************************************************)
(* Proofs about RecoveryHistory: no promised recovery point leaves the     *)
(* registry before its deadline, and a promise lasts for the whole window  *)
(* of its policy, for every set of policies, clock error and limits.       *)
(***************************************************************************)
EXTENDS RecoveryHistory, TLAPS

(* The policies the configuration admits have the numbers the code needs.  *)
LEMMA PolicyNumbers ==
    ASSUME NEW p \in Policies
    PROVE  /\ p.window \in Nat /\ p.uncertainty \in Nat /\ ClockError \in Nat
           /\ ClockError <= p.uncertainty
  BY RecoveryAssumption

(* A cutoff derived from an erring clock sample is never ahead of true time.*)
LEMMA CutoffNotAhead ==
    ASSUME real \in Nat, NEW s \in Samples, NEW p \in Policies,
           NEW previous, previous.cutoff \in Int, previous.cutoff <= real
    PROVE  /\ s \in Int /\ real - ClockError <= s
           /\ CapturedCutoff(previous, p, s) \in Int
           /\ CapturedCutoff(previous, p, s) <= real
  BY PolicyNumbers DEF Samples, CapturedCutoff, ExpiryCutoff, Larger

(* The invariant holds initially: the genesis registry is empty.           *)
LEMMA InductiveInit == Init => Inductive /\ PromiseHonoured /\ WindowKept
  <1> SUFFICES ASSUME Init PROVE Inductive /\ PromiseHonoured /\ WindowKept
    OBVIOUS
  <1>1. PICK s \in Samples :
            accepted = [seq |-> 1, time |-> s, policy |-> configured,
                        tail |-> {}, pages |-> {}, cutoff |-> 0]
    BY DEF Init
  <1>2. s \in Int
    BY RecoveryAssumption DEF Samples, Init
  <1>3. Registered(accepted) \cup superseded = {}
    BY <1>1 DEF Registered, PagedPoints, Init
  <1> QED
    BY <1>1, <1>2, <1>3 DEF Init, Inductive, PromiseHonoured, WindowKept, Publishing, NoPublication

(* prepare_service_publication keeps it: the captured expiry is not ahead  *)
(* of true time, and the rolled page holds points of the accepted tail.    *)
LEMMA CaptureInductive ==
    ASSUME Inductive, NEW isRoot \in BOOLEAN, Capture(isRoot)
    PROVE  Inductive'
  <1>1. PICK s \in Samples :
          LET chosen  == ChoosePublishTime(s, accepted.time)
              section == CapturedSection(accepted, configured, s, chosen, isRoot)
          IN  pending' = [kind |-> "captured", sampled |-> s, time |-> chosen,
                          root |-> isRoot, section |-> section, checked |-> 0]
    BY DEF Capture
  <1> DEFINE chosen == ChoosePublishTime(s, accepted.time)
             section == CapturedSection(accepted, configured, s, chosen, isRoot)
             cutoff == CapturedCutoff(accepted, configured, s)
  <1>2. real \in Nat /\ accepted.cutoff \in Int /\ accepted.cutoff <= real /\ configured \in Policies
        /\ accepted.policy \in Policies /\ accepted.time \in Int
    BY DEF Inductive
  <1>3. s \in Int /\ cutoff \in Int /\ cutoff <= real
    BY <1>2, CutoffNotAhead
  <1>4. chosen \in Int
    BY <1>2, <1>3 DEF ChoosePublishTime, Larger
  <1>5. /\ section.policy = configured
        /\ section.expire = IF cutoff > accepted.cutoff THEN cutoff ELSE NoExpiry
        /\ section.register.until = PromisedUntil(accepted.policy, chosen)
        /\ section.localPages = IF Rolls(accepted, cutoff) THEN {PreviousLive(accepted, cutoff)} ELSE {}
    BY DEF CapturedSection, PredecessorPoint
  <1>6. section.expire \in Int /\ section.expire <= real
    BY <1>2, <1>3, <1>5 DEF NoExpiry
  <1>7. section.register.until \in Int
    BY <1>2, <1>4, <1>5, PolicyNumbers DEF PromisedUntil
  <1>8. \A l \in section.localPages : l \subseteq accepted.tail
    BY <1>5 DEF PreviousLive, Live
  <1>9. /\ pending'.kind = "captured" /\ pending'.section = section /\ pending'.time = chosen
        /\ pending' = [kind |-> pending'.kind, sampled |-> pending'.sampled, time |-> pending'.time,
                       root |-> pending'.root, section |-> pending'.section,
                       checked |-> pending'.checked]
    BY <1>1
  <1>10. UNCHANGED <<real, configured, accepted, superseded>>
    BY DEF Capture
  <1> HIDE DEF chosen, section, cutoff
  <1>11. Registered(accepted)' = Registered(accepted)
    BY <1>10 DEF Registered, PagedPoints
  <1> QED
    BY <1>2, <1>4, <1>5, <1>6, <1>7, <1>8, <1>9, <1>10, <1>11 DEF Inductive, Publishing

(* verify_recovery_publication and the freshness check keep it: the age     *)
(* bound on the publication time becomes a bound on the promised window.    *)
LEMMA VerifyInductive ==
    ASSUME Inductive, VerifyAndCheckFresh
    PROVE  Inductive'
  <1> DEFINE section == pending.section
             bound == Smaller(accepted.policy.uncertainty, section.policy.uncertainty)
  <1>1. /\ pending.kind = "captured"
        /\ DeltaApplies(section, accepted, accepted.seq + 1)
        /\ \E now \in Samples : FreshEnough(now, pending.time, bound)
        /\ pending' = [pending EXCEPT !.kind = "sent", !.checked = real]
        /\ UNCHANGED <<real, configured, accepted, superseded>>
    BY DEF VerifyAndCheckFresh
  <1>2. /\ section.register.until >= PromisedUntil(accepted.policy, pending.time)
        /\ section.register.policy = accepted.policy
    BY DEF VerifyAndCheckFresh, ValidForCommit
  <1>3. /\ real \in Nat /\ accepted.policy \in Policies /\ section.policy \in Policies
        /\ pending.time \in Int /\ section.register.until \in Int
        /\ pending = [kind |-> pending.kind, sampled |-> pending.sampled, time |-> pending.time,
                      root |-> pending.root, section |-> pending.section,
                      checked |-> pending.checked]
    BY <1>1 DEF Inductive, Publishing
  <1>4. /\ pending' = [kind |-> "sent", sampled |-> pending.sampled, time |-> pending.time,
                       root |-> pending.root, section |-> section, checked |-> real]
    BY <1>1, <1>3
  <1>5. section.register.until + ClockError >= real + section.register.policy.window
    <2>1. PICK now \in Samples : FreshEnough(now, pending.time, bound)
      BY <1>1
    <2>2. now \in Int /\ now >= real - ClockError /\ ClockError \in Nat
      BY <1>3, RecoveryAssumption DEF Samples
    <2>3. bound \in Nat /\ bound <= accepted.policy.uncertainty
          /\ accepted.policy.uncertainty \in Nat /\ accepted.policy.window \in Nat
      BY <1>3, PolicyNumbers DEF Smaller
    <2>4. pending.time >= now - bound
      BY <2>1 DEF FreshEnough
    <2>5. section.register.until >= pending.time + accepted.policy.window + accepted.policy.uncertainty
      BY <1>2 DEF PromisedUntil
    <2> HIDE DEF section, bound
    <2> QED
      BY <1>2, <1>3, <2>2, <2>3, <2>4, <2>5
  <1>6. Registered(accepted)' = Registered(accepted)
    BY <1>1 DEF Registered, PagedPoints
  <1>7. DeltaApplies(pending.section, accepted, accepted.seq + 1)'
    BY <1>1, <1>4, pending'.section = section, accepted' = accepted
  <1>8. /\ section.expire \in Int /\ section.expire <= real
        /\ \A l \in section.localPages : l \subseteq accepted.tail
    BY <1>1 DEF Inductive, Publishing
  <1>9. /\ pending'.kind = "sent" /\ pending'.section = section /\ pending'.checked = real
        /\ pending'.time = pending.time
        /\ pending' = [kind |-> pending'.kind, sampled |-> pending'.sampled, time |-> pending'.time,
                       root |-> pending'.root, section |-> pending'.section,
                       checked |-> pending'.checked]
    BY <1>4
  <1> HIDE DEF section, bound
  <1> QED
    BY <1>1, <1>2, <1>3, <1>5, <1>6, <1>7, <1>8, <1>9 DEF Inductive, Publishing

(* The accepted successor keeps every point whose deadline is ahead of the  *)
(* published cutoff: in the tail, in a page, or in the page just rolled.    *)
LEMMA AppliedKeepsLive ==
    ASSUME NEW section, NEW previous, NEW seq,
           NEW cutoff, cutoff = (IF section.expire = NoExpiry THEN previous.cutoff ELSE section.expire),
           \A l \in section.localPages : l = Live(previous.tail, cutoff),
           NEW p \in Registered(previous), p.until > cutoff
    PROVE  p \in Registered(AppliedDelta(section, previous, seq))
  <1> DEFINE rolled == {[points |-> l, carrier |-> seq] : l \in section.localPages}
             next   == AppliedDelta(section, previous, seq)
  <1>1. /\ next.tail = {section.register} \cup (IF rolled # {} THEN {} ELSE Live(previous.tail, cutoff))
        /\ next.pages = LivePages(previous.pages, cutoff) \cup rolled
    BY DEF AppliedDelta
  <1>2. SUFFICES p \in next.tail \cup PagedPoints(next.pages)
    BY DEF Registered
  <1> HIDE DEF next
  <1>3. CASE p \in previous.tail
    <2>1. p \in Live(previous.tail, cutoff)
      BY <1>3 DEF Live
    <2>2. CASE rolled = {}
      BY <1>1, <2>1, <2>2
    <2>3. CASE rolled # {}
      <3>1. PICK l \in section.localPages : TRUE
        BY <2>3
      <3>2. [points |-> l, carrier |-> seq] \in next.pages /\ p \in l
        BY <1>1, <2>1, <3>1
      <3> QED
        BY <3>2 DEF PagedPoints
    <2> QED
      BY <2>2, <2>3
  <1>4. CASE p \in PagedPoints(previous.pages)
    <2>1. PICK g \in previous.pages : p \in g.points
      BY <1>4 DEF PagedPoints
    <2>2. p \in Live(g.points, cutoff)
      BY <2>1 DEF Live
    <2>3. g \in LivePages(previous.pages, cutoff)
      BY <2>1, <2>2 DEF LivePages
    <2> QED
      BY <1>1, <2>1, <2>3 DEF PagedPoints
  <1> QED
    BY <1>3, <1>4 DEF Registered

(* ... and it adds nothing but the registered predecessor.                  *)
LEMMA AppliedAddsPredecessor ==
    ASSUME NEW section, NEW previous, NEW seq,
           \A l \in section.localPages : l \subseteq previous.tail
    PROVE  LET next == AppliedDelta(section, previous, seq)
           IN  /\ section.register \in next.tail
               /\ Registered(next) \subseteq Registered(previous) \cup {section.register}
  BY DEF AppliedDelta, Registered, PagedPoints, LivePages, Live

(* The accepted update keeps everything: the registry that adoption makes   *)
(* authoritative still holds every promise whose deadline is ahead.         *)
LEMMA AcceptInductive ==
    ASSUME Inductive, PromiseHonoured, NEW replied \in BOOLEAN, AnchorAccepts(replied)
    PROVE  Inductive' /\ PromiseHonoured' /\ WindowKept'
  <1> DEFINE section == pending.section
             next    == AppliedDelta(section, accepted, accepted.seq + 1)
             cutoff  == IF section.expire = NoExpiry THEN accepted.cutoff ELSE section.expire
  <1>1. /\ pending.kind = "sent"
        /\ accepted' = [seq |-> accepted.seq + 1, time |-> pending.time, policy |-> section.policy,
                        tail |-> next.tail, pages |-> next.pages, cutoff |-> next.cutoff]
        /\ superseded' = superseded \cup {section.register}
        /\ granted' = [point |-> section.register, checked |-> pending.checked]
        /\ pending' \in {NoPublication, Blocked}
        /\ real' = real /\ configured' = configured
    BY DEF AnchorAccepts
  <1>2. /\ real \in Nat /\ configured \in Policies /\ section.policy \in Policies
        /\ pending.time \in Int /\ section.expire \in Int /\ section.expire <= real
        /\ accepted.cutoff \in Int /\ accepted.cutoff <= real
        /\ section.register.until \in Int
        /\ \A l \in section.localPages : l \subseteq accepted.tail
        /\ \A p \in Registered(accepted) \cup superseded : p.until \in Int
    BY <1>1 DEF Inductive, Publishing
  <1>3. next.cutoff = cutoff /\ cutoff \in Int /\ cutoff <= real
    BY <1>2 DEF AppliedDelta
  <1>4. \A l \in section.localPages : l = Live(accepted.tail, cutoff)
    BY <1>1, <1>3 DEF Inductive, DeltaApplies
  <1>5. /\ section.register \in next.tail
        /\ Registered(next) \subseteq Registered(accepted) \cup {section.register}
    BY <1>2, AppliedAddsPredecessor
  <1>6. \A p \in Registered(accepted) : p.until > cutoff => p \in Registered(next)
    BY <1>4, AppliedKeepsLive
  <1>7. Registered(accepted)' = Registered(next)
    BY <1>1 DEF Registered, PagedPoints
  <1> HIDE DEF section, next, cutoff
  <1>8. PromiseHonoured'
    <2> SUFFICES ASSUME NEW p \in superseded', real' < p.until
                 PROVE  p \in Registered(accepted)'
      BY DEF PromiseHonoured
    <2>1. CASE p = section.register
      BY <2>1, <1>5, <1>7 DEF Registered
    <2>2. CASE p \in superseded
      <3>1. p \in Registered(accepted)
        BY <2>2, <1>1 DEF PromiseHonoured
      <3>2. p.until > cutoff
        BY <1>1, <1>2, <1>3, <2>2
      <3> QED
        BY <1>6, <1>7, <3>1, <3>2
    <2> QED
      BY <1>1, <2>1, <2>2
  <1>9. WindowKept'
    BY <1>1 DEF WindowKept, Inductive, section
  <1>10. \A p \in Registered(accepted)' \cup superseded' : p.until \in Int
    BY <1>1, <1>2, <1>5, <1>7
  <1>11. pending'.kind \notin {"captured", "sent"}
    BY <1>1 DEF NoPublication, Blocked
  <1>12. /\ accepted'.policy \in Policies /\ accepted'.time \in Int
         /\ accepted'.cutoff \in Int /\ accepted'.cutoff <= real'
    BY <1>1, <1>2, <1>3
  <1>13. Inductive'
    BY <1>1, <1>2, <1>10, <1>11, <1>12 DEF Inductive, Publishing
  <1> QED
    BY <1>8, <1>9, <1>13

(* Time passes, a publication is given up, the gateway is opened again.     *)
LEMMA TickInductive ==
    ASSUME Inductive, PromiseHonoured, WindowKept, Tick
    PROVE  Inductive' /\ PromiseHonoured' /\ WindowKept'
  <1>1. real \in Nat /\ real' = real + 1 /\ UNCHANGED <<configured, accepted, pending, superseded, granted>>
    BY DEF Tick, Inductive
  <1>2. Registered(accepted)' = Registered(accepted) /\ Publishing' = Publishing
    BY <1>1 DEF Registered, PagedPoints, Publishing
  <1>3. pending.kind = "sent" => DeltaApplies(pending.section, accepted, accepted.seq + 1)'
    BY <1>1, pending' = pending, accepted' = accepted DEF Inductive
  <1>4. Inductive'
    BY <1>1, <1>2, <1>3 DEF Inductive
  <1>5. PromiseHonoured'
    BY <1>1, <1>2 DEF PromiseHonoured, Inductive
  <1>6. WindowKept'
    BY <1>1 DEF WindowKept
  <1> QED
    BY <1>4, <1>5, <1>6

LEMMA IdleInductive ==
    ASSUME Inductive, pending' = NoPublication, configured' \in Policies,
           UNCHANGED <<real, accepted, superseded>>
    PROVE  Inductive'
  <1>1. Registered(accepted)' = Registered(accepted)
    BY DEF Registered, PagedPoints
  <1>2. pending'.kind \notin {"captured", "sent"}
    BY DEF NoPublication
  <1> QED
    BY <1>1, <1>2 DEF Inductive, Publishing

(* What every step keeps.                                                   *)
LEMMA NextInductive ==
    ASSUME Inductive, PromiseHonoured, WindowKept, [Next]_vars
    PROVE  Inductive' /\ PromiseHonoured' /\ WindowKept'
  <1>1. ASSUME UNCHANGED <<real, accepted, superseded, granted>>
        PROVE  PromiseHonoured' /\ WindowKept'
    BY <1>1 DEF PromiseHonoured, WindowKept, Registered, PagedPoints
  <1>2. CASE Tick
    BY <1>2, TickInductive
  <1>3. CASE PublishDelta \/ PublishRoot \/ ExpiryCheckpoint
    <2>1. PICK isRoot \in BOOLEAN : Capture(isRoot)
      BY <1>3 DEF PublishDelta, PublishRoot, ExpiryCheckpoint
    <2>2. Inductive'
      BY <2>1, CaptureInductive
    <2>3. UNCHANGED <<real, accepted, superseded, granted>>
      BY <2>1 DEF Capture
    <2> QED
      BY <1>1, <2>2, <2>3
  <1>4. CASE VerifyAndCheckFresh
    <2>1. UNCHANGED <<real, accepted, superseded, granted>>
      BY <1>4 DEF VerifyAndCheckFresh
    <2> QED
      BY <1>1, <1>4, <2>1, VerifyInductive
  <1>5. CASE Accept \/ AcceptUnseen
    BY <1>5, AcceptInductive DEF Accept, AcceptUnseen
  <1>6. CASE Abandon \/ \E p \in Policies : Reopen(p)
    <2>1. /\ pending' = NoPublication /\ configured' \in Policies
          /\ UNCHANGED <<real, accepted, superseded, granted>>
      BY <1>6 DEF Abandon, Reopen, Inductive
    <2> QED
      BY <1>1, <2>1, IdleInductive
  <1>7. CASE UNCHANGED vars
    <2>1. /\ pending' = pending /\ accepted' = accepted /\ real' = real
          /\ configured' = configured /\ superseded' = superseded /\ granted' = granted
      BY <1>7 DEF vars
    <2>2. Registered(accepted)' = Registered(accepted) /\ Publishing' = Publishing
      BY <2>1 DEF Registered, PagedPoints, Publishing
    <2>3. pending.kind = "sent" => DeltaApplies(pending.section, accepted, accepted.seq + 1)'
      BY <2>1 DEF Inductive
    <2> QED
      BY <1>1, <2>1, <2>2, <2>3 DEF Inductive
  <1> QED
    BY <1>2, <1>3, <1>4, <1>5, <1>6, <1>7 DEF Next

(* The strengthening holds in every reachable state.                        *)
THEOREM RecoveryInvariant == Spec => [](Inductive /\ PromiseHonoured /\ WindowKept)
  BY InductiveInit, NextInductive, PTL DEF Spec

(* A superseded point whose deadline has not passed in true time is in the  *)
(* registry that the anchor selects.                                        *)
THEOREM PromisesAreHonoured == Spec => []PromiseHonoured
  BY RecoveryInvariant, PTL

(* A promise covers its policy's window from the freshness check on.        *)
THEOREM PromisesCoverTheWindow == Spec => []WindowKept
  BY RecoveryInvariant, PTL
=============================================================================
