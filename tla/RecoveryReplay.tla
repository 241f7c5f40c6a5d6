--------------------------- MODULE RecoveryReplay ---------------------------
(***************************************************************************)
(* Cold replay of the recovery registry (recovery/replay.rs).  A process   *)
(* that opens the repository knows the anchored head only.  It loads the   *)
(* chain back to the nearest root and rebuilds the registry from the       *)
(* sections of those commits; a page is read from the exact commit that    *)
(* carries it.  The log keeps the section of every accepted commit.        *)
(***************************************************************************)
EXTENDS RecoveryHistory, Sequences

VARIABLE log    \* log[seq]: [section, time, root] of the accepted commit seq

replayVars == <<vars, log>>

Invalid == [invalid |-> TRUE]

(* What initialization signs: an empty snapshot and nothing registered.    *)
GenesisSection ==
    [policy |-> configured, register |-> None, expire |-> NoExpiry, localPages |-> {},
     snapshot |-> [tail |-> {}, pages |-> {}, cutoff |-> 0]]

ReplayInit ==
    /\ Init
    /\ log = <<[section |-> GenesisSection, time |-> accepted.time, root |-> TRUE]>>

Record ==
    log' = Append(log, [section |-> pending.section, time |-> pending.time, root |-> pending.root])

ReplayNext ==
    \/ (Accept \/ AcceptUnseen) /\ Record
    \/ /\ \/ Tick \/ PublishDelta \/ PublishRoot \/ ExpiryCheckpoint \/ VerifyAndCheckFresh
          \/ Abandon
          \/ \E p \in Policies : Reopen(p)
       /\ UNCHANGED log

ReplaySpec == ReplayInit /\ [][ReplayNext]_replayVars

-----------------------------------------------------------------------------
(* replay_recovery_history.                                                *)

ReplayedState(seq, policy, snapshot) ==
    [seq |-> seq, time |-> log[seq].time, policy |-> policy,
     tail |-> snapshot.tail, pages |-> snapshot.pages, cutoff |-> snapshot.cutoff]

(* The oldest commit of the chain: its signed snapshot is taken as it is.  *)
FromRoot(seq) ==
    LET c == log[seq]
    IN  IF seq = 1 \/ ValidForHeader(c.section, seq - 1, c.time, c.root)
        THEN ReplayedState(seq, c.section.policy, NormalizedSnapshot(c.section.snapshot, seq))
        ELSE Invalid

(* Variant: the replay applies the policy that is configured now.          *)
FromParentConfigured(state, seq) ==
    LET c == log[seq]
    IN  IF state = Invalid THEN Invalid
        ELSE ReplayedState(seq, configured, AppliedDelta(c.section, state, seq))

(* Every later one: validated against its replayed parent, then applied.   *)
FromParent(state, seq) ==
    LET c    == log[seq]
        safe == IF c.section.expire = NoExpiry THEN state.cutoff ELSE c.section.expire
    IN  IF /\ state # Invalid
           /\ ValidForCommit(c.section, state, c.time, c.root, safe)
           /\ DeltaApplies(c.section, state, seq)
        THEN ReplayedState(seq, c.section.policy, AppliedDelta(c.section, state, seq))
        ELSE Invalid

Replay(root) ==
    LET after[seq \in root .. Len(log)] ==
            IF seq = root THEN FromRoot(seq) ELSE FromParent(after[seq - 1], seq)
    IN  after[Len(log)]

Roots == {seq \in 1 .. Len(log) : log[seq].root}

(* read_recovery_page: the pages of the carrier's own section.             *)
ReadPages(carrier) == log[carrier].section.localPages

-----------------------------------------------------------------------------
(* The registry does not depend on where the chain is cut: from every root  *)
(* the replay of the accepted commits succeeds and yields exactly the state *)
(* that the publishing gateway holds, policies of old commits included.     *)
ReplayAgrees == \A root \in Roots : Replay(root) = accepted

(* Every page the registry refers to is found, with exactly its points, in  *)
(* the section of the commit that the reference names.                      *)
PagesReadable == \A g \in accepted.pages : g.points \in ReadPages(g.carrier)
=============================================================================
