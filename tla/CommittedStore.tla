--------------------------- MODULE CommittedStore ---------------------------
(***************************************************************************)
(* What a v3 repository promises its clients, without batches, overlays,   *)
(* anchors or recovery: a log of committed groups of mutations, and for    *)
(* every request an answer that is consistent with the log.                *)
(***************************************************************************)
EXTENDS Integers, Sequences

CONSTANTS Keys, Tasks

VARIABLES
    req,    \* [Tasks -> requests]: key, createOnly
    log,    \* sequence of groups; a group is a sequence of [task, key, live]
    told    \* [Tasks -> {"none", "ok", "no", "unknown"}]

vars == <<req, log, told>>

Init ==
    /\ log = <<>>
    /\ told = [t \in Tasks |-> "none"]

Places(l) == UNION {{<<i, j>> : j \in DOMAIN l[i]} : i \in DOMAIN l}

Committed(l) == {l[x[1]][x[2]].task : x \in Places(l)}

Earlier(x, y) == x[1] < y[1] \/ (x[1] = y[1] /\ x[2] < y[2])

\* The key is live just before place x of l.
LiveBefore(l, x) ==
    LET key == l[x[1]][x[2]].key
        prior == {y \in Places(l) : Earlier(y, x) /\ l[y[1]][y[2]].key = key}
    IN  \E y \in prior : l[y[1]][y[2]].live /\ \A z \in prior : ~Earlier(y, z)

Allowed(l, x) ==
    LET op == l[x[1]][x[2]]
    IN  /\ IF op.live THEN req[op.task].createOnly => ~LiveBefore(l, x) ELSE LiveBefore(l, x)
        /\ op.key = req[op.task].key

\* A group is added at once; nobody in it was committed or refused before.
CommitGroup ==
    /\ Len(log') = Len(log) + 1 /\ SubSeq(log', 1, Len(log)) = log
    /\ LET new == {x \in Places(log') : x[1] = Len(log')}
       IN  /\ \A x \in new : /\ Allowed(log', x)
                             /\ log'[x[1]][x[2]].task \notin Committed(log)
                             /\ told[log'[x[1]][x[2]].task] # "no"
           /\ \A x, y \in new : x # y => log'[x[1]][x[2]].task # log'[y[1]][y[2]].task
    /\ UNCHANGED <<req, told>>

\* Requests are answered once: "ok" after they were committed, "no" only if
\* they are not.
Answer ==
    /\ \A t \in Tasks : told'[t] # told[t] =>
         /\ told[t] = "none"
         /\ told'[t] = "ok" => t \in Committed(log)
         /\ told'[t] = "no" => t \notin Committed(log)
    /\ UNCHANGED <<req, log>>

Next == CommitGroup \/ Answer

Spec == Init /\ [][Next]_vars
=============================================================================
