---------------------------- MODULE RecoveryView ----------------------------
(***************************************************************************)
(* Operators that list recovery points, open one and read from it          *)
(* (service/recovery_view.rs) while the gateway keeps publishing.          *)
(*                                                                         *)
(* An operator process has no authority of its own.  It works on a copy of *)
(* the registry the anchor selected when it looked, samples its clock, and *)
(* reads the anchor again before it hands anything out.  Loading a         *)
(* registry is one step, because operator_registry itself reads the anchor *)
(* before and after; what lies between a clock sample and the last read of *)
(* the anchor is not.  Operators write nothing and do not see one another, *)
(* so there is one, who has a view open or a listing under way.            *)
(***************************************************************************)
EXTENDS RecoveryHistory, SequencesExt

CONSTANT ListLimit      \* the limit an operator passes to recovery_points

ASSUME ListAssumption == ListLimit \in Nat \ {0}

VARIABLES
    view,       \* the isolated reader: phase, selected sequence, its registry
    refused,    \* the last "expired or unknown" answer, or None
    listing     \* the cursor of a listing and the points it has shown

viewVars == <<vars, view, refused, listing>>

NoView    == [phase |-> "none"]
NoListing == [phase |-> "none"]

-----------------------------------------------------------------------------
(* operator_point: the current head, or a live point of tail or page.      *)

LivePoint(p, registry, now) == p.until > registry.cutoff /\ p.until > now

(* Variant: pages are not searched.                                        *)
OperatorPointInTail(registry, seq, now) ==
    \/ seq = registry.seq
    \/ \E p \in registry.tail : p.seq = seq /\ LivePoint(p, registry, now)

OperatorPoint(registry, seq, now) ==
    \/ seq = registry.seq
    \/ \E p \in Registered(registry) : p.seq = seq /\ LivePoint(p, registry, now)

Unavailable(seq) == [seq |-> seq, at |-> real]

-----------------------------------------------------------------------------
(* open_recovery_point: select, replay the selected chain, then read the   *)
(* anchor and select once more.                                            *)

OpenPoint(seq) ==
    /\ view = NoView
    /\ listing.phase # "next"
    /\ listing' = NoListing
    /\ \E now \in Samples :
          IF OperatorPoint(accepted, seq, now)
          THEN view' = [phase |-> "opening", selected |-> seq, registry |-> accepted, sampled |-> real]
               /\ UNCHANGED refused
          ELSE refused' = Unavailable(seq) /\ UNCHANGED view
    /\ UNCHANGED vars

OpenFinish ==
    /\ view.phase = "opening"
    /\ view.registry = accepted
    /\ \E now \in Samples :
          IF OperatorPoint(view.registry, view.selected, now)
          THEN view' = [view EXCEPT !.phase = "open", !.sampled = real] /\ UNCHANGED refused
          ELSE view' = NoView /\ refused' = Unavailable(view.selected)
    /\ UNCHANGED <<vars, listing>>

OpenStale ==
    /\ view.phase = "opening"
    /\ view.registry # accepted
    /\ view' = NoView
    /\ UNCHANGED <<vars, refused, listing>>

(* check_authority: take the registry of a newer head, select in it ...    *)
CheckAuthority ==
    /\ view.phase = "open"
    /\ \E now \in Samples :
          IF OperatorPoint(accepted, view.selected, now)
          THEN view' = [view EXCEPT !.phase = "checking", !.registry = accepted, !.sampled = real]
               /\ UNCHANGED refused
          ELSE view' = [view EXCEPT !.registry = accepted]
               /\ refused' = Unavailable(view.selected)
    /\ UNCHANGED <<vars, listing>>

(* Variant: the anchor is not read again before the admission.             *)
AuthorityUnchecked == TRUE

(* ... and admit the read if the anchor has not moved since.               *)
AuthorityUnchanged == view.registry = accepted

Admit ==
    /\ view.phase = "checking"
    /\ AuthorityUnchanged
    /\ view' = [view EXCEPT !.phase = "open"]
    /\ UNCHANGED <<vars, refused, listing>>

CheckStale ==
    /\ view.phase = "checking"
    /\ ~AuthorityUnchanged
    /\ view' = [view EXCEPT !.phase = "open"]
    /\ UNCHANGED <<vars, refused, listing>>

CloseView ==
    /\ view.phase = "open"
    /\ view' = NoView
    /\ UNCHANGED <<vars, refused, listing>>

-----------------------------------------------------------------------------
(* recovery_points: the groups of one registry are its pages, its tail and *)
(* the head, oldest first; a cursor is bound to the registry.              *)

InOrder(points) == SetToSortSeq(points, LAMBDA p, q : p.seq < q.seq)

Groups(registry) ==
    LET pages == SetToSortSeq(registry.pages, LAMBDA g, h : Before(g.points, h.points))
    IN  [i \in 1 .. Len(pages) |-> InOrder(pages[i].points)] \o <<InOrder(registry.tail)>>

(* How far one call scans: to the limit or to the end of the group.        *)
ScannedTo(records, offset, registry, now) ==
    LET shown(n) == Cardinality({i \in offset + 1 .. n : LivePoint(records[i], registry, now)})
        enough   == {n \in offset .. Len(records) : shown(n) = ListLimit}
    IN  IF enough = {} THEN Len(records) ELSE CHOOSE n \in enough : \A m \in enough : n <= m

(* Variant: a continued group starts one record too late.                  *)
ShownAfterOffset(records, offset, to, registry, now) ==
    LET first == IF offset = 0 THEN 1 ELSE offset + 2
        in    == SelectSeq(SubSeq(records, first, to), LAMBDA p : LivePoint(p, registry, now))
    IN  [i \in 1 .. Len(in) |-> in[i].seq]

Shown(records, offset, to, registry, now) ==
    LET in == SelectSeq(SubSeq(records, offset + 1, to), LAMBDA p : LivePoint(p, registry, now))
    IN  [i \in 1 .. Len(in) |-> in[i].seq]

ListFirst ==
    /\ view = NoView
    /\ listing.phase # "next"
    /\ listing' = [phase |-> "next", registry |-> accepted.seq, group |-> 1, offset |-> 0,
                   shown |-> <<>>]
    /\ refused' = None
    /\ UNCHANGED <<vars, view>>

ListGroup ==
    /\ listing.phase = "next"
    /\ listing.registry = accepted.seq
    /\ listing.group <= Len(Groups(accepted))
    /\ \E now \in Samples :
          LET records == Groups(accepted)[listing.group]
              to      == ScannedTo(records, listing.offset, accepted, now)
              more    == to < Len(records)
          IN  listing' = [listing EXCEPT
                            !.group  = IF more THEN @ ELSE @ + 1,
                            !.offset = IF more THEN to ELSE 0,
                            !.shown  = @ \o Shown(records, listing.offset, to, accepted, now)]
    /\ UNCHANGED <<vars, view, refused>>

(* The group after the tail is the head itself, and ends the listing.      *)
ListHead ==
    /\ listing.phase = "next"
    /\ listing.registry = accepted.seq
    /\ listing.group > Len(Groups(accepted))
    /\ listing' = [phase |-> "done", registry |-> accepted.seq, at |-> real,
                   shown |-> Append(listing.shown, accepted.seq)]
    /\ UNCHANGED <<vars, view, refused>>

ListStale ==
    /\ listing.phase = "next"
    /\ listing.registry # accepted.seq
    /\ listing' = NoListing
    /\ UNCHANGED <<vars, view, refused>>

-----------------------------------------------------------------------------
ViewInit == Init /\ view = NoView /\ refused = None /\ listing = NoListing

Gateway == Next /\ UNCHANGED <<view, refused, listing>>

ViewNext ==
    \/ Gateway
    \/ \E seq \in 1 .. accepted.seq : OpenPoint(seq)
    \/ OpenFinish
    \/ OpenStale
    \/ CheckAuthority
    \/ Admit
    \/ CheckStale
    \/ CloseView
    \/ ListFirst
    \/ ListGroup
    \/ ListHead
    \/ ListStale

ViewSpec == ViewInit /\ [][ViewNext]_viewVars

-----------------------------------------------------------------------------
(* Properties.                                                             *)

(* A read is admitted only under the registry the anchor selects at that    *)
(* moment: the selected commit is the head, or a registered point above the *)
(* published cutoff whose deadline the operator's clock had not reached.    *)
AdmittedUnderAuthority ==
    [][view.phase = "checking" /\ Admit =>
         \/ view.selected = accepted.seq
         \/ \E p \in Registered(accepted) : /\ p.seq = view.selected
                                            /\ p.until > accepted.cutoff
                                            /\ p.until + ClockError > view.sampled]_viewVars

(* "Expired or unknown" is only ever said of a point whose deadline has     *)
(* passed, up to the clock's error: a view opened on the head survives its  *)
(* supersession, the roll of the tail into a page and every root.           *)
RefusedOnlyWhenExpired ==
    refused # None =>
        \E p \in superseded : p.seq = refused.seq /\ p.until <= refused.at + ClockError

(* A listing that ran to its end shows the points of one registry in        *)
(* order, none twice, the head last, and every point that is still live     *)
(* when it ends, however many calls and however long it took.               *)
ListingComplete ==
    listing.phase = "done" =>
        /\ \A i, j \in DOMAIN listing.shown : i < j => listing.shown[i] < listing.shown[j]
        /\ \A p \in superseded :
              p.seq < listing.registry /\ p.until > listing.at + ClockError =>
                  \E i \in DOMAIN listing.shown : listing.shown[i] = p.seq
=============================================================================
