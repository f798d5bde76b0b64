--------------------------- MODULE AuthoringHistory ---------------------------
(* The Undo/Redo owner of one Facade:                                         *)
(* packages/project-io/src/authoring_history.cpp. The object is a record of   *)
(* the session state and of the two states of a publication whose result is   *)
(* not known yet. Its operations are operators from object to object; the     *)
(* mutex the code holds across a whole commit makes each of them atomic.      *)
(*                                                                            *)
(* A content is what authoring_fingerprint() identifies. A delta is the pair  *)
(* of contents it leads between: it is empty when the two are equal, reversed *)
(* by swapping them, and two deltas compose when they meet.                   *)
EXTENDS Naturals, Sequences, SequencesExt

CONSTANTS None,                 \* no value (std::nullopt, a null pointer)
          NoGroup,              \* the empty group name
          MaxActions            \* kMaximumActions

ASSUME MaxActionsAssumption == MaxActions \in Nat \ {0}

Entry(from, to, group) == [from |-> from, to |-> to, group |-> group]

(* entries with the last one closed to merging                                *)
Sealed(entries) ==
    [i \in DOMAIN entries |->
        IF i = Len(entries) THEN [entries[i] EXCEPT !.group = NoGroup] ELSE entries[i]]

Closed == [state |-> None, before |-> None, after |-> None]

(* start()                                                                    *)
Start(rev, content) ==
    [state |-> [rev |-> rev, content |-> content, undo |-> <<>>, redo |-> <<>>,
                displacedRedo |-> <<>>, displacedOldest |-> <<>>, disabled |-> FALSE],
     before |-> None, after |-> None]

(* invalidate()                                                              *)
Invalidate(o) ==
    IF o.state = None THEN o
    ELSE [state |-> [o.state EXCEPT !.undo = <<>>, !.redo = <<>>, !.displacedRedo = <<>>,
                                    !.displacedOldest = <<>>, !.disabled = TRUE],
          before |-> None, after |-> None]

Matches(h, rev, content) == h.rev = rev /\ h.content = content

Settled(h) == [state |-> h, before |-> None, after |-> None]

(* reconcile(): a publication whose result was unknown is settled by the      *)
(* committed Project; any other revision or content invalidates the session.  *)
(* Mutant: an unknown publication is taken as done without looking.           *)
ReconcileAssumes(o, rev, content) ==
    IF o.state = None THEN o
    ELSE IF o.after # None THEN Settled(o.after)
    ELSE IF Matches(o.state, rev, content) THEN o
    ELSE Invalidate(o)

Reconcile(o, rev, content) ==
    IF o.state = None THEN o
    ELSE LET settled ==
               CASE o.after = None -> o
                 [] o.after # None /\ Matches(o.after, rev, content) -> Settled(o.after)
                 [] o.after # None /\ ~Matches(o.after, rev, content)
                      /\ Matches(o.before, rev, content) -> Settled(o.before)
                 [] OTHER -> Invalidate(o)
         IN  IF Matches(settled.state, rev, content) THEN settled ELSE Invalidate(settled)

------------------------------------------------------------------------------
(* prepare(): the session state a commit will install when it is published.   *)

(* Undo and Redo move one entry between the stacks and close every group.    *)
Moved(h, redo) ==
    LET from == IF redo THEN h.redo ELSE h.undo
        to   == IF redo THEN h.undo ELSE h.redo
        moved == Append(to, [Last(from) EXCEPT !.group = NoGroup])
    IN  [h EXCEPT !.undo = IF redo THEN moved ELSE Front(from),
                  !.redo = IF redo THEN Front(from) ELSE moved,
                  !.displacedRedo = <<>>, !.displacedOldest = <<>>]

Merges(h, group) == group # NoGroup /\ h.undo # <<>> /\ Last(h.undo).group = group

(* A commit of the open group extends the group's entry; one that leads back *)
(* to the content before the group removes the entry and restores the Redo   *)
(* branch and the oldest entry the group had displaced.                      *)
Merged(h, to) ==
    IF Last(h.undo).from = to
    THEN [h EXCEPT !.undo = h.displacedOldest \o Front(h.undo),
                   !.redo = h.displacedRedo,
                   !.displacedRedo = <<>>, !.displacedOldest = <<>>]
    ELSE [h EXCEPT !.undo[Len(h.undo)].to = to]

(* Any other commit pushes an entry, closes the previous group, drops the    *)
(* Redo branch and keeps at most kMaximumActions entries; a group keeps what *)
(* it displaced.                                                             *)
Pushed(h, from, to, group) ==
    LET all  == Append(Sealed(h.undo), Entry(from, to, group))
        full == Len(all) > MaxActions
    IN  [h EXCEPT !.undo = IF full THEN Tail(all) ELSE all,
                  !.redo = <<>>,
                  !.displacedRedo = IF group # NoGroup THEN h.redo ELSE <<>>,
                  !.displacedOldest = IF full /\ group # NoGroup THEN <<Head(all)>> ELSE <<>>]

(* An authoring command leads from content `from` to content `to`.            *)
PrepareEdit(h, rev, from, to, group) ==
    LET next == [h EXCEPT !.rev = rev, !.content = to]
    IN  CASE from = to -> next
          [] from # to /\ Merges(h, group) -> Merged(next, to)
          [] OTHER -> Pushed(next, from, to, group)

(* Undo or Redo; refused when there is nothing to restore or the commit is    *)
(* not the reverse of the entry.                                              *)
CanRestore(o, from, redo) ==
    /\ o.state # None
    /\ ~o.state.disabled
    /\ LET entries == IF redo THEN o.state.redo ELSE o.state.undo
       IN  /\ entries # <<>>
           /\ from = IF redo THEN Last(entries).from ELSE Last(entries).to

(* selected(): the content the restored entry leads to                        *)
Selected(h, redo) == IF redo THEN Last(h.redo).to ELSE Last(h.undo).from

PrepareRestore(h, rev, redo) ==
    [Moved(h, redo) EXCEPT !.rev = rev, !.content = Selected(h, redo)]

(* Publication::begin() and Publication::confirm(); a publication prepared    *)
(* while there is no enabled session owns nothing and changes nothing.        *)
Owns(o) == o.state # None /\ ~o.state.disabled
Begin(o, next) == IF Owns(o) THEN [o EXCEPT !.before = o.state, !.after = next] ELSE o
Confirm(o, next) == IF Owns(o) THEN Settled(next) ELSE o

(* seal_group()                                                               *)
SealGroup(o) ==
    IF o.state = None \/ o.after # None THEN o
    ELSE [o EXCEPT !.state = [o.state EXCEPT !.undo = Sealed(o.state.undo),
                                             !.displacedRedo = <<>>, !.displacedOldest = <<>>]]

(* The entries retained_artifacts() keeps the audio bytes of.                 *)
EntriesOf(h) ==
    IF h = None THEN {}
    ELSE UNION {Range(s) : s \in {h.undo, h.redo, h.displacedRedo, h.displacedOldest}}
RetainedEntries(o) == EntriesOf(o.state) \union EntriesOf(o.before) \union EntriesOf(o.after)
==============================================================================
