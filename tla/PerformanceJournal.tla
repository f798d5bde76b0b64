--------------------------- MODULE PerformanceJournal ---------------------------
(* The Performance Journal: the append-only file one take leaves beside the   *)
(* Project.  Like the Sequence Journal it is the fold of its records; unlike  *)
(* it, it takes no tail while a flush is unresolved, its flushes do not       *)
(* repeat earlier events, and its tails carry the checkpoint of the open      *)
(* gestures and, in the headered profile, the ledger of the one admission     *)
(* that may be pending.  May... is what a writer checks before it appends,    *)
(* Read... what the reader computes from the record, Corrupt if it refuses.   *)
(* An event is the input sequence number it was given.                        *)
EXTENDS Integers, Sequences, FiniteSets, SequencesExt

CONSTANTS Nil,                  \* std::nullopt
          Torn, Corrupt         \* a file that ends inside a record; one refused

Unreadable == {Torn, Corrupt}
NoGestures == <<>>              \* open gestures: a function to their first event

Unfinished(j) == SelectSeq(j.flushes, LAMBDA f : ~f.completed)
AllFlushed(j) == Unfinished(j) = <<>>
Uncommitted(j) == j.pending \cup UNION {f.events : f \in Range(Unfinished(j))}
Recorded(j) == j.pending \cup UNION {f.events : f \in Range(j.flushes)}
-------------------------------------------------------------------------------
(* begin: names the command that is to create the draft, which does not exist *)
(* yet, so the session starts in recovery_required; begin-complete ends that. *)
Draft(session, rev, fingerprint) ==
  [session |-> session, rev |-> rev, fp |-> fingerprint, state |-> "recovery_required",
   flushes |-> <<>>, pending |-> {}, open |-> NoGestures, last |-> 0, next |-> 0,
   adm |-> Nil, done |-> Nil, begun |-> TRUE, stop |-> Nil, rebases |-> <<>>]
(* Mutant: the completion counts the draft's commit twice.                    *)
ReadBeginComplete(j, committed, fingerprint) ==
  IF j.begun /\ committed = j.rev + 1
  THEN [j EXCEPT !.rev = committed, !.fp = fingerprint, !.state = "active"]
  ELSE Corrupt

AcceptsTail(j) == j.state = "active" /\ AllFlushed(j)
AcceptsFlush(j) == j.state = "active" /\ AllFlushed(j)

(* tail: replaces the pending events and the checkpoint.                      *)
MayTail(j, rev, input, receipt) ==
  /\ AcceptsTail(j)
  /\ j.rev = rev /\ input > j.last
  /\ receipt # Nil => receipt.expected = j.next /\ j.adm = Nil
ReadTail(j, rev, input, events, open, ledger) ==
  IF /\ AcceptsTail(j) /\ rev = j.rev /\ input > j.last
     /\ \A e \in events : e <= input
     /\ ledger # j.adm => j.adm = Nil
     /\ ledger # Nil => ledger.expected = j.next /\ ledger.input <= input
  THEN [j EXCEPT !.pending = events, !.open = open, !.last = input, !.adm = ledger]
  ELSE Corrupt

(* admission_complete: only metadata, it moves no event.                      *)
MayAdmit(j, receipt) == j.adm = receipt
AdmittedBefore(j, receipt, result) ==
  j.done # Nil /\ j.done.receipt = receipt /\ j.done.result = result
ReadAdmitted(j, receipt, result) ==
  IF j.adm = receipt
  THEN [j EXCEPT !.next = @ + 1, !.adm = Nil,
                 !.done = [receipt |-> receipt, result |-> result]]
  ELSE Corrupt

(* flush                                                                      *)
FlushNamed(j, cmd) ==
  LET own == SelectSeq(j.flushes, LAMBDA f : f.cmd = cmd)
  IN  IF own = <<>> THEN Nil ELSE own[1]
FlushKnown(j, cmd, rev, events) ==
  LET f == FlushNamed(j, cmd) IN f # Nil /\ f.rev = rev /\ f.events = events
MayFlush(j, cmd, rev, events) ==
  /\ events # {} /\ FlushNamed(j, cmd) = Nil
  /\ j.rev = rev /\ AcceptsFlush(j) /\ j.adm = Nil
  /\ j.pending # {} => j.pending = events
(* Mutant: the flush leaves the events in the tail as well.                   *)
ReadFlushKeeping(j, cmd, rev, events) ==
  IF MayFlush(j, cmd, rev, events)
  THEN [j EXCEPT !.flushes = Append(@, [seq |-> Len(j.flushes), cmd |-> cmd, rev |-> rev,
                                        events |-> events, completed |-> FALSE])]
  ELSE Corrupt
ReadFlush(j, cmd, rev, events) ==
  IF MayFlush(j, cmd, rev, events)
  THEN [j EXCEPT !.flushes = Append(@, [seq |-> Len(j.flushes), cmd |-> cmd, rev |-> rev,
                                        events |-> events, completed |-> FALSE]),
                 !.pending = {}]
  ELSE Corrupt

(* complete: a Performance flush moves the revision by exactly one.           *)
CompletionRevision(f, committed) == committed = f.rev + 1
(* Mutant: the completion is accepted whatever revision it names.             *)
MayComplete(j, cmd, committed) ==
  LET f == FlushNamed(j, cmd) IN f # Nil /\ ~f.completed /\ CompletionRevision(f, committed)
ReadComplete(j, cmd, committed, fingerprint) ==
  LET f == FlushNamed(j, cmd) IN
  IF f # Nil /\ ~f.completed /\ CompletionRevision(f, committed)
  THEN [j EXCEPT !.flushes[f.seq + 1].completed = TRUE, !.rev = committed, !.fp = fingerprint]
  ELSE Corrupt

(* stop: the writer looks at open Pads, FX and HOLD; an open independent      *)
(* Filter gesture is not among them, and the reader looks at none.            *)
Closed(j) == "pad" \notin DOMAIN j.open
MayStop(j) == j.stop = Nil /\ j.state = "active" /\ AllFlushed(j) /\ Closed(j)
ReadStop(j, request) ==
  IF j.stop = Nil /\ j.state = "active" /\ AllFlushed(j)
  THEN [j EXCEPT !.stop = request, !.state = "stopped"] ELSE Corrupt

(* rebase: another command moves the Project under the take in two phases.    *)
RebaseNamed(j, cmd) ==
  LET own == SelectSeq(j.rebases, LAMBDA r : r.cmd = cmd)
  IN  IF own = <<>> THEN Nil ELSE own[1]
MayRebase(j, cmd, rev) ==
  RebaseNamed(j, cmd) = Nil /\ j.state = "active" /\ j.rev = rev /\ AllFlushed(j)
ReadRebasePrepare(j, cmd, rev) ==
  IF MayRebase(j, cmd, rev)
  THEN [j EXCEPT !.rebases = Append(@, [cmd |-> cmd, from |-> rev, completed |-> FALSE]),
                 !.state = "recovery_required"]
  ELSE Corrupt
MayRebaseComplete(j, cmd, committed) ==
  LET r == RebaseNamed(j, cmd)
  IN  r # Nil /\ ~r.completed /\ committed = r.from + 1 /\ j.state = "recovery_required"
ReadRebaseComplete(j, cmd, committed, fingerprint) ==
  IF MayRebaseComplete(j, cmd, committed)
  THEN [j EXCEPT !.rebases = [i \in DOMAIN @ |-> IF @[i].cmd = cmd
                                                 THEN [@[i] EXCEPT !.completed = TRUE] ELSE @[i]],
                 !.rev = committed, !.fp = fingerprint, !.state = "active"]
  ELSE Corrupt
-------------------------------------------------------------------------------
(* What closing the open gestures adds to the tail when the owner is gone: a  *)
(* Pad hit keeps its press's number, a Filter release takes a new one.        *)
HighWater(j) == Max({j.last} \cup Recorded(j) \cup {j.open[g] : g \in DOMAIN j.open})
Closure(j) ==
  {j.open[g] : g \in DOMAIN j.open \cap {"pad"}}
    \cup {HighWater(j) + 1 : g \in DOMAIN j.open \cap {"filter"}}
ClosureInput(j) == Max({j.last + 1, HighWater(j)} \cup j.pending \cup Closure(j))

(* A sealed Journal is one snapshot.  Its reader wants the flushes' revisions *)
(* to follow one another and the session's to follow the last of them.        *)
SnapshotReadable(j) ==
  /\ \A i \in 2 .. Len(j.flushes) :
       j.flushes[i - 1].completed /\ j.flushes[i].rev = j.flushes[i - 1].rev + 1
  /\ j.flushes # <<>> =>
       LET f == Last(j.flushes)
       IN  /\ j.rev = f.rev + (IF f.completed THEN 1 ELSE 0)
           /\ ~f.completed => j.pending = {}

(* What recovery leaves of a candidate: a stopped Journal with its ledger.    *)
Restored(j, rev, fingerprint, request) ==
  [Draft(j.session, rev, fingerprint) EXCEPT
     !.begun = FALSE, !.state = "stopped", !.stop = request,
     !.next = j.next, !.adm = j.adm, !.done = j.done]
===============================================================================
