---------------------------- MODULE SequenceJournal ----------------------------
(* The Sequence Journal: the append-only file a recording session leaves      *)
(* beside the Project until its events are committed.  A Journal is the fold  *)
(* of its records, so it is represented by the state the reader computes.     *)
(* Every write takes the append mutex and the writer lease, reads the file    *)
(* again, checks the operation (the May... operators) and appends one record; *)
(* reading folds the records with their own checks (the Read... operators)    *)
(* and refuses the file on the first record it does not accept.               *)
EXTENDS AdmissionCodec

(* What a read of the active file finds when it cannot be folded: a trailing  *)
(* record without its newline, or a record the reader refuses.                *)
CONSTANTS Torn, Corrupt

Unreadable == {Torn, Corrupt}

(* begin                                                                      *)
Begun(session, pattern, length, fingerprint, revision, armed) ==
  [session |-> session, pattern |-> pattern, length |-> length,
   fingerprint |-> fingerprint, rev |-> revision, nextFlush |-> 0, state |-> "active",
   flushes |-> <<>>, pending |-> NoEvents, lastInput |-> Nil, nextTail |-> 0,
   armed |-> armed, capture |-> Nil, adm |-> Nil]

EventsFit(events, length) == \A k \in DOMAIN events : k < length

(* Everything recorded and not yet committed: the residual of each incomplete *)
(* flush, then the tail.                                                      *)
UnresolvedBatch(j) ==
  Merge(FoldSeq(LAMBDA f, acc : IF f.completed THEN acc ELSE Merge(acc, f.recovery),
                NoEvents, j.flushes),
        j.pending)

AcceptsTail(j) == Recording(j)
AcceptsFlush(j) == j.state = "active"
CommandIsNew(j, cmd) == \A f \in Range(j.flushes) : f.cmd # cmd
-------------------------------------------------------------------------------

(* tail: replaces the pending events.                                         *)
MayTail(j, pattern, revision, input, events) ==
  /\ j.adm # Nil => j.adm.completed
  /\ j.pattern = pattern /\ j.rev = revision
  /\ j.lastInput # Nil => input > j.lastInput
  /\ AcceptsTail(j)
  /\ events # NoEvents /\ EventsFit(events, j.length)
TailRecord(j, input, events) ==
  [kind |-> "tail", seq |-> j.nextTail, input |-> input, pattern |-> j.pattern,
   rev |-> j.rev, events |-> events]
ReadTail(j, r) ==
  IF /\ j.adm # Nil => j.adm.completed
     /\ r.seq = j.nextTail /\ r.pattern = j.pattern /\ r.rev = j.rev
     /\ j.lastInput # Nil => r.input > j.lastInput
     /\ AcceptsTail(j) /\ r.events # NoEvents /\ EventsFit(r.events, j.length)
  THEN [j EXCEPT !.pending = r.events, !.lastInput = r.input, !.nextTail = @ + 1]
  ELSE Corrupt

(* flush: names the batch one command is to commit.  A flush recorded while   *)
(* others are unresolved has to carry their events too.                       *)
FlushKnown(j, cmd, pattern, revision, events) ==
  \E f \in Range(j.flushes) : /\ f.cmd = cmd /\ f.pattern = pattern
                              /\ f.rev = revision /\ f.canonical = events
MayFlush(j, cmd, pattern, revision, events) ==
  /\ events # NoEvents
  /\ CommandIsNew(j, cmd)
  /\ ~BlocksFlush(j) /\ j.pattern = pattern /\ j.rev = revision
  /\ AcceptsFlush(j) /\ j.capture = Nil
  /\ EventsFit(events, j.length)
  /\ UnresolvedBatch(j) # NoEvents => UnresolvedBatch(j) = events
(* Mutant: the flush takes the number of the one before it.                   *)
FlushRecord(j, cmd, events) ==
  [kind |-> "flush", seq |-> j.nextFlush, cmd |-> cmd, pattern |-> j.pattern,
   rev |-> j.rev, canonical |-> events, recovery |-> events, completed |-> FALSE]
ReadFlush(j, r) ==
  IF /\ ~BlocksFlush(j) /\ j.capture = Nil /\ r.seq = j.nextFlush /\ AcceptsFlush(j)
     /\ CommandIsNew(j, r.cmd) /\ r.pattern = j.pattern
     /\ EventsFit(r.canonical, j.length)
     /\ UnresolvedBatch(j) # NoEvents => UnresolvedBatch(j) = r.canonical
  THEN [j EXCEPT !.pending = NoEvents, !.flushes = Append(@, r), !.nextFlush = @ + 1]
  ELSE Corrupt

(* complete: the flush is visible in the Project.  Flushes of the same        *)
(* Pattern and revision recorded up to it are covered by it; what later ones  *)
(* and the tail hold beyond it remains.                                       *)
FlushOf(j, seq) == SelectSeq(j.flushes, LAMBDA f : f.seq = seq)
Completing(f, by) ==
  IF f.completed \/ f.pattern # by.pattern \/ f.rev # by.rev THEN f
  ELSE LET rest == IF f.seq <= by.seq THEN NoEvents ELSE Residual(by.canonical, f.recovery)
       IN  [f EXCEPT !.recovery = rest, !.completed = rest = NoEvents]
CompletionCovers(j, by) ==
  \A f \in Range(j.flushes) :
    ~f.completed /\ f.pattern = by.pattern /\ f.rev = by.rev /\ f.seq <= by.seq
      => Covers(by.canonical, f.recovery)
MayComplete(j, seq) == j.capture = Nil /\ FlushOf(j, seq) # <<>>
CompleteRecord(seq, committed, fingerprint) ==
  [kind |-> "complete", seq |-> seq, committed |-> committed, fingerprint |-> fingerprint]
ReadComplete(j, r) ==
  LET found == FlushOf(j, r.seq) IN
  IF found # <<>> /\ ~found[1].completed /\ CompletionCovers(j, found[1])
  THEN [j EXCEPT !.flushes = [i \in DOMAIN @ |-> Completing(@[i], found[1])],
                 !.pending = Residual(found[1].canonical, @),
                 !.rev = r.committed, !.fingerprint = r.fingerprint]
  ELSE Corrupt

(* state                                                                      *)
MaySetState(j) == j.capture = Nil
ReadState(j, r) == IF j.capture = Nil THEN [j EXCEPT !.state = r.state] ELSE Corrupt

(* rebase: the Project moved on by a settings command.                        *)
MayRebase(j, revision) ==
  revision > j.rev /\ j.capture = Nil /\ Recording(j) /\ AllCompleted(j)
ReadRebase(j, r) ==
  IF j.capture = Nil /\ r.rev > j.rev /\ Recording(j) /\ AllCompleted(j)
  THEN [j EXCEPT !.rev = r.rev] ELSE Corrupt

(* switch: the session goes on recording into another Pattern.                *)
MaySwitch(j, pattern, revision) ==
  /\ ~BlocksSwitch(j, pattern)
  /\ j.pattern # pattern /\ j.rev = revision /\ j.capture = Nil
  /\ Recording(j) /\ AllCompleted(j)
ReadSwitch(j, r) ==
  IF /\ ~BlocksSwitch(j, r.pattern)
     /\ j.capture = Nil /\ r.rev = j.rev /\ r.pattern # j.pattern
     /\ Recording(j) /\ AllCompleted(j)
  THEN [j EXCEPT !.adm = ReconcileSwitch(j), !.pattern = r.pattern, !.length = r.length,
                 !.fingerprint = r.fingerprint, !.state = "active"]
  ELSE Corrupt

(* capture-prepare, capture-complete, capture-abort, capture-disarm: one      *)
(* Sample captured into an empty pad while the session records.               *)
MayPrepareCapture(j, c) ==
  /\ j.armed = c.slot /\ j.capture = Nil /\ c.rev = j.rev
  /\ Recording(j) /\ AllCompleted(j)
ReadCapturePrepare(j, r) ==
  IF MayPrepareCapture(j, r.capture) THEN [j EXCEPT !.capture = r.capture] ELSE Corrupt
MayCompleteCapture(j, cmd, slot, committed) ==
  /\ j.capture # Nil /\ j.capture.cmd = cmd /\ j.capture.slot = slot /\ j.armed = slot
  /\ j.capture.rev = j.rev /\ committed = j.rev + 1
  /\ Recording(j) /\ AllCompleted(j)
ReadCaptureComplete(j, r) ==
  IF MayCompleteCapture(j, r.cmd, r.slot, r.committed)
  THEN [j EXCEPT !.rev = r.committed, !.armed = Nil, !.capture = Nil] ELSE Corrupt
ReadCaptureAbort(j, r) ==
  IF /\ j.capture # Nil /\ j.capture.cmd = r.cmd /\ j.capture.slot = r.slot
     /\ j.armed = r.slot /\ r.rev = j.capture.rev /\ r.rev = j.rev
     /\ Recording(j) /\ AllCompleted(j)
  THEN [j EXCEPT !.armed = Nil, !.capture = Nil] ELSE Corrupt
MayDisarm(j, slot) == Recording(j) /\ j.armed = slot /\ j.capture = Nil
ReadCaptureDisarm(j, r) ==
  IF MayDisarm(j, r.slot) THEN [j EXCEPT !.armed = Nil] ELSE Corrupt

(* admission-...: the reader refuses a record the writer would have found     *)
(* already there.                                                             *)
AdmissionKnown(j, kind, d) ==
  CASE kind = "prepare"   -> PrepareKnown(j, d)
    [] kind = "profile"   -> ProfileKnown(j, d)
    [] kind = "candidate" -> CandidateKnown(j, d)
    [] kind = "applied"   -> SwitchKnown(j, d)
    [] kind = "overlay"   -> OverlayKnown(j, d)
    [] kind = "fence"     -> FenceKnown(j, d)
    [] kind = "close"     -> CloseKnown(j, d)
    [] kind = "transfer"  -> TransferKnown(j, d)
    [] kind = "finish"    -> CompleteKnown(j)
MayAdmit(j, kind, d) ==
  CASE kind = "prepare"   -> PrepareOK(j, d)
    [] kind = "profile"   -> ProfileOK(j, d)
    [] kind = "candidate" -> CandidateOK(j, d)
    [] kind = "applied"   -> SwitchOK(j, d)
    [] kind = "overlay"   -> OverlayOK(j, d)
    [] kind = "fence"     -> FenceOK(j, d)
    [] kind = "close"     -> CloseOK(j, d)
    [] kind = "transfer"  -> TransferOK(j, d)
    [] kind = "finish"    -> CompleteOK(j)
AdmissionApply(j, kind, d) ==
  CASE kind = "prepare"   -> PrepareApply(j, d)
    [] kind = "profile"   -> ProfileApply(j, d)
    [] kind = "candidate" -> CandidateApply(j, d)
    [] kind = "applied"   -> SwitchApply(j, d)
    [] kind = "overlay"   -> OverlayApply(j, d)
    [] kind = "fence"     -> FenceApply(j, d)
    [] kind = "close"     -> CloseApply(j, d)
    [] kind = "transfer"  -> TransferApply(j, d)
    [] kind = "finish"    -> CompleteApply(j)
ReadAdmission(j, r) ==
  IF MayAdmit(j, r.what, r.data) THEN AdmissionApply(j, r.what, r.data) ELSE Corrupt

(* The reader's fold: the Journal after one more record.                      *)
ReadRecord(j, r) ==
  CASE r.kind = "tail"             -> ReadTail(j, r)
    [] r.kind = "flush"            -> ReadFlush(j, r)
    [] r.kind = "complete"         -> ReadComplete(j, r)
    [] r.kind = "state"            -> ReadState(j, r)
    [] r.kind = "rebase"           -> ReadRebase(j, r)
    [] r.kind = "switch"           -> ReadSwitch(j, r)
    [] r.kind = "capture-prepare"  -> ReadCapturePrepare(j, r)
    [] r.kind = "capture-complete" -> ReadCaptureComplete(j, r)
    [] r.kind = "capture-abort"    -> ReadCaptureAbort(j, r)
    [] r.kind = "capture-disarm"   -> ReadCaptureDisarm(j, r)
    [] r.kind = "admission"        -> ReadAdmission(j, r)

(* append_durable: the file afterwards, when the call reports success, and    *)
(* what it may have become when the call fails or the process stops in it.    *)
Appended(j, r) == ReadRecord(j, r)
AfterFailedAppend(j, r) == {j, Torn, ReadRecord(j, r)}
-------------------------------------------------------------------------------
MayRemove(j) ==
  AllCompleted(j) /\ j.pending = NoEvents /\ (j.adm # Nil => j.adm.completed)

(* seal: the snapshot written to recovery/sealed, and whether the recovery    *)
(* listing can read it back.  Every flush of the snapshot is checked against  *)
(* the loop length of the Pattern the session ended in.                       *)
Sealed(j) == [j EXCEPT !.state = "owner_lost"]
SnapshotReadable(j) ==
  /\ EventsFit(j.pending, j.length)
  /\ \A f \in Range(j.flushes) :
       /\ EventsFit(f.canonical, j.length) /\ EventsFit(f.recovery, j.length)
       /\ \A k \in DOMAIN f.recovery : k \in DOMAIN f.canonical /\ f.recovery[k] = f.canonical[k]
  /\ j.adm # Nil => SnapshotValid(j)

(* What the recovery of a sealed snapshot offers to commit.                   *)
RecoveryEvents(j) == UnresolvedBatch(j)
==============================================================================
