---------------------------- MODULE SequenceRecording ----------------------------
(* One Project being recorded into: the facade's Sequence session in memory,  *)
(* its Journal on disk, the sealed recovery candidates, and the Project's     *)
(* revision, Pattern events and receipts.  A handler runs under the           *)
(* sequence mutex and does several durable things in turn; call holds where   *)
(* it is.  Every durable step may fail with the bytes written or not, the     *)
(* process may stop between any two of them, and the session's owner may go   *)
(* away (Abandon) or come back (Begin, ApplyRecovery).                        *)
EXTENDS SequenceJournal

CONSTANTS Pattern,              \* Pattern identities
          Length,               \* Length[p]: loop length of p, in ticks
          Command,              \* command identities chosen by clients
          MaxInput,             \* bound: input sequence numbers of one session
          MaxHead,              \* bound: Project revisions
          MaxFresh,             \* bound: sessions begun and commands generated
          MaxFaults             \* bound: failed durable steps and crashes

RecordingAssumption ==
  /\ Length \in [Pattern -> Nat \ {0}]
  /\ MaxInput \in Nat /\ MaxHead \in Nat /\ MaxFresh \in Nat /\ MaxFaults \in Nat

VARIABLES disk,                 \* the active Journal: Nil, unreadable, or a Journal
          sealed,               \* recovery candidates, in the order they are listed
          head,                 \* Project revision
          truth,                \* truth[p]: committed events of Pattern p
          receipts,             \* flush identities committed with the Project
          mem,                  \* the session in memory, or Nil
          call,                 \* the handler in progress, or Nil
          fresh,                \* generated identities so far
          acked,                \* acked[p]: events reported durable, not yet committed
          faults

vars == <<disk, sealed, head, truth, receipts, mem, call, fresh, acked, faults>>
project == <<head, truth, receipts>>

Onset == UNION {0 .. Length[p] - 1 : p \in Pattern}
Readable == disk # Nil /\ disk \notin Unreadable
Fingerprint(p) == truth[p]
ListReadable == \A i \in DOMAIN sealed : SnapshotReadable(sealed[i].journal)
CandidateOf(session) ==
  LET own == SelectSeq(sealed, LAMBDA c : c.journal.session = session)
  IN  IF own = <<>> THEN Nil ELSE own[1]
Without(s, c) ==
  LET n == CHOOSE i \in DOMAIN s : s[i] = c /\ \A k \in 1 .. i - 1 : s[k] # c IN RemoveAt(s, n)

(* A later seal of the same session under the same reason gets a numbered     *)
(* name, which is listed before the name without a number.                    *)
Filed(j, reason) ==
  LET lost == SelectSeq(sealed, LAMBDA c : c.reason = "owner_lost")
      failed == SelectSeq(sealed, LAMBDA c : c.reason # "owner_lost")
      new == <<[journal |-> Sealed(j), reason |-> reason]>>
  IN  IF reason = "owner_lost" THEN new \o lost \o failed ELSE lost \o new \o failed

Holds(j, p, k) ==
  \/ j.pattern = p /\ k \in DOMAIN j.pending
  \/ \E f \in Range(j.flushes) : ~f.completed /\ f.pattern = p /\ k \in DOMAIN f.recovery

Runtime(session, p, revision) ==
  [session |-> session, pattern |-> p, rev |-> revision, pending |-> NoEvents,
   pressed |-> Nil, inFlight |-> Nil, next |-> Nil, late |-> FALSE,
   lastInput |-> 0, lastCmd |-> Nil]

Held(m) == IF m.pressed = Nil THEN NoEvents ELSE m.pressed :> "held"
FinalizeUnreleased(m, clear) ==
  [m EXCEPT !.pending = Merge(@, Held(m)), !.pressed = IF clear THEN Nil ELSE @]

Init ==
  /\ disk = Nil /\ sealed = <<>> /\ head = 0 /\ receipts = {}
  /\ truth = [p \in Pattern |-> NoEvents]
  /\ mem = Nil /\ call = Nil /\ fresh = 0 /\ faults = 0
  /\ acked = [p \in Pattern |-> NoEvents]
-------------------------------------------------------------------------------
(* Handler steps.  Goto moves the handler in progress; a step that fails      *)
(* ends the handler with an error, except where the code goes on.             *)
Call(op, step, p, cmd) ==
  [op |-> op, step |-> step, pattern |-> p, cmd |-> cmd, candidate |-> Nil,
   due |-> FALSE, was |-> FALSE, replay |-> FALSE, seq |-> Nil]
At(step) == call # Nil /\ call.step = step
Goto(step) == call' = IF step = "done" THEN Nil ELSE [call EXCEPT !.step = step]

OnFailure ==
  CASE call.op = "apply" /\ call.step \in {"append", "commit", "complete"} -> "reseal"
    [] call.op = "abandon" /\ call.step # "unlink" -> "unlink"
    [] OTHER -> "done"
Failed == /\ Goto(OnFailure)
          /\ mem' = IF call.op = "apply" \/ (call.op = "abandon" /\ call.step = "unlink")
                    THEN Nil ELSE mem
Fault == faults < MaxFaults /\ faults' = faults + 1

(* One record appended to the active Journal.                                 *)
Written(record) == disk' = Appended(disk, record) /\ UNCHANGED faults
NotWritten(record) ==
  /\ Fault /\ disk' \in AfterFailedAppend(disk, record)
  /\ Failed /\ UNCHANGED <<sealed, project, fresh, acked>>
Refused == Failed /\ UNCHANGED <<disk, sealed, project, fresh, acked, faults>>

(* Recording.  Of a press only its onset is known; the tail already holds it  *)
(* with the shortest duration.  A press ends the one before it.               *)
Reduced(m, pressed, onset) ==
  LET m1 == [m EXCEPT !.pending = IF m.pressed = Nil THEN @ ELSE Merge(@, m.pressed :> "full"),
                      !.pressed = Nil]
  IN  IF pressed THEN [m1 EXCEPT !.pressed = onset] ELSE m1
RecoverableTail(m) == Merge(m.pending, Held(m))

RecordSequenceEvent(pressed, onset, input) ==
  LET m == Reduced(mem, pressed, onset)
      tail == RecoverableTail(m) IN
  /\ call = Nil /\ mem # Nil /\ Readable
  /\ input > mem.lastInput /\ ~mem.late
  /\ IF pressed THEN onset < Length[mem.pattern] ELSE mem.pressed # Nil
  /\ MayTail(disk, mem.pattern, mem.rev, input, tail) /\ disk.session = mem.session
  /\ UNCHANGED <<sealed, project, call, fresh>>
  /\ \/ /\ Written(TailRecord(disk, input, tail))
        /\ mem' = [m EXCEPT !.lastInput = input]
        /\ acked' = [acked EXCEPT ![mem.pattern] = Residual(truth[mem.pattern], Merge(@, tail))]
     \/ /\ Fault /\ disk' \in AfterFailedAppend(disk, TailRecord(disk, input, tail))
        /\ UNCHANGED <<mem, acked>>

(* Mutant: a replayed command goes on although later input is pending.        *)
LastStepsAtOnce(m, c) ==
  CASE c.op \in {"stop", "apply"} -> "stopped"
    [] c.op = "flush" /\ c.due -> "switch"
    [] c.op = "flush" /\ ~c.due /\ c.was -> "switching"
    [] OTHER -> "done"

(* flush_sequence and stop: first the flush an earlier failed call left in    *)
(* flight, then what is pending now, then the stop or the due switch.         *)
LastSteps(m, c) ==
  CASE c.replay /\ (m.pending # NoEvents \/ m.pressed # Nil) -> "done"
    [] c.op \in {"stop", "apply"} -> "stopped"
    [] c.op = "flush" /\ c.due -> "switch"
    [] c.op = "flush" /\ ~c.due /\ c.was -> "switching"
    [] OTHER -> "done"
NextFlush(m, c) ==
  IF ~c.replay /\ m.pending # NoEvents THEN IF c.was THEN "active" ELSE "append"
  ELSE LastSteps(m, c)

FlushSequence(op, cmd, due) ==
  LET replaying == mem.inFlight # Nil /\ mem.inFlight.cmd = cmd
      m == IF replaying THEN mem
           ELSE [FinalizeUnreleased(mem, op = "stop" \/ due) EXCEPT !.late = due]
      c == [Call(op, "done", mem.pattern, cmd) EXCEPT !.due = due, !.was = mem.next # Nil] IN
  /\ call = Nil /\ mem # Nil /\ mem.lastCmd # cmd /\ head + 2 <= MaxHead
  /\ ~replaying => \A r \in receipts : r.cmd # cmd
  /\ due => mem.next # Nil
  /\ mem.late /\ ~replaying => due
  /\ mem' = m
  /\ LET step == IF mem.inFlight # Nil THEN "commit" ELSE NextFlush(m, c)
     IN  call' = IF step = "done" THEN Nil
                 ELSE [c EXCEPT !.step = step,
                                !.seq = IF mem.inFlight # Nil THEN mem.inFlight.seq ELSE Nil]
  /\ UNCHANGED <<disk, sealed, project, fresh, acked, faults>>

(* append_flush: under an identity the Journal may already hold.              *)
AppendFlush ==
  LET known == FlushKnown(disk, call.cmd, mem.pattern, mem.rev, mem.pending)
      old == CHOOSE f \in Range(disk.flushes) : f.cmd = call.cmd
      record == FlushRecord(disk, call.cmd, mem.pending)
      after(seq) == /\ Goto(IF call.op = "abandon" THEN "reseal" ELSE "commit")
                    /\ UNCHANGED <<sealed, project, fresh, acked>>
                    /\ mem' = [mem EXCEPT !.inFlight = [seq |-> seq, cmd |-> call.cmd,
                                   pattern |-> mem.pattern, canonical |-> mem.pending]] IN
  /\ At("append")
  /\ \/ Readable /\ known /\ UNCHANGED <<disk, faults>> /\ after(old.seq)
     \/ /\ Readable /\ ~known /\ MayFlush(disk, call.cmd, mem.pattern, mem.rev, mem.pending)
        /\ Written(record) /\ after(disk.nextFlush)
     \/ /\ Readable /\ ~known /\ MayFlush(disk, call.cmd, mem.pattern, mem.rev, mem.pending)
        /\ NotWritten(record)
     \/ /\ ~(Readable /\ (known \/ MayFlush(disk, call.cmd, mem.pattern, mem.rev, mem.pending)))
        /\ Refused

(* execute_sequence_flush: commits the batch the Journal names, once.         *)
Settled(a, p) ==             \* a recovery into another Pattern settles what it commits
  IF call.candidate = Nil THEN a
  ELSE [k \in {k \in DOMAIN a : ~Holds(call.candidate.journal, p, k)} |-> a[k]]
Identity(f) == [cmd |-> f.cmd, session |-> disk.session, seq |-> f.seq, pattern |-> f.pattern]
CommitFlush ==
  LET f == FlushOf(disk, mem.inFlight.seq)[1]
      found == Readable /\ FlushOf(disk, mem.inFlight.seq) # <<>>
      done == found /\ Identity(f) \in receipts
      bound == found /\ ~done /\ \E r \in receipts : r.cmd = f.cmd
      commit == /\ head' = head + 1
                /\ truth' = [truth EXCEPT ![f.pattern] = Merge(@, f.canonical)]
                /\ receipts' = receipts \union {Identity(f)}
                /\ acked' = [p \in Pattern |->
                      IF p = f.pattern THEN Residual(f.canonical, acked[p])
                      ELSE Settled(acked[p], p)] IN
  /\ At("commit") /\ UNCHANGED <<disk, sealed, fresh>>
  /\ \/ done /\ Goto("complete") /\ UNCHANGED <<project, acked, mem, faults>>
     \/ /\ found /\ ~done /\ ~bound /\ f.rev = head /\ head < MaxHead
        /\ commit
        /\ \/ Goto("complete") /\ UNCHANGED <<mem, faults>>
           \/ Fault /\ Failed
     \/ found /\ Fault /\ Failed /\ UNCHANGED <<project, acked>>
     \/ /\ found => ~done /\ (bound \/ f.rev # head)
        /\ Failed /\ UNCHANGED <<project, acked, faults>>

(* complete_flush and what the session in memory becomes.                     *)
CompleteFlush ==
  LET f == mem.inFlight
      record == CompleteRecord(f.seq, head, Fingerprint(f.pattern))
      retried == call.seq # Nil
      m == [mem EXCEPT !.rev = head, !.inFlight = Nil, !.lastCmd = f.cmd,
                       !.pending = IF retried THEN Residual(f.canonical, @) ELSE NoEvents]
      c == [call EXCEPT !.replay = retried /\ f.cmd = call.cmd, !.seq = Nil]
      after == /\ mem' = m
               /\ LET step == IF retried THEN NextFlush(m, c) ELSE LastSteps(m, c)
                  IN  call' = IF step = "done" THEN Nil ELSE [c EXCEPT !.step = step]
               /\ UNCHANGED <<sealed, project, fresh, acked>> IN
  /\ At("complete")
  /\ \/ /\ Readable /\ MayComplete(disk, f.seq) /\ FlushOf(disk, f.seq)[1].completed
        /\ after /\ UNCHANGED <<disk, faults>>
     \/ /\ Readable /\ MayComplete(disk, f.seq) /\ ~FlushOf(disk, f.seq)[1].completed
        /\ ((Written(record) /\ after) \/ NotWritten(record))
     \/ ~Readable /\ Refused

(* set_state; the state the Journal is already in is only synced again.       *)
SetState ==
  LET target == IF call.step = "stopped" THEN "stopped"
                ELSE IF call.step = "active" THEN "active" ELSE "switching"
      record == [kind |-> "state", state |-> target]
      after == /\ Goto(CASE target = "stopped" -> "unlink"
                         [] target = "active" -> "append"
                         [] OTHER -> "done")
               /\ UNCHANGED <<sealed, project, fresh, acked, mem>> IN
  /\ call # Nil /\ call.step \in {"stopped", "active", "switching"}
  /\ \/ Readable /\ (disk.state = target \/ MaySetState(disk)) /\ Written(record) /\ after
     \/ Readable /\ NotWritten(record)
     \/ ~Readable /\ Refused

(* remove_active_if_complete: the last step of a stop, of an applied          *)
(* recovery, of an abandoned session and of a reconciliation.                 *)
RemoveActive ==
  LET gone == CASE call.op \in {"begin", "author"} -> "list"
                [] call.op = "apply" -> "drop" [] OTHER -> "done" IN
  /\ At("unlink") /\ UNCHANGED <<sealed, project, fresh, acked>>
  /\ \/ /\ Readable /\ MayRemove(disk) /\ disk' = Nil
        /\ Goto(gone) /\ mem' = Nil /\ UNCHANGED faults
     \/ /\ Readable /\ MayRemove(disk) /\ disk' \in {disk, Nil} /\ Fault /\ Failed
     \/ ~(Readable /\ MayRemove(disk)) /\ Failed /\ UNCHANGED <<disk, faults>>

(* activate_switched_pattern, at or after the boundary.                       *)
SwitchPattern ==
  LET record == [kind |-> "switch", pattern |-> mem.next, length |-> Length[mem.next],
                 fingerprint |-> Fingerprint(mem.next), rev |-> head] IN
  /\ At("switch")
  /\ \/ /\ Readable /\ MaySwitch(disk, mem.next, head)
        /\ \/ /\ Written(record) /\ Goto("done")
              /\ mem' = [mem EXCEPT !.pattern = mem.next, !.rev = head, !.next = Nil,
                                    !.late = FALSE, !.pending = NoEvents, !.pressed = Nil]
              /\ UNCHANGED <<sealed, project, fresh, acked>>
           \/ NotWritten(record)
     \/ ~(Readable /\ MaySwitch(disk, mem.next, head)) /\ Refused

(* request_sequence_switch: also moves a boundary that passed unflushed.      *)
RequestSwitch(p) ==
  LET record == [kind |-> "state", state |-> "switching"] IN
  /\ call = Nil /\ mem # Nil /\ Readable /\ mem.next = Nil /\ p # mem.pattern
  /\ MaySetState(disk)
  /\ UNCHANGED <<sealed, project, call, fresh, acked>>
  /\ \/ Written(record) /\ mem' = [mem EXCEPT !.next = p]
     \/ Fault /\ disk' \in AfterFailedAppend(disk, record) /\ UNCHANGED mem
MoveBoundary ==
  /\ call = Nil /\ mem # Nil /\ mem.next # Nil /\ mem.late
  /\ mem' = [mem EXCEPT !.late = FALSE]
  /\ UNCHANGED <<disk, sealed, project, call, fresh, acked, faults>>

(* sequence.settings.update: the Project moves on and the Journal follows.    *)
SettingsReceipt(revision) == [cmd |-> <<"settings", revision>>, session |-> Nil,
                              seq |-> Nil, pattern |-> Nil]
UpdateSettings ==
  LET replay == SettingsReceipt(mem.rev) \in receipts IN
  /\ call = Nil /\ mem # Nil /\ Readable /\ Recording(disk)
  /\ replay \/ (mem.rev = head /\ head < MaxHead)
  /\ head' = IF replay THEN head ELSE head + 1
  /\ receipts' = receipts \union {SettingsReceipt(mem.rev)}
  /\ call' = Call("settings", "rebase", Nil, Nil)
  /\ UNCHANGED <<disk, sealed, truth, mem, fresh, acked, faults>>
RebaseJournal ==
  LET record == [kind |-> "rebase", rev |-> head]
      after == /\ mem' = [mem EXCEPT !.rev = head] /\ Goto("done")
               /\ UNCHANGED <<sealed, project, fresh, acked>> IN
  /\ At("rebase")
  /\ \/ Readable /\ head <= disk.rev /\ after /\ UNCHANGED <<disk, faults>>
     \/ Readable /\ MayRebase(disk, head) /\ ((Written(record) /\ after) \/ NotWritten(record))
     \/ ~(Readable /\ (head <= disk.rev \/ MayRebase(disk, head))) /\ Refused
-------------------------------------------------------------------------------
(* reconcile_sequence_recovery: flushes the Project shows are completed, then *)
(* what is left is sealed, or the Journal is removed when nothing is.         *)
Visible == {f \in Range(disk.flushes) : ~f.completed /\ Identity(f) \in receipts}
HasPending == disk.pending # NoEvents \/ ~AllCompleted(disk) \/ disk.flushes = <<>>

Reconcile ==
  LET f == CHOOSE f \in Visible : \A g \in Visible : f.seq <= g.seq
      record == CompleteRecord(f.seq, head, Fingerprint(f.pattern)) IN
  /\ At("reconcile") /\ Readable
  /\ \/ /\ Visible # {}
        /\ \/ /\ Written(record)
              /\ UNCHANGED <<call, mem, sealed, project, fresh, acked>>
           \/ NotWritten(record)
     \/ /\ Visible = {} /\ Goto(IF HasPending THEN "seal" ELSE "unlink")
        /\ UNCHANGED <<disk, mem, sealed, project, fresh, acked, faults>>

(* seal: the candidate is created, then the active Journal is removed.        *)
Seal ==
  LET reason == IF call.op = "apply" THEN "recovery_failed" ELSE "owner_lost" IN
  /\ call # Nil /\ call.step \in {"seal", "reseal"} /\ Readable
  /\ UNCHANGED <<disk, project, fresh, acked>>
  /\ \/ /\ sealed' = Filed(disk, reason)
        /\ Goto(IF call.step = "seal" THEN "sealed" ELSE "resealed")
        /\ UNCHANGED <<mem, faults>>
     \/ Fault /\ sealed' \in {sealed, Filed(disk, reason)} /\ Failed
SealFails ==
  /\ At("reseal") /\ ~Readable /\ Refused
RemoveSealed ==
  /\ call # Nil /\ call.step \in {"sealed", "resealed"}
  /\ UNCHANGED <<sealed, project, fresh, acked>>
  /\ \/ /\ disk' = Nil /\ UNCHANGED <<mem, faults>>
        /\ Goto(CASE call.step = "sealed" -> "list"
                  [] call.op = "abandon" -> "unlink" [] OTHER -> "done")
     \/ Fault /\ disk' \in {disk, Nil} /\ Failed

(* The recovery listing both begin and other authoring wait for.              *)
ListRecoverable ==
  /\ At("list")
  /\ Goto(IF ~ListReadable THEN "done" ELSE IF call.op = "begin" THEN "create" ELSE "edit")
  /\ UNCHANGED <<disk, mem, sealed, project, fresh, acked, faults>>

(* begin_sequence; the Journal is created once the Project was reconciled.    *)
BeginSequence(p) ==
  /\ call = Nil /\ mem = Nil /\ disk \notin Unreadable /\ fresh < MaxFresh
  /\ call' = Call("begin", IF disk = Nil THEN "list" ELSE "reconcile", p, Nil)
  /\ UNCHANGED <<disk, mem, sealed, project, fresh, acked, faults>>
CreateJournal ==
  LET p == call.pattern
      session == IF call.op = "apply" THEN call.candidate.journal.session ELSE fresh
      made == Begun(session, p, Length[p], Fingerprint(p), head, Nil)
      events == IF call.op = "apply" THEN RecoveryEvents(call.candidate.journal) ELSE NoEvents IN
  /\ At("create") /\ UNCHANGED <<sealed, project, acked>>
  /\ fresh' = fresh + 1
  /\ \/ /\ disk' = made /\ UNCHANGED faults
        /\ mem' = [Runtime(session, p, head) EXCEPT !.pending = events]
        /\ call' = CASE call.op = "begin" -> Nil
                     [] call.op = "apply" /\ events = NoEvents -> [call EXCEPT !.step = "stopped"]
                     [] OTHER -> [call EXCEPT !.step = "append", !.cmd = <<"recovery", fresh>>]
     \/ Fault /\ disk' \in {Nil, made} /\ call' = Nil /\ UNCHANGED mem

(* Any other authoring command settles an orphaned Journal first.             *)
EditPattern(p) ==
  /\ call = Nil /\ mem = Nil /\ disk \notin Unreadable /\ head < MaxHead
  /\ call' = Call("author", IF disk = Nil THEN "list" ELSE "reconcile", p, Nil)
  /\ UNCHANGED <<disk, mem, sealed, project, fresh, acked, faults>>
CommitEdit ==
  /\ At("edit") /\ Goto("done")
  /\ head' = head + 1 /\ truth' = [truth EXCEPT ![call.pattern] = NoEvents]
  /\ UNCHANGED <<disk, mem, sealed, receipts, fresh, acked, faults>>

(* apply_sequence_recovery: the candidate's events are recorded and flushed   *)
(* under a session of their own, and only then is the candidate removed.      *)
ApplyRecovery(session, destination) ==
  LET c == CandidateOf(session)
      p == IF destination = Nil THEN c.journal.pattern ELSE destination IN
  /\ call = Nil /\ mem = Nil /\ disk = Nil /\ ListReadable /\ c # Nil
  /\ fresh < MaxFresh /\ head < MaxHead
  /\ destination = Nil => Fingerprint(p) = c.journal.fingerprint
  /\ call' = [Call("apply", "create", p, Nil) EXCEPT !.candidate = c]
  /\ UNCHANGED <<disk, mem, sealed, project, fresh, acked, faults>>
DropCandidate ==
  /\ At("drop") /\ Goto("done") /\ UNCHANGED <<disk, mem, project, fresh, acked>>
  /\ \/ sealed' = Without(sealed, call.candidate) /\ UNCHANGED faults
     \/ Fault /\ sealed' \in {sealed, Without(sealed, call.candidate)}

(* discard_sequence_recovery                                                  *)
DiscardRecovery(session) ==
  LET c == CandidateOf(session) IN
  /\ call = Nil /\ ListReadable /\ c # Nil
  /\ sealed' = Without(sealed, c)
  /\ acked' = [p \in Pattern |->
                [k \in {k \in DOMAIN acked[p] : ~Holds(c.journal, p, k)} |-> acked[p][k]]]
  /\ UNCHANGED <<disk, mem, project, call, fresh, faults>>

(* abandon_sequence_sessions: the facade is destroyed while it records.       *)
Abandon ==
  LET m == FinalizeUnreleased(mem, TRUE) IN
  /\ call = Nil /\ mem # Nil /\ fresh < MaxFresh
  /\ mem' = m /\ fresh' = fresh + 1
  /\ call' = IF m.pending = NoEvents THEN Call("abandon", "stopped", m.pattern, Nil)
             ELSE Call("abandon", "append", m.pattern, <<"recovery", fresh>>)
  /\ UNCHANGED <<disk, sealed, project, acked, faults>>

(* The process stops; a handler in progress is cut off between two steps.     *)
Crash ==
  /\ Fault /\ mem' = Nil /\ call' = Nil
  /\ UNCHANGED <<disk, sealed, project, fresh, acked>>

(* query_sequence_status and the overlay query only read.                     *)
Query == call = Nil /\ UNCHANGED vars

Next ==
  \/ \E p \in Pattern : BeginSequence(p) \/ EditPattern(p) \/ RequestSwitch(p)
  \/ \E input \in 1 .. MaxInput :
       \/ \E onset \in Onset : RecordSequenceEvent(TRUE, onset, input)
       \/ RecordSequenceEvent(FALSE, Nil, input)
  \/ \E op \in {"flush", "stop"} : \E cmd \in Command : \E due \in BOOLEAN :
       FlushSequence(op, cmd, due)
  \/ AppendFlush \/ CommitFlush \/ CompleteFlush \/ SetState \/ RemoveActive
  \/ SwitchPattern \/ MoveBoundary \/ UpdateSettings \/ RebaseJournal
  \/ Reconcile \/ Seal \/ SealFails \/ RemoveSealed \/ ListRecoverable
  \/ CreateJournal \/ CommitEdit \/ DropCandidate \/ Abandon \/ Crash \/ Query
  \/ \E session \in 0 .. MaxFresh : \E p \in Pattern \union {Nil} :
       ApplyRecovery(session, p)
  \/ \E session \in 0 .. MaxFresh : DiscardRecovery(session)

Spec == Init /\ [][Next]_vars
-------------------------------------------------------------------------------
TypeOK ==
  /\ head \in 0 .. MaxHead /\ fresh \in 0 .. MaxFresh + 1 /\ faults \in 0 .. MaxFaults
  /\ \A p \in Pattern : DOMAIN truth[p] \subseteq 0 .. Length[p] - 1
  /\ mem # Nil => mem.pattern \in Pattern /\ mem.pressed \in Nat \union {Nil}
  /\ call # Nil => call.pattern \in Pattern \union {Nil}
  /\ Readable => disk.pattern \in Pattern /\ disk.rev \in 0 .. head

(* Every record a writer was allowed to append, the reader accepts: the       *)
(* checks made before an append_* and those of the fold over the file agree,  *)
(* whatever failed or was retried before (read_journal, append_flush).        *)
JournalReadable == disk # Corrupt

(* An event whose recording was acknowledged is committed as it was           *)
(* acknowledged, or the live Journal holds its note for its Pattern, or a     *)
(* recovery candidate does, until the performer discards it                   *)
(* (record_sequence_event, reconcile_sequence_recovery, seal, apply).         *)
NoLoss ==
  \A p \in Pattern : \A k \in DOMAIN acked[p] :
    \/ disk \in Unreadable
    \/ Readable /\ Holds(disk, p, k)
    \/ \E i \in DOMAIN sealed : Holds(sealed[i].journal, p, k)

(* What the reader of a candidate refuses although the writer accepted it:    *)
(* notes of an earlier, longer Pattern of the session are checked against the *)
(* length of the one it ended in.  They are committed already, or were never  *)
(* acknowledged: the tail of an append that failed stays through a switch.    *)
Outgrown(j) ==
  \/ \E f \in Range(j.flushes) : f.completed /\ f.pattern # j.pattern /\ ~EventsFit(f.canonical, j.length)
  \/ \E k \in DOMAIN j.pending : k >= j.length /\ \A p \in Pattern : k \notin DOMAIN acked[p]

(* Every sealed candidate can be read back by the recovery listing, which     *)
(* begin, every other authoring command and a discard wait for                *)
(* (parse_journal_snapshot, list_recoverable), but for those notes of a       *)
(* session that switched to a shorter Pattern.                                *)
CandidatesReadable ==
  \A i \in DOMAIN sealed : SnapshotReadable(sealed[i].journal) \/ Outgrown(sealed[i].journal)
==============================================================================
