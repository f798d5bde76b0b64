-------------------------- MODULE PerformanceRecording --------------------------
(* A take being recorded: the facade's session in memory (run), the           *)
(* Performance Journal (disk), the sealed recovery candidates, and the        *)
(* Project's revision, drafts and receipts.  Session s records into draft s.  *)
(* A handler does several durable things in turn under the sequence mutex;    *)
(* call holds where it is.  A durable step may fail with its bytes written,   *)
(* half written or absent, the process may stop between any two of them and   *)
(* come back without the session, and edits may be made before recovery is.   *)
EXTENDS PerformanceJournal

CONSTANTS Headered,             \* whether takes use the headered profile
          Command,              \* identities of flush, rebase, save and recovery commands
          Request,              \* identities of stop and discard requests
          MaxSessions,          \* bound: takes begun
          MaxInput,             \* bound: input sequence numbers
          MaxHead,              \* bound: Project revisions
          MaxEdits,             \* bound: other commands committed
          MaxFaults             \* bound: failed durable steps and crashes

PerformanceAssumption ==
  /\ Headered \in BOOLEAN
  /\ MaxSessions \in Nat /\ MaxInput \in Nat /\ MaxHead \in Nat
  /\ MaxEdits \in Nat /\ MaxFaults \in Nat

VARIABLES disk,                 \* the active Journal: Nil, unreadable, or a Journal
          sealed,               \* recovery candidates (one per session)
          head, perf, receipts, \* the Project: revision, drafts, committed commands
          run,                  \* the session in memory, or Nil
          owner,                \* the session whose owner lock this process holds
          call,                 \* the handler in progress, or Nil
          input,                \* input sequence numbers given out
          begun, edits, faults,
          acked, dropped        \* events reported recorded; events discarded on request

vars == <<disk, sealed, head, perf, receipts, run, owner, call, input, begun, edits, faults,
          acked, dropped>>
project == <<head, perf, receipts>>
counters == <<begun, edits>>

Session == 1 .. MaxSessions
Gone == [exists |-> FALSE, events |-> {}, twice |-> {}]
Readable == disk # Nil /\ disk \notin Unreadable
ListReadable == \A c \in sealed : SnapshotReadable(c)
Committed(cmd, kind, s) == \E r \in receipts : r.cmd = cmd /\ r.kind = kind /\ r.session = s
CommandTaken(cmd) == \E r \in receipts : r.cmd = cmd
Candidate(s) == {c \in sealed : c.session = s}

(* A handler ends: it returns and releases the mutex.                         *)
Returns == call' = Nil
At(op, step) == call # Nil /\ call.op = op /\ call.at = step
Next_(step) == call' = [call EXCEPT !.at = step]

(* One durable step that goes wrong: the caller sees an error, the file may   *)
(* hold the record, part of it, or nothing.                                   *)
Fault == faults < MaxFaults /\ faults' = faults + 1
Written(j) == disk' = j /\ UNCHANGED faults
WriteFails(j) == Fault /\ disk' \in {disk, j, Torn}

(* A command commits: its events join the draft.  A headered draft refuses    *)
(* a sequence number it already holds.                                        *)
Joined(p, events) ==
  [p EXCEPT !.events = @ \cup events, !.twice = @ \cup (p.events \cap events)]
Admissible(p, events) == p.exists /\ (Headered => p.events \cap events = {})
CommitTo(s, p, cmd, kind) ==
  /\ perf' = [perf EXCEPT ![s] = p] /\ head' = head + 1
  /\ receipts' = receipts \cup {[cmd |-> cmd, kind |-> kind, session |-> s, rev |-> head + 1]}
Commits(s, p, cmd, kind) == CommitTo(s, p, cmd, kind) /\ UNCHANGED faults
CommitFails(s, p, cmd, kind) == Fault /\ (CommitTo(s, p, cmd, kind) \/ UNCHANGED project)
-------------------------------------------------------------------------------
(* begin_performance_draft: protect the owner, publish the Journal, commit    *)
(* the draft, complete the begin.  It refuses before publishing what the      *)
(* commit would refuse.  A retry finds its own Journal and goes on from it.   *)
BeginPerformance(s) ==
  /\ call = Nil /\ run = Nil /\ begun < MaxSessions /\ s = begun + 1 /\ head < MaxHead
  /\ disk = Nil /\ owner = Nil
  /\ begun' = s
  /\ call' = [op |-> "begin", at |-> "journal", session |-> s]
  /\ UNCHANGED <<disk, sealed, project, run, owner, input, edits, faults, acked, dropped>>
ReattachPerformance(s) ==
  /\ call = Nil /\ run = Nil /\ Readable /\ owner = Nil
  /\ disk.begun /\ disk.session = s /\ disk.state # "stopped"
  /\ ~perf[s].exists => head = disk.rev
  /\ call' = [op |-> "begin", at |-> "close", session |-> s]
  /\ UNCHANGED <<disk, sealed, project, run, owner, input, counters, faults, acked, dropped>>

Start(s, j, revision) ==
  run' = [session |-> s, rev |-> revision, pending |-> j.pending, open |-> NoGestures,
          next |-> j.next, frozen |-> Nil, published |-> FALSE, recovery |-> FALSE]

BeginJournal ==
  /\ At("begin", "journal")
  /\ LET j == Draft(call.session, head, {})
     IN  \/ Written(j) /\ Next_("commit")
         \/ Fault /\ disk' \in {disk, j} /\ Returns
  /\ UNCHANGED <<sealed, project, run, owner, input, counters, acked, dropped>>
BeginCommit ==
  /\ At("begin", "commit")
  /\ IF perf[call.session].exists
     THEN UNCHANGED <<project, faults>> /\ Next_("complete")
     ELSE LET draft == [Gone EXCEPT !.exists = TRUE]
          IN  \/ Commits(call.session, draft, call.session, "begin") /\ Next_("complete")
              \/ CommitFails(call.session, draft, call.session, "begin") /\ Returns
  /\ UNCHANGED <<disk, sealed, run, owner, input, counters, acked, dropped>>
BeginComplete ==
  /\ At("begin", "complete")
  /\ LET s == call.session
         j == ReadBeginComplete(disk, head, perf[s].events)
     IN  IF disk.state = "recovery_required" /\ disk.rebases = <<>>
         THEN IF head # disk.rev + 1 THEN UNCHANGED <<disk, faults, run, owner>>
              ELSE \/ Written(j) /\ Start(s, j, head) /\ owner' = s
                   \/ WriteFails(j) /\ UNCHANGED <<run, owner>>
         ELSE /\ Start(s, disk, IF Headered THEN head ELSE disk.rev) /\ owner' = s
              /\ UNCHANGED <<disk, faults>>
  /\ Returns
  /\ UNCHANGED <<sealed, project, input, counters, acked, dropped>>
-------------------------------------------------------------------------------
(* performance.record.event.  A press or an engage opens a gesture, a release *)
(* closes it; the Pad's hit carries the number of its press, a Filter change  *)
(* one of its own.                                                            *)
Gesture == {"pad", "filter"}
Opening(g, n) == [events |-> IF g = "pad" THEN {} ELSE {n}, kept |-> {n},
                  open |-> [h \in DOMAIN run.open \cup {g} |-> IF h = g THEN n ELSE run.open[h]]]
Closing(g, n) == [events |-> IF g = "pad" THEN {run.open[g]} ELSE {n}, kept |-> {},
                  open |-> [h \in DOMAIN run.open \ {g} |-> run.open[h]]]
Frozen(delta, n) ==
  [receipt |-> [expected |-> run.next, input |-> n, ack |-> delta.events \cup delta.kept],
   pending |-> run.pending \cup delta.events, open |-> delta.open]
Taken(frozen) == [run EXCEPT !.pending = frozen.pending, !.open = frozen.open]
TailOf(frozen) ==
  ReadTail(disk, run.rev, frozen.receipt.input, frozen.pending, frozen.open,
           IF Headered THEN frozen.receipt ELSE Nil)

Ready == call = Nil /\ run # Nil /\ ~run.recovery
PerformanceEvent ==
  /\ Ready /\ run.frozen = Nil /\ Readable /\ input < MaxInput
  /\ Headered => disk.adm = Nil /\ disk.next = run.next
  /\ input' = input + 1
  /\ \E g \in Gesture :
       /\ ~Headered => g = "pad"
       /\ call' = [op |-> "event", at |-> "tail",
                   frozen |-> Frozen(IF g \in DOMAIN run.open THEN Closing(g, input + 1)
                                     ELSE Opening(g, input + 1), input + 1)]
  /\ UNCHANGED <<disk, sealed, project, run, owner, counters, faults, acked, dropped>>

(* append_performance_tail: a failed append is re-read and rewritten once, so *)
(* only a second failure is seen: known absent when the file is unchanged,    *)
(* otherwise unknown.                                                         *)
EventTail ==
  /\ At("event", "tail")
  /\ LET f == call.frozen
         held == IF Headered THEN [run EXCEPT !.frozen = f] ELSE run
     IN  IF MayTail(disk, run.rev, f.receipt.input, IF Headered THEN f.receipt ELSE Nil)
         THEN \/ /\ Written(TailOf(f)) /\ run' = Taken(f)
                 /\ IF Headered THEN Next_("complete") /\ UNCHANGED acked
                    ELSE Returns /\ acked' = acked \cup f.receipt.ack
              \/ /\ Fault /\ disk' = disk /\ run' = held
                 /\ Returns /\ UNCHANGED acked
              \/ /\ Fault /\ disk' \in {TailOf(f), Torn}
                 /\ run' = [(IF Headered THEN held ELSE Taken(f)) EXCEPT !.recovery = TRUE]
                 /\ Returns /\ UNCHANGED acked
         ELSE run' = held /\ Returns /\ UNCHANGED <<disk, faults, acked>>
  /\ UNCHANGED <<sealed, project, owner, input, counters, dropped>>

(* complete_headered_admission, after the engine took the gesture or refused  *)
(* it.  The result is durable with the receipt.                               *)
Result == {"published", "no_audio"}
Completes(f, result) ==
  LET j == ReadAdmitted(disk, f.receipt, result)
      kept == [Taken(f) EXCEPT !.frozen = f, !.published = TRUE]
      over == [Taken(f) EXCEPT !.frozen = Nil, !.published = FALSE, !.recovery = FALSE,
                               !.next = f.receipt.expected + 1]
  IN  IF Readable /\ MayAdmit(disk, f.receipt)
      THEN \/ Written(j) /\ run' = over /\ acked' = acked \cup f.receipt.ack
           \/ Fault /\ disk' = disk /\ run' = kept /\ UNCHANGED acked
           \/ /\ Fault /\ disk' \in {j, Torn} /\ UNCHANGED acked
              /\ run' = [kept EXCEPT !.recovery = TRUE]
      ELSE /\ UNCHANGED <<disk, faults>>
           /\ IF Readable /\ AdmittedBefore(disk, f.receipt, result)
              THEN run' = over /\ acked' = acked \cup f.receipt.ack
              ELSE run' = kept /\ UNCHANGED acked
EventComplete ==
  /\ At("event", "complete")
  /\ \E result \in Result : Completes(call.frozen, result)
  /\ Returns
  /\ UNCHANGED <<sealed, project, owner, input, counters, dropped>>

(* resume_frozen_admission: the client repeats the identical request.  Once   *)
(* the engine has been asked, only the completion is repeated.                *)
ResumeAdmission ==
  /\ call = Nil /\ run # Nil /\ run.frozen # Nil
  /\ LET f == run.frozen IN
     IF run.published
     THEN Completes(f, "published") /\ UNCHANGED call
     ELSE /\ Readable
          /\ \/ /\ disk.adm = f.receipt /\ disk.pending = f.pending /\ disk.open = f.open
                /\ run' = Taken(f)
                /\ call' = [op |-> "event", at |-> "complete", frozen |-> f]
                /\ UNCHANGED <<disk, faults, acked>>
             \/ /\ disk.adm # f.receipt
                /\ call' = [op |-> "event", at |-> "tail", frozen |-> f]
                /\ UNCHANGED <<disk, faults, run, acked>>
  /\ UNCHANGED <<sealed, project, owner, input, counters, dropped>>
-------------------------------------------------------------------------------
(* performance.record.flush: name the batch, commit it, complete it.          *)
PerformanceFlush(cmd) ==
  /\ Ready /\ run.frozen = Nil /\ run.pending # {} /\ head < MaxHead
  /\ call' = [op |-> "flush", at |-> "append", cmd |-> cmd]
  /\ UNCHANGED <<disk, sealed, project, run, owner, input, counters, faults, acked, dropped>>
FlushAppend ==
  /\ At("flush", "append")
  /\ LET j == ReadFlush(disk, call.cmd, run.rev, run.pending)
     IN  IF ~Readable \/ disk.state = "recovery_required"
         THEN Returns /\ UNCHANGED <<disk, faults>>
         ELSE IF FlushKnown(disk, call.cmd, run.rev, run.pending)
         THEN Next_("commit") /\ UNCHANGED <<disk, faults>>
         ELSE IF MayFlush(disk, call.cmd, run.rev, run.pending)
         THEN \/ Written(j) /\ Next_("commit")
              \/ WriteFails(j) /\ Returns
         ELSE Returns /\ UNCHANGED <<disk, faults>>
  /\ UNCHANGED <<sealed, project, run, owner, input, counters, acked, dropped>>
FlushCommit ==
  /\ At("flush", "commit")
  /\ LET s == run.session
         f == FlushNamed(disk, call.cmd)
     IN  IF Committed(call.cmd, "flush", s) THEN Next_("complete") /\ UNCHANGED <<project, faults>>
         ELSE IF CommandTaken(call.cmd) \/ ~perf[s].exists \/ perf[s].events # disk.fp
                 \/ head # f.rev \/ ~Admissible(perf[s], f.events)
         THEN Returns /\ UNCHANGED <<project, faults>>
         ELSE \/ Commits(s, Joined(perf[s], f.events), call.cmd, "flush") /\ Next_("complete")
              \/ CommitFails(s, Joined(perf[s], f.events), call.cmd, "flush") /\ Returns
  /\ UNCHANGED <<disk, sealed, run, owner, input, counters, acked, dropped>>
FlushComplete ==
  /\ At("flush", "complete")
  /\ LET s == run.session
         j == ReadComplete(disk, call.cmd, head, perf[s].events)
         after == [run EXCEPT !.pending = {}, !.rev = head]
     IN  IF FlushNamed(disk, call.cmd).completed
         THEN run' = after /\ UNCHANGED <<disk, faults>>
         ELSE IF ~MayComplete(disk, call.cmd, head) THEN UNCHANGED <<disk, faults, run>>
         ELSE \/ Written(j) /\ run' = after
              \/ WriteFails(j) /\ UNCHANGED run
  /\ Returns
  /\ UNCHANGED <<sealed, project, owner, input, counters, acked, dropped>>
-------------------------------------------------------------------------------
(* execute_performance_rebase: prepare, commit the setting, complete.         *)
PerformanceRebase(cmd) ==
  /\ call = Nil /\ run # Nil /\ head < MaxHead
  /\ call' = [op |-> "rebase", at |-> "prepare", cmd |-> cmd]
  /\ UNCHANGED <<disk, sealed, project, run, owner, input, counters, faults, acked, dropped>>
RebasePrepare ==
  /\ At("rebase", "prepare")
  /\ LET known == Readable /\ RebaseNamed(disk, call.cmd) # Nil
         j == ReadRebasePrepare(disk, call.cmd, run.rev)
     IN  IF known /\ RebaseNamed(disk, call.cmd).from = run.rev
         THEN Next_("commit") /\ UNCHANGED <<disk, faults>>
         ELSE IF Readable /\ ~known /\ MayRebase(disk, call.cmd, run.rev)
         THEN \/ Written(j) /\ Next_("commit")
              \/ WriteFails(j) /\ Returns
         ELSE Returns /\ UNCHANGED <<disk, faults>>
  /\ UNCHANGED <<sealed, project, run, owner, input, counters, acked, dropped>>
RebaseCommit ==
  /\ At("rebase", "commit")
  /\ LET s == run.session IN
     IF Committed(call.cmd, "rebase", s) THEN Next_("complete") /\ UNCHANGED <<project, faults>>
     ELSE IF CommandTaken(call.cmd) \/ head # run.rev
     THEN Returns /\ UNCHANGED <<project, faults>>
     ELSE \/ Commits(s, perf[s], call.cmd, "rebase") /\ Next_("complete")
          \/ CommitFails(s, perf[s], call.cmd, "rebase") /\ Returns
  /\ UNCHANGED <<disk, sealed, run, owner, input, counters, acked, dropped>>
RebaseComplete ==
  /\ At("rebase", "complete")
  /\ LET j == ReadRebaseComplete(disk, call.cmd, head, perf[run.session].events)
         after == [run EXCEPT !.rev = head]
     IN  IF RebaseNamed(disk, call.cmd).completed
         THEN run' = after /\ UNCHANGED <<disk, faults>>
         ELSE IF ~MayRebaseComplete(disk, call.cmd, head) THEN UNCHANGED <<disk, faults, run>>
         ELSE \/ Written(j) /\ run' = after
              \/ WriteFails(j) /\ UNCHANGED run
  /\ Returns
  /\ UNCHANGED <<sealed, project, owner, input, counters, acked, dropped>>
-------------------------------------------------------------------------------
(* performance.record.stop: close what is open as one last admission, then    *)
(* append the stop.  A request without a session in memory only reads or      *)
(* repeats the stop.                                                          *)
Releases == {run.open[g] : g \in DOMAIN run.open \cap {"pad"}}
             \cup {input + 1 : g \in DOMAIN run.open \cap {"filter"}}
PerformanceStop(request) ==
  /\ call = Nil /\ Readable
  /\ run # Nil => ~run.recovery /\ run.frozen = Nil
  /\ IF run # Nil /\ run.open # NoGestures
     THEN /\ input < MaxInput /\ input' = input + 1
          /\ call' = [op |-> "stop", at |-> "close", request |-> request, was |-> run,
                      frozen |-> Frozen([events |-> Releases, kept |-> {}, open |-> NoGestures],
                                       input + 1)]
     ELSE /\ call' = [op |-> "stop", at |-> "stop", request |-> request]
          /\ UNCHANGED input
  /\ UNCHANGED <<disk, sealed, project, run, owner, counters, faults, acked, dropped>>
StopClose ==
  /\ At("stop", "close")
  /\ LET f == call.frozen
         unknown == [run EXCEPT !.recovery = TRUE]
     IN  IF MayTail(disk, run.rev, f.receipt.input, IF Headered THEN f.receipt ELSE Nil)
         THEN \/ /\ Written(TailOf(f)) /\ run' = Taken(f)
                 /\ Next_(IF Headered THEN "closed" ELSE "stop")
              \/ Fault /\ disk' = disk /\ Returns /\ UNCHANGED run
              \/ /\ Fault /\ disk' \in {TailOf(f), Torn} /\ Returns
                 /\ run' = IF Headered THEN unknown ELSE [Taken(f) EXCEPT !.recovery = TRUE]
         ELSE Returns /\ UNCHANGED <<disk, faults, run>>
  /\ UNCHANGED <<sealed, project, owner, input, counters, acked, dropped>>
(* The admission of the closure is completed; when that fails the session in  *)
(* memory goes back to what it was before the closure.                        *)
StopClosed ==
  /\ At("stop", "closed")
  /\ LET f == call.frozen
         j == ReadAdmitted(disk, f.receipt, "no_audio")
         was == [run EXCEPT !.pending = call.was.pending, !.open = call.was.open]
     IN  \/ /\ Written(j) /\ Next_("stop")
            /\ run' = [run EXCEPT !.next = f.receipt.expected + 1]
         \/ Fault /\ disk' = disk /\ Returns /\ run' = was
         \/ Fault /\ disk' \in {j, Torn} /\ Returns /\ run' = [was EXCEPT !.recovery = TRUE]
  /\ UNCHANGED <<sealed, project, owner, input, counters, acked, dropped>>
StopJournal ==
  /\ At("stop", "stop")
  /\ LET j == ReadStop(disk, call.request)
         ends == run' = Nil
     IN  IF disk.stop = call.request THEN ends /\ UNCHANGED <<disk, faults>>
         ELSE IF disk.stop # Nil \/ ~MayStop(disk) THEN UNCHANGED <<disk, faults, run>>
         ELSE \/ Written(j) /\ ends
              \/ WriteFails(j) /\ UNCHANGED run
  /\ Returns
  /\ UNCHANGED <<sealed, project, owner, input, counters, acked, dropped>>
-------------------------------------------------------------------------------
(* save_performance_draft and discard_performance_draft: one commit that ends *)
(* the draft, then the stopped Journal and the owner lock go.                 *)
Finishes(kind, s) ==
  IF kind = "save" THEN Joined(perf[s], disk.pending) ELSE Gone
FinishAllowed(kind, s) ==
  kind = "save" => AllFlushed(disk) /\ Admissible(perf[s], disk.pending)
PerformanceFinish(kind, s, cmd) ==
  /\ call = Nil /\ disk \notin Unreadable
  /\ IF disk = Nil THEN Committed(cmd, kind, s)
     ELSE disk.session = s /\ disk.state = "stopped"
  /\ call' = [op |-> kind, at |-> "commit", session |-> s, cmd |-> cmd]
  /\ UNCHANGED <<disk, sealed, project, run, owner, input, counters, faults, acked, dropped>>
FinishCommit ==
  /\ call # Nil /\ call.op \in {"save", "discard"} /\ call.at = "commit"
  /\ LET s == call.session IN
     IF Committed(call.cmd, call.op, s) THEN Next_("remove") /\ UNCHANGED <<project, faults, dropped>>
     ELSE IF CommandTaken(call.cmd) \/ ~perf[s].exists \/ head >= MaxHead
             \/ ~FinishAllowed(call.op, s)
     THEN Returns /\ UNCHANGED <<project, faults, dropped>>
     ELSE /\ \/ Commits(s, Finishes(call.op, s), call.cmd, call.op) /\ Next_("remove")
             \/ CommitFails(s, Finishes(call.op, s), call.cmd, call.op) /\ Returns
          /\ dropped' = IF call.op = "discard" THEN dropped \cup perf[s].events \cup disk.pending
                        ELSE dropped
  /\ UNCHANGED <<disk, sealed, run, owner, input, counters, acked>>
FinishRemove ==
  /\ call # Nil /\ call.op \in {"save", "discard"} /\ call.at = "remove"
  /\ \/ disk' = Nil /\ owner' = Nil /\ UNCHANGED faults
     \/ disk # Nil /\ Fault /\ disk' \in {disk, Nil} /\ UNCHANGED owner
  /\ Returns
  /\ UNCHANGED <<sealed, project, run, input, counters, acked, dropped>>
-------------------------------------------------------------------------------
(* reconcile_performance_recovery, the first step of a new begin and of both  *)
(* recovery commands.  It takes the owner lock, so the owner must be gone;    *)
(* completes the flush the Project already shows, closes the open gestures,   *)
(* and seals what is left or removes a Journal that is all committed.         *)
VisibleFlush(j) ==
  LET shown == SelectSeq(Unfinished(j), LAMBDA f : Committed(f.cmd, "flush", j.session))
  IN  IF shown = <<>> THEN Nil ELSE shown[1]
Reconcile ==
  /\ call = Nil /\ run = Nil /\ owner = Nil /\ Readable /\ disk.state # "stopped"
  /\ call' = [op |-> "reconcile", at |-> "complete"]
  /\ UNCHANGED <<disk, sealed, project, run, owner, input, counters, faults, acked, dropped>>
ReconcileFlush ==
  /\ At("reconcile", "complete")
  /\ LET f == VisibleFlush(disk) IN
     IF f = Nil THEN Next_("close") /\ UNCHANGED <<disk, faults>>
     ELSE IF ~MayComplete(disk, f.cmd, head) THEN Returns /\ UNCHANGED <<disk, faults>>
     ELSE LET j == ReadComplete(disk, f.cmd, head, perf[disk.session].events)
          IN  \/ Written(j) /\ Next_("close")
              \/ WriteFails(j) /\ Returns
  /\ UNCHANGED <<sealed, project, run, owner, input, counters, acked, dropped>>
CloseTransients ==
  /\ call # Nil /\ call.op \in {"begin", "reconcile"} /\ call.at = "close"
  /\ LET next == IF call.op = "begin" THEN "commit" ELSE "seal"
         at == ClosureInput(disk)
         j == ReadTail(disk, disk.rev, at, disk.pending \cup Closure(disk), NoGestures, disk.adm)
     IN  IF disk.open = NoGestures THEN Next_(next) /\ UNCHANGED <<disk, faults>>
         ELSE IF ~MayTail(disk, disk.rev, at, Nil) THEN Returns /\ UNCHANGED <<disk, faults>>
         ELSE \/ Written(j) /\ Next_(next)
              \/ WriteFails(j) /\ Returns
  /\ UNCHANGED <<sealed, project, run, owner, input, counters, acked, dropped>>
(* Mutant: a Journal with a committed flush is removed whatever its tail.     *)
Resolved(j) == j.flushes # <<>> /\ AllFlushed(j) /\ j.pending = {}
Sealed(j) == [j EXCEPT !.state = "owner_lost"]
ReconcileSeal ==
  /\ At("reconcile", "seal")
  /\ IF Resolved(disk)
     THEN /\ \/ disk' = Nil /\ UNCHANGED faults
             \/ Fault /\ disk' \in {disk, Nil}
          /\ UNCHANGED sealed
     ELSE IF \E c \in Candidate(disk.session) : c # Sealed(disk)
     THEN UNCHANGED <<disk, sealed, faults>>
     ELSE \/ disk' = Nil /\ sealed' = sealed \cup {Sealed(disk)} /\ UNCHANGED faults
          \/ /\ Fault /\ disk' \in {disk, Nil}
             /\ sealed' \in {sealed, sealed \cup {Sealed(disk)}}
             /\ disk' = Nil => sealed' # sealed \/ Sealed(disk) \in sealed
  /\ Returns
  /\ UNCHANGED <<project, run, owner, input, counters, acked, dropped>>
-------------------------------------------------------------------------------
(* apply_performance_recovery: commit the candidate's tail, leave a stopped   *)
(* Journal, remove the candidate.  discard_performance_recovery leaves the    *)
(* stopped Journal without the tail.                                          *)
Settled == disk = Nil \/ (Readable /\ disk.state = "stopped")
RecoveryApply(s, cmd) ==
  /\ call = Nil /\ Settled /\ ListReadable /\ run = Nil
  /\ \E c \in Candidate(s) :
       /\ IF disk # Nil
          THEN disk.session = s /\ Committed(cmd, "apply", s)
          ELSE /\ c.pending # {} /\ AllFlushed(c)
               /\ \/ Committed(cmd, "apply", s) /\ perf[s].exists
                  \/ /\ ~CommandTaken(cmd) /\ head < MaxHead
                     /\ perf[s].exists /\ perf[s].events = c.fp /\ head = c.rev
                     /\ Admissible(perf[s], c.pending)
       /\ call' = [op |-> "apply", at |-> IF Committed(cmd, "apply", s) THEN "restore" ELSE "commit",
                   session |-> s, candidate |-> c, request |-> cmd]
  /\ UNCHANGED <<disk, sealed, project, run, owner, input, counters, faults, acked, dropped>>
ApplyCommit ==
  /\ At("apply", "commit")
  /\ LET p == Joined(perf[call.session], call.candidate.pending)
     IN  \/ Commits(call.session, p, call.request, "apply") /\ Next_("restore")
         \/ CommitFails(call.session, p, call.request, "apply") /\ Returns
  /\ UNCHANGED <<disk, sealed, run, owner, input, counters, acked, dropped>>
RecoveryDiscard(s, request) ==
  /\ call = Nil /\ Settled /\ ListReadable /\ run = Nil /\ perf[s].exists
  /\ \E c \in Candidate(s) :
       /\ disk # Nil => disk.session = s /\ disk.stop = request
       /\ call' = [op |-> "drop", at |-> "restore", session |-> s, candidate |-> c,
                   request |-> request]
       /\ dropped' = dropped \cup Uncommitted(c)
  /\ UNCHANGED <<disk, sealed, project, run, owner, input, counters, faults, acked>>
RecoveryRestore ==
  /\ call # Nil /\ call.op \in {"apply", "drop"} /\ call.at = "restore"
  /\ LET j == Restored(call.candidate, head, perf[call.session].events, call.request) IN
     IF disk # Nil
     THEN IF disk.session = call.session /\ disk.stop = call.request THEN Next_("remove") /\ UNCHANGED <<disk, faults>>
          ELSE Returns /\ UNCHANGED <<disk, faults>>
     ELSE \/ Written(j) /\ Next_("remove")
          \/ Fault /\ disk' \in {disk, j} /\ Returns
  /\ UNCHANGED <<sealed, project, run, owner, input, counters, acked, dropped>>
RecoveryRemove ==
  /\ call # Nil /\ call.op \in {"apply", "drop"} /\ call.at = "remove"
  /\ \/ sealed' = sealed \ {call.candidate} /\ UNCHANGED faults
     \/ Fault /\ sealed' \in {sealed, sealed \ {call.candidate}}
  /\ Returns
  /\ UNCHANGED <<disk, project, run, owner, input, counters, acked, dropped>>
-------------------------------------------------------------------------------
(* Any other command.  It is admitted when no session is in memory; the       *)
(* admission settles a Sequence Journal left behind, not a Performance one.   *)
Edit ==
  /\ call = Nil /\ run = Nil /\ edits < MaxEdits /\ head < MaxHead
  /\ head' = head + 1 /\ edits' = edits + 1
  /\ UNCHANGED <<disk, sealed, perf, receipts, run, owner, call, input, begun, faults, acked, dropped>>

(* The process stops: what is in memory goes, and so does the owner lock.     *)
Crash ==
  /\ Fault /\ run' = Nil /\ owner' = Nil /\ Returns
  /\ UNCHANGED <<disk, sealed, project, input, counters, acked, dropped>>

Init ==
  /\ disk = Nil /\ sealed = {} /\ head = 0 /\ perf = [s \in Session |-> Gone] /\ receipts = {}
  /\ run = Nil /\ owner = Nil /\ call = Nil /\ input = 0 /\ begun = 0 /\ edits = 0 /\ faults = 0
  /\ acked = {} /\ dropped = {}

Next ==
  \/ \E s \in Session :
       \/ BeginPerformance(s) \/ ReattachPerformance(s)
       \/ \E cmd \in Command : \/ PerformanceFinish("save", s, cmd)
                                \/ PerformanceFinish("discard", s, cmd)
                                \/ RecoveryApply(s, cmd)
       \/ \E request \in Request : RecoveryDiscard(s, request)
  \/ BeginJournal \/ BeginCommit \/ BeginComplete
  \/ PerformanceEvent \/ EventTail \/ EventComplete \/ ResumeAdmission
  \/ \E cmd \in Command : PerformanceFlush(cmd) \/ PerformanceRebase(cmd)
  \/ FlushAppend \/ FlushCommit \/ FlushComplete
  \/ RebasePrepare \/ RebaseCommit \/ RebaseComplete
  \/ \E request \in Request : PerformanceStop(request)
  \/ StopClose \/ StopClosed \/ StopJournal
  \/ FinishCommit \/ FinishRemove
  \/ Reconcile \/ ReconcileFlush \/ CloseTransients \/ ReconcileSeal
  \/ ApplyCommit \/ RecoveryRestore \/ RecoveryRemove
  \/ Edit \/ Crash

Spec == Init /\ [][Next]_vars
-------------------------------------------------------------------------------
TypeOK ==
  /\ disk \in {Nil} \cup Unreadable
     \/ (/\ disk.session \in Session /\ disk.rev \in 0 .. head
         /\ disk.state \in {"active", "recovery_required", "stopped"}
         /\ disk.pending \subseteq 1 .. MaxInput + 2 /\ DOMAIN disk.open \subseteq Gesture)
  /\ \A c \in sealed : c.session \in Session /\ c.state = "owner_lost"
  /\ run # Nil => run.session \in Session /\ run.rev \in 0 .. head
  /\ owner \in Session \cup {Nil}
  /\ head \in 0 .. MaxHead /\ input \in 0 .. MaxInput /\ faults \in 0 .. MaxFaults
  /\ perf \in [Session -> [exists : BOOLEAN, events : SUBSET (1 .. MaxInput + 2),
                           twice : SUBSET (1 .. MaxInput + 2)]]

(* No record is ever written that the Journal's reader refuses.               *)
JournalReadable == disk # Corrupt

Keeps(j) == Uncommitted(j) \cup {j.open[g] : g \in DOMAIN j.open}
Held ==
  UNION {perf[s].events : s \in Session} \cup UNION {Keeps(c) : c \in sealed}
    \cup (IF Readable THEN Keeps(disk) ELSE {})

(* An event reported recorded is in its draft, in the Journal or in a         *)
(* candidate, unless it was discarded on request or the file is torn.         *)
NothingLost == disk = Torn \/ acked \subseteq Held \cup dropped

(* No event enters a draft twice.                                             *)
NeverTwice == \A s \in Session : perf[s].twice = {}

(* What a flush or a recovery would still commit, at the revision and the     *)
(* draft it was recorded against, is not committed already.                   *)
Awaiting(j) ==
  j.pending \cup UNION {f.events : f \in {f \in Range(Unfinished(j)) :
                                           ~Committed(f.cmd, "flush", j.session)}}
AppliesOnce ==
  \A j \in sealed \cup (IF Readable /\ disk.state = "active" THEN {disk} ELSE {}) :
    j.rev = head /\ j.fp = perf[j.session].events
      => Awaiting(j) \cap perf[j.session].events = {}
-------------------------------------------------------------------------------
(* "After a new ProjectStore instance opens the bundle, assert either         *)
(* complete committed truth or a retained actionable candidate": the list of  *)
(* candidates can be read.                                                    *)
CandidatesReadable == ListReadable
===============================================================================
