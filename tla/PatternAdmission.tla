---------------------------- MODULE PatternAdmission ----------------------------
(* Live pad input recorded into a Pattern while it plays.  The transport      *)
(* coordinator hands one piece of work at a time to the I/O owner, which runs *)
(* it through the admission owner against the Sequence Journal and the        *)
(* Project: open, admit, segment (the audio engine applied another Pattern),  *)
(* overlay, cutoff, close, owner_lost.  Work is a program of durable steps;   *)
(* pc is the step it is at.  A step that fails leaves the work unknown, and   *)
(* the coordinator reconciles it: the exact work is replayed, found done, or  *)
(* found absent and tried again under the same identities.                    *)
EXTENDS SequenceJournal

CONSTANTS Pattern,              \* Pattern identities
          First,                \* the Pattern playing when recording opens
          Limit,                \* candidate_limit of the preparation
          MaxFrame,             \* bound: audio frames
          MaxInput,             \* bound: pad inputs
          MaxGen,               \* bound: publications of the audio engine
          MaxFaults             \* bound: failed durable steps

AdmissionAssumption ==
  /\ First \in Pattern /\ Limit \in Nat \ {0}
  /\ MaxFrame \in Nat /\ MaxInput \in Nat /\ MaxGen \in Nat /\ MaxFaults \in Nat

VARIABLES disk,                 \* the active Journal
          head, truth, receipts,\* Project revision, events per Pattern, committed flushes
          own,                  \* PatternAdmissionOwner: what it knows in memory
          work,                 \* the work in the executor's cell, or Nil
          phase,                \* idle, recording, cut, closed, failed, error, lost
          audio,                \* what the audio engine did
          queue,                \* pad inputs that were heard and not yet admitted
          elapsed,              \* the opening deadline has passed
          acked,                \* acked[p]: notes reported as retained, and not taken back
          faults

vars == <<disk, head, truth, receipts, own, work, phase, audio, queue, elapsed, acked, faults>>
project == <<head, truth, receipts>>
outside == <<phase, audio, queue, elapsed, acked>>

Session == 1
Readable == disk # Nil /\ disk \notin Unreadable
Admitting == Readable /\ disk.adm # Nil
Length == MaxFrame + 1

Init ==
  /\ disk = Nil /\ head = 0 /\ receipts = {} /\ truth = [p \in Pattern |-> NoEvents]
  /\ own = [id |-> FALSE, evidence |-> FALSE, failed |-> FALSE, settled |-> FALSE]
  /\ work = Nil /\ phase = "idle" /\ queue = <<>> /\ elapsed = FALSE /\ faults = 0
  /\ audio = [now |-> 0, gen |-> 1, pattern |-> First, opened |-> 0, sw |-> Nil, from |-> 0,
              overlay |-> 0, wm |-> 0, down |-> Nil, cut |-> Nil, taken |-> -1]
  /\ acked = [p \in Pattern |-> NoEvents]
-------------------------------------------------------------------------------
(* Conversion of candidates to events.  The tick of a frame counts from the   *)
(* anchor: the timing profile of the segment, the opening, or the cutoff's    *)
(* tempo at the segment's own frame.                                          *)
Profile(s, gen, wm) ==
  LET own_ == SelectSeq(s.profiles, LAMBDA p : p.first <= wm /\ p.gen = gen)
  IN  IF own_ = <<>> THEN Nil ELSE Last(own_)
Anchored(s, gen, wm) == Profile(s, gen, wm) # Nil \/ gen = s.prep.gen \/ s.cutoff # Nil
Anchor(s, gen, wm) ==
  IF Profile(s, gen, wm) # Nil THEN Profile(s, gen, wm).frame ELSE SegmentOf(s, gen).frame

(* PatternEventReducer: a press ends the one before it; a release counts only *)
(* for the press it belongs to.                                               *)
Press(v, tick, corr) ==
  [v EXCEPT !.events = IF v.owned = NoEvents THEN @
                       ELSE Merge(@, [k \in DOMAIN v.owned |-> "full"]),
            !.owned = tick :> corr]
Release(v, corr) ==
  [v EXCEPT !.events = Merge(@, [k \in DOMAIN v.owned |-> "full"]), !.owned = NoEvents]
(* Mutant: a note that is still held is left out.                             *)
UnreleasedDropped(v) == v.events
Unreleased(v) == Merge(v.events, [k \in DOMAIN v.owned |-> "held"])

Convert(j, candidates) ==
  LET s == j.adm
      seg == Segment(s)
      sw == PendingSwitch(s)
      before == Checkpoint(s, j.pattern)
      step(c, v) ==
        IF v.error # Nil THEN v
        ELSE IF c.frame < v.previous THEN [v EXCEPT !.error = "candidate_frame_regressed"]
        ELSE LET w == [v EXCEPT !.previous = c.frame] IN
          IF sw # Nil /\ c.frame >= sw.frame
            THEN [w EXCEPT !.error = "switch_prefix_requires_reconciliation"]
          ELSE IF c.frame < seg.frame \/ (s.cutoff # Nil /\ c.frame >= s.cutoff.frame) THEN w
          ELSE IF c.frame < v.last THEN [w EXCEPT !.error = "candidate_frame_regressed"]
          ELSE IF ~Anchored(s, seg.gen, c.wm)
            THEN [w EXCEPT !.error = "segment_timing_profile_missing"]
          ELSE IF ~c.press /\ ~(\E k \in DOMAIN v.owned : v.owned[k] = c.corr) THEN w
          ELSE [(IF c.press THEN Press(w, c.frame - Anchor(s, seg.gen, c.wm), c.corr)
                 ELSE Release(w, c.corr)) EXCEPT !.changed = TRUE, !.last = c.frame]
  IN  FoldLeft(LAMBDA v, c : step(c, v),
               [events |-> j.pending, owned |-> before.owned, last |-> before.frame,
                previous |-> 0, changed |-> FALSE, error |-> Nil],
               candidates)

Resolvable(j) ==
  /\ j.adm.opening # Nil /\ ~j.adm.completed /\ ~TerminalRetained(j.adm)
  /\ j.state \in {"active", "switching", "owner_lost"}
  /\ Segment(j.adm) # Nil /\ Segment(j.adm).pattern = j.pattern

(* build_admission_transfer: a prefix of the candidates up to a watermark.    *)
PrefixTo(s, last) == SelectSeq(s.candidates, LAMBDA c : c.wm <= last)
RetainedTransfer(s, id) == SelectSeq(s.transfers, LAMBDA t : t.id = id)
BuildPrefix(j, id, last) ==
  LET s == j.adm
      prefix == PrefixTo(s, last)
      v == Convert(j, prefix)
      before == Checkpoint(s, j.pattern)
      after == [before EXCEPT !.frame = v.last, !.owned = v.owned] IN
  IF RetainedTransfer(s, id) # <<>>
  THEN IF ~RetainedTransfer(s, id)[1].terminal /\ RetainedTransfer(s, id)[1].last = last
       THEN RetainedTransfer(s, id)[1] ELSE Nil
  ELSE IF \/ ~Resolvable(j) \/ s.candidates = <<>> \/ (s.closure # Nil /\ s.cutoff = Nil)
          \/ prefix = <<>> \/ Last(prefix).wm # last \/ v.error # Nil
  THEN Nil
  ELSE [id |-> id, terminal |-> FALSE, last |-> last, receipts |-> prefix,
        pattern |-> j.pattern, rev |-> j.rev,
        input |-> IF v.changed THEN IF j.lastInput = Nil THEN 1 ELSE j.lastInput + 1 ELSE Nil,
        tail |-> IF v.changed THEN Unreleased(v) ELSE j.pending,
        checkpoint |-> IF v.changed THEN after ELSE before]

(* The terminal transfer ends the notes still held at the cutoff.             *)
BuildTerminal(j, id) ==
  LET s == j.adm
      v == Convert(j, <<>>)
      before == Checkpoint(s, j.pattern) IN
  IF RetainedTransfer(s, id) # <<>>
  THEN IF RetainedTransfer(s, id)[1].terminal THEN RetainedTransfer(s, id)[1] ELSE Nil
  ELSE IF \/ ~Resolvable(j) \/ s.closure = Nil \/ s.cutoff = Nil \/ s.candidates # <<>>
          \/ PendingSwitch(s) # Nil \/ s.cutoff.pattern # j.pattern
          \/ before.frame > s.cutoff.frame
  THEN Nil
  ELSE [id |-> id, terminal |-> TRUE, last |-> 0, receipts |-> <<>>,
        pattern |-> j.pattern, rev |-> j.rev, input |-> Nil, tail |-> Unreleased(v),
        checkpoint |-> [before EXCEPT !.frame = s.cutoff.frame, !.owned = NoEvents]]

(* project_admission_overlay: what a live projection shows, and what the      *)
(* recovery of an owner-lost Journal offers beside its flushes and tail.      *)
Shown(j, finalize) ==
  /\ j.adm # Nil /\ j.adm.opening # Nil /\ ~j.adm.completed /\ ~TerminalRetained(j.adm)
  /\ Recording(j) \/ (finalize /\ j.state = "owner_lost")
  /\ Len(j.adm.candidates) <= Limit
CrossesSwitch(j) ==
  PendingSwitch(j.adm) # Nil /\ \E c \in Range(j.adm.candidates) : c.frame >= PendingSwitch(j.adm).frame
OverlayFails(j, finalize) ==
  /\ Shown(j, finalize)
  /\ \/ ~Resolvable(j)
     \/ IF CrossesSwitch(j) THEN finalize ELSE Convert(j, j.adm.candidates).error # Nil
Overlay(j, finalize) ==
  IF ~Shown(j, finalize) \/ CrossesSwitch(j) THEN NoEvents
  ELSE Unreleased(Convert(j, j.adm.candidates))
-------------------------------------------------------------------------------
(* Work.  A step continues at another step, succeeds, is refused (the same    *)
(* work can never apply) or becomes unknown.                                  *)
Derived(pc) == Append(work.id, pc)       \* identities derived from the command's
At(pc) == work # Nil /\ work.pc = pc
Step(pc) == work' = [work EXCEPT !.pc = pc]
Unknown == work' = [work EXCEPT !.pc = "unknown"]
Fault == faults < MaxFaults /\ faults' = faults + 1

Ended(outcome) ==
  /\ work' = Nil
  /\ phase' = CASE work.op = "open" -> IF outcome = "success" THEN "recording" ELSE "failed"
                [] work.op = "cutoff" /\ outcome = "success" -> "cut"
                [] work.op = "close" /\ outcome = "success" -> "closed"
                [] work.op = "lost" -> "lost"
                [] work.op = "admit" -> phase
                [] outcome = "refused" -> "error"
                [] OTHER -> phase
  /\ queue' = IF work.op = "admit" THEN Tail(queue) ELSE queue
  /\ audio' = CASE work.op = "segment" /\ outcome = "success" -> [audio EXCEPT !.sw = Nil]
                [] work.op \in {"overlay", "cutoff"} /\ outcome = "success" ->
                     [audio EXCEPT !.overlay = 0]
                [] OTHER -> audio
  /\ UNCHANGED elapsed
Succeeded == Ended("success") /\ UNCHANGED acked
RefusedWork == Ended("refused") /\ UNCHANGED acked

(* One admission record: already there (synced again), appended, or refused.  *)
Goes(pc) == Step(pc) /\ UNCHANGED outside
Retain(kind, d, after) ==
  LET known == Admitting /\ AdmissionKnown(disk, kind, d)
      may == Admitting /\ MayAdmit(disk, kind, d)
      r == [kind |-> "admission", what |-> kind, data |-> d] IN
  /\ UNCHANGED <<project, own>>
  /\ IF known \/ may
     THEN \/ /\ disk' = IF known THEN disk ELSE Appended(disk, r)
             /\ after /\ UNCHANGED faults
          \/ /\ disk' \in IF known THEN {disk} ELSE AfterFailedAppend(disk, r)
             /\ Fault /\ Unknown /\ UNCHANGED outside
     ELSE RefusedWork /\ UNCHANGED <<disk, faults>>
Passes(after) == after /\ UNCHANGED <<disk, project, own, faults>>
Refuse == RefusedWork /\ UNCHANGED <<disk, project, own, faults>>

(* open: begin the Journal, prepare the admission, retain the opening fence.  *)
Preparation == [pattern |-> First, gen |-> 1, epoch |-> 1, first |-> 1, limit |-> Limit]
OpeningFence == [kind |-> "admission", cmd |-> "open", epoch |-> 1, frame |-> audio.opened,
                 pattern |-> First, gen |-> 1, applied |-> Nil]
EmptyPrefix(j) == j.lastInput = Nil /\ j.nextTail = 0 /\ j.pending = NoEvents
                  /\ j.nextFlush = 0 /\ j.flushes = <<>>
BeginJournal ==
  LET made == Begun(Session, First, Length, truth[First], head, Nil) IN
  /\ At("begin") /\ UNCHANGED <<project, own>>
  /\ \/ Readable /\ EmptyPrefix(disk) /\ Goes("prepare") /\ UNCHANGED <<disk, faults>>
     \/ Readable /\ ~EmptyPrefix(disk) /\ RefusedWork /\ UNCHANGED <<disk, faults>>
     \/ disk = Nil /\ disk' = made /\ Goes("prepare") /\ UNCHANGED faults
     \/ disk = Nil /\ Fault /\ disk' \in {Nil, made} /\ Unknown /\ UNCHANGED outside
     \/ disk \in Unreadable /\ RefusedWork /\ UNCHANGED <<disk, faults>>

(* prepare replays its own preparation; a new identity forgets the opening.   *)
PrepareAdmission ==
  LET known == Readable /\ PrepareKnown(disk, Preparation)
      may == Readable /\ (known \/ PrepareOK(disk, Preparation))
      r == [kind |-> "admission", what |-> "prepare", data |-> Preparation] IN
  /\ At("prepare") /\ UNCHANGED project
  /\ \/ /\ may /\ disk' = (IF known THEN disk ELSE Appended(disk, r)) /\ UNCHANGED faults
        /\ own' = [own EXCEPT !.id = TRUE, !.settled = FALSE,
                              !.evidence = @ /\ own.id, !.failed = @ /\ own.id]
        /\ Goes(IF work.op = "open" THEN "fence" ELSE "applied")
     \/ /\ may /\ Fault /\ Unknown /\ UNCHANGED <<own, outside>>
        /\ disk' \in IF known THEN {disk} ELSE AfterFailedAppend(disk, r)
     \/ ~may /\ RefusedWork /\ UNCHANGED <<disk, own, faults>>

(* activate: the opening counts from the moment its fence is durable, and     *)
(* only if that is before the deadline; a late one closes the admission.      *)
Activate ==
  LET f == OpeningFence
      s == disk.adm
      known == FenceKnown(disk, f)
      r == [kind |-> "admission", what |-> "fence", data |-> f]
      conflict == s.opening # Nil /\ s.opening # f IN
  /\ At("fence") /\ UNCHANGED project
  /\ \/ ~(own.id /\ Admitting) /\ RefusedWork /\ UNCHANGED <<disk, own, faults>>
     \/ /\ own.id /\ Admitting /\ ~conflict /\ (own.failed \/ (~own.evidence /\ elapsed))
        /\ own' = [own EXCEPT !.failed = TRUE] /\ Goes("expire") /\ UNCHANGED <<disk, faults>>
     \/ /\ own.id /\ Admitting /\ ~conflict /\ ~own.failed /\ (own.evidence \/ ~elapsed)
        /\ \/ /\ known \/ MayAdmit(disk, "fence", f)
              /\ disk' = IF known THEN disk ELSE Appended(disk, r)
              /\ UNCHANGED faults
              /\ \E late \in {elapsed, TRUE} :
                   LET inTime == own.evidence \/ ~late IN
                   /\ elapsed' = late
                   /\ own' = [own EXCEPT !.evidence = inTime, !.failed = ~inTime]
                   /\ IF inTime THEN /\ work' = Nil /\ phase' = "recording"
                                     /\ UNCHANGED <<audio, queue, acked>>
                      ELSE Step("expire") /\ UNCHANGED <<phase, audio, queue, acked>>
           \/ /\ known \/ MayAdmit(disk, "fence", f)
              /\ Fault /\ Unknown /\ UNCHANGED <<own, outside>>
              /\ disk' \in IF known THEN {disk} ELSE AfterFailedAppend(disk, r)
           \/ /\ ~known /\ ~MayAdmit(disk, "fence", f)
              /\ RefusedWork /\ UNCHANGED <<disk, own, faults>>
     \/ own.id /\ Admitting /\ conflict /\ RefusedWork /\ UNCHANGED <<disk, own, faults>>

(* close_at: an earlier closure is replayed, otherwise one is made.           *)
Closure(s, reason) == IF s.closure # Nil THEN s.closure
                      ELSE [last |-> LastWatermark(s), reason |-> reason]
ExpireOpening ==
  /\ At("expire")
  /\ IF Admitting THEN Retain("close", Closure(disk.adm, "deadline"), RefusedWork) ELSE Refuse
-------------------------------------------------------------------------------
(* admit: the window is recycled before it fills, then the candidate is       *)
(* retained.  What came before the opening, or after a closure, is only heard.*)
CheckpointId(c) == <<"in", c.wm, "checkpoint">>
AdmitCheckpoint ==
  LET s == disk.adm IN
  /\ At("checkpoint")
  /\ IF ~Admitting THEN Refuse
     ELSE IF s.closure # Nil \/ s.candidates = <<>> \/ Len(s.candidates) < Limit \div 2
     THEN Passes(Goes("candidate"))
     ELSE LET t == BuildPrefix(disk, CheckpointId(Last(s.candidates)), Last(s.candidates).wm) IN
          IF disk.state \in {"owner_lost", "abandoned"} \/ t = Nil THEN Refuse
          ELSE Retain("transfer", t, Goes("candidate"))

(* The pad note a candidate becomes, as the performer was told it is kept.    *)
Kept(c) ==
  acked' = [acked EXCEPT ![c.note.pattern] =
              IF c.press THEN Merge(@, c.note.key :> "held")
              ELSE IF c.note.key \in DOMAIN @ THEN Merge(@, c.note.key :> "full") ELSE @]
Bare(c) == [wm |-> c.wm, frame |-> c.frame, press |-> c.press, corr |-> c.corr]
LiveOnly == Ended("success") /\ UNCHANGED acked

AdmitCandidate ==
  LET c == Bare(work.data)
      s == disk.adm
      knownOpening == s.opening # Nil /\ own.evidence /\ ~own.failed
      r == [kind |-> "admission", what |-> "candidate", data |-> c] IN
  /\ At("candidate") /\ UNCHANGED <<project, own>>
  /\ \/ ~Admitting /\ RefusedWork /\ UNCHANGED <<disk, faults>>
     \/ /\ Admitting /\ UNCHANGED <<disk, faults>>
        /\ disk.state \in {"owner_lost", "abandoned"} \/ s.completed \/ s.closure # Nil
           \/ (~knownOpening /\ ~elapsed) \/ (knownOpening /\ c.frame < s.opening.frame)
        /\ LiveOnly
     \/ /\ Admitting /\ s.closure = Nil /\ ~s.completed /\ Recording(disk)
        /\ ~knownOpening /\ elapsed /\ UNCHANGED <<disk, faults>> /\ Goes("late")
     \/ /\ Admitting /\ s.closure = Nil /\ ~s.completed /\ Recording(disk)
        /\ knownOpening /\ c.frame >= s.opening.frame
        /\ \/ /\ CandidateKnown(disk, c) \/ CandidateOK(disk, c)
              /\ disk' = (IF CandidateKnown(disk, c) THEN disk ELSE Appended(disk, r))
              /\ UNCHANGED faults /\ Ended("success") /\ Kept(work.data)
           \/ /\ CandidateKnown(disk, c) \/ CandidateOK(disk, c)
              /\ Fault /\ Goes("storage")
              /\ disk' \in IF CandidateKnown(disk, c) THEN {disk} ELSE AfterFailedAppend(disk, r)
           \/ /\ ~CandidateKnown(disk, c) /\ ~CandidateOK(disk, c)
              /\ Goes("refusal") /\ UNCHANGED <<disk, faults>>

(* A failed append closes the admission, whatever the append left behind.     *)
AdmitClose ==
  LET reason == IF work.pc = "late" THEN "deadline" ELSE "storage_failure" IN
  /\ work # Nil /\ work.pc \in {"late", "storage", "refusal"}
  /\ IF ~Admitting
     THEN Passes(IF work.pc = "storage" THEN Unknown /\ UNCHANGED outside ELSE RefusedWork)
     ELSE Retain("close", Closure(disk.adm, reason),
                 CASE work.pc = "late" -> LiveOnly
                   [] work.pc = "storage" -> Unknown /\ UNCHANGED outside
                   [] OTHER -> RefusedWork)
-------------------------------------------------------------------------------
(* segment and close first settle what was recorded before an applied switch: *)
(* unfinished flushes, the candidates before the boundary, the tail.          *)
RetainSwitch ==
  /\ At("applied")
  /\ IF ~Admitting THEN Refuse
     ELSE IF \E p \in Range(disk.adm.profiles) : p.cmd = work.id
     THEN Passes(Goes("profile"))
     ELSE IF \/ disk.state # "active" \/ disk.adm.opening = Nil \/ disk.adm.cutoff # Nil
             \/ disk.adm.closure # Nil \/ disk.adm.completed
             \/ \E c \in Range(disk.adm.candidates) : c.frame >= work.data.frame
             \/ /\ disk.adm.transfers # <<>>
                /\ Last(disk.adm.transfers).checkpoint.gen # work.data.gen
                /\ Last(disk.adm.transfers).checkpoint.frame >= work.data.frame
             \/ /\ head # disk.rev
                /\ ~\E f \in Range(disk.flushes) : ~f.completed /\ f.cmd \in receipts
     THEN Refuse
     ELSE Retain("applied", work.data, Goes("flushes"))

Unfinished == SelectSeq(disk.flushes, LAMBDA f : ~f.completed /\ f.pattern = disk.pattern)
SettleFlushes ==
  LET idle == work.pc = "flushes" /\ PendingSwitch(disk.adm) = Nil IN
  /\ work # Nil /\ work.pc \in {"flushes", "tflushes"}
  /\ IF ~Admitting \/ (work.pc = "tflushes" /\ PendingSwitch(disk.adm) # Nil) THEN Refuse
     ELSE IF idle THEN Passes(Goes("switch"))
     ELSE IF Unfinished # <<>>
     THEN Passes(/\ work' = [work EXCEPT !.pc = "commit", !.ret = work.pc,
                                         !.flush = Head(Unfinished).seq]
                 /\ UNCHANGED outside)
     ELSE Passes(Goes(IF work.pc = "flushes" THEN "transfer" ELSE "ttransfer"))

SourcePrefix(s, frame) == SelectSeq(s.candidates, LAMBDA c : c.frame < frame)
DrainPrefix ==
  LET s == disk.adm
      prefix == IF work.pc = "transfer" THEN SourcePrefix(s, PendingSwitch(s).frame)
                ELSE s.candidates
      next == CASE work.pc = "transfer" -> "tail" [] work.pc = "ttransfer" -> "ttail"
                [] OTHER -> "terminal" IN
  /\ work # Nil /\ work.pc \in {"transfer", "ttransfer", "ptransfer"}
  /\ IF ~Admitting THEN Refuse
     ELSE IF prefix = <<>>
     THEN Passes(Goes(IF work.pc = "ttransfer" THEN "close" ELSE next))
     ELSE LET t == BuildPrefix(disk, Derived(work.pc), Last(prefix).wm) IN
          IF disk.state \in {"owner_lost", "abandoned"} \/ t = Nil THEN Refuse
          ELSE Retain("transfer", t,
                      Goes(IF work.pc = "ttransfer" /\ t.input = Nil THEN "close" ELSE next))

DrainTerminal ==
  LET t == BuildTerminal(disk, Derived("terminal")) IN
  /\ At("terminal")
  /\ IF ~Admitting \/ disk.state \in {"owner_lost", "abandoned"} \/ t = Nil THEN Refuse
     ELSE Retain("transfer", t, Goes(IF t.tail = NoEvents THEN "finish" ELSE "final"))

(* append_flush of the tail under the work's flush identity.                  *)
FlushTail ==
  LET tail == IF work.pc = "final" THEN BuildTerminal(disk, Derived("terminal")).tail
              ELSE disk.pending
      cmd == Derived(work.pc)
      known == FlushKnown(disk, cmd, disk.pattern, disk.rev, tail)
      may == MayFlush(disk, cmd, disk.pattern, disk.rev, tail)
      r == FlushRecord(disk, cmd, tail)
      ret == CASE work.pc = "tail" -> "switch" [] work.pc = "ttail" -> "close" [] OTHER -> "finish"
      next(seq) == /\ work' = [work EXCEPT !.pc = "commit", !.ret = ret, !.flush = seq]
                   /\ UNCHANGED outside IN
  /\ work # Nil /\ work.pc \in {"tail", "ttail", "final"} /\ UNCHANGED <<project, own>>
  /\ \/ ~Admitting /\ RefusedWork /\ UNCHANGED <<disk, faults>>
     \/ Admitting /\ tail = NoEvents /\ Goes(ret) /\ UNCHANGED <<disk, faults>>
     \/ /\ Admitting /\ tail # NoEvents /\ known /\ UNCHANGED disk
        /\ \/ /\ next((CHOOSE f \in Range(disk.flushes) : f.cmd = cmd).seq) /\ UNCHANGED faults
           \/ Fault /\ Unknown /\ UNCHANGED outside
     \/ /\ Admitting /\ tail # NoEvents /\ ~known /\ may
        /\ \/ disk' = Appended(disk, r) /\ next(disk.nextFlush) /\ UNCHANGED faults
           \/ Fault /\ disk' \in AfterFailedAppend(disk, r) /\ Unknown /\ UNCHANGED outside
     \/ Admitting /\ tail # NoEvents /\ ~known /\ ~may /\ RefusedWork /\ UNCHANGED <<disk, faults>>

(* execute_sequence_flush: commits once, then completes the Journal's flush.  *)
CommitFlush ==
  LET f == FlushOf(disk, work.flush)[1] IN
  /\ At("commit") /\ UNCHANGED <<disk, own>>
  /\ IF ~Readable THEN RefusedWork /\ UNCHANGED <<project, faults>>
     ELSE \/ f.cmd \in receipts /\ Goes("complete") /\ UNCHANGED <<project, faults>>
          \/ f.cmd \notin receipts /\ f.rev # head /\ RefusedWork /\ UNCHANGED <<project, faults>>
          \/ /\ f.cmd \notin receipts /\ f.rev = head
             /\ head' = head + 1 /\ receipts' = receipts \union {f.cmd}
             /\ truth' = [truth EXCEPT ![f.pattern] = Merge(@, f.canonical)]
             /\ \/ Goes("complete") /\ UNCHANGED faults
                \/ Fault /\ Unknown /\ UNCHANGED outside
          \/ Fault /\ Unknown /\ UNCHANGED <<project, outside>>
CompleteFlush ==
  LET f == FlushOf(disk, work.flush)[1]
      r == CompleteRecord(f.seq, head, truth[f.pattern]) IN
  /\ At("complete") /\ UNCHANGED <<project, own>>
  /\ \/ f.completed /\ Goes(work.ret) /\ UNCHANGED <<disk, faults>>
     \/ ~f.completed /\ disk' = Appended(disk, r) /\ Goes(work.ret) /\ UNCHANGED faults
     \/ /\ ~f.completed /\ Fault /\ Unknown /\ UNCHANGED outside
        /\ disk' \in AfterFailedAppend(disk, r)

(* reconcile_switch: the Journal follows the applied switch.                  *)
ReconcilePattern ==
  LET sw == PendingSwitch(disk.adm)
      r == [kind |-> "switch", pattern |-> sw.pattern, length |-> Length,
            fingerprint |-> truth[sw.pattern], rev |-> disk.rev]
      next == CASE work.op = "segment" -> "profile" [] work.data.switched -> "tflushes"
                [] OTHER -> "close" IN
  /\ At("switch") /\ UNCHANGED <<project, own>>
  /\ \/ ~Admitting /\ RefusedWork /\ UNCHANGED <<disk, faults>>
     \/ Admitting /\ sw = Nil /\ Goes(next) /\ UNCHANGED <<disk, faults>>
     \/ /\ Admitting /\ sw # Nil /\ head = disk.rev /\ MaySwitch(disk, sw.pattern, disk.rev)
        /\ \/ disk' = Appended(disk, r) /\ Goes(next) /\ UNCHANGED faults
           \/ Fault /\ disk' \in AfterFailedAppend(disk, r) /\ Unknown /\ UNCHANGED outside
     \/ /\ Admitting /\ sw # Nil /\ ~(head = disk.rev /\ MaySwitch(disk, sw.pattern, disk.rev))
        /\ RefusedWork /\ UNCHANGED <<disk, faults>>

(* The clock of the new segment counts from its boundary.                     *)
RetainProfile ==
  LET s == disk.adm
      known == SelectSeq(s.profiles, LAMBDA p : p.cmd = work.id)
      after == IF s.transfers = <<>> THEN s.prep.first
               ELSE IF Last(s.transfers).last + 1 > s.prep.first THEN Last(s.transfers).last + 1
               ELSE s.prep.first
      first == IF s.profiles # <<>> /\ Last(s.profiles).first > after
               THEN Last(s.profiles).first ELSE after IN
  /\ At("profile")
  /\ IF ~Admitting THEN Refuse
     ELSE IF known # <<>> THEN Retain("profile", known[1], Succeeded)
     ELSE IF disk.pattern # work.data.pattern \/ s.segment # work.data.gen THEN Refuse
     ELSE Retain("profile",
                 [cmd |-> work.id, first |-> first, pattern |-> work.data.pattern,
                  gen |-> work.data.gen, rev |-> disk.rev, frame |-> work.data.frame],
                 Succeeded)

(* overlay, and the cutoff with its companions.                               *)
RetainOverlay ==
  /\ work # Nil /\ work.pc \in {"overlay", "coverlay"}
  /\ LET gen == IF work.pc = "overlay" THEN work.data ELSE work.data.overlay IN
     IF work.pc = "coverlay" /\ gen = 0 THEN Passes(Goes("capplied"))
     ELSE Retain("overlay", gen, IF work.pc = "overlay" THEN Succeeded ELSE Goes("capplied"))
CutoffSwitchStep ==
  /\ At("capplied")
  /\ IF work.data.fence.applied = Nil THEN Passes(Goes("cfence"))
     ELSE Retain("applied", work.data.fence.applied, Goes("cfence"))
CutoffFence == At("cfence") /\ Retain("fence", work.data.fence, Succeeded)

(* close: close_requested, then settle_close unless a switch came last.       *)
CloseRequested ==
  /\ At("close")
  /\ IF ~Admitting THEN Refuse
     ELSE Retain("close", Closure(disk.adm, "requested"),
                 IF work.data.switched THEN Succeeded ELSE Goes("ptransfer"))
Finish ==
  /\ At("finish") /\ UNCHANGED project
  /\ \/ /\ Admitting /\ (CompleteKnown(disk) \/ CompleteOK(disk))
        /\ \/ /\ disk' = IF CompleteKnown(disk) THEN disk ELSE CompleteApply(disk)
              /\ own' = [own EXCEPT !.settled = TRUE] /\ Goes("remove") /\ UNCHANGED faults
           \/ /\ Fault /\ Unknown /\ UNCHANGED <<own, outside>>
              /\ disk' \in IF CompleteKnown(disk) THEN {disk} ELSE {disk, Torn, CompleteApply(disk)}
     \/ /\ ~(Admitting /\ (CompleteKnown(disk) \/ CompleteOK(disk)))
        /\ RefusedWork /\ UNCHANGED <<disk, own, faults>>
RemoveJournal ==
  /\ At("remove") /\ UNCHANGED <<project, own>>
  /\ \/ Readable /\ MayRemove(disk) /\ disk' = Nil /\ Succeeded /\ UNCHANGED faults
     \/ Readable /\ MayRemove(disk) /\ Fault /\ disk' \in {disk, Nil} /\ Unknown /\ UNCHANGED outside
     \/ ~(Readable /\ MayRemove(disk)) /\ RefusedWork /\ UNCHANGED <<disk, faults>>

OwnerLost ==
  LET r == [kind |-> "state", state |-> "owner_lost"] IN
  /\ At("lost") /\ UNCHANGED <<project, own>>
  /\ \/ disk = Nil /\ Succeeded /\ UNCHANGED <<disk, faults>>
     \/ disk \in Unreadable /\ RefusedWork /\ UNCHANGED <<disk, faults>>
     \/ Readable /\ disk' = Appended(disk, r) /\ Succeeded /\ UNCHANGED faults
     \/ Readable /\ Fault /\ disk' \in AfterFailedAppend(disk, r) /\ Unknown /\ UNCHANGED outside
-------------------------------------------------------------------------------
(* The coordinator's side: what it submits and how unknown work is settled.   *)
Entry(op) == CASE op = "open" -> "begin" [] op = "segment" -> "prepare"
               [] op = "admit" -> "checkpoint" [] op = "cutoff" -> "coverlay"
               [] op = "close" -> IF own.settled THEN "remove" ELSE "flushes"
               [] OTHER -> op
Submit(op, id, data) ==
  /\ work = Nil
  /\ work' = [op |-> op, id |-> id, data |-> data, pc |-> Entry(op), ret |-> Nil, flush |-> Nil]
  /\ UNCHANGED <<disk, project, own, phase, queue, elapsed, acked, faults>>

Open == phase = "idle" /\ Submit("open", <<"open", 0>>, Nil)
        /\ audio' = [audio EXCEPT !.opened = audio.now, !.from = audio.now]
Blocked(frame) == audio.sw # Nil /\ frame >= audio.sw.frame
Admit == /\ phase = "recording" /\ queue # <<>> /\ ~Blocked(Head(queue).frame)
         /\ audio.cut # Nil => Head(queue).frame < audio.cut.frame
         /\ Submit("admit", <<"in", Head(queue).wm>>, Head(queue))
         /\ audio' = [audio EXCEPT !.taken = Head(queue).frame]
HeardOnly == /\ work = Nil /\ phase = "recording" /\ queue # <<>> /\ audio.cut # Nil
             /\ Head(queue).frame >= audio.cut.frame /\ queue' = Tail(queue)
             /\ UNCHANGED <<disk, project, own, work, phase, audio, elapsed, acked, faults>>
SubmitSegment == /\ phase = "recording" /\ audio.sw # Nil
                 /\ \A c \in Range(queue) : c.frame >= audio.sw.frame
                 /\ Submit("segment", <<"seg", audio.sw.gen>>, audio.sw) /\ UNCHANGED audio
SubmitOverlay == /\ phase = "recording" /\ audio.cut = Nil /\ audio.overlay # 0
                 /\ queue = <<>> /\ audio.sw = Nil
                 /\ Submit("overlay", <<"overlay", 0>>, audio.overlay) /\ UNCHANGED audio
SubmitCutoff ==
  /\ phase = "recording" /\ audio.cut # Nil /\ queue = <<>> /\ audio.sw = Nil
  /\ Submit("cutoff", <<"cutoff", 0>>,
            [fence |-> audio.cut,
             overlay |-> IF audio.cut.gen = audio.overlay THEN audio.overlay ELSE 0])
  /\ UNCHANGED audio
SubmitClose == phase = "cut" /\ Submit("close", <<"close", 0>>, [switched |-> audio.cut.applied # Nil])
               /\ UNCHANGED audio
SubmitLost == phase \in {"recording", "cut", "error", "failed"} /\ Submit("lost", <<"lost", 0>>, Nil)
              /\ UNCHANGED audio

(* reconcile: readable bytes after an unknown answer prove nothing, so the    *)
(* exact work is replayed through the durable writer.                         *)
Retry == work' = [work EXCEPT !.pc = Entry(work.op)] /\ UNCHANGED outside
Reconcile ==
  LET c == Bare(work.data)
      s == disk.adm IN
  /\ At("unknown") /\ UNCHANGED <<project, own>>
  /\ CASE work.op \in {"open", "segment"} -> Retry /\ UNCHANGED <<disk, faults>>
       [] disk = Nil -> /\ work.op = "lost" \/ (work.op = "close" /\ own.settled)
                        /\ Succeeded /\ UNCHANGED <<disk, faults>>
       [] work.op = "admit" /\ Admitting ->
            \/ /\ CandidateKnown(disk, c)
               /\ (Ended("success") /\ Kept(work.data) /\ UNCHANGED <<disk, faults>>)
                  \/ (Fault /\ Unknown /\ UNCHANGED <<disk, outside>>)
            \/ /\ ~CandidateKnown(disk, c) /\ s.closure # Nil
               /\ (RefusedWork /\ UNCHANGED <<disk, faults>>)
                  \/ (Fault /\ Unknown /\ UNCHANGED <<disk, outside>>)
            \/ ~CandidateKnown(disk, c) /\ s.closure = Nil /\ Retry /\ UNCHANGED <<disk, faults>>
       [] Readable -> Retry /\ UNCHANGED <<disk, faults>>
       [] OTHER -> FALSE

(* The audio callback and the performer.  When the callback applies a switch  *)
(* (apply_published_pattern) or the cutoff (apply_pattern_transport), and to  *)
(* which Pattern, is left open: Bars and the mailbox are the Engine's.        *)
Time == /\ audio.now < MaxFrame /\ audio' = [audio EXCEPT !.now = @ + 1]
        /\ UNCHANGED <<disk, project, own, work, phase, queue, elapsed, acked, faults>>
Deadline == /\ own.id /\ ~elapsed /\ elapsed' = TRUE
            /\ UNCHANGED <<disk, project, own, work, phase, audio, queue, acked, faults>>
Play(press) ==
  LET wm == audio.wm + 1
      note == IF press THEN [pattern |-> audio.pattern, key |-> audio.now - audio.from]
              ELSE audio.down.note
      c == [wm |-> wm, frame |-> audio.now, press |-> press,
            corr |-> IF press THEN wm ELSE audio.down.corr, note |-> note] IN
  /\ phase = "recording" /\ wm <= MaxInput /\ (press <=> audio.down = Nil)
  /\ audio' = [audio EXCEPT !.wm = wm,
                            !.down = IF press THEN [corr |-> wm, note |-> note] ELSE Nil]
  /\ queue' = Append(queue, c)
  /\ UNCHANGED <<disk, project, own, work, phase, elapsed, acked, faults>>
(* Input at the boundary belongs to the new Pattern: the coordinator knows    *)
(* the activation frame beforehand and does not submit such input before.     *)
Moved(n, p) == IF audio.from + n.key = audio.now THEN [pattern |-> p, key |-> 0] ELSE n
ApplySwitch(p) ==
  /\ phase = "recording" /\ audio.cut = Nil /\ audio.sw = Nil /\ audio.overlay = 0
  /\ p # audio.pattern /\ audio.gen < MaxGen /\ audio.taken < audio.now
  /\ audio' = [audio EXCEPT !.gen = @ + 1, !.pattern = p, !.from = audio.now,
                            !.down = IF @ = Nil THEN @ ELSE [@ EXCEPT !.note = Moved(@, p)],
                            !.sw = [pattern |-> p, gen |-> audio.gen + 1, frame |-> audio.now]]
  /\ queue' = [i \in DOMAIN queue |-> [queue[i] EXCEPT !.note = Moved(@, p)]]
  /\ UNCHANGED <<disk, project, own, work, phase, elapsed, acked, faults>>
PublishOverlay ==
  /\ phase = "recording" /\ audio.cut = Nil /\ audio.sw = Nil /\ audio.overlay = 0
  /\ work = Nil /\ audio.gen < MaxGen
  /\ audio' = [audio EXCEPT !.gen = @ + 1, !.overlay = audio.gen + 1]
  /\ UNCHANGED <<disk, project, own, work, phase, queue, elapsed, acked, faults>>
Cutoff ==
  /\ phase = "recording" /\ audio.cut = Nil
  /\ \E named \in BOOLEAN :
       /\ named => audio.sw # Nil /\ audio.sw.frame < audio.now
       /\ audio' = [audio EXCEPT !.cut =
            [kind |-> "cutoff", cmd |-> "cutoff", epoch |-> 2, frame |-> audio.now,
             pattern |-> audio.pattern, gen |-> audio.gen,
             applied |-> IF named THEN audio.sw ELSE Nil]]
  /\ UNCHANGED <<disk, project, own, work, phase, queue, elapsed, acked, faults>>

Next ==
  \/ BeginJournal \/ PrepareAdmission \/ Activate \/ ExpireOpening
  \/ AdmitCheckpoint \/ AdmitCandidate \/ AdmitClose
  \/ RetainSwitch \/ SettleFlushes \/ DrainPrefix \/ DrainTerminal \/ FlushTail
  \/ CommitFlush \/ CompleteFlush \/ ReconcilePattern \/ RetainProfile
  \/ RetainOverlay \/ CutoffSwitchStep \/ CutoffFence
  \/ CloseRequested \/ Finish \/ RemoveJournal \/ OwnerLost
  \/ Open \/ Admit \/ HeardOnly \/ SubmitSegment \/ SubmitOverlay \/ SubmitCutoff
  \/ SubmitClose \/ SubmitLost \/ Reconcile
  \/ Time \/ Deadline \/ PublishOverlay \/ Cutoff
  \/ \E press \in BOOLEAN : Play(press)
  \/ \E p \in Pattern : ApplySwitch(p)

Spec == Init /\ [][Next]_vars
-------------------------------------------------------------------------------
TypeOK ==
  /\ head \in Nat /\ faults \in 0 .. MaxFaults /\ audio.gen \in 1 .. MaxGen
  /\ phase \in {"idle", "recording", "cut", "closed", "failed", "error", "lost"}
  /\ Admitting => Len(disk.adm.candidates) <= Limit
  /\ Readable => disk.rev \in 0 .. head

(* Every record the owner was allowed to append can be read back              *)
(* (append_admission_record, read_journal).                                   *)
JournalReadable == disk # Corrupt

(* The notes a Journal would yield if its owner were lost now: its flushes,   *)
(* its tail, and what the recovery projection makes of its candidates         *)
(* (canonical_recovery_events).                                               *)
Lost(j) == [j EXCEPT !.state = "owner_lost"]
RecoveryTake(j) == Merge(UnresolvedBatch(j), Overlay(Lost(j), TRUE))

(* The notes of a Pattern that were reported retained and played before the   *)
(* cutoff: the recording is the half-open interval up to it.                  *)
Recorded(p) == {k \in DOMAIN acked[p] :
                  audio.cut # Nil /\ p = audio.pattern => audio.from + k < audio.cut.frame}

(* A note whose candidate was reported retained is committed to the Pattern   *)
(* that was playing, or the Journal still yields it, or the recovery refuses  *)
(* and keeps the Journal; the tick it gets is the one it was played at        *)
(* (admit, drain_source_prefix, drain_target_segment, settle_close).          *)
NothingLost ==
  \A p \in Pattern : \A k \in Recorded(p) :
    \/ k \in DOMAIN truth[p]
    \/ disk \in Unreadable
    \/ Readable /\ disk.adm # Nil /\ OverlayFails(Lost(disk), TRUE)
    \/ Readable /\ disk.pattern = p /\ k \in DOMAIN RecoveryTake(disk)

(* Nothing is committed to a Pattern that was not played on it, at that tick, *)
(* by a candidate the Journal had retained.                                   *)
NoForeignNotes ==
  \A p \in Pattern : \A k \in DOMAIN truth[p] :
    \/ k \in DOMAIN acked[p]
    \/ work # Nil /\ work.op = "admit" /\ work.data.note = [pattern |-> p, key |-> k]
    \/ phase \in {"error", "lost", "closed"}
==============================================================================
