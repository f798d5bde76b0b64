--------------------------- MODULE TransportController ---------------------------
(* The Pattern transport controller between three threads.  Control turns     *)
(* accept requests (Play/Stop, Record), pad inputs and Pattern switches, and  *)
(* step the controller; the audio callback applies transport commands,        *)
(* consumes inputs and applies switches; the I/O worker writes the admission  *)
(* journal, one piece of work at a time.  The controller's promise is that    *)
(* the journal tells what was heard: every press between the recording's      *)
(* start and its cutoff, in order, on the right side of each switch.          *)
(* A callback is two steps, so that a control turn may fall inside it; its    *)
(* length is the unit of frames, and the clock counts only the callbacks in   *)
(* which something happens.  All presses are held.                            *)
EXTENDS Integers, Sequences, FiniteSets, SequencesExt

CONSTANTS MaxInputs,    \* bound: pad inputs accepted
          MaxRequests,  \* bound: requests accepted
          MaxEvents,    \* bound: Pattern switches and faults of the kinds below, together
          Faults,       \* of "refused", "unknown" (worker), "voice", "stop" (engine)
          Capacity,     \* kPatternTransportIngressCapacity
          SwitchCapacity\* kPatternTransportSwitchCapacity

FaultKind == {"refused", "unknown", "voice", "stop"}
ControllerAssumption ==
  /\ {MaxInputs, MaxRequests, MaxEvents} \subseteq Nat
  /\ {Capacity, SwitchCapacity} \subseteq Nat \ {0} /\ Faults \subseteq FaultKind

Empty == <<>>              \* an empty cell
Absent == "none"           \* no request, action or disposition

VARIABLES c,        \* the controller's own fields
          inputs,   \* accepted inputs, a cell each until the host consumes them
          holds,    \* presses whose release is still owed
          switches, \* recording switches not yet consumed
          io,       \* the executor's cell: the work and its outcome, or Empty
          en,       \* the realtime engine's transport, inputs and publications
          journal,  \* what the worker has made durable
          publish,  \* the host still owes the publication of a closed take
          heard,    \* ghost: frame of each input, 0 for a release
          excused,  \* ghost: presses that failed in the engine or that the worker refused
          count     \* requests, switches and faults so far

vars == <<c, inputs, holds, switches, io, en, journal, publish, heard, excused, count>>

Init ==
  /\ c = [pending |-> Absent, phase |-> "idle", playing |-> FALSE, recording |-> FALSE,
          closing |-> FALSE, prepare |-> FALSE, prepared |-> FALSE, receipt |-> Empty,
          cutoff |-> -1, cutoffDone |-> FALSE, openDone |-> FALSE, openFailed |-> FALSE,
          start |-> 0, request |-> FALSE, closed |-> FALSE, submitted |-> "accepted",
          deferred |-> Absent, unlanded |-> FALSE, dirty |-> FALSE, projected |-> FALSE,
          err |-> FALSE, switchFailed |-> FALSE, failedPrep |-> FALSE, shutdown |-> FALSE,
          invalid |-> FALSE, disposed |-> FALSE, dispRefused |-> FALSE, revoked |-> Absent,
          acked |-> FALSE, stopped |-> FALSE]
  /\ inputs = {} /\ holds = {} /\ switches = {} /\ io = Empty
  /\ en = [now |-> 1, mid |-> FALSE, busy |-> FALSE, run |-> TRUE, playing |-> FALSE, known |-> FALSE,
           command |-> Absent, receipt |-> Empty, reserved |-> FALSE, fifo |-> <<>>,
           done |-> {}, pubs |-> {}, overlay |-> FALSE]
  /\ journal = <<>> /\ publish = FALSE /\ heard = <<>> /\ excused = {}
  /\ count = [requests |-> 0, switches |-> 0, faults |-> 0]

(* A control turn works on one record of everything it may change.  `go`      *)
(* falls when drive() has returned early.                                     *)
Now == [c |-> c, in |-> inputs, ho |-> holds, sw |-> switches, io |-> io, en |-> en,
        excused |-> excused, go |-> TRUE]
Becomes(s) ==
  /\ c' = s.c /\ inputs' = s.in /\ holds' = s.ho /\ switches' = s.sw /\ io' = s.io
  /\ en' = s.en /\ excused' = s.excused
Return(s) == [s EXCEPT !.go = FALSE]
Fault(kind) ==
  /\ kind \in Faults /\ count.faults + count.switches < MaxEvents
  /\ count' = [count EXCEPT !.faults = @ + 1]
-------------------------------------------------------------------------------
(* The engine's transport cell, as the port reaches it.                       *)
Submit(s, action) ==
  LET e == s.en
      verdict == CASE ~ e.run -> "not_running"
                   [] e.run /\ e.reserved -> "busy"
                   [] e.run /\ ~ e.reserved /\ action = "start" /\ e.known -> "invalid_action"
                   [] e.run /\ ~ e.reserved /\ action = "fence" /\ ~ e.known -> "not_running"
                   [] OTHER -> "accepted"
      t == [s EXCEPT !.c.submitted = verdict]
  IN  IF verdict = "accepted" THEN [t EXCEPT !.en.command = action, !.en.reserved = TRUE] ELSE t

CanAcknowledge(s) == s.en.reserved /\ s.en.receipt # Empty

Acknowledge(s) ==
  [s EXCEPT !.en.known = s.en.receipt.playing, !.en.receipt = Empty, !.en.reserved = FALSE]

(* submit_audio(): an overlay that is still queued is withdrawn first, and    *)
(* the command is sent by the next drive().                                   *)
SubmitAudio(s, action) ==
  IF s.c.unlanded /\ s.en.overlay
  THEN [s EXCEPT !.en.overlay = FALSE, !.c.unlanded = FALSE, !.c.projected = FALSE,
                 !.c.deferred = action, !.c.submitted = "accepted"]
  ELSE LET t == Submit(s, action)
       IN  [t EXCEPT !.c.err = @ \/ t.c.submitted \notin {"accepted", "busy"}]
Submitted(s) == s.c.submitted = "accepted"

Work(s, op, t, f) ==
  IF s.io # Empty \/ s.c.stopped THEN s
  ELSE [s EXCEPT !.io = [op |-> op, t |-> t, f |-> f, st |-> "queued", done |-> FALSE]]

FinishRequest(s) ==
  IF s.c.pending = Absent THEN s
  ELSE [s EXCEPT !.c.pending = Absent, !.c.receipt = Empty, !.c.closing = FALSE, !.c.prepare = FALSE,
                 !.c.phase = IF s.c.err THEN "error" ELSE "idle"]

-------------------------------------------------------------------------------
(* Settlement of inputs and holds.                                            *)
HoldOf(s, i) == {h \in s.ho : h.press = IF i.press THEN i.t ELSE i.of}
OwesRelease(s, i) == ~ i.press /\ \E h \in HoldOf(s, i) : h.recorded /\ h.metadata
Replace(set, old, new) == (set \ {old}) \cup {new}

(* settle_input(): a release that was not journalled cannot settle a hold the *)
(* journal still has open; it waits for the cutoff, a segment or the loss of  *)
(* the owner.                                                                 *)
SettleInput(s, i, retained) ==
  IF ~ retained /\ OwesRelease(s, i)
  THEN [s EXCEPT !.in = Replace(@, i, [i EXCEPT !.waiting = TRUE])]
  ELSE [s EXCEPT
    !.in = Replace(@, i, [i EXCEPT !.settled = TRUE, !.retained = retained]),
    !.ho = {IF h \notin HoldOf(s, i) THEN h
            ELSE IF i.press
                 THEN [h EXCEPT !.recorded = retained, !.metadata = @ /\ retained]
                 ELSE [h EXCEPT !.metadata = @ /\ ~ retained] : h \in @},
    !.c.dirty = @ \/ retained]

(* A durable segment, close or owner_lost ends the metadata of `which` holds  *)
(* and settles the releases that waited for it.                               *)
EndHolds(s, which) ==
  [s EXCEPT !.ho = {IF h \in which THEN [h EXCEPT !.metadata = FALSE] ELSE h :
                      h \in {g \in @ : ~ (g \in which /\ g.consumed)}},
            !.in = {IF i.waiting THEN [i EXCEPT !.waiting = FALSE, !.settled = TRUE] ELSE i : i \in @}]

HasIngress(s) == \E i \in s.in : ~ i.settled /\ ~ i.waiting
UnsettledSwitches(s) == {w \in s.sw : ~ w.settled /\ ~ w.disposed}
HasUnacknowledgedInputs(s) ==
  \/ s.sw # {} \/ s.in # {}
  \/ ~ (s.c.invalid /\ s.c.disposed) /\ s.ho # {}
-------------------------------------------------------------------------------

(* poll_work(): what the controller makes of the worker's outcome.           *)
Refused(s) ==
  LET op  == s.io.op
      mine == {i \in s.in : op = "admit" /\ i.t = s.io.t}
      t   == [s EXCEPT !.c.err = TRUE]
      u   == IF mine = {} THEN t ELSE SettleInput(t, CHOOSE i \in mine : TRUE, FALSE)
      v   == [u EXCEPT !.excused = @ \cup {i.t : i \in mine}]
  IN  CASE op = "admit" -> v
        [] op = "open" -> [v EXCEPT !.c.openFailed = TRUE, !.c.phase = "error"]
        [] op = "preflight" -> [v EXCEPT !.c.pending = Absent, !.c.prepare = FALSE, !.c.phase = "idle"]
        [] op = "segment" -> [v EXCEPT !.c.switchFailed = TRUE, !.c.phase = "error"]
        [] op = "owner_lost" -> [v EXCEPT !.c.dispRefused = TRUE, !.c.phase = "error"]
        [] OTHER -> [v EXCEPT !.c.phase = "error"]

Opened(s) ==
  LET t == [s EXCEPT !.c.openDone = TRUE, !.c.request = TRUE]
  IN  IF ~ CanAcknowledge(t) THEN [t EXCEPT !.c.err = TRUE, !.c.phase = "error"]
      ELSE FinishRequest([Acknowledge(t) EXCEPT !.c.recording = TRUE, !.c.dirty = TRUE])

Segmented(s) ==
  LET t == [s EXCEPT !.sw = {IF w.n = s.io.t THEN [w EXCEPT !.settled = TRUE] ELSE w : w \in @},
                     !.c.dirty = TRUE, !.c.projected = FALSE, !.c.unlanded = FALSE]
  IN  EndHolds(t, {h \in t.ho : h.recorded})

Closed(s) ==
  LET t == [s EXCEPT !.c.closed = (s.c.pending # Absent /\ s.c.cutoff >= 0) \/ @,
                     !.c.recording = FALSE, !.c.cutoffDone = FALSE, !.c.closing = FALSE,
                     !.c.dirty = FALSE, !.c.projected = FALSE, !.c.unlanded = FALSE]
  IN  FinishRequest(EndHolds(t, t.ho))

Disposed(s) ==
  LET t == [s EXCEPT !.c.disposed = TRUE, !.c.recording = FALSE, !.c.pending = Absent,
                     !.c.phase = "error",
                     !.sw = {IF w.settled THEN w ELSE [w EXCEPT !.disposed = TRUE] : w \in @}]
  IN  EndHolds(t, t.ho)

Succeeded(s0) ==
  LET s == [s0 EXCEPT !.c.err = FALSE]
      op == s.io.op
  IN  CASE op = "preflight" -> [s EXCEPT !.c.prepared = TRUE, !.c.prepare = FALSE]
        [] op = "open" -> Opened(s)
        [] op = "segment" -> Segmented(s)
        [] op = "admit" -> SettleInput(s, CHOOSE i \in s.in : i.t = s.io.t, TRUE)
        [] op = "cutoff" -> [s EXCEPT !.c.cutoffDone = TRUE, !.c.phase = "flushing"]
        [] op = "close" -> Closed(s)
        [] op = "owner_lost" -> Disposed(s)
        [] op = "project" -> [s EXCEPT !.c.projected = TRUE, !.c.dirty = FALSE]
        [] op = "overlay" -> [s EXCEPT !.c.unlanded = FALSE]

Consumed(s) == [s EXCEPT !.io = Empty, !.c.err = @ \/ s.c.invalid]

PollWork(s) ==
  IF s.io = Empty THEN s
  ELSE CASE s.io.st \in {"queued", "reconcile"} -> Return(s)
         [] s.io.st = "unknown" -> Return([s EXCEPT !.io.st = "reconcile", !.c.err = TRUE])
         [] s.io.st = "retry" -> Return([s EXCEPT !.io.st = "queued", !.c.err = TRUE])
         [] s.io.st = "refused" -> Consumed(Refused(s))
         [] s.io.st = "success" -> Consumed(Succeeded(s))
-------------------------------------------------------------------------------
(* drive(): the stages of one short control step, in order.                   *)
SendDeferred(s) ==
  IF s.c.pending = Absent \/ s.c.deferred = Absent THEN s
  ELSE LET t == [Submit(s, s.c.deferred) EXCEPT !.c.deferred = Absent]
       IN  IF Submitted(t) THEN t
           ELSE Return([t EXCEPT !.c.pending = Absent, !.c.closing = FALSE, !.c.err = TRUE,
                                 !.c.phase = IF t.c.invalid THEN "error" ELSE "idle"])

AcquireReceipt(s) ==
  IF \/ s.c.pending = Absent \/ s.c.receipt # Empty \/ s.c.prepare \/ s.c.deferred # Absent
     \/ s.en.receipt = Empty
  THEN s
  ELSE LET t == [s EXCEPT !.c.receipt = s.en.receipt, !.c.playing = s.en.receipt.playing]
       IN  IF ~ s.c.closing THEN t
           ELSE Acknowledge([t EXCEPT !.c.cutoff = s.en.receipt.frame])

RetireFailedPreparation(s) ==
  IF ~ (s.c.shutdown /\ s.c.failedPrep /\ s.c.pending # Absent /\ s.c.prepared /\ s.io = Empty
        /\ s.c.receipt = Empty /\ ~ s.c.recording)
  THEN s
  ELSE FinishRequest([s EXCEPT !.c.invalid = TRUE, !.c.disposed = FALSE, !.c.err = TRUE,
                               !.c.playing = FALSE, !.c.openFailed = TRUE, !.c.prepared = FALSE])

(* A prepared Record is sent to the engine; the recording starts at the frame *)
(* of its receipt.                                                            *)
SendPrepared(s) ==
  LET t == SubmitAudio(s, IF s.c.playing THEN "fence" ELSE "start")
  IN  CASE Submitted(t) ->
             [t EXCEPT !.c.prepared = FALSE, !.c.request = TRUE, !.c.phase = "awaiting_audio"]
        [] t.c.submitted = "busy" -> t
        [] OTHER ->
             LET u == [t EXCEPT !.c.phase = "error",
                                !.c.failedPrep = @ \/ t.c.submitted = "not_running"]
             IN  RetireFailedPreparation(u)

Start(s) ==
  IF s.c.pending = "record"
  THEN LET t == [s EXCEPT !.c.start = s.c.receipt.frame, !.c.cutoff = -1,
                          !.c.cutoffDone = FALSE, !.c.closed = FALSE]
       IN  Work(t, "open", 0, s.c.receipt.frame)
  ELSE IF CanAcknowledge(s) THEN FinishRequest(Acknowledge(s))
       ELSE [s EXCEPT !.c.err = TRUE, !.c.phase = "error"]

FirstInput(set) == CHOOSE x \in set : \A y \in set : x.t <= y.t
FirstSwitch(set) == CHOOSE x \in set : \A y \in set : x.n <= y.n

(* switch_blocks_input(): an input from the boundary of the first unsettled   *)
(* switch on belongs to the next segment.                                     *)
SwitchBlocksInput(s, frame) ==
  /\ UnsettledSwitches(s) # {}
  /\ LET w == FirstSwitch(UnsettledSwitches(s))
     IN  frame >= IF w.fate = "applied" THEN w.applied ELSE w.activation

(* Mutant: a press at the very frame of the opening is not recorded.          *)
DriveInputsAfter(s) ==
  LET open == {i \in s.in : ~ i.settled /\ ~ i.waiting}
      i == FirstInput(open)
      eligible == IF i.press THEN s.c.request /\ i.frame > s.c.start ELSE OwesRelease(s, i)
  IN  IF s.io # Empty \/ open = {} \/ (open # {} /\ i.native = "none") THEN s
      ELSE IF ~ eligible \/ (s.c.cutoff >= 0 /\ i.frame >= s.c.cutoff) THEN SettleInput(s, i, FALSE)
      ELSE IF ~ s.c.recording \/ SwitchBlocksInput(s, i.frame) THEN s
      ELSE Work(s, "admit", i.t, i.frame)

(* Mutant: an input waits for a recording even when there is none to wait for.*)
DriveInputsWait(s) ==
  LET open == {i \in s.in : ~ i.settled /\ ~ i.waiting}
      i == FirstInput(open)
  IN  IF s.io # Empty \/ open = {} \/ (open # {} /\ i.native = "none") \/ ~ s.c.recording THEN s
      ELSE IF s.c.cutoff >= 0 /\ i.frame >= s.c.cutoff THEN SettleInput(s, i, FALSE)
      ELSE Work(s, "admit", i.t, i.frame)

(* drive_inputs(): the oldest unsettled input, once the engine consumed it.   *)
DriveInputs(s) ==
  LET open == {i \in s.in : ~ i.settled /\ ~ i.waiting}
      i == FirstInput(open)
      eligible == IF i.press THEN s.c.request /\ i.frame >= s.c.start ELSE OwesRelease(s, i)
      live == SettleInput(s, i, FALSE)
  IN  IF s.io # Empty \/ open = {} \/ (open # {} /\ i.native = "none") THEN s
      ELSE IF i.native = "failed" \/ (s.c.invalid /\ s.c.switchFailed) THEN live
      ELSE IF eligible /\ s.c.openFailed /\ ~ s.c.openDone
      THEN [live EXCEPT !.excused = @ \cup {i.t}]
      ELSE IF ~ eligible \/ (s.c.cutoff >= 0 /\ i.frame >= s.c.cutoff) THEN live
      ELSE IF ~ s.c.recording \/ SwitchBlocksInput(s, i.frame) THEN s
      ELSE Work(s, "admit", i.t, i.frame)

(* drive_switches(): the oldest switch, once the engine applied it and every  *)
(* earlier input is settled.                                                  *)
DriveSwitches(s) ==
  LET open == {w \in s.sw : ~ w.settled}
      w == FirstSwitch(open)
  IN  IF s.io # Empty \/ s.c.invalid \/ s.c.switchFailed \/ open = {} THEN s
      ELSE IF w.fate # "applied" THEN s
      ELSE IF s.c.cutoff >= 0 /\ w.applied >= s.c.cutoff
      THEN [s EXCEPT !.c.switchFailed = TRUE, !.c.err = TRUE, !.c.phase = "error"]
      ELSE IF \E i \in s.in : ~ i.settled /\ ~ i.waiting /\ i.frame < w.applied THEN s
      ELSE Work(s, "segment", w.n, w.applied)

DriveClose(s) ==
  IF ~ (s.c.closing /\ s.c.pending # Absent /\ s.c.cutoff >= 0 /\ s.io = Empty
        /\ ~ HasIngress(s) /\ UnsettledSwitches(s) = {})
  THEN s
  ELSE IF s.c.openFailed /\ ~ s.c.openDone THEN FinishRequest(s)
  ELSE IF ~ s.c.cutoffDone THEN Work(s, "cutoff", 0, s.c.cutoff)
  ELSE Work(s, "close", 0, s.c.cutoff)

(* publish(): the recorded notes are projected and published as an overlay of *)
(* the playing Pattern; accept is the engine's answer.  The budget of three   *)
(* refusals is one answer here.                                               *)
DrivePublish(s, accept) ==
  IF \/ s.c.pending # Absent \/ ~ s.c.recording \/ s.io # Empty \/ HasIngress(s) \/ s.c.invalid
     \/ s.c.closing \/ UnsettledSwitches(s) # {}
  THEN s
  ELSE IF s.c.unlanded
       THEN IF s.en.overlay THEN s ELSE Work(s, "overlay", 0, 0)
  ELSE IF s.c.dirty THEN Work(s, "project", 0, 0)
  ELSE IF ~ s.c.projected \/ \E p \in s.en.pubs : p.st = "pending" THEN s
  ELSE IF accept THEN [s EXCEPT !.c.projected = FALSE, !.c.unlanded = TRUE, !.en.overlay = TRUE]
  ELSE [s EXCEPT !.c.projected = FALSE]

DriveOwnerLoss(s) ==
  IF ~ (s.c.shutdown /\ s.c.invalid /\ ~ s.c.disposed /\ s.io = Empty /\ ~ HasIngress(s)) THEN s
  ELSE IF (s.c.revoked # Absent \/ s.c.failedPrep) /\ s.c.dispRefused THEN s
  ELSE IF s.c.revoked # Absent \/ s.c.failedPrep \/ s.c.request THEN Work(s, "owner_lost", 0, 0)
  ELSE s

DriveShutdown(s) ==
  [s EXCEPT !.c.stopped = @ \/ (/\ s.c.shutdown /\ s.io = Empty /\ s.c.pending = Absent
                                /\ ~ HasIngress(s) /\ ~ HasUnacknowledgedInputs(s)
                                /\ (s.c.invalid => s.c.disposed))]

Settle(s, accept) ==
  LET a == DriveSwitches(DriveInputs(s))
  IN  DriveShutdown(DriveOwnerLoss(DrivePublish(DriveClose(a), accept)))

Drive(s0, accept) ==
  LET a == SendDeferred(s0)
      b == IF a.go THEN PollWork(AcquireReceipt(a)) ELSE a
      d == IF b.c.shutdown /\ b.c.switchFailed
           THEN [b EXCEPT !.c.invalid = TRUE, !.c.err = TRUE, !.c.phase = "error"] ELSE b
      e == RetireFailedPreparation(d)
  IN  IF ~ b.go THEN b
      ELSE IF d.c.prepare /\ d.c.pending # Absent /\ d.io = Empty THEN Work(d, "preflight", 0, 0)
      ELSE IF e.c.prepared /\ e.c.pending # Absent /\ e.c.receipt = Empty /\ e.c.phase = "preparing"
      THEN SendPrepared(e)
      ELSE IF ~ e.c.shutdown /\ e.c.phase = "error" /\ ~ e.c.invalid THEN e
      ELSE IF e.c.receipt # Empty /\ e.c.pending # Absent /\ ~ e.c.closing /\ e.io = Empty THEN Start(e)
      ELSE Settle(e, accept)
-------------------------------------------------------------------------------
(* Control turns of the host.                                                 *)

(* service_pattern_inputs(), observe_recording_switches(): what the engine    *)
(* did reaches the controller; a complete switch is consumed.                 *)
ServiceInputs(s) ==
  [s EXCEPT !.in = {IF \E d \in s.en.done : d.t = i.t
                    THEN [i EXCEPT !.native = (CHOOSE d \in s.en.done : d.t = i.t).native]
                    ELSE i : i \in @},
            !.en.done = {}]
Observe(s) ==
  LET fate(w) == (CHOOSE p \in s.en.pubs : p.n = w.n)
      seen == {IF w.fate = "pending"
               THEN [w EXCEPT !.fate = fate(w).st, !.applied = fate(w).frame,
                              !.settled = @ \/ fate(w).st = "cancelled"]
               ELSE w : w \in s.sw}
      kept == {w \in seen : w.fate = "pending" \/ ~ (w.settled \/ w.disposed)}
  IN  [s EXCEPT !.sw = kept, !.en.pubs = {p \in @ : \E w \in kept : w.n = p.n}]

(* transport_continuation_step().  While the publication of a closed take is  *)
(* owed, the controller is driven only for a shutdown or a real stop.         *)
Turn(accept) ==
  LET a == ServiceInputs(Observe(Now))
      driven == ~ publish \/ c.shutdown \/ (en.receipt # Empty /\ ~ en.receipt.playing)
  IN  IF driven THEN Observe(Drive(a, accept)) ELSE a
OwesPublication(s, published) ==
  IF publish THEN ~ published \/ s.en.reserved
  ELSE c.recording /\ ~ s.c.recording /\ s.c.phase = "idle" /\ ~ s.c.err
Step ==
  \E s \in {Turn(accept) : accept \in BOOLEAN} :
    /\ Becomes(s)
    /\ publish' \in {OwesPublication(s, published) : published \in BOOLEAN}
    /\ UNCHANGED <<journal, heard, count>>

(* request(): a recording gets its cutoff at once; a new Record is prepared   *)
(* first; Play and Stop go to the engine.                                     *)
Ask(s, intent) ==
  IF s.c.shutdown \/ s.c.phase = "error" \/ s.c.pending # Absent THEN s
  ELSE IF s.c.recording
  THEN LET t == SubmitAudio(s, IF intent = "play_stop" THEN "stop" ELSE "fence")
       IN  IF ~ Submitted(t) THEN t
           ELSE [t EXCEPT !.c.pending = intent, !.c.cutoff = -1, !.c.cutoffDone = FALSE,
                          !.c.closing = TRUE, !.c.phase = "awaiting_audio"]
  ELSE IF intent = "record"
  THEN [s EXCEPT !.c.err = FALSE, !.c.pending = intent, !.c.openDone = FALSE,
                 !.c.openFailed = FALSE, !.c.phase = "preparing", !.c.prepare = TRUE]
  ELSE LET t == SubmitAudio([s EXCEPT !.c.err = FALSE], IF s.c.playing THEN "stop" ELSE "start")
       IN  IF Submitted(t) THEN [t EXCEPT !.c.pending = intent, !.c.phase = "awaiting_audio"] ELSE t

QueuedPublication == en.overlay \/ \E p \in en.pubs : p.st = "pending"
Request(intent) ==
  /\ count.requests < MaxRequests
  /\ en.run /\ (QueuedPublication => c.playing /\ (intent = "record" => c.recording))
  /\ Becomes(Ask(Now, intent))
  /\ count' = [count EXCEPT !.requests = @ + 1]
  /\ UNCHANGED <<journal, publish, heard>>

(* request_pattern_input(): reserve, enqueue in the engine, bind, in one turn;*)
(* what the engine refuses is abandoned and leaves nothing.                   *)
Press ==
  /\ Len(heard) < MaxInputs
  /\ ~ c.acked /\ ~ c.shutdown /\ en.run
  /\ Cardinality({i \in inputs : i.press}) < Capacity /\ Cardinality(holds) < Capacity
  /\ LET t == Len(heard) + 1
     IN  /\ inputs' = inputs \cup {[t |-> t, press |-> TRUE, of |-> 0, frame |-> en.now,
                                    native |-> "none", settled |-> FALSE, retained |-> FALSE,
                                    waiting |-> FALSE]}
         /\ holds' = holds \cup {[press |-> t, recorded |-> FALSE, metadata |-> TRUE,
                                  reserved |-> FALSE, consumed |-> FALSE]}
         /\ en' = [en EXCEPT !.fifo = Append(@, t)]
         /\ heard' = Append(heard, en.now)
  /\ UNCHANGED <<c, switches, io, journal, publish, excused, count>>

Release(h) ==
  /\ Len(heard) < MaxInputs + MaxInputs
  /\ ~ c.acked /\ en.run /\ ~ h.reserved
  /\ LET t == Len(heard) + 1
     IN  /\ inputs' = inputs \cup {[t |-> t, press |-> FALSE, of |-> h.press, frame |-> en.now,
                                    native |-> "none", settled |-> FALSE, retained |-> FALSE,
                                    waiting |-> FALSE]}
         /\ holds' = Replace(holds, h, [h EXCEPT !.reserved = TRUE])
         /\ en' = [en EXCEPT !.fifo = Append(@, t)]
         /\ heard' = Append(heard, 0)
  /\ UNCHANGED <<c, switches, io, journal, publish, excused, count>>

(* inspect_pattern_input() with consume: the ticket is spent; a release also  *)
(* spends its hold once the journal owes it nothing.                          *)
Consume(i) ==
  /\ i.settled
  /\ inputs' = inputs \ {i}
  /\ holds' = IF i.press THEN holds
              ELSE {IF h.press = i.of THEN [h EXCEPT !.consumed = TRUE] ELSE h :
                      h \in {g \in holds : ~ (g.press = i.of /\ ~ g.metadata)}}
  /\ UNCHANGED <<c, switches, io, en, journal, publish, heard, excused, count>>

(* pattern.transport.switch while recording: reserve_switch() (which first    *)
(* withdraws a queued overlay), publication in the engine with an activation  *)
(* frame, bind_switch(), in one turn.                                         *)
SwitchPattern(activation) ==
  /\ count.faults + count.switches < MaxEvents
  /\ c.recording /\ c.request /\ ~ c.shutdown /\ ~ c.invalid /\ c.pending = Absent /\ ~ c.closing
  /\ c.phase = "idle" /\ ~ c.err /\ io = Empty /\ ~ publish /\ en.run
  /\ Cardinality(switches) < SwitchCapacity
  /\ ~ en.reserved
  /\ \A p \in en.pubs : p.st = "pending" => p.activation < activation
  /\ LET n == count.switches + 1
     IN  /\ switches' = switches \cup {[n |-> n, activation |-> activation, fate |-> "pending",
                                        applied |-> -1, settled |-> FALSE, disposed |-> FALSE]}
         /\ en' = [en EXCEPT !.overlay = FALSE,
                     !.pubs = @ \cup {[n |-> n, activation |-> activation, st |-> "pending", frame |-> -1]}]
         /\ c' = [c EXCEPT !.unlanded = FALSE, !.projected = @ /\ ~ c.unlanded]
         /\ count' = [count EXCEPT !.switches = n]
  /\ UNCHANGED <<inputs, holds, io, journal, publish, heard, excused>>

(* request_shutdown(), from the lifecycle barrier of suspend, replace, close  *)
(* or after the engine was lost: the genuine Stop first, unless a request is  *)
(* pending; without an engine the recording's owner is lost.                  *)
RequestShutdown ==
  /\ ~ c.shutdown
  /\ LET a == IF c.switchFailed THEN [Now EXCEPT !.c.invalid = TRUE, !.c.err = TRUE] ELSE Now
         b == IF a.c.pending = Absent /\ (a.c.playing \/ a.c.recording) THEN Ask(a, "play_stop") ELSE a
         lost == /\ ~ b.c.invalid /\ b.c.pending = Absent /\ b.c.request /\ ~ b.c.closed
                 /\ b.c.submitted = "not_running"
         d == IF lost THEN [b EXCEPT !.c.invalid = TRUE, !.c.playing = FALSE, !.c.err = TRUE,
                                     !.c.phase = "error"] ELSE b
     IN  Becomes([d EXCEPT !.c.shutdown = TRUE])
  /\ UNCHANGED <<journal, publish, heard, count>>

(* request_owner_disposition(): pads are still held, everything else is       *)
(* settled and the engine is gone; the worker disposes of the input owner.    *)
RequestDisposition ==
  /\ c.shutdown /\ ~ c.acked /\ ~ en.run
  /\ c.revoked = Absent \/ ~ (c.disposed \/ io # Empty)
  /\ LET closed == c.closed /\ ~ c.recording /\ ~ c.closing
     IN  /\ closed \/ (~ c.request /\ ~ c.failedPrep)
         /\ ~ c.prepared /\ ~ c.prepare /\ c.pending = Absent /\ io = Empty /\ inputs = {} /\ ~ c.stopped
         /\ holds # {}
         /\ \A h \in holds : ~ h.metadata /\ ~ h.reserved /\ (h.recorded => closed)
         /\ Becomes([Work(Now, "owner_lost", 0, 0) EXCEPT
                       !.c.revoked = IF closed THEN "closed" ELSE "resource", !.c.dispRefused = FALSE,
                       !.c.invalid = TRUE, !.c.playing = FALSE, !.c.err = TRUE, !.c.phase = "error"])
  /\ UNCHANGED <<journal, publish, heard, count>>

(* acknowledge_owner(): the last correlations of held pads are dropped.       *)
AcknowledgeOwner ==
  /\ c.shutdown /\ ~ c.acked /\ c.invalid /\ c.disposed /\ c.phase = "error" /\ ~ en.run
  /\ c.pending = Absent /\ io = Empty /\ inputs = {} /\ switches = {}
  /\ \A h \in holds : ~ h.metadata /\ (h.reserved => h.consumed)
  /\ c' = [c EXCEPT !.acked = TRUE] /\ holds' = {}
  /\ UNCHANGED <<inputs, switches, io, en, journal, publish, heard, excused, count>>
-------------------------------------------------------------------------------
(* The audio callback.                                                        *)

(* apply_pattern_transport(): the receipt carries the frame; Stop and fence   *)
(* cancel the named switches that have not been applied.                      *)
ApplyTransport(e) ==
  IF e.command = Absent THEN e
  ELSE LET playing == IF e.command = "fence" THEN e.playing ELSE e.command = "start"
       IN  [e EXCEPT !.command = Absent, !.playing = playing,
                     !.receipt = [frame |-> e.now, playing |-> playing],
                     !.pubs = IF e.command = "start" THEN @
                              ELSE {IF p.st = "pending" THEN [p EXCEPT !.st = "cancelled"] ELSE p : p \in @}]
ConsumeInputs(e, failed) ==
  [e EXCEPT !.fifo = <<>>,
            !.done = @ \cup {[t |-> t, native |-> IF t \in failed THEN "failed" ELSE "ok"] : t \in Range(e.fifo)}]
ApplyPublication(e) ==
  [e EXCEPT !.pubs = {IF p.st = "pending" /\ p.activation <= e.now
                      THEN [p EXCEPT !.st = "applied", !.frame = e.now] ELSE p : p \in @}]

IsPress(t) == heard[t] # 0
HasWork(e) == e.command # Absent \/ e.fifo # <<>> \/ \E p \in e.pubs : p.st = "pending"

(* A callback with nothing to apply changes nothing and is no step here.      *)
CallbackBegin ==
  /\ en.run /\ ~ en.mid /\ (HasWork(en) \/ en.overlay)
  /\ \E lands \in BOOLEAN, failed \in SUBSET {t \in Range(en.fifo) : IsPress(t)} :
       /\ IF failed = {} THEN UNCHANGED count ELSE Cardinality(failed) = 1 /\ Fault("voice")
       /\ excused' = excused \cup failed
       /\ en' = [ApplyPublication(ConsumeInputs(ApplyTransport(en), failed)) EXCEPT
                   !.mid = TRUE, !.overlay = @ /\ ~ lands,
                   !.busy = HasWork(en)]
  /\ UNCHANGED <<c, inputs, holds, switches, io, journal, publish, heard>>
CallbackEnd ==
  /\ en.mid
  /\ en' = [en EXCEPT !.mid = FALSE, !.busy = FALSE, !.now = IF en.busy THEN @ + 1 ELSE @]
  /\ UNCHANGED <<c, inputs, holds, switches, io, journal, publish, heard, excused, count>>

(* stop(): the engine is lost between callbacks with whatever it held.        *)
EngineStop ==
  /\ en.run /\ ~ en.mid /\ Fault("stop")
  /\ en' = [ConsumeInputs(en, Range(en.fifo)) EXCEPT
              !.run = FALSE, !.playing = FALSE, !.known = FALSE, !.command = Absent,
              !.receipt = Empty, !.reserved = FALSE, !.overlay = FALSE,
              !.pubs = {IF p.st = "pending" THEN [p EXCEPT !.st = "cancelled"] ELSE p : p \in @}]
  /\ excused' = excused \cup Range(en.fifo)
  /\ UNCHANGED <<c, inputs, holds, switches, io, journal, publish, heard>>
-------------------------------------------------------------------------------
(* The I/O worker (TransportExecutor, PatternAdmission) as the controller     *)
(* sees it: success, a final refusal, or an unknown outcome that a readback   *)
(* resolves to success or to "never happened, retry".  An opening that is     *)
(* already durable is replayed.                                               *)
Durable == {"open", "admit", "segment", "cutoff", "close", "owner_lost"}
Written ==
  LET e == [op |-> io.op, t |-> io.t, f |-> io.f]
  IN  IF io.op \notin Durable \/ (io.op = "open" /\ journal # <<>> /\ Last(journal) = e)
      THEN journal ELSE Append(journal, e)
WorkSucceeds ==
  /\ io # Empty /\ io.st = "queued"
  /\ journal' = Written /\ io' = [io EXCEPT !.st = "success"]
  /\ UNCHANGED <<c, inputs, holds, switches, en, publish, heard, excused, count>>
WorkRefused ==
  /\ io # Empty /\ io.st = "queued" /\ Fault("refused")
  /\ io' = [io EXCEPT !.st = "refused"]
  /\ UNCHANGED <<c, inputs, holds, switches, en, journal, publish, heard, excused>>
WorkUnknown(done) ==
  /\ io # Empty /\ io.st = "queued" /\ io.op \in Durable /\ Fault("unknown")
  /\ journal' = IF done THEN Written ELSE journal
  /\ io' = [io EXCEPT !.st = "unknown", !.done = done]
  /\ UNCHANGED <<c, inputs, holds, switches, en, publish, heard, excused>>
WorkReconciled ==
  /\ io # Empty /\ io.st = "reconcile"
  /\ io' = [io EXCEPT !.st = IF io.done THEN "success" ELSE "retry"]
  /\ UNCHANGED <<c, inputs, holds, switches, en, journal, publish, heard, excused, count>>

Worker == WorkSucceeds \/ WorkReconciled
Next ==
  \/ Step \/ RequestShutdown \/ RequestDisposition \/ AcknowledgeOwner
  \/ \E intent \in {"play_stop", "record"} : Request(intent)
  \/ Press \/ \E h \in holds : Release(h) \/ \E i \in inputs : Consume(i)
  \/ \E a \in en.now .. en.now + 1 : SwitchPattern(a)
  \/ CallbackBegin \/ CallbackEnd \/ EngineStop
  \/ Worker \/ WorkRefused \/ \E done \in BOOLEAN : WorkUnknown(done)

(* The host's cadence steps the controller, the audio device calls back and   *)
(* the worker thread runs; a publication that is not blocked is made.         *)
StepIdle ==
  \A accept, published \in BOOLEAN :
    LET s == Turn(accept)
    IN  /\ <<c, inputs, holds, switches>> = <<s.c, s.in, s.ho, s.sw>>
        /\ <<io, en, excused>> = <<s.io, s.en, s.excused>>
        /\ publish = OwesPublication(s, published)
CanPublish == publish /\ \E accept \in BOOLEAN : ~ Turn(accept).en.reserved
Fairness ==
  /\ WF_vars(CallbackBegin) /\ WF_vars(CallbackEnd) /\ WF_vars(Worker)
  /\ []<> StepIdle \/ []<> <<Step>>_vars
  /\ <>[] ~ CanPublish \/ []<> <<Step /\ publish /\ ~ publish'>>_vars
Spec == Init /\ [][Next]_vars /\ Fairness
-------------------------------------------------------------------------------
(* Types of the state the three threads share; the engine's transport cell is *)
(* reserved exactly while a command or its receipt is in it.                  *)
TypeOK ==
  /\ c.phase \in {"idle", "preparing", "awaiting_audio", "flushing", "error"}
  /\ c.pending \in {Absent, "play_stop", "record"} /\ c.deferred \in {Absent, "start", "stop", "fence"}
  /\ \A i \in inputs : i.t \in 1 .. Len(heard) /\ i.native \in {"none", "ok", "failed"}
  /\ io # Empty => io.st \in {"queued", "reconcile", "unknown", "retry", "refused", "success"}
  /\ en.now \in Nat \ {0} /\ en.command \in {Absent, "start", "stop", "fence"}
  /\ count.faults + count.switches \in 0 .. MaxEvents
  /\ en.reserved <=> en.command # Absent \/ en.receipt # Empty

Index == 1 .. Len(journal)
Opening(k) ==     \* the opening of the take entry k belongs to, 0 if none
  LET o == {j \in 1 .. k : journal[j].op = "open"} IN IF o = {} THEN 0 ELSE Max(o)
Before(k, op) == {j \in Opening(k) .. k - 1 : j > 0 /\ journal[j].op = op}

(* The journal accepts entries only in the order the admission format allows: *)
(* an input between the opening and the cutoff of its take, in the order of   *)
(* acceptance, on the right side of every segment; no entry after the cutoff  *)
(* but the close; no input twice, although outcomes are lost and work is      *)
(* retried.                                                                   *)
JournalOrdered ==
  \A k \in Index :
    LET e == journal[k]
    IN  /\ e.op = "open" => \A j \in 1 .. k - 1 : journal[j].op = "open" =>
                               \E l \in j .. k : journal[l].op \in {"close", "owner_lost"}
        /\ e.op \in {"admit", "segment", "cutoff"} =>
             /\ Opening(k) > 0 /\ e.f >= journal[Opening(k)].f
             /\ \A op \in {"cutoff", "close", "owner_lost"} : Before(k, op) = {}
             /\ \A j \in Before(k, "segment") : e.f >= journal[j].f
        /\ e.op \in {"segment", "cutoff"} => \A j \in Before(k, "admit") : journal[j].f < e.f
        /\ e.op = "admit" => \A j \in 1 .. k - 1 : journal[j].op = "admit" => journal[j].t < e.t
        /\ e.op = "close" => Before(k, "cutoff") # {}

(* A closed take holds every press that was heard from its opening frame up   *)
(* to its cutoff and was not refused for good.                                *)
NothingLost ==
  \A k \in Index : journal[k].op = "close" =>
    \A t \in 1 .. Len(heard) :
      (/\ heard[t] # 0 /\ t \notin excused
       /\ heard[t] >= journal[Opening(k)].f /\ heard[t] < journal[k].f)
      => \E j \in Before(k, "admit") : journal[j].t = t

(* A release reported as settled and not recorded leaves no note sounding in  *)
(* the journal: its press was not recorded, or a segment, a cutoff or the     *)
(* loss of the owner ended it.                                                *)
ReleaseSound ==
  \A i \in inputs : ~ i.press /\ i.settled /\ ~ i.retained =>
    \A k \in Index : journal[k].op = "admit" /\ journal[k].t = i.of =>
      \E j \in k .. Len(journal) : journal[j].op \in {"segment", "cutoff", "owner_lost"}

(* What is reported as retained is in the journal.                            *)
RetainedDurable ==
  \A i \in inputs : i.retained => \E k \in Index : journal[k].op = "admit" /\ journal[k].t = i.t

(* Every accepted press is settled.                                           *)
PressesSettle ==
  \A t \in 1 .. MaxInputs :
    (\E i \in inputs : i.t = t /\ i.press) ~>
      (~ \E i \in inputs : i.t = t /\ i.press /\ ~ i.settled) \/ c.phase = "error" \/ c.stopped
===============================================================================
