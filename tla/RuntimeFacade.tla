---------------------------- MODULE RuntimeFacade ----------------------------
(* The narrow playback Facade of embedded Hosts:                              *)
(* packages/application-facade/src/runtime_facade.cpp. One serialized control *)
(* caller loads content, starts, submits commands, polls receipts and stops,  *)
(* while the audio callback renders. The two share the gate (an atomic of two *)
(* bits), the atomic consumed count, and the engine's control and trigger     *)
(* outcome rings. Every access to one of these is a step of its own.          *)
(*                                                                            *)
(* Of the engine (audio-runtime/src/realtime_engine.cpp) only the two rings   *)
(* and the number of dequeued controls are modelled: a ring is a bounded FIFO *)
(* (module SpscQueue), the dequeued controls are recorded with what became of *)
(* them.                                                                      *)
EXTENDS Naturals, Sequences

CONSTANTS MaxPending,           \* maximum_pending_commands
          MaxSequence,          \* maximum_sequence
          MaxEpoch              \* maximum_epoch

ASSUME PendingAssumption == MaxPending \in Nat \ {0}
ASSUME SequenceAssumption == MaxSequence \in Nat \ {0}
ASSUME EpochAssumption == MaxEpoch \in Nat \ {0}

VARIABLES phase,                \* the RuntimePhase
          engine,               \* does the engine exist?
          epoch,                \* epoch_count
          accepted,             \* the last accepted sequence
          pending,              \* commands without a receipt
          open, busy,           \* the two bits of the gate
          consumed,             \* the atomic consumed count
          controls,             \* the engine's control ring
          outcomes,             \* the engine's trigger outcome ring
          applied,              \* what became of each dequeued control
          control,              \* where the control caller is
          loaded,               \* poll(): its copy of consumed
          callback,             \* where the audio callback is
          receipts              \* ghost: the receipts of the epoch

lifecycle == <<phase, engine, epoch>>
gate      == <<open, busy>>
vars == <<lifecycle, accepted, pending, gate, consumed, controls, outcomes, applied,
          control, loaded, callback, receipts>>

(* "applied" stands for a control that started no voice and was not refused   *)
(* one; it sends no trigger outcome.                                          *)
Disposition == {"applied", "voice_started", "voice_capacity"}

Init ==
    /\ phase = "empty" /\ engine = FALSE /\ epoch = 0
    /\ accepted = 0 /\ pending = <<>>
    /\ open = FALSE /\ busy = FALSE
    /\ consumed = 0
    /\ controls = <<>> /\ outcomes = <<>> /\ applied = <<>>
    /\ control = "idle" /\ loaded = 0
    /\ callback = "outside"
    /\ receipts = <<>>

------------------------------------------------------------------------------
(* The control caller                                                         *)

(* load() publishes a complete engine; a failed load leaves the Facade empty. *)
Load ==
    /\ control = "idle"
    /\ phase = "empty"
    /\ phase' = "ready"
    /\ engine' = TRUE
    /\ controls' = <<>> /\ outcomes' = <<>>
    /\ UNCHANGED <<epoch, accepted, pending, gate, consumed, applied, control, loaded,
                   callback, receipts>>

(* start(): refused while a receipt of the last epoch is outstanding.         *)
Start ==
    /\ control = "idle"
    /\ phase \in {"ready", "stopped"}
    /\ pending = <<>>
    /\ epoch < MaxEpoch
    /\ epoch' = epoch + 1
    /\ accepted' = 0
    /\ consumed' = 0
    /\ controls' = <<>> /\ outcomes' = <<>> /\ applied' = <<>>
    /\ phase' = "running"
    /\ open' = TRUE
    /\ receipts' = <<>>
    /\ UNCHANGED <<engine, pending, busy, control, loaded, callback>>

(* submit() of the exact next sequence; every other submit changes nothing.  *)
(* The callback can consume the control before it is recorded as pending.    *)
SubmitEnqueue ==
    /\ control = "idle"
    /\ phase = "running"
    /\ accepted < MaxSequence
    /\ Len(pending) < MaxPending
    /\ Len(controls) < MaxPending
    /\ controls' = Append(controls, accepted + 1)
    /\ control' = "recording"
    /\ UNCHANGED <<lifecycle, accepted, pending, gate, consumed, outcomes, applied, loaded,
                   callback, receipts>>

SubmitRecord ==
    /\ control = "recording"
    /\ pending' = Append(pending, [sequence |-> accepted + 1, outcome |-> "applied"])
    /\ accepted' = accepted + 1
    /\ control' = "idle"
    /\ UNCHANGED <<lifecycle, gate, consumed, controls, outcomes, applied, loaded, callback,
                   receipts>>

(* drain_events(): an outcome is noted at the pending command it is about.    *)
Noted(events) ==
    [i \in DOMAIN pending |->
        IF \E e \in DOMAIN events : events[e].sequence = pending[i].sequence
        THEN [pending[i] EXCEPT !.outcome =
                events[CHOOSE e \in DOMAIN events :
                          events[e].sequence = pending[i].sequence].outcome]
        ELSE pending[i]]

(* poll() copies the consumed count before it drains the outcomes.            *)
PollLoad ==
    /\ control = "idle"
    /\ loaded' = consumed
    /\ control' = "draining"
    /\ UNCHANGED <<lifecycle, accepted, pending, gate, consumed, controls, outcomes, applied,
                   callback, receipts>>

PollDrain ==
    /\ control = "draining"
    /\ outcomes # <<>>
    /\ pending' = Noted(<<Head(outcomes)>>)
    /\ outcomes' = Tail(outcomes)
    /\ UNCHANGED <<lifecycle, accepted, gate, consumed, controls, applied, control, loaded,
                   callback, receipts>>

PollDrained ==
    /\ control = "draining"
    /\ outcomes = <<>> \/ ~engine
    /\ control' = "retiring"
    /\ UNCHANGED <<lifecycle, accepted, pending, gate, consumed, controls, outcomes, applied,
                   loaded, callback, receipts>>

(* Mutants: the receipt of a cancelled command waits for its consumption; the *)
(* consumed count is loaded after the drain.                                  *)
ReadyLate(item) == item.sequence <= consumed \/ item.outcome = "cancelled"

Ready(item) == item.sequence <= loaded \/ item.outcome = "cancelled"

PollRetire ==
    /\ control = "retiring"
    /\ pending # <<>>
    /\ Ready(Head(pending))
    /\ receipts' = Append(receipts, Head(pending))
    /\ pending' = Tail(pending)
    /\ UNCHANGED <<lifecycle, accepted, gate, consumed, controls, outcomes, applied, control,
                   loaded, callback>>

(* Nothing is ready, or the caller's span is full.                            *)
PollDone ==
    /\ control = "retiring"
    /\ control' = "idle"
    /\ UNCHANGED <<lifecycle, accepted, pending, gate, consumed, controls, outcomes, applied,
                   loaded, callback, receipts>>

(* request_stop() closes the gate. An admitted callback goes on.              *)
RequestStop ==
    /\ control = "idle"
    /\ phase = "running"
    /\ open' = FALSE
    /\ phase' = "draining"
    /\ UNCHANGED <<engine, epoch, accepted, pending, busy, consumed, controls, outcomes, applied,
                   control, loaded, callback, receipts>>

(* Pending commands after the stop: unconsumed ones are cancelled.            *)
Settled(items) ==
    [i \in DOMAIN items |->
        IF items[i].sequence > consumed THEN [items[i] EXCEPT !.outcome = "cancelled"]
        ELSE items[i]]

(* finish_stop() with the gate closed and no callback admitted: nothing else  *)
(* runs until it returns. Mutant: an admitted callback is not waited for.     *)
FinishStopClosed ==
    /\ control = "idle"
    /\ phase = "draining"
    /\ ~open
    /\ pending' = Settled(Noted(outcomes))
    /\ controls' = <<>> /\ outcomes' = <<>>
    /\ phase' = "stopped"
    /\ UNCHANGED <<engine, epoch, accepted, gate, consumed, applied, control, loaded, callback,
                   receipts>>

FinishStop ==
    /\ control = "idle"
    /\ phase = "draining"
    /\ ~open /\ ~busy
    /\ pending' = Settled(Noted(outcomes))
    /\ controls' = <<>> /\ outcomes' = <<>>
    /\ phase' = "stopped"
    /\ UNCHANGED <<engine, epoch, accepted, gate, consumed, applied, control, loaded, callback,
                   receipts>>

(* unload(); reset() is a stop and an unload.                                 *)
Unload ==
    /\ control = "idle"
    /\ phase \in {"empty", "ready", "stopped"}
    /\ phase' = "empty"
    /\ engine' = FALSE
    /\ controls' = <<>> /\ outcomes' = <<>>
    /\ UNCHANGED <<epoch, accepted, pending, gate, consumed, applied, control, loaded, callback,
                   receipts>>

------------------------------------------------------------------------------
(* The audio callback, render(). With the gate not exactly open it fills the  *)
(* buffers with silence.                                                      *)

RenderEnter ==
    /\ callback = "outside"
    /\ open /\ ~busy
    /\ busy' = TRUE
    /\ callback' = "rendering"
    /\ UNCHANGED <<lifecycle, accepted, pending, open, consumed, controls, outcomes, applied,
                   control, loaded, receipts>>

(* The engine takes a control; a full outcome ring loses the outcome.         *)
RenderControl(disposition) ==
    /\ callback = "rendering"
    /\ controls # <<>>
    /\ controls' = Tail(controls)
    /\ applied' = Append(applied, disposition)
    /\ outcomes' = IF disposition # "applied" /\ Len(outcomes) < MaxPending
                   THEN Append(outcomes, [sequence |-> Head(controls), outcome |-> disposition])
                   ELSE outcomes
    /\ UNCHANGED <<lifecycle, accepted, pending, gate, consumed, control, loaded, callback,
                   receipts>>

(* With no control left the engine renders the frames, while controls may     *)
(* arrive; then the count is published.                                       *)
RenderFrames ==
    /\ callback = "rendering"
    /\ controls = <<>>
    /\ callback' = "publishing"
    /\ UNCHANGED <<lifecycle, accepted, pending, gate, consumed, controls, outcomes, applied,
                   control, loaded, receipts>>

RenderPublish ==
    /\ callback = "publishing"
    /\ consumed' = Len(applied)
    /\ callback' = "leaving"
    /\ UNCHANGED <<lifecycle, accepted, pending, gate, controls, outcomes, applied, control,
                   loaded, receipts>>

(* Mutant: leaving stores the bit open instead of clearing the bit busy.      *)
RenderLeaveStores ==
    /\ callback = "leaving"
    /\ open' = TRUE /\ busy' = FALSE
    /\ callback' = "outside"
    /\ UNCHANGED <<lifecycle, accepted, pending, consumed, controls, outcomes, applied, control,
                   loaded, receipts>>

RenderLeave ==
    /\ callback = "leaving"
    /\ busy' = FALSE
    /\ callback' = "outside"
    /\ UNCHANGED <<lifecycle, accepted, pending, open, consumed, controls, outcomes, applied,
                   control, loaded, receipts>>

------------------------------------------------------------------------------
Poll    == PollLoad \/ PollDrain \/ PollDrained \/ PollRetire \/ PollDone
Control == Load \/ Start \/ SubmitEnqueue \/ SubmitRecord \/ Poll
           \/ RequestStop \/ FinishStop \/ Unload
Render  == \/ RenderEnter \/ RenderFrames \/ RenderPublish \/ RenderLeave
           \/ \E disposition \in Disposition : RenderControl(disposition)
Next    == Control \/ Render

Spec == Init /\ [][Next]_vars

(* The audio device calls render() while its session runs and render()        *)
(* returns; stop() repeats finish_stop() until it succeeds; the Host polls    *)
(* over and over, with a span that is not empty.                              *)
FairSpec ==
    /\ Spec
    /\ WF_vars(Render)
    /\ SF_vars(PollLoad) /\ WF_vars(PollDrain) /\ WF_vars(PollDrained)
    /\ SF_vars(PollRetire) /\ WF_vars(PollDone)
    /\ WF_vars(SubmitRecord) /\ SF_vars(FinishStop)

------------------------------------------------------------------------------
Item == [sequence : 1 .. MaxSequence, outcome : Disposition \union {"cancelled"}]

(* The types of the variables; the rings and the pending commands stay within *)
(* their storage.                                                             *)
TypeOK ==
    /\ phase \in {"empty", "ready", "running", "draining", "stopped"}
    /\ engine \in BOOLEAN /\ epoch \in 0 .. MaxEpoch
    /\ accepted \in 0 .. MaxSequence /\ consumed \in 0 .. MaxSequence
    /\ loaded \in 0 .. MaxSequence
    /\ pending \in Seq(Item) /\ Len(pending) <= MaxPending
    /\ open \in BOOLEAN /\ busy \in BOOLEAN
    /\ controls \in Seq(1 .. MaxSequence) /\ Len(controls) <= MaxPending
    /\ outcomes \in Seq(Item) /\ Len(outcomes) <= MaxPending
    /\ applied \in Seq(Disposition)
    /\ control \in {"idle", "recording", "draining", "retiring"}
    /\ callback \in {"outside", "rendering", "publishing", "leaving"}
    /\ receipts \in Seq(Item)

(* While the callback is admitted the engine exists and no stop has finished: *)
(* nothing start(), finish_stop() or unload() does to the engine overlaps it. *)
CallbackSafe == callback # "outside" => engine /\ phase \in {"running", "draining"}

(* Every accepted command of an epoch has one receipt or is pending, receipts *)
(* come in order, and each says what the engine did: a consumed command has   *)
(* its own outcome, an unconsumed one is cancelled.                           *)
Outcome(n) == IF n <= Len(applied) THEN applied[n] ELSE "cancelled"

ReceiptsExact ==
    /\ Len(receipts) + Len(pending) = accepted
    /\ \A n \in 1 .. Len(receipts) : receipts[n] = [sequence |-> n, outcome |-> Outcome(n)]

(* A stop finishes, and every accepted command gets its receipt.              *)
StopFinishes == phase = "draining" ~> phase = "stopped"
Receipted == \A n \in 1 .. MaxSequence : accepted >= n ~> Len(receipts) >= n
==============================================================================
