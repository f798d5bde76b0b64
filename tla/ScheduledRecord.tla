---------------------------- MODULE ScheduledRecord ----------------------------
(* A recording that starts after a count-in: control submits one schedule at a *)
(* time into a cell whose tag, a serial and a phase, both threads change with  *)
(* compare-and-swap; the audio thread borrows the Pattern, sounds the cues and *)
(* starts the transport on the exact frame.  A cancellation that comes before  *)
(* the start wins; a later one becomes an ordinary cutoff.  Audio never waits. *)
EXTENDS Integers, Sequences

CONSTANTS CountIn,    \* frames of the count-in: bars * bar_frames
          Markers,    \* markers: frames of the count-in that sound a cue
          Envelope,   \* kCountInCueEnvelopeFrames
          Quanta,     \* frames a callback may have
          Slots,      \* pattern_slots_
          MaxSerial, MaxCommands   \* bounds: schedules, ordinary transport commands

ScheduledAssumption ==
  /\ CountIn \in Nat \ {0} /\ Envelope \in Nat /\ Markers \in Seq(0 .. CountIn - 1)
  /\ \A i, j \in 1 .. Len(Markers) : i < j => Markers[i] < Markers[j]
  /\ Quanta \subseteq Nat \ {0} /\ Slots # {} /\ {MaxSerial, MaxCommands} \subseteq Nat

VARIABLES tag,        \* scheduled_tag_: [serial, phase]
          cell,       \* control's scheduled_request_, _cancel_, acknowledgements and receipt; serial 0: none
          payload,    \* scheduled_payload_: [serial, slot]
          last,       \* last_schedule_serial_
          slots, cur,  \* state of each Pattern slot, and the current one
          pins, borrows,   \* what keeps a slot: control's and audio's counts
          local,      \* scheduled_audio_
          cutoff, settled,   \* scheduled_cutoff_serial_, scheduled_settled_serial_
          transport,  \* the ordinary command: [reserved, command, receipt]
          playing, acknowledged,  \* pattern_playing_ and control_pattern_playing_
          authority,  \* acknowledged_record_authority_: its serial, or 0
          cue,        \* [pending, blocked, spans]
          tail,       \* a Pattern voice still sounds
          audio,      \* [pc, left, first, seen]
          running, commands, held,  \* held: the schedule the last press was admitted to, or 0
          started, won   \* history: schedules that started, and that were cancelled
vars == <<tag, cell, payload, last, slots, cur, pins, borrows, local, cutoff, settled, transport, playing, acknowledged,
          authority, cue, tail, audio, running, commands, held, started, won>>

NoCell == [serial |-> 0, cancel |-> "none", startAck |-> FALSE, cancelAck |-> FALSE, receipt |-> FALSE]
NoTag == [serial |-> 0, phase |-> "empty"]
Nobody == [serial |-> 0, slot |-> CHOOSE s \in Slots : TRUE, borrowed |-> FALSE, started |-> FALSE, timed |-> FALSE,
           togo |-> 0, next |-> 0, carry |-> 0]
Quiet == [reserved |-> FALSE, command |-> "none", receipt |-> FALSE]
Init ==
  /\ tag = NoTag /\ cell = NoCell /\ payload = [serial |-> 0, slot |-> Nobody.slot] /\ last = 0
  /\ cur = Nobody.slot /\ slots = [s \in Slots |-> IF s = cur THEN "current" ELSE "empty"]
  /\ pins = [s \in Slots |-> 0] /\ borrows = [s \in Slots |-> 0] /\ local = Nobody /\ cutoff = 0 /\ settled = 0
  /\ transport = Quiet /\ playing = FALSE /\ acknowledged = FALSE /\ authority = 0
  /\ cue = [pending |-> FALSE, blocked |-> FALSE, spans |-> 0] /\ tail = FALSE
  /\ audio = [pc |-> "idle", left |-> 0, first |-> FALSE, seen |-> NoTag] /\ running = TRUE /\ commands = 0 /\ held = 0
  /\ started = {} /\ won = {}

Tag(serial, phase) == [serial |-> serial, phase |-> phase]
audioOwn == <<borrows, local, cutoff, playing, cue, tail, audio, started>>
controlOwn == <<cell, payload, last, slots, cur, pins, acknowledged, authority, running, commands, held, won>>
-------------------------------------------------------------------------------
(* submit_scheduled_pattern_record(): the transport is stopped and nothing     *)
(* else is under way; the Pattern is pinned before the tag shows the schedule. *)
Submit ==
  /\ running /\ cell.serial = 0 /\ ~transport.reserved /\ ~acknowledged /\ last < MaxSerial
  /\ cell' = [NoCell EXCEPT !.serial = last + 1] /\ last' = last + 1 /\ payload' = [serial |-> last + 1, slot |-> cur]
  /\ pins' = [pins EXCEPT ![cur] = @ + 1] /\ settled' = 0 /\ tag' = Tag(last + 1, "submitted")
  /\ UNCHANGED <<slots, cur, transport, acknowledged, authority, running, commands, held, won>> /\ UNCHANGED audioOwn

(* cancel_scheduled_pattern_record(): before the start it wins; after it the   *)
(* caller has to send a cutoff, which a stopped engine can no longer take.     *)
CancelTarget(phase) == IF phase = "preparing" THEN "cancel_preparing" ELSE "cancelled"
Cancel ==
  /\ cell.serial # 0 /\ cell.cancel = "none" /\ ~transport.reserved
  /\ \/ /\ tag.phase \in {"submitted", "preparing", "armed"}
        /\ tag' = [tag EXCEPT !.phase = CancelTarget(tag.phase)]
        /\ cell' = [cell EXCEPT !.cancel = "won"] /\ won' = won \cup {cell.serial}
     \/ /\ tag.phase \in {"starting", "applied"} /\ UNCHANGED <<tag, won>>
        /\ cell' = [cell EXCEPT !.cancel = IF tag.phase = "applied" /\ ~running THEN "invalidated" ELSE "late"]
  /\ UNCHANGED <<payload, last, slots, cur, pins, settled, transport, acknowledged, authority, running, commands, held>>
  /\ UNCHANGED audioOwn

(* submit_pattern_transport(): beside a schedule only the cutoff of one that   *)
(* started and was cancelled too late.                                         *)
IsCutoff == cell.cancel = "late" /\ ~cell.receipt /\ tag.phase \in {"starting", "applied"}
SubmitCommand(action) ==
  /\ running /\ ~transport.reserved /\ (cell.serial # 0 => IsCutoff /\ action # "start")
  /\ (action = "start" => ~acknowledged) /\ (action = "fence" => acknowledged \/ cell.serial # 0)
  /\ IF cell.serial # 0 THEN UNCHANGED commands ELSE commands < MaxCommands /\ commands' = commands + 1
  /\ transport' = [Quiet EXCEPT !.reserved = TRUE, !.command = action]
  /\ UNCHANGED <<tag, cell, payload, last, slots, cur, pins, settled, acknowledged, authority, running, held, won>> /\ UNCHANGED audioOwn
AcknowledgeCommand ==
  /\ transport.receipt /\ transport' = Quiet /\ acknowledged' = playing
  /\ cell' = [cell EXCEPT !.receipt = @ \/ cell.cancel = "late"]
  /\ UNCHANGED <<tag, payload, last, slots, cur, pins, settled, authority, running, commands, held, won>> /\ UNCHANGED audioOwn
-------------------------------------------------------------------------------
(* acknowledge_scheduled_pattern_record(): the outcome of the start, then of   *)
(* the cancellation; the last one retires the cell.                            *)
Retired(c) == c.startAck /\ (c.cancel = "none" \/ c.cancelAck)
Acknowledge(c) ==
  IF Retired(c)
  THEN /\ cell' = NoCell /\ tag' = Tag(last, "empty") /\ pins' = [pins EXCEPT ![payload.slot] = @ - 1]
  ELSE cell' = c /\ UNCHANGED <<tag, pins>>

(* Mutant: a refused start is not acknowledged.                                *)
TerminalUnrefused == {"applied", "cancelled"}

Terminal == {"applied", "cancelled", "refused"}
AcknowledgeStart ==
  /\ cell.serial # 0 /\ ~cell.startAck /\ tag.phase \in Terminal
  /\ Acknowledge([cell EXCEPT !.startAck = TRUE]) /\ acknowledged' = (tag.phase = "applied")
  /\ authority' = IF tag.phase = "applied" THEN cell.serial ELSE authority
  /\ UNCHANGED <<payload, last, slots, cur, settled, transport, running, commands, held, won>> /\ UNCHANGED audioOwn
AcknowledgeCancel ==
  /\ cell.startAck /\ ~cell.cancelAck
  /\ \/ cell.cancel = "won" /\ tag.phase = "cancelled" /\ acknowledged' = FALSE /\ UNCHANGED transport
     \/ cell.cancel = "invalidated" /\ acknowledged' = FALSE /\ UNCHANGED transport
     \/ cell.cancel = "late" /\ (cell.receipt \/ transport.receipt) /\ acknowledged' = playing /\ transport' = Quiet
  /\ Acknowledge([cell EXCEPT !.cancelAck = TRUE])
  /\ UNCHANGED <<payload, last, slots, cur, settled, authority, running, commands, held, won>> /\ UNCHANGED audioOwn

(* enqueue_pattern_input(): the schedule a press is recorded under.            *)
Press ==
  /\ running
  /\ LET serial == IF cell.serial # 0 /\ tag.phase \in {"starting", "applied"} THEN cell.serial
                   ELSE IF tag.phase = "empty" THEN authority ELSE 0
     IN  held' = IF serial = cutoff THEN 0 ELSE serial
  /\ settled' = 0
  /\ UNCHANGED <<tag, cell, payload, last, slots, cur, pins, transport, acknowledged, authority, running, commands, won>>
  /\ UNCHANGED audioOwn

(* Another Pattern becomes current (PatternMailbox), which a schedule that has *)
(* not started refuses; reclaim_retired_patterns() empties the slot.           *)
Replace(s) ==
  /\ slots[s] = "empty" /\ ~transport.reserved /\ (cell.serial # 0 => tag.phase = "applied")
  /\ slots' = [slots EXCEPT ![s] = "current", ![cur] = "reclaimable"] /\ cur' = s
  /\ UNCHANGED <<tag, cell, payload, last, pins, settled, transport, acknowledged, authority, running, commands, held, won>>
  /\ UNCHANGED audioOwn

(* Mutant: only control's own pin keeps a slot.                                *)
ReclaimablePinned(s) == slots[s] = "reclaimable" /\ pins[s] = 0

Reclaimable(s) == slots[s] = "reclaimable" /\ pins[s] = 0 /\ borrows[s] = 0
Reclaim ==
  /\ ~transport.reserved /\ \E s \in Slots : Reclaimable(s)
  /\ slots' = [s \in Slots |-> IF Reclaimable(s) THEN "empty" ELSE slots[s]]
  /\ UNCHANGED <<tag, cell, payload, last, cur, pins, settled, transport, acknowledged, authority, running, commands, held, won>>
  /\ UNCHANGED audioOwn
-------------------------------------------------------------------------------
(* Audio: render().                                                            *)
At(pc) == audio.pc = pc
Go(pc) == audio' = [audio EXCEPT !.pc = pc]
Callback(frames) ==
  /\ At("idle") /\ running /\ settled' = 0
  /\ cue' = [cue EXCEPT !.blocked = cue.pending, !.spans = IF cue.pending THEN @ ELSE 0]
  /\ audio' = [pc |-> "prepare", left |-> frames, first |-> TRUE, seen |-> NoTag]
  /\ UNCHANGED <<tag, borrows, local, cutoff, transport, playing, tail, started>> /\ UNCHANGED controlOwn

Released == [borrows EXCEPT ![local.slot] = @ - 1]
KeepsBorrow ==
  /\ tag.serial = local.serial
  /\ \/ tag.phase \in {"armed", "preparing"}
     \/ tag.phase \in {"applied", "empty"} /\ local.started /\ cutoff # tag.serial
Prepare ==
  /\ At("prepare")
  /\ IF local.borrowed /\ KeepsBorrow THEN Go("transport") /\ UNCHANGED <<local, borrows>>
     ELSE /\ audio' = [audio EXCEPT !.pc = "take", !.seen = tag]
          /\ IF local.borrowed THEN local' = Nobody /\ borrows' = Released ELSE UNCHANGED <<local, borrows>>
  /\ UNCHANGED <<tag, cutoff, settled, transport, playing, cue, tail, started>> /\ UNCHANGED controlOwn
TakeSchedule ==
  /\ At("take")
  /\ IF tag = audio.seen /\ tag.phase = "submitted" THEN tag' = [tag EXCEPT !.phase = "preparing"] /\ Go("borrow")
     ELSE Go("transport") /\ UNCHANGED tag
  /\ UNCHANGED <<borrows, local, cutoff, settled, transport, playing, cue, tail, started>> /\ UNCHANGED controlOwn
Borrow ==
  /\ At("borrow") /\ local' = [Nobody EXCEPT !.serial = payload.serial, !.slot = payload.slot, !.borrowed = TRUE]
  /\ borrows' = [borrows EXCEPT ![payload.slot] = @ + 1] /\ Go("transport")
  /\ UNCHANGED <<tag, cutoff, settled, transport, playing, cue, tail, started>> /\ UNCHANGED controlOwn

(* apply_pattern_transport(): a stop or a fence cuts the schedule off.         *)
Transported(action) ==
  /\ transport' = [transport EXCEPT !.command = "none", !.receipt = TRUE]
  /\ playing' = (action = "start" \/ (action = "fence" /\ playing))
  /\ IF action # "start" /\ tag.phase \in {"starting", "applied", "empty"}
     THEN cutoff' = tag.serial
     ELSE UNCHANGED cutoff
Transport ==
  /\ At("transport") /\ Go("frame")
  /\ IF transport.command = "none" THEN UNCHANGED <<transport, playing, cutoff>> ELSE Transported(transport.command)
  /\ UNCHANGED <<tag, borrows, local, settled, cue, tail, started>> /\ UNCHANGED controlOwn
-------------------------------------------------------------------------------
(* advance_scheduled_record_audio(), once a frame.                             *)
NextFrame == audio' = [audio EXCEPT !.pc = "mix", !.seen = NoTag]
Advance ==
  /\ At("frame") /\ audio.left > 0
  /\ audio' = [audio EXCEPT !.pc = IF local.borrowed THEN "act" ELSE "mix", !.seen = IF local.borrowed THEN tag ELSE NoTag]
  /\ UNCHANGED <<tag, borrows, local, cutoff, settled, transport, playing, cue, tail, started>> /\ UNCHANGED controlOwn

(* A cue batch nobody consumed refuses the schedule.  Preparing and armed also *)
(* are what control may cancel, so each is left with a compare-and-swap.       *)
Swap(phase) == IF tag = audio.seen THEN tag' = [tag EXCEPT !.phase = phase] ELSE UNCHANGED tag
Seen(phases) == audio.seen.serial = local.serial /\ audio.seen.phase \in phases
Refuse ==
  /\ At("act") /\ cue.blocked /\ (Seen({"armed"}) \/ (Seen({"preparing"}) /\ ~tail)) /\ Swap("refused") /\ NextFrame
  /\ UNCHANGED <<borrows, local, cutoff, settled, transport, playing, cue, tail, started>> /\ UNCHANGED controlOwn
SettleCancel ==
  /\ At("act") /\ Seen({"cancel_preparing"}) /\ Swap("cancelled") /\ NextFrame
  /\ UNCHANGED <<borrows, local, cutoff, settled, transport, playing, cue, tail, started>> /\ UNCHANGED controlOwn
Arm ==
  /\ At("act") /\ Seen({"preparing"}) /\ ~tail /\ ~cue.blocked /\ Swap("armed")
  /\ local' = [local EXCEPT !.timed = TRUE, !.togo = CountIn]
  /\ IF tag = audio.seen THEN audio' = [audio EXCEPT !.pc = "carry", !.seen.phase = "armed"] ELSE NextFrame
  /\ UNCHANGED <<borrows, cutoff, settled, transport, playing, cue, tail, started>> /\ UNCHANGED controlOwn
Proceeds == (Seen({"armed"}) /\ ~cue.blocked) \/ Seen({"applied"}) \/ (Seen({"empty"}) /\ local.started)
Proceed ==
  /\ At("act") /\ Proceeds /\ (IF cutoff = local.serial THEN NextFrame ELSE Go("carry"))
  /\ UNCHANGED <<tag, borrows, local, cutoff, settled, transport, playing, cue, tail, started>> /\ UNCHANGED controlOwn
Nothing ==
  /\ At("act") /\ NextFrame
  /\ \/ audio.seen.serial # local.serial \/ Seen({"cancelled", "refused", "submitted"}) \/ (Seen({"empty"}) /\ ~local.started)
     \/ Seen({"preparing"}) /\ tail
  /\ UNCHANGED <<tag, borrows, local, cutoff, settled, transport, playing, cue, tail, started>> /\ UNCHANGED controlOwn

(* commit_count_in_span(): a cue sounds only if the tag is unchanged, and    *)
(* the batch has room for every marker of the count-in and one more.         *)
Commits(phase) == ~cue.blocked /\ cue.spans <= Len(Markers) /\ tag = Tag(local.serial, phase)
Carry ==
  /\ At("carry") /\ Go("mark")
  /\ cue' = IF local.carry > 0 /\ audio.first /\ Commits(audio.seen.phase) THEN [cue EXCEPT !.spans = @ + 1] ELSE cue
  /\ UNCHANGED <<tag, borrows, local, cutoff, settled, transport, playing, tail, started>> /\ UNCHANGED controlOwn
Mark ==
  /\ At("mark")
  /\ LET due == audio.seen.phase = "armed" /\ local.next < Len(Markers) /\ CountIn - local.togo = Markers[local.next + 1]
     IN  IF due /\ Commits("armed")
         THEN cue' = [cue EXCEPT !.spans = @ + 1] /\ local' = [local EXCEPT !.next = @ + 1, !.carry = Envelope]
         ELSE UNCHANGED <<cue, local>>
  /\ IF audio.seen.phase = "armed" /\ local.togo = 0 THEN Go("start") ELSE NextFrame
  /\ UNCHANGED <<tag, borrows, cutoff, settled, transport, playing, tail, started>> /\ UNCHANGED controlOwn

(* The start: the swap out of armed decides it, applied shows it.              *)
(* Mutant: the start is stored over whatever control wrote.                    *)
StartsUnchecked == TRUE

Starts == tag = Tag(local.serial, "armed")
Start ==
  /\ At("start")
  /\ IF Starts THEN tag' = Tag(local.serial, "starting") /\ Go("applied") ELSE NextFrame /\ UNCHANGED tag
  /\ UNCHANGED <<borrows, local, cutoff, settled, transport, playing, cue, tail, started>> /\ UNCHANGED controlOwn
Applied ==
  /\ At("applied") /\ tag' = Tag(local.serial, "applied") /\ playing' = TRUE
  /\ local' = [local EXCEPT !.started = TRUE] /\ started' = started \cup {local.serial} /\ Go("downbeat")
  /\ UNCHANGED <<borrows, cutoff, settled, transport, cue, tail>> /\ UNCHANGED controlOwn
Downbeat(metronome) ==
  /\ At("downbeat") /\ NextFrame
  /\ IF metronome /\ Commits("applied")
     THEN cue' = [cue EXCEPT !.spans = @ + 1] /\ local' = [local EXCEPT !.carry = Envelope] ELSE UNCHANGED <<cue, local>>
  /\ UNCHANGED <<tag, borrows, cutoff, settled, transport, playing, tail, started>> /\ UNCHANGED controlOwn

(* Voices of the Pattern start while it plays; a tail may outlive it.          *)
Mix(sounds) ==
  /\ At("mix") /\ (sounds => playing \/ tail) /\ tail' = sounds
  /\ audio' = [audio EXCEPT !.pc = "frame", !.left = @ - 1, !.first = FALSE]
  /\ local' = [local EXCEPT !.togo = IF local.timed /\ @ >= 0 THEN @ - 1 ELSE @, !.carry = IF @ > 0 THEN @ - 1 ELSE 0]
  /\ UNCHANGED <<tag, borrows, cutoff, settled, transport, playing, cue, started>> /\ UNCHANGED controlOwn
-------------------------------------------------------------------------------
(* finish_scheduled_record_audio(): the batch is offered, the borrow returned  *)
(* once nothing of the schedule is left to sound.                              *)
DropsBorrow(phase) ==
  \/ tag.serial # local.serial \/ phase \in {"cancelled", "refused"} \/ (phase = "empty" /\ ~local.started)
  \/ cutoff = local.serial \/ (phase \in {"applied", "empty"} /\ local.carry = 0)
Finish ==
  /\ At("frame") /\ audio.left = 0 /\ Go("settle")
  /\ cue' = [cue EXCEPT !.pending = @ \/ (~cue.blocked /\ cue.spans # 0)]
  /\ LET phase == IF tag.phase = "cancel_preparing" THEN "cancelled" ELSE tag.phase
     IN  IF ~local.borrowed THEN UNCHANGED <<tag, local, borrows>>
         ELSE /\ tag' = [tag EXCEPT !.phase = phase]
              /\ IF DropsBorrow(phase) THEN local' = Nobody /\ borrows' = Released ELSE UNCHANGED <<local, borrows>>
  /\ UNCHANGED <<cutoff, settled, transport, playing, tail, started>> /\ UNCHANGED controlOwn

Settles == tag.phase = "empty" /\ tag.serial # 0 /\ ~tail /\ ~local.borrowed /\ ~cue.pending
Settle ==
  /\ At("settle")
  /\ audio' = [audio EXCEPT !.pc = IF Settles THEN "settled" ELSE "idle", !.seen = IF Settles THEN tag ELSE NoTag]
  /\ UNCHANGED <<tag, borrows, local, cutoff, settled, transport, playing, cue, tail, started>> /\ UNCHANGED controlOwn
Settled ==
  /\ At("settled") /\ settled' = audio.seen.serial /\ audio' = [audio EXCEPT !.pc = "idle", !.seen = NoTag]
  /\ UNCHANGED <<tag, borrows, local, cutoff, transport, playing, cue, tail, started>> /\ UNCHANGED controlOwn
ConsumeCue ==
  /\ At("idle") /\ cue.pending /\ cue' = [cue EXCEPT !.pending = FALSE]
  /\ UNCHANGED <<tag, borrows, local, cutoff, settled, transport, playing, tail, audio, started>> /\ UNCHANGED controlOwn

(* stop(), once the callback is gone: only a cancellation that won may say so; *)
(* a cutoff under way is applied here and its receipt kept.                    *)
StopEngine ==
  /\ At("idle") /\ running /\ running' = FALSE /\ acknowledged' = FALSE /\ playing' = FALSE /\ tail' = FALSE
  /\ LET late == cell.cancel = "late"
         sent == late /\ transport.reserved
     IN  /\ transport' = IF sent THEN [transport EXCEPT !.command = "none", !.receipt = TRUE] ELSE Quiet
         /\ cell' = IF late /\ ~transport.reserved /\ ~cell.receipt THEN [cell EXCEPT !.cancel = "invalidated"]
                    ELSE [cell EXCEPT !.receipt = @ \/ sent]
  /\ tag' = IF tag.phase \in {"submitted", "preparing", "cancel_preparing", "armed"}
            THEN [tag EXCEPT !.phase = IF cell.cancel = "won" THEN "cancelled" ELSE "refused"] ELSE tag
  /\ cutoff' = tag.serial
  /\ IF local.borrowed THEN local' = Nobody /\ borrows' = Released ELSE UNCHANGED <<local, borrows>>
  /\ UNCHANGED <<payload, last, slots, cur, pins, settled, authority, cue, audio, commands, held, started, won>>

ControlStep ==
  \/ Submit \/ Cancel \/ (\E a \in {"start", "stop", "fence"} : SubmitCommand(a)) \/ AcknowledgeCommand
  \/ AcknowledgeStart \/ AcknowledgeCancel \/ Press \/ (\E s \in Slots : Replace(s)) \/ Reclaim
AudioStep ==
  \/ (\E n \in Quanta : Callback(n)) \/ Prepare \/ TakeSchedule \/ Borrow \/ Transport \/ Advance
  \/ Refuse \/ SettleCancel \/ Arm \/ Proceed \/ Nothing \/ Carry \/ Mark \/ Start \/ Applied
  \/ (\E m \in BOOLEAN : Downbeat(m)) \/ (\E v \in BOOLEAN : Mix(v)) \/ Finish \/ Settle \/ Settled
Next == ControlStep \/ AudioStep \/ ConsumeCue \/ StopEngine
Spec == Init /\ [][Next]_vars

(* The callback keeps coming while the engine runs, voices end, and the        *)
(* controller drives a schedule to its retirement.                             *)
Fairness ==
  /\ WF_vars(AudioStep) /\ SF_vars(Mix(FALSE))
  /\ WF_vars(AcknowledgeCommand) /\ WF_vars(AcknowledgeStart) /\ WF_vars(AcknowledgeCancel)
  /\ WF_vars(cell.serial # 0 /\ SubmitCommand("stop"))
FairSpec == Spec /\ Fairness
-------------------------------------------------------------------------------
(* The Pattern audio reads is there until audio lets go of it, though control  *)
(* may have forgotten the schedule and replaced the Pattern; what audio copied *)
(* is the schedule it took.                                                    *)
BorrowedAlive ==
  /\ local.borrowed => slots[local.slot] # "empty"
  /\ At("borrow") => payload.serial = tag.serial /\ slots[payload.slot] # "empty"

(* A cancellation that was accepted holds: the schedule never starts and no    *)
(* cue of it is committed any more.                                            *)
CancelledSilent ==
  [][(started' # started \/ (cue'.spans > cue.spans /\ ~local.started)) => local.serial \notin won]_vars

(* An armed schedule never misses its frame, and all its cues sounded before   *)
(* it starts, however the frames are cut into callbacks.                       *)
StartsComplete ==
  /\ tag = Tag(local.serial, "armed") /\ local.borrowed /\ local.timed => local.togo >= 0
  /\ local.started => local.next = Len(Markers)

(* A schedule reported as settled has no use left on the audio side: no voice, *)
(* no borrow, no cues.                                                         *)
SettledQuiet == settled # 0 /\ settled = last /\ cell.serial = 0 => ~local.borrowed /\ ~cue.pending /\ ~tail

(* Every schedule comes to an end: it starts, is refused or is cancelled, and  *)
(* its cell is retired; or it is cancelled while audio prepares it.            *)
EveryScheduleDecided == \A s \in 1 .. MaxSerial : cell.serial = s ~> cell.serial # s \/ tag.phase = "cancel_preparing"

(* Every schedule is retired: a cancellation while audio prepares waits for    *)
(* audio to finish, which it does.                                             *)
EveryScheduleRetires == \A s \in 1 .. MaxSerial : cell.serial = s ~> cell.serial # s

(* A count-in of one cue, for a small instance.                                *)
OneCue == <<0>>
================================================================================
