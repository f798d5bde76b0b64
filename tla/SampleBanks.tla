------------------------------ MODULE SampleBanks ------------------------------
(* How the samples that voices read reach the audio thread of the realtime     *)
(* engine: control fills an empty Bank slot and pushes it, audio applies it at *)
(* the start of a callback and retires the one before, a slot is reclaimed by  *)
(* control once its last voice ended.  Presses are admitted against the Bank   *)
(* that is current; a Sound Set audition has a pool of its own.                *)
EXTENDS Naturals, Sequences, FiniteSets, SequencesExt

CONSTANTS BankSlots, AuditionSlots,   \* disjoint sets of slot numbers above 0; 0 is the legacy Bank
          Pads, Voices,
          QueueSize, MaxGen           \* kRealtimeQueueCapacity; bound on publications

BanksAssumption ==
  /\ BankSlots \cup AuditionSlots \subseteq Nat \ {0} /\ BankSlots \cap AuditionSlots = {}
  /\ {QueueSize, MaxGen} \subseteq Nat

VARIABLES slots,      \* [state, gen, pads]: bank_slots_ and audition_slots_
          legacy,     \* pads with a legacy sample
          current, audition,   \* current_bank_slot_; current_audition_slot_, 0: none
          pending,    \* pending_publications_
          published, auditions,   \* publish_queue_, audition_publish_queue_
          inputs,     \* queued_host_input_events_
          queue,      \* [kind, pad, gen]; gen: what the control thread admitted it against
          voices,     \* the slot each voice reads, 0: legacy, or none
          audio,      \* [pc, event]
          running, gens
vars == <<slots, legacy, current, audition, pending, published, auditions, inputs, queue, voices, audio, running, gens>>

AllSlots == BankSlots \cup AuditionSlots
NoEvent == [kind |-> "none", pad |-> CHOOSE p \in Pads : TRUE, gen |-> 0]
Empty == [state |-> "empty", gen |-> 0, pads |-> {}]
Init ==
  /\ slots = [s \in AllSlots |-> Empty] /\ legacy = {} /\ current = 0 /\ audition = 0 /\ pending = 0
  /\ published = <<>> /\ auditions = <<>> /\ inputs = 0 /\ queue = <<>> /\ voices = [v \in Voices |-> <<>>]
  /\ audio = [pc |-> "idle", event |-> NoEvent] /\ running = FALSE /\ gens = 0

(* availability_mask_ and the generation of the current Bank.                  *)
Available == IF current = 0 THEN legacy ELSE slots[current].pads
CurrentGen == IF current = 0 THEN 0 ELSE slots[current].gen
Uses(vs, s) == \E v \in Voices : vs[v] = <<s>>

(* Mutant: a retired slot is free at once.                                     *)
RetiredAtOnce(ss, s) == IF s = 0 THEN ss ELSE [ss EXCEPT ![s].state = "reclaimable"]

(* retire_current_bank(), retire_audition(): a sounding slot only retires.     *)
Retired(ss, s) == IF s = 0 THEN ss ELSE [ss EXCEPT ![s].state = IF Uses(voices, s) THEN "retiring" ELSE "reclaimable"]
AppliedBank(s) == [Retired(slots, current) EXCEPT ![s].state = "current"]
AppliedAudition(s) == [Retired(slots, audition) EXCEPT ![s].state = "current"]

(* release_voice_bank(): the last voice of a retiring slot frees it.           *)
Silenced(vs, ss) ==
  [s \in AllSlots |-> IF ss[s].state = "retiring" /\ ~Uses(vs, s) THEN [ss[s] EXCEPT !.state = "reclaimable"] ELSE ss[s]]

FreeSlot(pool, s) == s \in pool /\ slots[s].state = "empty" /\ \A t \in pool : t < s => slots[t].state # "empty"
Filled(s, state, pads) == [slots EXCEPT ![s] = [state |-> state, gen |-> gens + 1, pads |-> pads]]
-------------------------------------------------------------------------------

(* publish_sample_bank(): not over input admitted against the present Bank.    *)
Publishes == gens < MaxGen /\ inputs = 0
PublishBank(s, pads) ==
  /\ running /\ Publishes /\ FreeSlot(BankSlots, s) /\ gens' = gens + 1
  /\ slots' = Filled(s, "pending", pads) /\ pending' = pending + 1 /\ published' = Append(published, s)
  /\ UNCHANGED <<legacy, current, audition, auditions, inputs, queue, voices, audio, running>>
PublishBankStopped(s, pads) ==
  /\ ~running /\ gens < MaxGen /\ FreeSlot(BankSlots, s) /\ gens' = gens + 1
  /\ slots' = [Retired(slots, current) EXCEPT ![s] = [state |-> "current", gen |-> gens + 1, pads |-> pads]] /\ current' = s
  /\ UNCHANGED <<legacy, audition, pending, published, auditions, inputs, queue, voices, audio, running>>

(* publish_audition_bank() and the audition_start that follows it, which a     *)
(* stopped engine or a full queue refuses.                                     *)
Enqueue(event) == IF Len(queue) < QueueSize THEN queue' = Append(queue, event) /\ inputs' = inputs + 1 ELSE UNCHANGED <<queue, inputs>>
Audition(s) ==
  /\ gens < MaxGen /\ FreeSlot(AuditionSlots, s) /\ gens' = gens + 1
  /\ IF running
     THEN /\ slots' = Filled(s, "pending", {}) /\ auditions' = Append(auditions, s) /\ UNCHANGED audition
          /\ Enqueue([kind |-> "audition", pad |-> NoEvent.pad, gen |-> gens + 1])
     ELSE /\ slots' = [Retired(slots, audition) EXCEPT ![s] = [state |-> "current", gen |-> gens + 1, pads |-> {}]]
          /\ audition' = s /\ UNCHANGED <<auditions, queue, inputs>>
  /\ UNCHANGED <<legacy, current, pending, published, voices, audio, running>>

(* enqueue_control(): no press while a publication is pending.                 *)
Admits(p) == pending = 0 /\ p \in Available
Press(p) ==
  /\ running /\ Admits(p) /\ Len(queue) < QueueSize
  /\ queue' = Append(queue, [kind |-> "press", pad |-> p, gen |-> CurrentGen]) /\ inputs' = inputs + 1
  /\ UNCHANGED <<slots, legacy, current, audition, pending, published, auditions, voices, audio, running, gens>>

(* reclaim_retired_bank_telemetry()                                            *)
Reclaim ==
  /\ \E s \in AllSlots : slots[s].state = "reclaimable"
  /\ slots' = [s \in AllSlots |-> IF slots[s].state = "reclaimable" THEN Empty ELSE slots[s]]
  /\ UNCHANGED <<legacy, current, audition, pending, published, auditions, inputs, queue, voices, audio, running, gens>>
-------------------------------------------------------------------------------
(* start() and stop(), with the callback gone; load_sample() and clear_sample()*)
(* make the legacy samples current.                                            *)
StartEngine ==
  /\ ~running /\ running' = TRUE /\ UNCHANGED <<slots, legacy, current, audition, pending, published, auditions, inputs, queue, voices, audio, gens>>
StopEngine ==
  /\ running /\ audio.pc = "idle" /\ running' = FALSE /\ queue' = <<>> /\ inputs' = 0 /\ voices' = [v \in Voices |-> <<>>]
  /\ slots' = LET quiet == Silenced(voices', slots)
              IN  [s \in AllSlots |-> IF Contains(published, s) THEN [quiet[s] EXCEPT !.state = "reclaimable"] ELSE quiet[s]]
  /\ published' = <<>> /\ pending' = 0 /\ UNCHANGED <<legacy, current, audition, auditions, audio, gens>>
LoadSamples(pads) ==
  /\ ~running /\ legacy' = pads /\ slots' = Retired(slots, current) /\ current' = 0
  /\ UNCHANGED <<audition, pending, published, auditions, inputs, queue, voices, audio, running, gens>>
-------------------------------------------------------------------------------
(* render(): publications, auditions, then the queued input, then the voices.  *)
At(pc) == audio.pc = pc
Go(pc) == audio' = [audio EXCEPT !.pc = pc]
Callback ==
  /\ running /\ At("idle") /\ Go("banks")
  /\ UNCHANGED <<slots, legacy, current, audition, pending, published, auditions, inputs, queue, voices, running, gens>>
ApplyBank ==
  /\ At("banks") /\ published # <<>> /\ slots' = AppliedBank(Head(published)) /\ current' = Head(published)
  /\ published' = Tail(published) /\ Go("applied")
  /\ UNCHANGED <<legacy, audition, pending, auditions, inputs, queue, voices, running, gens>>
AppliedPending ==
  /\ At("applied") /\ pending' = pending - 1 /\ Go("banks")
  /\ UNCHANGED <<slots, legacy, current, audition, published, auditions, inputs, queue, voices, running, gens>>

(* apply_published_audition(), at the start and again before an audition.      *)
ApplyAudition ==
  /\ (At("banks") /\ published = <<>>) \/ At("audition")
  /\ auditions # <<>> /\ slots' = AppliedAudition(Head(auditions)) /\ audition' = Head(auditions)
  /\ auditions' = Tail(auditions) /\ UNCHANGED audio
  /\ UNCHANGED <<legacy, current, pending, published, inputs, queue, voices, running, gens>>
PopInput ==
  /\ (At("banks") /\ published = <<>> /\ auditions = <<>>) \/ At("input")
  /\ queue # <<>> /\ queue' = Tail(queue) /\ inputs' = inputs - 1
  /\ audio' = [pc |-> IF Head(queue).kind = "press" THEN "press" ELSE "audition", event |-> Head(queue)]
  /\ UNCHANGED <<slots, legacy, current, audition, pending, published, auditions, voices, running, gens>>
StartVoice(s) ==
  /\ audio' = [pc |-> "input", event |-> NoEvent]
  /\ IF \E v \in Voices : voices[v] = <<>>
     THEN \E v \in Voices : voices[v] = <<>> /\ voices' = [voices EXCEPT ![v] = <<s>>]
     ELSE UNCHANGED voices
  /\ UNCHANGED <<slots, legacy, current, audition, pending, published, auditions, inputs, queue, running, gens>>
PressVoice == At("press") /\ StartVoice(current)

(* refresh_audition_publications() has run.                                    *)
Refreshed == auditions = <<>>
AuditionVoice == At("audition") /\ Refreshed /\ StartVoice(audition)

(* The mix: voices end.                                                        *)
Mix(ending) ==
  /\ (At("banks") /\ published = <<>> /\ auditions = <<>>) \/ At("input")
  /\ queue = <<>> /\ Go("idle") /\ voices' = [v \in Voices |-> IF v \in ending THEN <<>> ELSE voices[v]]
  /\ slots' = Silenced(voices', slots)
  /\ UNCHANGED <<legacy, current, audition, pending, published, auditions, inputs, queue, running, gens>>

AudioStep ==
  \/ Callback \/ ApplyBank \/ AppliedPending \/ ApplyAudition \/ PopInput \/ PressVoice \/ AuditionVoice
  \/ \E ending \in SUBSET Voices : Mix(ending)
Next ==
  \/ \E s \in BankSlots, pads \in SUBSET Pads : PublishBank(s, pads) \/ PublishBankStopped(s, pads)
  \/ \E s \in AuditionSlots : Audition(s)
  \/ (\E p \in Pads : Press(p)) \/ Reclaim \/ StartEngine \/ StopEngine \/ (\E pads \in SUBSET Pads : LoadSamples(pads))
  \/ AudioStep
Spec == Init /\ [][Next]_vars
-------------------------------------------------------------------------------
(* What a voice reads stays until the voice ends, what is current stays        *)
(* current, and a slot retires only while a voice holds it: control reclaims   *)
(* slots while audio starts voices, and neither waits for the other.           *)
VoicesReadLive ==
  /\ \A s \in AllSlots : /\ Uses(voices, s) => slots[s].state \in {"current", "retiring"}
                         /\ slots[s].state = "retiring" => Uses(voices, s)
  /\ current # 0 => slots[current].state = "current"
  /\ audition # 0 => slots[audition].state = "current"

(* A press sounds the Bank it was admitted against, so its sample is there,    *)
(* although control admits it by what audio last applied.                      *)
PressFindsItsBank == At("press") => audio.event.gen = CurrentGen /\ audio.event.pad \in Available

(* Voices read only samples that stay, and every press sounds its own Bank.   *)
BanksLive == VoicesReadLive /\ PressFindsItsBank
================================================================================
