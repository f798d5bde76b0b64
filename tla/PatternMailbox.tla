---------------------------- MODULE PatternMailbox ----------------------------
(* How the control thread hands Patterns to the audio thread of the realtime   *)
(* engine: a one-place mailbox of slot numbers with flag bits, the token of    *)
(* the slot audio has claimed, and the slots, which only control reclaims.     *)
(* Audio never waits: it closes admission, takes whatever the mailbox holds    *)
(* and invalidates a publication being timed.  Each atomic access the other    *)
(* thread can see is a step.                                                   *)
EXTENDS Naturals, FiniteSets

CONSTANTS Slots,        \* 1 .. n: pattern_slots_
          Requests,     \* [pattern, switch, auth]: the publications callers ask for; auth: they name what is pending
          Patterns, Bar,  \* Bar[p]: frames of a Bar of the Pattern
          Quantum,      \* frames of a callback
          MaxGen, MaxFrame   \* bounds: publications, frames rendered

MailboxAssumption ==
  /\ Requests \subseteq [pattern : Patterns, switch : BOOLEAN, auth : BOOLEAN]
  /\ Slots \subseteq Nat \ {0} /\ Bar \in [Patterns -> Nat \ {0}]
  /\ {Quantum, MaxGen, MaxFrame} \subseteq Nat /\ Patterns # {}

VARIABLES slots,     \* [state, gen, pattern, due, after, switch]; after: the Pattern it was timed by
          mailbox,   \* queued_pattern_generation_: [token, claimed, reserved, invalid]
          closed,    \* pattern_claim_closed_
          taken,     \* audio_pending_pattern_generation_: [token, applying]
          local,     \* audio_pending_pattern_: the slot audio works on, or 0
          current,   \* current_pattern_slot_, or 0
          decision,  \* transport_decision_: [frame, gen, origin]
          control,   \* the publication or cancellation control is in
          audio,     \* [pc, frame, left, only]
          voice,     \* the slot a sounding voice reads, or 0
          gens,      \* generations taken
          cancelled  \* generations whose cancellation was answered with success
vars == <<slots, mailbox, closed, taken, local, current, decision, control, audio, voice, gens, cancelled>>

Empty == [state |-> "empty", gen |-> 0, pattern |-> CHOOSE p \in Patterns : TRUE, due |-> 0, after |-> 0, switch |-> FALSE]
Resting == [pc |-> "idle", pattern |-> CHOOSE p \in Patterns : TRUE, switch |-> FALSE, auth |-> FALSE, token |-> 0,
            audio |-> 0, keep |-> 0, slot |-> 0]
Init ==
  /\ slots = [s \in Slots |-> Empty]
  /\ mailbox = [token |-> 0, claimed |-> FALSE, reserved |-> FALSE, invalid |-> FALSE] /\ closed = FALSE
  /\ taken = [token |-> 0, applying |-> FALSE] /\ local = 0 /\ current = 0
  /\ decision = [frame |-> 0, gen |-> 0, origin |-> 0] /\ control = Resting
  /\ audio = [pc |-> "idle", frame |-> 0, left |-> 0, only |-> FALSE] /\ voice = 0 /\ gens = 0 /\ cancelled = {}

audioVars == <<closed, taken, local, current, decision, audio, voice>>
-------------------------------------------------------------------------------
(* Control: publish_pattern_view_impl().                                       *)
Publish(r) ==
  /\ control.pc = "idle"
  /\ control' = [Resting EXCEPT !.pc = "admit", !.pattern = r.pattern, !.switch = r.switch, !.auth = r.auth]
  /\ UNCHANGED <<slots, mailbox, gens, cancelled>> /\ UNCHANGED audioVars

(* Admission is tried only while audio is not claiming.                        *)
Wait ==
  /\ control.pc = "admit" /\ ~closed /\ control' = [control EXCEPT !.pc = "reserve"]
  /\ UNCHANGED <<slots, mailbox, gens, cancelled>> /\ UNCHANGED audioVars
ReserveAdmission ==
  /\ control.pc = "reserve"
  /\ IF mailbox.claimed THEN control' = [control EXCEPT !.pc = "admit"] /\ UNCHANGED mailbox
     ELSE /\ mailbox' = [mailbox EXCEPT !.reserved = TRUE, !.invalid = FALSE]
          /\ control' = [control EXCEPT !.pc = "observe", !.token = mailbox.token]
  /\ UNCHANGED <<slots, gens, cancelled>> /\ UNCHANGED audioVars

(* ~PatternPublicationAdmission(): the flags are cleared, audio's bits stay.   *)
Unreserved == [mailbox EXCEPT !.reserved = FALSE, !.invalid = FALSE]
Rejected == control' = Resting /\ mailbox' = Unreserved
Again == control' = [control EXCEPT !.pc = "admit"] /\ mailbox' = Unreserved

NextBar(origin, observed, bar) ==
  LET from == IF observed < origin THEN origin ELSE observed
  IN  origin + ((from - origin) \div bar + 1) * bar

(* Mutant: an invalidated admission still commits.                             *)
AdmittedAnyway == mailbox.token = control.token /\ mailbox.reserved /\ ~mailbox.claimed

(* The mailbox is still as admitted: audio has claimed nothing meanwhile.      *)
StillAdmitted == mailbox = [token |-> control.token, claimed |-> FALSE, reserved |-> TRUE, invalid |-> FALSE]

(* What is pending: the queued slot, else the one audio took.  Another Pattern *)
(* is replaced only with its authority; a plain publication keeps the start    *)
(* of what it replaces, or the Bar after what audio already took.              *)
ObservePending ==
  /\ control.pc = "observe"
  /\ LET pending == IF control.token # 0 THEN control.token ELSE taken.token
         s == slots[pending]
         keep == IF control.switch /\ control.token = 0 THEN 0
                 ELSE IF s.due >= decision.frame THEN s.due
                 ELSE IF control.token = 0 /\ ~control.switch THEN NextBar(s.due, decision.frame, Bar[s.pattern]) ELSE 0
     IN  IF pending = 0
         THEN /\ control' = [control EXCEPT !.pc = "time", !.audio = taken.token, !.keep = 0] /\ UNCHANGED mailbox
         ELSE IF s.state # "pending" /\ ~StillAdmitted THEN Again
         ELSE IF s.state # "pending" \/ (~control.auth /\ s.pattern # control.pattern) THEN Rejected
         ELSE /\ control' = [control EXCEPT !.pc = "time", !.audio = taken.token, !.keep = keep]
              /\ UNCHANGED mailbox
  /\ UNCHANGED <<slots, gens, cancelled>> /\ UNCHANGED audioVars

(* The start frame: a switch counts Bars of the Pattern that plays before it,  *)
(* the one audio took or the current one.                                      *)
Timing ==
  LET ahead == control.audio # 0 /\ slots[control.audio].gen # decision.gen
  IN  IF control.switch /\ current # 0
      THEN IF ahead THEN [due |-> NextBar(slots[control.audio].due, decision.frame, Bar[slots[control.audio].pattern]), after |-> slots[control.audio].gen]
           ELSE [due |-> NextBar(decision.origin, decision.frame, Bar[slots[current].pattern]), after |-> decision.gen]
      ELSE IF control.keep # 0 THEN [due |-> control.keep, after |-> 0]
      ELSE IF current # 0 /\ decision.frame >= decision.origin
      THEN [due |-> NextBar(decision.origin, decision.frame, Bar[slots[current].pattern]), after |-> 0]
      ELSE [due |-> decision.frame, after |-> 0]
FillSlot ==
  /\ control.pc = "time"
  /\ IF current # 0 /\ decision.gen # slots[current].gen THEN Again /\ UNCHANGED <<slots, gens>>
     ELSE IF \A s \in Slots : slots[s].state # "empty" THEN Rejected /\ UNCHANGED <<slots, gens>>
     ELSE \E s \in Slots :
          /\ slots[s].state = "empty" /\ (\A t \in Slots : t < s => slots[t].state # "empty") /\ gens < MaxGen
          /\ slots' = [slots EXCEPT ![s] = [state |-> "pending", gen |-> gens + 1, pattern |-> control.pattern,
                                            due |-> Timing.due, after |-> Timing.after, switch |-> control.switch]]
          /\ gens' = gens + 1 /\ control' = [control EXCEPT !.pc = "commit", !.slot = s] /\ UNCHANGED mailbox
  /\ UNCHANGED cancelled /\ UNCHANGED audioVars

Superseded == IF control.token = 0 THEN slots ELSE [slots EXCEPT ![control.token].state = "reclaimable"]
CommitPublication ==
  /\ control.pc = "commit"
  /\ IF StillAdmitted
     THEN /\ mailbox' = [token |-> control.slot, claimed |-> FALSE, reserved |-> FALSE, invalid |-> FALSE]
          /\ slots' = Superseded /\ control' = Resting
     ELSE slots' = [slots EXCEPT ![control.slot] = Empty] /\ Again
  /\ UNCHANGED <<gens, cancelled>> /\ UNCHANGED audioVars
-------------------------------------------------------------------------------
(* cancel_pattern_publication(): from the mailbox, else from audio's token.    *)
Cancel(s) ==
  /\ control.pc = "idle" /\ slots[s].state = "pending"
  /\ control' = [Resting EXCEPT !.pc = "unqueue", !.slot = s]
  /\ UNCHANGED <<slots, mailbox, gens, cancelled>> /\ UNCHANGED audioVars
Unqueue ==
  /\ control.pc = "unqueue" /\ ~closed
  /\ IF slots[control.slot].state = "pending" /\ mailbox.token = control.slot /\ ~mailbox.claimed
     THEN /\ mailbox' = [mailbox EXCEPT !.token = 0] /\ slots' = [slots EXCEPT ![control.slot].state = "reclaimable"]
          /\ cancelled' = cancelled \cup {slots[control.slot].gen} /\ control' = Resting
     ELSE control' = [control EXCEPT !.pc = "untake"] /\ UNCHANGED <<mailbox, slots, cancelled>>
  /\ UNCHANGED gens /\ UNCHANGED audioVars

TakenBack(s) == taken = [token |-> s, applying |-> FALSE]
Untake ==
  /\ control.pc = "untake" /\ control' = Resting
  /\ IF slots[control.slot].state = "pending" /\ TakenBack(control.slot)
     THEN taken' = [token |-> 0, applying |-> FALSE] /\ cancelled' = cancelled \cup {slots[control.slot].gen}
     ELSE UNCHANGED <<taken, cancelled>>
  /\ UNCHANGED <<slots, mailbox, closed, local, current, decision, audio, voice, gens>>

(* Mutant: a retiring slot is reclaimed under its voices.                      *)
ReclaimableEarly(s) == slots[s].state \in {"retiring", "reclaimable"}

Reclaimable(s) == slots[s].state = "reclaimable"
Reclaim ==
  /\ control.pc = "idle" /\ \E s \in Slots : Reclaimable(s)
  /\ slots' = [s \in Slots |-> IF Reclaimable(s) THEN Empty ELSE slots[s]]
  /\ UNCHANGED <<mailbox, control, gens, cancelled>> /\ UNCHANGED audioVars
-------------------------------------------------------------------------------
(* Audio: render() and claim_queued_pattern().                                 *)
At(pc) == audio.pc = pc
Go(pc) == audio' = [audio EXCEPT !.pc = pc]
controlVars == <<control, gens, cancelled>>

Callback ==
  /\ At("idle") /\ audio.frame + Quantum <= MaxFrame
  /\ audio' = [audio EXCEPT !.pc = IF local = 0 THEN "claim" ELSE "frame", !.left = Quantum, !.only = FALSE]
  /\ closed' = (local = 0)
  /\ UNCHANGED <<slots, mailbox, taken, local, current, decision, voice>> /\ UNCHANGED controlVars
CloseAdmission ==
  /\ At("close") /\ closed' = TRUE /\ Go("claim")
  /\ UNCHANGED <<slots, mailbox, taken, local, current, decision, voice>> /\ UNCHANGED controlVars

(* The mailbox is read and marked in one step.                                 *)
Claim ==
  /\ At("claim") /\ mailbox' = [mailbox EXCEPT !.claimed = TRUE, !.invalid = TRUE]
  /\ local' = IF mailbox.token # 0 /\ (audio.only => slots[mailbox.token].switch) THEN mailbox.token ELSE 0
  /\ Go(IF mailbox.token # 0 /\ local' = 0 THEN "restore" ELSE "take")
  /\ UNCHANGED <<slots, closed, taken, current, decision, voice>> /\ UNCHANGED controlVars
Restore ==
  /\ At("restore") /\ mailbox' = [mailbox EXCEPT !.claimed = FALSE] /\ Go("open")
  /\ UNCHANGED <<slots, closed, taken, local, current, decision, voice>> /\ UNCHANGED controlVars
Take ==
  /\ At("take") /\ taken' = (IF local # 0 THEN [token |-> local, applying |-> FALSE] ELSE taken) /\ Go("empty")
  /\ UNCHANGED <<slots, mailbox, closed, local, current, decision, voice>> /\ UNCHANGED controlVars
EmptyMailbox ==
  /\ At("empty") /\ mailbox' = [mailbox EXCEPT !.token = 0, !.claimed = FALSE] /\ Go("open")
  /\ UNCHANGED <<slots, closed, taken, local, current, decision, voice>> /\ UNCHANGED controlVars
OpenAdmission ==
  /\ At("open") /\ closed' = FALSE /\ Go(IF audio.only THEN "mix" ELSE "frame")
  /\ UNCHANGED <<slots, mailbox, taken, local, current, decision, voice>> /\ UNCHANGED controlVars

(* One frame: the due Pattern first, then the voices.                          *)
Due == local # 0 /\ audio.frame >= slots[local].due
(* The token decides between the application and a cancellation.               *)
Decide ==
  /\ At("frame") /\ audio.left > 0 /\ Due
  /\ IF taken = [token |-> local, applying |-> FALSE]
     THEN taken' = [taken EXCEPT !.applying = TRUE] /\ Go("apply") /\ UNCHANGED <<slots, local>>
     ELSE /\ slots' = [slots EXCEPT ![local].state = "reclaimable"] /\ local' = 0
          /\ audio' = [audio EXCEPT !.pc = "close", !.only = TRUE] /\ UNCHANGED taken
  /\ UNCHANGED <<mailbox, closed, current, decision, voice>> /\ UNCHANGED controlVars

(* apply_published_pattern(): slots, then the decision, then the token.        *)
Apply ==
  /\ At("apply") /\ Go("decision") /\ current' = local
  /\ slots' = [s \in Slots |->
       IF s = local THEN [slots[s] EXCEPT !.state = "current"]
       ELSE IF s = current THEN [slots[s] EXCEPT !.state = IF voice = s THEN "retiring" ELSE "reclaimable"] ELSE slots[s]]
  /\ UNCHANGED <<mailbox, closed, taken, local, decision, voice>> /\ UNCHANGED controlVars
Decided ==
  /\ At("decision") /\ Go("applied")
  /\ decision' = [decision EXCEPT !.gen = slots[local].gen, !.origin = audio.frame]
  /\ UNCHANGED <<slots, mailbox, closed, taken, local, current, voice>> /\ UNCHANGED controlVars
Applied ==
  /\ At("applied") /\ taken' = [token |-> 0, applying |-> FALSE] /\ local' = 0
  /\ audio' = [audio EXCEPT !.pc = "close", !.only = TRUE]
  /\ UNCHANGED <<slots, mailbox, closed, current, decision, voice>> /\ UNCHANGED controlVars

(* A voice of the current Pattern starts, or the sounding one ends.            *)
Mix(start, stop) ==
  /\ At("mix") \/ (At("frame") /\ audio.left > 0 /\ ~Due)
  /\ (start => current # 0 /\ voice = 0) /\ (stop => voice # 0)
  /\ audio' = [audio EXCEPT !.pc = "frame", !.frame = @ + 1, !.left = @ - 1]
  /\ voice' = IF start THEN current ELSE IF stop THEN 0 ELSE voice
  /\ slots' = [s \in Slots |-> IF stop /\ s = voice /\ slots[s].state = "retiring" THEN [slots[s] EXCEPT !.state = "reclaimable"] ELSE slots[s]]
  /\ UNCHANGED <<mailbox, closed, taken, local, current, decision>> /\ UNCHANGED controlVars
EndCallback ==
  /\ At("frame") /\ audio.left = 0 /\ Go("idle") /\ decision' = [decision EXCEPT !.frame = audio.frame]
  /\ UNCHANGED <<slots, mailbox, closed, taken, local, current, voice>> /\ UNCHANGED controlVars

ControlStep ==
  \/ \E r \in Requests : Publish(r)
  \/ Wait \/ ReserveAdmission \/ ObservePending \/ FillSlot \/ CommitPublication
  \/ (\E s \in Slots : Cancel(s)) \/ Unqueue \/ Untake \/ Reclaim
AudioStep ==
  \/ Callback \/ CloseAdmission \/ Claim \/ Restore \/ Take \/ EmptyMailbox \/ OpenAdmission
  \/ Decide \/ Apply \/ Decided \/ Applied \/ (\E start, stop \in BOOLEAN : Mix(start, stop)) \/ EndCallback
Next == ControlStep \/ AudioStep
Spec == Init /\ [][Next]_vars
-------------------------------------------------------------------------------
(* What audio reads is there: the slot it plays, the one it works on, the one  *)
(* the mailbox names and the one a voice sounds from are never reclaimed under *)
(* it, though audio takes no lock and may be preempted anywhere.               *)
AudioReadsLive ==
  /\ current # 0 => slots[current].state = "current"
  /\ local # 0 => slots[local].state = (IF audio.pc \in {"decision", "applied"} THEN "current" ELSE "pending")
  /\ mailbox.token # 0 => slots[mailbox.token].state = "pending" /\ (mailbox.token = local => audio.pc \in {"take", "empty"})
  /\ voice # 0 => slots[voice].state \in {"current", "retiring"}

(* Slots do not leak: a pending slot is in the mailbox, with audio, or the one *)
(* control is filling; a retiring one has its voice.                           *)
PendingOwned ==
  \A s \in Slots :
    /\ slots[s].state = "pending" => s \in {mailbox.token, local} \/ (control.pc = "commit" /\ control.slot = s)
    /\ slots[s].state = "retiring" => voice = s

(* A cancellation that was answered with success is final: the Pattern never   *)
(* becomes current.                                                            *)
CancelledNeverPlays == current # 0 => slots[current].gen \notin cancelled

(* Audio holds only Patterns that stay, no slot leaks, and what was cancelled  *)
(* never plays.                                                                *)
PatternsLive == AudioReadsLive /\ PendingOwned /\ CancelledNeverPlays

(* A switch starts on a Bar of the Pattern that plays when it comes.  Control  *)
(* times it without stopping audio, so what it read may be old; a switch that  *)
(* enters the mailbox between callbacks is nevertheless timed by what plays    *)
(* then, and it starts after the Pattern it was timed by unless that Pattern   *)
(* was cancelled.                                                              *)
OnBar(s) == (slots[s].due - decision.origin) % Bar[slots[current].pattern] = 0
SwitchOnBar ==
  [][LET committed == control.pc = "commit" /\ mailbox'.token = control.slot
     IN  /\ committed /\ At("idle") /\ slots[control.slot].after \in {decision.gen} \ {0} => OnBar(control.slot)
         /\ At("apply") /\ slots[local].after # 0 => slots[local].after \in {slots[current].gen} \cup cancelled]_vars
===============================================================================
