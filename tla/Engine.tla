-------------------------------- MODULE Engine --------------------------------
(* What control hands to the audio callback of the realtime engine: the last   *)
(* value of a channel, sample Banks and Patterns, each with what it promises   *)
(* and the proof that it does, for any number of publications, slots, voices,  *)
(* Pads, generations and frames.                                               *)
EXTENDS ValueChannel, Integers, SequencesExt, SequenceTheorems, TLAPS

CONSTANTS BankSlots, AuditionSlots, Pads, Voices, QueueSize, MaxBank,
          PatternSlots, Requests, Patterns, Bar, Quantum, MaxPattern, MaxFrame
VARIABLES bankSlots, legacy, bankCurrent, audition, pending, bankPublished, auditions, inputs, queue, voices,
          bankAudio, bankRunning, bankGens,
          mailSlots, mailbox, closed, taken, mailLocal, mailCurrent, decision, control, mailAudio, voice,
          mailGens, cancelled
bankVars == <<bankSlots, legacy, bankCurrent, audition, pending, bankPublished, auditions, inputs, queue,
            voices, bankAudio, bankRunning, bankGens>>
mailVars == <<mailSlots, mailbox, closed, taken, mailLocal, mailCurrent, decision, control, mailAudio, voice,
            mailGens, cancelled>>

Banks == INSTANCE SampleBanks WITH MaxGen <- MaxBank, slots <- bankSlots, current <- bankCurrent,
  published <- bankPublished, audio <- bankAudio, running <- bankRunning, gens <- bankGens
Mail == INSTANCE PatternMailbox WITH Slots <- PatternSlots, MaxGen <- MaxPattern, slots <- mailSlots,
  local <- mailLocal, current <- mailCurrent, audio <- mailAudio, gens <- mailGens
-----------------------------------------------------------------------------
(* Audio never follows a Pattern slot that control may fill again, every     *)
(* request that control sees as pending has one owner, and a cancelled       *)
(* switch is never heard, whatever control publishes, cancels or reclaims    *)
(* during a callback (PatternMailbox).                                       *)
PatternsLive == Mail!PatternsLive

(* A Pattern switch takes effect on a Bar of the Pattern that was playing    *)
(* (PatternMailbox).                                                         *)
SwitchOnBar == Mail!SwitchOnBar

(* Voices read samples that nobody may free, and a press sounds the Bank it  *)
(* was admitted against (SampleBanks).                                       *)
BanksLive == Banks!BanksLive
-----------------------------------------------------------------------------
(* The proofs, for any number of publications.                                *)

(* The slot the reader owns and the slot in the exchange word hold whole      *)
(* values; the writer's slot is filled in the order of publish().             *)
SlotsWhole ==
    /\ slots[reader].lo = slots[reader].hi
    /\ slots[middle.index].lo = slots[middle.index].hi
    /\ wpc \in {"half", "copied"} => /\ published < MaxPublish
                                     /\ slots[writer].lo = published + 1
    /\ wpc = "copied" => slots[writer].hi = published + 1

(* The newest version is in the exchange word when it is dirty, and in the    *)
(* reader's hands otherwise.                                                  *)
NewestPlaced ==
    /\ middle.dirty => slots[middle.index].lo = published
    /\ ~middle.dirty => slots[reader].lo = published
    /\ slots[reader].lo <= published

(* What the read in progress knows.                                           *)
ReadProgress ==
    /\ floor <= published
    /\ returned.lo <= slots[reader].lo
    /\ rpc = "dirty" => middle.dirty
    /\ rpc \in {"copy", "half"} => floor <= slots[reader].lo
    /\ rpc = "half" => out.lo = slots[reader].lo

(* The inductive invariant.                                                   *)
IInv == TypeOK /\ SlotsDisjoint /\ SlotsWhole /\ NewestPlaced /\ ReadProgress /\ NoTornRead

(* The constructor's state satisfies the invariant.                           *)
LEMMA InitIInv == Init => IInv
  BY MaxPublishAssumption
     DEF Init, IInv, TypeOK, SlotsDisjoint, SlotsWhole, NewestPlaced, ReadProgress,
         NoTornRead, Index, Value, Zero

(* Every atomic step of publish() and read() preserves the invariant.         *)
LEMMA NextIInv == IInv /\ [Next]_vars => IInv'
<1> SUFFICES ASSUME IInv, [Next]_vars PROVE IInv'
  OBVIOUS
<1> USE MaxPublishAssumption
     DEF IInv, TypeOK, SlotsDisjoint, SlotsWhole, NewestPlaced, ReadProgress, NoTornRead,
         Index, Value, readerVars, writerVars
<1>1. CASE PublishFirstHalf
  BY <1>1 DEF PublishFirstHalf
<1>2. CASE PublishSecondHalf
  BY <1>2 DEF PublishSecondHalf
<1>3. CASE PublishExchange
  BY <1>3 DEF PublishExchange
<1>4. CASE ReadLoad
  BY <1>4 DEF ReadLoad
<1>5. CASE ReadExchange
  BY <1>5 DEF ReadExchange
<1>6. CASE ReadFirstHalf
  BY <1>6 DEF ReadFirstHalf
<1>7. CASE ReadSecondHalf
  BY <1>7 DEF ReadSecondHalf
<1>8. CASE UNCHANGED vars
  BY <1>8 DEF vars
<1> QED
  BY <1>1, <1>2, <1>3, <1>4, <1>5, <1>6, <1>7, <1>8 DEF Next, Publish, Read

(* The invariant holds of every behaviour of the channel.                     *)
THEOREM Invariance == Spec => []IInv
  BY InitIInv, NextIInv, PTL DEF Spec

(* The variables always have their types.                                     *)
THEOREM TypeCorrect == Spec => []TypeOK
  BY Invariance, PTL DEF IInv

(* publish() never writes the slot read() is copying, for any number of       *)
(* publications and reads.                                                    *)
THEOREM Disjoint == Spec => []SlotsDisjoint
  BY Invariance, PTL DEF IInv

(* read() never returns a mix of two publications.                            *)
THEOREM Whole == Spec => []NoTornRead
  BY Invariance, PTL DEF IInv

(* The triple buffer implements the abstract channel: reads are fresh and     *)
(* never go back.                                                             *)
THEOREM Refinement == Spec => LatestSpec
<1>1. Init => Latest!AInit
  BY DEF Init, Latest!AInit, Zero
<1>2. IInv /\ [Next]_vars => [Latest!ANext]_(Latest!avars)
  <2> SUFFICES ASSUME IInv, [Next]_vars PROVE [Latest!ANext]_(Latest!avars)
    OBVIOUS
  <2> USE MaxPublishAssumption
       DEF IInv, TypeOK, Index, Value, readerVars, writerVars, Latest!avars
  <2>1. CASE PublishFirstHalf
    BY <2>1 DEF PublishFirstHalf
  <2>2. CASE PublishSecondHalf
    BY <2>2 DEF PublishSecondHalf
  <2>3. CASE PublishExchange
    BY <2>3 DEF PublishExchange, SlotsWhole, Latest!ANext, Latest!APublish
  <2>4. CASE ReadLoad
    BY <2>4 DEF ReadLoad, Latest!ANext, Latest!ABeginRead
  <2>5. CASE ReadExchange
    BY <2>5 DEF ReadExchange
  <2>6. CASE ReadFirstHalf
    BY <2>6 DEF ReadFirstHalf
  <2>7. CASE ReadSecondHalf
    <3>1. /\ returned'.lo \in floor .. published
          /\ returned'.lo >= returned.lo
      BY <2>7 DEF ReadSecondHalf, ReadProgress, NewestPlaced
    <3> QED
      BY <2>7, <3>1 DEF ReadSecondHalf, Latest!ANext, Latest!AEndRead
  <2>8. CASE UNCHANGED vars
    BY <2>8 DEF vars
  <2> QED
    BY <2>1, <2>2, <2>3, <2>4, <2>5, <2>6, <2>7, <2>8 DEF Next, Publish, Read
<1> QED
  BY <1>1, <1>2, Invariance, PTL DEF Spec, LatestSpec, Latest!ASpec
-------------------------------------------------------------------------------
(* Sample Banks. What is queued for audio is pending and queued once; a press  *)
(* waits only while no publication does, and then the Bank it was admitted     *)
(* against is still the current one; a stopped engine has nothing under way.   *)
SlotType == [state : {"empty", "pending", "current", "retiring", "reclaimable"}, gen : Nat, pads : SUBSET Pads]
NoPad == CHOOSE p \in Pads : TRUE
EventType == [kind : {"none", "press", "audition"}, pad : Pads \cup {NoPad}, gen : Nat]
BankTypes ==
  /\ bankSlots \in [Banks!AllSlots -> SlotType] /\ legacy \in SUBSET Pads
  /\ bankCurrent \in BankSlots \cup {0} /\ audition \in AuditionSlots \cup {0}
  /\ pending \in Nat /\ inputs \in Nat /\ bankGens \in Nat /\ bankRunning \in BOOLEAN
  /\ bankPublished \in Seq(BankSlots) /\ auditions \in Seq(AuditionSlots) /\ queue \in Seq(EventType)
  /\ voices \in [Voices -> {<<>>} \cup {<<s>> : s \in Banks!AllSlots \cup {0}}]
  /\ bankAudio \in [pc : {"idle", "banks", "applied", "input", "press", "audition"}, event : EventType]
Waiting(q) ==
  /\ \A i \in 1 .. Len(q) : bankSlots[q[i]].state = "pending"
  /\ \A i, j \in 1 .. Len(q) : q[i] = q[j] => i = j
Announced == Waiting(bankPublished) /\ Waiting(auditions)
Counted == inputs = Len(queue) /\ pending = Len(bankPublished) + (IF Banks!At("applied") THEN 1 ELSE 0)
Stopped ==
  ~bankRunning => bankPublished = <<>> /\ queue = <<>> /\ Banks!At("idle") /\ \A v \in Voices : voices[v] = <<>>
Valid(e) == e.gen = Banks!CurrentGen /\ e.pad \in Banks!Available
Admitted ==
  /\ \A i \in 1 .. Len(queue) : queue[i].kind = "press" => pending = 0 /\ Valid(queue[i])
  /\ Banks!At("press") => Valid(bankAudio.event)
BankIInv == BankTypes /\ Announced /\ Counted /\ Stopped /\ Admitted /\ Banks!VoicesReadLive

LEMMA SlotNames ==
  ASSUME Banks!BanksAssumption
  PROVE  /\ 0 \notin Banks!AllSlots /\ BankSlots \subseteq Banks!AllSlots /\ AuditionSlots \subseteq Banks!AllSlots
         /\ \A s \in BankSlots : s \notin AuditionSlots
         /\ \A s \in Banks!AllSlots : s \in Nat
  BY DEF Banks!BanksAssumption, Banks!AllSlots

LEMMA NoVoice == \A s : <<s>> # <<>>
  OBVIOUS

LEMMA NoEventFacts ==
  Banks!NoEvent = [kind |-> "none", pad |-> NoPad, gen |-> 0] /\ Banks!NoEvent \in EventType
PROOF
<1>1. Banks!NoEvent = [kind |-> "none", pad |-> NoPad, gen |-> 0]
  BY DEF Banks!NoEvent, NoPad
<1> QED
  BY <1>1 DEF EventType

(* What is retired keeps its samples, and everything else stays.               *)
LEMMA RetiredFacts ==
  ASSUME BankTypes, Banks!BanksAssumption, NEW c \in Banks!AllSlots \cup {0}
  PROVE  /\ Banks!Retired(bankSlots, c) \in [Banks!AllSlots -> SlotType]
         /\ \A s \in Banks!AllSlots : s # c => Banks!Retired(bankSlots, c)[s] = bankSlots[s]
         /\ c # 0 => /\ Banks!Retired(bankSlots, c)[c].state = IF Banks!Uses(voices, c) THEN "retiring" ELSE "reclaimable"
                     /\ Banks!Retired(bankSlots, c)[c].gen = bankSlots[c].gen /\ Banks!Retired(bankSlots, c)[c].pads = bankSlots[c].pads
PROOF
<1>1. 0 \notin Banks!AllSlots
  BY SlotNames
<1>2. CASE c = 0
  BY <1>1, <1>2 DEF Banks!Retired, BankTypes
<1>3. CASE c # 0
  BY <1>1, <1>3 DEF Banks!Retired, BankTypes, SlotType
<1> QED
  BY <1>2, <1>3

LEMMA SilencedFacts ==
  ASSUME BankTypes, NEW vs
  PROVE  /\ Banks!Silenced(vs, bankSlots) \in [Banks!AllSlots -> SlotType]
         /\ \A s \in Banks!AllSlots :
              /\ bankSlots[s].state = "retiring" /\ ~Banks!Uses(vs, s) => Banks!Silenced(vs, bankSlots)[s].state = "reclaimable"
              /\ bankSlots[s].state # "retiring" \/ Banks!Uses(vs, s) => Banks!Silenced(vs, bankSlots)[s] = bankSlots[s]
  BY DEF Banks!Silenced, BankTypes, SlotType

(* The slots a queue announces are slots of its pool.                          *)
LEMMA QueueFacts ==
  ASSUME BankTypes
  PROVE  /\ Len(bankPublished) \in Nat /\ Len(auditions) \in Nat /\ Len(queue) \in Nat
         /\ \A i \in 1 .. Len(bankPublished) : bankPublished[i] \in BankSlots
         /\ \A i \in 1 .. Len(auditions) : auditions[i] \in AuditionSlots
         /\ \A i \in 1 .. Len(queue) : queue[i] \in EventType
         /\ (bankPublished = <<>>) = (Len(bankPublished) = 0) /\ (auditions = <<>>) = (Len(auditions) = 0)
         /\ (queue = <<>>) = (Len(queue) = 0)
  BY EmptySeq, LenProperties, ElementOfSeq DEF BankTypes

LEMMA InitBanks == ASSUME Banks!BanksAssumption PROVE Banks!Init => BankIInv
PROOF
<1> SUFFICES ASSUME Banks!Init PROVE BankIInv
  OBVIOUS
<1>1. Banks!Empty \in SlotType /\ Banks!NoEvent \in EventType /\ Banks!Empty.state = "empty"
  BY NoEventFacts DEF Banks!Empty, SlotType
<1>2. <<>> \in Seq(BankSlots) /\ <<>> \in Seq(AuditionSlots) /\ <<>> \in Seq(EventType) /\ Len(<<>>) = 0
  BY EmptySeq
<1>3. BankTypes
  BY <1>1, <1>2 DEF Banks!Init, BankTypes
<1>4. Announced /\ Counted /\ Stopped /\ Admitted
  BY <1>2 DEF Banks!Init, Announced, Waiting, Counted, Stopped, Admitted, Banks!At
<1>5. Banks!VoicesReadLive
  <2>1. \A s \in Banks!AllSlots : bankSlots[s].state = "empty" /\ ~Banks!Uses(voices, s)
    BY <1>1 DEF Banks!Init, Banks!Uses
  <2> QED
    BY <2>1 DEF Banks!VoicesReadLive, Banks!Init
<1> QED
  BY <1>3, <1>4, <1>5 DEF BankIInv

-------------------------------------------------------------------------------
(* A free slot is filled and announced.                                        *)
LEMMA PublishBankKeeps ==
  ASSUME Banks!BanksAssumption, BankIInv, NEW s \in BankSlots, NEW pads \in SUBSET Pads, Banks!PublishBank(s, pads)
  PROVE  BankIInv'
PROOF
<1> DEFINE n == [state |-> "pending", gen |-> bankGens + 1, pads |-> pads]
<1>1. bankSlots[s].state = "empty" /\ s \in Banks!AllSlots /\ bankRunning /\ inputs = 0 /\ s # 0
  BY SlotNames DEF Banks!PublishBank, Banks!Publishes, Banks!FreeSlot
<1>2. /\ bankSlots' = [bankSlots EXCEPT ![s] = n] /\ pending' = pending + 1 /\ bankPublished' = Append(bankPublished, s)
      /\ bankGens' = bankGens + 1
      /\ UNCHANGED <<legacy, bankCurrent, audition, auditions, inputs, queue, voices, bankAudio, bankRunning>>
  BY DEF Banks!PublishBank, Banks!Filled
<1>3. n \in SlotType /\ n.state = "pending"
  BY DEF BankIInv, BankTypes, SlotType
<1> HIDE DEF n
<1>4. /\ bankSlots' \in [Banks!AllSlots -> SlotType] /\ bankSlots'[s].state = "pending"
      /\ \A t \in Banks!AllSlots : t # s => bankSlots'[t] = bankSlots[t]
  BY <1>1, <1>2, <1>3 DEF BankIInv, BankTypes
<1>5. /\ bankPublished' \in Seq(BankSlots) /\ Len(bankPublished') = Len(bankPublished) + 1
      /\ bankPublished'[Len(bankPublished) + 1] = s /\ \A i \in 1 .. Len(bankPublished) : bankPublished'[i] = bankPublished[i]
  BY <1>2, AppendProperties DEF BankIInv, BankTypes
<1>6. BankTypes'
  BY <1>2, <1>4, <1>5 DEF BankIInv, BankTypes
<1>7. bankCurrent # s /\ audition # s
  BY <1>1 DEF BankIInv, Banks!VoicesReadLive
<1>8. Announced'
  <2>1. /\ \A i \in 1 .. Len(bankPublished) : bankPublished[i] \in Banks!AllSlots /\ bankPublished[i] # s
        /\ \A i \in 1 .. Len(auditions) : auditions[i] \in Banks!AllSlots /\ auditions[i] # s
    BY <1>1, QueueFacts, SlotNames DEF BankIInv, Announced, Waiting
  <2>2. Len(bankPublished) \in Nat
    BY QueueFacts DEF BankIInv
  <2>3. Waiting(bankPublished)'
    BY <1>4, <1>5, <2>1, <2>2 DEF BankIInv, Announced, Waiting
  <2>4. Waiting(auditions)'
    BY <1>2, <1>4, <2>1 DEF BankIInv, Announced, Waiting
  <2> QED
    BY <2>3, <2>4 DEF Announced
<1>9. queue = <<>> /\ Len(queue) = 0
  BY <1>1, QueueFacts DEF BankIInv, Counted
<1>10. Counted'
  BY <1>2, <1>5, QueueFacts DEF BankIInv, Counted, Banks!At
<1>11. Stopped'
  BY <1>1, <1>2 DEF Stopped
<1>12. Banks!CurrentGen' = Banks!CurrentGen /\ Banks!Available' = Banks!Available
  BY <1>1, <1>2, <1>4, <1>7, SlotNames DEF BankIInv, BankTypes, Banks!CurrentGen, Banks!Available
<1>13. Admitted'
  BY <1>2, <1>9, <1>12 DEF BankIInv, Admitted, Valid, Banks!At
<1>14. Banks!VoicesReadLive'
  BY <1>1, <1>2, <1>4, <1>7, SlotNames DEF BankIInv, BankTypes, Banks!VoicesReadLive, Banks!Uses
<1> QED
  BY <1>6, <1>8, <1>10, <1>11, <1>13, <1>14 DEF BankIInv

(* Presses stay valid while the current Bank and the legacy samples stay.      *)
LEMMA StillValid ==
  ASSUME Banks!BanksAssumption, BankTypes, bankCurrent' = bankCurrent, legacy' = legacy,
         bankCurrent # 0 => bankSlots'[bankCurrent].gen = bankSlots[bankCurrent].gen /\ bankSlots'[bankCurrent].pads = bankSlots[bankCurrent].pads
  PROVE  Banks!CurrentGen' = Banks!CurrentGen /\ Banks!Available' = Banks!Available
  BY DEF Banks!CurrentGen, Banks!Available

LEMMA PublishBankStoppedKeeps ==
  ASSUME Banks!BanksAssumption, BankIInv, NEW s \in BankSlots, NEW pads \in SUBSET Pads, Banks!PublishBankStopped(s, pads)
  PROVE  BankIInv'
PROOF
<1> DEFINE n == [state |-> "current", gen |-> bankGens + 1, pads |-> pads]
<1>1. bankSlots[s].state = "empty" /\ s \in Banks!AllSlots /\ ~bankRunning /\ s # 0 /\ bankCurrent \in Banks!AllSlots \cup {0}
  BY SlotNames DEF Banks!PublishBankStopped, Banks!FreeSlot, BankIInv, BankTypes
<1>2. /\ bankSlots' = [Banks!Retired(bankSlots, bankCurrent) EXCEPT ![s] = n] /\ bankCurrent' = s /\ bankGens' = bankGens + 1
      /\ UNCHANGED <<legacy, audition, pending, bankPublished, auditions, inputs, queue, voices, bankAudio, bankRunning>>
  BY DEF Banks!PublishBankStopped
<1>3. n \in SlotType /\ n.state = "current"
  BY DEF BankIInv, BankTypes, SlotType
<1> HIDE DEF n
<1>4. /\ bankSlots' \in [Banks!AllSlots -> SlotType] /\ bankSlots'[s].state = "current"
      /\ \A t \in Banks!AllSlots : t \notin {s, bankCurrent} => bankSlots'[t] = bankSlots[t]
      /\ bankCurrent # 0 /\ bankCurrent # s => bankSlots'[bankCurrent].state = IF Banks!Uses(voices, bankCurrent) THEN "retiring" ELSE "reclaimable"
  BY <1>1, <1>2, <1>3, RetiredFacts DEF BankIInv
<1>5. BankTypes'
  BY <1>2, <1>4 DEF BankIInv, BankTypes
<1>6. bankPublished = <<>> /\ queue = <<>> /\ Banks!At("idle") /\ \A t : ~Banks!Uses(voices, t)
  BY <1>1, NoVoice DEF BankIInv, Stopped, Banks!Uses
<1>7. bankCurrent # s /\ audition # s /\ (audition # 0 => audition # bankCurrent)
  BY <1>1, SlotNames DEF BankIInv, Banks!VoicesReadLive, BankTypes
<1>8. Announced'
  <2>1. \A i \in 1 .. Len(auditions) : auditions[i] \in Banks!AllSlots /\ auditions[i] \notin {s, bankCurrent}
    BY <1>1, QueueFacts, SlotNames DEF BankIInv, Announced, Waiting, Banks!VoicesReadLive
  <2>2. Waiting(auditions)'
    BY <1>2, <1>4, <2>1 DEF BankIInv, Announced, Waiting
  <2>3. Waiting(bankPublished)'
    BY <1>2, <1>6, EmptySeq DEF Waiting
  <2> QED
    BY <2>2, <2>3 DEF Announced
<1>9. Counted' /\ Stopped'
  BY <1>2 DEF BankIInv, Counted, Stopped, Banks!At
<1>10. Admitted'
  BY <1>2, <1>6, EmptySeq DEF Admitted, Banks!At
<1>11. Banks!VoicesReadLive'
  <2>1. \A t \in Banks!AllSlots : ~Banks!Uses(voices', t) /\ bankSlots'[t].state # "retiring"
    <3>1. \A t \in Banks!AllSlots : ~Banks!Uses(voices, t) /\ bankSlots[t].state # "retiring"
      BY <1>6 DEF BankIInv, Banks!VoicesReadLive
    <3>2. \A t \in Banks!AllSlots : ~Banks!Uses(voices', t)
      <4>1. \A v \in Voices : voices'[v] = <<>>
        BY <1>1, <1>2 DEF BankIInv, Stopped
      <4> QED
        BY <4>1, NoVoice DEF Banks!Uses
    <3>3. \A t \in Banks!AllSlots : bankSlots'[t].state # "retiring"
      BY <1>1, <1>4, <1>6, <3>1, SlotNames
    <3> QED
      BY <3>2, <3>3
  <2>2. audition # 0 => audition \in Banks!AllSlots
    BY SlotNames DEF BankIInv, BankTypes
  <2> QED
    BY <1>1, <1>2, <1>4, <1>7, <2>1, <2>2 DEF BankIInv, Banks!VoicesReadLive
<1> QED
  BY <1>5, <1>8, <1>9, <1>10, <1>11 DEF BankIInv

(* What is pushed to the input queue beside presses.                           *)
LEMMA EnqueueFacts ==
  ASSUME BankIInv, NEW e \in EventType, Banks!Enqueue(e), e.kind # "press"
  PROVE  /\ queue' \in Seq(EventType) /\ inputs' = Len(queue') /\ inputs' \in Nat
         /\ \A i \in 1 .. Len(queue') : queue'[i].kind = "press" => i \in 1 .. Len(queue) /\ queue'[i] = queue[i]
PROOF
<1>1. CASE queue' = queue /\ inputs' = inputs
  BY <1>1 DEF BankIInv, BankTypes, Counted
<1>2. CASE queue' = Append(queue, e) /\ inputs' = inputs + 1
  <2>1. /\ queue' \in Seq(EventType) /\ Len(queue') = Len(queue) + 1 /\ queue'[Len(queue) + 1] = e
        /\ \A i \in 1 .. Len(queue) : queue'[i] = queue[i]
    BY <1>2, AppendProperties DEF BankIInv, BankTypes
  <2>2. Len(queue) \in Nat
    BY QueueFacts DEF BankIInv
  <2> QED
    BY <1>2, <2>1, <2>2 DEF BankIInv, BankTypes, Counted
<1> QED
  BY <1>1, <1>2 DEF Banks!Enqueue

LEMMA AuditionEvent ==
  ASSUME NEW g \in Nat, NEW e, e = [kind |-> "audition", pad |-> Banks!NoEvent.pad, gen |-> g]
  PROVE  e \in EventType /\ e.kind # "press"
PROOF
<1>1. e = [kind |-> "audition", pad |-> NoPad, gen |-> g]
  BY NoEventFacts
<1> QED
  BY <1>1 DEF EventType

LEMMA AuditionKeeps ==
  ASSUME Banks!BanksAssumption, BankIInv, NEW s \in AuditionSlots, Banks!Audition(s)
  PROVE  BankIInv'
PROOF
<1>1. bankSlots[s].state = "empty" /\ s \in Banks!AllSlots /\ s # 0 /\ audition \in Banks!AllSlots \cup {0} /\ s \notin {bankCurrent, audition}
  BY SlotNames DEF Banks!Audition, Banks!FreeSlot, BankIInv, BankTypes, Banks!VoicesReadLive
<1>2. /\ bankGens' = bankGens + 1 /\ UNCHANGED <<legacy, bankCurrent, pending, bankPublished, voices, bankAudio, bankRunning>>
  BY DEF Banks!Audition
<1>3. \A i \in 1 .. Len(auditions) : auditions[i] \in Banks!AllSlots /\ auditions[i] \notin {s, audition}
  BY <1>1, QueueFacts, SlotNames DEF BankIInv, Announced, Waiting, Banks!VoicesReadLive
<1>4. \A i \in 1 .. Len(bankPublished) : bankPublished[i] \in Banks!AllSlots /\ bankPublished[i] \notin {s, audition}
  BY <1>1, QueueFacts, SlotNames DEF BankIInv, Announced, Waiting, Banks!VoicesReadLive
<1>5. bankCurrent # 0 => bankCurrent \in Banks!AllSlots /\ bankCurrent \notin {s, audition}
  BY <1>1, SlotNames DEF BankIInv, BankTypes
<1>6. CASE bankRunning
  <2> DEFINE n == [state |-> "pending", gen |-> bankGens + 1, pads |-> {}]
             e == [kind |-> "audition", pad |-> Banks!NoEvent.pad, gen |-> bankGens + 1]
  <2>1. bankSlots' = [bankSlots EXCEPT ![s] = n] /\ auditions' = Append(auditions, s) /\ audition' = audition /\ Banks!Enqueue(e)
    BY <1>6 DEF Banks!Audition, Banks!Filled
  <2>2. n \in SlotType /\ n.state = "pending"
    BY DEF BankIInv, BankTypes, SlotType
  <2>3. e \in EventType /\ e.kind # "press"
    <3>1. bankGens + 1 \in Nat
      BY DEF BankIInv, BankTypes
    <3> QED
      BY <3>1, AuditionEvent
  <2> HIDE DEF n, e
  <2>4. /\ bankSlots' \in [Banks!AllSlots -> SlotType] /\ bankSlots'[s].state = "pending"
        /\ \A t \in Banks!AllSlots : t # s => bankSlots'[t] = bankSlots[t]
    BY <1>1, <2>1, <2>2 DEF BankIInv, BankTypes
  <2>5. /\ auditions' \in Seq(AuditionSlots) /\ Len(auditions') = Len(auditions) + 1
        /\ auditions'[Len(auditions) + 1] = s /\ \A i \in 1 .. Len(auditions) : auditions'[i] = auditions[i]
    BY <2>1, AppendProperties DEF BankIInv, BankTypes
  <2>6. /\ queue' \in Seq(EventType) /\ inputs' = Len(queue') /\ inputs' \in Nat
        /\ \A i \in 1 .. Len(queue') : queue'[i].kind = "press" => i \in 1 .. Len(queue) /\ queue'[i] = queue[i]
    BY <2>1, <2>3, EnqueueFacts
  <2>7. BankTypes'
    BY <1>2, <2>1, <2>4, <2>5, <2>6 DEF BankIInv, BankTypes
  <2>8. Announced'
    <3>1. Len(auditions) \in Nat
      BY QueueFacts DEF BankIInv
    <3>2. Waiting(auditions)'
      BY <1>3, <2>4, <2>5, <3>1 DEF BankIInv, Announced, Waiting
    <3>3. Waiting(bankPublished)'
      BY <1>2, <1>4, <2>4 DEF BankIInv, Announced, Waiting
    <3> QED
      BY <3>2, <3>3 DEF Announced
  <2>9. Counted' /\ Stopped'
    BY <1>2, <1>6, <2>6 DEF BankIInv, Counted, Stopped, Banks!At
  <2>10. Banks!CurrentGen' = Banks!CurrentGen /\ Banks!Available' = Banks!Available
    BY <1>2, <1>5, <2>4, StillValid DEF BankIInv
  <2>11. Admitted'
    BY <1>2, <2>6, <2>10 DEF BankIInv, Admitted, Valid, Banks!At
  <2>12. Banks!VoicesReadLive'
    BY <1>1, <1>2, <1>5, <2>1, <2>4 DEF BankIInv, Banks!VoicesReadLive, Banks!Uses
  <2> QED
    BY <2>7, <2>8, <2>9, <2>11, <2>12 DEF BankIInv
<1>7. CASE ~bankRunning
  <2> DEFINE n == [state |-> "current", gen |-> bankGens + 1, pads |-> {}]
  <2>1. /\ bankSlots' = [Banks!Retired(bankSlots, audition) EXCEPT ![s] = n] /\ audition' = s
        /\ UNCHANGED <<auditions, queue, inputs>>
    BY <1>7 DEF Banks!Audition
  <2>2. n \in SlotType /\ n.state = "current"
    BY DEF BankIInv, BankTypes, SlotType
  <2> HIDE DEF n
  <2>3. /\ bankSlots' \in [Banks!AllSlots -> SlotType] /\ bankSlots'[s].state = "current"
        /\ \A t \in Banks!AllSlots : t \notin {s, audition} => bankSlots'[t] = bankSlots[t]
        /\ audition # 0 => bankSlots'[audition].state = IF Banks!Uses(voices, audition) THEN "retiring" ELSE "reclaimable"
    BY <1>1, <2>1, <2>2, RetiredFacts DEF BankIInv
  <2>4. BankTypes'
    BY <1>2, <2>1, <2>3 DEF BankIInv, BankTypes
  <2>5. bankPublished = <<>> /\ queue = <<>> /\ Banks!At("idle") /\ \A t : ~Banks!Uses(voices, t)
    BY <1>7, NoVoice DEF BankIInv, Stopped, Banks!Uses
  <2>6. Announced'
    BY <1>2, <1>3, <1>4, <2>1, <2>3 DEF BankIInv, Announced, Waiting
  <2>7. Counted' /\ Stopped'
    BY <1>2, <2>1 DEF BankIInv, Counted, Stopped, Banks!At
  <2>8. Admitted'
    BY <1>2, <2>1, <2>5, EmptySeq DEF Admitted, Banks!At
  <2>9. Banks!VoicesReadLive'
    <3>1. \A t \in Banks!AllSlots : ~Banks!Uses(voices', t) /\ bankSlots'[t].state # "retiring"
      <4>1. \A t \in Banks!AllSlots : ~Banks!Uses(voices, t) /\ bankSlots[t].state # "retiring"
        BY <2>5 DEF BankIInv, Banks!VoicesReadLive
      <4>2. \A t \in Banks!AllSlots : ~Banks!Uses(voices', t)
        <5>1. \A v \in Voices : voices'[v] = <<>>
          BY <1>2, <1>7 DEF BankIInv, Stopped
        <5> QED
          BY <5>1, NoVoice DEF Banks!Uses
      <4>3. \A t \in Banks!AllSlots : bankSlots'[t].state # "retiring"
        BY <1>1, <2>3, <2>5, <4>1, SlotNames
      <4> QED
        BY <4>2, <4>3
    <3> QED
      BY <1>1, <1>2, <1>5, <2>1, <2>3, <3>1 DEF BankIInv, Banks!VoicesReadLive
  <2> QED
    BY <2>4, <2>6, <2>7, <2>8, <2>9 DEF BankIInv
<1> QED
  BY <1>6, <1>7

LEMMA PressKeeps ==
  ASSUME Banks!BanksAssumption, BankIInv, NEW p \in Pads, Banks!Press(p)
  PROVE  BankIInv'
PROOF
<1> DEFINE e == [kind |-> "press", pad |-> p, gen |-> Banks!CurrentGen]
<1>1. /\ bankRunning /\ pending = 0 /\ p \in Banks!Available /\ queue' = Append(queue, e) /\ inputs' = inputs + 1
      /\ UNCHANGED <<bankSlots, legacy, bankCurrent, audition, pending, bankPublished, auditions, voices, bankAudio, bankRunning, bankGens>>
  BY DEF Banks!Press, Banks!Admits
<1>2. Banks!CurrentGen \in Nat
  BY SlotNames DEF BankIInv, BankTypes, Banks!CurrentGen, SlotType
<1>3. e \in EventType /\ Valid(e)
  BY <1>1, <1>2 DEF EventType, Valid
<1> HIDE DEF e
<1>4. /\ queue' \in Seq(EventType) /\ Len(queue') = Len(queue) + 1 /\ queue'[Len(queue) + 1] = e
      /\ \A i \in 1 .. Len(queue) : queue'[i] = queue[i]
  BY <1>1, <1>3, AppendProperties DEF BankIInv, BankTypes
<1>5. Len(queue) \in Nat
  BY QueueFacts DEF BankIInv
<1>6. BankTypes'
  BY <1>1, <1>4 DEF BankIInv, BankTypes
<1>7. Announced' /\ Counted' /\ Stopped' /\ Banks!VoicesReadLive'
  BY <1>1, <1>4 DEF BankIInv, Announced, Waiting, Counted, Stopped, Banks!VoicesReadLive, Banks!At
<1>8. Banks!CurrentGen' = Banks!CurrentGen /\ Banks!Available' = Banks!Available
  BY <1>1 DEF Banks!CurrentGen, Banks!Available
<1>9. Admitted'
  <2>1. \A i \in 1 .. Len(queue') : i = Len(queue) + 1 \/ i \in 1 .. Len(queue)
    BY <1>4, <1>5
  <2> QED
    BY <1>1, <1>3, <1>4, <1>8, <2>1 DEF BankIInv, Admitted, Valid, Banks!At
<1> QED
  BY <1>6, <1>7, <1>9 DEF BankIInv

LEMMA BankReclaimKeeps ==
  ASSUME Banks!BanksAssumption, BankIInv, Banks!Reclaim
  PROVE  BankIInv'
PROOF
<1>1. /\ bankSlots' = [s \in Banks!AllSlots |-> IF bankSlots[s].state = "reclaimable" THEN Banks!Empty ELSE bankSlots[s]]
      /\ UNCHANGED <<legacy, bankCurrent, audition, pending, bankPublished, auditions, inputs, queue, voices, bankAudio, bankRunning, bankGens>>
  BY DEF Banks!Reclaim
<1>2. Banks!Empty \in SlotType /\ Banks!Empty.state = "empty"
  BY DEF Banks!Empty, SlotType
<1>3. /\ bankSlots' \in [Banks!AllSlots -> SlotType]
      /\ \A s \in Banks!AllSlots : bankSlots[s].state # "reclaimable" => bankSlots'[s] = bankSlots[s]
      /\ \A s \in Banks!AllSlots : bankSlots'[s].state # "reclaimable" /\ (bankSlots[s].state = "reclaimable" => bankSlots'[s].state = "empty")
  BY <1>1, <1>2 DEF BankIInv, BankTypes
<1>4. BankTypes'
  BY <1>1, <1>3 DEF BankIInv, BankTypes
<1>5. Announced'
  <2>1. /\ \A i \in 1 .. Len(bankPublished) : bankPublished[i] \in Banks!AllSlots
        /\ \A i \in 1 .. Len(auditions) : auditions[i] \in Banks!AllSlots
    BY QueueFacts, SlotNames DEF BankIInv
  <2> QED
    BY <1>1, <1>3, <2>1 DEF BankIInv, Announced, Waiting
<1>6. Counted' /\ Stopped'
  BY <1>1 DEF BankIInv, Counted, Stopped, Banks!At
<1>7. (bankCurrent # 0 => bankCurrent \in Banks!AllSlots) /\ (audition # 0 => audition \in Banks!AllSlots)
  BY SlotNames DEF BankIInv, BankTypes
<1>8. Banks!CurrentGen' = Banks!CurrentGen /\ Banks!Available' = Banks!Available
  BY <1>1, <1>3, <1>7, StillValid DEF BankIInv, Banks!VoicesReadLive
<1>9. Admitted'
  BY <1>1, <1>8 DEF BankIInv, Admitted, Valid, Banks!At
<1>10. Banks!VoicesReadLive'
  BY <1>1, <1>3, <1>7 DEF BankIInv, Banks!VoicesReadLive, Banks!Uses
<1> QED
  BY <1>4, <1>5, <1>6, <1>9, <1>10 DEF BankIInv

LEMMA StartEngineKeeps ==
  ASSUME Banks!BanksAssumption, BankIInv, Banks!StartEngine
  PROVE  BankIInv'
PROOF
<1>1. /\ bankRunning' = TRUE
      /\ UNCHANGED <<bankSlots, legacy, bankCurrent, audition, pending, bankPublished, auditions, inputs, queue, voices, bankAudio, bankGens>>
  BY DEF Banks!StartEngine
<1>2. BankTypes' /\ Announced' /\ Counted' /\ Stopped' /\ Banks!VoicesReadLive'
  BY <1>1 DEF BankIInv, BankTypes, Announced, Waiting, Counted, Stopped, Banks!VoicesReadLive, Banks!At
<1>3. Banks!CurrentGen' = Banks!CurrentGen /\ Banks!Available' = Banks!Available
  BY <1>1 DEF Banks!CurrentGen, Banks!Available
<1>4. Admitted'
  BY <1>1, <1>3 DEF BankIInv, Admitted, Valid, Banks!At
<1> QED
  BY <1>2, <1>4 DEF BankIInv

(* stop() takes back what audio has not applied, and every voice ends.         *)
LEMMA StopEngineKeeps ==
  ASSUME Banks!BanksAssumption, BankIInv, Banks!StopEngine
  PROVE  BankIInv'
PROOF
<1> DEFINE quiet == Banks!Silenced(voices', bankSlots)
<1>1. /\ Banks!At("idle") /\ bankRunning' = FALSE /\ queue' = <<>> /\ inputs' = 0 /\ voices' = [v \in Voices |-> <<>>]
      /\ bankPublished' = <<>> /\ pending' = 0 /\ UNCHANGED <<legacy, bankCurrent, audition, auditions, bankAudio, bankGens>>
  BY DEF Banks!StopEngine, Banks!At
<1>0. bankSlots' = [s \in Banks!AllSlots |-> IF Banks!Contains(bankPublished, s) THEN [quiet[s] EXCEPT !.state = "reclaimable"] ELSE quiet[s]]
  BY DEF Banks!StopEngine
<1>2. \A s : Banks!Contains(bankPublished, s) <=> \E i \in 1 .. Len(bankPublished) : bankPublished[i] = s
  BY DEF Banks!Contains
<1>3. \A t : ~Banks!Uses(voices', t)
  BY <1>1, NoVoice DEF Banks!Uses
<1>4. /\ quiet \in [Banks!AllSlots -> SlotType]
      /\ \A s \in Banks!AllSlots : /\ bankSlots[s].state = "retiring" => quiet[s].state = "reclaimable"
                                   /\ bankSlots[s].state # "retiring" => quiet[s] = bankSlots[s]
  BY <1>3, SilencedFacts DEF BankIInv
<1> HIDE DEF quiet
<1>5. \A s \in Banks!AllSlots : Banks!Contains(bankPublished, s) => bankSlots[s].state = "pending" /\ s \in BankSlots
  BY <1>2, QueueFacts DEF BankIInv, Announced, Waiting
<1>6. /\ bankSlots' \in [Banks!AllSlots -> SlotType]
      /\ \A s \in Banks!AllSlots : bankSlots[s].state = "current" => bankSlots'[s] = bankSlots[s]
      /\ \A s \in Banks!AllSlots : bankSlots[s].state = "pending" /\ s \notin BankSlots => bankSlots'[s] = bankSlots[s]
      /\ \A s \in Banks!AllSlots : bankSlots'[s].state # "retiring"
  BY <1>0, <1>4, <1>5 DEF SlotType
<1>7. /\ <<>> \in Seq(BankSlots) /\ <<>> \in Seq(EventType) /\ Len(<<>>) = 0
  BY EmptySeq
<1>8. BankTypes'
  BY <1>1, <1>6, <1>7 DEF BankIInv, BankTypes
<1>9. Announced'
  <2>1. \A i \in 1 .. Len(auditions) : auditions[i] \in Banks!AllSlots /\ auditions[i] \notin BankSlots
    BY QueueFacts, SlotNames DEF BankIInv
  <2> QED
    <3>1. Waiting(auditions)'
      BY <1>1, <1>6, <2>1 DEF BankIInv, Announced, Waiting
    <3>2. Waiting(bankPublished)'
      BY <1>1, <1>7 DEF Waiting
    <3> QED
      BY <3>1, <3>2 DEF Announced
<1>10. Counted' /\ Stopped' /\ Admitted'
  BY <1>1, <1>7 DEF Counted, Stopped, Admitted, Banks!At
<1>11. Banks!VoicesReadLive'
  <2>1. (bankCurrent # 0 => bankCurrent \in Banks!AllSlots) /\ (audition # 0 => audition \in Banks!AllSlots)
    BY SlotNames DEF BankIInv, BankTypes
  <2> QED
    BY <1>1, <1>3, <1>6, <2>1 DEF BankIInv, Banks!VoicesReadLive
<1> QED
  BY <1>8, <1>9, <1>10, <1>11 DEF BankIInv

LEMMA LoadSamplesKeeps ==
  ASSUME Banks!BanksAssumption, BankIInv, NEW pads \in SUBSET Pads, Banks!LoadSamples(pads)
  PROVE  BankIInv'
PROOF
<1>1. /\ ~bankRunning /\ legacy' = pads /\ bankSlots' = Banks!Retired(bankSlots, bankCurrent) /\ bankCurrent' = 0
      /\ UNCHANGED <<audition, pending, bankPublished, auditions, inputs, queue, voices, bankAudio, bankRunning, bankGens>>
  BY DEF Banks!LoadSamples
<1>2. bankCurrent \in Banks!AllSlots \cup {0}
  BY SlotNames DEF BankIInv, BankTypes
<1>3. /\ bankSlots' \in [Banks!AllSlots -> SlotType]
      /\ \A t \in Banks!AllSlots : t # bankCurrent => bankSlots'[t] = bankSlots[t]
      /\ bankCurrent # 0 => bankSlots'[bankCurrent].state = IF Banks!Uses(voices, bankCurrent) THEN "retiring" ELSE "reclaimable"
  BY <1>1, <1>2, RetiredFacts DEF BankIInv
<1>4. BankTypes'
  BY <1>1, <1>3 DEF BankIInv, BankTypes
<1>5. bankPublished = <<>> /\ queue = <<>> /\ Banks!At("idle") /\ \A t : ~Banks!Uses(voices, t)
  BY <1>1, NoVoice DEF BankIInv, Stopped, Banks!Uses
<1>6. Announced'
  <2>1. \A i \in 1 .. Len(auditions) : auditions[i] \in Banks!AllSlots /\ auditions[i] # bankCurrent
    BY <1>2, QueueFacts, SlotNames DEF BankIInv, BankTypes
  <2> QED
    BY <1>1, <1>3, <1>5, <2>1, EmptySeq DEF BankIInv, Announced, Waiting
<1>7. Counted' /\ Stopped'
  BY <1>1 DEF BankIInv, Counted, Stopped, Banks!At
<1>8. Admitted'
  BY <1>1, <1>5, EmptySeq DEF Admitted, Banks!At
<1>9. Banks!VoicesReadLive'
  <2>1. \A t \in Banks!AllSlots : ~Banks!Uses(voices, t) /\ bankSlots[t].state # "retiring"
    BY <1>5 DEF BankIInv, Banks!VoicesReadLive
  <2>2. audition # 0 => audition \in Banks!AllSlots /\ audition # bankCurrent
    BY SlotNames DEF BankIInv, BankTypes
  <2>3. \A t \in Banks!AllSlots : ~Banks!Uses(voices', t) /\ bankSlots'[t].state # "retiring"
    <3>1. \A t \in Banks!AllSlots : ~Banks!Uses(voices', t)
      <4>1. \A v \in Voices : voices'[v] = <<>>
        BY <1>1 DEF BankIInv, Stopped
      <4> QED
        BY <4>1, NoVoice DEF Banks!Uses
    <3>2. \A t \in Banks!AllSlots : bankSlots'[t].state # "retiring"
      BY <1>2, <1>3, <1>5, <2>1, SlotNames
    <3> QED
      BY <3>1, <3>2
  <2> QED
    BY <1>1, <1>3, <2>2, <2>3 DEF BankIInv, Banks!VoicesReadLive
<1> QED
  BY <1>4, <1>6, <1>7, <1>8, <1>9 DEF BankIInv

-------------------------------------------------------------------------------
(* The callback. What it applies was announced, so it is neither what it       *)
(* replaces nor what a voice reads.                                            *)
LEMMA BankCallbackKeeps ==
  ASSUME Banks!BanksAssumption, BankIInv, Banks!Callback
  PROVE  BankIInv'
PROOF
<1>1. /\ bankRunning /\ bankAudio.pc = "idle" /\ bankAudio' = [bankAudio EXCEPT !.pc = "banks"]
      /\ UNCHANGED <<bankSlots, legacy, bankCurrent, audition, pending, bankPublished, auditions, inputs, queue, voices, bankRunning, bankGens>>
  BY DEF Banks!Callback, Banks!At, Banks!Go
<1>2. /\ bankAudio'.pc = "banks" /\ bankAudio' \in [pc : {"idle", "banks", "applied", "input", "press", "audition"}, event : EventType]
  BY <1>1 DEF BankIInv, BankTypes
<1>3. BankTypes'
  BY <1>1, <1>2 DEF BankIInv, BankTypes
<1>4. Announced' /\ Counted' /\ Stopped' /\ Banks!VoicesReadLive'
  BY <1>1, <1>2 DEF BankIInv, Announced, Waiting, Counted, Stopped, Banks!VoicesReadLive, Banks!At
<1>5. Banks!CurrentGen' = Banks!CurrentGen /\ Banks!Available' = Banks!Available
  BY <1>1 DEF Banks!CurrentGen, Banks!Available
<1>6. Admitted'
  BY <1>1, <1>2, <1>5 DEF BankIInv, Admitted, Valid, Banks!At
<1> QED
  BY <1>3, <1>4, <1>6 DEF BankIInv

LEMMA ApplyBankKeeps ==
  ASSUME Banks!BanksAssumption, BankIInv, Banks!ApplyBank
  PROVE  BankIInv'
PROOF
<1> DEFINE s == Head(bankPublished)
<1>1. /\ bankAudio.pc = "banks" /\ bankPublished # <<>> /\ bankSlots' = [Banks!Retired(bankSlots, bankCurrent) EXCEPT ![s] = [@ EXCEPT !.state = "current"]]
      /\ bankCurrent' = s /\ bankPublished' = Tail(bankPublished) /\ bankAudio' = [bankAudio EXCEPT !.pc = "applied"]
      /\ UNCHANGED <<legacy, audition, pending, auditions, inputs, queue, voices, bankRunning, bankGens>>
  BY DEF Banks!ApplyBank, Banks!AppliedBank, Banks!At, Banks!Go
<1>2. /\ bankAudio'.pc = "applied" /\ bankAudio' \in [pc : {"idle", "banks", "applied", "input", "press", "audition"}, event : EventType]
  BY <1>1 DEF BankIInv, BankTypes
<1>3. /\ Len(bankPublished) \in Nat /\ Len(bankPublished) > 0 /\ bankPublished[1] = s
  BY <1>1, QueueFacts, HeadTailProperties DEF BankIInv, BankTypes
<1>4. /\ bankPublished' \in Seq(BankSlots) /\ Len(bankPublished') = Len(bankPublished) - 1
      /\ \A i \in 1 .. Len(bankPublished') : bankPublished'[i] = bankPublished[i + 1]
  BY <1>1, HeadTailProperties DEF BankIInv, BankTypes
<1>5. s \in BankSlots /\ s \in Banks!AllSlots /\ s # 0 /\ bankSlots[s].state = "pending"
  BY <1>3, QueueFacts, SlotNames DEF BankIInv, Announced, Waiting
<1> HIDE DEF s
<1>6. bankCurrent \in Banks!AllSlots \cup {0} /\ s # bankCurrent /\ s # audition /\ (audition # 0 => audition # bankCurrent /\ audition \in Banks!AllSlots)
  BY <1>5, SlotNames DEF BankIInv, BankTypes, Banks!VoicesReadLive
<1>7. /\ bankSlots' \in [Banks!AllSlots -> SlotType] /\ bankSlots'[s].state = "current"
      /\ \A t \in Banks!AllSlots : t \notin {s, bankCurrent} => bankSlots'[t] = bankSlots[t]
      /\ bankCurrent # 0 => bankSlots'[bankCurrent].state = IF Banks!Uses(voices, bankCurrent) THEN "retiring" ELSE "reclaimable"
  <2> DEFINE R == Banks!Retired(bankSlots, bankCurrent)
             n == [R[s] EXCEPT !.state = "current"]
  <2>1. /\ R \in [Banks!AllSlots -> SlotType]
        /\ \A t \in Banks!AllSlots : t # bankCurrent => R[t] = bankSlots[t]
        /\ bankCurrent # 0 => R[bankCurrent].state = IF Banks!Uses(voices, bankCurrent) THEN "retiring" ELSE "reclaimable"
    BY <1>6, RetiredFacts DEF BankIInv
  <2>2. bankSlots' = [R EXCEPT ![s] = n]
    BY <1>1
  <2>3. R[s] \in SlotType
    BY <1>1, <1>5, <1>6, <2>1
  <2>4. n \in SlotType /\ n.state = "current"
    BY <2>3 DEF SlotType
  <2> HIDE DEF R, n
  <2> QED
    BY <1>5, <1>6, <2>1, <2>2, <2>4
<1>8. BankTypes'
  BY <1>1, <1>2, <1>4, <1>5, <1>7 DEF BankIInv, BankTypes
<1>9. Announced'
  <2>1. \A i \in 1 .. Len(auditions) : auditions[i] \in Banks!AllSlots /\ auditions[i] \notin {s, bankCurrent}
    BY <1>5, QueueFacts, SlotNames DEF BankIInv, Announced, Waiting, Banks!VoicesReadLive
  <2>2. Waiting(auditions)'
    BY <1>1, <1>7, <2>1 DEF BankIInv, Announced, Waiting
  <2>3. \A i \in 1 .. Len(bankPublished) : bankPublished[i] \in Banks!AllSlots /\ bankPublished[i] # bankCurrent /\ (i # 1 => bankPublished[i] # s)
    BY <1>3, QueueFacts, SlotNames DEF BankIInv, Announced, Waiting, Banks!VoicesReadLive
  <2>4. \A i \in 1 .. Len(bankPublished') : i + 1 \in 1 .. Len(bankPublished) /\ i + 1 # 1 /\ bankPublished'[i] = bankPublished[i + 1]
    BY <1>3, <1>4
  <2>5. \A i \in 1 .. Len(bankPublished') : bankSlots'[bankPublished'[i]] = bankSlots[bankPublished[i + 1]]
    BY <1>7, <2>3, <2>4
  <2>6. \A i, j \in 1 .. Len(bankPublished') : bankPublished'[i] = bankPublished'[j] => i = j
    <3> SUFFICES ASSUME NEW i \in 1 .. Len(bankPublished'), NEW j \in 1 .. Len(bankPublished'), bankPublished'[i] = bankPublished'[j]
                 PROVE  i = j
      OBVIOUS
    <3>0. bankPublished[i + 1] = bankPublished[j + 1] /\ i + 1 \in 1 .. Len(bankPublished) /\ j + 1 \in 1 .. Len(bankPublished)
      BY <2>4
    <3>2. \A a, b \in 1 .. Len(bankPublished) : bankPublished[a] = bankPublished[b] => a = b
      BY DEF BankIInv, Announced, Waiting
    <3>1. i + 1 = j + 1
      BY <3>0, <3>2
    <3> QED
      BY <3>1
  <2>7. Waiting(bankPublished)'
    BY <2>4, <2>5, <2>6 DEF BankIInv, Announced, Waiting
  <2> QED
    BY <2>2, <2>7 DEF Announced
<1>10. Counted' /\ Stopped'
  BY <1>1, <1>2, <1>3, <1>4 DEF BankIInv, BankTypes, Counted, Stopped, Banks!At
<1>11. Admitted'
  <2>1. pending # 0
    BY <1>1, <1>3 DEF BankIInv, Counted, Banks!At
  <2> QED
    BY <1>1, <1>2, <2>1 DEF BankIInv, Admitted, Banks!At
<1>12. Banks!VoicesReadLive'
  <2>1. ~Banks!Uses(voices, s)
    BY <1>5 DEF BankIInv, Banks!VoicesReadLive
  <2>2. \A t : Banks!Uses(voices', t) <=> Banks!Uses(voices, t)
    BY <1>1 DEF Banks!Uses
  <2>3. \A t \in Banks!AllSlots : /\ Banks!Uses(voices, t) => bankSlots'[t].state \in {"current", "retiring"}
                                  /\ bankSlots'[t].state = "retiring" => Banks!Uses(voices, t)
    BY <1>5, <1>6, <1>7, <2>1, SlotNames DEF BankIInv, Banks!VoicesReadLive
  <2> QED
    BY <1>1, <1>5, <1>6, <1>7, <2>2, <2>3 DEF BankIInv, Banks!VoicesReadLive
<1> QED
  BY <1>8, <1>9, <1>10, <1>11, <1>12 DEF BankIInv

LEMMA AppliedPendingKeeps ==
  ASSUME Banks!BanksAssumption, BankIInv, Banks!AppliedPending
  PROVE  BankIInv'
PROOF
<1>1. /\ bankAudio.pc = "applied" /\ pending' = pending - 1 /\ bankAudio' = [bankAudio EXCEPT !.pc = "banks"]
      /\ UNCHANGED <<bankSlots, legacy, bankCurrent, audition, bankPublished, auditions, inputs, queue, voices, bankRunning, bankGens>>
  BY DEF Banks!AppliedPending, Banks!At, Banks!Go
<1>2. /\ bankAudio'.pc = "banks" /\ bankAudio' \in [pc : {"idle", "banks", "applied", "input", "press", "audition"}, event : EventType]
  BY <1>1 DEF BankIInv, BankTypes
<1>3. Len(bankPublished) \in Nat /\ pending = Len(bankPublished) + 1 /\ pending' = Len(bankPublished)
  BY <1>1, QueueFacts DEF BankIInv, Counted, Banks!At
<1>4. BankTypes'
  BY <1>1, <1>2, <1>3 DEF BankIInv, BankTypes
<1>5. Announced' /\ Counted' /\ Stopped' /\ Banks!VoicesReadLive'
  BY <1>1, <1>2, <1>3 DEF BankIInv, Announced, Waiting, Counted, Stopped, Banks!VoicesReadLive, Banks!At
<1>6. Admitted'
  BY <1>1, <1>2, <1>3 DEF BankIInv, Admitted, Banks!At
<1> QED
  BY <1>4, <1>5, <1>6 DEF BankIInv

LEMMA ApplyAuditionKeeps ==
  ASSUME Banks!BanksAssumption, BankIInv, Banks!ApplyAudition
  PROVE  BankIInv'
PROOF
<1> DEFINE s == Head(auditions)
<1>1. /\ auditions # <<>> /\ bankSlots' = [Banks!Retired(bankSlots, audition) EXCEPT ![s] = [@ EXCEPT !.state = "current"]]
      /\ audition' = s /\ auditions' = Tail(auditions)
      /\ UNCHANGED <<legacy, bankCurrent, pending, bankPublished, inputs, queue, voices, bankAudio, bankRunning, bankGens>>
  BY DEF Banks!ApplyAudition, Banks!AppliedAudition
<1>2. /\ Len(auditions) \in Nat /\ Len(auditions) > 0 /\ auditions[1] = s
  BY <1>1, QueueFacts, HeadTailProperties DEF BankIInv, BankTypes
<1>3. /\ auditions' \in Seq(AuditionSlots) /\ Len(auditions') = Len(auditions) - 1
      /\ \A i \in 1 .. Len(auditions') : auditions'[i] = auditions[i + 1]
  BY <1>1, HeadTailProperties DEF BankIInv, BankTypes
<1>4. s \in AuditionSlots /\ s \in Banks!AllSlots /\ s # 0 /\ bankSlots[s].state = "pending"
  BY <1>2, QueueFacts, SlotNames DEF BankIInv, Announced, Waiting
<1> HIDE DEF s
<1>5. audition \in Banks!AllSlots \cup {0} /\ s # bankCurrent /\ s # audition /\ (bankCurrent # 0 => bankCurrent # audition /\ bankCurrent \in Banks!AllSlots)
  BY <1>4, SlotNames DEF BankIInv, BankTypes, Banks!VoicesReadLive
<1>6. /\ bankSlots' \in [Banks!AllSlots -> SlotType] /\ bankSlots'[s].state = "current"
      /\ \A t \in Banks!AllSlots : t \notin {s, audition} => bankSlots'[t] = bankSlots[t]
      /\ audition # 0 => bankSlots'[audition].state = IF Banks!Uses(voices, audition) THEN "retiring" ELSE "reclaimable"
  <2> DEFINE R == Banks!Retired(bankSlots, audition)
             n == [R[s] EXCEPT !.state = "current"]
  <2>1. /\ R \in [Banks!AllSlots -> SlotType]
        /\ \A t \in Banks!AllSlots : t # audition => R[t] = bankSlots[t]
        /\ audition # 0 => R[audition].state = IF Banks!Uses(voices, audition) THEN "retiring" ELSE "reclaimable"
    BY <1>5, RetiredFacts DEF BankIInv
  <2>2. bankSlots' = [R EXCEPT ![s] = n]
    BY <1>1
  <2>3. R[s] \in SlotType
    BY <1>1, <1>4, <1>5, <2>1
  <2>4. n \in SlotType /\ n.state = "current"
    BY <2>3 DEF SlotType
  <2> HIDE DEF R, n
  <2> QED
    BY <1>4, <1>5, <2>1, <2>2, <2>4
<1>7. BankTypes'
  BY <1>1, <1>3, <1>4, <1>6 DEF BankIInv, BankTypes
<1>8. Announced'
  <2>1. \A i \in 1 .. Len(bankPublished) : bankPublished[i] \in Banks!AllSlots /\ bankPublished[i] \notin {s, audition}
    BY <1>4, QueueFacts, SlotNames DEF BankIInv, Announced, Waiting, Banks!VoicesReadLive
  <2>2. Waiting(bankPublished)'
    BY <1>1, <1>6, <2>1 DEF BankIInv, Announced, Waiting
  <2>3. \A i \in 1 .. Len(auditions) : auditions[i] \in Banks!AllSlots /\ auditions[i] # audition /\ (i # 1 => auditions[i] # s)
    BY <1>2, QueueFacts, SlotNames DEF BankIInv, Announced, Waiting, Banks!VoicesReadLive
  <2>4. \A i \in 1 .. Len(auditions') : i + 1 \in 1 .. Len(auditions) /\ i + 1 # 1 /\ auditions'[i] = auditions[i + 1]
    BY <1>2, <1>3
  <2>5. \A i \in 1 .. Len(auditions') : bankSlots'[auditions'[i]] = bankSlots[auditions[i + 1]]
    BY <1>6, <2>3, <2>4
  <2>6. \A i, j \in 1 .. Len(auditions') : auditions'[i] = auditions'[j] => i = j
    <3> SUFFICES ASSUME NEW i \in 1 .. Len(auditions'), NEW j \in 1 .. Len(auditions'), auditions'[i] = auditions'[j]
                 PROVE  i = j
      OBVIOUS
    <3>0. auditions[i + 1] = auditions[j + 1] /\ i + 1 \in 1 .. Len(auditions) /\ j + 1 \in 1 .. Len(auditions)
      BY <2>4
    <3>2. \A a, b \in 1 .. Len(auditions) : auditions[a] = auditions[b] => a = b
      BY DEF BankIInv, Announced, Waiting
    <3>1. i + 1 = j + 1
      BY <3>0, <3>2
    <3> QED
      BY <3>1
  <2>7. Waiting(auditions)'
    BY <2>4, <2>5, <2>6 DEF BankIInv, Announced, Waiting
  <2> QED
    BY <2>2, <2>7 DEF Announced
<1>9. Counted' /\ Stopped'
  BY <1>1 DEF BankIInv, Counted, Stopped, Banks!At
<1>10. Banks!CurrentGen' = Banks!CurrentGen /\ Banks!Available' = Banks!Available
  BY <1>1, <1>5, <1>6, StillValid DEF BankIInv
<1>11. Admitted'
  BY <1>1, <1>10 DEF BankIInv, Admitted, Valid, Banks!At
<1>12. Banks!VoicesReadLive'
  <2>1. ~Banks!Uses(voices, s)
    BY <1>4 DEF BankIInv, Banks!VoicesReadLive
  <2>2. \A t : Banks!Uses(voices', t) <=> Banks!Uses(voices, t)
    BY <1>1 DEF Banks!Uses
  <2>3. \A t \in Banks!AllSlots : /\ Banks!Uses(voices, t) => bankSlots'[t].state \in {"current", "retiring"}
                                  /\ bankSlots'[t].state = "retiring" => Banks!Uses(voices, t)
    BY <1>4, <1>5, <1>6, <2>1, SlotNames DEF BankIInv, Banks!VoicesReadLive
  <2> QED
    BY <1>1, <1>4, <1>5, <1>6, <2>2, <2>3 DEF BankIInv, Banks!VoicesReadLive
<1> QED
  BY <1>7, <1>8, <1>9, <1>11, <1>12 DEF BankIInv

(* A press leaves the queue valid, and nothing is pending while it sounds.     *)
LEMMA PopInputKeeps ==
  ASSUME Banks!BanksAssumption, BankIInv, Banks!PopInput
  PROVE  BankIInv'
PROOF
<1> DEFINE e == Head(queue)
<1>1. /\ queue # <<>> /\ queue' = Tail(queue) /\ inputs' = inputs - 1 /\ bankAudio.pc \in {"banks", "input"}
      /\ bankAudio' = [pc |-> IF e.kind = "press" THEN "press" ELSE "audition", event |-> e]
      /\ UNCHANGED <<bankSlots, legacy, bankCurrent, audition, pending, bankPublished, auditions, voices, bankRunning, bankGens>>
  BY DEF Banks!PopInput, Banks!At
<1>2. /\ Len(queue) \in Nat /\ Len(queue) > 0 /\ queue[1] = e
  BY <1>1, QueueFacts, HeadTailProperties DEF BankIInv, BankTypes
<1>3. /\ queue' \in Seq(EventType) /\ Len(queue') = Len(queue) - 1
      /\ \A i \in 1 .. Len(queue') : queue'[i] = queue[i + 1]
  BY <1>1, HeadTailProperties DEF BankIInv, BankTypes
<1>4. e \in EventType
  BY <1>2, QueueFacts DEF BankIInv
<1> HIDE DEF e
<1>5. /\ bankAudio'.event = e /\ bankAudio'.pc \in {"press", "audition"} /\ (bankAudio'.pc = "press" => e.kind = "press")
      /\ bankAudio' \in [pc : {"idle", "banks", "applied", "input", "press", "audition"}, event : EventType]
  BY <1>1, <1>4
<1>6. inputs' = Len(queue') /\ inputs' \in Nat
  BY <1>1, <1>2, <1>3 DEF BankIInv, Counted
<1>7. BankTypes'
  BY <1>1, <1>3, <1>5, <1>6 DEF BankIInv, BankTypes
<1>8. Announced' /\ Counted' /\ Banks!VoicesReadLive'
  BY <1>1, <1>5, <1>6 DEF BankIInv, Announced, Waiting, Counted, Banks!VoicesReadLive, Banks!At
<1>9. Stopped'
  BY <1>1 DEF BankIInv, Stopped
<1>10. Banks!CurrentGen' = Banks!CurrentGen /\ Banks!Available' = Banks!Available
  BY <1>1 DEF Banks!CurrentGen, Banks!Available
<1>11. Admitted'
  <2>1. \A i \in 1 .. Len(queue') : i + 1 \in 1 .. Len(queue) /\ queue'[i] = queue[i + 1]
    BY <1>2, <1>3
  <2>2. e.kind = "press" => Valid(e)
    BY <1>2 DEF BankIInv, Admitted
  <2> QED
    BY <1>1, <1>5, <1>10, <2>1, <2>2 DEF BankIInv, Admitted, Valid, Banks!At
<1> QED
  BY <1>7, <1>8, <1>9, <1>11 DEF BankIInv

(* A voice starts on a slot that is current, or on the legacy samples.         *)
LEMMA StartVoiceKeeps ==
  ASSUME Banks!BanksAssumption, BankIInv, NEW s \in Banks!AllSlots \cup {0}, s # 0 => bankSlots[s].state = "current",
         bankAudio.pc \in {"press", "audition"}, Banks!StartVoice(s)
  PROVE  BankIInv'
PROOF
<1>1. /\ bankAudio' = [pc |-> "input", event |-> Banks!NoEvent]
      /\ UNCHANGED <<bankSlots, legacy, bankCurrent, audition, pending, bankPublished, auditions, inputs, queue, bankRunning, bankGens>>
  BY DEF Banks!StartVoice
<1>2. /\ bankAudio'.pc = "input" /\ bankAudio' \in [pc : {"idle", "banks", "applied", "input", "press", "audition"}, event : EventType]
  BY <1>1, NoEventFacts
<1>3. voices' = voices \/ \E v \in Voices : voices[v] = <<>> /\ voices' = [voices EXCEPT ![v] = <<s>>]
  BY DEF Banks!StartVoice
<1>4. /\ voices' \in [Voices -> {<<>>} \cup {<<t>> : t \in Banks!AllSlots \cup {0}}]
      /\ \A v \in Voices : voices'[v] = voices[v] \/ (voices[v] = <<>> /\ voices'[v] = <<s>>)
  BY <1>3 DEF BankIInv, BankTypes
<1>5. BankTypes'
  BY <1>1, <1>2, <1>4 DEF BankIInv, BankTypes
<1>6. Announced' /\ Counted'
  BY <1>1, <1>2 DEF BankIInv, Announced, Waiting, Counted, Banks!At
<1>7. Stopped'
  BY <1>1 DEF BankIInv, Stopped, Banks!At
<1>8. Banks!CurrentGen' = Banks!CurrentGen /\ Banks!Available' = Banks!Available
  BY <1>1 DEF Banks!CurrentGen, Banks!Available
<1>9. Admitted'
  BY <1>1, <1>2, <1>8 DEF BankIInv, Admitted, Valid, Banks!At
<1>10. Banks!VoicesReadLive'
  <2>1. \A t : Banks!Uses(voices', t) => Banks!Uses(voices, t) \/ t = s
    BY <1>4 DEF Banks!Uses
  <2>2. \A t : Banks!Uses(voices, t) => Banks!Uses(voices', t)
    BY <1>4, NoVoice DEF Banks!Uses
  <2>3. 0 \notin Banks!AllSlots
    BY SlotNames
  <2> QED
    BY <1>1, <2>1, <2>2, <2>3 DEF BankIInv, Banks!VoicesReadLive
<1> QED
  BY <1>5, <1>6, <1>7, <1>9, <1>10 DEF BankIInv

(* A voice that ends frees the retiring slot it was the last to read.          *)
LEMMA BankMixKeeps ==
  ASSUME Banks!BanksAssumption, BankIInv, NEW ending \in SUBSET Voices, Banks!Mix(ending)
  PROVE  BankIInv'
PROOF
<1>1. /\ bankAudio.pc \in {"banks", "input"} /\ bankAudio' = [bankAudio EXCEPT !.pc = "idle"]
      /\ voices' = [v \in Voices |-> IF v \in ending THEN <<>> ELSE voices[v]] /\ bankSlots' = Banks!Silenced(voices', bankSlots)
      /\ UNCHANGED <<legacy, bankCurrent, audition, pending, bankPublished, auditions, inputs, queue, bankRunning, bankGens>>
  BY DEF Banks!Mix, Banks!At, Banks!Go
<1>2. /\ bankAudio'.pc = "idle" /\ bankAudio' \in [pc : {"idle", "banks", "applied", "input", "press", "audition"}, event : EventType]
  BY <1>1 DEF BankIInv, BankTypes
<1>3. voices' \in [Voices -> {<<>>} \cup {<<t>> : t \in Banks!AllSlots \cup {0}}] /\ \A v \in Voices : voices'[v] \in {<<>>, voices[v]}
  BY <1>1 DEF BankIInv, BankTypes
<1>4. /\ bankSlots' \in [Banks!AllSlots -> SlotType]
      /\ \A s \in Banks!AllSlots : /\ bankSlots[s].state = "retiring" /\ ~Banks!Uses(voices', s) => bankSlots'[s].state = "reclaimable"
                                   /\ bankSlots[s].state # "retiring" \/ Banks!Uses(voices', s) => bankSlots'[s] = bankSlots[s]
  BY <1>1, SilencedFacts DEF BankIInv
<1>5. BankTypes'
  BY <1>1, <1>2, <1>3, <1>4 DEF BankIInv, BankTypes
<1>6. Announced'
  <2>1. /\ \A i \in 1 .. Len(bankPublished) : bankPublished[i] \in Banks!AllSlots
        /\ \A i \in 1 .. Len(auditions) : auditions[i] \in Banks!AllSlots
    BY QueueFacts, SlotNames DEF BankIInv
  <2> QED
    BY <1>1, <1>4, <2>1 DEF BankIInv, Announced, Waiting
<1>7. Counted' /\ Stopped'
  BY <1>1, <1>2 DEF BankIInv, Counted, Stopped, Banks!At
<1>8. (bankCurrent # 0 => bankCurrent \in Banks!AllSlots) /\ (audition # 0 => audition \in Banks!AllSlots)
  BY SlotNames DEF BankIInv, BankTypes
<1>9. Banks!CurrentGen' = Banks!CurrentGen /\ Banks!Available' = Banks!Available
  BY <1>1, <1>4, <1>8, StillValid DEF BankIInv, Banks!VoicesReadLive
<1>10. Admitted'
  BY <1>1, <1>2, <1>9 DEF BankIInv, Admitted, Valid, Banks!At
<1>11. Banks!VoicesReadLive'
  <2>1. \A t : Banks!Uses(voices', t) => Banks!Uses(voices, t)
    BY <1>3, NoVoice DEF Banks!Uses
  <2> QED
    BY <1>1, <1>4, <1>8, <2>1 DEF BankIInv, Banks!VoicesReadLive
<1> QED
  BY <1>5, <1>6, <1>7, <1>10, <1>11 DEF BankIInv

LEMMA AudioKeeps == ASSUME Banks!BanksAssumption, BankIInv, Banks!AudioStep PROVE BankIInv'
PROOF
<1>1. CASE Banks!Callback
  BY <1>1, BankCallbackKeeps
<1>2. CASE Banks!ApplyBank
  BY <1>2, ApplyBankKeeps
<1>3. CASE Banks!AppliedPending
  BY <1>3, AppliedPendingKeeps
<1>4. CASE Banks!ApplyAudition
  BY <1>4, ApplyAuditionKeeps
<1>5. CASE Banks!PopInput
  BY <1>5, PopInputKeeps
<1>6. CASE Banks!PressVoice
  <2>1. bankCurrent \in Banks!AllSlots \cup {0} /\ (bankCurrent # 0 => bankSlots[bankCurrent].state = "current")
    BY SlotNames DEF BankIInv, BankTypes, Banks!VoicesReadLive
  <2> QED
    BY <1>6, <2>1, StartVoiceKeeps DEF Banks!PressVoice, Banks!At
<1>7. CASE Banks!AuditionVoice
  <2>1. audition \in Banks!AllSlots \cup {0} /\ (audition # 0 => bankSlots[audition].state = "current")
    BY SlotNames DEF BankIInv, BankTypes, Banks!VoicesReadLive
  <2> QED
    BY <1>7, <2>1, StartVoiceKeeps DEF Banks!AuditionVoice, Banks!At
<1>8. CASE \E ending \in SUBSET Voices : Banks!Mix(ending)
  BY <1>8, BankMixKeeps
<1> QED
  BY <1>1, <1>2, <1>3, <1>4, <1>5, <1>6, <1>7, <1>8 DEF Banks!AudioStep

LEMMA StutterKeeps == ASSUME BankIInv, UNCHANGED Banks!vars PROVE BankIInv'
PROOF
<1>1. UNCHANGED <<bankSlots, legacy, bankCurrent, audition, pending, bankPublished, auditions, inputs, queue, voices, bankAudio, bankRunning, bankGens>>
  BY DEF Banks!vars
<1>2. BankTypes' /\ Announced' /\ Counted' /\ Stopped' /\ Banks!VoicesReadLive'
  BY <1>1 DEF BankIInv, BankTypes, Announced, Waiting, Counted, Stopped, Banks!VoicesReadLive, Banks!At
<1>3. Banks!CurrentGen' = Banks!CurrentGen /\ Banks!Available' = Banks!Available
  BY <1>1 DEF Banks!CurrentGen, Banks!Available
<1>4. Admitted'
  BY <1>1, <1>3 DEF BankIInv, Admitted, Valid, Banks!At
<1> QED
  BY <1>2, <1>4 DEF BankIInv

LEMMA BanksStep == ASSUME Banks!BanksAssumption, BankIInv, [Banks!Next]_(Banks!vars) PROVE BankIInv'
PROOF
<1>1. CASE \E s \in BankSlots, pads \in SUBSET Pads : Banks!PublishBank(s, pads) \/ Banks!PublishBankStopped(s, pads)
  BY <1>1, PublishBankKeeps, PublishBankStoppedKeeps
<1>2. CASE \E s \in AuditionSlots : Banks!Audition(s)
  BY <1>2, AuditionKeeps
<1>3. CASE \E p \in Pads : Banks!Press(p)
  BY <1>3, PressKeeps
<1>4. CASE Banks!Reclaim \/ Banks!StartEngine \/ Banks!StopEngine
  BY <1>4, BankReclaimKeeps, StartEngineKeeps, StopEngineKeeps
<1>5. CASE \E pads \in SUBSET Pads : Banks!LoadSamples(pads)
  BY <1>5, LoadSamplesKeeps
<1>6. CASE Banks!AudioStep
  BY <1>6, AudioKeeps
<1>7. CASE UNCHANGED Banks!vars
  BY <1>7, StutterKeeps
<1> QED
  BY <1>1, <1>2, <1>3, <1>4, <1>5, <1>6, <1>7 DEF Banks!Next

(* What a voice reads stays until the voice ends, and a press sounds the Bank  *)
(* it was admitted against: no slot is reclaimed under a voice, and none that  *)
(* an admitted press relies on is replaced before the press is heard.          *)
THEOREM BanksSafe == ASSUME Banks!BanksAssumption PROVE Banks!Spec => []BanksLive
PROOF
<1>1. Banks!Init => BankIInv
  BY InitBanks
<1>2. BankIInv /\ [Banks!Next]_(Banks!vars) => BankIInv'
  BY BanksStep
<1>3. BankIInv => BanksLive
  BY DEF BanksLive, BankIInv, Banks!BanksLive, Admitted, Banks!PressFindsItsBank, Valid
<1> QED
  BY <1>1, <1>2, <1>3, PTL DEF Banks!Spec
-------------------------------------------------------------------------------
(* Patterns. The types; every slot that is filled has a number of its own;     *)
(* what the flags and the token say of the place the callback is at; what      *)
(* control is working on; who may be cancelled.                                *)
SlotRecord == [state : {"empty", "pending", "current", "retiring", "reclaimable"}, gen : Nat, pattern : Patterns,
               due : Nat, after : Nat, switch : BOOLEAN]
MailType == [token : PatternSlots \cup {0}, claimed : BOOLEAN, reserved : BOOLEAN, invalid : BOOLEAN]
ControlType == [pc : {"idle", "admit", "reserve", "observe", "time", "commit", "unqueue", "untake"}, pattern : Patterns,
                switch : BOOLEAN, auth : BOOLEAN, token : PatternSlots \cup {0}, audio : PatternSlots \cup {0}, keep : Nat, slot : PatternSlots \cup {0}]
Places == {"idle", "close", "claim", "restore", "take", "empty", "open", "frame", "apply", "decision", "applied", "mix"}
AudioType == [pc : Places, frame : Nat, left : Int, only : BOOLEAN]
MailTypes ==
  /\ mailSlots \in [PatternSlots -> SlotRecord] /\ mailbox \in MailType /\ closed \in BOOLEAN
  /\ taken \in [token : PatternSlots \cup {0}, applying : BOOLEAN] /\ {mailLocal, mailCurrent, voice} \subseteq PatternSlots \cup {0}
  /\ decision \in [frame : Nat, gen : Nat, origin : Nat] /\ control \in ControlType
  /\ mailAudio \in AudioType /\ mailGens \in Nat

Numbered ==
  /\ \A s \in PatternSlots : mailSlots[s].gen <= mailGens
  /\ \A s, t \in PatternSlots : mailSlots[s].state # "empty" /\ mailSlots[t].state # "empty" /\ mailSlots[s].gen = mailSlots[t].gen => s = t
  /\ \A g \in cancelled : g \in Nat /\ g <= mailGens

Applying == mailAudio.pc \in {"apply", "decision", "applied"}
Claims ==
  /\ mailbox.claimed <=> mailAudio.pc \in {"restore", "take", "empty"}
  /\ mailAudio.pc \in {"take", "empty"} => mailbox.token = mailLocal
  /\ mailAudio.pc \in {"close", "claim", "restore"} => mailLocal = 0
  /\ taken.token # 0 => taken.token = mailLocal /\ mailAudio.pc # "take"
  /\ taken.applying <=> Applying
  /\ Applying => taken.token = mailLocal /\ mailLocal # 0
  /\ mailAudio.pc \in {"decision", "applied"} => mailCurrent = mailLocal

Filling ==
  /\ control.pc = "commit" =>
       /\ control.slot \in PatternSlots /\ mailSlots[control.slot].state = "pending"
       /\ control.slot \notin {mailbox.token, mailLocal} /\ mailSlots[control.slot].gen \notin cancelled
  /\ control.pc \in {"unqueue", "untake"} => control.slot \in PatternSlots

Kept ==
  /\ mailbox.token # 0 /\ mailbox.token # mailLocal => mailSlots[mailbox.token].gen \notin cancelled
  /\ mailLocal # 0 /\ (taken.token = mailLocal \/ mailAudio.pc = "take") => mailSlots[mailLocal].gen \notin cancelled
  /\ Mail!CancelledNeverPlays

MailIInv == MailTypes /\ Numbered /\ Claims /\ Filling /\ Kept /\ Mail!AudioReadsLive /\ Mail!PendingOwned

LEMMA MailNames ==
  ASSUME Mail!MailboxAssumption
  PROVE  0 \notin PatternSlots /\ PatternSlots \subseteq Nat
  BY DEF Mail!MailboxAssumption


LEMMA NumbersStay ==
  ASSUME MailIInv, mailGens' = mailGens, cancelled' = cancelled,
         \A s \in PatternSlots : mailSlots'[s].gen = mailSlots[s].gen /\ (mailSlots[s].state = "empty" => mailSlots'[s].state = "empty")
  PROVE  Numbered'
  BY DEF MailIInv, Numbered

(* Control looks, gives up or tries again: nothing audio sees changes.         *)
LEMMA ControlKeeps ==
  ASSUME MailIInv, control.pc # "commit", control' \in ControlType, control'.pc \notin {"commit", "unqueue", "untake"},
         mailbox' \in MailType, mailbox'.token = mailbox.token, mailbox'.claimed <=> mailbox.claimed,
         UNCHANGED <<mailSlots, closed, taken, mailLocal, mailCurrent, decision, mailAudio, voice, mailGens, cancelled>>
  PROVE  MailIInv'
PROOF
<1>1. MailTypes'
  BY DEF MailIInv, MailTypes
<1>2. Numbered' /\ Claims'
  BY DEF MailIInv, Numbered, Claims, Applying
<1>3. Filling' /\ Kept'
  BY DEF MailIInv, Filling, Kept, Mail!CancelledNeverPlays
<1>4. Mail!AudioReadsLive' /\ Mail!PendingOwned'
  BY DEF MailIInv, Mail!AudioReadsLive, Mail!PendingOwned
<1> QED
  BY <1>1, <1>2, <1>3, <1>4 DEF MailIInv

(* The control types of what comes next.                                       *)
LEMMA UnreservedFacts ==
  ASSUME MailTypes
  PROVE  /\ Mail!Unreserved \in MailType /\ Mail!Unreserved.token = mailbox.token
         /\ Mail!Unreserved.claimed <=> mailbox.claimed
  BY DEF MailTypes, MailType, Mail!Unreserved

LEMMA RestingFacts ==
  ASSUME Mail!MailboxAssumption
  PROVE  Mail!Resting \in ControlType /\ Mail!Resting.pc = "idle"
  BY DEF Mail!MailboxAssumption, ControlType, Mail!Resting

LEMMA StepFacts ==
  ASSUME MailTypes, NEW p \in {"idle", "admit", "reserve", "observe", "time", "commit", "unqueue", "untake"}
  PROVE  [control EXCEPT !.pc = p] \in ControlType /\ [control EXCEPT !.pc = p].pc = p
         /\ [control EXCEPT !.pc = p].slot = control.slot
  BY DEF MailTypes, ControlType

LEMMA AgainKeeps ==
  ASSUME Mail!MailboxAssumption, MailIInv, control.pc # "commit", Mail!Again \/ Mail!Rejected,
         UNCHANGED <<mailSlots, closed, taken, mailLocal, mailCurrent, decision, mailAudio, voice, mailGens, cancelled>>
  PROVE  MailIInv'
PROOF
<1>1. control' \in ControlType /\ control'.pc \in {"idle", "admit"}
  BY RestingFacts, StepFacts DEF Mail!Again, Mail!Rejected, MailIInv
<1>2. mailbox' = Mail!Unreserved
  BY DEF Mail!Again, Mail!Rejected
<1> QED
  BY <1>1, <1>2, UnreservedFacts, ControlKeeps DEF MailIInv

LEMMA ReserveAdmissionKeeps ==
  ASSUME Mail!MailboxAssumption, MailIInv, Mail!ReserveAdmission
  PROVE  MailIInv'
PROOF
<1>1. control.pc = "reserve" /\ UNCHANGED <<mailSlots, closed, taken, mailLocal, mailCurrent, decision, mailAudio, voice, mailGens, cancelled>>
  BY DEF Mail!ReserveAdmission, Mail!audioVars
<1>2. CASE mailbox.claimed
  <2>1. mailbox' = mailbox /\ control' = [control EXCEPT !.pc = "admit"]
    BY <1>2 DEF Mail!ReserveAdmission
  <2>2. mailbox \in MailType
    BY DEF MailIInv, MailTypes
  <2> QED
    BY <1>1, <2>1, <2>2, StepFacts, ControlKeeps DEF MailIInv
<1>3. CASE ~mailbox.claimed
  <2>1. /\ mailbox' = [mailbox EXCEPT !.reserved = TRUE, !.invalid = FALSE]
        /\ control' = [control EXCEPT !.pc = "observe", !.token = mailbox.token]
    BY <1>3 DEF Mail!ReserveAdmission
  <2>2. mailbox' \in MailType /\ mailbox'.token = mailbox.token /\ (mailbox'.claimed <=> mailbox.claimed)
    BY <2>1 DEF MailIInv, MailTypes, MailType
  <2>3. control' \in ControlType /\ control'.pc = "observe"
    BY <2>1 DEF MailIInv, MailTypes, MailType, ControlType
  <2> QED
    BY <1>1, <2>2, <2>3, ControlKeeps
<1> QED
  BY <1>2, <1>3

LEMMA PublishKeeps ==
  ASSUME Mail!MailboxAssumption, MailIInv, NEW r \in Requests, Mail!Publish(r)
  PROVE  MailIInv'
PROOF
<1>1. control' \in ControlType /\ control'.pc = "admit"
  BY DEF Mail!MailboxAssumption, ControlType, Mail!Publish, Mail!Resting
<1>2. control.pc = "idle" /\ UNCHANGED <<mailSlots, mailbox, closed, taken, mailLocal, mailCurrent, decision, mailAudio, voice, mailGens, cancelled>>
  BY DEF Mail!Publish, Mail!audioVars
<1>3. mailbox \in MailType
  BY DEF MailIInv, MailTypes
<1> QED
  BY <1>1, <1>2, <1>3, ControlKeeps

LEMMA WaitKeeps ==
  ASSUME Mail!MailboxAssumption, MailIInv, Mail!Wait
  PROVE  MailIInv'
PROOF
<1>1. control' \in ControlType /\ control'.pc = "reserve"
  BY StepFacts DEF Mail!Wait, MailIInv
<1>2. control.pc = "admit" /\ UNCHANGED <<mailSlots, mailbox, closed, taken, mailLocal, mailCurrent, decision, mailAudio, voice, mailGens, cancelled>>
  BY DEF Mail!Wait, Mail!audioVars
<1>3. mailbox \in MailType
  BY DEF MailIInv, MailTypes
<1> QED
  BY <1>1, <1>2, <1>3, ControlKeeps

(* A Bar line is a frame, and whole Bars away from the start.                  *)
LEMMA BarLine ==
  ASSUME NEW o \in Nat, NEW f \in Nat, NEW b \in Nat \ {0}
  PROVE  Mail!NextBar(o, f, b) \in Nat /\ (Mail!NextBar(o, f, b) - o) % b = 0
PROOF
<1> DEFINE x == (IF f < o THEN o ELSE f) - o
           q == x \div b + 1
<1>1. x \in Nat
  OBVIOUS
<1>2. x \div b \in Nat
  BY <1>1
<1>3. q \in Nat
  BY <1>2
<1>4. Mail!NextBar(o, f, b) = o + q * b
  BY DEF Mail!NextBar
<1> HIDE DEF x, q
<1>5. q * b \in Nat
  BY <1>3
<1>6. (q * b) % b = 0
  BY <1>3
<1>7. Mail!NextBar(o, f, b) - o = q * b
  BY <1>4, <1>5
<1> QED
  BY <1>4, <1>5, <1>6, <1>7

(* Replacing what is pending, control keeps a start that is a frame.           *)
LEMMA ObservedStart ==
  ASSUME Mail!MailboxAssumption, MailIInv, Mail!ObservePending
  PROVE  \/ Mail!Again \/ Mail!Rejected
         \/ /\ mailbox' = mailbox
            /\ \E k \in Nat : control' = [control EXCEPT !.pc = "time", !.audio = taken.token, !.keep = k]
PROOF
<1> DEFINE found == IF control.token # 0 THEN control.token ELSE taken.token
           s == mailSlots[found]
           keep == IF control.switch /\ control.token = 0 THEN 0
                   ELSE IF s.due >= decision.frame THEN s.due
                   ELSE IF control.token = 0 /\ ~control.switch THEN Mail!NextBar(s.due, decision.frame, Bar[s.pattern]) ELSE 0
<1>2. \/ Mail!Again \/ Mail!Rejected
      \/ /\ mailbox' = mailbox
         /\ \E k \in {0} \cup {x \in {keep} : found # 0} : control' = [control EXCEPT !.pc = "time", !.audio = taken.token, !.keep = k]
  BY DEF Mail!ObservePending
<1>3. ASSUME found # 0 PROVE keep \in Nat
  <2>1. found \in PatternSlots /\ decision.frame \in Nat
    BY <1>3, MailNames DEF MailIInv, MailTypes, ControlType
  <2>2. s \in SlotRecord
    BY <2>1 DEF MailIInv, MailTypes
  <2>3. s.due \in Nat /\ Bar[s.pattern] \in Nat \ {0}
    BY <2>2 DEF SlotRecord, Mail!MailboxAssumption
  <2>4. Mail!NextBar(s.due, decision.frame, Bar[s.pattern]) \in Nat
    BY <2>1, <2>3, BarLine
  <2> HIDE DEF found, s
  <2> QED
    BY <2>3, <2>4
<1> HIDE DEF keep, found
<1> QED
  BY <1>2, <1>3

LEMMA ObservePendingKeeps ==
  ASSUME Mail!MailboxAssumption, MailIInv, Mail!ObservePending
  PROVE  MailIInv'
PROOF
<1>1. control.pc = "observe" /\ UNCHANGED <<mailSlots, closed, taken, mailLocal, mailCurrent, decision, mailAudio, voice, mailGens, cancelled>>
  BY DEF Mail!ObservePending, Mail!audioVars
<1>2. CASE Mail!Again \/ Mail!Rejected
  BY <1>1, <1>2, AgainKeeps
<1>3. ASSUME NEW k \in Nat, mailbox' = mailbox, control' = [control EXCEPT !.pc = "time", !.audio = taken.token, !.keep = k]
      PROVE  MailIInv'
  <2>1. control' \in ControlType /\ control'.pc = "time" /\ mailbox \in MailType
    BY <1>3 DEF MailIInv, MailTypes, MailType, ControlType
  <2> QED
    BY <1>1, <1>3, <2>1, ControlKeeps
<1> QED
  BY <1>2, <1>3, ObservedStart


LEMMA CancelKeeps ==
  ASSUME Mail!MailboxAssumption, MailIInv, NEW s \in PatternSlots, Mail!Cancel(s)
  PROVE  MailIInv'
PROOF
<1> USE MailNames DEF Mail!Cancel, Mail!Resting, Mail!At, Mail!Go, Mail!audioVars, Mail!controlVars,
        MailIInv, MailTypes, MailType, ControlType, Claims, Applying, Filling, Mail!AudioReadsLive
<1>1. MailTypes'
  <2>1. control' \in ControlType
    BY DEF Mail!MailboxAssumption
  <2>2. UNCHANGED <<mailSlots, mailbox, closed, taken, mailLocal, mailCurrent, decision, mailAudio, voice, mailGens>>
    OBVIOUS
  <2> QED
    BY <2>1, <2>2
<1>2. Numbered'
  BY DEF SlotRecord, Numbered
<1>3. Claims'
  BY DEF AudioType, Places
<1>4. Filling'
  BY DEF SlotRecord, Numbered
<1>5. Kept'
  BY DEF SlotRecord, Numbered, Kept, Mail!CancelledNeverPlays
<1>6. Mail!AudioReadsLive'
  BY DEF SlotRecord, Numbered
<1>7. Mail!PendingOwned'
  BY DEF SlotRecord, Numbered, Mail!PendingOwned
<1> QED
  BY <1>1, <1>2, <1>3, <1>4, <1>5, <1>6, <1>7

LEMMA UnqueueKeeps ==
  ASSUME Mail!MailboxAssumption, MailIInv, Mail!Unqueue
  PROVE  MailIInv'
PROOF
<1> USE MailNames DEF Mail!Unqueue, Mail!Resting, Mail!At, Mail!Go, Mail!audioVars, Mail!controlVars,
        MailIInv, MailTypes, MailType, ControlType, Claims, Applying, Filling, Mail!AudioReadsLive
<1>1. MailTypes'
  <2>1. mailbox' \in MailType
    OBVIOUS
  <2>2. mailSlots' \in [PatternSlots -> SlotRecord]
    <3>1. mailSlots' = mailSlots \/ mailSlots' = [mailSlots EXCEPT ![control.slot].state = "reclaimable"]
      OBVIOUS
    <3> QED
      BY <3>1 DEF SlotRecord
  <2>3. control' \in ControlType
    <3>1. control' = Mail!Resting \/ control' = [control EXCEPT !.pc = "untake"]
      BY DEF Mail!Unqueue
    <3> QED
      BY <3>1, RestingFacts, StepFacts DEF MailIInv
  <2>4. UNCHANGED <<closed, taken, mailLocal, mailCurrent, decision, mailAudio, voice, mailGens>>
    OBVIOUS
  <2> QED
    BY <2>1, <2>2, <2>3, <2>4
<1>2. Numbered'
  BY DEF SlotRecord, Numbered
<1>3. Claims'
  BY DEF AudioType, Places
<1>4. Filling'
  BY DEF SlotRecord, Numbered
<1>5. Kept'
  BY DEF SlotRecord, Numbered, Kept, Mail!CancelledNeverPlays
<1>6. Mail!AudioReadsLive'
  BY DEF SlotRecord, Numbered
<1>7. Mail!PendingOwned'
  BY DEF SlotRecord, Numbered, Mail!PendingOwned
<1> QED
  BY <1>1, <1>2, <1>3, <1>4, <1>5, <1>6, <1>7

LEMMA UntakeKeeps ==
  ASSUME Mail!MailboxAssumption, MailIInv, Mail!Untake
  PROVE  MailIInv'
PROOF
<1> USE MailNames DEF Mail!Untake, Mail!TakenBack, Mail!Resting, Mail!At, Mail!Go, Mail!audioVars, Mail!controlVars,
        MailIInv, MailTypes, MailType, ControlType, Claims, Applying, Filling, Mail!AudioReadsLive
<1>1. MailTypes'
  <2>1. taken' \in [token : PatternSlots \cup {0}, applying : BOOLEAN]
    <3>1. taken' = taken \/ taken' = [token |-> 0, applying |-> FALSE]
      BY DEF Mail!Untake
    <3>2. taken \in [token : PatternSlots \cup {0}, applying : BOOLEAN]
      BY DEF MailIInv, MailTypes
    <3>3. [token |-> 0, applying |-> FALSE] \in [token : PatternSlots \cup {0}, applying : BOOLEAN]
      OBVIOUS
    <3> QED
      BY <3>1, <3>2, <3>3, Zenon
  <2>2. control' \in ControlType
    BY DEF Mail!MailboxAssumption
  <2>3. UNCHANGED <<mailSlots, mailbox, closed, mailLocal, mailCurrent, decision, mailAudio, voice, mailGens>>
    OBVIOUS
  <2> QED
    BY <2>1, <2>2, <2>3
<1>2. Numbered'
  BY DEF SlotRecord, Numbered
<1>3. Claims'
  BY DEF AudioType, Places
<1>4. Filling'
  BY DEF SlotRecord, Numbered
<1>5. Kept'
  BY DEF SlotRecord, Numbered, Kept, Mail!CancelledNeverPlays
<1>6. Mail!AudioReadsLive'
  BY DEF SlotRecord, Numbered
<1>7. Mail!PendingOwned'
  BY DEF SlotRecord, Numbered, Mail!PendingOwned
<1> QED
  BY <1>1, <1>2, <1>3, <1>4, <1>5, <1>6, <1>7

LEMMA MailReclaimKeeps ==
  ASSUME Mail!MailboxAssumption, MailIInv, Mail!Reclaim
  PROVE  MailIInv'
PROOF
<1> USE MailNames DEF Mail!Reclaim, Mail!Reclaimable, Mail!Empty, Mail!At, Mail!Go, Mail!audioVars, Mail!controlVars,
        MailIInv, MailTypes, MailType, ControlType, Claims, Applying, Filling, Mail!AudioReadsLive
<1>1. MailTypes'
  <2>1. mailSlots' \in [PatternSlots -> SlotRecord]
    BY DEF SlotRecord, Mail!MailboxAssumption
  <2>2. UNCHANGED <<mailbox, closed, taken, mailLocal, mailCurrent, decision, control, mailAudio, voice, mailGens>>
    OBVIOUS
  <2> QED
    BY <2>1, <2>2
<1>2. Numbered'
  BY DEF SlotRecord, Numbered
<1>3. Claims'
  BY DEF AudioType, Places
<1>4. Filling'
  BY DEF SlotRecord, Numbered
<1>5. Kept'
  BY DEF SlotRecord, Numbered, Kept, Mail!CancelledNeverPlays
<1>6. Mail!AudioReadsLive'
  BY DEF SlotRecord, Numbered
<1>7. Mail!PendingOwned'
  BY DEF SlotRecord, Numbered, Mail!PendingOwned
<1> QED
  BY <1>1, <1>2, <1>3, <1>4, <1>5, <1>6, <1>7

LEMMA MailCallbackKeeps ==
  ASSUME Mail!MailboxAssumption, MailIInv, Mail!Callback
  PROVE  MailIInv'
PROOF
<1> USE MailNames DEF Mail!Callback, Mail!At, Mail!Go, Mail!audioVars, Mail!controlVars,
        MailIInv, MailTypes, MailType, ControlType, Claims, Applying, Filling, Mail!AudioReadsLive
<1>1. MailTypes'
  <2>1. mailAudio' \in AudioType
    <3> DEFINE p == IF mailLocal = 0 THEN "claim" ELSE "frame"
    <3>1. p \in Places /\ Quantum \in Int
      BY DEF Places, Mail!MailboxAssumption
    <3>2. mailAudio' = [mailAudio EXCEPT !.pc = p, !.left = Quantum, !.only = FALSE]
      BY DEF Mail!Callback
    <3>3. mailAudio \in AudioType
      BY DEF MailIInv, MailTypes
    <3> HIDE DEF p
    <3> QED
      BY <3>1, <3>2, <3>3 DEF AudioType
  <2>2. closed' \in BOOLEAN
    OBVIOUS
  <2>3. UNCHANGED <<mailSlots, mailbox, taken, mailLocal, mailCurrent, decision, control, voice, mailGens>>
    OBVIOUS
  <2> QED
    BY <2>1, <2>2, <2>3
<1>2. Numbered'
  BY DEF SlotRecord, Numbered
<1>3. Claims'
  BY DEF AudioType, Places
<1>4. Filling'
  BY DEF SlotRecord, Numbered
<1>5. Kept'
  BY DEF SlotRecord, Numbered, Kept, Mail!CancelledNeverPlays
<1>6. Mail!AudioReadsLive'
  BY DEF SlotRecord, Numbered
<1>7. Mail!PendingOwned'
  BY DEF SlotRecord, Numbered, Mail!PendingOwned
<1> QED
  BY <1>1, <1>2, <1>3, <1>4, <1>5, <1>6, <1>7

LEMMA CloseAdmissionKeeps ==
  ASSUME Mail!MailboxAssumption, MailIInv, Mail!CloseAdmission
  PROVE  MailIInv'
PROOF
<1> USE MailNames DEF Mail!CloseAdmission, Mail!At, Mail!Go, Mail!audioVars, Mail!controlVars,
        MailIInv, MailTypes, MailType, ControlType, Claims, Applying, Filling, Mail!AudioReadsLive
<1>1. MailTypes'
  <2>1. mailAudio' \in AudioType
    BY DEF AudioType, Places, Mail!MailboxAssumption
  <2>2. closed' \in BOOLEAN
    OBVIOUS
  <2>3. UNCHANGED <<mailSlots, mailbox, taken, mailLocal, mailCurrent, decision, control, voice, mailGens>>
    OBVIOUS
  <2> QED
    BY <2>1, <2>2, <2>3
<1>2. Numbered'
  BY DEF SlotRecord, Numbered
<1>3. Claims'
  BY DEF AudioType, Places
<1>4. Filling'
  BY DEF SlotRecord, Numbered
<1>5. Kept'
  BY DEF SlotRecord, Numbered, Kept, Mail!CancelledNeverPlays
<1>6. Mail!AudioReadsLive'
  BY DEF SlotRecord, Numbered
<1>7. Mail!PendingOwned'
  BY DEF SlotRecord, Numbered, Mail!PendingOwned
<1> QED
  BY <1>1, <1>2, <1>3, <1>4, <1>5, <1>6, <1>7

LEMMA ClaimKeeps ==
  ASSUME Mail!MailboxAssumption, MailIInv, Mail!Claim
  PROVE  MailIInv'
PROOF
<1> USE MailNames DEF Mail!Claim, Mail!At, Mail!Go, Mail!audioVars, Mail!controlVars,
        MailIInv, MailTypes, MailType, ControlType, Claims, Applying, Filling, Mail!AudioReadsLive
<1>1. MailTypes'
  <2>1. mailbox' \in MailType
    OBVIOUS
  <2>2. mailLocal' \in PatternSlots \cup {0}
    OBVIOUS
  <2>3. mailAudio' \in AudioType
    BY DEF AudioType, Places, Mail!MailboxAssumption
  <2>4. UNCHANGED <<mailSlots, closed, taken, mailCurrent, decision, control, voice, mailGens>>
    OBVIOUS
  <2> QED
    BY <2>1, <2>2, <2>3, <2>4
<1>2. Numbered'
  BY DEF SlotRecord, Numbered
<1>3. Claims'
  BY DEF AudioType, Places
<1>4. Filling'
  BY DEF SlotRecord, Numbered
<1>5. Kept'
  BY DEF SlotRecord, Numbered, Kept, Mail!CancelledNeverPlays
<1>6. Mail!AudioReadsLive'
  BY DEF SlotRecord, Numbered
<1>7. Mail!PendingOwned'
  BY DEF SlotRecord, Numbered, Mail!PendingOwned
<1> QED
  BY <1>1, <1>2, <1>3, <1>4, <1>5, <1>6, <1>7

LEMMA RestoreKeeps ==
  ASSUME Mail!MailboxAssumption, MailIInv, Mail!Restore
  PROVE  MailIInv'
PROOF
<1> USE MailNames DEF Mail!Restore, Mail!At, Mail!Go, Mail!audioVars, Mail!controlVars,
        MailIInv, MailTypes, MailType, ControlType, Claims, Applying, Filling, Mail!AudioReadsLive
<1>1. MailTypes'
  <2>1. mailbox' \in MailType
    OBVIOUS
  <2>2. mailAudio' \in AudioType
    BY DEF AudioType, Places, Mail!MailboxAssumption
  <2>3. UNCHANGED <<mailSlots, closed, taken, mailLocal, mailCurrent, decision, control, voice, mailGens>>
    OBVIOUS
  <2> QED
    BY <2>1, <2>2, <2>3
<1>2. Numbered'
  BY DEF SlotRecord, Numbered
<1>3. Claims'
  BY DEF AudioType, Places
<1>4. Filling'
  BY DEF SlotRecord, Numbered
<1>5. Kept'
  BY DEF SlotRecord, Numbered, Kept, Mail!CancelledNeverPlays
<1>6. Mail!AudioReadsLive'
  BY DEF SlotRecord, Numbered
<1>7. Mail!PendingOwned'
  BY DEF SlotRecord, Numbered, Mail!PendingOwned
<1> QED
  BY <1>1, <1>2, <1>3, <1>4, <1>5, <1>6, <1>7

LEMMA TakeKeeps ==
  ASSUME Mail!MailboxAssumption, MailIInv, Mail!Take
  PROVE  MailIInv'
PROOF
<1> USE MailNames DEF Mail!Take, Mail!At, Mail!Go, Mail!audioVars, Mail!controlVars,
        MailIInv, MailTypes, MailType, ControlType, Claims, Applying, Filling, Mail!AudioReadsLive
<1>1. MailTypes'
  <2>1. taken' \in [token : PatternSlots \cup {0}, applying : BOOLEAN]
    OBVIOUS
  <2>2. mailAudio' \in AudioType
    BY DEF AudioType, Places, Mail!MailboxAssumption
  <2>3. UNCHANGED <<mailSlots, mailbox, closed, mailLocal, mailCurrent, decision, control, voice, mailGens>>
    OBVIOUS
  <2> QED
    BY <2>1, <2>2, <2>3
<1>2. Numbered'
  BY DEF SlotRecord, Numbered
<1>3. Claims'
  BY DEF AudioType, Places
<1>4. Filling'
  BY DEF SlotRecord, Numbered
<1>5. Kept'
  BY DEF SlotRecord, Numbered, Kept, Mail!CancelledNeverPlays
<1>6. Mail!AudioReadsLive'
  BY DEF SlotRecord, Numbered
<1>7. Mail!PendingOwned'
  BY DEF SlotRecord, Numbered, Mail!PendingOwned
<1> QED
  BY <1>1, <1>2, <1>3, <1>4, <1>5, <1>6, <1>7

LEMMA EmptyMailboxKeeps ==
  ASSUME Mail!MailboxAssumption, MailIInv, Mail!EmptyMailbox
  PROVE  MailIInv'
PROOF
<1> USE MailNames DEF Mail!EmptyMailbox, Mail!At, Mail!Go, Mail!audioVars, Mail!controlVars,
        MailIInv, MailTypes, MailType, ControlType, Claims, Applying, Filling, Mail!AudioReadsLive
<1>1. MailTypes'
  <2>1. mailbox' \in MailType
    OBVIOUS
  <2>2. mailAudio' \in AudioType
    BY DEF AudioType, Places, Mail!MailboxAssumption
  <2>3. UNCHANGED <<mailSlots, closed, taken, mailLocal, mailCurrent, decision, control, voice, mailGens>>
    OBVIOUS
  <2> QED
    BY <2>1, <2>2, <2>3
<1>2. Numbered'
  BY DEF SlotRecord, Numbered
<1>3. Claims'
  BY DEF AudioType, Places
<1>4. Filling'
  BY DEF SlotRecord, Numbered
<1>5. Kept'
  BY DEF SlotRecord, Numbered, Kept, Mail!CancelledNeverPlays
<1>6. Mail!AudioReadsLive'
  BY DEF SlotRecord, Numbered
<1>7. Mail!PendingOwned'
  BY DEF SlotRecord, Numbered, Mail!PendingOwned
<1> QED
  BY <1>1, <1>2, <1>3, <1>4, <1>5, <1>6, <1>7

LEMMA OpenAdmissionKeeps ==
  ASSUME Mail!MailboxAssumption, MailIInv, Mail!OpenAdmission
  PROVE  MailIInv'
PROOF
<1> USE MailNames DEF Mail!OpenAdmission, Mail!At, Mail!Go, Mail!audioVars, Mail!controlVars,
        MailIInv, MailTypes, MailType, ControlType, Claims, Applying, Filling, Mail!AudioReadsLive
<1>1. MailTypes'
  <2>1. closed' \in BOOLEAN
    OBVIOUS
  <2>2. mailAudio' \in AudioType
    BY DEF AudioType, Places, Mail!MailboxAssumption
  <2>3. UNCHANGED <<mailSlots, mailbox, taken, mailLocal, mailCurrent, decision, control, voice, mailGens>>
    OBVIOUS
  <2> QED
    BY <2>1, <2>2, <2>3
<1>2. Numbered'
  BY DEF SlotRecord, Numbered
<1>3. Claims'
  BY DEF AudioType, Places
<1>4. Filling'
  BY DEF SlotRecord, Numbered
<1>5. Kept'
  BY DEF SlotRecord, Numbered, Kept, Mail!CancelledNeverPlays
<1>6. Mail!AudioReadsLive'
  BY DEF SlotRecord, Numbered
<1>7. Mail!PendingOwned'
  BY DEF SlotRecord, Numbered, Mail!PendingOwned
<1> QED
  BY <1>1, <1>2, <1>3, <1>4, <1>5, <1>6, <1>7

LEMMA DecideKeeps ==
  ASSUME Mail!MailboxAssumption, MailIInv, Mail!Decide
  PROVE  MailIInv'
PROOF
<1> USE MailNames DEF Mail!Decide, Mail!Due, Mail!At, Mail!Go, Mail!audioVars, Mail!controlVars,
        MailIInv, MailTypes, MailType, ControlType, Claims, Applying, Filling, Mail!AudioReadsLive
<1>1. MailTypes'
  <2>1. taken' \in [token : PatternSlots \cup {0}, applying : BOOLEAN]
    OBVIOUS
  <2>2. mailSlots' \in [PatternSlots -> SlotRecord]
    BY DEF SlotRecord, Mail!MailboxAssumption
  <2>3. mailLocal' \in PatternSlots \cup {0}
    OBVIOUS
  <2>4. mailAudio' \in AudioType
    <3>1. \/ mailAudio' = [mailAudio EXCEPT !.pc = "apply"]
          \/ mailAudio' = [mailAudio EXCEPT !.pc = "close", !.only = TRUE]
      OBVIOUS
    <3>2. mailAudio \in AudioType
      OBVIOUS
    <3> QED
      BY <3>1, <3>2 DEF AudioType, Places
  <2>5. UNCHANGED <<mailbox, closed, mailCurrent, decision, control, voice, mailGens>>
    OBVIOUS
  <2> QED
    BY <2>1, <2>2, <2>3, <2>4, <2>5
<1>2. Numbered'
  <2>1. /\ \A s \in PatternSlots : mailSlots'[s].gen = mailSlots[s].gen /\ (mailSlots[s].state = "empty" => mailSlots'[s].state = "empty")
        /\ mailGens' = mailGens /\ cancelled' = cancelled
    <3>1. mailSlots' = mailSlots \/ (mailLocal \in PatternSlots /\ mailSlots' = [mailSlots EXCEPT ![mailLocal].state = "reclaimable"])
      BY DEF MailIInv, MailTypes, Mail!Decide, Mail!Due
    <3>2. mailLocal # 0 /\ mailSlots[mailLocal].state = "pending"
      BY DEF MailIInv, Mail!AudioReadsLive, Mail!Decide, Mail!Due, Mail!At
    <3> QED
      BY <3>1, <3>2 DEF MailIInv, MailTypes, SlotRecord, Mail!Decide, Mail!controlVars
  <2> QED
    BY <2>1, NumbersStay
<1>3. Claims'
  <2>1. taken = [token |-> mailLocal, applying |-> FALSE] \/ taken # [token |-> mailLocal, applying |-> FALSE]
    OBVIOUS
  <2>2. CASE taken = [token |-> mailLocal, applying |-> FALSE]
    <3>1. mailAudio'.pc = "apply" /\ taken'.token = mailLocal /\ taken'.applying /\ UNCHANGED <<mailbox, mailLocal, mailCurrent>>
      BY <2>2 DEF MailIInv, MailTypes, AudioType, Mail!Decide, Mail!Go
    <3> QED
      BY <3>1 DEF MailIInv, Claims, Applying, Mail!Decide, Mail!At, Mail!Due
  <2>3. CASE taken # [token |-> mailLocal, applying |-> FALSE]
    <3>1. mailAudio'.pc = "close" /\ mailLocal' = 0 /\ UNCHANGED <<mailbox, taken, mailCurrent>>
      BY <2>3 DEF MailIInv, MailTypes, AudioType, Mail!Decide
    <3>2. taken.token = 0 /\ ~taken.applying
      BY <2>3 DEF MailIInv, MailTypes, Claims, Applying, Mail!Decide, Mail!At
    <3> QED
      BY <3>1, <3>2 DEF MailIInv, Claims, Applying, Mail!Decide, Mail!At
  <2> QED
    BY <2>2, <2>3
<1>4. Filling'
  BY DEF SlotRecord, Numbered
<1>5. Kept'
  BY DEF SlotRecord, Numbered, Kept, Mail!CancelledNeverPlays
<1>6. Mail!AudioReadsLive'
  <2>1. mailbox.token # mailLocal \/ mailbox.token = 0
    BY DEF MailIInv, Mail!AudioReadsLive, Mail!Decide, Mail!At, Mail!Due
  <2>2. CASE taken = [token |-> mailLocal, applying |-> FALSE]
    BY <2>2 DEF MailIInv, MailTypes, AudioType, Claims, Applying, Mail!AudioReadsLive, Mail!Decide, Mail!Go,
       Mail!At, Mail!Due
  <2>3. CASE taken # [token |-> mailLocal, applying |-> FALSE]
    <3>1. /\ mailLocal' = 0 /\ UNCHANGED <<mailbox, mailCurrent, voice>> /\ mailLocal \in PatternSlots /\ mailSlots[mailLocal].state = "pending"
          /\ mailSlots' = [mailSlots EXCEPT ![mailLocal].state = "reclaimable"]
      BY <2>3 DEF MailIInv, MailTypes, Mail!AudioReadsLive, Mail!Decide, Mail!At, Mail!Due
    <3>2. \A s \in PatternSlots : s # mailLocal => mailSlots'[s] = mailSlots[s]
      BY <3>1 DEF MailIInv, MailTypes
    <3>3. /\ mailCurrent # 0 => mailCurrent \in PatternSlots /\ mailCurrent # mailLocal
          /\ voice # 0 => voice \in PatternSlots /\ voice # mailLocal
          /\ mailbox.token # 0 => mailbox.token \in PatternSlots /\ mailbox.token # mailLocal
      BY <2>1, <3>1, MailNames DEF MailIInv, MailTypes, MailType, Mail!AudioReadsLive
    <3> QED
      BY <3>1, <3>2, <3>3 DEF MailIInv, Mail!AudioReadsLive
  <2> QED
    BY <2>2, <2>3
<1>7. Mail!PendingOwned'
  BY DEF SlotRecord, Numbered, Mail!PendingOwned
<1> QED
  BY <1>1, <1>2, <1>3, <1>4, <1>5, <1>6, <1>7

LEMMA ApplyKeeps ==
  ASSUME Mail!MailboxAssumption, MailIInv, Mail!Apply
  PROVE  MailIInv'
PROOF
<1> USE MailNames DEF Mail!Apply, Mail!At, Mail!Go, Mail!audioVars, Mail!controlVars,
        MailIInv, MailTypes, MailType, ControlType, Claims, Applying, Filling, Mail!AudioReadsLive
<1>1. MailTypes'
  <2>1. mailSlots' \in [PatternSlots -> SlotRecord]
    BY DEF SlotRecord, Mail!MailboxAssumption
  <2>2. mailCurrent' \in PatternSlots \cup {0}
    OBVIOUS
  <2>3. mailAudio' \in AudioType
    BY DEF AudioType, Places, Mail!MailboxAssumption
  <2>4. UNCHANGED <<mailbox, closed, taken, mailLocal, decision, control, voice, mailGens>>
    OBVIOUS
  <2> QED
    BY <2>1, <2>2, <2>3, <2>4
<1>2. Numbered'
  <2>1. /\ \A s \in PatternSlots : mailSlots'[s].gen = mailSlots[s].gen /\ (mailSlots[s].state = "empty" => mailSlots'[s].state = "empty")
        /\ mailGens' = mailGens /\ cancelled' = cancelled
    <3>1. \A s \in PatternSlots : mailSlots[s] \in SlotRecord /\ (s = mailLocal \/ s = mailCurrent => mailSlots[s].state # "empty")
      BY MailNames DEF MailIInv, MailTypes, Mail!AudioReadsLive, Mail!Apply, Mail!At
    <3>2. \A s \in PatternSlots :
            \/ s = mailLocal /\ mailSlots'[s] = [mailSlots[s] EXCEPT !.state = "current"]
            \/ s = mailCurrent /\ mailSlots'[s] = [mailSlots[s] EXCEPT !.state = IF voice = s THEN "retiring" ELSE "reclaimable"]
            \/ mailSlots'[s] = mailSlots[s]
      BY DEF Mail!Apply
    <3> QED
      BY <3>1, <3>2 DEF SlotRecord, Mail!Apply, Mail!controlVars
  <2> QED
    BY <2>1, NumbersStay
<1>3. Claims'
  BY DEF AudioType, Places
<1>4. Filling'
  BY DEF SlotRecord, Numbered
<1>5. Kept'
  BY DEF SlotRecord, Numbered, Kept, Mail!CancelledNeverPlays
<1>6. Mail!AudioReadsLive'
  BY DEF SlotRecord, Numbered
<1>7. Mail!PendingOwned'
  BY DEF SlotRecord, Numbered, Mail!PendingOwned
<1> QED
  BY <1>1, <1>2, <1>3, <1>4, <1>5, <1>6, <1>7

LEMMA DecidedKeeps ==
  ASSUME Mail!MailboxAssumption, MailIInv, Mail!Decided
  PROVE  MailIInv'
PROOF
<1> USE MailNames DEF Mail!Decided, Mail!At, Mail!Go, Mail!audioVars, Mail!controlVars,
        MailIInv, MailTypes, MailType, ControlType, Claims, Applying, Filling, Mail!AudioReadsLive
<1>1. MailTypes'
  <2>1. decision' \in [frame : Nat, gen : Nat, origin : Nat]
    <3>1. mailLocal \in PatternSlots
      BY DEF MailIInv, MailTypes, Claims, Applying, Mail!Decided, Mail!At
    <3>2. mailSlots[mailLocal].gen \in Nat /\ mailAudio.frame \in Nat
      BY <3>1 DEF MailIInv, MailTypes, SlotRecord, AudioType
    <3> QED
      BY <3>2 DEF MailIInv, MailTypes, Mail!Decided
  <2>2. mailAudio' \in AudioType
    BY DEF AudioType, Places, Mail!MailboxAssumption
  <2>3. UNCHANGED <<mailSlots, mailbox, closed, taken, mailLocal, mailCurrent, control, voice, mailGens>>
    OBVIOUS
  <2> QED
    BY <2>1, <2>2, <2>3
<1>2. Numbered'
  BY DEF SlotRecord, Numbered
<1>3. Claims'
  BY DEF AudioType, Places
<1>4. Filling'
  BY DEF SlotRecord, Numbered
<1>5. Kept'
  BY DEF SlotRecord, Numbered, Kept, Mail!CancelledNeverPlays
<1>6. Mail!AudioReadsLive'
  BY DEF SlotRecord, Numbered
<1>7. Mail!PendingOwned'
  BY DEF SlotRecord, Numbered, Mail!PendingOwned
<1> QED
  BY <1>1, <1>2, <1>3, <1>4, <1>5, <1>6, <1>7

LEMMA AppliedKeeps ==
  ASSUME Mail!MailboxAssumption, MailIInv, Mail!Applied
  PROVE  MailIInv'
PROOF
<1> USE MailNames DEF Mail!Applied, Mail!At, Mail!Go, Mail!audioVars, Mail!controlVars,
        MailIInv, MailTypes, MailType, ControlType, Claims, Applying, Filling, Mail!AudioReadsLive
<1>1. MailTypes'
  <2>1. taken' \in [token : PatternSlots \cup {0}, applying : BOOLEAN]
    OBVIOUS
  <2>2. mailLocal' \in PatternSlots \cup {0}
    OBVIOUS
  <2>3. mailAudio' \in AudioType
    BY DEF AudioType, Places, Mail!MailboxAssumption
  <2>4. UNCHANGED <<mailSlots, mailbox, closed, mailCurrent, decision, control, voice, mailGens>>
    OBVIOUS
  <2> QED
    BY <2>1, <2>2, <2>3, <2>4
<1>2. Numbered'
  BY DEF SlotRecord, Numbered
<1>3. Claims'
  BY DEF AudioType, Places
<1>4. Filling'
  BY DEF SlotRecord, Numbered
<1>5. Kept'
  BY DEF SlotRecord, Numbered, Kept, Mail!CancelledNeverPlays
<1>6. Mail!AudioReadsLive'
  BY DEF SlotRecord, Numbered
<1>7. Mail!PendingOwned'
  BY DEF SlotRecord, Numbered, Mail!PendingOwned
<1> QED
  BY <1>1, <1>2, <1>3, <1>4, <1>5, <1>6, <1>7

LEMMA MailMixKeeps ==
  ASSUME Mail!MailboxAssumption, MailIInv, NEW start \in BOOLEAN, NEW stop \in BOOLEAN, Mail!Mix(start, stop)
  PROVE  MailIInv'
PROOF
<1> USE MailNames DEF Mail!Mix, Mail!Due, Mail!At, Mail!Go, Mail!audioVars, Mail!controlVars,
        MailIInv, MailTypes, MailType, ControlType, Claims, Applying, Filling, Mail!AudioReadsLive
<1>1. MailTypes'
  <2>1. voice' \in PatternSlots \cup {0}
    OBVIOUS
  <2>2. mailSlots' \in [PatternSlots -> SlotRecord]
    BY DEF SlotRecord, Mail!MailboxAssumption
  <2>3. mailAudio' \in AudioType
    <3>1. mailAudio.frame + 1 \in Nat /\ mailAudio.left - 1 \in Int /\ "frame" \in Places
      BY DEF MailIInv, MailTypes, AudioType, Places
    <3>2. mailAudio' = [mailAudio EXCEPT !.pc = "frame", !.frame = mailAudio.frame + 1, !.left = mailAudio.left - 1]
      BY DEF Mail!Mix
    <3> QED
      BY <3>1, <3>2 DEF MailIInv, MailTypes, AudioType
  <2>4. UNCHANGED <<mailbox, closed, taken, mailLocal, mailCurrent, decision, control, mailGens>>
    OBVIOUS
  <2> QED
    BY <2>1, <2>2, <2>3, <2>4
<1>2. Numbered'
  BY DEF SlotRecord, Numbered
<1>3. Claims'
  BY DEF AudioType, Places
<1>4. Filling'
  BY DEF SlotRecord, Numbered
<1>5. Kept'
  BY DEF SlotRecord, Numbered, Kept, Mail!CancelledNeverPlays
<1>6. Mail!AudioReadsLive'
  BY DEF SlotRecord, Numbered
<1>7. Mail!PendingOwned'
  BY DEF SlotRecord, Numbered, Mail!PendingOwned
<1> QED
  BY <1>1, <1>2, <1>3, <1>4, <1>5, <1>6, <1>7

LEMMA EndCallbackKeeps ==
  ASSUME Mail!MailboxAssumption, MailIInv, Mail!EndCallback
  PROVE  MailIInv'
PROOF
<1> USE MailNames DEF Mail!EndCallback, Mail!At, Mail!Go, Mail!audioVars, Mail!controlVars,
        MailIInv, MailTypes, MailType, ControlType, Claims, Applying, Filling, Mail!AudioReadsLive
<1>1. MailTypes'
  <2>1. decision' \in [frame : Nat, gen : Nat, origin : Nat]
    BY DEF MailIInv, MailTypes, AudioType, Mail!EndCallback
  <2>2. mailAudio' \in AudioType
    BY DEF AudioType, Places, Mail!MailboxAssumption
  <2>3. UNCHANGED <<mailSlots, mailbox, closed, taken, mailLocal, mailCurrent, control, voice, mailGens>>
    OBVIOUS
  <2> QED
    BY <2>1, <2>2, <2>3
<1>2. Numbered'
  BY DEF SlotRecord, Numbered
<1>3. Claims'
  BY DEF AudioType, Places
<1>4. Filling'
  BY DEF SlotRecord, Numbered
<1>5. Kept'
  BY DEF SlotRecord, Numbered, Kept, Mail!CancelledNeverPlays
<1>6. Mail!AudioReadsLive'
  BY DEF SlotRecord, Numbered
<1>7. Mail!PendingOwned'
  BY DEF SlotRecord, Numbered, Mail!PendingOwned
<1> QED
  BY <1>1, <1>2, <1>3, <1>4, <1>5, <1>6, <1>7

(* The start frame of a publication is a frame.                                *)
LEMMA TimingType ==
  ASSUME Mail!MailboxAssumption, MailIInv, mailCurrent # 0 => decision.gen = mailSlots[mailCurrent].gen
  PROVE  Mail!Timing.due \in Nat /\ Mail!Timing.after \in Nat
PROOF
<1>1. /\ decision.frame \in Nat /\ decision.origin \in Nat /\ decision.gen \in Nat /\ control.keep \in Nat
      /\ control.audio \in PatternSlots \cup {0} /\ mailCurrent \in PatternSlots \cup {0}
  BY DEF MailIInv, MailTypes, ControlType
<1>2. \A s \in PatternSlots : mailSlots[s].due \in Nat /\ mailSlots[s].gen \in Nat /\ Bar[mailSlots[s].pattern] \in Nat \ {0}
  BY DEF MailIInv, MailTypes, SlotRecord, Mail!MailboxAssumption
<1>3. control.audio # 0 => Mail!NextBar(mailSlots[control.audio].due, decision.frame, Bar[mailSlots[control.audio].pattern]) \in Nat
  BY <1>1, <1>2, BarLine
<1>4. mailCurrent # 0 => Mail!NextBar(decision.origin, decision.frame, Bar[mailSlots[mailCurrent].pattern]) \in Nat
  BY <1>1, <1>2, BarLine
<1> QED
  BY <1>1, <1>2, <1>3, <1>4 DEF Mail!Timing

(* A free slot is nobody's: it may be filled with a number not yet taken.      *)
LEMMA FillSlotKeeps ==
  ASSUME Mail!MailboxAssumption, MailIInv, Mail!FillSlot
  PROVE  MailIInv'
PROOF
<1>1. control.pc = "time" /\ UNCHANGED <<closed, taken, mailLocal, mailCurrent, decision, mailAudio, voice, cancelled>>
  BY DEF Mail!FillSlot, Mail!audioVars
<1>2. CASE (Mail!Again \/ Mail!Rejected) /\ UNCHANGED <<mailSlots, mailGens>>
  BY <1>1, <1>2, AgainKeeps
<1>3. ASSUME mailCurrent # 0 => decision.gen = mailSlots[mailCurrent].gen, NEW s \in PatternSlots, mailSlots[s].state = "empty",
             mailSlots' = [mailSlots EXCEPT ![s] = [state |-> "pending", gen |-> mailGens + 1, pattern |-> control.pattern,
                                                    due |-> Mail!Timing.due, after |-> Mail!Timing.after, switch |-> control.switch]],
             mailGens' = mailGens + 1, control' = [control EXCEPT !.pc = "commit", !.slot = s], mailbox' = mailbox
      PROVE  MailIInv'
  <2> DEFINE n == [state |-> "pending", gen |-> mailGens + 1, pattern |-> control.pattern,
                   due |-> Mail!Timing.due, after |-> Mail!Timing.after, switch |-> control.switch]
  <2>1. n \in SlotRecord /\ n.state = "pending" /\ n.gen = mailGens + 1
    <3>1. Mail!Timing.due \in Nat /\ Mail!Timing.after \in Nat
      BY <1>3, TimingType
    <3> QED
      BY <3>1 DEF MailIInv, MailTypes, ControlType, SlotRecord
  <2>2. mailSlots' = [mailSlots EXCEPT ![s] = n]
    BY <1>3
  <2> HIDE DEF n
  <2>3. mailSlots' \in [PatternSlots -> SlotRecord] /\ mailSlots'[s] = n /\ \A t \in PatternSlots : t # s => mailSlots'[t] = mailSlots[t]
    BY <2>1, <2>2 DEF MailIInv, MailTypes
  <2>4. s \notin {mailbox.token, mailLocal, mailCurrent, voice} /\ s # 0
    BY <1>3, MailNames DEF MailIInv, Mail!AudioReadsLive
  <2>5. control' \in ControlType /\ control'.pc = "commit" /\ control'.slot = s /\ mailGens \in Nat
    BY <1>3 DEF MailIInv, MailTypes, ControlType
  <2>6. MailTypes'
    BY <1>1, <1>3, <2>3, <2>5 DEF MailIInv, MailTypes
  <2>7. Numbered'
    BY <1>1, <1>3, <2>1, <2>3, <2>5 DEF MailIInv, MailTypes, SlotRecord, Numbered
  <2>8. Claims'
    BY <1>1, <1>3 DEF MailIInv, Claims, Applying
  <2>9. mailGens + 1 \notin cancelled
    BY <2>5 DEF MailIInv, Numbered
  <2>10. Filling'
    BY <1>1, <1>3, <2>1, <2>3, <2>4, <2>5, <2>9 DEF Filling
  <2>11. /\ mailbox.token # 0 => mailSlots'[mailbox.token] = mailSlots[mailbox.token]
         /\ mailLocal # 0 => mailSlots'[mailLocal] = mailSlots[mailLocal]
         /\ mailCurrent # 0 => mailSlots'[mailCurrent] = mailSlots[mailCurrent]
         /\ voice # 0 => mailSlots'[voice] = mailSlots[voice]
    BY <2>3, <2>4 DEF MailIInv, MailTypes, MailType
  <2>12. Kept' /\ Mail!AudioReadsLive'
    BY <1>1, <1>3, <2>11 DEF MailIInv, Kept, Mail!CancelledNeverPlays, Mail!AudioReadsLive
  <2>13. Mail!PendingOwned'
    BY <1>1, <1>3, <2>1, <2>3, <2>5 DEF MailIInv, Mail!PendingOwned
  <2> QED
    BY <2>6, <2>7, <2>8, <2>10, <2>12, <2>13 DEF MailIInv
<1>4. \/ (Mail!Again \/ Mail!Rejected) /\ UNCHANGED <<mailSlots, mailGens>>
      \/ /\ mailCurrent # 0 => decision.gen = mailSlots[mailCurrent].gen
         /\ \E s \in PatternSlots :
              /\ mailSlots[s].state = "empty"
              /\ mailSlots' = [mailSlots EXCEPT ![s] = [state |-> "pending", gen |-> mailGens + 1, pattern |-> control.pattern,
                                                        due |-> Mail!Timing.due, after |-> Mail!Timing.after, switch |-> control.switch]]
              /\ mailGens' = mailGens + 1 /\ control' = [control EXCEPT !.pc = "commit", !.slot = s] /\ mailbox' = mailbox
  BY DEF Mail!FillSlot
<1> QED
  BY <1>2, <1>3, <1>4

(* Publication: the mailbox is as it was admitted, so audio holds neither slot.*)
LEMMA CommitPublicationKeeps ==
  ASSUME Mail!MailboxAssumption, MailIInv, Mail!CommitPublication
  PROVE  MailIInv'
PROOF
<1> DEFINE s == control.slot
           old == control.token
<1>1. control.pc = "commit" /\ UNCHANGED <<closed, taken, mailLocal, mailCurrent, decision, mailAudio, voice, mailGens, cancelled>>
  BY DEF Mail!CommitPublication, Mail!audioVars
<1>2. /\ s \in PatternSlots /\ s # 0 /\ mailSlots[s].state = "pending" /\ s \notin {mailbox.token, mailLocal}
      /\ mailSlots[s].gen \notin cancelled /\ s \notin {mailCurrent, voice}
  BY <1>1, MailNames DEF MailIInv, Filling, Mail!AudioReadsLive
<1>3. CASE Mail!StillAdmitted
  <2>1. mailbox.token = old /\ ~mailbox.claimed /\ old \in PatternSlots \cup {0}
    BY <1>3 DEF Mail!StillAdmitted, MailIInv, MailTypes, ControlType
  <2>2. /\ mailbox' = [token |-> s, claimed |-> FALSE, reserved |-> FALSE, invalid |-> FALSE]
        /\ mailSlots' = IF old = 0 THEN mailSlots ELSE [mailSlots EXCEPT ![old].state = "reclaimable"]
        /\ control' = Mail!Resting
    BY <1>3 DEF Mail!CommitPublication, Mail!Superseded
  <2>3. old # 0 => old \in PatternSlots /\ mailSlots[old].state = "pending" /\ old \notin {s, mailLocal, mailCurrent, voice}
    BY <1>2, <2>1 DEF MailIInv, Claims, Mail!AudioReadsLive
  <2>4. mailbox' \in MailType /\ mailbox'.token = s /\ ~mailbox'.claimed
    BY <1>2, <2>2 DEF MailType
  <2>5. control' \in ControlType /\ control'.pc = "idle"
    BY <2>2, RestingFacts
  <2> HIDE DEF s, old
  <2>6. /\ mailSlots' \in [PatternSlots -> SlotRecord]
        /\ \A t \in PatternSlots : t # old => mailSlots'[t] = mailSlots[t]
        /\ old # 0 => mailSlots'[old].state = "reclaimable" /\ mailSlots'[old].gen = mailSlots[old].gen
    BY <2>2, <2>3 DEF MailIInv, MailTypes, SlotRecord
  <2>7. MailTypes'
    BY <1>1, <2>4, <2>5, <2>6 DEF MailIInv, MailTypes
  <2>8. Numbered'
    <3>1. \A t \in PatternSlots : mailSlots'[t].gen = mailSlots[t].gen /\ (mailSlots[t].state = "empty" => mailSlots'[t].state = "empty")
      BY <2>3, <2>6, MailNames
    <3> QED
      BY <1>1, <3>1, NumbersStay
  <2>9. Claims'
    BY <1>1, <2>1, <2>4 DEF MailIInv, Claims, Applying
  <2>10. Filling'
    BY <2>5 DEF Filling
  <2>11. /\ mailSlots'[s] = mailSlots[s] /\ (mailLocal # 0 => mailSlots'[mailLocal] = mailSlots[mailLocal])
         /\ mailCurrent # 0 => mailSlots'[mailCurrent] = mailSlots[mailCurrent]
         /\ voice # 0 => mailSlots'[voice] = mailSlots[voice]
    BY <1>2, <2>3, <2>6, MailNames DEF MailIInv, MailTypes
  <2>12. Kept' /\ Mail!AudioReadsLive'
    BY <1>1, <1>2, <2>4, <2>11 DEF MailIInv, Kept, Mail!CancelledNeverPlays, Mail!AudioReadsLive
  <2>13. Mail!PendingOwned'
    <3>1. \A t \in PatternSlots : mailSlots'[t].state = "pending" => t = s \/ t = mailLocal
      BY <1>1, <2>1, <2>3, <2>6, MailNames DEF MailIInv, Mail!PendingOwned, s
    <3>2. \A t \in PatternSlots : mailSlots'[t].state = "retiring" => voice = t
      BY <2>3, <2>6, MailNames DEF MailIInv, Mail!PendingOwned
    <3> QED
      BY <1>1, <2>4, <3>1, <3>2 DEF Mail!PendingOwned
  <2> QED
    BY <2>7, <2>8, <2>9, <2>10, <2>12, <2>13 DEF MailIInv
<1>4. CASE ~Mail!StillAdmitted
  <2>1. mailSlots' = [mailSlots EXCEPT ![s] = Mail!Empty] /\ control' = [control EXCEPT !.pc = "admit"] /\ mailbox' = Mail!Unreserved
    BY <1>4 DEF Mail!CommitPublication, Mail!Again
  <2>2. mailbox' \in MailType /\ mailbox'.token = mailbox.token /\ (mailbox'.claimed <=> mailbox.claimed)
    BY <2>1, UnreservedFacts DEF MailIInv
  <2>3. control' \in ControlType /\ control'.pc = "admit"
    BY <2>1, StepFacts DEF MailIInv
  <2>4. Mail!Empty \in SlotRecord /\ Mail!Empty.state = "empty" /\ Mail!Empty.gen = 0
    BY DEF Mail!Empty, SlotRecord, Mail!MailboxAssumption
  <2> HIDE DEF s
  <2>5. mailSlots' \in [PatternSlots -> SlotRecord] /\ mailSlots'[s] = Mail!Empty /\ \A t \in PatternSlots : t # s => mailSlots'[t] = mailSlots[t]
    BY <1>2, <2>1, <2>4 DEF MailIInv, MailTypes
  <2>6. MailTypes'
    BY <1>1, <2>2, <2>3, <2>5 DEF MailIInv, MailTypes
  <2>7. Numbered'
    <3>1. mailGens \in Nat
      BY DEF MailIInv, MailTypes
    <3> QED
      BY <1>1, <2>4, <2>5, <3>1 DEF MailIInv, Numbered
  <2>8. Claims' /\ Filling'
    BY <1>1, <2>2, <2>3 DEF MailIInv, Claims, Applying, Filling
  <2>9. /\ mailbox.token # 0 => mailSlots'[mailbox.token] = mailSlots[mailbox.token]
        /\ mailLocal # 0 => mailSlots'[mailLocal] = mailSlots[mailLocal]
        /\ mailCurrent # 0 => mailSlots'[mailCurrent] = mailSlots[mailCurrent]
        /\ voice # 0 => mailSlots'[voice] = mailSlots[voice]
    BY <1>2, <2>5 DEF MailIInv, MailTypes, MailType
  <2>10. Kept' /\ Mail!AudioReadsLive'
    BY <1>1, <2>2, <2>9 DEF MailIInv, Kept, Mail!CancelledNeverPlays, Mail!AudioReadsLive
  <2>11. Mail!PendingOwned'
    BY <1>1, <2>2, <2>4, <2>5 DEF MailIInv, Mail!PendingOwned, s
  <2> QED
    BY <2>6, <2>7, <2>8, <2>10, <2>11 DEF MailIInv
<1> QED
  BY <1>3, <1>4

LEMMA InitMail == ASSUME Mail!MailboxAssumption PROVE Mail!Init => MailIInv
PROOF
<1> SUFFICES ASSUME Mail!Init PROVE MailIInv
  OBVIOUS
<1>1. Mail!Empty \in SlotRecord /\ Mail!Empty.state = "empty" /\ Mail!Empty.gen = 0
  BY DEF Mail!Empty, SlotRecord, Mail!MailboxAssumption
<1>2. \A s \in PatternSlots : mailSlots[s] = Mail!Empty
  BY DEF Mail!Init
<1>3. MailTypes
  <2>1. mailSlots \in [PatternSlots -> SlotRecord]
    BY <1>1 DEF Mail!Init
  <2>2. mailbox \in MailType /\ mailAudio \in AudioType
    BY DEF Mail!Init, MailType, AudioType, Places
  <2>3. taken \in [token : PatternSlots \cup {0}, applying : BOOLEAN] /\ decision \in [frame : Nat, gen : Nat, origin : Nat]
    BY DEF Mail!Init
  <2>4. control \in ControlType
    BY RestingFacts DEF Mail!Init
  <2> QED
    BY <2>1, <2>2, <2>3, <2>4 DEF Mail!Init, MailTypes
<1>4. Numbered
  BY <1>1, <1>2 DEF Mail!Init, Numbered
<1>5. Claims /\ Filling /\ Kept /\ Mail!AudioReadsLive
  BY RestingFacts DEF Mail!Init, Claims, Applying, Filling, Kept, Mail!CancelledNeverPlays, Mail!AudioReadsLive
<1>6. Mail!PendingOwned
  BY <1>1, <1>2 DEF Mail!PendingOwned
<1> QED
  BY <1>3, <1>4, <1>5, <1>6 DEF MailIInv

LEMMA MailStutter == ASSUME MailIInv, UNCHANGED Mail!vars PROVE MailIInv'
PROOF
<1>1. UNCHANGED <<mailSlots, mailbox, closed, taken, mailLocal, mailCurrent, decision, control, mailAudio, voice, mailGens, cancelled>>
  BY DEF Mail!vars
<1>2. MailTypes' /\ Numbered' /\ Claims'
  BY <1>1 DEF MailIInv, MailTypes, Numbered, Claims, Applying
<1>3. Filling' /\ Kept' /\ Mail!AudioReadsLive' /\ Mail!PendingOwned'
  BY <1>1 DEF MailIInv, Filling, Kept, Mail!CancelledNeverPlays, Mail!AudioReadsLive, Mail!PendingOwned
<1> QED
  BY <1>2, <1>3 DEF MailIInv

LEMMA MailStep == ASSUME Mail!MailboxAssumption, MailIInv, [Mail!Next]_(Mail!vars) PROVE MailIInv'
PROOF
<1>1. CASE Mail!ControlStep
  BY <1>1, PublishKeeps, WaitKeeps, ReserveAdmissionKeeps, ObservePendingKeeps, FillSlotKeeps,
     CommitPublicationKeeps,
     CancelKeeps, UnqueueKeeps, UntakeKeeps, MailReclaimKeeps DEF Mail!ControlStep
<1>2. CASE Mail!AudioStep
  <2>1. CASE Mail!Callback \/ Mail!CloseAdmission \/ Mail!Claim \/ Mail!Restore \/ Mail!Take \/ Mail!EmptyMailbox \/ Mail!OpenAdmission
    BY <2>1, MailCallbackKeeps, CloseAdmissionKeeps, ClaimKeeps, RestoreKeeps, TakeKeeps, EmptyMailboxKeeps,
       OpenAdmissionKeeps
  <2>2. CASE Mail!Decide \/ Mail!Apply \/ Mail!Decided \/ Mail!Applied \/ Mail!EndCallback
    BY <2>2, DecideKeeps, ApplyKeeps, DecidedKeeps, AppliedKeeps, EndCallbackKeeps
  <2>3. CASE \E start, stop \in BOOLEAN : Mail!Mix(start, stop)
    BY <2>3, MailMixKeeps
  <2> QED
    BY <1>2, <2>1, <2>2, <2>3 DEF Mail!AudioStep
<1>3. CASE UNCHANGED Mail!vars
  BY <1>3, MailStutter
<1> QED
  BY <1>1, <1>2, <1>3 DEF Mail!Next

(* No Pattern audio holds is ever reclaimed, none is lost, and a cancelled one *)
(* never plays: for any number of slots, publications and frames.              *)
THEOREM PatternsSafe == ASSUME Mail!MailboxAssumption PROVE Mail!Spec => []PatternsLive
PROOF
<1>1. Mail!Init => MailIInv
  BY InitMail
<1>2. MailIInv /\ [Mail!Next]_(Mail!vars) => MailIInv'
  BY MailStep
<1>3. MailIInv => PatternsLive
  BY DEF PatternsLive, MailIInv, Kept, Mail!PatternsLive
<1> QED
  BY <1>1, <1>2, <1>3, PTL DEF Mail!Spec

-------------------------------------------------------------------------------
(* When a switch starts: what it was timed by plays, is what audio will play   *)
(* next, or was cancelled. An admission that audio has not invalidated still   *)
(* sees what audio holds.                                                      *)
Admitting == control.pc \in {"observe", "time", "commit"} /\ ~mailbox.invalid
LocalGone == mailSlots[mailLocal].gen \in cancelled
Refreshing == Admitting => ~mailbox.claimed
Withdrawn == mailLocal # 0 /\ taken.token # mailLocal /\ mailAudio.pc # "take" => LocalGone
Observed ==
  Admitting /\ control.pc = "time" =>
    \/ control.audio = 0 /\ (mailLocal = 0 \/ LocalGone)
    \/ control.audio # 0 /\ control.audio = mailLocal /\ taken.token = mailLocal
    \/ control.audio # 0 /\ control.audio = mailCurrent /\ mailLocal = 0
Follows(a) ==
  \/ a = 0 \/ a \in cancelled
  \/ mailLocal # 0 /\ a = mailSlots[mailLocal].gen
  \/ mailCurrent # 0 /\ a = mailSlots[mailCurrent].gen /\ (mailLocal \in {0, mailCurrent} \/ LocalGone)
Followed ==
  /\ Admitting /\ control.pc = "commit" => Follows(mailSlots[control.slot].after)
  /\ mailbox.token # 0 /\ mailbox.token # mailLocal => Follows(mailSlots[mailbox.token].after)
  /\ mailLocal # 0 /\ mailAudio.pc \notin {"decision", "applied"} =>
       mailSlots[mailLocal].after = 0 \/ mailSlots[mailLocal].after \in cancelled \/ (mailCurrent # 0 /\ mailSlots[mailLocal].after = mailSlots[mailCurrent].gen)
Barred ==
  Admitting /\ control.pc = "commit" /\ mailAudio.pc \notin {"decision", "applied", "close", "claim"}
    /\ mailSlots[control.slot].after = decision.gen /\ decision.gen # 0
  => mailCurrent # 0 /\ Mail!OnBar(control.slot)
SwitchParts == Refreshing /\ Withdrawn /\ Observed /\ Followed /\ Barred
SwitchIInv == MailIInv /\ SwitchParts

(* Looking, giving up or trying again changes nothing of this.                 *)
LEMMA LookTimes ==
  ASSUME SwitchIInv, control'.pc \notin {"observe", "time", "commit"}, mailbox'.token = mailbox.token,
         UNCHANGED <<mailSlots, taken, mailLocal, mailCurrent, decision, mailAudio, cancelled>>
  PROVE  SwitchParts'
PROOF
<1>1. Refreshing' /\ Observed' /\ Barred'
  BY DEF Refreshing, Observed, Barred, Admitting
<1>2. Withdrawn'
  BY DEF SwitchIInv, SwitchParts, Withdrawn, LocalGone
<1>3. Followed'
  BY DEF SwitchIInv, SwitchParts, Followed, Follows, Admitting, LocalGone
<1> QED
  BY <1>1, <1>2, <1>3 DEF SwitchParts

(* What control reads of a start is old, but not too old.                      *)
LEMMA TimingFollows ==
  ASSUME Mail!MailboxAssumption, SwitchIInv, control.pc = "time", mailCurrent # 0 => decision.gen = mailSlots[mailCurrent].gen
  PROVE  /\ Admitting => Follows(Mail!Timing.after)
         /\ Mail!Timing.after = decision.gen /\ decision.gen # 0 =>
              mailCurrent # 0 /\ (Mail!Timing.due - decision.origin) % Bar[mailSlots[mailCurrent].pattern] = 0
PROOF
<1> DEFINE ahead == control.audio # 0 /\ mailSlots[control.audio].gen # decision.gen
           line == Mail!NextBar(decision.origin, decision.frame, Bar[mailSlots[mailCurrent].pattern])
<1>1. CASE ~(control.switch /\ mailCurrent # 0)
  <2>1. Mail!Timing.after = 0
    BY <1>1 DEF Mail!Timing
  <2> QED
    BY <2>1 DEF Follows
<1>2. CASE control.switch /\ mailCurrent # 0 /\ ahead
  <2>1. Mail!Timing.after = mailSlots[control.audio].gen
    BY <1>2 DEF Mail!Timing
  <2>2. Admitting => Follows(mailSlots[control.audio].gen)
    BY <1>2 DEF SwitchIInv, SwitchParts, Observed, Follows
  <2> QED
    BY <1>2, <2>1, <2>2
<1>3. CASE control.switch /\ mailCurrent # 0 /\ ~ahead
  <2>1. Mail!Timing.after = decision.gen /\ Mail!Timing.due = line
    BY <1>3 DEF Mail!Timing
  <2>2. decision.gen = mailSlots[mailCurrent].gen /\ mailCurrent \in PatternSlots
    BY <1>3 DEF SwitchIInv, MailIInv, MailTypes
  <2>3. ASSUME control.audio # 0, control.audio = mailLocal PROVE mailLocal = mailCurrent
    <3>1. mailSlots[mailLocal].gen = mailSlots[mailCurrent].gen /\ mailLocal \in PatternSlots
      BY <1>3, <2>2, <2>3 DEF SwitchIInv, MailIInv, MailTypes
    <3>2. mailSlots[mailLocal].state # "empty" /\ mailSlots[mailCurrent].state # "empty"
      BY <1>3, <2>3 DEF SwitchIInv, MailIInv, Mail!AudioReadsLive
    <3> QED
      BY <2>2, <3>1, <3>2 DEF SwitchIInv, MailIInv, Numbered
  <2>4. Admitting => Follows(decision.gen)
    BY <1>3, <2>2, <2>3 DEF SwitchIInv, SwitchParts, Observed, Follows
  <2>5. Bar[mailSlots[mailCurrent].pattern] \in Nat \ {0} /\ decision.origin \in Nat /\ decision.frame \in Nat
    BY <2>2 DEF SwitchIInv, MailIInv, MailTypes, SlotRecord, Mail!MailboxAssumption
  <2>6. (line - decision.origin) % Bar[mailSlots[mailCurrent].pattern] = 0
    BY <2>5, BarLine
  <2> QED
    BY <1>3, <2>1, <2>4, <2>6
<1> QED
  BY <1>1, <1>2, <1>3

LEMMA PublishTimes ==
  ASSUME Mail!MailboxAssumption, SwitchIInv, MailIInv', NEW r \in Requests, Mail!Publish(r)
  PROVE  SwitchParts'
PROOF
<1> USE MailNames DEF Mail!Publish, Mail!Resting, Mail!At, Mail!Go, Mail!audioVars, Mail!controlVars,
        SwitchIInv, SwitchParts, Refreshing, Admitting, MailIInv, MailTypes, MailType, ControlType, Claims, Applying,
        Mail!AudioReadsLive
<1>1. Refreshing'
  OBVIOUS
<1>2. Withdrawn'
  BY DEF Withdrawn, LocalGone, Filling, Kept
<1>3. Observed'
  BY DEF Observed, LocalGone
<1>4. Followed'
  BY DEF Withdrawn, Observed, Followed, Follows, LocalGone, Filling
<1>5. Barred'
  BY DEF Barred, Mail!OnBar, Filling
<1> QED
  BY <1>1, <1>2, <1>3, <1>4, <1>5

LEMMA WaitTimes ==
  ASSUME Mail!MailboxAssumption, SwitchIInv, MailIInv', Mail!Wait
  PROVE  SwitchParts'
PROOF
<1> USE MailNames DEF Mail!Wait, Mail!At, Mail!Go, Mail!audioVars, Mail!controlVars,
        SwitchIInv, SwitchParts, Refreshing, Admitting, MailIInv, MailTypes, MailType, ControlType, Claims, Applying,
        Mail!AudioReadsLive
<1>1. Refreshing'
  OBVIOUS
<1>2. Withdrawn'
  BY DEF Withdrawn, LocalGone, Filling, Kept
<1>3. Observed'
  BY DEF Observed, LocalGone
<1>4. Followed'
  BY DEF Withdrawn, Observed, Followed, Follows, LocalGone, Filling
<1>5. Barred'
  BY DEF Barred, Mail!OnBar, Filling
<1> QED
  BY <1>1, <1>2, <1>3, <1>4, <1>5

LEMMA ReserveAdmissionTimes ==
  ASSUME Mail!MailboxAssumption, SwitchIInv, MailIInv', Mail!ReserveAdmission
  PROVE  SwitchParts'
PROOF
<1>1. UNCHANGED <<mailSlots, closed, taken, mailLocal, mailCurrent, decision, mailAudio, voice, mailGens, cancelled>>
  BY DEF Mail!ReserveAdmission, Mail!audioVars
<1>2. CASE mailbox.claimed
  <2>1. mailbox' = mailbox /\ control' = [control EXCEPT !.pc = "admit"] /\ control \in ControlType
    BY <1>2 DEF Mail!ReserveAdmission, SwitchIInv, MailIInv, MailTypes
  <2>2. control'.pc = "admit"
    BY <2>1 DEF ControlType
  <2> QED
    BY <1>1, <2>1, <2>2, LookTimes
<1>3. CASE ~mailbox.claimed
  <2>1. /\ mailbox' = [mailbox EXCEPT !.reserved = TRUE, !.invalid = FALSE]
        /\ control' = [control EXCEPT !.pc = "observe", !.token = mailbox.token]
    BY <1>3 DEF Mail!ReserveAdmission
  <2>2. mailbox'.token = mailbox.token /\ ~mailbox'.claimed /\ control'.pc = "observe"
    BY <1>3, <2>1 DEF SwitchIInv, MailIInv, MailTypes, MailType, ControlType
  <2>3. Refreshing' /\ Observed' /\ Barred'
    BY <2>2 DEF Refreshing, Observed, Barred
  <2>4. Withdrawn'
    BY <1>1 DEF SwitchIInv, SwitchParts, Withdrawn, LocalGone
  <2>5. Followed'
    BY <1>1, <2>2 DEF SwitchIInv, SwitchParts, Followed, Follows, Admitting, LocalGone
  <2> QED
    BY <2>3, <2>4, <2>5 DEF SwitchParts
<1> QED
  BY <1>2, <1>3

LEMMA ObservePendingTimes ==
  ASSUME Mail!MailboxAssumption, SwitchIInv, MailIInv', Mail!ObservePending
  PROVE  SwitchParts'
PROOF
<1>1. control.pc = "observe" /\ UNCHANGED <<mailSlots, closed, taken, mailLocal, mailCurrent, decision, mailAudio, voice, mailGens, cancelled>>
  BY DEF Mail!ObservePending, Mail!audioVars
<1>2. CASE (Mail!Again \/ Mail!Rejected)
  <2>1. control'.pc \in {"idle", "admit"}
    BY <1>2, RestingFacts, StepFacts DEF Mail!Again, Mail!Rejected, SwitchIInv, MailIInv
  <2>2. mailbox'.token = mailbox.token
    BY <1>2, UnreservedFacts DEF Mail!Again, Mail!Rejected, SwitchIInv, MailIInv
  <2> QED
    BY <1>1, <1>2, <2>1, <2>2, LookTimes
<1>3. ASSUME mailbox' = mailbox, NEW k \in Nat, control' = [control EXCEPT !.pc = "time", !.audio = taken.token, !.keep = k]
      PROVE  SwitchParts'
  <2>1. control'.pc = "time" /\ control'.audio = taken.token
    BY <1>3 DEF SwitchIInv, MailIInv, MailTypes, ControlType
  <2>2. Refreshing' /\ (Admitting' => Admitting)
    BY <1>1, <1>3, <2>1 DEF SwitchIInv, SwitchParts, Refreshing, Admitting
  <2>3. Withdrawn' /\ Barred'
    BY <1>1, <2>1 DEF SwitchIInv, SwitchParts, Withdrawn, LocalGone, Barred
  <2>4. Followed'
    BY <1>1, <1>3, <2>1 DEF SwitchIInv, SwitchParts, Followed, Follows, Admitting, LocalGone
  <2>5. Admitting => ~mailbox.claimed /\ mailAudio.pc # "take"
    BY DEF SwitchIInv, SwitchParts, Refreshing, MailIInv, Claims
  <2>6. Observed'
    BY <1>1, <2>1, <2>2, <2>5 DEF SwitchIInv, SwitchParts, Observed, Withdrawn, LocalGone, MailIInv, Claims
  <2> QED
    BY <2>2, <2>3, <2>4, <2>6 DEF SwitchParts
<1> QED
  BY <1>2, <1>3, ObservedStart DEF SwitchIInv

LEMMA FillSlotTimes ==
  ASSUME Mail!MailboxAssumption, SwitchIInv, MailIInv', Mail!FillSlot
  PROVE  SwitchParts'
PROOF
<1>1. control.pc = "time" /\ UNCHANGED <<closed, taken, mailLocal, mailCurrent, decision, mailAudio, voice, cancelled>>
  BY DEF Mail!FillSlot, Mail!audioVars
<1>2. CASE (Mail!Again \/ Mail!Rejected) /\ UNCHANGED mailSlots
  <2>1. control'.pc \in {"idle", "admit"}
    BY <1>2, RestingFacts, StepFacts DEF Mail!Again, Mail!Rejected, SwitchIInv, MailIInv
  <2>2. mailbox'.token = mailbox.token
    BY <1>2, UnreservedFacts DEF Mail!Again, Mail!Rejected, SwitchIInv, MailIInv
  <2> QED
    BY <1>1, <1>2, <2>1, <2>2, LookTimes
<1>3. ASSUME NEW s \in PatternSlots, mailSlots[s].state = "empty", mailCurrent # 0 => decision.gen = mailSlots[mailCurrent].gen,
             mailSlots' = [mailSlots EXCEPT ![s] = [state |-> "pending", gen |-> mailGens + 1, pattern |-> control.pattern,
                                                    due |-> Mail!Timing.due, after |-> Mail!Timing.after, switch |-> control.switch]],
             control' = [control EXCEPT !.pc = "commit", !.slot = s], mailbox' = mailbox
      PROVE  SwitchParts'
  <2> DEFINE start == Mail!Timing
  <2>1. control'.pc = "commit" /\ control'.slot = s
    BY <1>3 DEF SwitchIInv, MailIInv, MailTypes, ControlType
  <2>2. s \notin {mailbox.token, mailLocal, mailCurrent}
    BY <1>3, MailNames DEF SwitchIInv, MailIInv, Mail!AudioReadsLive
  <2>3. \A t \in PatternSlots : t # s => mailSlots'[t] = mailSlots[t]
    BY <1>3 DEF SwitchIInv, MailIInv, MailTypes
  <2>4. /\ mailbox.token # 0 => mailSlots'[mailbox.token] = mailSlots[mailbox.token]
        /\ mailLocal # 0 => mailSlots'[mailLocal] = mailSlots[mailLocal]
        /\ mailCurrent # 0 => mailSlots'[mailCurrent] = mailSlots[mailCurrent]
    BY <2>2, <2>3 DEF SwitchIInv, MailIInv, MailTypes, MailType
  <2> HIDE DEF start
  <2>5. mailSlots'[s].after = start.after /\ mailSlots'[s].due = start.due
    BY <1>3 DEF SwitchIInv, MailIInv, MailTypes, start
  <2>6. Admitting' => Admitting
    BY <1>1, <1>3, <2>1 DEF Admitting
  <2>7. /\ Admitting => Follows(start.after)
        /\ start.after = decision.gen /\ decision.gen # 0 =>
             mailCurrent # 0 /\ (start.due - decision.origin) % Bar[mailSlots[mailCurrent].pattern] = 0
    BY <1>1, <1>3, TimingFollows DEF start
  <2>8. Refreshing' /\ Observed'
    BY <1>3, <2>1, <2>6 DEF SwitchIInv, SwitchParts, Refreshing, Observed
  <2>9. Withdrawn'
    BY <1>1, <2>4 DEF SwitchIInv, SwitchParts, Withdrawn, LocalGone
  <2>10. \A a : Follows(a) => Follows(a)'
    BY <1>1, <2>4 DEF Follows, LocalGone
  <2>11. Followed'
    BY <1>1, <1>3, <2>1, <2>4, <2>5, <2>6, <2>7, <2>10 DEF SwitchIInv, SwitchParts, Followed
  <2>12. Barred'
    BY <1>1, <2>1, <2>4, <2>5, <2>7 DEF Barred, Mail!OnBar
  <2> QED
    BY <2>8, <2>9, <2>11, <2>12 DEF SwitchParts
<1>4. \/ (Mail!Again \/ Mail!Rejected) /\ UNCHANGED mailSlots
      \/ \E s \in PatternSlots : /\ mailSlots[s].state = "empty" /\ (mailCurrent # 0 => decision.gen = mailSlots[mailCurrent].gen)
                                 /\ mailSlots' = [mailSlots EXCEPT ![s] = [state |-> "pending", gen |-> mailGens + 1, pattern |-> control.pattern,
                                                           due |-> Mail!Timing.due, after |-> Mail!Timing.after, switch |-> control.switch]]
                                 /\ control' = [control EXCEPT !.pc = "commit", !.slot = s] /\ mailbox' = mailbox
  BY DEF Mail!FillSlot
<1> QED
  BY <1>2, <1>3, <1>4

LEMMA CommitPublicationTimes ==
  ASSUME Mail!MailboxAssumption, SwitchIInv, MailIInv', Mail!CommitPublication
  PROVE  SwitchParts'
PROOF
<1> USE MailNames DEF Mail!CommitPublication, Mail!Again, Mail!Unreserved, Mail!Resting, Mail!Superseded, Mail!StillAdmitted, Mail!Empty, Mail!At, Mail!Go, Mail!audioVars, Mail!controlVars,
        SwitchIInv, SwitchParts, Refreshing, Admitting, MailIInv, MailTypes, MailType, ControlType, Claims, Applying,
        Mail!AudioReadsLive
<1>0. \A s \in PatternSlots : mailSlots[s].state \in {"pending", "current"} /\ mailSlots'[s].state \in {"pending", "current"} =>
        mailSlots'[s].gen = mailSlots[s].gen /\ mailSlots'[s].due = mailSlots[s].due /\ mailSlots'[s].after = mailSlots[s].after /\ mailSlots'[s].pattern = mailSlots[s].pattern
  BY DEF Filling, SlotRecord
<1>1. Refreshing'
  OBVIOUS
<1>2. Withdrawn'
  BY <1>0 DEF Withdrawn, LocalGone, Filling, Kept
<1>3. Observed'
  BY <1>0 DEF Observed, LocalGone
<1>4. Followed'
  <2> HIDE DEF SwitchIInv, SwitchParts, Refreshing, Admitting, MailIInv, MailTypes, MailType, ControlType, Claims, Applying, Mail!AudioReadsLive,
           Mail!CommitPublication, Mail!Again, Mail!Unreserved, Mail!Resting, Mail!Superseded, Mail!StillAdmitted, Mail!Empty
  <2>1. control' = Mail!Resting \/ control' = [control EXCEPT !.pc = "admit"]
    BY DEF Mail!CommitPublication, Mail!Again
  <2>2. control'.pc \in {"idle", "admit"}
    BY <2>1, RestingFacts, StepFacts DEF SwitchIInv, MailIInv
  <2>3. control.pc = "commit" /\ UNCHANGED <<taken, mailLocal, mailCurrent, decision, mailAudio, cancelled>>
    BY DEF Mail!CommitPublication, Mail!audioVars
  <2>4. /\ mailLocal # 0 => mailSlots'[mailLocal].gen = mailSlots[mailLocal].gen /\ mailSlots'[mailLocal].after = mailSlots[mailLocal].after
        /\ mailCurrent # 0 => mailSlots'[mailCurrent].gen = mailSlots[mailCurrent].gen
    BY <1>0, <2>3 DEF SwitchIInv, MailIInv, MailIInv, MailTypes, Mail!AudioReadsLive
  <2>5. \A a : Follows(a) => Follows(a)'
    BY <2>3, <2>4 DEF Follows, LocalGone
  <2>6. mailbox'.token # 0 => \/ mailbox'.token = mailbox.token
                              \/ mailbox'.token = control.slot /\ Admitting
    BY <2>3, UnreservedFacts DEF Mail!CommitPublication, Mail!Again, Mail!StillAdmitted, Admitting,
       SwitchIInv, MailIInv
  <2>7. mailbox'.token # 0 => mailSlots'[mailbox'.token].after = mailSlots[mailbox'.token].after
    BY <1>0, <2>3, <2>6 DEF SwitchIInv, MailIInv, MailTypes, MailType, Mail!AudioReadsLive, Filling
  <2>8. mailbox'.token # 0 /\ mailbox'.token # mailLocal => Follows(mailSlots[mailbox'.token].after)
    BY <2>3, <2>6 DEF SwitchIInv, SwitchParts, Followed
  <2> QED
    BY <2>2, <2>3, <2>4, <2>5, <2>7, <2>8 DEF SwitchIInv, SwitchParts, Followed, Admitting
<1>5. Barred'
  BY <1>0 DEF Barred, Mail!OnBar, Filling
<1> QED
  BY <1>1, <1>2, <1>3, <1>4, <1>5

LEMMA CancelTimes ==
  ASSUME Mail!MailboxAssumption, SwitchIInv, MailIInv', NEW s \in PatternSlots, Mail!Cancel(s)
  PROVE  SwitchParts'
PROOF
<1> USE MailNames DEF Mail!Cancel, Mail!Resting, Mail!At, Mail!Go, Mail!audioVars, Mail!controlVars,
        SwitchIInv, SwitchParts, Refreshing, Admitting, MailIInv, MailTypes, MailType, ControlType, Claims, Applying,
        Mail!AudioReadsLive
<1>1. Refreshing'
  OBVIOUS
<1>2. Withdrawn'
  BY DEF Withdrawn, LocalGone, Filling, Kept
<1>3. Observed'
  BY DEF Observed, LocalGone
<1>4. Followed'
  BY DEF Withdrawn, Observed, Followed, Follows, LocalGone, Filling
<1>5. Barred'
  BY DEF Barred, Mail!OnBar, Filling
<1> QED
  BY <1>1, <1>2, <1>3, <1>4, <1>5

LEMMA UnqueueTimes ==
  ASSUME Mail!MailboxAssumption, SwitchIInv, MailIInv', Mail!Unqueue
  PROVE  SwitchParts'
PROOF
<1> USE MailNames DEF Mail!Unqueue, Mail!Resting, Mail!At, Mail!Go, Mail!audioVars, Mail!controlVars,
        SwitchIInv, SwitchParts, Refreshing, Admitting, MailIInv, MailTypes, MailType, ControlType, Claims, Applying,
        Mail!AudioReadsLive
<1>0. \A s \in PatternSlots : mailSlots[s].state \in {"pending", "current"} /\ mailSlots'[s].state \in {"pending", "current"} =>
        mailSlots'[s].gen = mailSlots[s].gen /\ mailSlots'[s].due = mailSlots[s].due /\ mailSlots'[s].after = mailSlots[s].after /\ mailSlots'[s].pattern = mailSlots[s].pattern
  BY DEF Filling, SlotRecord
<1>1. Refreshing'
  OBVIOUS
<1>2. Withdrawn'
  BY <1>0 DEF Withdrawn, LocalGone, Filling, Kept
<1>3. Observed'
  BY <1>0 DEF Observed, LocalGone
<1>4. Followed'
  BY <1>0 DEF Withdrawn, Observed, Followed, Follows, LocalGone, Filling
<1>5. Barred'
  BY <1>0 DEF Barred, Mail!OnBar, Filling
<1> QED
  BY <1>1, <1>2, <1>3, <1>4, <1>5

LEMMA UntakeTimes ==
  ASSUME Mail!MailboxAssumption, SwitchIInv, MailIInv', Mail!Untake
  PROVE  SwitchParts'
PROOF
<1> USE MailNames DEF Mail!Untake, Mail!TakenBack, Mail!Resting, Mail!At, Mail!Go, Mail!audioVars, Mail!controlVars,
        SwitchIInv, SwitchParts, Refreshing, Admitting, MailIInv, MailTypes, MailType, ControlType, Claims, Applying,
        Mail!AudioReadsLive
<1>1. Refreshing'
  OBVIOUS
<1>2. Withdrawn'
  BY DEF Withdrawn, LocalGone, Filling, Kept
<1>3. Observed'
  BY DEF Observed, LocalGone
<1>4. Followed'
  BY DEF Withdrawn, Observed, Followed, Follows, LocalGone, Filling
<1>5. Barred'
  BY DEF Barred, Mail!OnBar, Filling
<1> QED
  BY <1>1, <1>2, <1>3, <1>4, <1>5

LEMMA ReclaimTimes ==
  ASSUME Mail!MailboxAssumption, SwitchIInv, MailIInv', Mail!Reclaim
  PROVE  SwitchParts'
PROOF
<1> USE MailNames DEF Mail!Reclaim, Mail!Reclaimable, Mail!Empty, Mail!At, Mail!Go, Mail!audioVars, Mail!controlVars,
        SwitchIInv, SwitchParts, Refreshing, Admitting, MailIInv, MailTypes, MailType, ControlType, Claims, Applying,
        Mail!AudioReadsLive
<1>0. \A s \in PatternSlots : mailSlots[s].state \in {"pending", "current"} /\ mailSlots'[s].state \in {"pending", "current"} =>
        mailSlots'[s].gen = mailSlots[s].gen /\ mailSlots'[s].due = mailSlots[s].due /\ mailSlots'[s].after = mailSlots[s].after /\ mailSlots'[s].pattern = mailSlots[s].pattern
  BY DEF Filling, SlotRecord
<1>1. Refreshing'
  OBVIOUS
<1>2. Withdrawn'
  BY <1>0 DEF Withdrawn, LocalGone, Filling, Kept
<1>3. Observed'
  BY <1>0 DEF Observed, LocalGone
<1>4. Followed'
  BY <1>0 DEF Withdrawn, Observed, Followed, Follows, LocalGone, Filling
<1>5. Barred'
  BY <1>0 DEF Barred, Mail!OnBar, Filling
<1> QED
  BY <1>1, <1>2, <1>3, <1>4, <1>5

LEMMA CallbackTimes ==
  ASSUME Mail!MailboxAssumption, SwitchIInv, MailIInv', Mail!Callback
  PROVE  SwitchParts'
PROOF
<1> USE MailNames DEF Mail!Callback, Mail!At, Mail!Go, Mail!audioVars, Mail!controlVars,
        SwitchIInv, SwitchParts, Refreshing, Admitting, MailIInv, MailTypes, MailType, ControlType, Claims, Applying,
        Mail!AudioReadsLive
<1>1. Refreshing'
  OBVIOUS
<1>2. Withdrawn'
  BY DEF Withdrawn, LocalGone, Filling, Kept
<1>3. Observed'
  BY DEF Observed, LocalGone
<1>4. Followed'
  BY DEF Withdrawn, Observed, Followed, Follows, LocalGone, Filling
<1>5. Barred'
  BY DEF Barred, Mail!OnBar, Filling
<1> QED
  BY <1>1, <1>2, <1>3, <1>4, <1>5

LEMMA CloseAdmissionTimes ==
  ASSUME Mail!MailboxAssumption, SwitchIInv, MailIInv', Mail!CloseAdmission
  PROVE  SwitchParts'
PROOF
<1> USE MailNames DEF Mail!CloseAdmission, Mail!At, Mail!Go, Mail!audioVars, Mail!controlVars,
        SwitchIInv, SwitchParts, Refreshing, Admitting, MailIInv, MailTypes, MailType, ControlType, Claims, Applying,
        Mail!AudioReadsLive
<1>1. Refreshing'
  OBVIOUS
<1>2. Withdrawn'
  BY DEF Withdrawn, LocalGone, Filling, Kept
<1>3. Observed'
  BY DEF Observed, LocalGone
<1>4. Followed'
  BY DEF Withdrawn, Observed, Followed, Follows, LocalGone, Filling
<1>5. Barred'
  BY DEF Barred, Mail!OnBar, Filling
<1> QED
  BY <1>1, <1>2, <1>3, <1>4, <1>5

LEMMA ClaimTimes ==
  ASSUME Mail!MailboxAssumption, SwitchIInv, MailIInv', Mail!Claim
  PROVE  SwitchParts'
PROOF
<1> USE MailNames DEF Mail!Claim, Mail!At, Mail!Go, Mail!audioVars, Mail!controlVars,
        SwitchIInv, SwitchParts, Refreshing, Admitting, MailIInv, MailTypes, MailType, ControlType, Claims, Applying,
        Mail!AudioReadsLive
<1>1. Refreshing'
  OBVIOUS
<1>2. Withdrawn'
  BY DEF Withdrawn, LocalGone, Filling, Kept
<1>3. Observed'
  BY DEF Observed, LocalGone
<1>4. Followed'
  BY DEF Withdrawn, Observed, Followed, Follows, LocalGone, Filling
<1>5. Barred'
  BY DEF Barred, Mail!OnBar, Filling
<1> QED
  BY <1>1, <1>2, <1>3, <1>4, <1>5

LEMMA RestoreTimes ==
  ASSUME Mail!MailboxAssumption, SwitchIInv, MailIInv', Mail!Restore
  PROVE  SwitchParts'
PROOF
<1> USE MailNames DEF Mail!Restore, Mail!At, Mail!Go, Mail!audioVars, Mail!controlVars,
        SwitchIInv, SwitchParts, Refreshing, Admitting, MailIInv, MailTypes, MailType, ControlType, Claims, Applying,
        Mail!AudioReadsLive
<1>1. Refreshing'
  OBVIOUS
<1>2. Withdrawn'
  BY DEF Withdrawn, LocalGone, Filling, Kept
<1>3. Observed'
  BY DEF Observed, LocalGone
<1>4. Followed'
  BY DEF Withdrawn, Observed, Followed, Follows, LocalGone, Filling
<1>5. Barred'
  BY DEF Barred, Mail!OnBar, Filling
<1> QED
  BY <1>1, <1>2, <1>3, <1>4, <1>5

LEMMA TakeTimes ==
  ASSUME Mail!MailboxAssumption, SwitchIInv, MailIInv', Mail!Take
  PROVE  SwitchParts'
PROOF
<1> USE MailNames DEF Mail!Take, Mail!At, Mail!Go, Mail!audioVars, Mail!controlVars,
        SwitchIInv, SwitchParts, Refreshing, Admitting, MailIInv, MailTypes, MailType, ControlType, Claims, Applying,
        Mail!AudioReadsLive
<1>1. Refreshing'
  OBVIOUS
<1>2. Withdrawn'
  BY DEF Withdrawn, LocalGone, Filling, Kept
<1>3. Observed'
  BY DEF Observed, LocalGone
<1>4. Followed'
  BY DEF Withdrawn, Observed, Followed, Follows, LocalGone, Filling
<1>5. Barred'
  BY DEF Barred, Mail!OnBar, Filling
<1> QED
  BY <1>1, <1>2, <1>3, <1>4, <1>5

LEMMA EmptyMailboxTimes ==
  ASSUME Mail!MailboxAssumption, SwitchIInv, MailIInv', Mail!EmptyMailbox
  PROVE  SwitchParts'
PROOF
<1> USE MailNames DEF Mail!EmptyMailbox, Mail!At, Mail!Go, Mail!audioVars, Mail!controlVars,
        SwitchIInv, SwitchParts, Refreshing, Admitting, MailIInv, MailTypes, MailType, ControlType, Claims, Applying,
        Mail!AudioReadsLive
<1>1. Refreshing'
  OBVIOUS
<1>2. Withdrawn'
  BY DEF Withdrawn, LocalGone, Filling, Kept
<1>3. Observed'
  BY DEF Observed, LocalGone
<1>4. Followed'
  BY DEF Withdrawn, Observed, Followed, Follows, LocalGone, Filling
<1>5. Barred'
  BY DEF Barred, Mail!OnBar, Filling
<1> QED
  BY <1>1, <1>2, <1>3, <1>4, <1>5

LEMMA OpenAdmissionTimes ==
  ASSUME Mail!MailboxAssumption, SwitchIInv, MailIInv', Mail!OpenAdmission
  PROVE  SwitchParts'
PROOF
<1> USE MailNames DEF Mail!OpenAdmission, Mail!At, Mail!Go, Mail!audioVars, Mail!controlVars,
        SwitchIInv, SwitchParts, Refreshing, Admitting, MailIInv, MailTypes, MailType, ControlType, Claims, Applying,
        Mail!AudioReadsLive
<1>1. Refreshing'
  OBVIOUS
<1>2. Withdrawn'
  BY DEF Withdrawn, LocalGone, Filling, Kept
<1>3. Observed'
  BY DEF Observed, LocalGone
<1>4. Followed'
  BY DEF Withdrawn, Observed, Followed, Follows, LocalGone, Filling
<1>5. Barred'
  BY DEF Barred, Mail!OnBar, Filling
<1> QED
  BY <1>1, <1>2, <1>3, <1>4, <1>5

LEMMA DecideTimes ==
  ASSUME Mail!MailboxAssumption, SwitchIInv, MailIInv', Mail!Decide
  PROVE  SwitchParts'
PROOF
<1> USE MailNames DEF Mail!Decide, Mail!Due, Mail!At, Mail!Go, Mail!audioVars, Mail!controlVars,
        SwitchIInv, SwitchParts, Refreshing, Admitting, MailIInv, MailTypes, MailType, ControlType, Claims, Applying,
        Mail!AudioReadsLive
<1>0. \A s \in PatternSlots : mailSlots[s].state \in {"pending", "current"} /\ mailSlots'[s].state \in {"pending", "current"} =>
        mailSlots'[s].gen = mailSlots[s].gen /\ mailSlots'[s].due = mailSlots[s].due /\ mailSlots'[s].after = mailSlots[s].after /\ mailSlots'[s].pattern = mailSlots[s].pattern
  BY DEF Filling, SlotRecord
<1>1. Refreshing'
  OBVIOUS
<1>2. Withdrawn'
  BY <1>0 DEF Withdrawn, LocalGone, Filling, Kept
<1>3. Observed'
  BY <1>0 DEF Observed, LocalGone
<1>4. Followed'
  BY <1>0 DEF Withdrawn, Observed, Followed, Follows, LocalGone, Filling
<1>5. Barred'
  BY <1>0 DEF Barred, Mail!OnBar, Filling
<1> QED
  BY <1>1, <1>2, <1>3, <1>4, <1>5

LEMMA ApplyTimes ==
  ASSUME Mail!MailboxAssumption, SwitchIInv, MailIInv', Mail!Apply
  PROVE  SwitchParts'
PROOF
<1> USE MailNames DEF Mail!Apply, Mail!At, Mail!Go, Mail!audioVars, Mail!controlVars,
        SwitchIInv, SwitchParts, Refreshing, Admitting, MailIInv, MailTypes, MailType, ControlType, Claims, Applying,
        Mail!AudioReadsLive
<1>0. \A s \in PatternSlots : mailSlots[s].state \in {"pending", "current"} /\ mailSlots'[s].state \in {"pending", "current"} =>
        mailSlots'[s].gen = mailSlots[s].gen /\ mailSlots'[s].due = mailSlots[s].due /\ mailSlots'[s].after = mailSlots[s].after /\ mailSlots'[s].pattern = mailSlots[s].pattern
  BY DEF Filling, SlotRecord
<1>1. Refreshing'
  OBVIOUS
<1>2. Withdrawn'
  BY <1>0 DEF Withdrawn, LocalGone, Filling, Kept
<1>3. Observed'
  BY <1>0 DEF Observed, LocalGone
<1>4. Followed'
  <2> HIDE DEF SwitchIInv, SwitchParts, Refreshing, Admitting, MailIInv, MailTypes, MailType, ControlType, Claims, Applying, Mail!AudioReadsLive
  <2>1. /\ mailAudio.pc = "apply" /\ mailAudio'.pc = "decision" /\ mailCurrent' = mailLocal
        /\ UNCHANGED <<mailbox, closed, taken, mailLocal, decision, control, cancelled>>
    BY DEF Mail!Apply, Mail!At, Mail!Go, Mail!controlVars, SwitchIInv, MailIInv, MailTypes, AudioType
  <2>2. mailLocal \in PatternSlots /\ mailLocal # 0 /\ mailLocal # mailCurrent /\ ~LocalGone
    BY <2>1, MailNames DEF SwitchIInv, MailIInv, MailTypes, Claims, Applying, Mail!AudioReadsLive, Kept,
       LocalGone
  <2>3. \A s \in PatternSlots : mailSlots'[s].gen = mailSlots[s].gen /\ mailSlots'[s].after = mailSlots[s].after
    BY DEF Mail!Apply, SwitchIInv, MailIInv, MailTypes, SlotRecord
  <2>4. \A a : Follows(a) => Follows(a)'
    BY <2>1, <2>2, <2>3 DEF Follows
  <2>5. mailbox.token # 0 => mailbox.token \in PatternSlots
    BY DEF SwitchIInv, MailIInv, MailTypes, MailType
  <2>6. control.pc = "commit" => control.slot \in PatternSlots
    BY DEF SwitchIInv, MailIInv, Filling
  <2> QED
    BY <2>1, <2>3, <2>4, <2>5, <2>6 DEF SwitchIInv, SwitchParts, Followed, Admitting
<1>5. Barred'
  BY <1>0 DEF Barred, Mail!OnBar, Filling
<1> QED
  BY <1>1, <1>2, <1>3, <1>4, <1>5

LEMMA DecidedTimes ==
  ASSUME Mail!MailboxAssumption, SwitchIInv, MailIInv', Mail!Decided
  PROVE  SwitchParts'
PROOF
<1> USE MailNames DEF Mail!Decided, Mail!At, Mail!Go, Mail!audioVars, Mail!controlVars,
        SwitchIInv, SwitchParts, Refreshing, Admitting, MailIInv, MailTypes, MailType, ControlType, Claims, Applying,
        Mail!AudioReadsLive
<1>1. Refreshing'
  OBVIOUS
<1>2. Withdrawn'
  BY DEF Withdrawn, LocalGone, Filling, Kept
<1>3. Observed'
  BY DEF Observed, LocalGone
<1>4. Followed'
  BY DEF Withdrawn, Observed, Followed, Follows, LocalGone, Filling
<1>5. Barred'
  BY DEF Barred, Mail!OnBar, Filling
<1> QED
  BY <1>1, <1>2, <1>3, <1>4, <1>5

LEMMA AppliedTimes ==
  ASSUME Mail!MailboxAssumption, SwitchIInv, MailIInv', Mail!Applied
  PROVE  SwitchParts'
PROOF
<1> USE MailNames DEF Mail!Applied, Mail!At, Mail!Go, Mail!audioVars, Mail!controlVars,
        SwitchIInv, SwitchParts, Refreshing, Admitting, MailIInv, MailTypes, MailType, ControlType, Claims, Applying,
        Mail!AudioReadsLive
<1>1. Refreshing'
  OBVIOUS
<1>2. Withdrawn'
  BY DEF Withdrawn, LocalGone, Filling, Kept
<1>3. Observed'
  BY DEF Observed, LocalGone
<1>4. Followed'
  BY DEF Withdrawn, Observed, Followed, Follows, LocalGone, Filling
<1>5. Barred'
  BY DEF Barred, Mail!OnBar, Filling
<1> QED
  BY <1>1, <1>2, <1>3, <1>4, <1>5

LEMMA MixTimes ==
  ASSUME Mail!MailboxAssumption, SwitchIInv, MailIInv', NEW start \in BOOLEAN, NEW stop \in BOOLEAN, Mail!Mix(start, stop)
  PROVE  SwitchParts'
PROOF
<1> USE MailNames DEF Mail!Mix, Mail!Due, Mail!At, Mail!Go, Mail!audioVars, Mail!controlVars,
        SwitchIInv, SwitchParts, Refreshing, Admitting, MailIInv, MailTypes, MailType, ControlType, Claims, Applying,
        Mail!AudioReadsLive
<1>0. \A s \in PatternSlots : mailSlots[s].state \in {"pending", "current"} /\ mailSlots'[s].state \in {"pending", "current"} =>
        mailSlots'[s].gen = mailSlots[s].gen /\ mailSlots'[s].due = mailSlots[s].due /\ mailSlots'[s].after = mailSlots[s].after /\ mailSlots'[s].pattern = mailSlots[s].pattern
  BY DEF Filling, SlotRecord
<1>1. Refreshing'
  OBVIOUS
<1>2. Withdrawn'
  BY <1>0 DEF Withdrawn, LocalGone, Filling, Kept
<1>3. Observed'
  BY <1>0 DEF Observed, LocalGone
<1>4. Followed'
  BY <1>0 DEF Withdrawn, Observed, Followed, Follows, LocalGone, Filling
<1>5. Barred'
  BY <1>0 DEF Barred, Mail!OnBar, Filling
<1> QED
  BY <1>1, <1>2, <1>3, <1>4, <1>5

LEMMA EndCallbackTimes ==
  ASSUME Mail!MailboxAssumption, SwitchIInv, MailIInv', Mail!EndCallback
  PROVE  SwitchParts'
PROOF
<1> USE MailNames DEF Mail!EndCallback, Mail!At, Mail!Go, Mail!audioVars, Mail!controlVars,
        SwitchIInv, SwitchParts, Refreshing, Admitting, MailIInv, MailTypes, MailType, ControlType, Claims, Applying,
        Mail!AudioReadsLive
<1>1. Refreshing'
  OBVIOUS
<1>2. Withdrawn'
  BY DEF Withdrawn, LocalGone, Filling, Kept
<1>3. Observed'
  BY DEF Observed, LocalGone
<1>4. Followed'
  BY DEF Withdrawn, Observed, Followed, Follows, LocalGone, Filling
<1>5. Barred'
  BY DEF Barred, Mail!OnBar, Filling
<1> QED
  BY <1>1, <1>2, <1>3, <1>4, <1>5

LEMMA InitTimes == ASSUME Mail!MailboxAssumption PROVE Mail!Init => SwitchIInv
PROOF
<1> SUFFICES ASSUME Mail!Init PROVE SwitchIInv
  OBVIOUS
<1>1. MailIInv
  BY InitMail
<1>2. control.pc = "idle" /\ mailbox.token = 0 /\ mailLocal = 0
  BY RestingFacts DEF Mail!Init
<1> QED
  BY <1>1, <1>2 DEF SwitchIInv, SwitchParts, Refreshing, Withdrawn, Observed, Followed, Barred, Admitting

LEMMA StutterTimes == ASSUME SwitchIInv, UNCHANGED Mail!vars PROVE SwitchParts'
PROOF
<1>1. UNCHANGED <<mailSlots, mailbox, taken, mailLocal, mailCurrent, decision, control, mailAudio, cancelled>>
  BY DEF Mail!vars
<1>2. Refreshing' /\ Withdrawn' /\ Observed'
  BY <1>1 DEF SwitchIInv, SwitchParts, Refreshing, Withdrawn, Observed, Admitting, LocalGone
<1>3. Followed' /\ Barred'
  BY <1>1 DEF SwitchIInv, SwitchParts, Followed, Follows, Barred, Mail!OnBar, Admitting, LocalGone
<1> QED
  BY <1>2, <1>3 DEF SwitchParts

LEMMA SwitchStep == ASSUME Mail!MailboxAssumption, SwitchIInv, [Mail!Next]_(Mail!vars) PROVE SwitchIInv'
PROOF
<1>1. MailIInv'
  BY MailStep DEF SwitchIInv
<1>2. CASE Mail!ControlStep
  BY <1>1, <1>2, PublishTimes, WaitTimes, ReserveAdmissionTimes, ObservePendingTimes, FillSlotTimes,
     CommitPublicationTimes,
     CancelTimes, UnqueueTimes, UntakeTimes, ReclaimTimes DEF Mail!ControlStep, SwitchIInv
<1>3. CASE Mail!AudioStep
  <2>1. CASE Mail!Callback \/ Mail!CloseAdmission \/ Mail!Claim \/ Mail!Restore \/ Mail!Take \/ Mail!EmptyMailbox \/ Mail!OpenAdmission
    BY <1>1, <2>1, CallbackTimes, CloseAdmissionTimes, ClaimTimes, RestoreTimes, TakeTimes, EmptyMailboxTimes,
       OpenAdmissionTimes
       DEF SwitchIInv
  <2>2. CASE Mail!Decide \/ Mail!Apply \/ Mail!Decided \/ Mail!Applied \/ Mail!EndCallback
    BY <1>1, <2>2, DecideTimes, ApplyTimes, DecidedTimes, AppliedTimes, EndCallbackTimes DEF SwitchIInv
  <2>3. CASE \E start, stop \in BOOLEAN : Mail!Mix(start, stop)
    BY <1>1, <2>3, MixTimes DEF SwitchIInv
  <2> QED
    BY <1>3, <2>1, <2>2, <2>3 DEF Mail!AudioStep
<1>4. CASE UNCHANGED Mail!vars
  BY <1>1, <1>4, StutterTimes DEF SwitchIInv
<1> QED
  BY <1>2, <1>3, <1>4 DEF Mail!Next

(* While audio rests a publication enters the mailbox in one step only, and    *)
(* then nothing was claimed since it was timed.                                *)
LEMMA EntersOnBar ==
  ASSUME Mail!MailboxAssumption, SwitchIInv, [Mail!Next]_(Mail!vars), control.pc = "commit", mailbox'.token = control.slot, Mail!At("idle"),
         mailSlots[control.slot].after \in {decision.gen} \ {0}
  PROVE  Mail!OnBar(control.slot)
PROOF
<1>1. control.slot # mailbox.token /\ control.slot # 0
  BY MailNames DEF SwitchIInv, MailIInv, Filling
<1>2. CASE Mail!StillAdmitted
  BY <1>2 DEF Mail!StillAdmitted, SwitchIInv, SwitchParts, Barred, Admitting, Mail!At
<1>3. CASE ~Mail!StillAdmitted
  <2>1. CASE Mail!ControlStep
    <3>1. mailbox' = Mail!Unreserved
      BY <1>3, <2>1 DEF Mail!ControlStep, Mail!Publish, Mail!Wait, Mail!ReserveAdmission, Mail!ObservePending,
         Mail!FillSlot, Mail!CommitPublication, Mail!Again,
                        Mail!Cancel, Mail!Unqueue, Mail!Untake, Mail!Reclaim
    <3> QED
      BY <1>1, <3>1, UnreservedFacts DEF SwitchIInv, MailIInv
  <2>2. CASE Mail!AudioStep
    <3>1. mailbox' = mailbox
      BY <2>2 DEF Mail!AudioStep, Mail!At, Mail!Callback, Mail!CloseAdmission, Mail!Claim, Mail!Restore,
         Mail!Take, Mail!EmptyMailbox, Mail!OpenAdmission, Mail!Decide, Mail!Apply,
                  Mail!Decided, Mail!Applied, Mail!Mix, Mail!EndCallback
    <3> QED
      BY <1>1, <3>1
  <2>3. CASE UNCHANGED Mail!vars
    BY <1>1, <2>3 DEF Mail!vars
  <2> QED
    BY <2>1, <2>2, <2>3 DEF Mail!Next
<1> QED
  BY <1>2, <1>3

(* A switch takes effect on a Bar of what plays then, after the Pattern it was *)
(* timed by: for any number of slots, publications and frames.                 *)
THEOREM SwitchesOnBar == ASSUME Mail!MailboxAssumption PROVE Mail!Spec => SwitchOnBar
PROOF
<1> DEFINE committed == control.pc = "commit" /\ mailbox'.token = control.slot
           step == /\ committed /\ Mail!At("idle") /\ mailSlots[control.slot].after \in {decision.gen} \ {0} => Mail!OnBar(control.slot)
                   /\ Mail!At("apply") /\ mailSlots[mailLocal].after # 0 => mailSlots[mailLocal].after \in {mailSlots[mailCurrent].gen} \cup cancelled
<1>1. Mail!Init => SwitchIInv
  BY InitTimes
<1>2. SwitchIInv /\ [Mail!Next]_(Mail!vars) => SwitchIInv'
  BY SwitchStep
<1>3. SwitchIInv /\ [Mail!Next]_(Mail!vars) => [step]_(Mail!vars)
  <2> SUFFICES ASSUME SwitchIInv, [Mail!Next]_(Mail!vars) PROVE step
    OBVIOUS
  <2>1. committed /\ Mail!At("idle") /\ mailSlots[control.slot].after \in {decision.gen} \ {0} => Mail!OnBar(control.slot)
    BY EntersOnBar
  <2>2. Mail!At("apply") /\ mailSlots[mailLocal].after # 0 => mailSlots[mailLocal].after \in {mailSlots[mailCurrent].gen} \cup cancelled
    BY DEF Mail!At, SwitchIInv, SwitchParts, Followed, MailIInv, Claims, Applying
  <2> QED
    BY <2>1, <2>2
<1>4. SwitchOnBar <=> [][step]_(Mail!vars)
  BY DEF SwitchOnBar, Mail!SwitchOnBar
<1> QED
  BY <1>1, <1>2, <1>3, <1>4, PTL DEF Mail!Spec
==============================================================================
