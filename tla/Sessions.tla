------------------------------- MODULE Sessions -------------------------------
(* Sessions with a peer: the runtime facade and the transfer of content to    *)
(* the Cardputer, with what they promise and the proofs that they do, for     *)
(* every bound on pending commands, sequences and epochs and for any contents *)
(* and frames.                                                                *)
EXTENDS RuntimeFacade, Integers, SequenceTheorems, TLAPS

CONSTANTS None, Byte, Contents, Transfer, MaxChunk, MaxBytes, MaxSession, Timeout
VARIABLES mode, armed, content, owned, silent, running, active, nonce, transaction, staged, receivedOffset,
          idle, answer, origin
usbVars == <<mode, armed, content, owned, silent, running, active, nonce, transaction, staged, receivedOffset,
            idle, answer, origin>>

Usb == INSTANCE CardputerTransfer
-------------------------------------------------------------------------------
(* The device runs only whole content, of the session that sent it, with the  *)
(* consent of its user (CardputerTransfer).                                   *)
TransferSound == Usb!TransferSound
-------------------------------------------------------------------------------
(* The runtime facade.                                                        *)
Live == phase \in {"running", "draining"}

(* Commands in the engine: accepted ones and the one being recorded           *)
Enqueued == IF control = "recording" THEN accepted + 1 ELSE accepted

(* The gate follows the phase and the callback.                               *)
GateInv ==
    /\ open <=> phase = "running"
    /\ busy <=> callback # "outside"
    /\ callback # "outside" => Live
    /\ phase # "empty" => engine
    /\ control = "recording" => phase = "running"

(* What has been consumed, published and copied                               *)
CountInv ==
    /\ Len(applied) <= Enqueued
    /\ Enqueued <= MaxSequence
    /\ Enqueued <= Len(receipts) + MaxPending
    /\ consumed <= Len(applied)
    /\ callback \in {"outside", "leaving"} => consumed = Len(applied)
    /\ control \in {"draining", "retiring"} => loaded <= consumed
    /\ Live => Len(receipts) <= Len(applied)

(* The control ring holds the commands the engine has not consumed.           *)
ControlInv ==
    IF Live
    THEN /\ Len(controls) = Enqueued - Len(applied)
         /\ \A i \in 1 .. Len(controls) : controls[i] = Len(applied) + i
    ELSE controls = <<>> /\ outcomes = <<>>

(* The outcome ring holds outcomes of commands without a receipt; while poll()*)
(* retires, of commands it does not count as consumed.                        *)
OutcomeInv ==
    \A e \in 1 .. Len(outcomes) :
        /\ Len(receipts) + e <= outcomes[e].sequence
        /\ outcomes[e].sequence <= Len(applied)
        /\ outcomes[e].outcome = applied[outcomes[e].sequence]
        /\ control = "retiring" => loaded + e <= outcomes[e].sequence

(* Pending commands are in order, and none has a wrong outcome.               *)
PendingInv ==
    \A i \in 1 .. Len(pending) :
        /\ pending[i].sequence = Len(receipts) + i
        /\ Len(receipts) + i <= Len(applied) =>
              pending[i].outcome \in {"applied", applied[Len(receipts) + i]}
        /\ Len(receipts) + i > Len(applied) =>
              pending[i].outcome = IF Live THEN "applied" ELSE "cancelled"

(* An outcome is in the ring until it is noted.                               *)
CoverInv ==
    \A n \in Len(receipts) + 1 .. Len(applied) :
        \/ applied[n] = "applied"
        \/ \E e \in 1 .. Len(outcomes) : outcomes[e].sequence = n
        \/ n <= accepted /\ pending[n - Len(receipts)].outcome = applied[n]

(* The inductive invariant                                                    *)
IInv == /\ TypeOK /\ GateInv /\ CountInv /\ ControlInv /\ OutcomeInv /\ PendingInv
        /\ CoverInv /\ ReceiptsExact

(* What a sequence with one more element is                                   *)
LEMMA AppendFacts ==
    ASSUME NEW S, NEW s \in Seq(S), NEW x \in S
    PROVE  /\ Append(s, x) \in Seq(S)
           /\ Len(Append(s, x)) = Len(s) + 1
           /\ \A i \in 1 .. Len(s) : Append(s, x)[i] = s[i]
           /\ Append(s, x)[Len(s) + 1] = x
  OBVIOUS

(* A function on 1 .. n is a sequence.                                        *)
LEMMA MapFacts ==
    ASSUME NEW S, NEW n \in Nat, NEW f \in [1 .. n -> S]
    PROVE  f \in Seq(S) /\ Len(f) = n
  OBVIOUS

(* What is left without the head of a sequence                                *)
LEMMA TailFacts ==
    ASSUME NEW S, NEW s \in Seq(S), s # <<>>
    PROVE  /\ Tail(s) \in Seq(S)
           /\ Len(s) \in Nat /\ Len(s) >= 1
           /\ Len(Tail(s)) = Len(s) - 1
           /\ \A i \in 1 .. Len(s) - 1 : Tail(s)[i] = s[i + 1]
           /\ Head(s) = s[1] /\ Head(s) \in S
  OBVIOUS

(* The lengths are numbers, and the invariant bounds them.                    *)
LEMMA Lengths ==
    ASSUME IInv
    PROVE  /\ Len(applied) \in Nat /\ Len(pending) \in Nat /\ Len(receipts) \in Nat
           /\ Len(outcomes) \in Nat /\ Len(controls) \in Nat
           /\ MaxPending \in Nat /\ MaxSequence \in Nat /\ MaxEpoch \in Nat
           /\ accepted \in Nat /\ consumed \in Nat /\ loaded \in Nat
           /\ Len(receipts) + Len(pending) = accepted
  BY PendingAssumption, SequenceAssumption, EpochAssumption DEF IInv, TypeOK, ReceiptsExact

(* A new Facade satisfies the invariant.                                      *)
LEMMA InitIInv == Init => IInv
<1> SUFFICES ASSUME Init PROVE IInv
  OBVIOUS
<1> USE PendingAssumption, SequenceAssumption, EpochAssumption DEF Init
<1>1. TypeOK
  <2>1. <<>> \in Seq(Item) /\ <<>> \in Seq(1 .. MaxSequence) /\ <<>> \in Seq(Disposition)
    OBVIOUS
  <2>2. Len(<<>>) <= MaxPending /\ 0 \in 0 .. MaxEpoch /\ 0 \in 0 .. MaxSequence
    OBVIOUS
  <2> QED
    BY <2>1, <2>2 DEF TypeOK
<1>2. GateInv /\ CountInv /\ ControlInv /\ OutcomeInv /\ PendingInv
  BY DEF GateInv, CountInv, ControlInv, OutcomeInv, PendingInv, Live, Enqueued
<1>3. CoverInv
  <2>1. Len(applied) = 0 /\ Len(receipts) = 0
    OBVIOUS
  <2> QED
    BY <2>1 DEF CoverInv
<1>4. ReceiptsExact
  BY DEF ReceiptsExact
<1> QED
  BY <1>1, <1>2, <1>3, <1>4 DEF IInv

(* submit() records a command the engine may have consumed already.           *)
LEMMA SubmitRecordIInv == IInv /\ SubmitRecord => IInv'
<1> SUFFICES ASSUME IInv, SubmitRecord PROVE IInv'
  OBVIOUS
<1> DEFINE x == [sequence |-> accepted + 1, outcome |-> "applied"]
<1>n. /\ Len(applied) \in Nat /\ Len(pending) \in Nat /\ Len(receipts) \in Nat
      /\ Len(outcomes) \in Nat /\ accepted \in Nat /\ MaxSequence \in Nat /\ MaxPending \in Nat
      /\ Len(receipts) + Len(pending) = accepted
  BY Lengths
<1>u. /\ control = "recording" /\ control' = "idle" /\ accepted' = accepted + 1
      /\ phase = "running" /\ accepted + 1 <= MaxSequence
      /\ accepted + 1 <= Len(receipts) + MaxPending
      /\ Len(applied) <= accepted + 1
      /\ UNCHANGED <<phase, engine, epoch, open, busy, consumed, controls, outcomes, applied,
                     loaded, callback, receipts>>
  BY DEF SubmitRecord, IInv, GateInv, CountInv, Enqueued, lifecycle, gate
<1>x. x \in Item
  BY <1>n, <1>u DEF Item, Disposition
<1>p. /\ pending' \in Seq(Item)
      /\ Len(pending') = Len(pending) + 1
      /\ \A i \in 1 .. Len(pending) : pending'[i] = pending[i]
      /\ pending'[Len(pending) + 1] = x
  BY <1>x, AppendFacts DEF SubmitRecord, IInv, TypeOK
<1>1. TypeOK'
  BY <1>n, <1>u, <1>p DEF IInv, TypeOK
<1>2. GateInv' /\ CountInv' /\ ControlInv' /\ OutcomeInv'
  BY <1>n, <1>u DEF IInv, GateInv, CountInv, ControlInv, OutcomeInv, Live, Enqueued
<1>3. PendingInv'
  <2> SUFFICES ASSUME NEW i \in 1 .. Len(pending')
               PROVE  /\ pending'[i].sequence = Len(receipts) + i
                      /\ Len(receipts) + i <= Len(applied) =>
                            pending'[i].outcome \in {"applied", applied[Len(receipts) + i]}
                      /\ Len(receipts) + i > Len(applied) => pending'[i].outcome = "applied"
    BY <1>u DEF PendingInv, Live
  <2>1. CASE i \in 1 .. Len(pending)
    BY <2>1, <1>u, <1>p DEF IInv, PendingInv, Live
  <2>2. CASE i = Len(pending) + 1
    <3>1. pending'[i].sequence = accepted + 1 /\ pending'[i].outcome = "applied"
      BY <2>2, <1>p
    <3> QED
      BY <3>1, <2>2, <1>n
  <2> QED
    BY <2>1, <2>2, <1>n, <1>p
<1>4. CoverInv'
  <2> SUFFICES ASSUME NEW n \in Len(receipts) + 1 .. Len(applied)
               PROVE  \/ applied[n] = "applied"
                      \/ \E e \in 1 .. Len(outcomes) : outcomes[e].sequence = n
                      \/ n <= accepted' /\ pending'[n - Len(receipts)].outcome = applied[n]
    BY <1>u DEF CoverInv
  <2>1. \/ applied[n] = "applied"
        \/ \E e \in 1 .. Len(outcomes) : outcomes[e].sequence = n
        \/ n <= accepted /\ pending[n - Len(receipts)].outcome = applied[n]
    BY DEF IInv, CoverInv
  <2>2. n <= accepted => n <= accepted' /\ n - Len(receipts) \in 1 .. Len(pending)
    BY <1>n, <1>u
  <2> QED
    BY <2>1, <2>2, <1>p
<1>5. ReceiptsExact'
  BY <1>n, <1>u, <1>p DEF IInv, ReceiptsExact, Outcome
<1> QED
  BY <1>1, <1>2, <1>3, <1>4, <1>5 DEF IInv

(* poll() notes the oldest outcome in the ring.                               *)
LEMMA PollDrainIInv == IInv /\ PollDrain => IInv'
<1> SUFFICES ASSUME IInv, PollDrain PROVE IInv'
  OBVIOUS
<1> DEFINE s == outcomes[1].sequence
<1>n. /\ Len(applied) \in Nat /\ Len(pending) \in Nat /\ Len(receipts) \in Nat
      /\ Len(outcomes) \in Nat /\ accepted \in Nat /\ MaxSequence \in Nat /\ MaxPending \in Nat
      /\ Len(receipts) + Len(pending) = accepted
  BY Lengths
<1>u. /\ control = "draining" /\ outcomes # <<>>
      /\ UNCHANGED <<phase, engine, epoch, accepted, open, busy, consumed, controls, applied,
                     control, loaded, callback, receipts>>
      /\ Len(applied) <= accepted
  BY DEF PollDrain, IInv, CountInv, Enqueued, lifecycle, gate
<1>o. /\ outcomes' \in Seq(Item) /\ Len(outcomes) >= 1
      /\ Len(outcomes') = Len(outcomes) - 1
      /\ \A e \in 1 .. Len(outcomes) - 1 : outcomes'[e] = outcomes[e + 1]
      /\ Head(outcomes) = outcomes[1] /\ outcomes[1] \in Item
  BY <1>u, TailFacts DEF PollDrain, IInv, TypeOK
<1>s. /\ s \in Nat /\ s >= Len(receipts) + 1 /\ s <= Len(applied)
      /\ outcomes[1].outcome = applied[s]
  BY <1>n, <1>o DEF IInv, OutcomeInv, Item
<1>p. pending' = [i \in 1 .. Len(pending) |->
                    IF pending[i].sequence = s
                    THEN [pending[i] EXCEPT !.outcome = applied[s]] ELSE pending[i]]
  <2>1. pending' = [i \in DOMAIN pending |->
                      IF pending[i].sequence = s
                      THEN [pending[i] EXCEPT !.outcome = applied[s]] ELSE pending[i]]
    <3>1. /\ DOMAIN <<outcomes[1]>> = {1} /\ <<outcomes[1]>>[1] = outcomes[1]
      OBVIOUS
    <3>2. pending' = Noted(<<outcomes[1]>>)
      BY <1>o DEF PollDrain
    <3> QED
      BY <3>1, <3>2, <1>s DEF Noted
  <2>2. DOMAIN pending = 1 .. Len(pending)
    BY DEF IInv, TypeOK
  <2> QED
    BY <2>1, <2>2
<1>q. /\ pending' \in Seq(Item) /\ Len(pending') = Len(pending)
      /\ \A i \in 1 .. Len(pending) : pending'[i].sequence = pending[i].sequence
  <2>1. \A i \in 1 .. Len(pending) : pending[i] \in Item
    BY DEF IInv, TypeOK
  <2>2. applied[s] \in Disposition
    BY <1>s DEF IInv, TypeOK
  <2>3. \A i \in 1 .. Len(pending) : pending'[i] \in Item /\ pending'[i].sequence = pending[i].sequence
    BY <2>1, <2>2, <1>p DEF Item
  <2>4. pending' \in [1 .. Len(pending) -> Item]
    BY <2>3, <1>p
  <2> QED
    BY <2>3, <2>4, <1>n, MapFacts
<1> HIDE DEF s
<1>i. \A i \in 1 .. Len(pending) : pending[i].sequence = Len(receipts) + i
  BY DEF IInv, PendingInv
<1>v. \A i \in 1 .. Len(pending) :
          pending'[i].outcome = IF Len(receipts) + i = s THEN applied[s] ELSE pending[i].outcome
  <2>1. \A i \in 1 .. Len(pending) : pending[i] \in Item
    BY DEF IInv, TypeOK
  <2> QED
    BY <2>1, <1>p, <1>i DEF Item
<1>1. TypeOK'
  BY <1>n, <1>u, <1>o, <1>q DEF IInv, TypeOK
<1>2. GateInv' /\ CountInv' /\ ControlInv'
  <2>1. ControlInv'
    BY <1>u, <1>o DEF IInv, ControlInv, Live, Enqueued
  <2> QED
    BY <2>1, <1>n, <1>u DEF IInv, GateInv, CountInv, Live, Enqueued
<1>3. OutcomeInv'
  <2> SUFFICES ASSUME NEW e \in 1 .. Len(outcomes')
               PROVE  /\ Len(receipts) + e <= outcomes'[e].sequence
                      /\ outcomes'[e].sequence <= Len(applied)
                      /\ outcomes'[e].outcome = applied[outcomes'[e].sequence]
    BY <1>u DEF OutcomeInv
  <2>1. outcomes'[e] = outcomes[e + 1] /\ e + 1 \in 1 .. Len(outcomes)
    BY <1>n, <1>o
  <2>2. outcomes[e + 1].sequence \in Nat
    <3>1. outcomes[e + 1] \in Item
      BY <2>1 DEF IInv, TypeOK
    <3> QED
      BY <3>1, <1>n DEF Item
  <2> QED
    BY <2>1, <2>2, <1>n DEF IInv, OutcomeInv
<1>4. PendingInv'
  <2> SUFFICES ASSUME NEW i \in 1 .. Len(pending)
               PROVE  /\ pending'[i].sequence = Len(receipts) + i
                      /\ Len(receipts) + i <= Len(applied) =>
                            pending'[i].outcome \in {"applied", applied[Len(receipts) + i]}
                      /\ Len(receipts) + i > Len(applied) =>
                            pending'[i].outcome = IF Live THEN "applied" ELSE "cancelled"
    BY <1>u, <1>q DEF PendingInv, Live
  <2>1. /\ Len(receipts) + i <= Len(applied) =>
              pending[i].outcome \in {"applied", applied[Len(receipts) + i]}
        /\ Len(receipts) + i > Len(applied) =>
              pending[i].outcome = IF Live THEN "applied" ELSE "cancelled"
    BY DEF IInv, PendingInv
  <2>2. CASE Len(receipts) + i = s
    BY <2>2, <1>n, <1>q, <1>i, <1>v, <1>s
  <2>3. CASE Len(receipts) + i # s
    <3>1. pending'[i].outcome = pending[i].outcome
      BY <2>3, <1>v
    <3> QED
      BY <3>1, <2>1, <1>q, <1>i
  <2> QED
    BY <2>2, <2>3
<1>5. CoverInv'
  <2> SUFFICES ASSUME NEW n \in Len(receipts) + 1 .. Len(applied)
               PROVE  \/ applied[n] = "applied"
                      \/ \E e \in 1 .. Len(outcomes') : outcomes'[e].sequence = n
                      \/ n <= accepted /\ pending'[n - Len(receipts)].outcome = applied[n]
    BY <1>u DEF CoverInv
  <2>0. /\ n <= accepted /\ n - Len(receipts) \in 1 .. Len(pending)
        /\ Len(receipts) + (n - Len(receipts)) = n
    BY <1>n, <1>u
  <2>1. CASE n = s
    BY <2>0, <2>1, <1>v
  <2>2. CASE n # s
    <3>1. pending'[n - Len(receipts)].outcome = pending[n - Len(receipts)].outcome
      BY <2>0, <2>2, <1>v
    <3>2. ASSUME NEW e \in 1 .. Len(outcomes), outcomes[e].sequence = n
          PROVE  \E f \in 1 .. Len(outcomes') : outcomes'[f].sequence = n
      <4>1. e # 1
        BY <3>2, <2>2 DEF s
      <4>2. e - 1 \in 1 .. Len(outcomes') /\ outcomes'[e - 1] = outcomes[(e - 1) + 1]
        BY <4>1, <1>n, <1>o
      <4>3. (e - 1) + 1 = e
        BY <1>n
      <4> QED
        BY <4>2, <4>3, <3>2
    <3> QED
      BY <3>1, <3>2 DEF IInv, CoverInv
  <2> QED
    BY <2>1, <2>2
<1>6. ReceiptsExact'
  BY <1>u, <1>q DEF IInv, ReceiptsExact, Outcome
<1> QED
  BY <1>1, <1>2, <1>3, <1>4, <1>5, <1>6 DEF IInv

(* poll() gives out the oldest receipt: its command's outcome is not in the   *)
(* ring any more.                                                             *)
LEMMA PollRetireIInv == IInv /\ PollRetire => IInv'
<1> SUFFICES ASSUME IInv, PollRetire PROVE IInv'
  OBVIOUS
<1>n. /\ Len(applied) \in Nat /\ Len(pending) \in Nat /\ Len(receipts) \in Nat
      /\ Len(outcomes) \in Nat /\ Len(controls) \in Nat
      /\ accepted \in Nat /\ consumed \in Nat /\ loaded \in Nat
      /\ MaxSequence \in Nat /\ MaxPending \in Nat
      /\ Len(receipts) + Len(pending) = accepted
  BY Lengths
<1>u. /\ control = "retiring" /\ pending # <<>>
      /\ UNCHANGED <<phase, engine, epoch, accepted, open, busy, consumed, controls, outcomes,
                     applied, control, loaded, callback>>
      /\ Len(applied) <= accepted /\ loaded <= Len(applied)
  BY <1>n DEF PollRetire, IInv, CountInv, Enqueued, lifecycle, gate
<1>p. /\ pending' \in Seq(Item) /\ Len(pending) >= 1
      /\ Len(pending') = Len(pending) - 1
      /\ \A i \in 1 .. Len(pending) - 1 : pending'[i] = pending[i + 1]
      /\ Head(pending) = pending[1] /\ pending[1] \in Item
  BY <1>u, TailFacts DEF PollRetire, IInv, TypeOK
<1>r. /\ receipts' \in Seq(Item) /\ Len(receipts') = Len(receipts) + 1
      /\ \A n \in 1 .. Len(receipts) : receipts'[n] = receipts[n]
      /\ receipts'[Len(receipts) + 1] = pending[1]
  BY <1>p, AppendFacts DEF PollRetire, IInv, TypeOK
<1>h. /\ pending[1].sequence = Len(receipts) + 1
      /\ Len(receipts) + 1 <= Len(applied) =>
            pending[1].outcome \in {"applied", applied[Len(receipts) + 1]}
      /\ Len(receipts) + 1 > Len(applied) =>
            pending[1].outcome = IF Live THEN "applied" ELSE "cancelled"
      /\ Len(receipts) + 1 <= loaded \/ pending[1].outcome = "cancelled"
  BY <1>n, <1>p DEF PollRetire, Ready, IInv, PendingInv
<1>c. Len(receipts) + 1 <= Len(applied) => applied[Len(receipts) + 1] \in Disposition
  BY <1>n DEF IInv, TypeOK
<1>a. ASSUME Len(receipts) + 1 <= loaded
      PROVE   /\ pending[1].outcome = Outcome(Len(receipts) + 1)
              /\ Live => Len(receipts) + 1 <= Len(applied)
              /\ \A e \in 1 .. Len(outcomes) : Len(receipts) + 1 + e <= outcomes[e].sequence
  <2>1. Len(receipts) + 1 \in Len(receipts) + 1 .. Len(applied)
    BY <1>a, <1>n, <1>u
  <2>2. ~ \E e \in 1 .. Len(outcomes) : outcomes[e].sequence = Len(receipts) + 1
    BY <1>a, <1>n, <1>u DEF IInv, OutcomeInv
  <2>3. \/ applied[Len(receipts) + 1] = "applied"
        \/ pending[(Len(receipts) + 1) - Len(receipts)].outcome = applied[Len(receipts) + 1]
    BY <2>1, <2>2 DEF IInv, CoverInv
  <2>4. pending[1].outcome = applied[Len(receipts) + 1]
    <3>1. (Len(receipts) + 1) - Len(receipts) = 1
      BY <1>n
    <3> QED
      BY <3>1, <2>1, <2>3, <1>h, <1>n
  <2>5. pending[1].outcome = Outcome(Len(receipts) + 1) /\ Len(receipts) + 1 <= Len(applied)
    BY <2>1, <2>4, <1>n DEF Outcome
  <2>6. \A e \in 1 .. Len(outcomes) : Len(receipts) + 1 + e <= outcomes[e].sequence
    <3> SUFFICES ASSUME NEW e \in 1 .. Len(outcomes)
                 PROVE  Len(receipts) + 1 + e <= outcomes[e].sequence
      OBVIOUS
    <3>1. loaded + e <= outcomes[e].sequence
      BY <1>u DEF IInv, OutcomeInv
    <3>2. outcomes[e].sequence \in Nat
      <4>1. outcomes[e] \in Item
        BY DEF IInv, TypeOK
      <4> QED
        BY <4>1, <1>n DEF Item
    <3> QED
      BY <3>1, <3>2, <1>a, <1>n
  <2> QED
    BY <2>5, <2>6
<1>b. ASSUME Len(receipts) + 1 > loaded
      PROVE   /\ pending[1].outcome = Outcome(Len(receipts) + 1)
              /\ Live => Len(receipts) + 1 <= Len(applied)
              /\ \A e \in 1 .. Len(outcomes) : Len(receipts) + 1 + e <= outcomes[e].sequence
  <2>1. pending[1].outcome = "cancelled"
    BY <1>b, <1>h, <1>n
  <2>2. Len(receipts) + 1 > Len(applied) /\ ~Live
    BY <2>1, <1>c, <1>h, <1>n DEF Disposition
  <2>3. outcomes = <<>>
    BY <2>2 DEF IInv, ControlInv
  <2> QED
    BY <2>1, <2>2, <2>3, <1>n DEF Outcome
<1>d. /\ pending[1].outcome = Outcome(Len(receipts) + 1)
      /\ Live => Len(receipts) + 1 <= Len(applied)
      /\ \A e \in 1 .. Len(outcomes) : Len(receipts) + 1 + e <= outcomes[e].sequence
  BY <1>a, <1>b, <1>n
<1>1. TypeOK'
  BY <1>n, <1>u, <1>p, <1>r DEF IInv, TypeOK
<1>2. GateInv' /\ CountInv' /\ ControlInv'
  <2>1. GateInv' /\ ControlInv'
    BY <1>u DEF IInv, GateInv, ControlInv, Live, Enqueued
  <2>2. CountInv'
    BY <1>n, <1>u, <1>r, <1>d DEF IInv, CountInv, Live, Enqueued
  <2> QED
    BY <2>1, <2>2
<1>3. OutcomeInv'
  BY <1>u, <1>r, <1>d DEF IInv, OutcomeInv
<1>4. PendingInv'
  <2> SUFFICES ASSUME NEW i \in 1 .. Len(pending')
               PROVE  /\ pending'[i].sequence = Len(receipts') + i
                      /\ Len(receipts') + i <= Len(applied) =>
                            pending'[i].outcome \in {"applied", applied[Len(receipts') + i]}
                      /\ Len(receipts') + i > Len(applied) =>
                            pending'[i].outcome = IF Live THEN "applied" ELSE "cancelled"
    BY <1>u DEF PendingInv, Live
  <2>1. /\ pending'[i] = pending[i + 1] /\ i + 1 \in 1 .. Len(pending)
        /\ Len(receipts') + i = Len(receipts) + (i + 1)
    BY <1>n, <1>p, <1>r
  <2> QED
    BY <2>1 DEF IInv, PendingInv
<1>5. CoverInv'
  <2> SUFFICES ASSUME NEW n \in Len(receipts') + 1 .. Len(applied)
               PROVE  \/ applied[n] = "applied"
                      \/ \E e \in 1 .. Len(outcomes) : outcomes[e].sequence = n
                      \/ n <= accepted /\ pending'[n - Len(receipts')].outcome = applied[n]
    BY <1>u DEF CoverInv
  <2>1. /\ n \in Len(receipts) + 1 .. Len(applied) /\ n <= accepted
        /\ n - Len(receipts') \in 1 .. Len(pending) - 1
        /\ (n - Len(receipts')) + 1 = n - Len(receipts)
    BY <1>n, <1>u, <1>r
  <2>2. pending'[n - Len(receipts')] = pending[n - Len(receipts)]
    BY <2>1, <1>p
  <2> QED
    BY <2>1, <2>2 DEF IInv, CoverInv
<1>6. ReceiptsExact'
  <2>1. receipts'[Len(receipts) + 1] =
            [sequence |-> Len(receipts) + 1, outcome |-> Outcome(Len(receipts) + 1)]
    BY <1>r, <1>h, <1>d, <1>p DEF Item
  <2>2. \A n \in 1 .. Len(receipts) : receipts[n] = [sequence |-> n, outcome |-> Outcome(n)]
    BY DEF IInv, ReceiptsExact
  <2>4. ASSUME NEW n \in 1 .. Len(receipts')
        PROVE  receipts'[n] = [sequence |-> n, outcome |-> Outcome(n)]
    <3>1. CASE n \in 1 .. Len(receipts)
      BY <3>1, <2>2, <1>r
    <3>2. CASE n = Len(receipts) + 1
      BY <3>2, <2>1
    <3> QED
      BY <3>1, <3>2, <1>n, <1>r
  <2>5. Len(receipts') + Len(pending') = accepted'
    <3>1. /\ Len(pending') = Len(pending) - 1 /\ Len(receipts') = Len(receipts) + 1
          /\ accepted' = accepted
      BY <1>u, <1>p, <1>r
    <3> QED
      BY <3>1, <1>n
  <2> QED
    BY <2>4, <2>5, <1>u DEF ReceiptsExact, Outcome
<1> QED
  BY <1>1, <1>2, <1>3, <1>4, <1>5, <1>6 DEF IInv

(* finish_stop(): with the callback out, the consumed count is exact.         *)
LEMMA FinishStopIInv == IInv /\ FinishStop => IInv'
<1> SUFFICES ASSUME IInv, FinishStop PROVE IInv'
  OBVIOUS
<1>n. /\ Len(applied) \in Nat /\ Len(pending) \in Nat /\ Len(receipts) \in Nat
      /\ Len(outcomes) \in Nat /\ Len(controls) \in Nat
      /\ accepted \in Nat /\ consumed \in Nat /\ loaded \in Nat
      /\ MaxSequence \in Nat /\ MaxPending \in Nat
      /\ Len(receipts) + Len(pending) = accepted
  BY Lengths
<1>u. /\ control = "idle" /\ phase = "draining" /\ phase' = "stopped" /\ ~open /\ ~busy
      /\ controls' = <<>> /\ outcomes' = <<>>
      /\ UNCHANGED <<engine, epoch, accepted, open, busy, consumed, applied, control, loaded,
                     callback, receipts>>
      /\ callback = "outside" /\ consumed = Len(applied) /\ Len(applied) <= accepted
      /\ Live /\ ~Live'
  BY DEF FinishStop, IInv, GateInv, CountInv, Enqueued, gate, Live
<1>i. \A i \in 1 .. Len(pending) :
          /\ pending[i] \in Item /\ pending[i].sequence = Len(receipts) + i
          /\ Len(receipts) + i <= Len(applied) =>
                pending[i].outcome \in {"applied", applied[Len(receipts) + i]}
          /\ Len(receipts) + i > Len(applied) => pending[i].outcome = "applied"
  BY <1>u DEF IInv, PendingInv, TypeOK
<1> DEFINE noted == Noted(outcomes)
<1>a. noted = [i \in 1 .. Len(pending) |->
                 IF \E e \in 1 .. Len(outcomes) : outcomes[e].sequence = Len(receipts) + i
                 THEN [pending[i] EXCEPT !.outcome = applied[Len(receipts) + i]] ELSE pending[i]]
  <2>1. DOMAIN pending = 1 .. Len(pending) /\ DOMAIN outcomes = 1 .. Len(outcomes)
    BY DEF IInv, TypeOK
  <2>2. ASSUME NEW i \in 1 .. Len(pending),
               \E e \in 1 .. Len(outcomes) : outcomes[e].sequence = Len(receipts) + i
        PROVE  outcomes[CHOOSE e \in 1 .. Len(outcomes) :
                           outcomes[e].sequence = Len(receipts) + i].outcome
                 = applied[Len(receipts) + i]
    <3> DEFINE c == CHOOSE e \in 1 .. Len(outcomes) : outcomes[e].sequence = Len(receipts) + i
    <3>1. c \in 1 .. Len(outcomes) /\ outcomes[c].sequence = Len(receipts) + i
      BY <2>2
    <3> HIDE DEF c
    <3>2. outcomes[c].outcome = applied[outcomes[c].sequence]
      BY <3>1 DEF IInv, OutcomeInv
    <3> QED
      BY <3>1, <3>2 DEF c
  <2>3. noted = [i \in 1 .. Len(pending) |->
                   IF \E e \in 1 .. Len(outcomes) : outcomes[e].sequence = Len(receipts) + i
                   THEN [pending[i] EXCEPT !.outcome =
                           outcomes[CHOOSE e \in 1 .. Len(outcomes) :
                                      outcomes[e].sequence = Len(receipts) + i].outcome]
                   ELSE pending[i]]
    BY <2>1, <1>i DEF Noted
  <2> QED
    BY <2>2, <2>3
<1>b. \A i \in 1 .. Len(pending) :
          /\ noted[i] = [sequence |-> Len(receipts) + i, outcome |-> noted[i].outcome]
          /\ Len(receipts) + i <= Len(applied) => noted[i].outcome = applied[Len(receipts) + i]
  <2> SUFFICES ASSUME NEW i \in 1 .. Len(pending)
               PROVE  /\ noted[i] = [sequence |-> Len(receipts) + i, outcome |-> noted[i].outcome]
                      /\ Len(receipts) + i <= Len(applied) =>
                            noted[i].outcome = applied[Len(receipts) + i]
    OBVIOUS
  <2>1. noted[i] = IF \E e \in 1 .. Len(outcomes) : outcomes[e].sequence = Len(receipts) + i
                   THEN [pending[i] EXCEPT !.outcome = applied[Len(receipts) + i]] ELSE pending[i]
    BY <1>a
  <2> HIDE DEF noted
  <2>2. CASE \E e \in 1 .. Len(outcomes) : outcomes[e].sequence = Len(receipts) + i
    <3>1. noted[i] = [pending[i] EXCEPT !.outcome = applied[Len(receipts) + i]]
      BY <2>1, <2>2
    <3> QED
      BY <3>1, <1>i DEF Item
  <2>3. CASE ~ \E e \in 1 .. Len(outcomes) : outcomes[e].sequence = Len(receipts) + i
    <3>1. noted[i] = pending[i]
      BY <2>1, <2>3
    <3>2. Len(receipts) + i <= Len(applied) => pending[i].outcome = applied[Len(receipts) + i]
      <4> SUFFICES ASSUME Len(receipts) + i <= Len(applied)
                   PROVE  pending[i].outcome = applied[Len(receipts) + i]
        OBVIOUS
      <4>1. Len(receipts) + i \in Len(receipts) + 1 .. Len(applied)
        BY <1>n
      <4>2. (Len(receipts) + i) - Len(receipts) = i
        BY <1>n
      <4>3. applied[Len(receipts) + i] = "applied" \/ pending[i].outcome = applied[Len(receipts) + i]
        BY <4>1, <4>2, <2>3 DEF IInv, CoverInv
      <4> QED
        BY <4>3, <1>i
    <3> QED
      BY <3>1, <3>2, <1>i, <1>n DEF Item
  <2> QED
    BY <2>2, <2>3
<1> HIDE DEF noted
<1>p. pending' = [i \in 1 .. Len(pending) |->
                    IF Len(receipts) + i > Len(applied)
                    THEN [noted[i] EXCEPT !.outcome = "cancelled"] ELSE noted[i]]
  <2>1. DOMAIN noted = 1 .. Len(pending)
    BY <1>a
  <2>2. pending' = Settled(noted)
    BY DEF FinishStop, noted
  <2> QED
    BY <2>1, <2>2, <1>b, <1>u DEF Settled
<1>q. \A i \in 1 .. Len(pending) :
          /\ pending'[i] \in Item /\ pending'[i].sequence = Len(receipts) + i
          /\ pending'[i].outcome = IF Len(receipts) + i > Len(applied) THEN "cancelled"
                                   ELSE applied[Len(receipts) + i]
  <2> SUFFICES ASSUME NEW i \in 1 .. Len(pending)
               PROVE  /\ pending'[i] \in Item /\ pending'[i].sequence = Len(receipts) + i
                      /\ pending'[i].outcome = IF Len(receipts) + i > Len(applied) THEN "cancelled"
                                               ELSE applied[Len(receipts) + i]
    OBVIOUS
  <2>0. Len(receipts) + i \in 1 .. MaxSequence
    BY <1>i DEF Item
  <2>1. CASE Len(receipts) + i > Len(applied)
    <3>1. pending'[i] = [noted[i] EXCEPT !.outcome = "cancelled"]
      BY <2>1, <1>p
    <3>2. pending'[i] = [sequence |-> Len(receipts) + i, outcome |-> "cancelled"]
      <4>1. PICK o : noted[i] = [sequence |-> Len(receipts) + i, outcome |-> o]
        BY <1>b
      <4> QED
        BY <3>1, <4>1
    <3> QED
      BY <2>0, <2>1, <3>2 DEF Item
  <2>2. CASE ~(Len(receipts) + i > Len(applied))
    <3>1. applied[Len(receipts) + i] \in Disposition
      BY <2>2, <1>n DEF IInv, TypeOK
    <3>2. pending'[i] = noted[i] /\ Len(receipts) + i <= Len(applied)
      BY <2>2, <1>p, <1>n
    <3>3. pending'[i] = [sequence |-> Len(receipts) + i, outcome |-> applied[Len(receipts) + i]]
      BY <3>2, <1>b
    <3> QED
      BY <2>0, <2>2, <3>1, <3>3 DEF Item
  <2> QED
    BY <2>1, <2>2
<1>s. pending' \in Seq(Item) /\ Len(pending') = Len(pending)
  <2>1. pending' \in [1 .. Len(pending) -> Item]
    BY <1>p, <1>q
  <2> QED
    BY <2>1, <1>n, MapFacts
<1>1. TypeOK'
  <2>1. <<>> \in Seq(Item) /\ <<>> \in Seq(1 .. MaxSequence) /\ Len(<<>>) <= MaxPending
    BY <1>n
  <2> QED
    BY <2>1, <1>u, <1>s DEF IInv, TypeOK
<1>2. GateInv' /\ CountInv' /\ ControlInv' /\ OutcomeInv'
  <2>1. GateInv' /\ ControlInv'
    BY <1>u DEF IInv, GateInv, ControlInv, Live
  <2>2. CountInv'
    BY <1>u DEF IInv, CountInv, Live, Enqueued
  <2>3. OutcomeInv'
    <3>1. Len(outcomes') = 0
      BY <1>u
    <3> QED
      BY <3>1 DEF OutcomeInv
  <2> QED
    BY <2>1, <2>2, <2>3
<1>3. PendingInv'
  BY <1>n, <1>u, <1>q, <1>s DEF PendingInv
<1>4. CoverInv'
  <2> SUFFICES ASSUME NEW n \in Len(receipts) + 1 .. Len(applied)
               PROVE  n <= accepted /\ pending'[n - Len(receipts)].outcome = applied[n]
    BY <1>u DEF CoverInv
  <2>1. /\ n <= accepted /\ n - Len(receipts) \in 1 .. Len(pending)
        /\ Len(receipts) + (n - Len(receipts)) = n /\ ~(n > Len(applied))
    BY <1>n, <1>u
  <2> QED
    BY <2>1, <1>q
<1>5. ReceiptsExact'
  BY <1>u, <1>s DEF IInv, ReceiptsExact, Outcome
<1> QED
  BY <1>1, <1>2, <1>3, <1>4, <1>5 DEF IInv

(* The engine consumes a control. The outcome ring has room: outcomes in it   *)
(* belong to distinct commands without a receipt.                             *)
LEMMA RenderControlIInv ==
    ASSUME NEW disposition \in Disposition
    PROVE  IInv /\ RenderControl(disposition) => IInv'
<1> SUFFICES ASSUME IInv, RenderControl(disposition) PROVE IInv'
  OBVIOUS
<1>n. /\ Len(applied) \in Nat /\ Len(pending) \in Nat /\ Len(receipts) \in Nat
      /\ Len(outcomes) \in Nat /\ Len(controls) \in Nat
      /\ accepted \in Nat /\ consumed \in Nat /\ loaded \in Nat
      /\ MaxSequence \in Nat /\ MaxPending \in Nat
      /\ Len(receipts) + Len(pending) = accepted
  BY Lengths
<1>u. /\ callback = "rendering" /\ controls # <<>>
      /\ UNCHANGED <<phase, engine, epoch, accepted, pending, open, busy, consumed, control,
                     loaded, callback, receipts>>
      /\ Live /\ Live' /\ Enqueued \in Nat /\ Enqueued' = Enqueued
      /\ Enqueued <= MaxSequence /\ Enqueued <= Len(receipts) + MaxPending
      /\ consumed <= Len(applied) /\ Len(receipts) <= Len(applied)
      /\ control \in {"draining", "retiring"} => loaded <= consumed
  BY <1>n DEF RenderControl, IInv, GateInv, CountInv, Enqueued, lifecycle, gate, Live
<1>c. /\ controls' \in Seq(1 .. MaxSequence) /\ Len(controls) >= 1
      /\ Len(controls') = Len(controls) - 1
      /\ \A i \in 1 .. Len(controls) - 1 : controls'[i] = controls[i + 1]
      /\ Head(controls) = controls[1] /\ controls[1] \in 1 .. MaxSequence
  BY <1>u, TailFacts DEF RenderControl, IInv, TypeOK
<1>d. /\ Len(controls) = Enqueued - Len(applied)
      /\ \A i \in 1 .. Len(controls) : controls[i] = Len(applied) + i
      /\ controls[1] = Len(applied) + 1 /\ Len(applied) + 1 <= Enqueued
  <2>1. /\ Len(controls) = Enqueued - Len(applied)
        /\ \A i \in 1 .. Len(controls) : controls[i] = Len(applied) + i
    BY <1>u DEF IInv, ControlInv
  <2> QED
    BY <2>1, <1>c, <1>n, <1>u
<1>a. /\ applied' \in Seq(Disposition) /\ Len(applied') = Len(applied) + 1
      /\ \A n \in 1 .. Len(applied) : applied'[n] = applied[n]
      /\ applied'[Len(applied) + 1] = disposition
  BY AppendFacts DEF RenderControl, IInv, TypeOK
<1> DEFINE x == [sequence |-> Len(applied) + 1, outcome |-> disposition]
<1>x. x \in Item
  BY <1>n, <1>u, <1>d DEF Item
<1>e. \A e \in 1 .. Len(outcomes) :
          /\ outcomes[e].sequence \in Nat
          /\ Len(receipts) + e <= outcomes[e].sequence
          /\ outcomes[e].sequence <= Len(applied) /\ 1 <= outcomes[e].sequence
          /\ outcomes[e].outcome = applied[outcomes[e].sequence]
          /\ control = "retiring" => loaded + e <= outcomes[e].sequence
  <2>1. \A e \in 1 .. Len(outcomes) : outcomes[e] \in Item
    BY DEF IInv, TypeOK
  <2>2. \A e \in 1 .. Len(outcomes) : outcomes[e].sequence \in Nat /\ 1 <= outcomes[e].sequence
    BY <2>1, <1>n DEF Item
  <2> QED
    BY <2>2 DEF IInv, OutcomeInv
<1>l. Len(outcomes) < MaxPending /\ Len(outcomes) <= Len(applied) - Len(receipts)
      /\ (control = "retiring" => Len(outcomes) <= Len(applied) - loaded)
  <2>1. CASE Len(outcomes) = 0
    BY <2>1, <1>n, <1>u, <1>d, PendingAssumption
  <2>2. CASE Len(outcomes) # 0
    <3>1. Len(outcomes) \in 1 .. Len(outcomes)
      BY <2>2, <1>n
    <3>2. /\ Len(receipts) + Len(outcomes) <= Len(applied)
          /\ control = "retiring" => loaded + Len(outcomes) <= Len(applied)
      <4> DEFINE last == outcomes[Len(outcomes)].sequence
      <4>1. /\ last \in Nat /\ Len(receipts) + Len(outcomes) <= last /\ last <= Len(applied)
            /\ control = "retiring" => loaded + Len(outcomes) <= last
        BY <3>1, <1>e
      <4> HIDE DEF last
      <4> QED
        BY <4>1, <1>n
    <3> QED
      BY <3>2, <1>n, <1>u, <1>d
  <2> QED
    BY <2>1, <2>2
<1>o. \/ disposition = "applied" /\ outcomes' = outcomes
      \/ outcomes' = Append(outcomes, x)
  BY <1>l, <1>c, <1>d DEF RenderControl
<1>f. /\ outcomes' \in Seq(Item)
      /\ \/ disposition = "applied" /\ Len(outcomes') = Len(outcomes)
         \/ Len(outcomes') = Len(outcomes) + 1 /\ outcomes'[Len(outcomes) + 1] = x
      /\ \A e \in 1 .. Len(outcomes) : outcomes'[e] = outcomes[e]
  <2>1. CASE disposition = "applied" /\ outcomes' = outcomes
    BY <2>1 DEF IInv, TypeOK
  <2>2. CASE outcomes' = Append(outcomes, x)
    BY <2>2, <1>x, AppendFacts DEF IInv, TypeOK
  <2> QED
    BY <2>1, <2>2, <1>o
<1>g. x.sequence = Len(applied) + 1 /\ x.outcome = disposition
  OBVIOUS
<1> HIDE DEF x
<1>1. TypeOK'
  <2>1. Len(outcomes') <= MaxPending /\ Len(controls') <= MaxPending
    <3>1. Len(controls) <= MaxPending
      BY DEF IInv, TypeOK
    <3>2. Len(controls') = Len(controls) - 1
      BY <1>c
    <3>3. Len(outcomes') = Len(outcomes) \/ Len(outcomes') = Len(outcomes) + 1
      BY <1>f
    <3> QED
      BY <3>1, <3>2, <3>3, <1>n, <1>l
  <2> QED
    BY <2>1, <1>u, <1>a, <1>c, <1>f DEF IInv, TypeOK
<1>2. GateInv'
  BY <1>u DEF IInv, GateInv, Live
<1>3. CountInv'
  <2>1. Len(applied') <= Enqueued' /\ Live' /\ consumed' <= Len(applied')
        /\ Len(receipts') <= Len(applied')
    BY <1>n, <1>u, <1>a, <1>d
  <2> QED
    BY <2>1, <1>u DEF CountInv
<1>4. ControlInv'
  <2>1. Len(controls') = Enqueued' - Len(applied')
    BY <1>n, <1>u, <1>a, <1>c, <1>d
  <2>2. ASSUME NEW i \in 1 .. Len(controls')
        PROVE  controls'[i] = Len(applied') + i
    <3>1. i + 1 \in 1 .. Len(controls) /\ controls'[i] = controls[i + 1]
      BY <1>n, <1>c
    <3> QED
      BY <3>1, <1>a, <1>d, <1>n
  <2> QED
    BY <2>1, <2>2, <1>u DEF ControlInv
<1>5. OutcomeInv'
  <2> SUFFICES ASSUME NEW e \in 1 .. Len(outcomes')
               PROVE  /\ Len(receipts) + e <= outcomes'[e].sequence
                      /\ outcomes'[e].sequence <= Len(applied')
                      /\ outcomes'[e].outcome = applied'[outcomes'[e].sequence]
                      /\ control = "retiring" => loaded + e <= outcomes'[e].sequence
    BY <1>u DEF OutcomeInv
  <2>1. CASE e \in 1 .. Len(outcomes)
    <3>1. outcomes'[e] = outcomes[e]
      BY <2>1, <1>f
    <3>2. applied'[outcomes[e].sequence] = applied[outcomes[e].sequence]
      BY <2>1, <1>a, <1>e, <1>n
    <3> QED
      BY <2>1, <3>1, <3>2, <1>a, <1>e, <1>n
  <2>2. CASE e = Len(outcomes) + 1 /\ outcomes'[e] = x
    BY <2>2, <1>a, <1>g, <1>l, <1>n
  <2> QED
    BY <2>1, <2>2, <1>f, <1>n
<1>6. PendingInv'
  <2> SUFFICES ASSUME NEW i \in 1 .. Len(pending)
               PROVE  /\ pending[i].sequence = Len(receipts) + i
                      /\ Len(receipts) + i <= Len(applied') =>
                            pending[i].outcome \in {"applied", applied'[Len(receipts) + i]}
                      /\ Len(receipts) + i > Len(applied') => pending[i].outcome = "applied"
    BY <1>u DEF PendingInv
  <2>1. /\ pending[i].sequence = Len(receipts) + i
        /\ Len(receipts) + i <= Len(applied) =>
              pending[i].outcome \in {"applied", applied[Len(receipts) + i]}
        /\ Len(receipts) + i > Len(applied) => pending[i].outcome = "applied"
    BY <1>u DEF IInv, PendingInv
  <2>2. CASE Len(receipts) + i <= Len(applied)
    <3>1. applied'[Len(receipts) + i] = applied[Len(receipts) + i]
      BY <2>2, <1>a, <1>n
    <3> QED
      BY <2>1, <2>2, <3>1, <1>a, <1>n
  <2>3. CASE Len(receipts) + i > Len(applied)
    BY <2>1, <2>3
  <2> QED
    BY <2>2, <2>3, <1>n
<1>7. CoverInv'
  <2> SUFFICES ASSUME NEW n \in Len(receipts) + 1 .. Len(applied')
               PROVE  \/ applied'[n] = "applied"
                      \/ \E e \in 1 .. Len(outcomes') : outcomes'[e].sequence = n
                      \/ n <= accepted /\ pending[n - Len(receipts)].outcome = applied'[n]
    BY <1>u DEF CoverInv
  <2>1. CASE n \in Len(receipts) + 1 .. Len(applied)
    <3>1. applied'[n] = applied[n]
      BY <2>1, <1>a, <1>n
    <3>2. ASSUME NEW e \in 1 .. Len(outcomes), outcomes[e].sequence = n
          PROVE  \E d \in 1 .. Len(outcomes') : outcomes'[d].sequence = n
      <4>1. e \in 1 .. Len(outcomes') /\ outcomes'[e] = outcomes[e]
        BY <1>f, <1>n
      <4> QED
        BY <4>1, <3>2
    <3> QED
      BY <2>1, <3>1, <3>2 DEF IInv, CoverInv
  <2>2. CASE n = Len(applied) + 1
    <3>1. CASE disposition = "applied"
      BY <2>2, <3>1, <1>a
    <3>2. CASE Len(outcomes') = Len(outcomes) + 1 /\ outcomes'[Len(outcomes) + 1] = x
      <4>1. Len(outcomes) + 1 \in 1 .. Len(outcomes') /\ outcomes'[Len(outcomes) + 1].sequence = n
        BY <2>2, <3>2, <1>g, <1>n
      <4> QED
        BY <4>1
    <3> QED
      BY <3>1, <3>2, <1>f
  <2> QED
    BY <2>1, <2>2, <1>a, <1>n
<1>8. ReceiptsExact'
  <2>1. ASSUME NEW n \in 1 .. Len(receipts)
        PROVE  receipts[n] = [sequence |-> n, outcome |-> Outcome(n)']
    <3>1. n <= Len(applied) /\ n <= Len(applied') /\ applied'[n] = applied[n]
      BY <1>n, <1>u, <1>a
    <3>2. receipts[n] = [sequence |-> n, outcome |-> Outcome(n)]
      BY DEF IInv, ReceiptsExact
    <3> QED
      BY <3>1, <3>2 DEF Outcome
  <2> QED
    BY <2>1, <1>u DEF IInv, ReceiptsExact
<1> QED
  BY <1>1, <1>2, <1>3, <1>4, <1>5, <1>6, <1>7, <1>8 DEF IInv

(* Every other step of the control caller preserves the invariant.            *)
LEMMA ControlIInv ==
    IInv /\ (Load \/ Start \/ SubmitEnqueue \/ PollLoad \/ PollDrained \/ PollDone
             \/ RequestStop \/ Unload) => IInv'
<1> SUFFICES ASSUME IInv,
                    Load \/ Start \/ SubmitEnqueue \/ PollLoad \/ PollDrained \/ PollDone
                    \/ RequestStop \/ Unload
             PROVE  IInv'
  OBVIOUS
<1>n. /\ Len(applied) \in Nat /\ Len(pending) \in Nat /\ Len(receipts) \in Nat
      /\ Len(outcomes) \in Nat /\ Len(controls) \in Nat
      /\ accepted \in Nat /\ consumed \in Nat /\ loaded \in Nat
      /\ MaxSequence \in Nat /\ MaxPending \in Nat /\ MaxEpoch \in Nat
      /\ Len(receipts) + Len(pending) = accepted
  BY Lengths
<1>e. /\ <<>> \in Seq(Item) /\ <<>> \in Seq(1 .. MaxSequence) /\ <<>> \in Seq(Disposition)
      /\ Len(<<>>) = 0
  OBVIOUS
<1>1. CASE Load
  <2>1. TypeOK'
    BY <1>1, <1>n, <1>e DEF Load, IInv, TypeOK, lifecycle, gate
  <2>2. GateInv'
    BY <1>1, <1>n, <1>e DEF Load, IInv, GateInv, Live, lifecycle, gate
  <2>3. CountInv'
    BY <1>1, <1>n, <1>e DEF Load, IInv, CountInv, GateInv, ControlInv, Live, Enqueued, lifecycle, gate
  <2>4. ControlInv'
    BY <1>1, <1>n, <1>e DEF Load, IInv, ControlInv, GateInv, CountInv, Live, Enqueued, lifecycle, gate
  <2>5. OutcomeInv'
    BY <1>1, <1>n, <1>e DEF Load, IInv, OutcomeInv, ControlInv, GateInv, Live, lifecycle, gate
  <2>6. PendingInv'
    BY <1>1, <1>n, <1>e DEF Load, IInv, PendingInv, Live, lifecycle, gate
  <2>7. CoverInv'
    BY <1>1, <1>n, <1>e DEF Load, IInv, CoverInv, ControlInv, GateInv, Live, lifecycle, gate
  <2>8. ReceiptsExact'
    BY <1>1, <1>n, <1>e DEF Load, IInv, ReceiptsExact, Outcome, lifecycle, gate
  <2> QED
    BY <2>1, <2>2, <2>3, <2>4, <2>5, <2>6, <2>7, <2>8 DEF IInv
<1>2. CASE Start
  <2>1. TypeOK'
    BY <1>2, <1>n, <1>e DEF Start, IInv, TypeOK, lifecycle, gate
  <2>2. GateInv'
    BY <1>2, <1>n, <1>e DEF Start, IInv, GateInv, Live, lifecycle, gate
  <2>3. CountInv'
    BY <1>2, <1>n, <1>e DEF Start, IInv, CountInv, GateInv, ControlInv, Live, Enqueued, lifecycle, gate
  <2>4. ControlInv'
    <3>1. /\ Len(controls') = 0 /\ Len(applied') = 0 /\ Live'
          /\ accepted' = 0 /\ control' = "idle"
      BY <1>2, <1>e DEF Start, Live
    <3> QED
      BY <3>1 DEF ControlInv, Enqueued
  <2>5. OutcomeInv'
    BY <1>2, <1>n, <1>e DEF Start, IInv, OutcomeInv, ControlInv, GateInv, Live, lifecycle, gate
  <2>6. PendingInv'
    BY <1>2, <1>n, <1>e DEF Start, IInv, PendingInv, Live, lifecycle, gate
  <2>7. CoverInv'
    BY <1>2, <1>n, <1>e DEF Start, IInv, CoverInv, ControlInv, GateInv, Live, lifecycle, gate
  <2>8. ReceiptsExact'
    BY <1>2, <1>n, <1>e DEF Start, IInv, ReceiptsExact, Outcome, lifecycle, gate
  <2> QED
    BY <2>1, <2>2, <2>3, <2>4, <2>5, <2>6, <2>7, <2>8 DEF IInv
<1>3. CASE SubmitEnqueue
  <2>1. TypeOK'
    BY <1>3, <1>n, <1>e DEF SubmitEnqueue, IInv, TypeOK, lifecycle, gate
  <2>2. GateInv'
    BY <1>3, <1>n, <1>e DEF SubmitEnqueue, IInv, GateInv, Live, lifecycle, gate
  <2>3. CountInv'
    BY <1>3, <1>n, <1>e DEF SubmitEnqueue, IInv, CountInv, GateInv, ControlInv, Live, Enqueued, lifecycle, gate
  <2>4. ControlInv'
    <3>1. /\ control = "idle" /\ control' = "recording" /\ phase = "running" /\ phase' = phase
          /\ accepted' = accepted /\ applied' = applied /\ accepted + 1 \in 1 .. MaxSequence
      BY <1>3, <1>n DEF SubmitEnqueue, lifecycle
    <3>2. /\ Len(controls') = Len(controls) + 1
          /\ \A i \in 1 .. Len(controls) : controls'[i] = controls[i]
          /\ controls'[Len(controls) + 1] = accepted + 1
      BY <1>3, <3>1, AppendFacts DEF SubmitEnqueue, IInv, TypeOK
    <3>3. /\ Len(controls) = accepted - Len(applied)
          /\ \A i \in 1 .. Len(controls) : controls[i] = Len(applied) + i
      BY <3>1 DEF IInv, ControlInv, Live, Enqueued
    <3>4. ASSUME NEW i \in 1 .. Len(controls')
          PROVE  controls'[i] = Len(applied) + i
      <4>1. i \in 1 .. Len(controls) \/ i = Len(controls) + 1
        BY <3>2, <1>n
      <4> QED
        BY <4>1, <3>2, <3>3, <1>n
    <3>5. Len(controls') = (accepted + 1) - Len(applied)
      BY <3>2, <3>3, <1>n
    <3> QED
      BY <3>1, <3>4, <3>5 DEF ControlInv, Live, Enqueued
  <2>5. OutcomeInv'
    BY <1>3, <1>n, <1>e DEF SubmitEnqueue, IInv, OutcomeInv, ControlInv, GateInv, Live, lifecycle, gate
  <2>6. PendingInv'
    BY <1>3, <1>n, <1>e DEF SubmitEnqueue, IInv, PendingInv, Live, lifecycle, gate
  <2>7. CoverInv'
    BY <1>3, <1>n, <1>e DEF SubmitEnqueue, IInv, CoverInv, ControlInv, GateInv, Live, lifecycle, gate
  <2>8. ReceiptsExact'
    BY <1>3, <1>n, <1>e DEF SubmitEnqueue, IInv, ReceiptsExact, Outcome, lifecycle, gate
  <2> QED
    BY <2>1, <2>2, <2>3, <2>4, <2>5, <2>6, <2>7, <2>8 DEF IInv
<1>4. CASE PollLoad
  <2>1. TypeOK'
    BY <1>4, <1>n, <1>e DEF PollLoad, IInv, TypeOK, lifecycle, gate
  <2>2. GateInv'
    BY <1>4, <1>n, <1>e DEF PollLoad, IInv, GateInv, Live, lifecycle, gate
  <2>3. CountInv'
    BY <1>4, <1>n, <1>e DEF PollLoad, IInv, CountInv, GateInv, ControlInv, Live, Enqueued, lifecycle, gate
  <2>4. ControlInv'
    BY <1>4, <1>n, <1>e DEF PollLoad, IInv, ControlInv, GateInv, CountInv, Live, Enqueued, lifecycle, gate
  <2>5. OutcomeInv'
    BY <1>4, <1>n, <1>e DEF PollLoad, IInv, OutcomeInv, ControlInv, GateInv, Live, lifecycle, gate
  <2>6. PendingInv'
    BY <1>4, <1>n, <1>e DEF PollLoad, IInv, PendingInv, Live, lifecycle, gate
  <2>7. CoverInv'
    BY <1>4, <1>n, <1>e DEF PollLoad, IInv, CoverInv, ControlInv, GateInv, Live, lifecycle, gate
  <2>8. ReceiptsExact'
    BY <1>4, <1>n, <1>e DEF PollLoad, IInv, ReceiptsExact, Outcome, lifecycle, gate
  <2> QED
    BY <2>1, <2>2, <2>3, <2>4, <2>5, <2>6, <2>7, <2>8 DEF IInv
<1>5. CASE PollDrained
  <2>1. TypeOK'
    BY <1>5, <1>n, <1>e DEF PollDrained, IInv, TypeOK, lifecycle, gate
  <2>2. GateInv'
    BY <1>5, <1>n, <1>e DEF PollDrained, IInv, GateInv, Live, lifecycle, gate
  <2>3. CountInv'
    BY <1>5, <1>n, <1>e DEF PollDrained, IInv, CountInv, GateInv, ControlInv, Live, Enqueued, lifecycle, gate
  <2>4. ControlInv'
    BY <1>5, <1>n, <1>e DEF PollDrained, IInv, ControlInv, GateInv, CountInv, Live, Enqueued, lifecycle, gate
  <2>5. OutcomeInv'
    BY <1>5, <1>n, <1>e DEF PollDrained, IInv, OutcomeInv, ControlInv, GateInv, Live, lifecycle, gate
  <2>6. PendingInv'
    BY <1>5, <1>n, <1>e DEF PollDrained, IInv, PendingInv, Live, lifecycle, gate
  <2>7. CoverInv'
    BY <1>5, <1>n, <1>e DEF PollDrained, IInv, CoverInv, ControlInv, GateInv, Live, lifecycle, gate
  <2>8. ReceiptsExact'
    BY <1>5, <1>n, <1>e DEF PollDrained, IInv, ReceiptsExact, Outcome, lifecycle, gate
  <2> QED
    BY <2>1, <2>2, <2>3, <2>4, <2>5, <2>6, <2>7, <2>8 DEF IInv
<1>6. CASE PollDone
  <2>1. TypeOK'
    BY <1>6, <1>n, <1>e DEF PollDone, IInv, TypeOK, lifecycle, gate
  <2>2. GateInv'
    BY <1>6, <1>n, <1>e DEF PollDone, IInv, GateInv, Live, lifecycle, gate
  <2>3. CountInv'
    BY <1>6, <1>n, <1>e DEF PollDone, IInv, CountInv, GateInv, ControlInv, Live, Enqueued, lifecycle, gate
  <2>4. ControlInv'
    BY <1>6, <1>n, <1>e DEF PollDone, IInv, ControlInv, GateInv, CountInv, Live, Enqueued, lifecycle, gate
  <2>5. OutcomeInv'
    BY <1>6, <1>n, <1>e DEF PollDone, IInv, OutcomeInv, ControlInv, GateInv, Live, lifecycle, gate
  <2>6. PendingInv'
    BY <1>6, <1>n, <1>e DEF PollDone, IInv, PendingInv, Live, lifecycle, gate
  <2>7. CoverInv'
    BY <1>6, <1>n, <1>e DEF PollDone, IInv, CoverInv, ControlInv, GateInv, Live, lifecycle, gate
  <2>8. ReceiptsExact'
    BY <1>6, <1>n, <1>e DEF PollDone, IInv, ReceiptsExact, Outcome, lifecycle, gate
  <2> QED
    BY <2>1, <2>2, <2>3, <2>4, <2>5, <2>6, <2>7, <2>8 DEF IInv
<1>7. CASE RequestStop
  <2>1. TypeOK'
    BY <1>7, <1>n, <1>e DEF RequestStop, IInv, TypeOK, lifecycle, gate
  <2>2. GateInv'
    BY <1>7, <1>n, <1>e DEF RequestStop, IInv, GateInv, Live, lifecycle, gate
  <2>3. CountInv'
    BY <1>7, <1>n, <1>e DEF RequestStop, IInv, CountInv, GateInv, ControlInv, Live, Enqueued, lifecycle, gate
  <2>4. ControlInv'
    BY <1>7, <1>n, <1>e DEF RequestStop, IInv, ControlInv, GateInv, CountInv, Live, Enqueued, lifecycle, gate
  <2>5. OutcomeInv'
    BY <1>7, <1>n, <1>e DEF RequestStop, IInv, OutcomeInv, ControlInv, GateInv, Live, lifecycle, gate
  <2>6. PendingInv'
    BY <1>7, <1>n, <1>e DEF RequestStop, IInv, PendingInv, Live, lifecycle, gate
  <2>7. CoverInv'
    BY <1>7, <1>n, <1>e DEF RequestStop, IInv, CoverInv, ControlInv, GateInv, Live, lifecycle, gate
  <2>8. ReceiptsExact'
    BY <1>7, <1>n, <1>e DEF RequestStop, IInv, ReceiptsExact, Outcome, lifecycle, gate
  <2> QED
    BY <2>1, <2>2, <2>3, <2>4, <2>5, <2>6, <2>7, <2>8 DEF IInv
<1>8. CASE Unload
  <2>1. TypeOK'
    <3>1. /\ phase' = "empty" /\ engine' = FALSE /\ controls' = <<>> /\ outcomes' = <<>>
          /\ UNCHANGED <<epoch, accepted, pending, open, busy, consumed, applied, control, loaded,
                         callback, receipts>>
      BY <1>8 DEF Unload, gate
    <3>2. Len(controls') <= MaxPending /\ Len(outcomes') <= MaxPending
      BY <3>1, <1>n, <1>e
    <3> QED
      BY <3>1, <3>2, <1>e DEF IInv, TypeOK
  <2>2. GateInv'
    BY <1>8, <1>n, <1>e DEF Unload, IInv, GateInv, Live, lifecycle, gate
  <2>3. CountInv'
    BY <1>8, <1>n, <1>e DEF Unload, IInv, CountInv, GateInv, ControlInv, Live, Enqueued, lifecycle, gate
  <2>4. ControlInv'
    BY <1>8, <1>n, <1>e DEF Unload, IInv, ControlInv, GateInv, CountInv, Live, Enqueued, lifecycle, gate
  <2>5. OutcomeInv'
    BY <1>8, <1>n, <1>e DEF Unload, IInv, OutcomeInv, ControlInv, GateInv, Live, lifecycle, gate
  <2>6. PendingInv'
    BY <1>8, <1>n, <1>e DEF Unload, IInv, PendingInv, Live, lifecycle, gate
  <2>7. CoverInv'
    BY <1>8, <1>n, <1>e DEF Unload, IInv, CoverInv, ControlInv, GateInv, Live, lifecycle, gate
  <2>8. ReceiptsExact'
    BY <1>8, <1>n, <1>e DEF Unload, IInv, ReceiptsExact, Outcome, lifecycle, gate
  <2> QED
    BY <2>1, <2>2, <2>3, <2>4, <2>5, <2>6, <2>7, <2>8 DEF IInv
<1> QED
  BY <1>1, <1>2, <1>3, <1>4, <1>5, <1>6, <1>7, <1>8

(* The other steps of the callback move it along the gate.                    *)
LEMMA CallbackIInv ==
    IInv /\ (RenderEnter \/ RenderFrames \/ RenderPublish \/ RenderLeave) => IInv'
<1> SUFFICES ASSUME IInv, RenderEnter \/ RenderFrames \/ RenderPublish \/ RenderLeave
             PROVE  IInv'
  OBVIOUS
<1>n. /\ Len(applied) \in Nat /\ Len(receipts) \in Nat /\ consumed \in Nat
      /\ loaded \in Nat /\ accepted \in Nat /\ MaxSequence \in Nat
  BY Lengths
<1>u. UNCHANGED <<phase, engine, epoch, accepted, pending, open, controls, outcomes, applied,
                  control, loaded, receipts>>
  BY DEF RenderEnter, RenderFrames, RenderPublish, RenderLeave, lifecycle, gate
<1>1. ControlInv' /\ OutcomeInv' /\ PendingInv' /\ CoverInv' /\ ReceiptsExact'
  BY <1>u DEF IInv, ControlInv, OutcomeInv, PendingInv, CoverInv, ReceiptsExact, Live, Enqueued,
     Outcome
<1>2. GateInv'
  BY <1>u DEF IInv, GateInv, TypeOK, Live, RenderEnter, RenderFrames, RenderPublish, RenderLeave,
     gate
<1>3. CountInv'
  BY <1>n, <1>u DEF IInv, CountInv, Live, Enqueued, RenderEnter, RenderFrames, RenderPublish,
     RenderLeave
<1>4. TypeOK'
  <2>1. consumed' \in 0 .. MaxSequence
    <3>1. Len(applied) <= MaxSequence
      BY <1>n DEF IInv, CountInv, Enqueued
    <3> QED
      BY <3>1, <1>n DEF IInv, TypeOK, RenderEnter, RenderFrames, RenderPublish, RenderLeave
  <2>2. /\ callback' \in {"outside", "rendering", "publishing", "leaving"} /\ busy' \in BOOLEAN
    BY DEF IInv, TypeOK, RenderEnter, RenderFrames, RenderPublish, RenderLeave, gate
  <2> QED
    BY <2>1, <2>2, <1>u DEF IInv, TypeOK
<1> QED
  BY <1>1, <1>2, <1>3, <1>4 DEF IInv

(* Every step of the Facade preserves the invariant.                          *)
LEMMA NextIInv == IInv /\ [Next]_vars => IInv'
<1> SUFFICES ASSUME IInv, [Next]_vars PROVE IInv'
  OBVIOUS
<1>1. CASE UNCHANGED vars
  BY <1>1 DEF vars, lifecycle, gate, IInv, TypeOK, GateInv, CountInv, ControlInv, OutcomeInv,
     PendingInv, CoverInv, ReceiptsExact, Outcome, Live, Enqueued
<1>2. CASE Control
  BY <1>2, ControlIInv, SubmitRecordIInv, PollDrainIInv, PollRetireIInv, FinishStopIInv
     DEF Control, Poll
<1>3. CASE Render
  BY <1>3, CallbackIInv, RenderControlIInv DEF Render
<1> QED
  BY <1>1, <1>2, <1>3 DEF Next

(* The inductive invariant holds always.                                      *)
THEOREM Invariance == Spec => []IInv
  BY InitIInv, NextIInv, PTL DEF Spec

(* The types, and with them the bounds of the rings and of pending commands.  *)
THEOREM TypeCorrect == Spec => []TypeOK
<1>1. IInv => TypeOK
  BY DEF IInv
<1> QED
  BY <1>1, Invariance, PTL

(* Stopping, restarting and unloading never overlap an admitted callback: the *)
(* two bits share one atomic, so the closing caller cannot miss it.           *)
THEOREM CallbackNeverOverlaps == Spec => []CallbackSafe
<1>1. IInv => CallbackSafe
  BY DEF IInv, GateInv, CallbackSafe, Live
<1> QED
  BY <1>1, Invariance, PTL

(* Each accepted command has exactly one receipt, in order, with what became  *)
(* of it, whatever the callback does between the steps of submit(), poll()    *)
(* and stop().                                                                *)
THEOREM ReceiptsCorrect == Spec => []ReceiptsExact
<1>1. IInv => ReceiptsExact
  BY DEF IInv
<1> QED
  BY <1>1, Invariance, PTL
-------------------------------------------------------------------------------
(* Content transfer. A transfer exists only in an active session, with bytes   *)
(* of that session alone; while the user's authorization lasts nothing is      *)
(* installed and the audio is at rest, and an audio session that is joined is  *)
(* known to be silent or not to run.                                           *)
NoTransfer == transaction = None => staged = <<>> /\ origin = <<>>
AudioRest == ~(owned /\ silent) /\ (running => owned)
TransferIInv == Usb!TransferSound /\ NoTransfer /\ AudioRest /\ origin \in Seq(Nat)

(* What an operation leaves alone.                                             *)
LEMMA StaysSound ==
  ASSUME TransferIInv, UNCHANGED <<Usb!host, Usb!session, Usb!receiver>>, mode' = mode, 
         receivedOffset' \in Nat, idle' \in 0 .. Timeout, answer' \in Usb!Results
  PROVE  TransferIInv'
  BY DEF TransferIInv, Usb!TransferSound, Usb!TypeOK, Usb!WholeContent, Usb!SessionIsolated,
     Usb!UserAuthorized, NoTransfer, AudioRest,
         Usb!host, Usb!session, Usb!receiver, Usb!audio, Usb!Results

(* Clearing the receiver, for whatever session and installed content follow.   *)
LEMMA ClearedSound ==
  ASSUME TransferIInv, Usb!Clear, mode' \in {"keys", "frames"},
         armed' \in BOOLEAN, active' \in BOOLEAN, nonce' \in 0 .. MaxSession,
         content' # None => content'.sha \in Contents /\ content'.bytes = content'.sha,
         UNCHANGED Usb!audio, armed' => armed /\ content' = content,
         receivedOffset' \in Nat, idle' \in 0 .. Timeout, answer' \in Usb!Results
  PROVE  TransferIInv'
PROOF
<1>1. transaction' = None /\ staged' = <<>> /\ origin' = <<>> /\ Len(<<>>) = 0 /\ <<>> \in Seq(Byte) /\ <<>> \in Seq(Nat)
  BY EmptySeq DEF Usb!Clear
<1>2. owned' = owned /\ silent' = silent /\ running' = running
  BY DEF Usb!audio
<1>3. Usb!TypeOK'
  BY <1>1, <1>2 DEF TransferIInv, Usb!TransferSound, Usb!TypeOK, Usb!Results
<1>4. Usb!WholeContent' /\ Usb!SessionIsolated' /\ Usb!UserAuthorized'
  BY <1>1, <1>2 DEF TransferIInv, Usb!TransferSound, Usb!TypeOK, Usb!WholeContent, Usb!SessionIsolated,
     Usb!UserAuthorized
<1>5. NoTransfer' /\ AudioRest' /\ origin' \in Seq(Nat)
  BY <1>1, <1>2 DEF TransferIInv, NoTransfer, AudioRest
<1> QED
  BY <1>3, <1>4, <1>5 DEF TransferIInv, Usb!TransferSound

LEMMA InitSound == ASSUME Usb!TransferAssumption PROVE Usb!Init => TransferIInv
PROOF
<1>1. <<>> \in Seq(Byte) /\ <<>> \in Seq(Nat) /\ Len(<<>>) = 0
  BY EmptySeq
<1> SUFFICES ASSUME Usb!Init PROVE TransferIInv
  OBVIOUS
<1>2. Usb!TypeOK
  <2>1. MaxBytes \in Nat /\ MaxSession \in Nat /\ Timeout \in Nat
    BY DEF Usb!TransferAssumption
  <2>2. mode \in {"keys", "frames"} /\ armed \in BOOLEAN /\ active \in BOOLEAN /\ owned \in BOOLEAN /\ silent \in BOOLEAN /\ running \in BOOLEAN
    BY DEF Usb!Init
  <2>3. nonce \in 0 .. MaxSession /\ idle \in 0 .. Timeout /\ receivedOffset \in Nat
    BY <2>1 DEF Usb!Init
  <2>4. answer \in Usb!Results /\ staged \in Seq(Byte) /\ Len(origin) = Len(staged)
    BY <1>1 DEF Usb!Init, Usb!Results
  <2> QED
    BY <1>1, <2>1, <2>2, <2>3, <2>4 DEF Usb!Init, Usb!TypeOK
<1>3. Usb!WholeContent /\ Usb!SessionIsolated /\ Usb!UserAuthorized
  BY DEF Usb!Init, Usb!WholeContent, Usb!SessionIsolated, Usb!UserAuthorized
<1>4. NoTransfer /\ AudioRest /\ origin \in Seq(Nat)
  BY <1>1 DEF Usb!Init, NoTransfer, AudioRest
<1> QED
  BY <1>2, <1>3, <1>4 DEF TransferIInv, Usb!TransferSound

(* Keys are handled while no frame is: they may withdraw the authorization of  *)
(* a transfer, which the next poll cancels.                                    *)
LEMMA KeysSound == ASSUME TransferIInv, Usb!Keys PROVE TransferIInv'
PROOF
<1>1. mode = "keys" /\ mode' = mode /\ UNCHANGED <<Usb!session, Usb!receiver, receivedOffset, idle, answer>>
  BY DEF Usb!Keys, Usb!BeginReceive, Usb!CancelReceive, Usb!Stop, Usb!Start
<1>2. UNCHANGED <<active, nonce, transaction, staged, origin>>
  BY <1>1 DEF Usb!session, Usb!receiver
<1>3. /\ armed' \in BOOLEAN /\ owned' \in BOOLEAN /\ silent' \in BOOLEAN /\ running' \in BOOLEAN
      /\ content' = content \/ content' = None
      /\ armed' => content' = None /\ ~owned' /\ silent' /\ ~running'
      /\ ~(owned' /\ silent') /\ (running' => owned')
  <2> USE DEF TransferIInv, Usb!TransferSound, Usb!TypeOK, Usb!UserAuthorized, AudioRest
  <2>1. CASE Usb!BeginReceive
    BY <2>1 DEF Usb!BeginReceive, Usb!StopAudio
  <2>2. CASE Usb!CancelReceive
    BY <2>2 DEF Usb!CancelReceive, Usb!audio
  <2>3. CASE Usb!Stop
    BY <2>3 DEF Usb!Stop, Usb!StopAudio
  <2>4. CASE Usb!Start
    BY <2>4 DEF Usb!Start
  <2> QED
    BY <2>1, <2>2, <2>3, <2>4 DEF Usb!Keys
<1>4. Usb!TypeOK'
  BY <1>1, <1>2, <1>3 DEF TransferIInv, Usb!TransferSound, Usb!TypeOK
<1>5. Usb!WholeContent' /\ Usb!SessionIsolated' /\ Usb!UserAuthorized'
  BY <1>1, <1>2, <1>3 DEF TransferIInv, Usb!TransferSound, Usb!WholeContent, Usb!SessionIsolated,
     Usb!UserAuthorized
<1>6. NoTransfer' /\ AudioRest' /\ origin' \in Seq(Nat)
  BY <1>2, <1>3 DEF TransferIInv, NoTransfer, AudioRest
<1> QED
  BY <1>4, <1>5, <1>6 DEF TransferIInv, Usb!TransferSound

-------------------------------------------------------------------------------
(* The poll: what has lost its authorization or expired is cleared.            *)
LEMMA PollSound == ASSUME Usb!TransferAssumption, TransferIInv, Usb!PollBegin \/ Usb!PollEnd \/ Usb!Tick PROVE TransferIInv'
PROOF
<1>0. /\ receivedOffset \in Nat /\ idle \in 0 .. Timeout /\ answer \in Usb!Results /\ mode \in {"keys", "frames"}
      /\ armed \in BOOLEAN /\ active \in BOOLEAN /\ nonce \in 0 .. MaxSession
      /\ content # None => content.sha \in Contents /\ content.bytes = content.sha
  BY DEF TransferIInv, Usb!TransferSound, Usb!TypeOK, Usb!WholeContent
<1>1. CASE Usb!PollBegin
  <2>1. CASE transaction # None /\ ~armed
    <3>1. Usb!Clear /\ mode' = "frames" /\ active' = FALSE /\ receivedOffset' = 0 /\ UNCHANGED <<Usb!host, nonce, idle, answer>>
      BY <1>1, <2>1 DEF Usb!PollBegin
    <3> QED
      BY <1>0, <3>1, ClearedSound DEF Usb!host
  <2>2. CASE ~(transaction # None /\ ~armed)
    <3>1. mode' = "frames" /\ UNCHANGED <<Usb!host, Usb!receiver, active, receivedOffset, nonce, idle, answer>>
      BY <1>1, <2>2 DEF Usb!PollBegin
    <3>2. UNCHANGED <<armed, content, owned, silent, running, active, nonce, transaction, staged, origin, receivedOffset, idle, answer>>
      BY <3>1 DEF Usb!host, Usb!receiver, Usb!audio
    <3>3. Usb!UserAuthorized' /\ AudioRest'
      BY <2>2, <3>1, <3>2 DEF TransferIInv, Usb!TransferSound, Usb!UserAuthorized, AudioRest
    <3>4. Usb!TypeOK'
      BY <3>1, <3>2 DEF TransferIInv, Usb!TransferSound, Usb!TypeOK
    <3> QED
      BY <3>2, <3>3, <3>4 DEF TransferIInv, Usb!TransferSound, Usb!WholeContent, Usb!SessionIsolated, NoTransfer
  <2> QED
    BY <2>1, <2>2
<1>2. CASE Usb!PollEnd
  <2>1. CASE transaction # None /\ idle >= Timeout
    <3>1. Usb!Clear /\ mode' = "keys" /\ receivedOffset' = 0 /\ UNCHANGED <<Usb!host, Usb!session, idle, answer>>
      BY <1>2, <2>1 DEF Usb!PollEnd
    <3> QED
      BY <1>0, <3>1, ClearedSound DEF Usb!host, Usb!session
  <2>2. CASE ~(transaction # None /\ idle >= Timeout)
    <3>1. mode' = "keys" /\ UNCHANGED <<Usb!host, Usb!session, Usb!receiver, receivedOffset, idle, answer>>
      BY <1>2, <2>2 DEF Usb!PollEnd
    <3> QED
      BY <3>1 DEF TransferIInv, Usb!TransferSound, Usb!TypeOK, Usb!WholeContent, Usb!SessionIsolated,
         Usb!UserAuthorized,
                  NoTransfer, AudioRest, Usb!host, Usb!session, Usb!receiver, Usb!audio
  <2> QED
    BY <2>1, <2>2
<1>3. CASE Usb!Tick
  <2>1. idle' \in 0 .. Timeout /\ UNCHANGED <<mode, Usb!host, Usb!session, Usb!receiver, receivedOffset, answer>>
    BY <1>0, <1>3 DEF Usb!Tick, Usb!TransferAssumption
  <2> QED
    BY <1>0, <2>1, StaysSound
<1> QED
  BY <1>1, <1>2, <1>3

(* A refused frame changes nothing but the answer.                             *)
LEMMA RefusedSound == ASSUME TransferIInv, NEW r \in Usb!Results, Usb!Refused(r), mode' = mode PROVE TransferIInv'
PROOF
<1>1. answer' = r /\ UNCHANGED <<Usb!host, Usb!session, Usb!receiver, receivedOffset, idle>>
  BY DEF Usb!Refused
<1>2. receivedOffset \in Nat /\ idle \in 0 .. Timeout
  BY DEF TransferIInv, Usb!TransferSound, Usb!TypeOK
<1> QED
  BY <1>1, <1>2, StaysSound

LEMMA HelloSound == ASSUME Usb!TransferAssumption, TransferIInv, Usb!Hello PROVE TransferIInv'
PROOF
<1>1. /\ Usb!Clear /\ nonce < MaxSession /\ nonce' = nonce + 1 /\ active' = TRUE /\ receivedOffset' = 0 /\ answer' = "accepted"
      /\ UNCHANGED <<mode, Usb!host, idle>>
  BY DEF Usb!Hello
<1>2. MaxSession \in Nat /\ nonce \in 0 .. MaxSession /\ idle \in 0 .. Timeout /\ mode \in {"keys", "frames"}
  BY DEF Usb!TransferAssumption, TransferIInv, Usb!TransferSound, Usb!TypeOK
<1>3. nonce' \in 0 .. MaxSession
  BY <1>1, <1>2
<1>4. /\ armed' = armed /\ content' = content /\ UNCHANGED Usb!audio /\ armed' \in BOOLEAN
      /\ content' # None => content'.sha \in Contents /\ content'.bytes = content'.sha
  BY <1>1 DEF Usb!host, TransferIInv, Usb!TransferSound, Usb!TypeOK, Usb!WholeContent
<1>5. mode' \in {"keys", "frames"} /\ active' \in BOOLEAN /\ receivedOffset' \in Nat /\ idle' \in 0 .. Timeout /\ answer' \in Usb!Results
  BY <1>1, <1>2 DEF Usb!Results
<1> QED
  BY <1>1, <1>3, <1>4, <1>5, ClearedSound

(* An accepted BEGIN: nothing was received yet.                                *)
LEMMA BeginSound ==
  ASSUME Usb!TransferAssumption, TransferIInv, NEW t \in Transfer, NEW sha \in Contents, NEW length \in 0 .. MaxBytes + 1,
         Usb!Begin(t, sha, length)
  PROVE  TransferIInv'
PROOF
<1> DEFINE new == [transfer |-> t, sha |-> sha, length |-> length]
<1>1. CASE \E r \in {"unsupported", "wrong_state", "resource_limit"} : Usb!Refused(r) /\ mode' = mode
  <2>1. {"unsupported", "wrong_state", "resource_limit"} \subseteq Usb!Results
    BY DEF Usb!Results
  <2> QED
    BY <1>1, <2>1, RefusedSound
<1>2. CASE /\ mode = "frames" /\ armed /\ active /\ length <= MaxBytes /\ transaction = None /\ transaction' = new
           /\ receivedOffset' = 0 /\ idle' = 0 /\ answer' = "accepted" /\ mode' = mode
           /\ UNCHANGED <<Usb!host, Usb!session, staged, origin>>
  <2>1. MaxBytes \in Nat /\ Timeout \in Nat
    BY DEF Usb!TransferAssumption
  <2>2. new \in [transfer : Transfer, sha : Contents, length : 0 .. MaxBytes] /\ new.length \in Nat
    BY <1>2, <2>1
  <2> HIDE DEF new
  <2>3. UNCHANGED <<armed, content, owned, silent, running, active, nonce, staged, origin>>
    BY <1>2 DEF Usb!host, Usb!session, Usb!audio
  <2>4. staged = <<>> /\ origin = <<>> /\ Len(<<>>) = 0 /\ <<>> \in Seq(Byte)
    BY <1>2, EmptySeq DEF TransferIInv, NoTransfer
  <2>5. Usb!TypeOK'
    <3>1. idle' \in 0 .. Timeout /\ receivedOffset' \in Nat /\ answer' \in Usb!Results
      BY <1>2, <2>1 DEF Usb!Results
    <3>2. Len(staged') <= new.length /\ staged' = <<>>
      BY <2>2, <2>3, <2>4
    <3> QED
      BY <1>2, <2>2, <2>3, <2>4, <3>1, <3>2 DEF TransferIInv, Usb!TransferSound, Usb!TypeOK
  <2>6. Usb!WholeContent' /\ Usb!UserAuthorized' /\ AudioRest' /\ NoTransfer' /\ origin' \in Seq(Nat)
    BY <1>2, <2>3, <2>4 DEF TransferIInv, Usb!TransferSound, Usb!WholeContent, Usb!UserAuthorized, AudioRest,
       NoTransfer
  <2>7. Usb!SessionIsolated'
    BY <1>2, <2>3, <2>4 DEF Usb!SessionIsolated
  <2> QED
    BY <2>5, <2>6, <2>7 DEF TransferIInv, Usb!TransferSound
<1> QED
  BY <1>1, <1>2 DEF Usb!Begin

LEMMA FunctionSeq ==
  ASSUME NEW S, NEW n \in Nat, NEW f \in [1 .. n -> S]
  PROVE  f \in Seq(S) /\ Len(f) = n /\ DOMAIN f = 1 .. n
PROOF
<1>1. f \in Seq(S)
  OBVIOUS
<1>2. 1 .. Len(f) = 1 .. n /\ Len(f) \in Nat
  BY <1>1, LenProperties
<1> QED
  BY <1>1, <1>2

(* What a chunk adds: the bytes behind the received prefix, all of this        *)
(* session, and the announced length is not exceeded.                          *)
LEMMA DataSound ==
  ASSUME Usb!TransferAssumption, TransferIInv, NEW t \in Transfer, NEW offset \in 0 .. MaxBytes, NEW bytes \in Usb!Chunk,
         Usb!Data(t, offset, bytes)
  PROVE  TransferIInv'
PROOF
<1> DEFINE result == Usb!DataResult(offset, bytes)
           from == Usb!Overlap(offset, bytes) + 1
           fresh == SubSeq(bytes, from, Len(bytes))
           ghost == [i \in DOMAIN fresh |-> nonce]
<1>0. mode = "frames" /\ mode' = mode /\ active /\ "wrong_state" \in Usb!Results
  BY DEF Usb!Data, Usb!Results
<1>1. CASE transaction = None \/ transaction.transfer # t
  <2>1. Usb!Refused("wrong_state")
    BY <1>1 DEF Usb!Data
  <2> QED
    BY <1>0, <2>1, RefusedSound
<1>2. CASE ~(transaction = None \/ transaction.transfer # t)
  <2>1. /\ answer' = result /\ idle' = Usb!Progress(result) /\ UNCHANGED <<Usb!host, Usb!session, transaction>>
        /\ result = "accepted" => staged' = staged \o fresh /\ origin' = origin \o ghost
                                  /\ receivedOffset' = receivedOffset + Len(bytes)
        /\ result # "accepted" => UNCHANGED <<staged, origin, receivedOffset>>
    BY <1>2 DEF Usb!Data
  <2>2. /\ transaction # None /\ transaction \in [transfer : Transfer, sha : Contents, length : 0 .. MaxBytes]
        /\ Len(staged) <= transaction.length /\ staged \in Seq(Byte) /\ origin \in Seq(Nat) /\ Len(origin) = Len(staged)
        /\ nonce \in Nat /\ transaction.length \in Nat /\ offset \in Nat /\ idle \in 0 .. Timeout /\ receivedOffset \in Nat
        /\ Timeout \in Nat
    BY <1>2 DEF TransferIInv, Usb!TransferSound, Usb!TypeOK, Usb!TransferAssumption
  <2>3. bytes \in Seq(Byte) /\ Len(bytes) \in Nat /\ Len(staged) \in Nat
    <3>1. PICK n \in 1 .. MaxChunk : bytes \in [1 .. n -> Byte]
      BY DEF Usb!Chunk
    <3>2. n \in Nat
      BY <3>1 DEF Usb!TransferAssumption
    <3> QED
      BY <2>2, <3>1, <3>2, SeqDef, LenProperties
  <2>4. idle' \in 0 .. Timeout /\ result \in Usb!Results
    BY <2>1, <2>2 DEF Usb!Progress, Usb!DataResult, Usb!Results
  <2>5. CASE result # "accepted"
    <3>1. UNCHANGED <<Usb!host, Usb!session, Usb!receiver>> /\ mode' = mode /\ receivedOffset' \in Nat /\ answer' \in Usb!Results
      BY <1>0, <2>1, <2>2, <2>4, <2>5 DEF Usb!receiver
    <3> QED
      BY <2>4, <3>1, StaysSound
  <2>6. CASE result = "accepted"
    <3>1. offset <= Len(staged) /\ Len(bytes) <= transaction.length - offset /\ Usb!Overlap(offset, bytes) # Len(bytes)
      BY <2>2, <2>3, <2>6 DEF Usb!DataResult, Usb!Received
    <3>2. from \in Nat /\ from = Len(staged) - offset + 1 /\ 1 <= from /\ from <= Len(bytes) 
      BY <2>2, <2>3, <3>1 DEF Usb!Overlap, Usb!Received
    <3>3. /\ fresh \in Seq(Byte) /\ Len(fresh) = Len(bytes) - from + 1
          /\ DOMAIN fresh = 1 .. Len(fresh)
      BY <2>3, <3>2, SubSeqProperties, LenProperties
    <3>4. ghost \in Seq(Nat) /\ Len(ghost) = Len(fresh) /\ \A i \in 1 .. Len(ghost) : ghost[i] = nonce
      <4>1. Len(fresh) \in Nat /\ ghost \in [1 .. Len(fresh) -> Nat]
        BY <2>2, <2>3, <3>2, <3>3
      <4>2. ghost \in Seq(Nat) /\ Len(ghost) = Len(fresh)
        <5> HIDE DEF ghost, fresh
        <5> QED
          BY <4>1, FunctionSeq
      <4>3. \A i \in 1 .. Len(fresh) : ghost[i] = nonce
        BY <3>3
      <4> QED
        BY <4>2, <4>3
    <3> HIDE DEF result, from, fresh, ghost
    <3>5. /\ staged' \in Seq(Byte) /\ Len(staged') = Len(staged) + Len(fresh)
          /\ origin' \in Seq(Nat) /\ Len(origin') = Len(origin) + Len(ghost) /\ Len(origin) \in Nat
          /\ \A i \in 1 .. Len(origin) : origin'[i] = origin[i]
          /\ \A i \in Len(origin) + 1 .. Len(origin') : origin'[i] = ghost[i - Len(origin)]
      <4>1. staged' = staged \o fresh /\ origin' = origin \o ghost
        BY <2>1, <2>6
      <4>2. Len(origin) \in Nat /\ Len(ghost) \in Nat
        BY <2>2, <3>4, LenProperties
      <4>3. staged' \in Seq(Byte) /\ Len(staged') = Len(staged) + Len(fresh)
        BY <2>2, <3>3, <4>1, ConcatProperties
      <4>4. /\ origin' \in Seq(Nat) /\ Len(origin') = Len(origin) + Len(ghost)
            /\ \A i \in 1 .. Len(origin) + Len(ghost) : origin'[i] = IF i <= Len(origin) THEN origin[i] ELSE ghost[i - Len(origin)]
        BY <2>2, <3>4, <4>1, ConcatProperties
      <4>5. \A i \in 1 .. Len(origin) : i \in 1 .. Len(origin) + Len(ghost) /\ i <= Len(origin)
        BY <4>2
      <4>6. \A i \in Len(origin) + 1 .. Len(origin') : i \in 1 .. Len(origin) + Len(ghost) /\ ~(i <= Len(origin))
        BY <4>2, <4>4
      <4> QED
        BY <4>2, <4>3, <4>4, <4>5, <4>6
    <3>6. UNCHANGED <<armed, content, owned, silent, running, active, nonce>>
      BY <2>1 DEF Usb!host, Usb!session, Usb!audio
    <3>7. Usb!TypeOK'
      <4>1. Len(staged') <= transaction.length /\ Len(origin') = Len(staged')
        BY <2>2, <2>3, <3>1, <3>2, <3>3, <3>4, <3>5
      <4>2. receivedOffset' \in Nat
        BY <2>1, <2>2, <2>3, <2>6
      <4> QED
        BY <1>0, <2>1, <2>2, <2>4, <3>5, <3>6, <4>1, <4>2 DEF TransferIInv, Usb!TransferSound, Usb!TypeOK
    <3>8. Usb!SessionIsolated'
      <4>1. DOMAIN origin' = 1 .. Len(origin') /\ DOMAIN origin = 1 .. Len(origin)
        BY <2>2, <3>5, LenProperties
      <4>2. \A i \in DOMAIN origin : origin[i] = nonce
        BY <2>2 DEF TransferIInv, Usb!TransferSound, Usb!SessionIsolated
      <4>3. \A i \in 1 .. Len(origin') : i \in 1 .. Len(origin) \/ (i \in Len(origin) + 1 .. Len(origin') /\ i - Len(origin) \in 1 .. Len(ghost))
        <5>1. Len(ghost) \in Nat
          BY <3>4, LenProperties
        <5> QED
          BY <3>5, <5>1
      <4>4. \A i \in DOMAIN origin' : origin'[i] = nonce
        BY <3>4, <3>5, <4>1, <4>2, <4>3
      <4> QED
        BY <1>0, <3>6, <4>4 DEF Usb!SessionIsolated
    <3>9. Usb!WholeContent' /\ Usb!UserAuthorized' /\ AudioRest'
      BY <1>0, <2>1, <3>6 DEF TransferIInv, Usb!TransferSound, Usb!WholeContent, Usb!UserAuthorized, AudioRest
    <3>10. NoTransfer'
      BY <2>1, <2>2 DEF NoTransfer
    <3> QED
      BY <3>5, <3>7, <3>8, <3>9, <3>10 DEF TransferIInv, Usb!TransferSound
  <2> QED
    BY <2>5, <2>6
<1> QED
  BY <1>1, <1>2

(* A commit: what it installs was verified and is whole.                       *)
LEMMA CommitSound ==
  ASSUME TransferIInv, NEW t \in Transfer, Usb!Commit(t)
  PROVE  TransferIInv'
PROOF
<1>0. mode = "frames" /\ mode' = mode /\ active /\ {"wrong_state", "malformed"} \subseteq Usb!Results
  BY DEF Usb!Commit, Usb!Results
<1>1. CASE transaction = None \/ transaction.transfer # t \/ Usb!Received # transaction.length
  <2>1. \E r \in {"wrong_state", "malformed"} : Usb!Refused(r)
    BY <1>1 DEF Usb!Commit
  <2> QED
    BY <1>0, <2>1, RefusedSound
<1>2. CASE ~(transaction = None \/ transaction.transfer # t \/ Usb!Received # transaction.length)
  <2>1. /\ Usb!Clear /\ UNCHANGED <<Usb!session, idle>>
        /\ \/ answer' = "resource_limit" /\ UNCHANGED <<Usb!host, receivedOffset>>
           \/ answer' = "identity_mismatch" /\ UNCHANGED <<Usb!host, receivedOffset>>
           \/ Usb!DigestMatches /\ Usb!LoadReceived /\ receivedOffset' = IF answer' = "committed" THEN 0 ELSE receivedOffset
    BY <1>2 DEF Usb!Commit
  <2>2. /\ receivedOffset \in Nat /\ idle \in 0 .. Timeout /\ armed \in BOOLEAN /\ active \in BOOLEAN /\ nonce \in 0 .. MaxSession
        /\ content # None => content.sha \in Contents /\ content.bytes = content.sha
        /\ transaction.sha \in Contents
    BY <1>2 DEF TransferIInv, Usb!TransferSound, Usb!TypeOK, Usb!WholeContent
  <2>3. active' = active /\ nonce' = nonce /\ idle' = idle /\ receivedOffset' \in Nat
    BY <2>1, <2>2 DEF Usb!session
  <2>4. /\ answer' \in Usb!Results /\ UNCHANGED Usb!audio /\ armed' \in BOOLEAN /\ (armed' => armed /\ content' = content)
        /\ content' # None => content'.sha \in Contents /\ content'.bytes = content'.sha
    <3>1. CASE UNCHANGED Usb!host /\ answer' \in {"resource_limit", "identity_mismatch", "malformed"}
      BY <2>2, <3>1 DEF Usb!host, Usb!Results
    <3>2. CASE armed' = FALSE /\ UNCHANGED Usb!audio /\ answer' = "malformed" /\ UNCHANGED content
      BY <2>2, <3>2 DEF Usb!Results
    <3>3. CASE /\ armed' = FALSE /\ UNCHANGED Usb!audio /\ answer' = "committed"
               /\ content' = [bytes |-> staged, sha |-> transaction.sha] /\ staged = transaction.sha
      BY <2>2, <3>3 DEF Usb!Results
    <3> QED
      BY <2>1, <3>1, <3>2, <3>3 DEF Usb!LoadReceived, Usb!DigestMatches
  <2> QED
    BY <1>0, <2>1, <2>2, <2>3, <2>4, ClearedSound
<1> QED
  BY <1>1, <1>2

LEMMA AbortSound ==
  ASSUME TransferIInv, NEW t \in Transfer, Usb!Abort(t)
  PROVE  TransferIInv'
PROOF
<1>0. mode = "frames" /\ mode' = mode /\ {"wrong_state", "aborted"} \subseteq Usb!Results
  BY DEF Usb!Abort, Usb!Results
<1>1. CASE Usb!Refused("wrong_state")
  BY <1>0, <1>1, RefusedSound
<1>2. CASE Usb!Clear /\ receivedOffset' = 0 /\ answer' = "aborted" /\ UNCHANGED <<Usb!host, Usb!session, idle>>
  <2>1. /\ idle \in 0 .. Timeout /\ armed \in BOOLEAN /\ active \in BOOLEAN /\ nonce \in 0 .. MaxSession
        /\ content # None => content.sha \in Contents /\ content.bytes = content.sha
    BY DEF TransferIInv, Usb!TransferSound, Usb!TypeOK, Usb!WholeContent
  <2> QED
    BY <1>0, <1>2, <2>1, ClearedSound DEF Usb!host, Usb!session
<1> QED
  BY <1>1, <1>2 DEF Usb!Abort

LEMMA TransferStep == ASSUME Usb!TransferAssumption, TransferIInv, [Usb!Next]_(Usb!vars) PROVE TransferIInv'
PROOF
<1>1. CASE Usb!Keys
  BY <1>1, KeysSound
<1>2. CASE Usb!PollBegin \/ Usb!PollEnd \/ Usb!Tick
  BY <1>2, PollSound
<1>3. CASE Usb!Frames
  <2>1. CASE Usb!Hello
    BY <2>1, HelloSound
  <2>2. CASE Usb!BeginUnarmed \/ \E n \in 0 .. MaxSession, exact \in BOOLEAN : Usb!Unauthorized(n, exact)
    <3>1. \E r \in Usb!Results : Usb!Refused(r) /\ mode' = mode
      BY <2>2 DEF Usb!BeginUnarmed, Usb!Unauthorized, Usb!Results
    <3> QED
      BY <3>1, RefusedSound
  <2>3. CASE \E t \in Transfer :
               \/ \E sha \in Contents, length \in 0 .. MaxBytes + 1 : Usb!Begin(t, sha, length)
               \/ \E offset \in 0 .. MaxBytes, bytes \in Usb!Chunk : Usb!Data(t, offset, bytes)
               \/ Usb!Commit(t) \/ Usb!Abort(t)
    BY <2>3, BeginSound, DataSound, CommitSound, AbortSound
  <2> QED
    BY <1>3, <2>1, <2>2, <2>3 DEF Usb!Frames
<1>4. CASE UNCHANGED Usb!vars
  <2>1. UNCHANGED <<Usb!host, Usb!session, Usb!receiver>> /\ mode' = mode /\ UNCHANGED <<receivedOffset, idle, answer>>
    BY <1>4 DEF Usb!vars
  <2>2. receivedOffset \in Nat /\ idle \in 0 .. Timeout /\ answer \in Usb!Results
    BY DEF TransferIInv, Usb!TransferSound, Usb!TypeOK
  <2> QED
    BY <2>1, <2>2, StaysSound
<1> QED
  BY <1>1, <1>2, <1>3, <1>4 DEF Usb!Next

(* The device installs only whole content, of the session that sent it, while  *)
(* its user allows it and its audio is silent: for every content, session,     *)
(* chunk and order of frames.                                                  *)
THEOREM TransferSafe == ASSUME Usb!TransferAssumption PROVE Usb!Spec => []TransferSound
PROOF
<1>1. Usb!Init => TransferIInv
  BY InitSound
<1>2. TransferIInv /\ [Usb!Next]_(Usb!vars) => TransferIInv'
  BY TransferStep
<1>3. TransferIInv => TransferSound
  BY DEF TransferIInv, TransferSound
<1> QED
  BY <1>1, <1>2, <1>3, PTL DEF Usb!Spec
==============================================================================
