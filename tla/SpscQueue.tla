------------------------------ MODULE SpscQueue ------------------------------
(* The single-producer single-consumer rings between the control thread and   *)
(* the audio callback: FixedSpscQueue (fixed_spsc_queue.hpp) and, with the    *)
(* capacity chosen at construction, RuntimeSpscStorage                        *)
(* (runtime_spsc_storage.hpp), both in                                        *)
(* packages/audio-runtime/include/lmdj/audio/detail/. The two share indices,  *)
(* ordering and sentinel cell; storage placement is the only difference.      *)
(*                                                                            *)
(* An item is the ordinal of its acceptance; 0 stands for a cell or a copy    *)
(* that is not a whole item. Copying into or out of a cell takes two steps,   *)
(* so that an overlapping copy shows.                                         *)
EXTENDS Naturals, TLAPS

CONSTANTS Capacity,             \* Capacity of the queue
          MaxItems              \* bound on the number of accepted items

ASSUME CapacityAssumption == Capacity \in Nat \ {0}
ASSUME MaxItemsAssumption == MaxItems \in Nat

VARIABLES
    cells,      \* cells_
    read,       \* read_
    write,      \* write_
    ppc,        \* where try_push() is
    cpc,        \* where try_pop() is
    got,        \* the value try_pop() is copying out
    accepted,   \* number of items accepted so far
    taken,      \* number of items popped or cleared so far
    received,   \* the last item try_pop() returned
    pushed,     \* result of the last try_push()
    popped,     \* result of the last try_pop()
    cleared     \* result of the last clear_quiescent()

producerVars == <<write, ppc, accepted, pushed>>
consumerVars == <<read, cpc, got, taken, received, popped>>
vars == <<cells, read, write, ppc, cpc, got, accepted, taken, received, pushed,
          popped, cleared>>

kStorage == Capacity + 1

Increment(value) == IF value + 1 = kStorage THEN 0 ELSE value + 1

SizeApprox == IF write >= read THEN write - read ELSE (kStorage + write) - read

Init ==
    /\ cells = [i \in 0 .. Capacity |-> 0]
    /\ read = 0 /\ write = 0
    /\ ppc = "idle" /\ cpc = "idle"
    /\ got = 0
    /\ accepted = 0 /\ taken = 0 /\ received = 0
    /\ pushed = "none" /\ popped = "none" /\ cleared = 0

------------------------------------------------------------------------------
(* try_push(), on the producer's thread                                       *)

PushCheck ==
    /\ ppc = "idle"
    /\ accepted < MaxItems
    /\ Increment(write) # read
    /\ ppc' = "copy"
    /\ UNCHANGED <<cells, write, accepted, pushed, consumerVars, cleared>>

PushFull ==
    /\ ppc = "idle"
    /\ Increment(write) = read
    /\ pushed' = "full"
    /\ UNCHANGED <<cells, write, ppc, accepted, consumerVars, cleared>>

PushCopyBegin ==
    /\ ppc = "copy"
    /\ cells' = [cells EXCEPT ![write] = 0]
    /\ ppc' = "copying"
    /\ UNCHANGED <<write, accepted, pushed, consumerVars, cleared>>

PushCopyEnd ==
    /\ ppc = "copying"
    /\ cells' = [cells EXCEPT ![write] = accepted + 1]
    /\ ppc' = "store"
    /\ UNCHANGED <<write, accepted, pushed, consumerVars, cleared>>

PushStore ==
    /\ ppc = "store"
    /\ write' = Increment(write)
    /\ accepted' = accepted + 1
    /\ pushed' = "ok"
    /\ ppc' = "idle"
    /\ UNCHANGED <<cells, consumerVars, cleared>>

------------------------------------------------------------------------------
(* try_pop(), on the consumer's thread                                        *)

PopCheck ==
    /\ cpc = "idle"
    /\ read # write
    /\ cpc' = "copy"
    /\ UNCHANGED <<cells, producerVars, read, got, taken, received, popped, cleared>>

PopEmpty ==
    /\ cpc = "idle"
    /\ read = write
    /\ popped' = "empty"
    /\ UNCHANGED <<cells, producerVars, read, cpc, got, taken, received, cleared>>

PopCopyBegin ==
    /\ cpc = "copy"
    /\ got' = cells[read]
    /\ cpc' = "copying"
    /\ UNCHANGED <<cells, producerVars, read, taken, received, popped, cleared>>

PopCopyEnd ==
    /\ cpc = "copying"
    /\ got' = IF cells[read] = got THEN got ELSE 0
    /\ cpc' = "store"
    /\ UNCHANGED <<cells, producerVars, read, taken, received, popped, cleared>>

(* Mutant: read_ is not advanced past the popped cell.                        *)
PopStoreKeeps ==
    /\ cpc = "store"
    /\ taken' = taken + 1
    /\ received' = got
    /\ popped' = "ok"
    /\ cpc' = "idle"
    /\ UNCHANGED <<cells, producerVars, read, got, cleared>>

PopStore ==
    /\ cpc = "store"
    /\ read' = Increment(read)
    /\ taken' = taken + 1
    /\ received' = got
    /\ popped' = "ok"
    /\ cpc' = "idle"
    /\ UNCHANGED <<cells, producerVars, got, cleared>>

------------------------------------------------------------------------------
(* clear_quiescent(): the caller guarantees that neither side is in a call.   *)
ClearQuiescent ==
    /\ ppc = "idle" /\ cpc = "idle"
    /\ cleared' = SizeApprox
    /\ read' = write
    /\ taken' = accepted
    /\ UNCHANGED <<cells, producerVars, cpc, got, received, popped>>

Push == PushCheck \/ PushFull \/ PushCopyBegin \/ PushCopyEnd \/ PushStore
Pop  == PopCheck \/ PopEmpty \/ PopCopyBegin \/ PopCopyEnd \/ PopStore

Next == Push \/ Pop \/ ClearQuiescent

Spec == Init /\ [][Next]_vars

------------------------------------------------------------------------------
(* The types of the variables.                                                *)
TypeOK ==
    /\ cells \in [0 .. Capacity -> Nat]
    /\ read \in 0 .. Capacity
    /\ write \in 0 .. Capacity
    /\ ppc \in {"idle", "copy", "copying", "store"}
    /\ cpc \in {"idle", "copy", "copying", "store"}
    /\ got \in Nat
    /\ accepted \in Nat
    /\ taken \in Nat
    /\ received \in Nat
    /\ cleared \in Nat
    /\ pushed \in {"none", "ok", "full"}
    /\ popped \in {"none", "ok", "empty"}

(* The index difference size_approx() computes is the number of items in the  *)
(* queue in every state, wrapped or not, and never exceeds Capacity.          *)
SizeExact == SizeApprox = accepted - taken /\ accepted - taken <= Capacity

(* The producer never writes the cell the consumer is copying.                *)
NoDataRace ==
    ~ (ppc \in {"copying", "store"} /\ cpc \in {"copying", "store"} /\ read = write)

(* The ring implements the bounded FIFO: items come out whole, in order, none *)
(* lost or doubled; a push is refused only when the queue is full and a pop   *)
(* only when it is empty.                                                     *)
Fifo == INSTANCE BoundedFifo
FifoSpec == Fifo!ASpec
------------------------------------------------------------------------------
(* The proofs, for every capacity and every number of items.                  *)

(* The cell that holds the item numbered j of the content.                    *)
Position(j) ==
    IF read + (j - taken - 1) >= kStorage
    THEN read + (j - taken - 1) - kStorage
    ELSE read + (j - taken - 1)

(* Every accepted item not yet taken lies whole in its cell.                  *)
Content == \A j \in Nat : taken < j /\ j <= accepted => cells[Position(j)] = j

(* What the producer's call in progress has established.                      *)
PushProgress ==
    /\ taken <= accepted
    /\ ppc # "idle" => accepted < MaxItems /\ accepted - taken < Capacity
    /\ ppc = "store" => cells[write] = accepted + 1

(* What the consumer's call in progress has established.                      *)
PopProgress ==
    /\ cpc # "idle" => taken < accepted
    /\ cpc \in {"copying", "store"} => got = taken + 1

(* The inductive invariant.                                                   *)
IInv == TypeOK /\ SizeExact /\ Content /\ PushProgress /\ PopProgress

(* The constructor's state satisfies the invariant.                           *)
LEMMA InitIInv == Init => IInv
  BY CapacityAssumption, MaxItemsAssumption
     DEF Init, IInv, TypeOK, SizeExact, Content, PushProgress, PopProgress, SizeApprox,
         Position, kStorage

(* The write index is where the next item belongs.                            *)
LEMMA WritePosition == IInv => write = Position(accepted + 1)
  BY CapacityAssumption DEF IInv, TypeOK, SizeExact, PushProgress, SizeApprox, Position, kStorage

(* The read index is where the oldest item lies.                              *)
LEMMA ReadPosition == IInv => read = Position(taken + 1)
  BY CapacityAssumption DEF IInv, TypeOK, SizeExact, PushProgress, SizeApprox, Position, kStorage

(* No item of the content lies in the cell the producer owns.                 *)
LEMMA WriteFree ==
    IInv => \A j \in Nat : taken < j /\ j <= accepted =>
                Position(j) # write /\ Position(j) \in 0 .. Capacity
  BY CapacityAssumption DEF IInv, TypeOK, SizeExact, PushProgress, SizeApprox, Position, kStorage

(* Advancing read_ by one item leaves the cell of every later item alone.     *)
LEMMA PositionShift ==
    ASSUME IInv, read' = Increment(read), taken' = taken + 1,
           NEW j \in Nat, taken + 1 < j, j <= accepted
    PROVE  Position(j)' = Position(j)
  BY CapacityAssumption
     DEF IInv, TypeOK, SizeExact, PushProgress, SizeApprox, Position, kStorage, Increment

(* Every step of try_push(), try_pop() and clear_quiescent() preserves it.    *)
LEMMA NextIInv == IInv /\ [Next]_vars => IInv'
<1> SUFFICES ASSUME IInv, [Next]_vars PROVE IInv'
  OBVIOUS
<1> USE CapacityAssumption, MaxItemsAssumption
     DEF IInv, TypeOK, producerVars, consumerVars, kStorage
<1>1. CASE PushCheck
  BY <1>1 DEF PushCheck, SizeExact, Content, PushProgress, PopProgress, SizeApprox, Position, Increment
<1>2. CASE PushFull
  BY <1>2 DEF PushFull, SizeExact, Content, PushProgress, PopProgress, SizeApprox, Position
<1>3. CASE PushCopyBegin
  <2>1. Content'
    <3> SUFFICES ASSUME NEW j \in Nat, taken < j, j <= accepted
                 PROVE  cells'[Position(j)] = j
      BY <1>3 DEF PushCopyBegin, Content, Position
    <3>1. cells[Position(j)] = j
      BY DEF Content
    <3> QED
      BY <1>3, <3>1, WriteFree DEF PushCopyBegin
  <2> QED
    BY <1>3, <2>1 DEF PushCopyBegin, SizeExact, PushProgress, PopProgress, SizeApprox
<1>4. CASE PushCopyEnd
  <2>1. Content'
    <3> SUFFICES ASSUME NEW j \in Nat, taken < j, j <= accepted
                 PROVE  cells'[Position(j)] = j
      BY <1>4 DEF PushCopyEnd, Content, Position
    <3>1. cells[Position(j)] = j
      BY DEF Content
    <3> QED
      BY <1>4, <3>1, WriteFree DEF PushCopyEnd
  <2> QED
    BY <1>4, <2>1 DEF PushCopyEnd, SizeExact, PushProgress, PopProgress, SizeApprox
<1>5. CASE PushStore
  <2>1. SizeExact' /\ TypeOK'
    BY <1>5 DEF PushStore, SizeExact, PushProgress, SizeApprox, Increment
  <2>2. Content'
    <3> SUFFICES ASSUME NEW j \in Nat, taken < j, j <= accepted + 1
                 PROVE  cells[Position(j)] = j
      BY <1>5 DEF PushStore, Content, Position
    <3>1. CASE j <= accepted
      BY <3>1 DEF Content
    <3>2. CASE j = accepted + 1
      BY <1>5, <3>2, WritePosition DEF PushStore, PushProgress
    <3> QED
      BY <3>1, <3>2
  <2> QED
    BY <1>5, <2>1, <2>2 DEF PushStore, PushProgress, PopProgress
<1>6. CASE PopCheck
  BY <1>6 DEF PopCheck, SizeExact, Content, PushProgress, PopProgress, SizeApprox, Position
<1>7. CASE PopEmpty
  BY <1>7 DEF PopEmpty, SizeExact, Content, PushProgress, PopProgress, SizeApprox, Position
<1>8. CASE PopCopyBegin
  <2>1. cells[read] = taken + 1
    BY <1>8, ReadPosition DEF PopCopyBegin, Content, PopProgress
  <2> QED
    BY <1>8, <2>1 DEF PopCopyBegin, SizeExact, Content, PushProgress, PopProgress, SizeApprox, Position
<1>9. CASE PopCopyEnd
  <2>1. cells[read] = taken + 1
    BY <1>9, ReadPosition DEF PopCopyEnd, Content, PopProgress
  <2> QED
    BY <1>9, <2>1 DEF PopCopyEnd, SizeExact, Content, PushProgress, PopProgress, SizeApprox, Position
<1>10. CASE PopStore
  <2>1. SizeExact' /\ TypeOK'
    BY <1>10 DEF PopStore, SizeExact, PopProgress, PushProgress, SizeApprox, Increment
  <2>2. Content'
    <3> SUFFICES ASSUME NEW j \in Nat, taken + 1 < j, j <= accepted
                 PROVE  cells[Position(j)'] = j
      BY <1>10 DEF PopStore, Content
    <3> QED
      BY <1>10, PositionShift DEF PopStore, Content
  <2> QED
    BY <1>10, <2>1, <2>2 DEF PopStore, PushProgress, PopProgress
<1>11. CASE ClearQuiescent
  BY <1>11 DEF ClearQuiescent, SizeExact, Content, PushProgress, PopProgress, SizeApprox, Position
<1>12. CASE UNCHANGED vars
  BY <1>12 DEF vars, SizeExact, Content, PushProgress, PopProgress, SizeApprox, Position
<1> QED
  BY <1>1, <1>2, <1>3, <1>4, <1>5, <1>6, <1>7, <1>8, <1>9, <1>10, <1>11, <1>12
     DEF Next, Push, Pop

(* The invariant holds of every behaviour of the ring.                        *)
THEOREM Invariance == Spec => []IInv
  BY InitIInv, NextIInv, PTL DEF Spec

(* The variables always have their types.                                     *)
THEOREM TypeCorrect == Spec => []TypeOK
  BY Invariance, PTL DEF IInv

(* size_approx() is the exact content of the ring, never above Capacity.      *)
THEOREM SizeCorrect == Spec => []SizeExact
  BY Invariance, PTL DEF IInv

(* try_push() never writes the cell try_pop() is copying.                     *)
THEOREM RaceFree == Spec => []NoDataRace
<1>1. IInv => NoDataRace
  BY CapacityAssumption
     DEF IInv, TypeOK, NoDataRace, SizeExact, PushProgress, PopProgress, SizeApprox, kStorage
<1> QED
  BY <1>1, Invariance, PTL

(* The ring implements the bounded FIFO, for every capacity.                  *)
THEOREM Refinement == Spec => FifoSpec
<1>1. Init => Fifo!AInit
  BY DEF Init, Fifo!AInit
<1>2. IInv /\ [Next]_vars => [Fifo!ANext]_(Fifo!avars)
  <2> SUFFICES ASSUME IInv, [Next]_vars PROVE [Fifo!ANext]_(Fifo!avars)
    OBVIOUS
  <2> USE CapacityAssumption, MaxItemsAssumption
       DEF IInv, TypeOK, producerVars, consumerVars, Fifo!avars
  <2>1. CASE PushFull
    BY <2>1 DEF PushFull, SizeExact, PushProgress, SizeApprox, Increment, kStorage, Fifo!ANext, Fifo!APushFull
  <2>2. CASE PushStore
    BY <2>2 DEF PushStore, PushProgress, Fifo!ANext, Fifo!APushOk
  <2>3. CASE PopEmpty
    BY <2>3 DEF PopEmpty, SizeExact, PushProgress, SizeApprox, kStorage, Fifo!ANext, Fifo!APopEmpty
  <2>4. CASE PopStore
    BY <2>4 DEF PopStore, PopProgress, Fifo!ANext, Fifo!APopOk
  <2>5. CASE ClearQuiescent
    BY <2>5 DEF ClearQuiescent, SizeExact, Fifo!ANext, Fifo!AClear
  <2>6. CASE PushCheck \/ PushCopyBegin \/ PushCopyEnd
    BY <2>6 DEF PushCheck, PushCopyBegin, PushCopyEnd
  <2>7. CASE PopCheck \/ PopCopyBegin \/ PopCopyEnd
    BY <2>7 DEF PopCheck, PopCopyBegin, PopCopyEnd
  <2>8. CASE UNCHANGED vars
    BY <2>8 DEF vars
  <2> QED
    BY <2>1, <2>2, <2>3, <2>4, <2>5, <2>6, <2>7, <2>8 DEF Next, Push, Pop
<1> QED
  BY <1>1, <1>2, Invariance, PTL DEF Spec, FifoSpec, Fifo!ASpec
==============================================================================
