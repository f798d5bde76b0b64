---------------------------- MODULE ValueChannel ----------------------------
(* The lock-free triple buffer that carries whole values (status, meters,     *)
(* telemetry) between one serialized writer and one serialized reader:        *)
(* packages/audio-runtime/include/lmdj/audio/detail/value_channel.hpp.        *)
(*                                                                            *)
(* A value is the ordinal of its publication, copied in two halves, so that a *)
(* copy torn by a concurrent writer is visible as two different halves. Each  *)
(* atomic operation of the code and each half copy is a step of its own.      *)
EXTENDS Naturals

CONSTANT MaxPublish             \* bound on the number of publish() calls

ASSUME MaxPublishAssumption == MaxPublish \in Nat

VARIABLES
    slots,      \* slots_: three values of two halves
    writer,     \* writer_: the slot the writer owns
    reader,     \* reader_: the slot the reader owns
    middle,     \* middle_: an index and the kDirty bit, one atomic word
    wpc,        \* where publish() is
    rpc,        \* where read() is
    out,        \* the value read() is copying out
    published,  \* number of completed publish() calls
    floor,      \* published when the read in progress began
    returned    \* what the last completed read() returned

writerVars == <<writer, wpc, published>>
readerVars == <<reader, rpc, out, floor, returned>>
vars == <<slots, writer, reader, middle, wpc, rpc, out, published, floor, returned>>

Index == 0 .. 2
Value == [lo : Nat, hi : Nat]
Zero  == [lo |-> 0, hi |-> 0]

Init ==
    /\ slots = [i \in Index |-> Zero]
    /\ writer = 0
    /\ reader = 1
    /\ middle = [index |-> 2, dirty |-> FALSE]
    /\ wpc = "idle"
    /\ rpc = "idle"
    /\ out = Zero
    /\ published = 0
    /\ floor = 0
    /\ returned = Zero

------------------------------------------------------------------------------
(* publish(): slots_[writer_] = value, then one exchange of middle_.          *)

PublishFirstHalf ==
    /\ wpc = "idle"
    /\ published < MaxPublish
    /\ slots' = [slots EXCEPT ![writer].lo = published + 1]
    /\ wpc' = "half"
    /\ UNCHANGED <<writer, middle, published, readerVars>>

PublishSecondHalf ==
    /\ wpc = "half"
    /\ slots' = [slots EXCEPT ![writer].hi = published + 1]
    /\ wpc' = "copied"
    /\ UNCHANGED <<writer, middle, published, readerVars>>

PublishExchange ==
    /\ wpc = "copied"
    /\ middle' = [index |-> writer, dirty |-> TRUE]
    /\ writer' = middle.index
    /\ published' = published + 1
    /\ wpc' = "idle"
    /\ UNCHANGED <<slots, readerVars>>

------------------------------------------------------------------------------
(* read(): acquire_read_slot() loads middle_ and, only if it is dirty, takes  *)
(* it by an exchange; then slots_[reader_] is copied out.                     *)

ReadLoad ==
    /\ rpc = "idle"
    /\ rpc' = IF middle.dirty THEN "dirty" ELSE "copy"
    /\ floor' = published
    /\ UNCHANGED <<slots, middle, writerVars, reader, out, returned>>

(* Mutant: the exchanged word keeps kDirty, so the old slot is taken back.    *)
ReadExchangeDirty ==
    /\ rpc = "dirty"
    /\ middle' = [index |-> reader, dirty |-> TRUE]
    /\ reader' = middle.index
    /\ rpc' = "copy"
    /\ UNCHANGED <<slots, writerVars, out, floor, returned>>

ReadExchange ==
    /\ rpc = "dirty"
    /\ middle' = [index |-> reader, dirty |-> FALSE]
    /\ reader' = middle.index
    /\ rpc' = "copy"
    /\ UNCHANGED <<slots, writerVars, out, floor, returned>>

ReadFirstHalf ==
    /\ rpc = "copy"
    /\ out' = [out EXCEPT !.lo = slots[reader].lo]
    /\ rpc' = "half"
    /\ UNCHANGED <<slots, middle, writerVars, reader, floor, returned>>

ReadSecondHalf ==
    /\ rpc = "half"
    /\ out' = [out EXCEPT !.hi = slots[reader].hi]
    /\ returned' = out'
    /\ rpc' = "idle"
    /\ UNCHANGED <<slots, middle, writerVars, reader, floor>>

Publish == PublishFirstHalf \/ PublishSecondHalf \/ PublishExchange
Read    == ReadLoad \/ ReadExchange \/ ReadFirstHalf \/ ReadSecondHalf

Next == Publish \/ Read

Spec == Init /\ [][Next]_vars

------------------------------------------------------------------------------
(* The types of the variables.                                                *)
TypeOK ==
    /\ slots \in [Index -> Value]
    /\ writer \in Index
    /\ reader \in Index
    /\ middle \in [index : Index, dirty : BOOLEAN]
    /\ wpc \in {"idle", "half", "copied"}
    /\ rpc \in {"idle", "dirty", "copy", "half"}
    /\ out \in Value
    /\ published \in 0 .. MaxPublish
    /\ floor \in Nat
    /\ returned \in Value

(* The writer, the reader and the exchange word always own three different    *)
(* slots, so slots_[writer_] is never written while it is being copied out.   *)
SlotsDisjoint ==
    writer # reader /\ writer # middle.index /\ reader # middle.index

(* read() never returns a value mixed from two publications.                  *)
NoTornRead == returned.lo = returned.hi

(* ValueChannel implements LatestValue: read() returns a version at least as  *)
(* new as the newest one whose publish() had completed when the read began,   *)
(* and successive reads never go back, however the exchanges interleave.      *)
Latest == INSTANCE LatestValue
            WITH latest <- published, reading <- rpc # "idle",
                 returned <- returned.lo
LatestSpec == Latest!ASpec
==============================================================================
