----------------------------- MODULE BoundedFifo -----------------------------
(* What a single-producer single-consumer queue promises: a FIFO of at most   *)
(* Capacity items. The n-th accepted item is the number n, so the content is  *)
(* the interval taken + 1 .. accepted.                                        *)
EXTENDS Naturals

CONSTANTS Capacity,             \* number of items the queue can hold
          MaxItems              \* bound on the number of accepted items

VARIABLES accepted,             \* items accepted by the producer's calls
          taken,                \* items that left the queue
          received,             \* the last item a pop returned
          pushed,               \* result of the last push
          popped,               \* result of the last pop
          cleared               \* count returned by the last clear

avars == <<accepted, taken, received, pushed, popped, cleared>>

AInit == /\ accepted = 0 /\ taken = 0 /\ received = 0
         /\ pushed = "none" /\ popped = "none" /\ cleared = 0

APushOk == /\ accepted < MaxItems
           /\ accepted < taken + Capacity
           /\ accepted' = accepted + 1
           /\ pushed' = "ok"
           /\ UNCHANGED <<taken, received, popped, cleared>>

APushFull == /\ accepted = taken + Capacity
             /\ pushed' = "full"
             /\ UNCHANGED <<accepted, taken, received, popped, cleared>>

APopOk == /\ taken < accepted
          /\ taken' = taken + 1
          /\ received' = taken + 1
          /\ popped' = "ok"
          /\ UNCHANGED <<accepted, pushed, cleared>>

APopEmpty == /\ taken = accepted
             /\ popped' = "empty"
             /\ UNCHANGED <<accepted, taken, received, pushed, cleared>>

AClear == /\ taken' = accepted
          /\ cleared' = accepted - taken
          /\ UNCHANGED <<accepted, received, pushed, popped>>

ANext == APushOk \/ APushFull \/ APopOk \/ APopEmpty \/ AClear

ASpec == AInit /\ [][ANext]_avars
==============================================================================
