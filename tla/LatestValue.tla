----------------------------- MODULE LatestValue -----------------------------
(* What a ValueChannel promises to the audio and the control side, without    *)
(* saying how: one writer publishes versions 1, 2, 3, ...; one reader obtains *)
(* whole versions, never older than the newest one that was published when    *)
(* the read began, and never older than one it obtained before.               *)
EXTENDS Naturals

CONSTANT MaxPublish             \* bound on the number of publications

VARIABLES latest,               \* the newest published version
          reading,              \* is a read() in progress?
          floor,                \* latest when the read in progress began
          returned              \* what the last completed read() returned

avars == <<latest, reading, floor, returned>>

AInit == latest = 0 /\ reading = FALSE /\ floor = 0 /\ returned = 0

APublish == /\ latest < MaxPublish
            /\ latest' = latest + 1
            /\ UNCHANGED <<reading, floor, returned>>

ABeginRead == /\ ~reading
              /\ reading' = TRUE
              /\ floor' = latest
              /\ UNCHANGED <<latest, returned>>

AEndRead == /\ reading
            /\ reading' = FALSE
            /\ \E v \in floor .. latest : v >= returned /\ returned' = v
            /\ UNCHANGED <<latest, floor>>

ANext == APublish \/ ABeginRead \/ AEndRead

ASpec == AInit /\ [][ANext]_avars
==============================================================================
