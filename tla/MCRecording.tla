------------------------------ MODULE MCRecording -----------------------------
(* The kinds of take that are kept in a journal beside the Project: a        *)
(* Sequence, a Capture committed inside one, the input of a Pattern          *)
(* recording, and a performance, each with failed writes, lost owners and    *)
(* recoveries; and a recording that the engine starts after a count-in.      *)
EXTENDS Recordings, TLC
CONSTANTS Torn, Corrupt, c1, c2

VARIABLES part, sequenceDisk, sequenceSealed, sequenceHead, sequenceTruth, sequenceReceipts, mem,
          sequenceCall, fresh, sequenceAcked, sequenceFaults, admissionDisk, admissionHead, admissionTruth,
          admissionReceipts, own, work, phase, audio, queue, elapsed, admissionAcked, admissionFaults,
          performanceDisk, performanceSealed, performanceHead, perf, performanceReceipts, run, owner,
          performanceCall, input, begun, edits, performanceFaults, performanceAcked, dropped
sequenceVars == <<sequenceDisk, sequenceSealed, sequenceHead, sequenceTruth, sequenceReceipts, mem,
            sequenceCall, fresh, sequenceAcked, sequenceFaults>>
admissionVars == <<admissionDisk, admissionHead, admissionTruth, admissionReceipts, own, work, phase, audio,
            queue, elapsed, admissionAcked, admissionFaults>>
performanceVars == <<performanceDisk, performanceSealed, performanceHead, perf, performanceReceipts, run,
            owner, performanceCall, input, begun, edits, performanceFaults, performanceAcked, dropped>>
ASSUME CaptureAssumption
Cues == <<0, 1>>
Lengths == [p \in {"pa", "pb"} |-> IF p = "pa" THEN 2 ELSE 1]

Sequence == INSTANCE SequenceRecording WITH Pattern <- {"pa", "pb"}, Length <- Lengths, Command <- {c1, c2},
  MaxInput <- 2, MaxHead <- 2, MaxFresh <- 2, MaxFaults <- 1, disk <- sequenceDisk, sealed <- sequenceSealed,
  head <- sequenceHead, truth <- sequenceTruth, receipts <- sequenceReceipts, call <- sequenceCall, acked <-
  sequenceAcked, faults <- sequenceFaults
Admission == INSTANCE PatternAdmission WITH Pattern <- {"pa", "pb"}, First <- "pa", Limit <- 4, MaxFrame <- 2,
  MaxInput <- 3, MaxGen <- 2, MaxFaults <- 1, disk <- admissionDisk, head <- admissionHead, truth <-
  admissionTruth, receipts <- admissionReceipts, acked <- admissionAcked, faults <- admissionFaults
Performance == INSTANCE PerformanceRecording WITH Headered <- TRUE, Command <- {c1, c2}, Request <- {"q1"},
  MaxSessions <- 1, MaxInput <- 2, MaxHead <- 3, MaxEdits <- 1, MaxFaults <- 2, disk <- performanceDisk,
  sealed <- performanceSealed, head <- performanceHead, receipts <- performanceReceipts, call <-
  performanceCall, faults <- performanceFaults, acked <- performanceAcked
ASSUME Sequence!RecordingAssumption /\ Admission!AdmissionAssumption /\ Performance!PerformanceAssumption /\
       Scheduled!ScheduledAssumption
-------------------------------------------------------------------------------
(* The components side by side, each in an initial state; a behaviour moves  *)
(* one of them.                                                              *)
Parts == {"capture", "schedule", "sequence", "admission", "performance"}
MCInit ==
  /\ part \in Parts /\ Init
  /\ Scheduled!Init
  /\ Sequence!Init
  /\ Admission!Init
  /\ Performance!Init
MCNext ==
  /\ UNCHANGED part
  /\ \/ part = "capture" /\ Next /\ UNCHANGED <<recVars, sequenceVars, admissionVars, performanceVars>>
     \/ part = "schedule" /\ Scheduled!Next
        /\ UNCHANGED <<vars, sequenceVars, admissionVars, performanceVars>>
     \/ part = "sequence" /\ Sequence!Next /\ UNCHANGED <<vars, recVars, admissionVars, performanceVars>>
     \/ part = "admission" /\ Admission!Next /\ UNCHANGED <<vars, recVars, sequenceVars, performanceVars>>
     \/ part = "performance" /\ Performance!Next /\ UNCHANGED <<vars, recVars, sequenceVars, admissionVars>>
MCSpec == MCInit /\ [][MCNext]_<<part, vars, recVars, sequenceVars, admissionVars, performanceVars>>
Perms == Permutations({c1, c2})
-------------------------------------------------------------------------------
(* An acknowledged note of a Sequence is committed, in the journal or in a   *)
(* candidate, and both can be read (SequenceRecording).                      *)
SequenceKept == part = "sequence" =>
  Sequence!TypeOK /\ Sequence!NoLoss /\ Sequence!JournalReadable /\ Sequence!CandidatesReadable

(* Recorded Pattern input is committed or can still be recovered, and a      *)
(* Pattern gets no note that was played for another (PatternAdmission).      *)
AdmissionKept == part = "admission" =>
  Admission!TypeOK /\ Admission!NothingLost /\ Admission!JournalReadable /\ Admission!NoForeignNotes

(* Acknowledged events of a performance are in its draft, the journal or a   *)
(* candidate until they are discarded, and no flush or recovery would add    *)
(* one to a draft that has it (PerformanceRecording).                        *)
PerformanceKept == part = "performance" =>
  Performance!TypeOK /\ Performance!NothingLost /\ Performance!JournalReadable /\ Performance!AppliesOnce
===============================================================================
