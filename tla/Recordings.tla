------------------------------ MODULE Recordings ------------------------------
(* Two recordings whose parts must agree: a Capture committed inside a         *)
(* Sequence, and one that starts after a count-in, each with what it promises  *)
(* and the proof that it does, for every set of takes and any number of        *)
(* failures, slots, markers, schedules and frames.                             *)
EXTENDS ArmedCapture, Integers, Sequences, TLAPS

CONSTANTS CountIn, Markers, Envelope, Quanta, RecordSlots, MaxSerial, MaxCommands
VARIABLES tag, cell, payload, last, recSlots, cur, pins, borrows, recLocal, cutoff, settled, transport, playing,
          acknowledged, authority, cue, tail, recAudio, recRunning, commands, held, started, won
recVars == <<tag, cell, payload, last, recSlots, cur, pins, borrows, recLocal, cutoff, settled, transport,
            playing, acknowledged, authority, cue, tail, recAudio, recRunning, commands, held, started, won>>

Scheduled == INSTANCE ScheduledRecord WITH Slots <- RecordSlots, slots <- recSlots, local <- recLocal,
  audio <- recAudio, running <- recRunning
-------------------------------------------------------------------------------
(* A Pattern lent to a schedule stays until audio is done with it, nothing of  *)
(* a settled schedule is under way, and a recording starts only after its      *)
(* whole count-in was handed out (ScheduledRecord).                            *)
SchedulesOwned == Scheduled!BorrowedAlive /\ Scheduled!SettledQuiet /\ Scheduled!StartsComplete

(* A schedule whose cancellation was accepted never starts                     *)
(* (ScheduledRecord).                                                          *)
CancelledSilent == Scheduled!CancelledSilent
-------------------------------------------------------------------------------
(* The proofs for a Capture.                                                   *)

(* The constants the theorems are about: Nil is neither a take nor a marker.   *)
Constants ==
  /\ CaptureAssumption
  /\ Nil \notin Takes /\ Nil \notin [take : Takes, expected : 0 .. MaxRevision]

(* A marker belongs to an armed journal and names its revision; nobody was     *)
(* told of its take; the Project has the take one revision later, or an empty  *)
(* Pad at that revision.                                                       *)
MarkerInv ==
  journal # Nil /\ journal.capture # Nil =>
    /\ journal.armed /\ journal.capture.expected = journal.rev /\ answered = Nil
    /\ \/ project.pad = journal.capture.take /\ project.rev = journal.rev + 1
       \/ project.pad = Nil /\ project.rev = journal.rev

(* Without a marker the journal stands at the Project's revision, and an armed *)
(* Pad is empty.                                                               *)
OpenInv ==
  journal # Nil /\ journal.capture = Nil =>
    journal.rev = project.rev /\ (journal.armed => project.pad = Nil)

(* The running session expects the journal's revision, or it is one behind a   *)
(* completion that is in the file although it was reported as failed.          *)
SessionInv == session # Nil /\ journal # Nil => session.expected = journal.rev \/ Behind

(* What a client was told is saved is on the Pad.                              *)
AnsweredInv == answered # Nil => project.pad = answered

IInv == TypeOK /\ MarkerInv /\ OpenInv /\ SessionInv /\ AnsweredInv
-------------------------------------------------------------------------------
(* The inductive invariant holds at first.                                     *)
LEMMA InitIInv == ASSUME Constants PROVE Init => IInv
  BY DEF Constants, CaptureAssumption, Init, IInv, TypeOK, MarkerInv, OpenInv, SessionInv, AnsweredInv

(* A journal record has its type when its fields have theirs.                  *)
LEMMA JournalRecord ==
  ASSUME NEW a \in BOOLEAN, NEW r \in 0 .. MaxRevision,
         NEW cap \in {Nil} \cup [take : Takes, expected : 0 .. MaxRevision]
  PROVE  [armed |-> a, rev |-> r, capture |-> cap]
           \in [armed : BOOLEAN, rev : 0 .. MaxRevision,
                capture : {Nil} \cup [take : Takes, expected : 0 .. MaxRevision]]
  OBVIOUS

(* The rest of an import (publish_prepared_capture and the completion) keeps   *)
(* the invariant, from the marker j of the take.                               *)
LEMMA PublishesIInv ==
  ASSUME Constants, IInv, NEW take \in Takes, NEW STATE j,
         journal # Nil, session # Nil, journal.armed, session.expected = j.rev, answered = Nil,
         project.rev < MaxRevision,
         j \in [armed : BOOLEAN, rev : 0 .. MaxRevision,
                capture : [take : Takes, expected : 0 .. MaxRevision]],
         j.armed, j.rev = journal.rev, j.capture.take = take, j.capture.expected = j.rev,
         \/ project.pad = take /\ project.rev = j.rev + 1
         \/ project.pad = Nil /\ project.rev = j.rev,
         Publishes(j, take)
  PROVE  IInv'
PROOF
<1> DEFINE there == project.pad # Nil
           after == IF there THEN project ELSE [rev |-> project.rev + 1, pad |-> take]
<1>1. /\ project \in [rev : 0 .. MaxRevision, pad : Takes \cup {Nil}]
      /\ MaxRevision \in Nat /\ MaxFaults \in Nat /\ faults \in 0 .. MaxFaults
      /\ answered \in Takes \cup {Nil} /\ Nil \notin Takes
      /\ session \in [armed : BOOLEAN, expected : 0 .. MaxRevision]
      /\ j.capture # Nil
  BY DEF IInv, TypeOK, Constants, CaptureAssumption
<1>2. /\ after \in [rev : 0 .. MaxRevision, pad : Takes \cup {Nil}]
      /\ after.pad = take /\ after.rev = j.rev + 1
  BY <1>1
<1>3. CASE /\ project' = after /\ journal' = Completed(j, after.rev)
           /\ session' = [armed |-> FALSE, expected |-> after.rev]
           /\ answered' = take /\ UNCHANGED faults
  BY <1>1, <1>2, <1>3 DEF Completed, IInv, TypeOK, MarkerInv, OpenInv, SessionInv, AnsweredInv
<1>4. CASE /\ ~there /\ \E present \in BOOLEAN : Fails("publish", present) /\ project' = IF present THEN after ELSE project
           /\ journal' = j /\ UNCHANGED <<session, answered>>
  <2>1. faults' \in 0 .. MaxFaults /\ project' \in {project, after} /\ journal' = j /\ session' = session /\ answered' = answered
    BY <1>1, <1>4 DEF Fails
  <2>2. TypeOK'
    BY <1>1, <1>2, <2>1 DEF TypeOK
  <2>3. MarkerInv'
    BY <1>1, <1>2, <1>4, <2>1 DEF MarkerInv
  <2>4. OpenInv'
    BY <1>1, <1>2, <1>4, <2>1 DEF OpenInv
  <2>5. SessionInv' /\ AnsweredInv'
    BY <1>1, <1>2, <1>4, <2>1 DEF SessionInv, AnsweredInv
  <2> QED
    BY <2>2, <2>3, <2>4, <2>5 DEF IInv
<1>5. CASE /\ \E present \in BOOLEAN : Fails("complete", present) /\ journal' = IF present THEN Completed(j, after.rev) ELSE j
           /\ project' = after /\ UNCHANGED <<session, answered>>
  <2>1. /\ faults' \in 0 .. MaxFaults /\ project' = after /\ UNCHANGED <<session, answered>>
        /\ journal' = j \/ (journal' = Completed(j, after.rev) /\ "complete" \in VisibleWrites)
    BY <1>1, <1>5 DEF Fails
  <2>2. CASE journal' = j
    BY <1>1, <1>2, <2>1, <2>2 DEF IInv, TypeOK, MarkerInv, OpenInv, SessionInv, AnsweredInv
  <2>3. CASE journal' = Completed(j, after.rev) /\ "complete" \in VisibleWrites
    <3>1. journal' = [armed |-> FALSE, rev |-> j.rev + 1, capture |-> Nil]
      BY <1>1, <1>2, <2>3 DEF Completed
    <3>2. TypeOK'
      BY <1>1, <1>2, <2>1, <3>1 DEF TypeOK
    <3>3. Behind'
      BY <1>1, <1>2, <2>1, <2>3, <3>1 DEF Behind
    <3> QED
      BY <1>1, <1>2, <2>1, <3>1, <3>2, <3>3 DEF IInv, MarkerInv, OpenInv, SessionInv, AnsweredInv
  <2> QED
    BY <2>1, <2>2, <2>3
<1> QED
  BY <1>3, <1>4, <1>5 DEF Publishes

(* Disarming and reconciliation write the record that the marker's receipt in  *)
(* the Project calls for (resolve_capture_disarm()).                           *)
LEMMA ResolvesIInv ==
  ASSUME Constants, IInv, journal # Nil, NEW to, Resolves(to), UNCHANGED <<project, answered>>
  PROVE  /\ journal' \in [armed : BOOLEAN, rev : 0 .. MaxRevision,
                          capture : {Nil} \cup [take : Takes, expected : 0 .. MaxRevision]]
         /\ journal'.capture = Nil /\ ~journal'.armed /\ faults' = faults
         /\ journal'.rev = project.rev
         /\ IF to.done THEN to.rev = project.rev ELSE journal'.rev = journal.rev
         /\ journal.armed \/ (journal' = journal /\ ~to.done)
PROOF
<1>1. /\ journal \in [armed : BOOLEAN, rev : 0 .. MaxRevision,
                      capture : {Nil} \cup [take : Takes, expected : 0 .. MaxRevision]]
      /\ project \in [rev : 0 .. MaxRevision, pad : Takes \cup {Nil}]
      /\ Nil \notin Takes /\ MaxRevision \in Nat
  BY DEF IInv, TypeOK, Constants, CaptureAssumption
<1>2. CASE ~journal.armed
  <2>1. journal' = journal /\ faults' = faults /\ to = [done |-> FALSE, rev |-> journal.rev]
    BY <1>2 DEF Resolves
  <2> QED
    BY <1>1, <1>2, <2>1 DEF IInv, MarkerInv, OpenInv, TypeOK
<1>3. CASE journal.armed /\ journal.capture = Nil
  <2>1. journal' = Aborted(journal) /\ faults' = faults /\ to = [done |-> FALSE, rev |-> journal.rev]
    BY <1>3 DEF Resolves
  <2> QED
    BY <1>1, <1>3, <2>1 DEF Aborted, IInv, MarkerInv, OpenInv, TypeOK
<1>4. CASE journal.armed /\ journal.capture # Nil
  <2>1. /\ faults' = faults
        /\ IF Truth(journal.capture) = "committed"
           THEN to = [done |-> TRUE, rev |-> project.rev] /\ journal' = Completed(journal, project.rev)
           ELSE to = [done |-> FALSE, rev |-> journal.capture.expected] /\ journal' = Aborted(journal)
    BY <1>4 DEF Resolves
  <2>2. CASE project.pad = journal.capture.take /\ project.rev = journal.rev + 1
    <3>1. Truth(journal.capture) = "committed"
      BY <1>1, <1>4, <2>2 DEF Truth, IInv, MarkerInv
    <3>2. to = [done |-> TRUE, rev |-> project.rev] /\ journal' = Completed(journal, project.rev)
      BY <2>1, <3>1
    <3> QED
      BY <1>1, <1>4, <2>1, <2>2, <3>2 DEF Completed
  <2>3. CASE project.pad = Nil /\ project.rev = journal.rev
    <3>1. Truth(journal.capture) # "committed"
      BY <1>1, <1>4, <2>3 DEF Truth, IInv, MarkerInv
    <3>2. to = [done |-> FALSE, rev |-> journal.capture.expected] /\ journal' = Aborted(journal)
      BY <2>1, <3>1
    <3> QED
      BY <1>1, <1>4, <2>1, <2>3, <3>2 DEF Aborted
  <2> QED
    BY <1>4, <2>2, <2>3 DEF IInv, MarkerInv
<1> QED
  BY <1>2, <1>3, <1>4

(* A record of a resolution that fails leaves the journal as it was, aborts    *)
(* the capture, or completes it unseen (ResolveFails).                         *)
LEMMA ResolveFailsIInv ==
  ASSUME Constants, IInv, journal # Nil, ResolveFails, UNCHANGED <<project, session, answered>>
  PROVE  IInv'
PROOF
<1>1. /\ journal \in [armed : BOOLEAN, rev : 0 .. MaxRevision,
                      capture : {Nil} \cup [take : Takes, expected : 0 .. MaxRevision]]
      /\ project \in [rev : 0 .. MaxRevision, pad : Takes \cup {Nil}]
      /\ MaxFaults \in Nat /\ faults \in 0 .. MaxFaults /\ Nil \notin Takes /\ MaxRevision \in Nat
  BY DEF IInv, TypeOK, Constants, CaptureAssumption
<1>2. faults' \in 0 .. MaxFaults
  BY <1>1 DEF ResolveFails, Fails
<1>3. \/ journal' = journal
      \/ journal' = Aborted(journal) /\ (journal.capture # Nil => Truth(journal.capture) = "absent")
      \/ /\ journal' = Completed(journal, project.rev) /\ "complete" \in VisibleWrites
         /\ journal.armed /\ journal.capture # Nil /\ Truth(journal.capture) = "committed"
  BY DEF ResolveFails, Fails
<1>4. CASE journal' = journal
  BY <1>2, <1>4 DEF IInv, TypeOK, MarkerInv, OpenInv, SessionInv, AnsweredInv, Behind
<1>5. CASE journal' = Aborted(journal) /\ (journal.capture # Nil => Truth(journal.capture) = "absent")
  <2>1. journal' = [armed |-> FALSE, rev |-> journal.rev, capture |-> Nil]
    BY <1>1, <1>5 DEF Aborted
  <2>2. journal.rev = project.rev
    <3>1. CASE journal.capture = Nil
      BY <3>1 DEF IInv, OpenInv
    <3>2. CASE journal.capture # Nil
      <4>1. Truth(journal.capture) = "absent" /\ journal.capture.expected = journal.rev
        BY <1>5, <3>2 DEF IInv, MarkerInv
      <4> QED
        BY <4>1 DEF Truth
    <3> QED
      BY <3>1, <3>2
  <2>3. TypeOK'
    BY <1>1, <1>2, <2>1 DEF IInv, TypeOK
  <2>4. MarkerInv' /\ OpenInv'
    BY <2>1, <2>2 DEF MarkerInv, OpenInv
  <2>5. SessionInv' /\ AnsweredInv'
    BY <2>1 DEF IInv, SessionInv, AnsweredInv, Behind
  <2> QED
    BY <2>3, <2>4, <2>5 DEF IInv
<1>6. CASE /\ journal' = Completed(journal, project.rev) /\ "complete" \in VisibleWrites
           /\ journal.armed /\ journal.capture # Nil /\ Truth(journal.capture) = "committed"
  <2>1. /\ project.pad = journal.capture.take /\ project.rev = journal.rev + 1 /\ answered = Nil
        /\ project.pad # Nil
    BY <1>1, <1>6 DEF IInv, MarkerInv, Truth
  <2>2. journal' = [armed |-> FALSE, rev |-> journal.rev + 1, capture |-> Nil]
    BY <1>1, <1>6, <2>1 DEF Completed
  <2>3. TypeOK'
    BY <1>1, <1>2, <2>1, <2>2 DEF IInv, TypeOK
  <2>4. session # Nil => session.expected = journal.rev
    BY <1>6 DEF IInv, SessionInv, Behind
  <2>5. session # Nil => Behind'
    BY <1>6, <2>1, <2>2, <2>4 DEF Behind
  <2> QED
    BY <2>1, <2>2, <2>3, <2>5 DEF IInv, MarkerInv, OpenInv, SessionInv, AnsweredInv
<1> QED
  BY <1>3, <1>4, <1>5, <1>6
-------------------------------------------------------------------------------
(* Every step keeps the inductive invariant.                                   *)
LEMMA NextIInv == ASSUME Constants, IInv, [Next]_vars PROVE IInv'
PROOF
<1>1. /\ project \in [rev : 0 .. MaxRevision, pad : Takes \cup {Nil}]
      /\ journal = Nil \/ journal \in [armed : BOOLEAN, rev : 0 .. MaxRevision,
                      capture : {Nil} \cup [take : Takes, expected : 0 .. MaxRevision]]
      /\ session = Nil \/ session \in [armed : BOOLEAN, expected : 0 .. MaxRevision]
      /\ answered \in Takes \cup {Nil}
      /\ MaxFaults \in Nat /\ faults \in 0 .. MaxFaults /\ Nil \notin Takes /\ MaxRevision \in Nat
  BY DEF IInv, TypeOK, Constants, CaptureAssumption
<1>2. CASE Begin
  BY <1>1, <1>2 DEF Begin, IInv, TypeOK, MarkerInv, OpenInv, SessionInv, AnsweredInv
<1>3. ASSUME NEW take \in Takes, Import(take) PROVE IInv'
  <2>1. /\ session # Nil /\ journal # Nil /\ journal.armed /\ journal.rev = session.expected
        /\ project.rev < MaxRevision
    BY <1>3 DEF Import, FacadeAdmits, StoreAdmits
  <2>2. CASE journal.capture = Nil
    <3>1. project.pad = Nil /\ project.rev = journal.rev /\ answered = Nil
      BY <2>1, <2>2 DEF IInv, OpenInv, AnsweredInv
    <3>2. Prepared(take) = [armed |-> journal.armed, rev |-> journal.rev,
                            capture |-> [take |-> take, expected |-> journal.rev]]
      <4>1. journal \in [armed : BOOLEAN, rev : 0 .. MaxRevision,
                         capture : {Nil} \cup [take : Takes, expected : 0 .. MaxRevision]]
        BY <1>1, <2>1
      <4>2. journal.rev = session.expected
        BY <2>1
      <4>3. \A cap : [journal EXCEPT !.capture = cap] = [armed |-> journal.armed, rev |-> journal.rev, capture |-> cap]
        BY <4>1
      <4> QED
        BY <4>2, <4>3 DEF Prepared
    <3>3. CASE Publishes(Prepared(take), take)
      <4> DEFINE j == Prepared(take)
      <4>1. /\ j \in [armed : BOOLEAN, rev : 0 .. MaxRevision,
                      capture : [take : Takes, expected : 0 .. MaxRevision]]
            /\ j.armed /\ j.rev = journal.rev /\ j.capture.take = take /\ j.capture.expected = j.rev
            /\ project.pad = Nil /\ project.rev = j.rev
        BY <1>1, <2>1, <3>1, <3>2
      <4>2. Publishes(j, take)
        BY <3>3
      <4> HIDE DEF j
      <4> QED
        BY <2>1, <3>1, <4>1, <4>2, PublishesIInv
    <3>4. CASE /\ \E present \in BOOLEAN : Fails("prepare", present) /\ journal' = IF present THEN Prepared(take) ELSE journal
               /\ UNCHANGED <<project, session, answered>>
      <4>1. faults' \in 0 .. MaxFaults /\ journal' \in {journal, Prepared(take)}
        BY <1>1, <3>4 DEF Fails
      <4>2. CASE journal' = journal
        BY <3>4, <4>1, <4>2 DEF IInv, TypeOK, MarkerInv, OpenInv, SessionInv, AnsweredInv, Behind
      <4>3. CASE journal' = Prepared(take)
        <5>1. journal'.capture # Nil
          BY <1>1, <2>1, <3>2, <4>3 DEF Constants
        <5>2. TypeOK'
          <6>1. journal.rev \in 0 .. MaxRevision /\ journal.armed \in BOOLEAN
            BY <1>1, <2>1
          <6>2. [take |-> take, expected |-> journal.rev] \in [take : Takes, expected : 0 .. MaxRevision]
            BY <6>1
          <6>3. journal' \in [armed : BOOLEAN, rev : 0 .. MaxRevision,
                              capture : {Nil} \cup [take : Takes, expected : 0 .. MaxRevision]]
            BY <3>2, <4>3, <6>1, <6>2, JournalRecord
          <6> QED
            BY <1>1, <3>4, <4>1, <6>3 DEF TypeOK
        <5>3. MarkerInv' /\ OpenInv'
          <6>1. journal'.armed /\ journal'.rev = journal.rev /\ journal'.capture.expected = journal.rev
            BY <2>1, <3>2, <4>3
          <6>2. project'.pad = Nil /\ project'.rev = journal.rev /\ answered' = Nil
            BY <3>1, <3>4
          <6> QED
            BY <5>1, <6>1, <6>2 DEF MarkerInv, OpenInv
        <5>4. SessionInv' /\ AnsweredInv'
          BY <2>1, <3>2, <3>4, <4>3 DEF IInv, SessionInv, AnsweredInv
        <5> QED
          BY <5>2, <5>3, <5>4 DEF IInv
      <4> QED
        BY <4>1, <4>2, <4>3
    <3> QED
      BY <1>3, <2>2, <3>3, <3>4 DEF Import, Marks
  <2>3. CASE journal.capture # Nil
    <3>1. Resumes(take) /\ Publishes(journal, take)
      BY <1>3, <2>3 DEF Import
    <3>2. /\ journal.capture.take = take /\ journal.capture.expected = journal.rev /\ answered = Nil
          /\ \/ project.pad = take /\ project.rev = journal.rev + 1
             \/ project.pad = Nil /\ project.rev = journal.rev
      BY <2>1, <2>3, <3>1 DEF Resumes, IInv, MarkerInv
    <3>3. journal \in [armed : BOOLEAN, rev : 0 .. MaxRevision,
                       capture : [take : Takes, expected : 0 .. MaxRevision]]
      BY <1>1, <2>1, <2>3
    <3> QED
      BY <2>1, <3>1, <3>2, <3>3, PublishesIInv
  <2> QED
    BY <2>2, <2>3
<1>4. CASE Disarm
  <2>1. session # Nil /\ journal # Nil /\ UNCHANGED <<project, answered>>
    BY <1>4 DEF Disarm, FacadeAdmits
  <2>2. ASSUME NEW to \in Answers, Resolves(to),
               session' = [armed |-> FALSE, expected |-> IF to.done THEN to.rev ELSE session.expected]
        PROVE  IInv'
    <3>1. /\ journal' \in [armed : BOOLEAN, rev : 0 .. MaxRevision,
                           capture : {Nil} \cup [take : Takes, expected : 0 .. MaxRevision]]
          /\ journal'.capture = Nil /\ ~journal'.armed /\ faults' = faults
          /\ journal'.rev = project.rev
          /\ IF to.done THEN to.rev = project.rev ELSE journal'.rev = journal.rev
          /\ journal.armed \/ (journal' = journal /\ ~to.done)
      BY <2>1, <2>2, ResolvesIInv
    <3>2. /\ session' \in [armed : BOOLEAN, expected : 0 .. MaxRevision]
          /\ IF to.done THEN session'.expected = journal'.rev ELSE session'.expected = session.expected
      BY <1>1, <2>1, <2>2, <3>1
    <3>3. TypeOK'
      BY <1>1, <2>1, <3>1, <3>2 DEF TypeOK
    <3>4. SessionInv'
      <4>1. CASE session.expected = journal.rev
        BY <3>1, <3>2, <4>1 DEF SessionInv
      <4>2. CASE Behind
        <5>1. journal' = journal /\ ~to.done
          BY <3>1, <4>2 DEF Behind
        <5> QED
          BY <2>1, <3>2, <4>2, <5>1 DEF SessionInv, Behind
      <4> QED
        BY <2>1, <4>1, <4>2 DEF IInv, SessionInv
    <3>5. MarkerInv' /\ OpenInv' /\ AnsweredInv'
      BY <2>1, <3>1 DEF IInv, MarkerInv, OpenInv, AnsweredInv
    <3> QED
      BY <3>3, <3>4, <3>5 DEF IInv
  <2>3. CASE ResolveFails /\ UNCHANGED session
    BY <2>1, <2>3, ResolveFailsIInv
  <2> QED
    BY <1>4, <2>2, <2>3 DEF Disarm
<1>5. CASE Edit
  <2>1. /\ session # Nil /\ journal # Nil /\ journal.capture = Nil
        /\ session.expected = journal.rev /\ project.rev = session.expected /\ project.rev < MaxRevision
        /\ project' = [project EXCEPT !.rev = @ + 1]
        /\ journal' = [journal EXCEPT !.rev = @ + 1] /\ session' = [session EXCEPT !.expected = @ + 1]
        /\ UNCHANGED <<answered, faults>>
    BY <1>5 DEF Edit, SettingsAdmitted
  <2>2. /\ project' = [rev |-> project.rev + 1, pad |-> project.pad]
        /\ journal' = [armed |-> journal.armed, rev |-> journal.rev + 1, capture |-> Nil]
        /\ session' = [armed |-> session.armed, expected |-> session.expected + 1]
    BY <1>1, <2>1
  <2>3. TypeOK'
    <3>1. /\ project.rev + 1 \in 0 .. MaxRevision /\ journal.rev = project.rev /\ project.pad \in Takes \cup {Nil}
          /\ journal.armed \in BOOLEAN /\ session.armed \in BOOLEAN
      BY <1>1, <2>1
    <3>2. /\ project' \in [rev : 0 .. MaxRevision, pad : Takes \cup {Nil}]
          /\ session' \in [armed : BOOLEAN, expected : 0 .. MaxRevision]
      BY <2>1, <2>2, <3>1
    <3>3. journal' \in [armed : BOOLEAN, rev : 0 .. MaxRevision,
                        capture : {Nil} \cup [take : Takes, expected : 0 .. MaxRevision]]
      <4>1. journal.armed \in BOOLEAN /\ journal.rev + 1 \in 0 .. MaxRevision
        BY <3>1
      <4>2. [armed |-> journal.armed, rev |-> journal.rev + 1, capture |-> Nil]
              \in [armed : BOOLEAN, rev : 0 .. MaxRevision,
                   capture : {Nil} \cup [take : Takes, expected : 0 .. MaxRevision]]
        BY <4>1, JournalRecord
      <4> QED
        BY <2>2, <4>2
    <3> QED
      BY <1>1, <2>1, <3>2, <3>3 DEF TypeOK
  <2>4. MarkerInv' /\ OpenInv' /\ SessionInv' /\ AnsweredInv'
    BY <2>1, <2>2 DEF IInv, MarkerInv, OpenInv, SessionInv, AnsweredInv
  <2> QED
    BY <2>3, <2>4 DEF IInv
<1>6. CASE Crash
  BY <1>1, <1>6 DEF Crash, IInv, TypeOK, MarkerInv, OpenInv, SessionInv, AnsweredInv
<1>7. CASE Stop
  BY <1>1, <1>7 DEF Stop, IInv, TypeOK, MarkerInv, OpenInv, SessionInv, AnsweredInv
<1>8. CASE Reconcile
  <2>1. session = Nil /\ journal # Nil /\ UNCHANGED <<project, session, answered>>
    BY <1>8 DEF Reconcile
  <2>2. ASSUME NEW to \in Answers, Resolves(to) PROVE IInv'
    <3>1. /\ journal' \in [armed : BOOLEAN, rev : 0 .. MaxRevision,
                           capture : {Nil} \cup [take : Takes, expected : 0 .. MaxRevision]]
          /\ journal'.capture = Nil /\ ~journal'.armed /\ faults' = faults /\ journal'.rev = project.rev
      BY <2>1, <2>2, ResolvesIInv
    <3>2. TypeOK'
      BY <1>1, <2>1, <3>1 DEF TypeOK
    <3>3. MarkerInv' /\ OpenInv' /\ SessionInv' /\ AnsweredInv'
      BY <2>1, <3>1 DEF IInv, MarkerInv, OpenInv, SessionInv, AnsweredInv
    <3> QED
      BY <3>2, <3>3 DEF IInv
  <2>3. CASE ResolveFails
    BY <2>1, <2>3, ResolveFailsIInv
  <2>4. CASE journal' = Nil /\ UNCHANGED faults
    BY <1>1, <2>1, <2>4 DEF IInv, TypeOK, MarkerInv, OpenInv, SessionInv, AnsweredInv
  <2> QED
    BY <1>8, <2>2, <2>3, <2>4 DEF Reconcile
<1>9. CASE UNCHANGED vars
  BY <1>9 DEF vars, IInv, TypeOK, MarkerInv, OpenInv, SessionInv, AnsweredInv, Behind
<1> QED
  BY <1>2, <1>3, <1>4, <1>5, <1>6, <1>7, <1>8, <1>9 DEF Next
-------------------------------------------------------------------------------
(* Project, journal and session of a take inside a Sequence keep their types   *)
(* and stand at one revision, and the take a client was told is saved stays on *)
(* its Pad, whatever writes fail and whenever the owner is lost; only after a  *)
(* completion that is in the file although it was reported as failed is the    *)
(* session behind, and then by exactly one revision.                           *)
THEOREM Safe == ASSUME Constants PROVE Spec => [](TypeOK /\ InStep)
PROOF
<1>1. Init => IInv
  BY InitIInv
<1>2. IInv /\ [Next]_vars => IInv'
  BY NextIInv
<1>3. IInv => TypeOK /\ InStep
  BY DEF Constants, IInv, TypeOK, InStep, TakeKept, MarkerInv, OpenInv, SessionInv, AnsweredInv
<1> QED
  BY <1>1, <1>2, <1>3, PTL DEF Spec
-------------------------------------------------------------------------------
(* Scheduled recordings. The types; what the counts of a slot count; the       *)
(* serials of the cell, the tag and the cutoff.                                *)
Phases == {"empty", "submitted", "preparing", "cancel_preparing", "armed", "starting", "applied", "cancelled", "refused"}
TagType == [serial : Nat, phase : Phases]
CellType == [serial : Nat, cancel : {"none", "won", "late", "invalidated"}, startAck : BOOLEAN, cancelAck : BOOLEAN,
             receipt : BOOLEAN]
LocalType == [serial : Nat, slot : RecordSlots, borrowed : BOOLEAN, started : BOOLEAN, timed : BOOLEAN, togo : Int, next : Nat,
              carry : Nat]
CueType == [pending : BOOLEAN, blocked : BOOLEAN, spans : Nat]
PcType == {"idle", "prepare", "take", "borrow", "transport", "frame", "act", "carry", "mark", "start", "applied",
           "downbeat", "mix", "settle", "settled"}
RenderType == [pc : PcType, left : Int, first : BOOLEAN, seen : TagType]
ControlTypes ==
  /\ tag \in TagType /\ cell \in CellType /\ payload \in [serial : Nat, slot : RecordSlots] /\ last \in Nat
  /\ recSlots \in [RecordSlots -> {"current", "empty", "reclaimable"}] /\ cur \in RecordSlots
AudioTypes == recLocal \in LocalType /\ cutoff \in Nat /\ settled \in Nat /\ cue \in CueType /\ recAudio \in RenderType
Held ==
  /\ pins = [s \in RecordSlots |-> IF cell.serial # 0 /\ payload.slot = s THEN 1 ELSE 0]
  /\ borrows = [s \in RecordSlots |-> IF recLocal.borrowed /\ recLocal.slot = s THEN 1 ELSE 0]
  /\ recSlots[cur] = "current" /\ (cell.serial # 0 => recSlots[payload.slot] # "empty")
  /\ recLocal.borrowed => recSlots[recLocal.slot] # "empty"
Serials ==
  /\ (last = 0 => tag.phase = "empty") /\ (cell.startAck => cell.serial # 0)
  /\ tag.serial = last /\ cutoff <= last /\ recLocal.serial <= last /\ (\A w \in won : w \in Nat /\ w <= last)
  /\ cell.serial = (IF tag.phase = "empty" THEN 0 ELSE last) /\ (cell.serial # 0 => payload.serial = last)
  /\ cell.serial # 0 => /\ cell.startAck => tag.phase \in Scheduled!Terminal
                        /\ (cell.cancel = "won") <=> (last \in won)
  /\ last \in won => tag.phase \in {"cancel_preparing", "cancelled", "empty"}
  /\ cutoff = last => tag.phase \notin {"submitted", "preparing", "cancel_preparing", "armed"}

(* Where the schedule of each phase is, what audio knows of it at each place,  *)
(* how far the count-in has come and what of it is in the batch.               *)
Mine == recLocal.borrowed /\ recLocal.serial = last
Stages ==
  /\ ~recLocal.borrowed => recLocal.serial = 0 /\ ~recLocal.started /\ recLocal.next = 0
  /\ recLocal.borrowed => recLocal.serial # 0
  /\ recLocal.started => recLocal.serial < last \/ tag.phase \in {"applied", "empty"}
  /\ tag.phase = "preparing" /\ recAudio.pc # "borrow" => Mine /\ recLocal.next = 0
  /\ tag.phase = "armed" => Mine /\ recLocal.timed
  /\ tag.phase = "starting" => recAudio.pc = "applied"
  /\ tag.phase = "applied" /\ Mine => recLocal.started
Stations ==
  /\ recAudio.pc \in {"take", "borrow"} => ~recLocal.borrowed
  /\ recAudio.pc = "borrow" => tag.phase \in {"preparing", "cancel_preparing"}
  /\ recAudio.pc \in {"act", "carry", "mark", "start", "applied", "downbeat"} => recLocal.borrowed
  /\ recAudio.pc = "act" /\ tag.phase \in {"preparing", "armed"} => recAudio.seen = tag
  /\ recAudio.pc \in {"carry", "mark"} =>
       /\ tag.phase # "preparing"
       /\ tag.phase = "armed" => recAudio.seen.phase = "armed" /\ ~cue.blocked
       /\ recAudio.seen.phase \in {"armed", "applied"} \/ recLocal.started
  /\ recAudio.pc = "applied" => tag = Scheduled!Tag(recLocal.serial, "starting")
  /\ recAudio.pc = "downbeat" => recLocal.started
Reached == CountIn - recLocal.togo + (IF recAudio.pc \in {"mix", "start"} THEN 1 ELSE 0)
Counting ==
  /\ recLocal.next <= Len(Markers)
  /\ tag.phase = "armed" =>
       /\ recLocal.togo \in (IF recAudio.pc = "mix" THEN 1 ELSE 0) .. CountIn /\ (recAudio.pc = "start" => recLocal.togo = 0)
       /\ \A i \in 1 .. Len(Markers) : i <= recLocal.next <=> Markers[i] < Reached
  /\ recAudio.pc = "applied" \/ recLocal.started => recLocal.next = Len(Markers)
Batch ==
  ~cue.blocked =>
    /\ recAudio.pc \in {"prepare", "take", "borrow", "transport"} => cue.spans = 0
    /\ tag.phase \in {"preparing", "armed"} /\ recAudio.pc \in {"frame", "act", "carry", "mark", "mix", "start"} =>
         cue.spans <= (IF recAudio.first /\ recAudio.pc \in {"frame", "act", "carry"} THEN recLocal.next ELSE recLocal.next + 1)
Unused ==
  /\ settled # 0 => recAudio.pc = "idle"
  /\ settled # 0 \/ recAudio.pc = "settled" => ~recLocal.borrowed /\ ~cue.pending /\ ~tail
RecordIInv == ControlTypes /\ AudioTypes /\ Held /\ Serials /\ Stages /\ Stations /\ Counting /\ Batch /\ Unused

(* The markers of the count-in are frames of it in order; nothing is borrowed  *)
(* for nobody.                                                                 *)
LEMMA RecordConstants ==
  ASSUME Scheduled!ScheduledAssumption
  PROVE  /\ CountIn \in Nat /\ CountIn > 0 /\ Envelope \in Nat /\ Len(Markers) \in Nat
         /\ \A i \in 1 .. Len(Markers) : Markers[i] \in Int /\ 0 <= Markers[i] /\ Markers[i] < CountIn
         /\ \A i, j \in 1 .. Len(Markers) : i < j => Markers[i] < Markers[j]
         /\ Quanta \subseteq Nat
PROOF
<1>1. \A i \in 1 .. Len(Markers) : Markers[i] \in 0 .. CountIn - 1
  BY DEF Scheduled!ScheduledAssumption
<1> QED
  BY <1>1 DEF Scheduled!ScheduledAssumption

LEMMA RecordNumbers ==
  ASSUME Scheduled!ScheduledAssumption
  PROVE  CountIn \in Nat /\ CountIn > 0 /\ Envelope \in Nat /\ Len(Markers) \in Nat /\ Quanta \subseteq Nat
  BY RecordConstants

LEMMA NobodyFacts ==
  ASSUME Scheduled!ScheduledAssumption
  PROVE  /\ Scheduled!Nobody \in LocalType
         /\ Scheduled!Nobody.slot \in RecordSlots
         /\ ~Scheduled!Nobody.borrowed
         /\ ~Scheduled!Nobody.started
         /\ ~Scheduled!Nobody.timed
         /\ Scheduled!Nobody.serial = 0
         /\ Scheduled!Nobody.togo = 0
         /\ Scheduled!Nobody.next = 0
         /\ Scheduled!Nobody.carry = 0
PROOF
<1>1. (CHOOSE s \in RecordSlots : TRUE) \in RecordSlots
  BY DEF Scheduled!ScheduledAssumption
<1> QED
  BY <1>1 DEF Scheduled!Nobody, LocalType

(* A tag is its serial and its phase.                                          *)
LEMMA TagFacts ==
  ASSUME NEW t \in TagType, NEW n, NEW p
  PROVE  t = Scheduled!Tag(n, p) <=> t.serial = n /\ t.phase = p
PROOF
<1>1. t = [serial |-> t.serial, phase |-> t.phase]
  BY DEF TagType
<1> QED
  BY <1>1 DEF Scheduled!Tag

(* What steps make of the batch and of the schedule audio holds.               *)
LEMMA CueAdds ==
  ASSUME NEW c \in CueType, NEW d, d = [c EXCEPT !.spans = c.spans + 1]
  PROVE  d \in CueType /\ d.pending = c.pending /\ d.blocked = c.blocked /\ d.spans = c.spans + 1
  BY DEF CueType

LEMMA LocalTicks ==
  ASSUME NEW c \in LocalType, NEW n \in Int, NEW k \in Nat, NEW d, d = [c EXCEPT !.togo = n, !.carry = k]
  PROVE  /\ d \in LocalType /\ d.togo = n /\ d.serial = c.serial /\ d.slot = c.slot /\ d.borrowed = c.borrowed
         /\ d.started = c.started /\ d.timed = c.timed /\ d.next = c.next
  BY DEF LocalType

LEMMA LocalTimes ==
  ASSUME NEW c \in LocalType, NEW n \in Int, NEW d, d = [c EXCEPT !.timed = TRUE, !.togo = n]
  PROVE  /\ d \in LocalType /\ d.togo = n /\ d.serial = c.serial /\ d.slot = c.slot /\ d.borrowed = c.borrowed
         /\ d.started = c.started /\ d.timed /\ d.next = c.next
  BY DEF LocalType

LEMMA LocalCounts ==
  ASSUME NEW c \in LocalType, NEW n \in Nat, NEW k \in Nat, NEW d, d = [c EXCEPT !.next = n, !.carry = k]
  PROVE  /\ d \in LocalType /\ d.togo = c.togo /\ d.serial = c.serial /\ d.slot = c.slot /\ d.borrowed = c.borrowed
         /\ d.started = c.started /\ d.timed = c.timed /\ d.next = n
  BY DEF LocalType

LEMMA FrameEnds ==
  ASSUME NEW a \in RenderType, NEW n \in Int, NEW d, d = [a EXCEPT !.pc = "frame", !.left = n, !.first = FALSE]
  PROVE  d \in RenderType /\ d.pc = "frame" /\ ~d.first /\ d.seen = a.seen
  BY DEF RenderType, PcType

(* One pin or borrow more, one less.                                           *)
LEMMA CountUp ==
  ASSUME NEW s \in RecordSlots, NEW f, f = [x \in RecordSlots |-> 0], NEW g, g = [f EXCEPT ![s] = @ + 1]
  PROVE  g = [x \in RecordSlots |-> IF s = x THEN 1 ELSE 0]
  OBVIOUS

LEMMA CountDown ==
  ASSUME NEW s \in RecordSlots, NEW f, f = [x \in RecordSlots |-> IF s = x THEN 1 ELSE 0], NEW g, g = [f EXCEPT ![s] = @ - 1]
  PROVE  g = [x \in RecordSlots |-> 0]
PROOF
<1>1. f[s] - 1 = 0
  OBVIOUS
<1>2. [f EXCEPT ![s] = 0] = [x \in RecordSlots |-> 0]
  OBVIOUS
<1> QED
  BY <1>1, <1>2

(* Counting the markers before a frame: one frame on, and at the end.          *)
LEMMA MarkerPassed ==
  ASSUME Scheduled!ScheduledAssumption, NEW n \in 0 .. Len(Markers), NEW k \in Int,
         \A i \in 1 .. Len(Markers) : i <= n <=> Markers[i] < k,
         NEW m, m = IF n < Len(Markers) /\ k = Markers[n + 1] THEN n + 1 ELSE n
  PROVE  m \in 0 .. Len(Markers) /\ \A i \in 1 .. Len(Markers) : i <= m <=> Markers[i] < k + 1
PROOF
<1> USE RecordConstants
<1>1. m \in 0 .. Len(Markers)
  OBVIOUS
<1>2. ASSUME NEW i \in 1 .. Len(Markers) PROVE i <= m <=> Markers[i] < k + 1
  <2>1. i > n + 1 => n + 1 \in 1 .. Len(Markers) /\ Markers[n + 1] < Markers[i]
    OBVIOUS
  <2>2. i > n => n + 1 \in 1 .. Len(Markers) /\ Markers[n + 1] >= k
    OBVIOUS
  <2>3. CASE i <= n
    BY <2>3
  <2>4. CASE i = n + 1
    BY <2>2, <2>4
  <2>5. CASE i > n + 1
    BY <2>1, <2>2, <2>5
  <2> QED
    BY <2>3, <2>4, <2>5
<1> QED
  BY <1>1, <1>2

LEMMA NonePassed ==
  ASSUME Scheduled!ScheduledAssumption, NEW n, n = 0, NEW k, k = 0
  PROVE  n <= Len(Markers) /\ \A i \in 1 .. Len(Markers) : i <= n <=> Markers[i] < k
  BY RecordConstants

LEMMA AllPassed ==
  ASSUME Scheduled!ScheduledAssumption, NEW n \in 0 .. Len(Markers), NEW k \in Int, k >= CountIn,
         \A i \in 1 .. Len(Markers) : i <= n <=> Markers[i] < k
  PROVE  n = Len(Markers)
PROOF
<1>1. CASE Len(Markers) = 0
  BY <1>1
<1>2. CASE Len(Markers) # 0
  <2>1. Len(Markers) \in 1 .. Len(Markers) /\ Markers[Len(Markers)] < k
    BY <1>2, RecordConstants
  <2> QED
    BY <2>1, RecordConstants
<1> QED
  BY <1>1, <1>2

LEMMA SubmitKept ==
  ASSUME Scheduled!ScheduledAssumption, RecordIInv, Scheduled!Submit
  PROVE  RecordIInv'
PROOF
<1> USE DEF ControlTypes, AudioTypes, TagType, CellType, LocalType, CueType, PcType, RenderType, Phases, RecordIInv
<1>1. /\ cell' = [serial |-> last + 1, cancel |-> "none", startAck |-> FALSE, cancelAck |-> FALSE, receipt |-> FALSE]
      /\ last' = last + 1
      /\ payload' = [serial |-> last + 1, slot |-> cur]
      /\ pins' = [pins EXCEPT ![cur] = @ + 1]
      /\ settled' = 0
      /\ tag' = [serial |-> last + 1, phase |-> "submitted"]
      /\ UNCHANGED <<recSlots, cur, borrows, recLocal, cutoff, cue, recAudio, tail, won>>
      /\ cell.serial = 0
  BY DEF Scheduled!Submit, Scheduled!NoCell, Scheduled!audioOwn, Scheduled!Tag
<1>a. pins = [s \in RecordSlots |-> 0] /\ cur \in RecordSlots
  BY <1>1 DEF Held
<1>b. pins' = [s \in RecordSlots |-> IF cur = s THEN 1 ELSE 0]
  BY <1>1, <1>a, CountUp
<1>c. tag.phase = "empty"
  BY <1>1, <1>a, <1>b DEF Serials
<1>2. ControlTypes'
  BY <1>1, <1>a, <1>b, <1>c
<1>3. AudioTypes'
  BY <1>1, <1>a, <1>b, <1>c
<1>4. Held'
  BY <1>1, <1>a, <1>b, <1>c DEF Held, Serials, Stages, Stations
<1>5. Serials'
  BY <1>1, <1>a, <1>b, <1>c DEF Serials, Scheduled!Terminal, Held, Stages, Stations, Mine, Scheduled!Tag
<1>6. Stages'
  BY <1>1, <1>a, <1>b, <1>c DEF Stages, Mine, Serials, Stations, Scheduled!Terminal, Counting, Scheduled!Tag
<1>7. Stations'
  BY <1>1, <1>a, <1>b, <1>c DEF Stations, Serials, Stages, Mine, Scheduled!Terminal, Batch, Scheduled!Tag
<1>8. Counting'
  BY RecordNumbers, <1>1, <1>a, <1>b, <1>c DEF Counting, Reached, Serials, Stages, Stations, Mine,
      Scheduled!Terminal, Batch
<1>9. Batch'
  BY <1>1, <1>a, <1>b, <1>c DEF Batch, Serials, Stages, Mine, Stations, Counting, Scheduled!Terminal, Reached
<1>10. Unused'
  BY <1>1, <1>a, <1>b, <1>c DEF Unused, Stages, Stations, Serials, Mine
<1> QED
  BY <1>2, <1>3, <1>4, <1>5, <1>6, <1>7, <1>8, <1>9, <1>10

LEMMA CancelKept ==
  ASSUME Scheduled!ScheduledAssumption, RecordIInv, Scheduled!Cancel
  PROVE  RecordIInv'
PROOF
<1> USE DEF ControlTypes, AudioTypes, TagType, CellType, LocalType, CueType, PcType, RenderType, Phases, RecordIInv
<1>1. CASE tag.phase \in {"submitted", "preparing", "armed"}
  <2>1. /\ tag' = [tag EXCEPT !.phase = Scheduled!CancelTarget(tag.phase)]
        /\ cell' = [cell EXCEPT !.cancel = "won"]
        /\ won' = won \cup {cell.serial}
        /\ UNCHANGED <<payload, last, recSlots, cur, pins, borrows, recLocal, cutoff, settled, cue, recAudio, tail>>
        /\ tag.phase \in {"submitted", "preparing", "armed"}
        /\ cell.serial # 0 /\ cell.cancel = "none"
    BY <1>1 DEF Scheduled!Cancel, Scheduled!CancelTarget, Scheduled!audioOwn, Scheduled!Tag
  <2>a. /\ tag' \in TagType /\ tag'.serial = tag.serial /\ tag'.phase \in {"cancel_preparing", "cancelled"}
        /\ (tag.phase = "preparing" => tag'.phase = "cancel_preparing")
    BY <2>1 DEF Scheduled!CancelTarget
  <2>b. cell' \in CellType /\ cell'.serial = cell.serial /\ cell'.cancel = "won" /\ cell'.startAck = cell.startAck
    BY <2>1, <2>a
  <2>c. recAudio.pc # "applied"
    BY <2>1, <2>a, <2>b DEF Stations, Scheduled!Tag
  <2>2. ControlTypes'
    BY <2>1, <2>a, <2>b, <2>c
  <2>3. AudioTypes'
    BY <2>1, <2>a, <2>b, <2>c
  <2>4. Held'
    BY <2>1, <2>a, <2>b, <2>c DEF Held, Serials, Stages, Stations
  <2>5. Serials'
    BY <2>1, <2>a, <2>b, <2>c DEF Serials, Scheduled!Terminal, Held, Stages, Stations, Mine
  <2>6. Stages'
    BY <2>1, <2>a, <2>b, <2>c DEF Stages, Mine, Serials, Stations, Scheduled!Terminal, Counting
  <2>7. Stations'
    BY <2>1, <2>a, <2>b, <2>c DEF Stations, Serials, Stages, Mine, Scheduled!Terminal, Batch
  <2>8. Counting'
    BY RecordNumbers, <2>1, <2>a, <2>b, <2>c DEF Counting, Reached, Serials, Stages, Stations, Mine,
        Scheduled!Terminal, Batch
  <2>9. Batch'
    BY <2>1, <2>a, <2>b, <2>c DEF Batch, Serials, Stages, Mine, Stations, Counting, Scheduled!Terminal, Reached
  <2>10. Unused'
    BY <2>1, <2>a, <2>b, <2>c DEF Unused, Stages, Stations, Serials, Mine
  <2> QED
    BY <2>2, <2>3, <2>4, <2>5, <2>6, <2>7, <2>8, <2>9, <2>10
<1>2. CASE tag.phase \notin {"submitted", "preparing", "armed"}
  <2>1. /\ cell' = [cell EXCEPT !.cancel = IF tag.phase = "applied" /\ ~recRunning THEN "invalidated" ELSE "late"]
        /\ UNCHANGED <<tag, payload, last, recSlots, cur, pins, borrows, recLocal, cutoff, settled, cue, recAudio, tail, won>>
        /\ cell.serial # 0 /\ cell.cancel = "none"
    BY <1>2 DEF Scheduled!Cancel, Scheduled!CancelTarget, Scheduled!audioOwn, Scheduled!Tag
  <2>a. cell' \in CellType /\ cell'.serial = cell.serial /\ cell'.cancel # "won" /\ cell'.startAck = cell.startAck
    BY <2>1
  <2>2. ControlTypes'
    BY <2>1, <2>a
  <2>3. AudioTypes'
    BY <2>1, <2>a
  <2>4. Held'
    BY <2>1, <2>a DEF Held, Serials, Stages, Stations
  <2>5. Serials'
    BY <2>1, <2>a DEF Serials, Scheduled!Terminal, Held, Stages, Stations, Mine
  <2>6. Stages'
    BY <2>1, <2>a DEF Stages, Mine, Serials, Stations, Scheduled!Terminal, Counting
  <2>7. Stations'
    BY <2>1, <2>a DEF Stations, Serials, Stages, Mine, Scheduled!Terminal, Batch
  <2>8. Counting'
    BY RecordNumbers, <2>1, <2>a DEF Counting, Reached, Serials, Stages, Stations, Mine, Scheduled!Terminal, Batch
  <2>9. Batch'
    BY <2>1, <2>a DEF Batch, Serials, Stages, Mine, Stations, Counting, Scheduled!Terminal, Reached
  <2>10. Unused'
    BY <2>1, <2>a DEF Unused, Stages, Stations, Serials, Mine
  <2> QED
    BY <2>2, <2>3, <2>4, <2>5, <2>6, <2>7, <2>8, <2>9, <2>10
<1> QED
  BY <1>1, <1>2

LEMMA SubmitCommandKept ==
  ASSUME Scheduled!ScheduledAssumption, RecordIInv, NEW a \in {"start", "stop", "fence"}, Scheduled!SubmitCommand(a)
  PROVE  RecordIInv'
PROOF
<1> USE DEF Scheduled!SubmitCommand, Scheduled!IsCutoff, Scheduled!Quiet, Scheduled!audioOwn, ControlTypes,
        AudioTypes, TagType, CellType, LocalType, CueType, PcType, RenderType, Phases, RecordIInv
<1>1. ControlTypes'
  OBVIOUS
<1>2. AudioTypes'
  OBVIOUS
<1>3. Held'
  BY DEF Held, Serials, Stages, Stations
<1>4. Serials'
  BY DEF Serials, Scheduled!Terminal, Held, Stages, Stations, Mine
<1>5. Stages'
  BY DEF Stages, Mine, Serials, Stations, Scheduled!Terminal, Counting
<1>6. Stations'
  BY DEF Stations, Serials, Stages, Mine, Scheduled!Terminal, Batch
<1>7. Counting'
  BY RecordNumbers DEF Counting, Reached, Serials, Stages, Stations, Mine, Scheduled!Terminal, Batch
<1>8. Batch'
  BY DEF Batch, Serials, Stages, Mine, Stations, Counting, Scheduled!Terminal, Reached
<1>9. Unused'
  BY DEF Unused, Stages, Stations, Serials, Mine
<1> QED
  BY <1>1, <1>2, <1>3, <1>4, <1>5, <1>6, <1>7, <1>8, <1>9

LEMMA AcknowledgeCommandKept ==
  ASSUME Scheduled!ScheduledAssumption, RecordIInv, Scheduled!AcknowledgeCommand
  PROVE  RecordIInv'
PROOF
<1> USE DEF Scheduled!AcknowledgeCommand, Scheduled!Quiet, Scheduled!audioOwn, ControlTypes, AudioTypes, TagType,
        CellType, LocalType, CueType, PcType, RenderType, Phases, RecordIInv
<1>1. ControlTypes'
  OBVIOUS
<1>2. AudioTypes'
  OBVIOUS
<1>3. Held'
  BY DEF Held, Serials, Stages, Stations
<1>4. Serials'
  BY DEF Serials, Scheduled!Terminal, Held, Stages, Stations, Mine
<1>5. Stages'
  BY DEF Stages, Mine, Serials, Stations, Scheduled!Terminal, Counting
<1>6. Stations'
  BY DEF Stations, Serials, Stages, Mine, Scheduled!Terminal, Batch
<1>7. Counting'
  BY RecordNumbers DEF Counting, Reached, Serials, Stages, Stations, Mine, Scheduled!Terminal, Batch
<1>8. Batch'
  BY DEF Batch, Serials, Stages, Mine, Stations, Counting, Scheduled!Terminal, Reached
<1>9. Unused'
  BY DEF Unused, Stages, Stations, Serials, Mine
<1> QED
  BY <1>1, <1>2, <1>3, <1>4, <1>5, <1>6, <1>7, <1>8, <1>9

LEMMA AcknowledgeStartKept ==
  ASSUME Scheduled!ScheduledAssumption, RecordIInv, Scheduled!AcknowledgeStart
  PROVE  RecordIInv'
PROOF
<1> USE DEF ControlTypes, AudioTypes, TagType, CellType, LocalType, CueType, PcType, RenderType, Phases, RecordIInv
<1>1. CASE Scheduled!Retired([cell EXCEPT !.startAck = TRUE])
  <2>1. /\ cell' = Scheduled!NoCell
        /\ tag' = [serial |-> last, phase |-> "empty"]
        /\ pins' = [pins EXCEPT ![payload.slot] = @ - 1]
        /\ UNCHANGED <<payload, last, recSlots, cur, borrows, recLocal, cutoff, settled, cue, recAudio, tail, won>>
        /\ cell.serial # 0
        /\ tag.phase \in {"applied", "cancelled", "refused"}
    BY <1>1 DEF Scheduled!AcknowledgeStart, Scheduled!Acknowledge, Scheduled!Retired, Scheduled!NoCell,
        Scheduled!Terminal, Scheduled!audioOwn, Scheduled!Tag
  <2>a. pins' = [s \in RecordSlots |-> 0]
    BY <2>1 DEF Held
  <2>b. cell' \in CellType /\ cell'.serial = 0 /\ ~cell'.startAck
    BY <2>1, <2>a DEF Scheduled!NoCell
  <2>c. recAudio.pc \notin {"borrow", "applied"} /\ tag.phase \notin {"starting", "preparing"}
    BY <2>1, <2>a, <2>b DEF Stations, Scheduled!Tag
  <2>2. ControlTypes'
    BY <2>1, <2>a, <2>b, <2>c DEF Scheduled!NoCell
  <2>3. AudioTypes'
    BY <2>1, <2>a, <2>b, <2>c
  <2>4. Held'
    BY <2>1, <2>a, <2>b, <2>c DEF Held, Serials, Stages, Stations, Scheduled!NoCell
  <2>5. Serials'
    BY <2>1, <2>a, <2>b, <2>c DEF Serials, Scheduled!Terminal, Held, Stages, Stations, Mine, Scheduled!NoCell
  <2>6. Stages'
    BY <2>1, <2>a, <2>b, <2>c DEF Stages, Mine, Serials, Stations, Scheduled!Terminal, Counting, Scheduled!NoCell
  <2>7. Stations'
    BY <2>1, <2>a, <2>b, <2>c DEF Stations, Serials, Stages, Mine, Scheduled!Terminal, Batch
  <2>8. Counting'
    BY RecordNumbers, <2>1, <2>a, <2>b, <2>c DEF Counting, Reached, Serials, Stages, Stations, Mine,
        Scheduled!Terminal, Batch
  <2>9. Batch'
    BY <2>1, <2>a, <2>b, <2>c DEF Batch, Serials, Stages, Mine, Stations, Counting, Scheduled!Terminal, Reached
  <2>10. Unused'
    BY <2>1, <2>a, <2>b, <2>c DEF Unused, Stages, Stations, Serials, Mine
  <2> QED
    BY <2>2, <2>3, <2>4, <2>5, <2>6, <2>7, <2>8, <2>9, <2>10
<1>2. CASE ~Scheduled!Retired([cell EXCEPT !.startAck = TRUE])
  <2>1. /\ cell' = [cell EXCEPT !.startAck = TRUE]
        /\ UNCHANGED <<tag, payload, last, recSlots, cur, pins, borrows, recLocal, cutoff, settled, cue, recAudio, tail, won>>
        /\ tag.phase \in {"applied", "cancelled", "refused"}
    BY <1>2 DEF Scheduled!AcknowledgeStart, Scheduled!Acknowledge, Scheduled!Retired, Scheduled!NoCell,
        Scheduled!Terminal, Scheduled!audioOwn, Scheduled!Tag
  <2>2. ControlTypes'
    BY <2>1
  <2>3. AudioTypes'
    BY <2>1
  <2>4. Held'
    BY <2>1 DEF Held, Serials, Stages, Stations
  <2>5. Serials'
    BY <2>1 DEF Serials, Scheduled!Terminal, Held, Stages, Stations, Mine
  <2>6. Stages'
    BY <2>1 DEF Stages, Mine, Serials, Stations, Scheduled!Terminal, Counting
  <2>7. Stations'
    BY <2>1 DEF Stations, Serials, Stages, Mine, Scheduled!Terminal, Batch
  <2>8. Counting'
    BY RecordNumbers, <2>1 DEF Counting, Reached, Serials, Stages, Stations, Mine, Scheduled!Terminal, Batch
  <2>9. Batch'
    BY <2>1 DEF Batch, Serials, Stages, Mine, Stations, Counting, Scheduled!Terminal, Reached
  <2>10. Unused'
    BY <2>1 DEF Unused, Stages, Stations, Serials, Mine
  <2> QED
    BY <2>2, <2>3, <2>4, <2>5, <2>6, <2>7, <2>8, <2>9, <2>10
<1> QED
  BY <1>1, <1>2

LEMMA AcknowledgeCancelKept ==
  ASSUME Scheduled!ScheduledAssumption, RecordIInv, Scheduled!AcknowledgeCancel
  PROVE  RecordIInv'
PROOF
<1> USE DEF ControlTypes, AudioTypes, TagType, CellType, LocalType, CueType, PcType, RenderType, Phases, RecordIInv
<1>1. CASE Scheduled!Retired([cell EXCEPT !.cancelAck = TRUE])
  <2>1. /\ cell' = Scheduled!NoCell
        /\ tag' = [serial |-> last, phase |-> "empty"]
        /\ pins' = [pins EXCEPT ![payload.slot] = @ - 1]
        /\ UNCHANGED <<payload, last, recSlots, cur, borrows, recLocal, cutoff, settled, cue, recAudio, tail, won>>
        /\ cell.serial # 0
        /\ tag.phase \in {"applied", "cancelled", "refused"}
    BY <1>1 DEF Scheduled!AcknowledgeCancel, Scheduled!Acknowledge, Scheduled!Retired, Scheduled!NoCell,
        Scheduled!Terminal, Scheduled!Quiet, Serials, Scheduled!audioOwn, Scheduled!Tag
  <2>a. pins' = [s \in RecordSlots |-> 0]
    BY <2>1 DEF Held
  <2>b. cell' \in CellType /\ cell'.serial = 0 /\ ~cell'.startAck
    BY <2>1, <2>a DEF Scheduled!NoCell
  <2>c. recAudio.pc \notin {"borrow", "applied"} /\ tag.phase \notin {"starting", "preparing"}
    BY <2>1, <2>a, <2>b DEF Stations, Scheduled!Tag
  <2>2. ControlTypes'
    BY <2>1, <2>a, <2>b, <2>c DEF Scheduled!NoCell
  <2>3. AudioTypes'
    BY <2>1, <2>a, <2>b, <2>c
  <2>4. Held'
    BY <2>1, <2>a, <2>b, <2>c DEF Held, Serials, Stages, Stations, Scheduled!NoCell
  <2>5. Serials'
    BY <2>1, <2>a, <2>b, <2>c DEF Serials, Scheduled!Terminal, Held, Stages, Stations, Mine, Scheduled!NoCell
  <2>6. Stages'
    BY <2>1, <2>a, <2>b, <2>c DEF Stages, Mine, Serials, Stations, Scheduled!Terminal, Counting, Scheduled!NoCell
  <2>7. Stations'
    BY <2>1, <2>a, <2>b, <2>c DEF Stations, Serials, Stages, Mine, Scheduled!Terminal, Batch
  <2>8. Counting'
    BY RecordNumbers, <2>1, <2>a, <2>b, <2>c DEF Counting, Reached, Serials, Stages, Stations, Mine,
        Scheduled!Terminal, Batch
  <2>9. Batch'
    BY <2>1, <2>a, <2>b, <2>c DEF Batch, Serials, Stages, Mine, Stations, Counting, Scheduled!Terminal, Reached
  <2>10. Unused'
    BY <2>1, <2>a, <2>b, <2>c DEF Unused, Stages, Stations, Serials, Mine
  <2> QED
    BY <2>2, <2>3, <2>4, <2>5, <2>6, <2>7, <2>8, <2>9, <2>10
<1>2. CASE ~Scheduled!Retired([cell EXCEPT !.cancelAck = TRUE])
  <2>1. /\ cell' = [cell EXCEPT !.cancelAck = TRUE]
        /\ UNCHANGED <<tag, payload, last, recSlots, cur, pins, borrows, recLocal, cutoff, settled, cue, recAudio, tail, won>>
    BY <1>2 DEF Scheduled!AcknowledgeCancel, Scheduled!Acknowledge, Scheduled!Retired, Scheduled!NoCell,
        Scheduled!Terminal, Scheduled!Quiet, Serials, Scheduled!audioOwn, Scheduled!Tag
  <2>2. ControlTypes'
    BY <2>1
  <2>3. AudioTypes'
    BY <2>1
  <2>4. Held'
    BY <2>1 DEF Held, Serials, Stages, Stations
  <2>5. Serials'
    BY <2>1 DEF Serials, Scheduled!Terminal, Held, Stages, Stations, Mine
  <2>6. Stages'
    BY <2>1 DEF Stages, Mine, Serials, Stations, Scheduled!Terminal, Counting
  <2>7. Stations'
    BY <2>1 DEF Stations, Serials, Stages, Mine, Scheduled!Terminal, Batch
  <2>8. Counting'
    BY RecordNumbers, <2>1 DEF Counting, Reached, Serials, Stages, Stations, Mine, Scheduled!Terminal, Batch
  <2>9. Batch'
    BY <2>1 DEF Batch, Serials, Stages, Mine, Stations, Counting, Scheduled!Terminal, Reached
  <2>10. Unused'
    BY <2>1 DEF Unused, Stages, Stations, Serials, Mine
  <2> QED
    BY <2>2, <2>3, <2>4, <2>5, <2>6, <2>7, <2>8, <2>9, <2>10
<1> QED
  BY <1>1, <1>2

LEMMA PressKept ==
  ASSUME Scheduled!ScheduledAssumption, RecordIInv, Scheduled!Press
  PROVE  RecordIInv'
PROOF
<1> USE DEF Scheduled!Press, Scheduled!audioOwn, ControlTypes, AudioTypes, TagType, CellType, LocalType, CueType,
        PcType, RenderType, Phases, RecordIInv
<1>1. ControlTypes'
  OBVIOUS
<1>2. AudioTypes'
  OBVIOUS
<1>3. Held'
  BY DEF Held, Serials, Stages, Stations
<1>4. Serials'
  BY DEF Serials, Scheduled!Terminal, Held, Stages, Stations, Mine
<1>5. Stages'
  BY DEF Stages, Mine, Serials, Stations, Scheduled!Terminal, Counting
<1>6. Stations'
  BY DEF Stations, Serials, Stages, Mine, Scheduled!Terminal, Batch
<1>7. Counting'
  BY RecordNumbers DEF Counting, Reached, Serials, Stages, Stations, Mine, Scheduled!Terminal, Batch
<1>8. Batch'
  BY DEF Batch, Serials, Stages, Mine, Stations, Counting, Scheduled!Terminal, Reached
<1>9. Unused'
  BY DEF Unused, Stages, Stations, Serials, Mine
<1> QED
  BY <1>1, <1>2, <1>3, <1>4, <1>5, <1>6, <1>7, <1>8, <1>9

LEMMA ReplaceKept ==
  ASSUME Scheduled!ScheduledAssumption, RecordIInv, NEW s \in RecordSlots, Scheduled!Replace(s)
  PROVE  RecordIInv'
PROOF
<1> USE DEF Scheduled!Replace, Scheduled!audioOwn, ControlTypes, AudioTypes, TagType, CellType, LocalType, CueType,
        PcType, RenderType, Phases, RecordIInv
<1>1. ControlTypes'
  OBVIOUS
<1>2. AudioTypes'
  OBVIOUS
<1>3. Held'
  BY DEF Held, Serials, Stages, Stations
<1>4. Serials'
  BY DEF Serials, Scheduled!Terminal, Held, Stages, Stations, Mine
<1>5. Stages'
  BY DEF Stages, Mine, Serials, Stations, Scheduled!Terminal, Counting
<1>6. Stations'
  BY DEF Stations, Serials, Stages, Mine, Scheduled!Terminal, Batch
<1>7. Counting'
  BY RecordNumbers DEF Counting, Reached, Serials, Stages, Stations, Mine, Scheduled!Terminal, Batch
<1>8. Batch'
  BY DEF Batch, Serials, Stages, Mine, Stations, Counting, Scheduled!Terminal, Reached
<1>9. Unused'
  BY DEF Unused, Stages, Stations, Serials, Mine
<1> QED
  BY <1>1, <1>2, <1>3, <1>4, <1>5, <1>6, <1>7, <1>8, <1>9

LEMMA ReclaimKept ==
  ASSUME Scheduled!ScheduledAssumption, RecordIInv, Scheduled!Reclaim
  PROVE  RecordIInv'
PROOF
<1> USE DEF Scheduled!Reclaim, Scheduled!Reclaimable, Scheduled!audioOwn, ControlTypes, AudioTypes, TagType,
        CellType, LocalType, CueType, PcType, RenderType, Phases, RecordIInv
<1>1. ControlTypes'
  OBVIOUS
<1>2. AudioTypes'
  OBVIOUS
<1>3. Held'
  BY DEF Held, Serials, Stages, Stations
<1>4. Serials'
  BY DEF Serials, Scheduled!Terminal, Held, Stages, Stations, Mine
<1>5. Stages'
  BY DEF Stages, Mine, Serials, Stations, Scheduled!Terminal, Counting
<1>6. Stations'
  BY DEF Stations, Serials, Stages, Mine, Scheduled!Terminal, Batch
<1>7. Counting'
  BY RecordNumbers DEF Counting, Reached, Serials, Stages, Stations, Mine, Scheduled!Terminal, Batch
<1>8. Batch'
  BY DEF Batch, Serials, Stages, Mine, Stations, Counting, Scheduled!Terminal, Reached
<1>9. Unused'
  BY DEF Unused, Stages, Stations, Serials, Mine
<1> QED
  BY <1>1, <1>2, <1>3, <1>4, <1>5, <1>6, <1>7, <1>8, <1>9

LEMMA CallbackKept ==
  ASSUME Scheduled!ScheduledAssumption, RecordIInv, NEW n \in Quanta, Scheduled!Callback(n)
  PROVE  RecordIInv'
PROOF
<1> USE DEF Scheduled!Callback, Scheduled!NoTag, Scheduled!controlOwn, Scheduled!At, Scheduled!Go, ControlTypes,
        AudioTypes, TagType, CellType, LocalType, CueType, PcType, RenderType, Phases, RecordIInv
<1>1. ControlTypes'
  OBVIOUS
<1>2. AudioTypes'
  <2>1. recLocal' \in LocalType
    OBVIOUS
  <2>2. cutoff' \in Nat /\ settled' \in Nat
    OBVIOUS
  <2>3. cue' \in CueType
    OBVIOUS
  <2>4. recAudio' \in RenderType
    BY RecordNumbers
  <2> QED
    BY <2>1, <2>2, <2>3, <2>4
<1>3. Held'
  BY DEF Held, Serials, Stages, Stations
<1>4. Serials'
  BY DEF Serials, Scheduled!Terminal, Held, Stages, Stations, Mine
<1>5. Stages'
  BY DEF Stages, Mine, Serials, Stations, Scheduled!Terminal, Counting
<1>6. Stations'
  BY DEF Stations, Serials, Stages, Mine, Scheduled!Terminal, Batch
<1>7. Counting'
  BY RecordNumbers DEF Counting, Reached, Serials, Stages, Stations, Mine, Scheduled!Terminal, Batch
<1>8. Batch'
  BY DEF Batch, Serials, Stages, Mine, Stations, Counting, Scheduled!Terminal, Reached
<1>9. Unused'
  BY DEF Unused, Stages, Stations, Serials, Mine
<1> QED
  BY <1>1, <1>2, <1>3, <1>4, <1>5, <1>6, <1>7, <1>8, <1>9

LEMMA PrepareKept ==
  ASSUME Scheduled!ScheduledAssumption, RecordIInv, Scheduled!Prepare
  PROVE  RecordIInv'
PROOF
<1> USE NobodyFacts DEF ControlTypes, AudioTypes, TagType, CellType, LocalType, CueType, PcType, RenderType,
        Phases, RecordIInv
<1>1. CASE recLocal.borrowed /\ Scheduled!KeepsBorrow
  <2>1. /\ recAudio' = [recAudio EXCEPT !.pc = "transport"]
        /\ UNCHANGED <<tag, cell, payload, last, recSlots, cur, pins, borrows, recLocal, cutoff, settled, cue, tail, won>>
        /\ recAudio.pc = "prepare"
    BY <1>1 DEF Scheduled!Prepare, Scheduled!KeepsBorrow, Scheduled!Released, Scheduled!controlOwn, Scheduled!At,
        Scheduled!Go, Scheduled!Tag
  <2>2. ControlTypes'
    BY <2>1
  <2>3. AudioTypes'
    BY <2>1
  <2>4. Held'
    BY <2>1 DEF Held, Serials, Stages, Stations, Scheduled!Released
  <2>5. Serials'
    BY <2>1 DEF Serials, Scheduled!Terminal, Held, Stages, Stations, Mine, Scheduled!Tag
  <2>6. Stages'
    BY <2>1 DEF Stages, Mine, Serials, Stations, Scheduled!Terminal, Counting, Scheduled!Tag
  <2>7. Stations'
    BY <2>1 DEF Stations, Serials, Stages, Mine, Scheduled!Terminal, Batch, Scheduled!Tag
  <2>8. Counting'
    BY RecordNumbers, <2>1 DEF Counting, Reached, Serials, Stages, Stations, Mine, Scheduled!Terminal, Batch
  <2>9. Batch'
    BY <2>1 DEF Batch, Serials, Stages, Mine, Stations, Counting, Scheduled!Terminal, Reached
  <2>10. Unused'
    BY <2>1 DEF Unused, Stages, Stations, Serials, Mine
  <2> QED
    BY <2>2, <2>3, <2>4, <2>5, <2>6, <2>7, <2>8, <2>9, <2>10
<1>2. CASE recLocal.borrowed /\ ~Scheduled!KeepsBorrow
  <2>1. /\ recAudio' = [recAudio EXCEPT !.pc = "take", !.seen = tag]
        /\ recLocal' = Scheduled!Nobody
        /\ borrows' = Scheduled!Released
        /\ UNCHANGED <<tag, cell, payload, last, recSlots, cur, pins, cutoff, settled, cue, tail, won>>
        /\ recAudio.pc = "prepare"
        /\ recLocal.borrowed
        /\ ~Scheduled!KeepsBorrow
    BY <1>2 DEF Scheduled!Prepare, Scheduled!KeepsBorrow, Scheduled!Released, Scheduled!controlOwn, Scheduled!At,
        Scheduled!Go, Scheduled!Tag
  <2>a. /\ borrows = [s \in RecordSlots |-> IF recLocal.slot = s THEN 1 ELSE 0] /\ recLocal.slot \in RecordSlots
        /\ borrows' = [borrows EXCEPT ![recLocal.slot] = @ - 1]
    BY <2>1 DEF Held, Scheduled!Released
  <2>b. borrows[recLocal.slot] - 1 = 0
    BY <2>1, <2>a
  <2>c. borrows' = [s \in RecordSlots |-> 0]
    BY <2>1, <2>a, <2>b
  <2>d. tag.phase \notin {"preparing", "armed"}
    BY <2>1, <2>a, <2>b, <2>c DEF Scheduled!KeepsBorrow, Stages, Mine, Serials
  <2>2. ControlTypes'
    BY <2>1, <2>a, <2>b, <2>c, <2>d
  <2>3. AudioTypes'
    BY <2>1, <2>a, <2>b, <2>c, <2>d
  <2>4. Held'
    BY <2>1, <2>c DEF Held
  <2>5. Serials'
    BY <2>1, <2>a, <2>b, <2>c, <2>d DEF Serials, Scheduled!Terminal, Held, Stages, Stations, Mine, Scheduled!Tag
  <2>6. Stages'
    BY <2>1, <2>a, <2>b, <2>c, <2>d DEF Stages, Mine, Serials, Stations, Scheduled!Terminal, Counting, Scheduled!Tag
  <2>7. Stations'
    BY <2>1, <2>a, <2>b, <2>c, <2>d DEF Stations, Serials, Stages, Mine, Scheduled!Terminal, Batch, Scheduled!Tag
  <2>8. Counting'
    BY RecordNumbers, <2>1, <2>a, <2>b, <2>c, <2>d DEF Counting, Reached, Serials, Stages, Stations, Mine,
        Scheduled!Terminal, Batch
  <2>9. Batch'
    BY <2>1, <2>a, <2>b, <2>c, <2>d DEF Batch, Serials, Stages, Mine, Stations, Counting, Scheduled!Terminal,
        Reached
  <2>10. Unused'
    BY <2>1, <2>a, <2>b, <2>c, <2>d DEF Unused, Stages, Stations, Serials, Mine
  <2> QED
    BY <2>2, <2>3, <2>4, <2>5, <2>6, <2>7, <2>8, <2>9, <2>10
<1>3. CASE ~recLocal.borrowed
  <2>1. /\ recAudio' = [recAudio EXCEPT !.pc = "take", !.seen = tag]
        /\ UNCHANGED <<tag, cell, payload, last, recSlots, cur, pins, borrows, recLocal, cutoff, settled, cue, tail, won>>
        /\ recAudio.pc = "prepare"
        /\ ~recLocal.borrowed
    BY <1>3 DEF Scheduled!Prepare, Scheduled!KeepsBorrow, Scheduled!Released, Scheduled!controlOwn, Scheduled!At,
        Scheduled!Go, Scheduled!Tag
  <2>2. ControlTypes'
    BY <2>1
  <2>3. AudioTypes'
    BY <2>1
  <2>4. Held'
    BY <2>1 DEF Held, Serials, Stages, Stations, Scheduled!Released
  <2>5. Serials'
    BY <2>1 DEF Serials, Scheduled!Terminal, Held, Stages, Stations, Mine, Scheduled!Tag
  <2>6. Stages'
    BY <2>1 DEF Stages, Mine, Serials, Stations, Scheduled!Terminal, Counting, Scheduled!Tag
  <2>7. Stations'
    BY <2>1 DEF Stations, Serials, Stages, Mine, Scheduled!Terminal, Batch, Scheduled!Tag
  <2>8. Counting'
    BY RecordNumbers, <2>1 DEF Counting, Reached, Serials, Stages, Stations, Mine, Scheduled!Terminal, Batch
  <2>9. Batch'
    BY <2>1 DEF Batch, Serials, Stages, Mine, Stations, Counting, Scheduled!Terminal, Reached
  <2>10. Unused'
    BY <2>1 DEF Unused, Stages, Stations, Serials, Mine
  <2> QED
    BY <2>2, <2>3, <2>4, <2>5, <2>6, <2>7, <2>8, <2>9, <2>10
<1> QED
  BY <1>1, <1>2, <1>3

LEMMA TakeScheduleKept ==
  ASSUME Scheduled!ScheduledAssumption, RecordIInv, Scheduled!TakeSchedule
  PROVE  RecordIInv'
PROOF
<1> USE DEF ControlTypes, AudioTypes, TagType, CellType, LocalType, CueType, PcType, RenderType, Phases, RecordIInv
<1>1. CASE tag = recAudio.seen /\ tag.phase = "submitted"
  <2>1. /\ tag' = [serial |-> tag.serial, phase |-> "preparing"]
        /\ recAudio' = [recAudio EXCEPT !.pc = "borrow"]
        /\ UNCHANGED <<cell, payload, last, recSlots, cur, pins, borrows, recLocal, cutoff, settled, cue, tail, won>>
        /\ recAudio.pc = "take"
        /\ tag.phase = "submitted"
    BY <1>1 DEF Scheduled!TakeSchedule, Scheduled!controlOwn, Scheduled!At, Scheduled!Go, Scheduled!Tag
  <2>2. ControlTypes'
    BY <2>1
  <2>3. AudioTypes'
    BY <2>1
  <2>4. Held'
    BY <2>1 DEF Held, Serials, Stages, Stations
  <2>5. Serials'
    BY <2>1 DEF Serials, Scheduled!Terminal, Held, Stages, Stations, Mine, Scheduled!Tag
  <2>6. Stages'
    BY <2>1 DEF Stages, Mine, Serials, Stations, Scheduled!Terminal, Counting, Scheduled!Tag
  <2>7. Stations'
    BY <2>1 DEF Stations, Serials, Stages, Mine, Scheduled!Terminal, Batch, Scheduled!Tag
  <2>8. Counting'
    BY RecordNumbers, <2>1 DEF Counting, Reached, Serials, Stages, Stations, Mine, Scheduled!Terminal, Batch
  <2>9. Batch'
    BY <2>1 DEF Batch, Serials, Stages, Mine, Stations, Counting, Scheduled!Terminal, Reached
  <2>10. Unused'
    BY <2>1 DEF Unused, Stages, Stations, Serials, Mine
  <2> QED
    BY <2>2, <2>3, <2>4, <2>5, <2>6, <2>7, <2>8, <2>9, <2>10
<1>2. CASE ~(tag = recAudio.seen /\ tag.phase = "submitted")
  <2>1. /\ recAudio' = [recAudio EXCEPT !.pc = "transport"]
        /\ UNCHANGED <<tag, cell, payload, last, recSlots, cur, pins, borrows, recLocal, cutoff, settled, cue, tail, won>>
        /\ recAudio.pc = "take"
    BY <1>2 DEF Scheduled!TakeSchedule, Scheduled!controlOwn, Scheduled!At, Scheduled!Go, Scheduled!Tag
  <2>2. ControlTypes'
    BY <2>1
  <2>3. AudioTypes'
    BY <2>1
  <2>4. Held'
    BY <2>1 DEF Held, Serials, Stages, Stations
  <2>5. Serials'
    BY <2>1 DEF Serials, Scheduled!Terminal, Held, Stages, Stations, Mine, Scheduled!Tag
  <2>6. Stages'
    BY <2>1 DEF Stages, Mine, Serials, Stations, Scheduled!Terminal, Counting, Scheduled!Tag
  <2>7. Stations'
    BY <2>1 DEF Stations, Serials, Stages, Mine, Scheduled!Terminal, Batch, Scheduled!Tag
  <2>8. Counting'
    BY RecordNumbers, <2>1 DEF Counting, Reached, Serials, Stages, Stations, Mine, Scheduled!Terminal, Batch
  <2>9. Batch'
    BY <2>1 DEF Batch, Serials, Stages, Mine, Stations, Counting, Scheduled!Terminal, Reached
  <2>10. Unused'
    BY <2>1 DEF Unused, Stages, Stations, Serials, Mine
  <2> QED
    BY <2>2, <2>3, <2>4, <2>5, <2>6, <2>7, <2>8, <2>9, <2>10
<1> QED
  BY <1>1, <1>2

LEMMA BorrowKept ==
  ASSUME Scheduled!ScheduledAssumption, RecordIInv, Scheduled!Borrow
  PROVE  RecordIInv'
PROOF
<1>1. /\ recLocal' = [Scheduled!Nobody EXCEPT !.serial = payload.serial, !.slot = payload.slot, !.borrowed = TRUE]
      /\ borrows' = [borrows EXCEPT ![payload.slot] = @ + 1]
      /\ recAudio' = [recAudio EXCEPT !.pc = "transport"]
      /\ UNCHANGED <<tag, cell, payload, last, recSlots, cur, pins, cutoff, settled, cue, tail, won>>
      /\ recAudio.pc = "borrow"
  BY DEF Scheduled!Borrow, Scheduled!controlOwn, Scheduled!At, Scheduled!Go, Scheduled!Tag
<1>a. borrows = [s \in RecordSlots |-> 0] /\ payload.slot \in RecordSlots
  BY <1>1 DEF Held, Stations, RecordIInv, ControlTypes
<1>b. borrows' = [s \in RecordSlots |-> IF payload.slot = s THEN 1 ELSE 0]
  BY <1>1, <1>a, CountUp
<1> USE NobodyFacts DEF ControlTypes, AudioTypes, TagType, CellType, LocalType, CueType, PcType, RenderType,
        Phases, RecordIInv
<1>c. /\ recLocal' \in LocalType
      /\ recLocal'.serial = payload.serial
      /\ recLocal'.slot = payload.slot
      /\ recLocal'.borrowed
      /\ ~recLocal'.started
      /\ recLocal'.next = 0
  BY <1>1, <1>a, <1>b
<1>d. payload.serial = last /\ last # 0 /\ recSlots[payload.slot] # "empty"
  BY <1>1, <1>a, <1>b, <1>c DEF Held, Stations, Serials
<1>2. ControlTypes'
  BY <1>1, <1>a, <1>b, <1>c, <1>d
<1>3. AudioTypes'
  BY <1>1, <1>a, <1>b, <1>c, <1>d
<1>4. Held'
  BY <1>1, <1>a, <1>b, <1>c, <1>d DEF Held, Serials, Stages, Stations
<1>5. Serials'
  BY <1>1, <1>a, <1>b, <1>c, <1>d DEF Serials, Scheduled!Terminal, Held, Stages, Stations, Mine
<1>6. Stages'
  BY <1>1, <1>a, <1>b, <1>c, <1>d DEF Stages, Mine, Serials, Stations, Scheduled!Terminal, Counting
<1>7. Stations'
  BY <1>1, <1>a, <1>b, <1>c, <1>d DEF Stations, Serials, Stages, Mine, Scheduled!Terminal, Batch
<1>8. Counting'
  BY RecordNumbers, <1>1, <1>a, <1>b, <1>c, <1>d DEF Counting, Reached, Serials, Stages, Stations, Mine,
      Scheduled!Terminal, Batch
<1>9. Batch'
  BY <1>1, <1>a, <1>b, <1>c, <1>d DEF Batch, Serials, Stages, Mine, Stations, Counting, Scheduled!Terminal, Reached
<1>10. Unused'
  BY <1>1, <1>a, <1>b, <1>c, <1>d DEF Unused, Stages, Stations, Serials, Mine
<1> QED
  BY <1>2, <1>3, <1>4, <1>5, <1>6, <1>7, <1>8, <1>9, <1>10

LEMMA TransportKept ==
  ASSUME Scheduled!ScheduledAssumption, RecordIInv, Scheduled!Transport
  PROVE  RecordIInv'
PROOF
<1>1. /\ UNCHANGED <<tag, cell, payload, last, recSlots, cur, pins, borrows, recLocal, settled, cue, tail, won>>
      /\ recAudio.pc = "transport"
      /\ recAudio' = [recAudio EXCEPT !.pc = "frame"]
      /\ cutoff' = cutoff \/ (cutoff' = tag.serial /\ tag.phase \in {"starting", "applied", "empty"})
  BY DEF Scheduled!Transport, Scheduled!Transported, Scheduled!controlOwn, Scheduled!At, Scheduled!Go
<1> USE DEF ControlTypes, AudioTypes, TagType, CellType, LocalType, CueType, PcType, RenderType, Phases, RecordIInv
<1>2. ControlTypes'
  BY <1>1
<1>3. AudioTypes'
  BY <1>1
<1>4. Held'
  BY <1>1 DEF Held, Serials, Stages, Stations
<1>5. Serials'
  BY <1>1 DEF Serials, Scheduled!Terminal, Held, Stages, Stations, Mine
<1>6. Stages'
  BY <1>1 DEF Stages, Mine, Serials, Stations, Scheduled!Terminal, Counting
<1>7. Stations'
  BY <1>1 DEF Stations, Serials, Stages, Mine, Scheduled!Terminal, Batch
<1>8. Counting'
  BY RecordNumbers, <1>1 DEF Counting, Reached, Serials, Stages, Stations, Mine, Scheduled!Terminal, Batch
<1>9. Batch'
  BY <1>1 DEF Batch, Serials, Stages, Mine, Stations, Counting, Scheduled!Terminal, Reached
<1>10. Unused'
  BY <1>1 DEF Unused, Stages, Stations, Serials, Mine
<1> QED
  BY <1>2, <1>3, <1>4, <1>5, <1>6, <1>7, <1>8, <1>9, <1>10

LEMMA AdvanceKept ==
  ASSUME Scheduled!ScheduledAssumption, RecordIInv, Scheduled!Advance
  PROVE  RecordIInv'
PROOF
<1> USE DEF Scheduled!Advance, Scheduled!NoTag, Scheduled!controlOwn, Scheduled!At, Scheduled!Go, ControlTypes,
        AudioTypes, TagType, CellType, LocalType, CueType, PcType, RenderType, Phases, RecordIInv
<1>1. ControlTypes'
  OBVIOUS
<1>2. AudioTypes'
  OBVIOUS
<1>3. Held'
  BY DEF Held, Serials, Stages, Stations
<1>4. Serials'
  BY DEF Serials, Scheduled!Terminal, Held, Stages, Stations, Mine
<1>5. Stages'
  BY DEF Stages, Mine, Serials, Stations, Scheduled!Terminal, Counting
<1>6. Stations'
  BY DEF Stations, Serials, Stages, Mine, Scheduled!Terminal, Batch
<1>7. Counting'
  BY RecordNumbers DEF Counting, Reached, Serials, Stages, Stations, Mine, Scheduled!Terminal, Batch
<1>8. Batch'
  BY DEF Batch, Serials, Stages, Mine, Stations, Counting, Scheduled!Terminal, Reached
<1>9. Unused'
  BY DEF Unused, Stages, Stations, Serials, Mine
<1> QED
  BY <1>1, <1>2, <1>3, <1>4, <1>5, <1>6, <1>7, <1>8, <1>9

LEMMA RefuseKept ==
  ASSUME Scheduled!ScheduledAssumption, RecordIInv, Scheduled!Refuse
  PROVE  RecordIInv'
PROOF
<1> USE DEF Scheduled!Refuse, Scheduled!Swap, Scheduled!Seen, Scheduled!NextFrame, Scheduled!NoTag,
        Scheduled!controlOwn, Scheduled!At, Scheduled!Go, ControlTypes, AudioTypes, TagType, CellType, LocalType,
        CueType, PcType, RenderType, Phases, RecordIInv
<1>1. ControlTypes'
  OBVIOUS
<1>2. AudioTypes'
  OBVIOUS
<1>3. Held'
  BY DEF Held, Serials, Stages, Stations
<1>4. Serials'
  BY DEF Serials, Scheduled!Terminal, Held, Stages, Stations, Mine
<1>5. Stages'
  BY DEF Stages, Mine, Serials, Stations, Scheduled!Terminal, Counting
<1>6. Stations'
  BY DEF Stations, Serials, Stages, Mine, Scheduled!Terminal, Batch
<1>7. Counting'
  <2>1. CASE tag = recAudio.seen
    BY <2>1, RecordNumbers DEF Counting, Reached, Serials, Stages, Stations, Mine, Scheduled!Terminal, Batch
  <2>2. CASE ~(tag = recAudio.seen)
    BY <2>2, RecordNumbers DEF Counting, Reached, Serials, Stages, Stations, Mine, Scheduled!Terminal, Batch
  <2> QED
    BY <2>1, <2>2
<1>8. Batch'
  BY DEF Batch, Serials, Stages, Mine, Stations, Counting, Scheduled!Terminal, Reached
<1>9. Unused'
  BY DEF Unused, Stages, Stations, Serials, Mine
<1> QED
  BY <1>1, <1>2, <1>3, <1>4, <1>5, <1>6, <1>7, <1>8, <1>9

LEMMA SettleCancelKept ==
  ASSUME Scheduled!ScheduledAssumption, RecordIInv, Scheduled!SettleCancel
  PROVE  RecordIInv'
PROOF
<1> USE DEF Scheduled!SettleCancel, Scheduled!Swap, Scheduled!Seen, Scheduled!NextFrame, Scheduled!NoTag,
        Scheduled!controlOwn, Scheduled!At, Scheduled!Go, ControlTypes, AudioTypes, TagType, CellType, LocalType,
        CueType, PcType, RenderType, Phases, RecordIInv
<1>1. ControlTypes'
  OBVIOUS
<1>2. AudioTypes'
  OBVIOUS
<1>3. Held'
  BY DEF Held, Serials, Stages, Stations
<1>4. Serials'
  BY DEF Serials, Scheduled!Terminal, Held, Stages, Stations, Mine
<1>5. Stages'
  BY DEF Stages, Mine, Serials, Stations, Scheduled!Terminal, Counting
<1>6. Stations'
  BY DEF Stations, Serials, Stages, Mine, Scheduled!Terminal, Batch
<1>7. Counting'
  <2>1. CASE tag = recAudio.seen
    BY <2>1, RecordNumbers DEF Counting, Reached, Serials, Stages, Stations, Mine, Scheduled!Terminal, Batch
  <2>2. CASE ~(tag = recAudio.seen)
    BY <2>2, RecordNumbers DEF Counting, Reached, Serials, Stages, Stations, Mine, Scheduled!Terminal, Batch
  <2> QED
    BY <2>1, <2>2
<1>8. Batch'
  BY DEF Batch, Serials, Stages, Mine, Stations, Counting, Scheduled!Terminal, Reached
<1>9. Unused'
  BY DEF Unused, Stages, Stations, Serials, Mine
<1> QED
  BY <1>1, <1>2, <1>3, <1>4, <1>5, <1>6, <1>7, <1>8, <1>9

LEMMA ArmKept ==
  ASSUME Scheduled!ScheduledAssumption, RecordIInv, Scheduled!Arm
  PROVE  RecordIInv'
PROOF
<1> USE DEF ControlTypes, AudioTypes, TagType, CellType, LocalType, CueType, PcType, RenderType, Phases, RecordIInv
<1>1. CASE tag = recAudio.seen
  <2>1. /\ tag' = [serial |-> tag.serial, phase |-> "armed"]
        /\ recLocal' = [recLocal EXCEPT !.timed = TRUE, !.togo = CountIn]
        /\ recAudio' = [recAudio EXCEPT !.pc = "carry", !.seen = [recAudio.seen EXCEPT !.phase = "armed"]]
        /\ UNCHANGED <<cell, payload, last, recSlots, cur, pins, borrows, cutoff, settled, cue, tail, won>>
        /\ recAudio.pc = "act"
        /\ tag.phase = "preparing"
        /\ ~cue.blocked
    BY <1>1 DEF Scheduled!Arm, Scheduled!Swap, Scheduled!Seen, Scheduled!NextFrame, Scheduled!NoTag,
        Scheduled!controlOwn, Scheduled!At, Scheduled!Go, Scheduled!Tag
  <2>a. /\ recAudio'.pc = "carry"
        /\ recAudio'.first = recAudio.first
        /\ recAudio'.seen.phase = "armed"
        /\ recAudio' \in RenderType
    BY <2>1
  <2>b. CountIn \in Int /\ recLocal.next \in Nat
    BY RecordNumbers
  <2>c. /\ recLocal' \in LocalType
        /\ recLocal'.next = recLocal.next
        /\ recLocal'.togo = CountIn
        /\ recLocal'.timed
        /\ recLocal'.started = recLocal.started
    BY <2>1, <2>a, <2>b, LocalTimes
  <2>d. recLocal.next = 0 /\ ~recLocal.started
    BY <2>1, <2>a, <2>b, <2>c DEF Stages, Mine
  <2>e. Reached' = 0
    BY <2>1, <2>a, <2>b, <2>c, <2>d DEF Reached
  <2>f. recLocal'.next <= Len(Markers) /\ \A i \in 1 .. Len(Markers) : i <= recLocal'.next <=> Markers[i] < Reached'
    BY <2>1, <2>a, <2>b, <2>c, <2>d, <2>e, NonePassed
  <2>g. recLocal'.togo \in 0 .. CountIn /\ ~recLocal'.started
    BY <2>c, <2>d, RecordNumbers
  <2>2. ControlTypes'
    BY <2>1, <2>a, <2>b, <2>c, <2>d, <2>e, <2>f, <2>g
  <2>3. AudioTypes'
    BY <2>1, <2>a, <2>b, <2>c, <2>d, <2>e, <2>f, <2>g DEF Scheduled!NoTag
  <2>4. Held'
    BY <2>1, <2>a, <2>b, <2>c, <2>d, <2>e, <2>f, <2>g DEF Held, Serials, Stages, Stations
  <2>5. Serials'
    BY <2>1, <2>a, <2>b, <2>c, <2>d, <2>e, <2>f, <2>g DEF Serials, Scheduled!Terminal, Held, Stages, Stations,
        Mine, Scheduled!Tag
  <2>6. Stages'
    BY <2>1, <2>a, <2>b, <2>c, <2>d, <2>e, <2>f, <2>g DEF Stages, Mine, Serials, Stations, Scheduled!Terminal,
        Counting, Scheduled!Tag
  <2>7. Stations'
    BY <2>1, <2>a, <2>b, <2>c, <2>d, <2>e, <2>f, <2>g DEF Stations, Serials, Stages, Mine, Scheduled!Terminal,
        Batch, Scheduled!Tag
  <2>8. Counting'
    BY RecordNumbers, <2>1, <2>a, <2>b, <2>c, <2>d, <2>e, <2>f, <2>g DEF Counting
  <2>9. Batch'
    BY <2>1, <2>a, <2>b, <2>c, <2>d, <2>e, <2>f, <2>g DEF Batch, Serials, Stages, Mine, Stations, Counting,
        Scheduled!Terminal, Reached
  <2>10. Unused'
    BY <2>1, <2>a, <2>b, <2>c, <2>d, <2>e, <2>f, <2>g DEF Unused, Stages, Stations, Serials, Mine
  <2> QED
    BY <2>2, <2>3, <2>4, <2>5, <2>6, <2>7, <2>8, <2>9, <2>10
<1>2. CASE tag # recAudio.seen
  <2>1. /\ recLocal' = [recLocal EXCEPT !.timed = TRUE, !.togo = CountIn]
        /\ recAudio' = [recAudio EXCEPT !.pc = "mix", !.seen = Scheduled!NoTag]
        /\ UNCHANGED <<tag, cell, payload, last, recSlots, cur, pins, borrows, cutoff, settled, cue, tail, won>>
        /\ recAudio.pc = "act"
        /\ tag # recAudio.seen
    BY <1>2 DEF Scheduled!Arm, Scheduled!Swap, Scheduled!Seen, Scheduled!NextFrame, Scheduled!NoTag,
        Scheduled!controlOwn, Scheduled!At, Scheduled!Go, Scheduled!Tag
  <2>a. recAudio' \in RenderType /\ recAudio'.pc = "mix"
    BY <2>1 DEF Scheduled!NoTag
  <2>b. tag.phase \notin {"preparing", "armed"}
    BY <2>1, <2>a DEF Stations
  <2>c. CountIn \in Int /\ recLocal.next \in Nat
    BY RecordNumbers
  <2>d. /\ recLocal' \in LocalType
        /\ recLocal'.next = recLocal.next
        /\ recLocal'.togo = CountIn
        /\ recLocal'.timed
        /\ recLocal'.started = recLocal.started
    BY <2>1, <2>a, <2>b, <2>c, LocalTimes
  <2>2. ControlTypes'
    BY <2>1, <2>a, <2>b, <2>c, <2>d
  <2>3. AudioTypes'
    BY <2>1, <2>a, <2>b, <2>c, <2>d DEF Scheduled!NoTag
  <2>4. Held'
    BY <2>1, <2>a, <2>b, <2>c, <2>d DEF Held, Serials, Stages, Stations
  <2>5. Serials'
    BY <2>1, <2>a, <2>b, <2>c, <2>d DEF Serials, Scheduled!Terminal, Held, Stages, Stations, Mine, Scheduled!Tag
  <2>6. Stages'
    BY <2>1, <2>a, <2>b, <2>c, <2>d DEF Stages, Mine, Serials, Stations, Scheduled!Terminal, Counting, Scheduled!Tag
  <2>7. Stations'
    BY <2>1, <2>a, <2>b, <2>c, <2>d DEF Stations, Serials, Stages, Mine, Scheduled!Terminal, Batch, Scheduled!Tag
  <2>8. Counting'
    BY RecordNumbers, <2>1, <2>a, <2>b, <2>c, <2>d DEF Counting
  <2>9. Batch'
    BY <2>1, <2>a, <2>b, <2>c, <2>d DEF Batch, Serials, Stages, Mine, Stations, Counting, Scheduled!Terminal,
        Reached
  <2>10. Unused'
    BY <2>1, <2>a, <2>b, <2>c, <2>d DEF Unused, Stages, Stations, Serials, Mine
  <2> QED
    BY <2>2, <2>3, <2>4, <2>5, <2>6, <2>7, <2>8, <2>9, <2>10
<1> QED
  BY <1>1, <1>2

LEMMA ProceedKept ==
  ASSUME Scheduled!ScheduledAssumption, RecordIInv, Scheduled!Proceed
  PROVE  RecordIInv'
PROOF
<1> USE DEF ControlTypes, AudioTypes, TagType, CellType, LocalType, CueType, PcType, RenderType, Phases, RecordIInv
<1>1. CASE cutoff = recLocal.serial
  <2>1. /\ recAudio' = [recAudio EXCEPT !.pc = "mix", !.seen = Scheduled!NoTag]
        /\ UNCHANGED <<tag, cell, payload, last, recSlots, cur, pins, borrows, recLocal, cutoff, settled, cue, tail, won>>
        /\ recAudio.pc = "act"
        /\ cutoff = recLocal.serial
        /\ Scheduled!Proceeds
    BY <1>1 DEF Scheduled!Proceed, Scheduled!Proceeds, Scheduled!Seen, Scheduled!NextFrame, Scheduled!NoTag,
        Scheduled!controlOwn, Scheduled!At, Scheduled!Go, Scheduled!Tag
  <2>2. ControlTypes'
    BY <2>1
  <2>3. AudioTypes'
    BY <2>1 DEF Scheduled!NoTag
  <2>4. Held'
    BY <2>1 DEF Held, Serials, Stages, Stations
  <2>5. Serials'
    BY <2>1 DEF Serials, Scheduled!Terminal, Held, Stages, Stations, Mine
  <2>6. Stages'
    BY <2>1 DEF Stages, Mine, Serials, Stations, Scheduled!Terminal, Counting
  <2>7. Stations'
    BY <2>1 DEF Stations, Serials, Stages, Mine, Scheduled!Terminal, Batch, Scheduled!Proceeds, Scheduled!Seen
  <2>8. Counting'
    BY RecordNumbers, <2>1 DEF Counting, Reached, Serials, Stages, Stations, Mine, Scheduled!Terminal, Batch,
        Scheduled!Proceeds, Scheduled!Seen
  <2>9. Batch'
    BY <2>1 DEF Batch, Serials, Stages, Mine, Stations, Counting, Scheduled!Terminal, Reached, Scheduled!Proceeds,
        Scheduled!Seen
  <2>10. Unused'
    BY <2>1 DEF Unused, Stages, Stations, Serials, Mine, Scheduled!Proceeds, Scheduled!Seen
  <2> QED
    BY <2>2, <2>3, <2>4, <2>5, <2>6, <2>7, <2>8, <2>9, <2>10
<1>2. CASE cutoff # recLocal.serial
  <2>1. /\ recAudio' = [recAudio EXCEPT !.pc = "carry"]
        /\ UNCHANGED <<tag, cell, payload, last, recSlots, cur, pins, borrows, recLocal, cutoff, settled, cue, tail, won>>
        /\ recAudio.pc = "act"
        /\ Scheduled!Proceeds
    BY <1>2 DEF Scheduled!Proceed, Scheduled!Proceeds, Scheduled!Seen, Scheduled!NextFrame, Scheduled!NoTag,
        Scheduled!controlOwn, Scheduled!At, Scheduled!Go, Scheduled!Tag
  <2>2. ControlTypes'
    BY <2>1
  <2>3. AudioTypes'
    BY <2>1 DEF Scheduled!NoTag
  <2>4. Held'
    BY <2>1 DEF Held, Serials, Stages, Stations
  <2>5. Serials'
    BY <2>1 DEF Serials, Scheduled!Terminal, Held, Stages, Stations, Mine
  <2>6. Stages'
    BY <2>1 DEF Stages, Mine, Serials, Stations, Scheduled!Terminal, Counting
  <2>7. Stations'
    BY <2>1 DEF Stations, Serials, Stages, Mine, Scheduled!Terminal, Batch, Scheduled!Proceeds, Scheduled!Seen
  <2>8. Counting'
    BY RecordNumbers, <2>1 DEF Counting, Reached, Serials, Stages, Stations, Mine, Scheduled!Terminal, Batch,
        Scheduled!Proceeds, Scheduled!Seen
  <2>9. Batch'
    BY <2>1 DEF Batch, Serials, Stages, Mine, Stations, Counting, Scheduled!Terminal, Reached, Scheduled!Proceeds,
        Scheduled!Seen
  <2>10. Unused'
    BY <2>1 DEF Unused, Stages, Stations, Serials, Mine, Scheduled!Proceeds, Scheduled!Seen
  <2> QED
    BY <2>2, <2>3, <2>4, <2>5, <2>6, <2>7, <2>8, <2>9, <2>10
<1> QED
  BY <1>1, <1>2

LEMMA NothingKept ==
  ASSUME Scheduled!ScheduledAssumption, RecordIInv, Scheduled!Nothing
  PROVE  RecordIInv'
PROOF
<1> USE DEF Scheduled!Nothing, Scheduled!Seen, Scheduled!NextFrame, Scheduled!NoTag, Scheduled!controlOwn,
        Scheduled!At, Scheduled!Go, ControlTypes, AudioTypes, TagType, CellType, LocalType, CueType, PcType,
        RenderType, Phases, RecordIInv
<1>1. ControlTypes'
  OBVIOUS
<1>2. AudioTypes'
  OBVIOUS
<1>3. Held'
  BY DEF Held, Serials, Stages, Stations
<1>4. Serials'
  BY DEF Serials, Scheduled!Terminal, Held, Stages, Stations, Mine
<1>5. Stages'
  BY DEF Stages, Mine, Serials, Stations, Scheduled!Terminal, Counting
<1>6. Stations'
  BY DEF Stations, Serials, Stages, Mine, Scheduled!Terminal, Batch
<1>7. Counting'
  BY RecordNumbers DEF Counting, Reached, Serials, Stages, Stations, Mine, Scheduled!Terminal, Batch
<1>8. Batch'
  BY DEF Batch, Serials, Stages, Mine, Stations, Counting, Scheduled!Terminal, Reached
<1>9. Unused'
  BY DEF Unused, Stages, Stations, Serials, Mine
<1> QED
  BY <1>1, <1>2, <1>3, <1>4, <1>5, <1>6, <1>7, <1>8, <1>9

LEMMA CarryKept ==
  ASSUME Scheduled!ScheduledAssumption, RecordIInv, Scheduled!Carry
  PROVE  RecordIInv'
PROOF
<1> USE DEF ControlTypes, AudioTypes, TagType, CellType, LocalType, CueType, PcType, RenderType, Phases, RecordIInv
<1>1. CASE recLocal.carry > 0 /\ recAudio.first /\ Scheduled!Commits(recAudio.seen.phase)
  <2>1. /\ cue' = [cue EXCEPT !.spans = cue.spans + 1]
        /\ recAudio' = [recAudio EXCEPT !.pc = "mark"]
        /\ UNCHANGED <<tag, cell, payload, last, recSlots, cur, pins, borrows, recLocal, cutoff, settled, tail, won>>
        /\ recAudio.pc = "carry"
        /\ recAudio.first
    BY <1>1 DEF Scheduled!Carry, Scheduled!Commits, Scheduled!controlOwn, Scheduled!At, Scheduled!Go, Scheduled!Tag
  <2>a. /\ recAudio' \in RenderType
        /\ recAudio'.first = recAudio.first
        /\ recAudio'.seen = recAudio.seen
        /\ recAudio'.pc = "mark"
    BY <2>1
  <2>b. cue' \in CueType /\ cue'.pending = cue.pending /\ cue'.blocked = cue.blocked /\ cue'.spans = cue.spans + 1
    BY <2>1, <2>a, CueAdds
  <2>c. ~cue.blocked /\ tag.phase \in {"preparing", "armed"} => cue.spans <= recLocal.next
    BY <2>1, <2>a, <2>b DEF Batch
  <2>d. ~cue.blocked /\ tag.phase \in {"preparing", "armed"} => cue'.spans <= recLocal'.next + 1
    BY <2>1, <2>a, <2>b, <2>c
  <2>2. ControlTypes'
    BY <2>1, <2>a, <2>b, <2>c, <2>d
  <2>3. AudioTypes'
    BY <2>1, <2>a, <2>b, <2>c, <2>d
  <2>4. Held'
    BY <2>1, <2>a, <2>b, <2>c, <2>d DEF Held, Serials, Stages, Stations
  <2>5. Serials'
    BY <2>1, <2>a, <2>b, <2>c, <2>d DEF Serials, Scheduled!Terminal, Held, Stages, Stations, Mine
  <2>6. Stages'
    BY <2>1, <2>a, <2>b, <2>c, <2>d DEF Stages, Mine, Serials, Stations, Scheduled!Terminal, Counting
  <2>7. Stations'
    BY <2>1, <2>a, <2>b, <2>c, <2>d DEF Stations, Serials, Stages, Mine, Scheduled!Terminal, Batch
  <2>8. Counting'
    BY RecordNumbers, <2>1, <2>a, <2>b, <2>c, <2>d DEF Counting, Reached, Serials, Stages, Stations, Mine,
        Scheduled!Terminal, Batch
  <2>9. Batch'
    BY <2>1, <2>a, <2>b, <2>c, <2>d DEF Batch
  <2>10. Unused'
    BY <2>1, <2>a, <2>b, <2>c, <2>d DEF Unused, Stages, Stations, Serials, Mine
  <2> QED
    BY <2>2, <2>3, <2>4, <2>5, <2>6, <2>7, <2>8, <2>9, <2>10
<1>2. CASE ~(recLocal.carry > 0 /\ recAudio.first /\ Scheduled!Commits(recAudio.seen.phase))
  <2>1. /\ recAudio' = [recAudio EXCEPT !.pc = "mark"]
        /\ UNCHANGED <<tag, cell, payload, last, recSlots, cur, pins, borrows, recLocal, cutoff, settled, cue, tail, won>>
        /\ recAudio.pc = "carry"
    BY <1>2 DEF Scheduled!Carry, Scheduled!Commits, Scheduled!controlOwn, Scheduled!At, Scheduled!Go, Scheduled!Tag
  <2>a. /\ recAudio' \in RenderType
        /\ recAudio'.first = recAudio.first
        /\ recAudio'.seen = recAudio.seen
        /\ recAudio'.pc = "mark"
    BY <2>1
  <2>b. recLocal.next \in Nat /\ cue.spans \in Nat /\ UNCHANGED <<recLocal, cue>>
    BY <2>1, <2>a
  <2>c. ~cue.blocked /\ tag.phase \in {"preparing", "armed"} => cue.spans <= recLocal.next \/ cue.spans <= recLocal.next + 1
    BY <2>1, <2>a, <2>b DEF Batch
  <2>d. ~cue.blocked /\ tag.phase \in {"preparing", "armed"} => cue.spans <= recLocal.next + 1
    BY <2>1, <2>a, <2>b, <2>c
  <2>e. ~cue.blocked /\ tag.phase \in {"preparing", "armed"} => cue'.spans <= recLocal'.next + 1
    BY <2>1, <2>a, <2>b, <2>c, <2>d
  <2>2. ControlTypes'
    BY <2>1, <2>a, <2>b, <2>c, <2>d, <2>e
  <2>3. AudioTypes'
    BY <2>1, <2>a, <2>b, <2>c, <2>d, <2>e
  <2>4. Held'
    BY <2>1, <2>a, <2>b, <2>c, <2>d, <2>e DEF Held, Serials, Stages, Stations
  <2>5. Serials'
    BY <2>1, <2>a, <2>b, <2>c, <2>d, <2>e DEF Serials, Scheduled!Terminal, Held, Stages, Stations, Mine
  <2>6. Stages'
    BY <2>1, <2>a, <2>b, <2>c, <2>d, <2>e DEF Stages, Mine, Serials, Stations, Scheduled!Terminal, Counting
  <2>7. Stations'
    BY <2>1, <2>a, <2>b, <2>c, <2>d, <2>e DEF Stations, Serials, Stages, Mine, Scheduled!Terminal, Batch
  <2>8. Counting'
    BY RecordNumbers, <2>1, <2>a, <2>b, <2>c, <2>d, <2>e DEF Counting, Reached, Serials, Stages, Stations, Mine,
        Scheduled!Terminal, Batch
  <2>9. Batch'
    BY <2>1, <2>a, <2>b, <2>c, <2>d, <2>e DEF Batch
  <2>10. Unused'
    BY <2>1, <2>a, <2>b, <2>c, <2>d, <2>e DEF Unused, Stages, Stations, Serials, Mine
  <2> QED
    BY <2>2, <2>3, <2>4, <2>5, <2>6, <2>7, <2>8, <2>9, <2>10
<1> QED
  BY <1>1, <1>2

LEMMA MarkKept ==
  ASSUME Scheduled!ScheduledAssumption, RecordIInv, Scheduled!Mark
  PROVE  RecordIInv'
PROOF
<1> USE DEF ControlTypes, AudioTypes, TagType, CellType, LocalType, CueType, PcType, RenderType, Phases, RecordIInv
<1> DEFINE sounds == /\ recAudio.seen.phase = "armed" /\ recLocal.next < Len(Markers)
                     /\ CountIn - recLocal.togo = Markers[recLocal.next + 1] /\ Scheduled!Commits("armed")
           starts == recAudio.seen.phase = "armed" /\ recLocal.togo = 0
<1>1. /\ recAudio.pc = "mark"
      /\ IF sounds THEN /\ cue' = [cue EXCEPT !.spans = cue.spans + 1]
                        /\ recLocal' = [recLocal EXCEPT !.next = recLocal.next + 1, !.carry = Envelope]
         ELSE cue' = cue /\ recLocal' = recLocal
      /\ recAudio' = IF starts THEN [recAudio EXCEPT !.pc = "start"] ELSE [recAudio EXCEPT !.pc = "mix", !.seen = Scheduled!NoTag]
      /\ UNCHANGED <<tag, cell, payload, last, recSlots, cur, pins, borrows, cutoff, settled, tail, won>>
  BY DEF Scheduled!Mark, Scheduled!NextFrame, Scheduled!Go, Scheduled!At, Scheduled!controlOwn
<1>2. /\ recAudio' \in RenderType /\ recAudio'.first = recAudio.first /\ recAudio'.pc = IF starts THEN "start" ELSE "mix"
  <2>1. CASE starts
    BY <1>1, <2>1
  <2>2. CASE ~starts
    BY <1>1, <2>2 DEF Scheduled!NoTag
  <2> QED
    BY <2>1, <2>2
<1>3. /\ cue' \in CueType /\ cue'.pending = cue.pending /\ cue'.blocked = cue.blocked
      /\ cue'.spans = IF sounds THEN cue.spans + 1 ELSE cue.spans
  <2>1. CASE sounds
    BY <1>1, <2>1, CueAdds
  <2>2. CASE ~sounds
    BY <1>1, <2>2
  <2> QED
    BY <2>1, <2>2
<1>4. /\ recLocal' \in LocalType
      /\ recLocal'.serial = recLocal.serial
      /\ recLocal'.slot = recLocal.slot
      /\ recLocal'.borrowed = recLocal.borrowed
      /\ recLocal'.started = recLocal.started /\ recLocal'.timed = recLocal.timed /\ recLocal'.togo = recLocal.togo
      /\ recLocal'.next = IF sounds THEN recLocal.next + 1 ELSE recLocal.next
  <2>1. CASE sounds
    <3>1. recLocal.next + 1 \in Nat /\ Envelope \in Nat
      BY RecordNumbers
    <3>2. recLocal' = [recLocal EXCEPT !.next = recLocal.next + 1, !.carry = Envelope]
      BY <1>1, <2>1
    <3> QED
      BY <2>1, <3>1, <3>2, LocalCounts
  <2>2. CASE ~sounds
    BY <1>1, <2>2
  <2> QED
    BY <2>1, <2>2
<1>5. tag.phase = "armed" => /\ recAudio.seen.phase = "armed" /\ ~cue.blocked /\ recLocal.borrowed /\ ~recLocal.started
                             /\ tag = Scheduled!Tag(recLocal.serial, "armed") /\ cue.spans <= recLocal.next + 1
  BY <1>1, TagFacts DEF Stations, Stages, Mine, Serials, Batch
<1>6. tag.phase = "armed" =>
        (sounds <=> recLocal.next < Len(Markers) /\ CountIn - recLocal.togo = Markers[recLocal.next + 1])
  BY <1>5 DEF Scheduled!Commits
<1>7. sounds => tag.phase = "armed"
  BY DEF Scheduled!Commits, Scheduled!Tag
<1> HIDE DEF sounds, starts
<1>8. ControlTypes'
  BY <1>1
<1>9. AudioTypes'
  BY <1>1, <1>2, <1>3, <1>4
<1>10. Held'
  BY <1>1, <1>4 DEF Held
<1>11. Serials'
  BY <1>1, <1>4 DEF Serials
<1>12. Stages'
  BY <1>1, <1>2, <1>4, <1>5, <1>7 DEF Stages, Mine, Stations
<1>13. Stations'
  BY <1>1, <1>2, <1>4 DEF Stations, Stages, Mine, Serials
<1>14. Counting'
  <2>1. CASE tag.phase = "armed"
    <3>1. Reached = CountIn - recLocal.togo /\ Reached' = CountIn - recLocal.togo + 1
      <4>1. /\ recAudio.pc = "mark"
            /\ recAudio'.pc \in {"start", "mix"}
            /\ recLocal'.togo = recLocal.togo
            /\ recLocal.togo \in Int
        BY <1>1, <1>2, <1>4
      <4> QED
        BY ONLY <4>1, Scheduled!ScheduledAssumption, RecordNumbers DEF Reached
    <3>2. \A i \in 1 .. Len(Markers) : i <= recLocal.next <=> Markers[i] < CountIn - recLocal.togo
      BY <2>1, <3>1 DEF Counting
    <3>3. recLocal.next \in Nat /\ recLocal.next <= Len(Markers) /\ recLocal.togo \in Int
      BY RecordNumbers DEF Counting
    <3>4. recLocal'.next = IF recLocal.next < Len(Markers) /\ CountIn - recLocal.togo = Markers[recLocal.next + 1]
                           THEN recLocal.next + 1 ELSE recLocal.next
      BY <1>4, <1>6, <2>1
    <3>5. /\ recLocal'.next \in 0 .. Len(Markers)
          /\ \A i \in 1 .. Len(Markers) : i <= recLocal'.next <=> Markers[i] < CountIn - recLocal.togo + 1
      <4> DEFINE k == CountIn - recLocal.togo
                 n == recLocal.next
                 m == recLocal'.next
      <4>1. k \in Int /\ n \in 0 .. Len(Markers)
        BY <3>3, RecordNumbers
      <4>2. /\ \A i \in 1 .. Len(Markers) : i <= n <=> Markers[i] < k
            /\ m = IF n < Len(Markers) /\ k = Markers[n + 1] THEN n + 1 ELSE n
        BY <3>2, <3>4
      <4> HIDE DEF k, n, m
      <4>3. m \in 0 .. Len(Markers) /\ \A i \in 1 .. Len(Markers) : i <= m <=> Markers[i] < k + 1
        BY <4>1, <4>2, MarkerPassed
      <4> QED
        BY ONLY <4>3, SMTT(30) DEF k, m
    <3>6. recLocal'.togo \in (IF recAudio'.pc = "mix" THEN 1 ELSE 0) .. CountIn /\ (recAudio'.pc = "start" => recLocal'.togo = 0)
      <4>1. recLocal.togo \in 0 .. CountIn
        BY <1>1, <2>1 DEF Counting
      <4> QED
        BY <1>2, <1>4, <1>5, <2>1, <4>1, RecordNumbers DEF starts
    <3> QED
      BY <1>1, <1>2, <1>4, <1>5, <2>1, <3>1, <3>5, <3>6 DEF Counting
  <2>2. CASE tag.phase # "armed"
    BY <1>1, <1>2, <1>4, <1>7, <2>2 DEF Counting
  <2> QED
    BY <2>1, <2>2
<1>15. Batch'
  <2>1. CASE tag.phase = "armed"
    <3>1. cue'.spans <= recLocal'.next + 1
      BY <1>3, <1>4, <1>5, <2>1
    <3> QED
      BY <1>1, <1>2, <2>1, <3>1 DEF Batch
  <2>2. CASE tag.phase # "armed"
    BY <1>1, <1>2, <1>3, <1>4, <1>7, <2>2 DEF Batch, Stations
  <2> QED
    BY <2>1, <2>2
<1>16. Unused'
  BY <1>1, <1>2, <1>3, <1>4 DEF Unused, Stations
<1> QED
  BY <1>8, <1>9, <1>10, <1>11, <1>12, <1>13, <1>14, <1>15, <1>16

LEMMA StartKept ==
  ASSUME Scheduled!ScheduledAssumption, RecordIInv, Scheduled!Start
  PROVE  RecordIInv'
PROOF
<1> USE DEF ControlTypes, AudioTypes, TagType, CellType, LocalType, CueType, PcType, RenderType, Phases, RecordIInv
<1>1. CASE Scheduled!Starts
  <2>1. /\ tag' = [serial |-> recLocal.serial, phase |-> "starting"]
        /\ recAudio' = [recAudio EXCEPT !.pc = "applied"]
        /\ UNCHANGED <<cell, payload, last, recSlots, cur, pins, borrows, recLocal, cutoff, settled, cue, tail, won>>
        /\ recAudio.pc = "start"
        /\ tag = Scheduled!Tag(recLocal.serial, "armed")
    BY <1>1 DEF Scheduled!Start, Scheduled!Starts, Scheduled!NextFrame, Scheduled!NoTag, Scheduled!controlOwn,
        Scheduled!At, Scheduled!Go, Scheduled!Tag
  <2>a. tag.serial = recLocal.serial /\ tag.phase = "armed"
    BY <2>1 DEF Scheduled!Tag
  <2>b. CountIn + 1 \in Int /\ CountIn + 1 >= CountIn
    BY RecordNumbers
  <2>c. Reached = CountIn + 1 /\ recLocal.next \in 0 .. Len(Markers)
    BY <2>1, <2>a, RecordNumbers DEF Reached, Counting
  <2>d. \A i \in 1 .. Len(Markers) : i <= recLocal.next <=> Markers[i] < CountIn + 1
    BY <2>1, <2>a, <2>b, <2>c DEF Counting
  <2>e. recLocal.next = Len(Markers)
    BY <2>1, <2>a, <2>b, <2>c, <2>d, AllPassed
  <2>2. ControlTypes'
    BY <2>1, <2>a, <2>b, <2>c, <2>d, <2>e
  <2>3. AudioTypes'
    BY <2>1, <2>a, <2>b, <2>c, <2>d, <2>e DEF Scheduled!NoTag
  <2>4. Held'
    BY <2>1, <2>a, <2>b, <2>c, <2>d, <2>e DEF Held, Serials, Stages, Stations
  <2>5. Serials'
    BY <2>1, <2>a, <2>b, <2>c, <2>d, <2>e DEF Serials, Scheduled!Terminal, Held, Stages, Stations, Mine,
        Scheduled!Tag
  <2>6. Stages'
    BY <2>1, <2>a, <2>b, <2>c, <2>d, <2>e DEF Stages, Mine, Serials, Stations, Scheduled!Terminal, Counting,
        Scheduled!Tag
  <2>7. Stations'
    BY <2>1, <2>a, <2>b, <2>c, <2>d, <2>e DEF Stations, Serials, Stages, Mine, Scheduled!Terminal, Batch,
        Scheduled!Tag
  <2>8. Counting'
    BY RecordNumbers, <2>1, <2>a, <2>b, <2>c, <2>d, <2>e DEF Counting, Reached, Serials, Stages, Stations, Mine,
        Scheduled!Terminal, Batch
  <2>9. Batch'
    BY <2>1, <2>a, <2>b, <2>c, <2>d, <2>e DEF Batch, Serials, Stages, Mine, Stations, Counting, Scheduled!Terminal,
        Reached
  <2>10. Unused'
    BY <2>1, <2>a, <2>b, <2>c, <2>d, <2>e DEF Unused, Stages, Stations, Serials, Mine
  <2> QED
    BY <2>2, <2>3, <2>4, <2>5, <2>6, <2>7, <2>8, <2>9, <2>10
<1>2. CASE ~Scheduled!Starts
  <2>1. /\ recAudio' = [recAudio EXCEPT !.pc = "mix", !.seen = Scheduled!NoTag]
        /\ UNCHANGED <<tag, cell, payload, last, recSlots, cur, pins, borrows, recLocal, cutoff, settled, cue, tail, won>>
        /\ recAudio.pc = "start"
        /\ tag # Scheduled!Tag(recLocal.serial, "armed")
    BY <1>2 DEF Scheduled!Start, Scheduled!Starts, Scheduled!NextFrame, Scheduled!NoTag, Scheduled!controlOwn,
        Scheduled!At, Scheduled!Go, Scheduled!Tag
  <2>a. tag.serial # recLocal.serial \/ tag.phase # "armed"
    BY <2>1, TagFacts
  <2>b. tag.phase # "armed"
    BY <2>1, <2>a DEF Stages, Mine, Serials
  <2>2. ControlTypes'
    BY <2>1, <2>a, <2>b
  <2>3. AudioTypes'
    BY <2>1, <2>a, <2>b DEF Scheduled!NoTag
  <2>4. Held'
    BY <2>1, <2>a, <2>b DEF Held, Serials, Stages, Stations
  <2>5. Serials'
    BY <2>1, <2>a, <2>b DEF Serials, Scheduled!Terminal, Held, Stages, Stations, Mine, Scheduled!Tag
  <2>6. Stages'
    BY <2>1, <2>a, <2>b DEF Stages, Mine, Serials, Stations, Scheduled!Terminal, Counting, Scheduled!Tag
  <2>7. Stations'
    BY <2>1, <2>a, <2>b DEF Stations, Serials, Stages, Mine, Scheduled!Terminal, Batch, Scheduled!Tag
  <2>8. Counting'
    BY RecordNumbers, <2>1, <2>a, <2>b DEF Counting, Reached, Serials, Stages, Stations, Mine, Scheduled!Terminal,
        Batch
  <2>9. Batch'
    BY <2>1, <2>a, <2>b DEF Batch, Serials, Stages, Mine, Stations, Counting, Scheduled!Terminal, Reached
  <2>10. Unused'
    BY <2>1, <2>a, <2>b DEF Unused, Stages, Stations, Serials, Mine
  <2> QED
    BY <2>2, <2>3, <2>4, <2>5, <2>6, <2>7, <2>8, <2>9, <2>10
<1> QED
  BY <1>1, <1>2

LEMMA AppliedKept ==
  ASSUME Scheduled!ScheduledAssumption, RecordIInv, Scheduled!Applied
  PROVE  RecordIInv'
PROOF
<1> USE DEF ControlTypes, AudioTypes, TagType, CellType, LocalType, CueType, PcType, RenderType, Phases, RecordIInv
<1>1. /\ tag' = [serial |-> recLocal.serial, phase |-> "applied"]
      /\ recLocal' = [recLocal EXCEPT !.started = TRUE]
      /\ recAudio' = [recAudio EXCEPT !.pc = "downbeat"]
      /\ UNCHANGED <<cell, payload, last, recSlots, cur, pins, borrows, cutoff, settled, cue, tail, won>>
      /\ recAudio.pc = "applied"
  BY DEF Scheduled!Applied, Scheduled!controlOwn, Scheduled!At, Scheduled!Go, Scheduled!Tag
<1>a. tag.serial = recLocal.serial /\ tag.phase = "starting"
  BY <1>1 DEF Stations, Scheduled!Tag
<1>2. ControlTypes'
  BY <1>1, <1>a
<1>3. AudioTypes'
  BY <1>1, <1>a
<1>4. Held'
  BY <1>1, <1>a DEF Held, Serials, Stages, Stations
<1>5. Serials'
  BY <1>1, <1>a DEF Serials, Scheduled!Terminal, Held, Stages, Stations, Mine, Scheduled!Tag
<1>6. Stages'
  BY <1>1, <1>a DEF Stages, Mine, Serials, Stations, Scheduled!Terminal, Counting, Scheduled!Tag
<1>7. Stations'
  BY <1>1, <1>a DEF Stations, Serials, Stages, Mine, Scheduled!Terminal, Batch, Scheduled!Tag
<1>8. Counting'
  BY RecordNumbers, <1>1, <1>a DEF Counting, Reached, Serials, Stages, Stations, Mine, Scheduled!Terminal, Batch
<1>9. Batch'
  BY <1>1, <1>a DEF Batch, Serials, Stages, Mine, Stations, Counting, Scheduled!Terminal, Reached
<1>10. Unused'
  BY <1>1, <1>a DEF Unused, Stages, Stations, Serials, Mine
<1> QED
  BY <1>2, <1>3, <1>4, <1>5, <1>6, <1>7, <1>8, <1>9, <1>10

LEMMA DownbeatKept ==
  ASSUME Scheduled!ScheduledAssumption, RecordIInv, NEW m \in BOOLEAN, Scheduled!Downbeat(m)
  PROVE  RecordIInv'
PROOF
<1> USE DEF ControlTypes, AudioTypes, TagType, CellType, LocalType, CueType, PcType, RenderType, Phases, RecordIInv
<1>1. CASE m /\ Scheduled!Commits("applied")
  <2>1. /\ cue' = [cue EXCEPT !.spans = cue.spans + 1]
        /\ recLocal' = [recLocal EXCEPT !.carry = Envelope]
        /\ recAudio' = [recAudio EXCEPT !.pc = "mix", !.seen = Scheduled!NoTag]
        /\ UNCHANGED <<tag, cell, payload, last, recSlots, cur, pins, borrows, cutoff, settled, tail, won>>
        /\ recAudio.pc = "downbeat"
    BY <1>1 DEF Scheduled!Downbeat, Scheduled!Commits, Scheduled!NextFrame, Scheduled!NoTag, Scheduled!controlOwn,
        Scheduled!At, Scheduled!Go, Scheduled!Tag
  <2>a. tag.phase \notin {"preparing", "armed"}
    BY <2>1 DEF Stations, Stages, Mine, Serials
  <2>b. recAudio' \in RenderType
    BY <2>1, <2>a DEF Scheduled!NoTag
  <2>c. cue' \in CueType /\ cue'.pending = cue.pending /\ cue'.blocked = cue.blocked
    BY <2>1, <2>a, <2>b, CueAdds
  <2>2. ControlTypes'
    BY <2>1, <2>a, <2>b, <2>c
  <2>3. AudioTypes'
    BY RecordNumbers, <2>1, <2>a, <2>b, <2>c DEF Scheduled!NoTag
  <2>4. Held'
    BY <2>1, <2>a, <2>b, <2>c DEF Held, Serials, Stages, Stations
  <2>5. Serials'
    BY <2>1, <2>a, <2>b, <2>c DEF Serials, Scheduled!Terminal, Held, Stages, Stations, Mine
  <2>6. Stages'
    BY <2>1, <2>a, <2>b, <2>c DEF Stages, Mine, Serials, Stations, Scheduled!Terminal, Counting
  <2>7. Stations'
    BY <2>1, <2>a, <2>b, <2>c DEF Stations, Serials, Stages, Mine, Scheduled!Terminal, Batch
  <2>8. Counting'
    BY RecordNumbers, <2>1, <2>a, <2>b, <2>c DEF Counting, Reached, Serials, Stages, Stations, Mine,
        Scheduled!Terminal, Batch
  <2>9. Batch'
    BY <2>1, <2>a, <2>b, <2>c DEF Batch, Serials, Stages, Mine, Stations, Counting, Scheduled!Terminal, Reached
  <2>10. Unused'
    BY <2>1, <2>a, <2>b, <2>c DEF Unused, Stages, Stations, Serials, Mine
  <2> QED
    BY <2>2, <2>3, <2>4, <2>5, <2>6, <2>7, <2>8, <2>9, <2>10
<1>2. CASE ~(m /\ Scheduled!Commits("applied"))
  <2>1. /\ recAudio' = [recAudio EXCEPT !.pc = "mix", !.seen = Scheduled!NoTag]
        /\ UNCHANGED <<tag, cell, payload, last, recSlots, cur, pins, borrows, recLocal, cutoff, settled, cue, tail, won>>
        /\ recAudio.pc = "downbeat"
    BY <1>2 DEF Scheduled!Downbeat, Scheduled!Commits, Scheduled!NextFrame, Scheduled!NoTag, Scheduled!controlOwn,
        Scheduled!At, Scheduled!Go, Scheduled!Tag
  <2>a. tag.phase \notin {"preparing", "armed"}
    BY <2>1 DEF Stations, Stages, Mine, Serials
  <2>b. recAudio' \in RenderType
    BY <2>1, <2>a DEF Scheduled!NoTag
  <2>2. ControlTypes'
    BY <2>1, <2>a, <2>b
  <2>3. AudioTypes'
    BY <2>1, <2>a, <2>b DEF Scheduled!NoTag
  <2>4. Held'
    BY <2>1, <2>a, <2>b DEF Held, Serials, Stages, Stations
  <2>5. Serials'
    BY <2>1, <2>a, <2>b DEF Serials, Scheduled!Terminal, Held, Stages, Stations, Mine
  <2>6. Stages'
    BY <2>1, <2>a, <2>b DEF Stages, Mine, Serials, Stations, Scheduled!Terminal, Counting
  <2>7. Stations'
    BY <2>1, <2>a, <2>b DEF Stations, Serials, Stages, Mine, Scheduled!Terminal, Batch
  <2>8. Counting'
    BY RecordNumbers, <2>1, <2>a, <2>b DEF Counting, Reached, Serials, Stages, Stations, Mine, Scheduled!Terminal,
        Batch
  <2>9. Batch'
    BY <2>1, <2>a, <2>b DEF Batch, Serials, Stages, Mine, Stations, Counting, Scheduled!Terminal, Reached
  <2>10. Unused'
    BY <2>1, <2>a, <2>b DEF Unused, Stages, Stations, Serials, Mine
  <2> QED
    BY <2>2, <2>3, <2>4, <2>5, <2>6, <2>7, <2>8, <2>9, <2>10
<1> QED
  BY <1>1, <1>2

LEMMA MixKept ==
  ASSUME Scheduled!ScheduledAssumption, RecordIInv, NEW v \in BOOLEAN, Scheduled!Mix(v)
  PROVE  RecordIInv'
PROOF
<1> USE DEF ControlTypes, AudioTypes, TagType, CellType, LocalType, CueType, PcType, RenderType, Phases, RecordIInv
<1> DEFINE n == IF recLocal.timed /\ recLocal.togo >= 0 THEN recLocal.togo - 1 ELSE recLocal.togo
           k == IF recLocal.carry > 0 THEN recLocal.carry - 1 ELSE 0
           l == recAudio.left - 1
<1>1. /\ recAudio.pc = "mix" /\ recAudio' = [recAudio EXCEPT !.pc = "frame", !.left = l, !.first = FALSE]
      /\ recLocal' = [recLocal EXCEPT !.togo = n, !.carry = k] /\ tail' \in BOOLEAN
      /\ (tail' => playing \/ tail)
      /\ UNCHANGED <<tag, cell, payload, last, recSlots, cur, pins, borrows, cutoff, settled, cue, won>>
  BY DEF Scheduled!Mix, Scheduled!At, Scheduled!controlOwn
<1>2. n \in Int /\ k \in Nat /\ l \in Int /\ (recLocal.timed /\ recLocal.togo >= 1 => n = recLocal.togo - 1)
  OBVIOUS
<1> HIDE DEF n, k, l
<1>3. recAudio' \in RenderType /\ recAudio'.pc = "frame" /\ ~recAudio'.first /\ recAudio'.seen = recAudio.seen
  BY <1>1, <1>2, FrameEnds
<1>4. /\ recLocal' \in LocalType
      /\ recLocal'.togo = n
      /\ recLocal'.serial = recLocal.serial
      /\ recLocal'.slot = recLocal.slot
      /\ recLocal'.borrowed = recLocal.borrowed
      /\ recLocal'.started = recLocal.started
      /\ recLocal'.timed = recLocal.timed
      /\ recLocal'.next = recLocal.next
  BY <1>1, <1>2, LocalTicks
<1>5. ControlTypes'
  BY <1>1
<1>6. AudioTypes'
  BY <1>1, <1>3, <1>4
<1>7. Held'
  BY <1>1, <1>4 DEF Held
<1>8. Serials'
  BY <1>1, <1>4 DEF Serials
<1>9. Stages'
  BY <1>1, <1>3, <1>4 DEF Stages, Mine
<1>10. Stations'
  BY <1>1, <1>3, <1>4 DEF Stations
<1>11. Counting'
  <2>1. tag.phase = "armed" => recLocal.timed /\ recLocal.togo \in 1 .. CountIn /\ Reached = CountIn - recLocal.togo + 1
    BY <1>1, RecordNumbers DEF Counting, Reached, Stages
  <2>2. tag.phase = "armed" => recLocal'.togo = recLocal.togo - 1 /\ Reached' = Reached
    BY ONLY <1>1, <1>2, <1>3, <1>4, <2>1, Scheduled!ScheduledAssumption, RecordNumbers DEF Reached
  <2> QED
    <3>1. CASE tag.phase = "armed"
      <4>1. recLocal'.togo \in 0 .. CountIn /\ Reached' = Reached /\ recLocal'.next = recLocal.next
        BY ONLY <1>4, <2>1, <2>2, <3>1, Scheduled!ScheduledAssumption, RecordNumbers
      <4> QED
        BY <1>1, <1>3, <1>4, <3>1, <4>1 DEF Counting
    <3>2. CASE tag.phase # "armed"
      BY <1>1, <1>3, <1>4, <3>2 DEF Counting
    <3> QED
      BY <3>1, <3>2
<1>12. Batch'
  BY <1>1, <1>3, <1>4 DEF Batch
<1>13. Unused'
  BY <1>1, <1>3, <1>4 DEF Unused
<1> QED
  BY <1>5, <1>6, <1>7, <1>8, <1>9, <1>10, <1>11, <1>12, <1>13

LEMMA FinishKept ==
  ASSUME Scheduled!ScheduledAssumption, RecordIInv, Scheduled!Finish
  PROVE  RecordIInv'
PROOF
<1> USE NobodyFacts DEF Scheduled!Finish, Scheduled!DropsBorrow, Scheduled!Released, Scheduled!controlOwn,
        Scheduled!At, Scheduled!Go, ControlTypes, AudioTypes, TagType, CellType, LocalType, CueType, PcType,
        RenderType, Phases, RecordIInv
<1>1. ControlTypes'
  OBVIOUS
<1>2. AudioTypes'
  <2>1. recLocal' \in LocalType
    OBVIOUS
  <2>2. cutoff' \in Nat /\ settled' \in Nat
    OBVIOUS
  <2>3. cue' \in CueType
    OBVIOUS
  <2>4. recAudio' \in RenderType
    OBVIOUS
  <2> QED
    BY <2>1, <2>2, <2>3, <2>4
<1>3. Held'
  <2>1. CASE /\ recLocal.borrowed
             /\ Scheduled!DropsBorrow(IF tag.phase = "cancel_preparing" THEN "cancelled" ELSE tag.phase)
    BY <2>1 DEF Held, Serials, Stages, Stations
  <2>2. CASE /\ recLocal.borrowed
             /\ ~Scheduled!DropsBorrow(IF tag.phase = "cancel_preparing" THEN "cancelled" ELSE tag.phase)
    BY <2>2 DEF Held, Serials, Stages, Stations
  <2>3. CASE ~recLocal.borrowed
    BY <2>3 DEF Held, Serials, Stages, Stations
  <2> QED
    BY <2>1, <2>2, <2>3
<1>4. Serials'
  BY DEF Serials, Scheduled!Terminal, Held, Stages, Stations, Mine
<1>5. Stages'
  BY DEF Stages, Mine, Serials, Stations, Scheduled!Terminal, Counting
<1>6. Stations'
  BY DEF Stations, Serials, Stages, Mine, Scheduled!Terminal, Batch
<1>7. Counting'
  BY RecordNumbers, SMTT(30) DEF Counting, Reached, Serials, Stages, Stations, Mine, Scheduled!Terminal, Batch
<1>8. Batch'
  BY DEF Batch, Serials, Stages, Mine, Stations, Counting, Scheduled!Terminal, Reached
<1>9. Unused'
  BY DEF Unused, Stages, Stations, Serials, Mine
<1> QED
  BY <1>1, <1>2, <1>3, <1>4, <1>5, <1>6, <1>7, <1>8, <1>9

LEMMA SettleKept ==
  ASSUME Scheduled!ScheduledAssumption, RecordIInv, Scheduled!Settle
  PROVE  RecordIInv'
PROOF
<1> USE DEF Scheduled!Settle, Scheduled!Settles, Scheduled!NoTag, Scheduled!controlOwn, Scheduled!At, Scheduled!Go,
        ControlTypes, AudioTypes, TagType, CellType, LocalType, CueType, PcType, RenderType, Phases, RecordIInv
<1>1. ControlTypes'
  OBVIOUS
<1>2. AudioTypes'
  OBVIOUS
<1>3. Held'
  BY DEF Held, Serials, Stages, Stations
<1>4. Serials'
  BY DEF Serials, Scheduled!Terminal, Held, Stages, Stations, Mine
<1>5. Stages'
  BY DEF Stages, Mine, Serials, Stations, Scheduled!Terminal, Counting
<1>6. Stations'
  BY DEF Stations, Serials, Stages, Mine, Scheduled!Terminal, Batch
<1>7. Counting'
  BY RecordNumbers DEF Counting, Reached, Serials, Stages, Stations, Mine, Scheduled!Terminal, Batch
<1>8. Batch'
  BY DEF Batch, Serials, Stages, Mine, Stations, Counting, Scheduled!Terminal, Reached
<1>9. Unused'
  BY DEF Unused, Stages, Stations, Serials, Mine
<1> QED
  BY <1>1, <1>2, <1>3, <1>4, <1>5, <1>6, <1>7, <1>8, <1>9

LEMMA SettledKept ==
  ASSUME Scheduled!ScheduledAssumption, RecordIInv, Scheduled!Settled
  PROVE  RecordIInv'
PROOF
<1> USE DEF Scheduled!Settled, Scheduled!NoTag, Scheduled!controlOwn, Scheduled!At, Scheduled!Go, ControlTypes,
        AudioTypes, TagType, CellType, LocalType, CueType, PcType, RenderType, Phases, RecordIInv
<1>1. ControlTypes'
  OBVIOUS
<1>2. AudioTypes'
  OBVIOUS
<1>3. Held'
  BY DEF Held, Serials, Stages, Stations
<1>4. Serials'
  BY DEF Serials, Scheduled!Terminal, Held, Stages, Stations, Mine
<1>5. Stages'
  BY DEF Stages, Mine, Serials, Stations, Scheduled!Terminal, Counting
<1>6. Stations'
  BY DEF Stations, Serials, Stages, Mine, Scheduled!Terminal, Batch
<1>7. Counting'
  BY RecordNumbers DEF Counting, Reached, Serials, Stages, Stations, Mine, Scheduled!Terminal, Batch
<1>8. Batch'
  BY DEF Batch, Serials, Stages, Mine, Stations, Counting, Scheduled!Terminal, Reached
<1>9. Unused'
  BY DEF Unused, Stages, Stations, Serials, Mine
<1> QED
  BY <1>1, <1>2, <1>3, <1>4, <1>5, <1>6, <1>7, <1>8, <1>9

LEMMA ConsumeCueKept ==
  ASSUME Scheduled!ScheduledAssumption, RecordIInv, Scheduled!ConsumeCue
  PROVE  RecordIInv'
PROOF
<1> USE DEF Scheduled!ConsumeCue, Scheduled!controlOwn, Scheduled!At, Scheduled!Go, ControlTypes, AudioTypes,
        TagType, CellType, LocalType, CueType, PcType, RenderType, Phases, RecordIInv
<1>1. ControlTypes'
  OBVIOUS
<1>2. AudioTypes'
  OBVIOUS
<1>3. Held'
  BY DEF Held, Serials, Stages, Stations
<1>4. Serials'
  BY DEF Serials, Scheduled!Terminal, Held, Stages, Stations, Mine
<1>5. Stages'
  BY DEF Stages, Mine, Serials, Stations, Scheduled!Terminal, Counting
<1>6. Stations'
  BY DEF Stations, Serials, Stages, Mine, Scheduled!Terminal, Batch
<1>7. Counting'
  BY RecordNumbers DEF Counting, Reached, Serials, Stages, Stations, Mine, Scheduled!Terminal, Batch
<1>8. Batch'
  BY DEF Batch, Serials, Stages, Mine, Stations, Counting, Scheduled!Terminal, Reached
<1>9. Unused'
  BY DEF Unused, Stages, Stations, Serials, Mine
<1> QED
  BY <1>1, <1>2, <1>3, <1>4, <1>5, <1>6, <1>7, <1>8, <1>9

LEMMA StopEngineKept ==
  ASSUME Scheduled!ScheduledAssumption, RecordIInv, Scheduled!StopEngine
  PROVE  RecordIInv'
PROOF
<1> USE NobodyFacts DEF Scheduled!StopEngine, Scheduled!Quiet, Scheduled!Released, Scheduled!At, Scheduled!Go,
        ControlTypes, AudioTypes, TagType, CellType, LocalType, CueType, PcType, RenderType, Phases, RecordIInv
<1>1. ControlTypes'
  OBVIOUS
<1>2. AudioTypes'
  <2>1. recLocal' \in LocalType
    OBVIOUS
  <2>2. cutoff' \in Nat /\ settled' \in Nat
    OBVIOUS
  <2>3. cue' \in CueType
    OBVIOUS
  <2>4. recAudio' \in RenderType
    OBVIOUS
  <2> QED
    BY <2>1, <2>2, <2>3, <2>4
<1>3. Held'
  <2>1. CASE recLocal.borrowed
    <3>1. /\ borrows = [s \in RecordSlots |-> IF recLocal.slot = s THEN 1 ELSE 0]
          /\ borrows' = [borrows EXCEPT ![recLocal.slot] = @ - 1]
      BY <2>1 DEF Held
    <3>4. borrows[recLocal.slot] - 1 = 0
      BY <3>1
    <3>5. recLocal.slot \in RecordSlots /\ recLocal' = Scheduled!Nobody
      BY <2>1
    <3>2. borrows' = [s \in RecordSlots |-> 0] /\ recLocal' = Scheduled!Nobody
      BY <3>1, <3>4, <3>5
    <3>3. cell'.serial = cell.serial /\ UNCHANGED <<payload, recSlots, cur, pins>>
      OBVIOUS
    <3> QED
      BY <3>2, <3>3 DEF Held
  <2>2. CASE ~recLocal.borrowed
    BY <2>2 DEF Held, Serials, Stages, Stations
  <2> QED
    BY <2>1, <2>2
<1>4. Serials'
  BY DEF Serials, Scheduled!Terminal, Held, Stages, Stations, Mine
<1>5. Stages'
  BY DEF Stages, Mine, Serials, Stations, Scheduled!Terminal, Counting
<1>6. Stations'
  BY DEF Stations, Serials, Stages, Mine, Scheduled!Terminal, Batch
<1>7. Counting'
  BY RecordNumbers, SMTT(30) DEF Counting, Reached, Serials, Stages, Stations, Mine, Scheduled!Terminal, Batch
<1>8. Batch'
  BY DEF Batch, Serials, Stages, Mine, Stations, Counting, Scheduled!Terminal, Reached
<1>9. Unused'
  BY DEF Unused, Stages, Stations, Serials, Mine
<1> QED
  BY <1>1, <1>2, <1>3, <1>4, <1>5, <1>6, <1>7, <1>8, <1>9

LEMMA InitRecord == ASSUME Scheduled!ScheduledAssumption PROVE Scheduled!Init => RecordIInv
PROOF
<1> SUFFICES ASSUME Scheduled!Init PROVE RecordIInv
  OBVIOUS
<1> USE RecordConstants, NobodyFacts DEF Scheduled!Init
<1>1. ControlTypes
  BY DEF ControlTypes, TagType, CellType, Phases, Scheduled!NoTag, Scheduled!NoCell
<1>2. AudioTypes
  BY DEF AudioTypes, CueType, RenderType, PcType, TagType, Phases, Scheduled!NoTag
<1>3. Held
  <2>1. pins = [s \in RecordSlots |-> 0] /\ borrows = [s \in RecordSlots |-> 0] /\ recSlots[cur] = "current"
    OBVIOUS
  <2>2. cell.serial = 0 /\ ~recLocal.borrowed
    BY DEF Scheduled!NoCell
  <2> QED
    BY <2>1, <2>2 DEF Held
<1>4. Serials
  BY DEF Serials, Scheduled!NoTag, Scheduled!NoCell
<1>5. Stages /\ Stations /\ Unused
  BY DEF Stages, Stations, Unused, Mine, Scheduled!NoTag
<1>6. Counting /\ Batch
  BY DEF Counting, Batch, Scheduled!NoTag
<1> QED
  BY <1>1, <1>2, <1>3, <1>4, <1>5, <1>6 DEF RecordIInv

LEMMA RecordStutter == ASSUME RecordIInv, UNCHANGED Scheduled!vars PROVE RecordIInv'
PROOF
<1> USE DEF Scheduled!vars, RecordIInv
<1>1. ControlTypes' /\ AudioTypes'
  BY DEF ControlTypes, AudioTypes
<1>2. Held' /\ Serials' /\ Stages' /\ Stations' /\ Unused'
  BY DEF Held, Serials, Stages, Stations, Unused, Mine
<1>3. Counting' /\ Batch'
  BY DEF Counting, Batch, Reached
<1> QED
  BY <1>1, <1>2, <1>3

LEMMA RecordStep == ASSUME Scheduled!ScheduledAssumption, RecordIInv, [Scheduled!Next]_(Scheduled!vars) PROVE RecordIInv'
PROOF
<1>1. CASE Scheduled!ControlStep
  <2>1. CASE Scheduled!Submit
    BY <2>1, SubmitKept
  <2>2. CASE Scheduled!Cancel
    BY <2>2, CancelKept
  <2>3. CASE \E a \in {"start", "stop", "fence"} : Scheduled!SubmitCommand(a)
    BY <2>3, SubmitCommandKept
  <2>4. CASE Scheduled!AcknowledgeCommand
    BY <2>4, AcknowledgeCommandKept
  <2>5. CASE Scheduled!AcknowledgeStart
    BY <2>5, AcknowledgeStartKept
  <2>6. CASE Scheduled!AcknowledgeCancel
    BY <2>6, AcknowledgeCancelKept
  <2>7. CASE Scheduled!Press
    BY <2>7, PressKept
  <2>8. CASE \E s \in RecordSlots : Scheduled!Replace(s)
    BY <2>8, ReplaceKept
  <2>9. CASE Scheduled!Reclaim
    BY <2>9, ReclaimKept
  <2> QED
    BY <1>1, <2>1, <2>2, <2>3, <2>4, <2>5, <2>6, <2>7, <2>8, <2>9 DEF Scheduled!ControlStep
<1>2. CASE Scheduled!AudioStep
  <2>1. CASE \E n \in Quanta : Scheduled!Callback(n)
    BY <2>1, CallbackKept
  <2>2. CASE Scheduled!Prepare
    BY <2>2, PrepareKept
  <2>3. CASE Scheduled!TakeSchedule
    BY <2>3, TakeScheduleKept
  <2>4. CASE Scheduled!Borrow
    BY <2>4, BorrowKept
  <2>5. CASE Scheduled!Transport
    BY <2>5, TransportKept
  <2>6. CASE Scheduled!Advance
    BY <2>6, AdvanceKept
  <2>7. CASE Scheduled!Refuse
    BY <2>7, RefuseKept
  <2>8. CASE Scheduled!SettleCancel
    BY <2>8, SettleCancelKept
  <2>9. CASE Scheduled!Arm
    BY <2>9, ArmKept
  <2>10. CASE Scheduled!Proceed
    BY <2>10, ProceedKept
  <2>11. CASE Scheduled!Nothing
    BY <2>11, NothingKept
  <2>12. CASE Scheduled!Carry
    BY <2>12, CarryKept
  <2>13. CASE Scheduled!Mark
    BY <2>13, MarkKept
  <2>14. CASE Scheduled!Start
    BY <2>14, StartKept
  <2>15. CASE Scheduled!Applied
    BY <2>15, AppliedKept
  <2>16. CASE \E m \in BOOLEAN : Scheduled!Downbeat(m)
    BY <2>16, DownbeatKept
  <2>17. CASE \E v \in BOOLEAN : Scheduled!Mix(v)
    BY <2>17, MixKept
  <2>18. CASE Scheduled!Finish
    BY <2>18, FinishKept
  <2>19. CASE Scheduled!Settle
    BY <2>19, SettleKept
  <2>20. CASE Scheduled!Settled
    BY <2>20, SettledKept
  <2> QED
    BY <1>2, <2>1, <2>2, <2>3, <2>4, <2>5, <2>6, <2>7, <2>8, <2>9, <2>10, <2>11, <2>12, <2>13, <2>14, <2>15, <2>16,
        <2>17, <2>18, <2>19, <2>20 DEF Scheduled!AudioStep
<1>3. CASE Scheduled!ConsumeCue
  BY <1>3, ConsumeCueKept
<1>4. CASE Scheduled!StopEngine
  BY <1>4, StopEngineKept
<1>5. CASE UNCHANGED Scheduled!vars
  BY <1>5, RecordStutter
<1> QED
  BY <1>1, <1>2, <1>3, <1>4, <1>5 DEF Scheduled!Next

(* A Pattern lent to a schedule stays until audio is done with it, nothing of  *)
(* a settled schedule is under way and a recording starts after its whole      *)
(* count-in: for any number of slots, schedules, frames and markers.           *)
THEOREM SchedulesSafe == ASSUME Scheduled!ScheduledAssumption PROVE Scheduled!Spec => []SchedulesOwned
PROOF
<1>1. Scheduled!Init => RecordIInv
  BY InitRecord
<1>2. RecordIInv /\ [Scheduled!Next]_(Scheduled!vars) => RecordIInv'
  BY RecordStep
<1>3. RecordIInv => SchedulesOwned
  <2> SUFFICES ASSUME RecordIInv PROVE SchedulesOwned
    OBVIOUS
  <2> USE DEF RecordIInv, ControlTypes, AudioTypes, TagType, LocalType
  <2>1. Scheduled!BorrowedAlive
    BY DEF Scheduled!BorrowedAlive, Held, Serials, Stations, Scheduled!At
  <2>2. Scheduled!SettledQuiet
    BY DEF Scheduled!SettledQuiet, Unused
  <2>3. tag = Scheduled!Tag(recLocal.serial, "armed") => recLocal.togo >= 0
    BY DEF Counting, Scheduled!Tag
  <2>4. Scheduled!StartsComplete
    BY <2>3 DEF Scheduled!StartsComplete, Counting
  <2> QED
    BY <2>1, <2>2, <2>4 DEF SchedulesOwned
<1> QED
  BY <1>1, <1>2, <1>3, PTL DEF Scheduled!Spec

(* Only the steps of a schedule under way add to the batch, and the swap out   *)
(* of armed alone starts one.                                                  *)
LEMMA SilentStep ==
  ASSUME Scheduled!ScheduledAssumption, RecordIInv, [Scheduled!Next]_(Scheduled!vars),
         started' # started \/ (cue'.spans > cue.spans /\ ~recLocal.started)
  PROVE  recLocal.serial \notin won
PROOF
<1> USE DEF RecordIInv, AudioTypes, CueType
<1>1. ASSUME NEW p \in {"armed", "applied", "starting"}, tag = Scheduled!Tag(recLocal.serial, p) PROVE recLocal.serial \notin won
  BY <1>1 DEF Serials, Scheduled!Tag
<1>2. CASE Scheduled!Applied
  BY <1>1, <1>2 DEF Scheduled!Applied, Scheduled!At, Stations
<1>3. CASE Scheduled!Carry
  BY <1>1, <1>3 DEF Scheduled!Carry, Scheduled!At, Scheduled!Commits, Stations
<1>4. CASE Scheduled!Mark
  BY <1>1, <1>4 DEF Scheduled!Mark, Scheduled!At, Scheduled!Commits
<1>5. CASE \E m \in BOOLEAN : Scheduled!Downbeat(m)
  BY <1>5 DEF Scheduled!Downbeat, Scheduled!At, Stations
<1>6. \/ started' = started /\ (cue' = cue \/ cue'.spans = cue.spans \/ cue'.spans = 0)
      \/ Scheduled!Applied
      \/ Scheduled!Carry
      \/ Scheduled!Mark
      \/ \E m \in BOOLEAN : Scheduled!Downbeat(m)
  <2>1. CASE Scheduled!ControlStep
    BY <2>1 DEF Scheduled!ControlStep, Scheduled!audioOwn, Scheduled!Submit, Scheduled!Cancel,
        Scheduled!SubmitCommand, Scheduled!AcknowledgeCommand, Scheduled!AcknowledgeStart,
        Scheduled!AcknowledgeCancel, Scheduled!Press, Scheduled!Replace, Scheduled!Reclaim
  <2>2. CASE \E n \in Quanta : Scheduled!Callback(n)
    BY <2>2 DEF Scheduled!Callback
  <2>3. CASE Scheduled!Finish \/ Scheduled!ConsumeCue
    BY <2>3 DEF Scheduled!Finish, Scheduled!ConsumeCue
  <2>4. CASE Scheduled!StopEngine \/ UNCHANGED Scheduled!vars
    BY <2>4 DEF Scheduled!StopEngine, Scheduled!vars
  <2>5. CASE \/ Scheduled!Prepare \/ Scheduled!TakeSchedule \/ Scheduled!Borrow \/ Scheduled!Transport
             \/ Scheduled!Advance \/ Scheduled!Refuse \/ Scheduled!SettleCancel \/ Scheduled!Arm
             \/ Scheduled!Proceed \/ Scheduled!Nothing \/ Scheduled!Start
             \/ (\E v \in BOOLEAN : Scheduled!Mix(v))
             \/ Scheduled!Settle \/ Scheduled!Settled
    BY <2>5 DEF Scheduled!Prepare, Scheduled!TakeSchedule, Scheduled!Borrow, Scheduled!Transport,
        Scheduled!Advance, Scheduled!Refuse, Scheduled!SettleCancel, Scheduled!Arm, Scheduled!Proceed,
        Scheduled!Nothing, Scheduled!Start, Scheduled!Mix, Scheduled!Settle, Scheduled!Settled
  <2> QED
    BY <2>1, <2>2, <2>3, <2>4, <2>5 DEF Scheduled!Next, Scheduled!AudioStep
<1> QED
  BY <1>2, <1>3, <1>4, <1>5, <1>6

(* A schedule whose cancellation was accepted never starts and adds no cue.    *)
THEOREM CancelledNeverStarts == ASSUME Scheduled!ScheduledAssumption PROVE Scheduled!Spec => CancelledSilent
PROOF
<1> DEFINE silent == started' # started \/ (cue'.spans > cue.spans /\ ~recLocal.started) => recLocal.serial \notin won
<1>1. Scheduled!Init => RecordIInv
  BY InitRecord
<1>2. RecordIInv /\ [Scheduled!Next]_(Scheduled!vars) => RecordIInv'
  BY RecordStep
<1>3. RecordIInv /\ [Scheduled!Next]_(Scheduled!vars) => [silent]_(Scheduled!vars)
  BY SilentStep
<1>4. CancelledSilent <=> [][silent]_(Scheduled!vars)
  BY DEF CancelledSilent, Scheduled!CancelledSilent
<1> QED
  BY <1>1, <1>2, <1>3, <1>4, PTL DEF Scheduled!Spec
===============================================================================
