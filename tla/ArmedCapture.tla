----------------------------- MODULE ArmedCapture -----------------------------
(* A Capture committed in the middle of a Sequence recording.  The session     *)
(* is begun with a Pad armed; the take recorded for that Pad is imported       *)
(* while the Sequence journal stays open, so three places move together: the   *)
(* Project, the journal, and the revision the running session expects.  The    *)
(* journal gets a durable marker before the Project is published               *)
(* (prepare_armed_capture) and a completion after it.  Any of the three writes *)
(* may fail, and a failed write may still be visible; the client retries or    *)
(* discards, and a crash leaves the journal to reconciliation.                 *)
EXTENDS Naturals, FiniteSets

CONSTANTS Nil,
          Takes,          \* captured bytes a client may offer
          VisibleWrites,  \* the failed writes that may be found written afterwards
          MaxFaults,      \* bound: failed writes and crashes
          MaxRevision     \* bound: Project commits

Writes == {"prepare", "publish", "complete", "abort"}
CaptureAssumption ==
  VisibleWrites \subseteq Writes /\ MaxFaults \in Nat /\ MaxRevision \in Nat

VARIABLES project,   \* [rev, pad]: head revision and the take on the armed Pad
          journal,   \* Nil or [armed, capture, rev]
          session,   \* Nil or [armed, expected]: the runtime's SequenceRuntime
          answered,  \* Nil or the take a client was told is saved
          faults
vars == <<project, journal, session, answered, faults>>

Init ==
  /\ project = [rev |-> 0, pad |-> Nil]
  /\ journal = Nil /\ session = Nil /\ answered = Nil /\ faults = 0

(* A write reports failure: absent, or nevertheless in the file.               *)
Fails(write, present) ==
  /\ faults < MaxFaults /\ faults' = faults + 1
  /\ present => write \in VisibleWrites

(* The Sequence is begun with an empty Pad armed.                              *)
Begin ==
  /\ session = Nil /\ journal = Nil /\ project.pad = Nil
  /\ journal' = [armed |-> TRUE, capture |-> Nil, rev |-> project.rev]
  /\ session' = [armed |-> TRUE, expected |-> project.rev]
  /\ UNCHANGED <<project, answered, faults>>
-------------------------------------------------------------------------------

(* The journal records.                                                        *)
Prepared(take) == [journal EXCEPT !.capture = [take |-> take, expected |-> session.expected]]
Completed(j, rev) == [j EXCEPT !.armed = FALSE, !.capture = Nil, !.rev = rev]
Aborted(j) == [j EXCEPT !.armed = FALSE, !.capture = Nil]

(* The Project receipt of the marker: committed, absent, or a conflict.        *)
Truth(capture) ==
  CASE project.pad = capture.take /\ project.rev = capture.expected + 1 -> "committed"
    [] project.pad = Nil /\ project.rev = capture.expected -> "absent"
    [] OTHER -> "conflict"

(* commit_sample_import() of an armed take, and admit_sequence_authoring().     *)
FacadeAdmits == session # Nil /\ session.armed
StoreAdmits == journal # Nil /\ journal.armed /\ journal.rev = session.expected

Resumes(take) ==
  /\ journal.capture # Nil
  /\ journal.capture.take = take /\ journal.capture.expected = session.expected
  /\ Truth(journal.capture) # "conflict"

(* The rest of the import once the marker is in j: publish unless the receipt  *)
(* is there, then complete, then the session's own revision.                   *)
Publishes(j, take) ==
  LET there == project.pad # Nil
      published == [rev |-> project.rev + 1, pad |-> take]
      after == IF there THEN project ELSE published
  IN  \/ /\ project' = after /\ journal' = Completed(j, after.rev)
         /\ session' = [armed |-> FALSE, expected |-> after.rev]
         /\ answered' = take /\ UNCHANGED faults
      \/ /\ ~there /\ \E present \in BOOLEAN : Fails("publish", present) /\ project' = IF present THEN after ELSE project
         /\ journal' = j /\ UNCHANGED <<session, answered>>
      \/ /\ \E present \in BOOLEAN : Fails("complete", present) /\ journal' = IF present THEN Completed(j, after.rev) ELSE j
         /\ project' = after /\ UNCHANGED <<session, answered>>

(* Mutant: the Project is published before the marker is durable.              *)
MarksLate(take) ==
  \/ Publishes(journal, take)
  \/ Fails("prepare", FALSE) /\ project' = [rev |-> project.rev + 1, pad |-> take] /\ UNCHANGED <<journal, session, answered>>

Marks(take) ==
  \/ Publishes(Prepared(take), take)
  \/ /\ \E present \in BOOLEAN : Fails("prepare", present) /\ journal' = IF present THEN Prepared(take) ELSE journal
     /\ UNCHANGED <<project, session, answered>>

Import(take) ==
  /\ FacadeAdmits /\ StoreAdmits /\ project.rev < MaxRevision
  /\ IF journal.capture = Nil THEN Marks(take)
     ELSE Resumes(take) /\ Publishes(journal, take)
-------------------------------------------------------------------------------

(* resolve_capture_disarm(): the journal's answer, with the records it       *)
(* writes.                                                                   *)
Resolves(to) ==
  CASE ~journal.armed -> to = [done |-> FALSE, rev |-> journal.rev] /\ UNCHANGED <<journal, faults>>
    [] journal.armed /\ journal.capture = Nil ->
         to = [done |-> FALSE, rev |-> journal.rev] /\ journal' = Aborted(journal) /\ UNCHANGED faults
    [] OTHER ->
         /\ Truth(journal.capture) # "conflict"
         /\ IF Truth(journal.capture) = "committed"
            THEN to = [done |-> TRUE, rev |-> project.rev] /\ journal' = Completed(journal, project.rev)
            ELSE to = [done |-> FALSE, rev |-> journal.capture.expected] /\ journal' = Aborted(journal)
         /\ UNCHANGED faults

(* The record of a resolution fails, or is there although it failed.           *)
ResolveFails ==
  /\ journal.armed
  /\ IF journal.capture # Nil /\ Truth(journal.capture) = "committed"
     THEN \E present \in BOOLEAN : Fails("complete", present) /\ journal' = IF present THEN Completed(journal, project.rev) ELSE journal
     ELSE /\ journal.capture # Nil => Truth(journal.capture) = "absent"
          /\ \E present \in BOOLEAN : Fails("abort", present) /\ journal' = IF present THEN Aborted(journal) ELSE journal

Answers == {[done |-> d, rev |-> r] : d \in BOOLEAN, r \in 0 .. MaxRevision}

Disarm ==
  /\ FacadeAdmits /\ journal # Nil
  /\ \/ \E to \in Answers :
          /\ Resolves(to)
          /\ session' = [armed |-> FALSE, expected |-> IF to.done THEN to.rev ELSE session.expected]
     \/ ResolveFails /\ UNCHANGED session
  /\ UNCHANGED <<project, answered>>

(* Mutant: settings commit although a marker is pending.                       *)
SettingsAdmittedAlways == journal # Nil

(* A flush or a settings change of the running session: refused while a marker *)
(* is pending, else Project, journal and session advance together.             *)
SettingsAdmitted == journal # Nil /\ journal.capture = Nil
Edit ==
  /\ session # Nil /\ SettingsAdmitted
  /\ session.expected = journal.rev /\ project.rev = session.expected
  /\ project.rev < MaxRevision
  /\ project' = [project EXCEPT !.rev = @ + 1]
  /\ IF journal.capture = Nil
     THEN journal' = [journal EXCEPT !.rev = @ + 1] /\ session' = [session EXCEPT !.expected = @ + 1]
     ELSE UNCHANGED <<journal, session>>
  /\ UNCHANGED <<answered, faults>>

(* The owner is lost; its journal stays.                                       *)
Crash ==
  /\ session # Nil /\ faults < MaxFaults /\ faults' = faults + 1
  /\ session' = Nil /\ UNCHANGED <<project, journal, answered>>

(* stop of the running session: refused while a marker is pending.             *)
Stop ==
  /\ session # Nil /\ journal # Nil /\ journal.capture = Nil /\ session.expected = journal.rev
  /\ session' = Nil /\ journal' = Nil
  /\ UNCHANGED <<project, answered, faults>>

(* reconcile_sequence_recovery(): the marker is resolved, then the journal is  *)
(* sealed as a candidate.                                                      *)
Reconcile ==
  /\ session = Nil /\ journal # Nil
  /\ IF journal.capture # Nil
     THEN (\E to \in Answers : Resolves(to)) \/ ResolveFails
     ELSE journal' = Nil /\ UNCHANGED faults
  /\ UNCHANGED <<project, session, answered>>

Next == Begin \/ (\E take \in Takes : Import(take)) \/ Disarm \/ Edit \/ Crash \/ Stop \/ Reconcile
(* A client acts on the remedy of its refusals (retry, or discard), and a      *)
(* Project whose owner was lost is reconciled when it is opened.               *)
Fairness == WF_vars(Disarm) /\ WF_vars(Reconcile)
Spec == Init /\ [][Next]_vars /\ Fairness
-------------------------------------------------------------------------------
TypeOK ==
  /\ project \in [rev : 0 .. MaxRevision, pad : Takes \cup {Nil}]
  /\ journal = Nil \/ journal \in [armed : BOOLEAN, rev : 0 .. MaxRevision,
        capture : {Nil} \cup [take : Takes, expected : 0 .. MaxRevision]]
  /\ session = Nil \/ session \in [armed : BOOLEAN, expected : 0 .. MaxRevision]
  /\ answered \in Takes \cup {Nil} /\ faults \in 0 .. MaxFaults

(* The take a client was told is saved is the one on the Pad, and a pending    *)
(* marker never names another take than the one published.                     *)
TakeKept ==
  /\ answered # Nil => project.pad = answered
  /\ journal # Nil /\ journal.capture # Nil /\ project.pad # Nil => journal.capture.take = project.pad

(* A completion that failed and is nevertheless in the file: the take is on    *)
(* the Pad and nobody was told; the journal is disarmed one revision ahead of  *)
(* the session, and a discard answers from it without telling the session.     *)
Behind ==
  /\ "complete" \in VisibleWrites
  /\ ~journal.armed /\ journal.rev = session.expected + 1
  /\ project.pad # Nil /\ answered = Nil

(* Project, journal and session agree while a take is imported: a journal      *)
(* without a pending marker stands at the Project's revision, and a session    *)
(* that is not capturing at the journal's, so that the next flush or stop is   *)
(* admitted, unless a completion that was reported as failed is in the file:   *)
(* then it is exactly one revision behind; and the take is kept.               *)
InStep ==
  /\ journal # Nil /\ journal.capture = Nil => journal.rev = project.rev
  /\ session # Nil /\ journal # Nil /\ ~session.armed => session.expected = journal.rev \/ Behind
  /\ TakeKept

(* A pending marker is resolved, whatever failed before: by the client's       *)
(* retry or discard, or by reconciliation after the owner was lost.            *)
MarkerResolves == journal # Nil /\ journal.capture # Nil ~> journal = Nil \/ journal.capture = Nil
===============================================================================
