---------------------------- MODULE CandidateJobs ----------------------------
(***************************************************************************)
(* Candidate Jobs on top of the Attempt store: candidate.job.run records    *)
(* its intent once the SDK reservation is won, executes the provider and    *)
(* reconciles the intent with the terminal record; an inspection does the   *)
(* same for a run whose process died; cancel, discard and adopt race with   *)
(* both.  One Job is modelled; every entry of its history has an Attempt id *)
(* and the Candidate Set a success would publish, so both are indexed by    *)
(* the id.                                                                 *)
(*                                                                         *)
(* The mutation lease covers one step of every operation and is held longer *)
(* only by an adoption, which keeps it until the Project has committed.     *)
(* The execution lease is held by a run, or by an inspection that found it  *)
(* free.                                                                   *)
(***************************************************************************)
EXTENDS AttemptStore

CONSTANTS Inspector   \* the process that inspects a Job after a restart

InspectorAssumption == Inspector \notin Executors \cup {None}

VARIABLES
  entry,      \* [Ids -> status of the history entry, "none" without one]
  owner,      \* [Ids -> the execution that wrote the entry, 0 without one]
  set,        \* [Ids -> status of the entry's Candidate Set]
  active,     \* the Job's active_set_id
  execution,  \* who holds the Job's execution lease
  begun,      \* [Executors -> candidate_job_run has its Run]
  found,      \* the pending entry the inspection found
  adopting,   \* the set whose adoption holds the mutation lease
  adopted     \* sets the Project has adopted

jobVars == <<entry, owner, set, active, execution, begun, found, adopting, adopted>>
vars == <<attemptVars, jobVars>>

EntryStatus == {"none", "pending", "succeeded", "failed", "interrupted", "cancelled"}
SetStatus == {"none", "active", "superseded", "discarded"}

TypeOK ==
  /\ AttemptTypeOK
  /\ entry \in [Ids -> EntryStatus]
  /\ owner \in [Ids -> 0..MaxStarts]
  /\ set \in [Ids -> SetStatus]
  /\ active \in Ids \cup {None}
  /\ execution \in Executors \cup {Inspector, None}
  /\ begun \in [Executors -> BOOLEAN]
  /\ found \in Ids \cup {None}
  /\ adopting \in Ids \cup {None}
  /\ adopted \in SUBSET Ids

Init ==
  /\ AttemptInit
  /\ entry = [i \in Ids |-> "none"]
  /\ owner = [i \in Ids |-> 0]
  /\ set = [i \in Ids |-> "none"]
  /\ active = None
  /\ execution = None
  /\ begun = [e \in Executors |-> FALSE]
  /\ found = None
  /\ adopting = None
  /\ adopted = {}

MutationFree == adopting = None

Pending(i) == entry[i] = "pending"

-----------------------------------------------------------------------------
(* candidate_job_run: the prior inspection must leave nothing pending; then *)
(* provider_run starts an execution.                                       *)
JobRun(e, i) ==
  /\ \A j \in Ids : ~Pending(j)
  /\ BeginExecute(e, i, TRUE)
  /\ UNCHANGED jobVars

ProviderRun(e, i) ==
  /\ BeginExecute(e, i, FALSE)
  /\ UNCHANGED jobVars

(* begin(), as the after_reservation callback: the execution lease, then    *)
(* under the mutation lease an id no Job used and no other pending entry.   *)
MayBegin(i) ==
  /\ execution = None
  /\ MutationFree
  /\ entry[i] = "none"
  /\ \A j \in Ids : ~Pending(j)

BeginIntent(e) ==
  LET i == run[e].id IN
  /\ At(e, "reserved") /\ run[e].job
  /\ MayBegin(i)
  /\ entry' = [entry EXCEPT ![i] = "pending"]
  /\ owner' = [owner EXCEPT ![i] = run[e].by]
  /\ execution' = e
  /\ begun' = [begun EXCEPT ![e] = TRUE]
  /\ Goes(e, "staging")
  /\ UNCHANGED <<terminal, dir, starts, faults, set, active, found, adopting, adopted>>

(* A refusal, or a state write that fails before or after it is visible:    *)
(* execute returns the callback's error and the reservation stays.         *)
BeginIntentFails(e, written) ==
  LET i == run[e].id IN
  /\ At(e, "reserved") /\ run[e].job
  /\ IF MayBegin(i)
       THEN /\ Fault
            /\ entry' = IF written THEN [entry EXCEPT ![i] = "pending"] ELSE entry
            /\ owner' = IF written THEN [owner EXCEPT ![i] = run[e].by] ELSE owner
       ELSE UNCHANGED <<faults, entry, owner>>
  /\ run' = [run EXCEPT ![e] = ReturnsError(@)]
  /\ UNCHANGED <<terminal, dir, starts, set, active, execution, begun, found, adopting, adopted>>

(* reconcile(): what the pending entry becomes.  The terminal record of its *)
(* Attempt decides; without one the run was interrupted.                   *)
Reconciled(i) ==
  IF terminal[i] = None THEN "interrupted" ELSE terminal[i].status

(* verify_sets(): every set the Job published is rebuilt from its record.   *)
Verified == \A i \in Ids : entry[i] = "succeeded" => OutputsReadable(i) /\ set[i] # "none"

(* finish(): a success supersedes the active set and becomes active.  An    *)
(* entry that is no longer pending, because it was cancelled, is left; an   *)
(* error of reconcile() leaves it pending.                                 *)
ReconcileFails(i) == terminal[i] # None /\ Reconciled(i) = "succeeded" /\ ~OutputsReadable(i)

(* Mutant: finish publishes whatever the entry says by now.                 *)
FinishAlways(i) ==
  /\ entry' = [entry EXCEPT ![i] = Reconciled(i)]
  /\ IF Reconciled(i) = "succeeded"
       THEN /\ set' = [j \in Ids |-> IF j = i THEN "active"
                                     ELSE IF j = active THEN "superseded" ELSE set[j]]
            /\ active' = i
       ELSE UNCHANGED <<set, active>>

Finish(i) ==
  IF ~Pending(i) \/ ReconcileFails(i)
    THEN UNCHANGED <<entry, set, active>>
    ELSE /\ entry' = [entry EXCEPT ![i] = Reconciled(i)]
         /\ IF Reconciled(i) = "succeeded"
              THEN /\ set' = [j \in Ids |-> IF j = i THEN "active"
                                            ELSE IF j = active THEN "superseded" ELSE set[j]]
                   /\ active' = i
              ELSE UNCHANGED <<set, active>>

(* The end of candidate_job_run.  Without a Run the executor's error is the *)
(* answer; a busy mutation lease makes finish() fail and leaves the entry   *)
(* to an inspection.  Either way the execution lease is released.          *)
JobReturns(e) ==
  /\ At(e, "done") /\ run[e].job
  /\ run' = [run EXCEPT ![e] = IdleRun]
  /\ begun' = [begun EXCEPT ![e] = FALSE]
  /\ execution' = IF begun[e] THEN None ELSE execution
  /\ IF begun[e] /\ MutationFree THEN Finish(run[e].id) ELSE UNCHANGED <<entry, set, active>>
  /\ UNCHANGED <<terminal, dir, starts, faults, owner, found, adopting, adopted>>

(* finish() whose state write fails without effect.                        *)
JobReturnsUnsaved(e) ==
  /\ At(e, "done") /\ begun[e]
  /\ Fault
  /\ run' = [run EXCEPT ![e] = IdleRun]
  /\ begun' = [begun EXCEPT ![e] = FALSE]
  /\ execution' = None
  /\ UNCHANGED <<terminal, dir, starts, entry, set, active, owner, found, adopting, adopted>>

(* inspect(): only with the execution lease may it finish what is pending;  *)
(* the mutation lease is released between the two halves.                  *)
InspectJob(i) ==
  /\ execution = None
  /\ MutationFree
  /\ Verified
  /\ Pending(i)
  /\ execution' = Inspector
  /\ found' = i
  /\ UNCHANGED <<attemptVars, entry, owner, set, active, begun, adopting, adopted>>

InspectFinish ==
  /\ execution = Inspector
  /\ IF MutationFree THEN Finish(found) ELSE UNCHANGED <<entry, set, active>>
  /\ execution' = None
  /\ found' = None
  /\ UNCHANGED <<attemptVars, owner, begun, adopting, adopted>>

(* cancel(): takes no execution lease; a completed Attempt is refused.      *)
CancelAttempt(i) ==
  /\ MutationFree
  /\ entry[i] \in {"pending", "interrupted"}
  /\ entry' = [entry EXCEPT ![i] = "cancelled"]
  /\ UNCHANGED <<attemptVars, owner, set, active, execution, begun, found, adopting, adopted>>

DiscardSet(i) ==
  /\ MutationFree
  /\ active = i
  /\ set' = [set EXCEPT ![i] = "discarded"]
  /\ active' = None
  /\ UNCHANGED <<attemptVars, entry, owner, execution, begun, found, adopting, adopted>>

(* candidate_adopt: lease_active verifies the Job's sets against their      *)
(* records and keeps the lease while sources are read and quotas checked;   *)
(* the Project then commits, or any of the checks refuses.                 *)
LeaseActive(i) ==
  /\ MutationFree
  /\ active = i
  /\ Verified
  /\ adopting' = i
  /\ UNCHANGED <<attemptVars, entry, owner, set, active, execution, begun, found, adopted>>

AdoptCommit ==
  /\ adopting # None
  /\ adopted' = adopted \cup {adopting}
  /\ adopting' = None
  /\ UNCHANGED <<attemptVars, entry, owner, set, active, execution, begun, found>>

AdoptRefused ==
  /\ adopting # None
  /\ adopting' = None
  /\ UNCHANGED <<attemptVars, entry, owner, set, active, execution, begun, found, adopted>>

(* An executor's process dies: its leases go with it.                      *)
Crash(e) ==
  /\ CrashExecutor(e)
  /\ begun' = [begun EXCEPT ![e] = FALSE]
  /\ execution' = IF execution = e THEN None ELSE execution
  /\ UNCHANGED <<entry, owner, set, active, found, adopting, adopted>>

Next ==
  \/ \E e \in Executors :
       \/ \E i \in Ids : JobRun(e, i) \/ ProviderRun(e, i)
       \/ ExecuteStep(e) /\ UNCHANGED jobVars
       \/ BeginIntent(e)
       \/ \E written \in BOOLEAN : BeginIntentFails(e, written)
       \/ JobReturns(e) \/ JobReturnsUnsaved(e) \/ Crash(e)
  \/ \E i \in Ids : InspectJob(i) \/ CancelAttempt(i) \/ DiscardSet(i) \/ LeaseActive(i)
  \/ InspectFinish \/ AdoptCommit \/ AdoptRefused

Spec == Init /\ [][Next]_vars

-----------------------------------------------------------------------------
(* A record that says succeeded is backed by all of its outputs and nothing *)
(* else, whatever failed or died in between: publish_attempt_outputs and    *)
(* the record's exclusive link never expose a successful prefix.           *)
WholeSuccess ==
  \A i \in Ids : terminal[i] # None =>
    (terminal[i].status = "succeeded" =>
       /\ terminal[i].outputs # {}
       /\ dir[i] # None
       /\ dir[i].by = terminal[i].by
       /\ dir[i].artifacts = terminal[i].outputs)

(* Once execute() has acknowledged a record, no later execution, retry or   *)
(* crash changes it (write_new_atomic, reserve_attempt).                   *)
RecordStays == \A i \in Ids : (terminal[i] # None => (terminal[i].acked => terminal'[i] = terminal[i]))

(* The Job state an operation leaves is one read_state() accepts: at most   *)
(* one pending entry, a set exactly for the succeeded entries, and one      *)
(* active set, the Job's, when it has one.                                 *)
StateReadable ==
  /\ \A i, j \in Ids : Pending(i) /\ Pending(j) => i = j
  /\ \A i \in Ids : /\ (entry[i] = "succeeded") <=> (set[i] # "none")
                    /\ (set[i] = "active") <=> (active = i)

(* verify_sets() never refuses: every published set still has the           *)
(* successful record of the run that began its entry, and all of its bytes. *)
SetsVerifiable ==
  \A i \in Ids : set[i] # "none" => OutputsReadable(i) /\ terminal[i].by = owner[i]

(* A run in progress keeps its entry: until its own finish() only cancel    *)
(* may decide it, never a recovery in another process.                     *)
LiveUndisturbed ==
  \A e \in Executors : begun[e] => entry[run[e].id] \in {"pending", "cancelled"}

(* "The durable owner decision wins over even a subsequently successful     *)
(* terminal": a cancelled entry never publishes a set.                     *)
CancelStays == \A i \in Ids : entry[i] = "cancelled" => entry'[i] = "cancelled" /\ set'[i] = set[i]

(* A Project adopts only a set that is active when it commits, although     *)
(* discard and newer runs compete for the Job.                             *)
AdoptIsActive == adopted' # adopted => adopting = active /\ set[adopting] = "active"
=============================================================================
