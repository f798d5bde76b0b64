---------------------------- MODULE AttemptStore ----------------------------
(***************************************************************************)
(* The provider SDK's Attempt store: executions of a provider, each under   *)
(* an Attempt id that a directory reserves and a terminal record closes.    *)
(* Executors are processes (or threads) that share one workspace on disk.   *)
(*                                                                         *)
(* The bytes of requests, descriptors and records are abstract: an output   *)
(* is a member of Artifacts (its digest), a request either satisfies its    *)
(* capability or does not, and a record says who wrote it, how the Attempt  *)
(* ended and which outputs its candidate has.  On the web the workspace     *)
(* lock admits one execution at a time and directories cannot be moved, so  *)
(* outputs are published file by file.                                     *)
(***************************************************************************)
EXTENDS Naturals, FiniteSets

CONSTANTS
  Ids,          \* Attempt ids that callers use
  Executors,    \* processes that execute Attempts
  Artifacts,    \* possible outputs, by digest
  Web,          \* TRUE for the OPFS build
  MaxOutputs,   \* the output port's max_count
  MaxStarts,    \* bound: executions started
  MaxFaults,    \* bound: failed durable steps and crashes
  None          \* no value

AttemptConstants ==
  /\ IsFiniteSet(Ids) /\ IsFiniteSet(Executors) /\ IsFiniteSet(Artifacts)
  /\ Web \in BOOLEAN
  /\ MaxOutputs \in Nat /\ MaxStarts \in Nat /\ MaxFaults \in Nat
  /\ None \notin Ids \cup Executors

VARIABLES
  terminal,   \* [Ids -> <id>.json, or None]
  dir,        \* [Ids -> the Attempt directory, or None]
  run,        \* [Executors -> the execution in progress]
  starts,     \* executions started so far; its value names one
  faults      \* faults so far

attemptVars == <<terminal, dir, run, starts, faults>>

Serials == 1..MaxStarts

Terminals == [by: Serials, status: {"succeeded", "failed"},
              outputs: SUBSET Artifacts, acked: BOOLEAN]

Dirs == [by: Serials, staged: SUBSET Artifacts, artifacts: SUBSET Artifacts,
         published: BOOLEAN]

(* The steps of execute(), in order.                                       *)
Phases == {"idle", "checked", "reserved", "staging", "running", "returned",
           "publishing", "persisting", "linked", "releasing", "done"}

Runs == [pc: Phases, id: Ids \cup {None}, by: 0..MaxStarts, job: BOOLEAN,
         active: BOOLEAN, minted: SUBSET Artifacts, failed: BOOLEAN,
         verdict: {"none", "candidate", "error"}]

IdleRun == [pc |-> "idle", id |-> None, by |-> 0, job |-> FALSE,
            active |-> FALSE, minted |-> {}, failed |-> FALSE,
            verdict |-> "none"]

AttemptTypeOK ==
  /\ terminal \in [Ids -> Terminals \cup {None}]
  /\ dir \in [Ids -> Dirs \cup {None}]
  /\ run \in [Executors -> Runs]
  /\ starts \in 0..MaxStarts
  /\ faults \in 0..MaxFaults

AttemptInit ==
  /\ terminal = [i \in Ids |-> None]
  /\ dir = [i \in Ids |-> None]
  /\ run = [e \in Executors |-> IdleRun]
  /\ starts = 0
  /\ faults = 0

At(e, phase) == run[e].pc = phase

Goes(e, phase) == run' = [run EXCEPT ![e].pc = phase]

(* A durable step fails, or the process dies.                              *)
Fault == faults < MaxFaults /\ faults' = faults + 1

(* execute() returns an error; what is on disk stays, and                   *)
(* ReleaseRunPayloads closes the callbacks.                                *)
ReturnsError(r) == [r EXCEPT !.pc = "done", !.active = FALSE]

-----------------------------------------------------------------------------
(* The identity and request checks, then the first half of reserve_attempt: *)
(* no terminal record may exist.  A request that its capability or the      *)
(* host's policy refuses is still reserved: the refusal becomes a terminal. *)
WorkspaceFree == Web => \A e \in Executors : At(e, "idle")

BeginExecute(e, i, job) ==
  /\ At(e, "idle")
  /\ starts < MaxStarts
  /\ WorkspaceFree
  /\ terminal[i] = None
  /\ starts' = starts + 1
  /\ run' = [run EXCEPT ![e] =
               [IdleRun EXCEPT !.pc = "checked", !.id = i, !.by = starts + 1,
                               !.job = job]]
  /\ UNCHANGED <<terminal, dir, faults>>

(* The second half: create_directory decides who owns the id.              *)
ReserveAttempt(e) ==
  LET i == run[e].id IN
  /\ At(e, "checked")
  /\ IF dir[i] = None
       THEN /\ dir' = [dir EXCEPT ![i] = [by |-> run[e].by, staged |-> {},
                                          artifacts |-> {}, published |-> FALSE]]
            /\ Goes(e, "reserved")
       ELSE /\ UNCHANGED dir
            /\ run' = [run EXCEPT ![e] = IdleRun]
  /\ UNCHANGED <<terminal, starts, faults>>

(* after_reservation is absent for a plain provider.run.                   *)
AfterReservation(e) ==
  /\ At(e, "reserved") /\ ~run[e].job
  /\ Goes(e, "staging")
  /\ UNCHANGED <<terminal, dir, starts, faults>>

(* The request's errors, found before the reservation, and stage_inputs:    *)
(* the inputs are copied and their length and digest checked within the two *)
(* staging budgets; any refusal becomes the Attempt's error and the         *)
(* provider is not invoked.                                                *)
StageInputs(e, staged) ==
  /\ At(e, "staging")
  /\ run' = [run EXCEPT ![e].pc = IF staged THEN "running" ELSE "returned",
                        ![e].active = staged,
                        ![e].verdict = IF staged THEN "none" ELSE "error"]
  /\ UNCHANGED <<terminal, dir, starts, faults>>

(* The output callback on the executing thread: within the port's count and *)
(* the byte budgets, a digest that this port has not minted.  The file is   *)
(* written durably in staging before the binding is minted.                *)
AcceptsOutput(r, a) == r.active /\ a \notin r.minted /\ Cardinality(r.minted) < MaxOutputs

ProviderOutput(e, a) ==
  LET i == run[e].id IN
  /\ At(e, "running")
  /\ AcceptsOutput(run[e], a)
  /\ dir' = [dir EXCEPT ![i].staged = @ \cup {a}]
  /\ run' = [run EXCEPT ![e].minted = @ \cup {a}]
  /\ UNCHANGED <<terminal, starts, faults>>

(* A refused output, an unknown input port, a call from another thread: the *)
(* first such error is kept and overrides whatever the provider returns.   *)
ProviderMisuse(e) ==
  /\ At(e, "running")
  /\ run' = [run EXCEPT ![e].failed = TRUE]
  /\ UNCHANGED <<terminal, dir, starts, faults>>

(* Writing the output fails after the file reached its name, or before.    *)
OutputWriteFails(e, a) ==
  /\ At(e, "running")
  /\ AcceptsOutput(run[e], a)
  /\ Fault
  /\ run' = [run EXCEPT ![e].failed = TRUE]
  /\ UNCHANGED <<terminal, dir, starts>>

(* run() returns or throws.  `outcome` is what it claims: a candidate whose *)
(* bindings are or are not the minted ones, a declared domain error, or     *)
(* something else (two answers, none, another id, an undeclared error).    *)
Outcomes == {"candidate", "other_bindings", "domain_error", "invalid"}

(* valid_output_bindings with same_bindings, for a port with min_count 1:   *)
(* a Candidate Job's capability declares exactly one output.               *)
BindingsValid(r) == IF r.job THEN Cardinality(r.minted) = 1 ELSE r.minted # {}

ProviderReturns(e, outcome) ==
  /\ At(e, "running")
  /\ run' = [run EXCEPT ![e].pc = "returned", ![e].active = FALSE,
                        ![e].verdict = IF /\ outcome = "candidate"
                                          /\ BindingsValid(run[e])
                                          /\ ~run[e].failed
                                         THEN "candidate" ELSE "error"]
  /\ UNCHANGED <<terminal, dir, starts, faults>>

(* A callback kept by the provider and called after it returned: the        *)
(* control block is closed, the call is refused and changes nothing.       *)
LateOutput(e, a) ==
  /\ run[e].pc \in {"returned", "publishing", "persisting"}
  /\ IF AcceptsOutput(run[e], a)
       THEN /\ dir' = [dir EXCEPT ![run[e].id].staged = @ \cup {a}]
            /\ run' = [run EXCEPT ![e].minted = @ \cup {a}]
       ELSE UNCHANGED <<dir, run>>
  /\ UNCHANGED <<terminal, starts, faults>>

(* Output validators, then the outputs: an Attempt that failed loses what   *)
(* it staged before its record is written.                                 *)
ValidateOutputs(e, valid) ==
  LET i == run[e].id IN
  /\ At(e, "returned")
  /\ IF run[e].verdict = "candidate" /\ valid
       THEN Goes(e, "publishing") /\ UNCHANGED dir
       ELSE /\ dir' = [dir EXCEPT ![i].staged = {}, ![i].artifacts = {},
                                  ![i].published = FALSE]
            /\ run' = [run EXCEPT ![e].pc = "persisting", ![e].minted = {},
                                  ![e].verdict = "error"]
  /\ UNCHANGED <<terminal, starts, faults>>

(* Mutant: on OPFS the record is written once the first file has moved.     *)
PublishOutputsPrefix(e) ==
  LET d == dir[run[e].id] IN
  /\ At(e, "publishing")
  /\ \E a \in d.staged :
        dir' = [dir EXCEPT ![run[e].id].staged = @ \ {a},
                           ![run[e].id].artifacts = @ \cup {a},
                           ![run[e].id].published = TRUE]
  /\ Goes(e, "persisting")
  /\ UNCHANGED <<terminal, starts, faults>>

(* publish_attempt_outputs: one directory rename, or on OPFS one rename per *)
(* file, after which staging is removed.                                   *)
PublishOutputs(e) ==
  LET d == dir[run[e].id] IN
  /\ At(e, "publishing")
  /\ IF Web
       THEN IF d.staged # {}
              THEN \E a \in d.staged :
                     /\ dir' = [dir EXCEPT ![run[e].id].staged = @ \ {a},
                                           ![run[e].id].artifacts = @ \cup {a},
                                           ![run[e].id].published = TRUE]
                     /\ UNCHANGED run
              ELSE UNCHANGED dir /\ Goes(e, "persisting")
       ELSE /\ dir' = [dir EXCEPT ![run[e].id].staged = {},
                                  ![run[e].id].artifacts = d.staged,
                                  ![run[e].id].published = TRUE]
            /\ Goes(e, "persisting")
  /\ UNCHANGED <<terminal, starts, faults>>

(* Any cleanup, publication or record write fails: execute returns the      *)
(* error, the reservation stays and no record closes it.                   *)
StorageFails(e) ==
  /\ run[e].pc \in {"returned", "publishing", "persisting"}
  /\ Fault
  /\ run' = [run EXCEPT ![e] = ReturnsError(@)]
  /\ UNCHANGED <<terminal, dir, starts>>

(* persist_attempt: the record is linked under its final name, which fails  *)
(* when the name exists.                                                   *)
PersistAttempt(e) ==
  LET i == run[e].id IN
  /\ At(e, "persisting")
  /\ IF terminal[i] = None
       THEN /\ terminal' = [terminal EXCEPT ![i] =
                  [by |-> run[e].by, outputs |-> run[e].minted, acked |-> FALSE,
                   status |-> IF run[e].verdict = "candidate" THEN "succeeded" ELSE "failed"]]
            /\ Goes(e, "linked")
       ELSE /\ UNCHANGED terminal
            /\ run' = [run EXCEPT ![e] = ReturnsError(@)]
  /\ UNCHANGED <<dir, starts, faults>>

(* The directory sync after the link; when it fails the record is removed.  *)
SyncTerminal(e) ==
  LET i == run[e].id IN
  /\ At(e, "linked")
  /\ terminal' = [terminal EXCEPT ![i].acked = TRUE]
  /\ run' = [run EXCEPT ![e].pc = IF run[e].verdict = "candidate" THEN "done" ELSE "releasing"]
  /\ UNCHANGED <<dir, starts, faults>>

SyncTerminalFails(e) ==
  /\ At(e, "linked")
  /\ Fault
  /\ terminal' = [terminal EXCEPT ![run[e].id] = None]
  /\ run' = [run EXCEPT ![e] = ReturnsError(@)]
  /\ UNCHANGED <<dir, starts>>

(* A failed Attempt gives its reservation back.                            *)
ReleaseReservation(e) ==
  /\ At(e, "releasing")
  /\ dir' = [dir EXCEPT ![run[e].id] = None]
  /\ Goes(e, "done")
  /\ UNCHANGED <<terminal, starts, faults>>

(* A plain provider.run has its answer.                                    *)
ReturnRaw(e) ==
  /\ At(e, "done") /\ ~run[e].job
  /\ run' = [run EXCEPT ![e] = IdleRun]
  /\ UNCHANGED <<terminal, dir, starts, faults>>

(* The executor's process dies; the disk keeps what it has.                *)
CrashExecutor(e) ==
  /\ ~At(e, "idle")
  /\ Fault
  /\ run' = [run EXCEPT ![e] = IdleRun]
  /\ UNCHANGED <<terminal, dir, starts>>

-----------------------------------------------------------------------------
(* inspect(): a record is read only when it is consistent: a success has    *)
(* the candidate's outputs, a failure has none.                            *)
RecordConsistent(t) == (t.status = "succeeded") <=> (t.outputs # {})

Inspected(i) == IF terminal[i] = None THEN FALSE ELSE RecordConsistent(terminal[i])

(* read_candidate_artifact() for each output the record names.             *)
OutputsReadable(i) ==
  /\ Inspected(i) /\ dir[i] # None
  /\ terminal[i].status = "succeeded"
  /\ dir[i].published /\ terminal[i].outputs \subseteq dir[i].artifacts

ExecuteStep(e) ==
  \/ ReserveAttempt(e) \/ AfterReservation(e)
  \/ \E staged \in BOOLEAN : StageInputs(e, staged)
  \/ \E a \in Artifacts : ProviderOutput(e, a) \/ OutputWriteFails(e, a) \/ LateOutput(e, a)
  \/ ProviderMisuse(e)
  \/ \E outcome \in Outcomes : ProviderReturns(e, outcome)
  \/ \E valid \in BOOLEAN : ValidateOutputs(e, valid)
  \/ PublishOutputs(e) \/ StorageFails(e)
  \/ PersistAttempt(e) \/ SyncTerminal(e) \/ SyncTerminalFails(e)
  \/ ReleaseReservation(e) \/ ReturnRaw(e)

=============================================================================
