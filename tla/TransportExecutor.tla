-------------------------- MODULE TransportExecutor --------------------------
(* The Pattern transport executor of the Facade:                              *)
(* packages/application-facade/src/pattern_transport_executor.cpp. One cell   *)
(* retains one request and its completion; a dedicated worker thread executes *)
(* or reconciles it outside the mutex. Callers submit, inspect, consume,      *)
(* reconcile and shut down under the mutex, so each of these is one step, and *)
(* the worker's critical sections are one step each. A condition variable     *)
(* with a single waiter whose predicate is tested under the mutex is a guard. *)
EXTENDS Naturals, Sequences, TLAPS

CONSTANTS None,                 \* an empty optional
          Generation,           \* runtime generations callers may name
          Own,                  \* the generation of this executor
          Command,              \* command ids
          Payload,              \* canonical payloads
          OwnerLost,            \* the payload {"op":"owner_lost"}
          MaxStep,              \* bound on the steps callers submit
          MaxEpoch              \* bound on the transport epochs callers submit

ASSUME GenerationAssumption == Own \in Generation
ASSUME PayloadAssumption == OwnerLost \in Payload
ASSUME BoundAssumption == MaxStep \in Nat /\ MaxEpoch \in Nat

Request == [generation : Generation, epoch : 0 .. MaxEpoch, cmd : Command,
            step : 1 .. MaxStep, payload : Payload]

ASSUME NoneAssumption == None \notin Request

Outcome == {"success", "refused", "unknown"}
Result  == [of : Request, outcome : Outcome]

ASSUME NoResultAssumption == None \notin Result

VARIABLES ready, shutdown, stopped, reconciliation,     \* flags of the cell
          lastStep, lastEpoch,                          \* floors
          request,                                      \* the retained request
          completion,                                   \* its result
          worker,                                       \* where the worker is
          work,                                         \* the worker's copy
          accepted,                                     \* ghost: accepted requests
          executed                                      \* ghost: execute() calls

cell == <<ready, shutdown, stopped, reconciliation, lastStep, lastEpoch, request, completion>>
vars == <<cell, worker, work, accepted, executed>>

Init ==
    /\ ready = FALSE /\ shutdown = FALSE /\ stopped = FALSE /\ reconciliation = FALSE
    /\ lastStep = 0 /\ lastEpoch = 0
    /\ request = None /\ completion = None
    /\ worker = "starting"
    /\ work = None
    /\ accepted = <<>> /\ executed = <<>>

------------------------------------------------------------------------------
(* The callers                                                                *)

Identity(r) == <<r.generation, r.epoch, r.cmd, r.step>>

(* The answer of both submit functions after their argument checks.          *)
Answer(r, floor) ==
    CASE r.generation # Own -> "stale"
      [] r.generation = Own /\ request # None /\ Identity(request) = Identity(r) ->
            IF request = r THEN "replayed" ELSE "invalid"
      [] OTHER ->
            IF shutdown \/ stopped \/ ~ready THEN "unavailable"
            ELSE IF request # None THEN "busy"
            ELSE IF r.step <= lastStep \/ r.epoch < floor THEN "stale" ELSE "accepted"

(* submit() and submit_owner_disposition(); any answer but "accepted"        *)
(* changes nothing.                                                          *)
Submit(r) ==
    /\ r.epoch # 0
    /\ Answer(r, lastEpoch) = "accepted"
    /\ request' = r
    /\ lastStep' = r.step
    /\ lastEpoch' = r.epoch
    /\ accepted' = Append(accepted, r)
    /\ UNCHANGED <<ready, shutdown, stopped, reconciliation, completion, worker, work, executed>>

SubmitOwnerDisposition(r) ==
    /\ r.epoch = 0 /\ r.payload = OwnerLost
    /\ Answer(r, 0) = "accepted"
    /\ request' = r
    /\ lastStep' = r.step
    /\ accepted' = Append(accepted, r)
    /\ UNCHANGED <<ready, shutdown, stopped, reconciliation, lastEpoch, completion, worker, work,
                   executed>>

(* consume() of the retained ticket                                           *)
Consume ==
    /\ request # None
    /\ completion # None
    /\ request' = None
    /\ completion' = None
    /\ UNCHANGED <<ready, shutdown, stopped, reconciliation, lastStep, lastEpoch, worker, work,
                   accepted, executed>>

(* reconcile() of the retained ticket                                         *)
Reconcile ==
    /\ request # None /\ completion # None
    /\ completion.outcome = "unknown"
    /\ ~shutdown /\ ~stopped /\ ~reconciliation
    /\ completion' = None
    /\ reconciliation' = TRUE
    /\ UNCHANGED <<ready, shutdown, stopped, lastStep, lastEpoch, request, worker, work,
                   accepted, executed>>

(* request_shutdown(), which the destructor calls too                         *)
RequestShutdown ==
    /\ shutdown' = TRUE
    /\ UNCHANGED <<ready, stopped, reconciliation, lastStep, lastEpoch, request, completion,
                   worker, work, accepted, executed>>

------------------------------------------------------------------------------
(* The worker thread                                                          *)

(* The factory returns an owner, or fails.                                    *)
Start ==
    /\ worker = "starting"
    /\ \/ ready' = TRUE /\ worker' = "waiting" /\ UNCHANGED stopped
       \/ stopped' = TRUE /\ worker' = "done" /\ UNCHANGED ready
    /\ UNCHANGED <<shutdown, reconciliation, lastStep, lastEpoch, request, completion, work,
                   accepted, executed>>

Pending == request # None /\ (completion = None \/ reconciliation)

(* Mutant: a reconciliation repeats the effect.                               *)
TakeRepeats ==
    /\ worker = "waiting"
    /\ Pending
    /\ work' = request
    /\ executed' = Append(executed, request)
    /\ reconciliation' = FALSE
    /\ worker' = "working"
    /\ UNCHANGED <<ready, shutdown, stopped, lastStep, lastEpoch, request, completion, accepted>>

(* It copies the request, leaves the mutex and executes or reconciles it.     *)
Take ==
    /\ worker = "waiting"
    /\ Pending
    /\ work' = request
    /\ executed' = IF reconciliation THEN executed ELSE Append(executed, request)
    /\ reconciliation' = FALSE
    /\ worker' = "working"
    /\ UNCHANGED <<ready, shutdown, stopped, lastStep, lastEpoch, request, completion, accepted>>

(* Mutant: an exception ends the thread.                                      *)
FinishDies(outcome) ==
    /\ worker = "working"
    /\ IF outcome = "unknown"
       THEN worker' = "done" /\ UNCHANGED <<completion, work>>
       ELSE /\ completion' = [of |-> work, outcome |-> outcome]
            /\ work' = None
            /\ worker' = IF shutdown THEN "closing" ELSE "waiting"
    /\ UNCHANGED <<ready, shutdown, stopped, reconciliation, lastStep, lastEpoch, request,
                   accepted, executed>>

(* The owner returned a result, an invalid one, or threw: the last two are    *)
(* unknown outcomes.                                                          *)
Finish(outcome) ==
    /\ worker = "working"
    /\ completion' = [of |-> work, outcome |-> outcome]
    /\ work' = None
    /\ worker' = IF shutdown THEN "closing" ELSE "waiting"
    /\ UNCHANGED <<ready, shutdown, stopped, reconciliation, lastStep, lastEpoch, request,
                   accepted, executed>>

(* Shut down with nothing pending                                             *)
Leave ==
    /\ worker = "waiting"
    /\ shutdown /\ ~Pending
    /\ worker' = "closing"
    /\ UNCHANGED <<cell, work, accepted, executed>>

(* The owner is destroyed outside the mutex before the executor is stopped.   *)
Stop ==
    /\ worker = "closing"
    /\ stopped' = TRUE
    /\ worker' = "done"
    /\ UNCHANGED <<ready, shutdown, reconciliation, lastStep, lastEpoch, request, completion,
                   work, accepted, executed>>

------------------------------------------------------------------------------
Callers == \/ \E r \in Request : Submit(r) \/ SubmitOwnerDisposition(r)
           \/ Consume \/ Reconcile \/ RequestShutdown
Worker  == Start \/ Take \/ (\E outcome \in Outcome : Finish(outcome)) \/ Leave \/ Stop
Next    == Callers \/ Worker

Spec == Init /\ [][Next]_vars

(* The thread runs, and the factory and the owner's calls return.             *)
FairSpec == Spec /\ WF_vars(Worker)

------------------------------------------------------------------------------
(* The types of the variables.                                                *)
TypeOK ==
    /\ ready \in BOOLEAN /\ shutdown \in BOOLEAN /\ stopped \in BOOLEAN
    /\ reconciliation \in BOOLEAN
    /\ lastStep \in 0 .. MaxStep /\ lastEpoch \in 0 .. MaxEpoch
    /\ request \in Request \union {None}
    /\ completion \in Result \union {None}
    /\ worker \in {"starting", "waiting", "working", "closing", "done"}
    /\ work \in Request \union {None}
    /\ accepted \in Seq(Request) /\ executed \in Seq(Request)

(* A completion a caller can see or consume is the result of the request the  *)
(* cell retains, never of an earlier one.                                     *)
OwnCompletion == completion # None => completion.of = request

(* The effect of every accepted request happens once, in the order of         *)
(* acceptance, whatever callers retry, reconcile or consume meanwhile; only   *)
(* the newest may still be waiting.                                           *)
OnceInOrder ==
    executed = accepted \/ (request # None /\ accepted = Append(executed, request))

(* Steps rise strictly over the executor's life, and transport epochs never   *)
(* go back, owner dispositions (which carry epoch zero) in between or not.    *)
FloorsHold ==
    \A i, j \in 1 .. Len(accepted) :
        i < j => /\ accepted[i].step < accepted[j].step
                 /\ accepted[j].epoch # 0 => accepted[i].epoch <= accepted[j].epoch

(* request_shutdown() drains: once stopped, every accepted request was        *)
(* executed and the retained one has its completion.                          *)
Drained == stopped => executed = accepted /\ (request # None => completion # None)

(* Accepted work gets its completion; a shutdown is followed by the stop.     *)
Completes == (request # None /\ completion = None) ~> (completion # None)
-------------------------------------------------------------------------------
(* The proofs, for every set of commands and payloads and any number of steps *)
(* and epochs.                                                                *)

(* Where the retained request stands: not yet taken by the worker, being      *)
(* executed or reconciled, or complete.                                       *)
CellInv ==
    /\ request = None => executed = accepted /\ completion = None /\ ~reconciliation
    /\ completion # None => executed = accepted /\ completion.of = request /\ ~reconciliation
    /\ reconciliation => executed = accepted
    /\ worker = "working" =>
          /\ request # None /\ work = request /\ completion = None
          /\ ~reconciliation /\ executed = accepted
    /\ (request # None /\ completion = None /\ ~reconciliation /\ worker # "working") =>
          accepted = Append(executed, request)

(* A worker that has left accepts and owes nothing any more.                  *)
LeftInv ==
    /\ worker = "starting" => ~ready /\ request = None
    /\ stopped => worker = "done"
    /\ worker \in {"closing", "done"} => ~Pending /\ (shutdown \/ stopped)

FloorInv ==
    /\ \A i \in 1 .. Len(accepted) :
          accepted[i].step <= lastStep /\ accepted[i].epoch <= lastEpoch
    /\ FloorsHold

IInv == TypeOK /\ CellInv /\ LeftInv /\ FloorInv

(* The initial state satisfies the invariant.                                 *)
LEMMA InitInv == Init => IInv
  <1> SUFFICES ASSUME Init PROVE IInv
    OBVIOUS
  <1>0. 0 \in 0 .. MaxStep /\ 0 \in 0 .. MaxEpoch
    BY BoundAssumption
  <1>e. accepted \in Seq(Request) /\ executed \in Seq(Request)
    BY DEF Init
  <1>1. TypeOK
    BY <1>0, <1>e DEF Init, TypeOK
  <1>2. CellInv /\ LeftInv
    BY DEF Init, CellInv, LeftInv
  <1>3. Len(accepted) = 0
    BY DEF Init
  <1>4. FloorInv
    BY <1>3 DEF FloorInv, FloorsHold
  <1> QED BY <1>1, <1>2, <1>4 DEF IInv

(* An accepted request finds the cell empty and the worker ready.             *)
LEMMA AcceptedAnswer ==
    ASSUME NEW r \in Request, NEW floor, Answer(r, floor) = "accepted"
    PROVE  /\ request = None /\ ready /\ ~shutdown /\ ~stopped
           /\ ~(r.step <= lastStep) /\ ~(r.epoch < floor)
  BY DEF Answer

(* Appending a request above both floors keeps the floors.                    *)
LEMMA FloorsAppend ==
    ASSUME TypeOK, FloorInv, NEW r \in Request,
           ~(r.step <= lastStep), r.epoch = 0 \/ ~(r.epoch < lastEpoch),
           accepted' = Append(accepted, r), lastStep' = r.step,
           lastEpoch' = IF r.epoch = 0 THEN lastEpoch ELSE r.epoch
    PROVE  FloorInv'
  <1>1. /\ Len(accepted') = Len(accepted) + 1
        /\ accepted'[Len(accepted) + 1] = r
        /\ \A i \in 1 .. Len(accepted) : accepted'[i] = accepted[i]
    BY DEF TypeOK
  <1>n. \A q \in Request : q.step \in Nat /\ q.epoch \in Nat
    BY BoundAssumption DEF Request
  <1>a. \A i \in 1 .. Len(accepted) : accepted[i] \in Request
    BY DEF TypeOK
  <1>2. /\ Len(accepted) \in Nat /\ r.step \in Nat /\ r.epoch \in Nat
        /\ lastStep \in Nat /\ lastEpoch \in Nat
        /\ \A i \in 1 .. Len(accepted) : accepted[i].step \in Nat /\ accepted[i].epoch \in Nat
    BY <1>n, <1>a, BoundAssumption DEF TypeOK
  <1>3. \A i \in 1 .. Len(accepted') :
           accepted'[i].step <= lastStep' /\ accepted'[i].epoch <= lastEpoch'
    BY <1>1, <1>2 DEF FloorInv
  <1>4. FloorsHold'
    <2> SUFFICES ASSUME NEW i \in 1 .. Len(accepted'), NEW j \in 1 .. Len(accepted'), i < j
                 PROVE  /\ accepted'[i].step < accepted'[j].step
                        /\ accepted'[j].epoch # 0 => accepted'[i].epoch <= accepted'[j].epoch
      BY DEF FloorsHold
    <2>1. i \in 1 .. Len(accepted) /\ accepted'[i] = accepted[i]
      BY <1>1, <1>2
    <2>2. CASE j = Len(accepted) + 1
      BY <1>1, <1>2, <2>1, <2>2 DEF FloorInv
    <2>3. CASE j \in 1 .. Len(accepted)
      BY <1>1, <1>2, <2>1, <2>3 DEF FloorInv, FloorsHold
    <2>4. j = Len(accepted) + 1 \/ j \in 1 .. Len(accepted)
      <3> DEFINE n == Len(accepted)
      <3>1. n \in Nat /\ j \in 1 .. n + 1
        BY <1>1, <1>2
      <3> HIDE DEF n
      <3>2. j = n + 1 \/ j \in 1 .. n
        BY <3>1
      <3> QED BY <3>2 DEF n
    <2> QED BY <2>2, <2>3, <2>4
  <1> QED BY <1>3, <1>4 DEF FloorInv

(* Every step keeps the invariant.                                            *)
LEMMA NextInv == IInv /\ [Next]_vars => IInv'
  <1> SUFFICES ASSUME IInv, [Next]_vars PROVE IInv'
    OBVIOUS
  <1> USE NoneAssumption, NoResultAssumption
  <1>1. ASSUME NEW r \in Request, Submit(r) PROVE IInv'
    <2>1. /\ request = None /\ ready /\ ~shutdown /\ ~stopped
          /\ ~(r.step <= lastStep) /\ ~(r.epoch < lastEpoch)
      BY <1>1, AcceptedAnswer DEF Submit
    <2>2. TypeOK'
      BY <1>1 DEF Submit, IInv, TypeOK, Request
    <2>3. CellInv'
      BY <1>1, <2>1 DEF Submit, IInv, CellInv, TypeOK
    <2>4. LeftInv'
      BY <1>1, <2>1 DEF Submit, IInv, LeftInv, TypeOK
    <2>5. FloorInv'
      BY <1>1, <2>1, FloorsAppend DEF Submit, IInv
    <2> QED BY <2>2, <2>3, <2>4, <2>5 DEF IInv
  <1>2. ASSUME NEW r \in Request, SubmitOwnerDisposition(r) PROVE IInv'
    <2>1. /\ request = None /\ ready /\ ~shutdown /\ ~stopped /\ ~(r.step <= lastStep)
      BY <1>2, AcceptedAnswer DEF SubmitOwnerDisposition
    <2>2. TypeOK'
      BY <1>2 DEF SubmitOwnerDisposition, IInv, TypeOK, Request
    <2>3. CellInv'
      BY <1>2, <2>1 DEF SubmitOwnerDisposition, IInv, CellInv, TypeOK
    <2>4. LeftInv'
      BY <1>2, <2>1 DEF SubmitOwnerDisposition, IInv, LeftInv, TypeOK
    <2>5. FloorInv'
      BY <1>2, <2>1, FloorsAppend DEF SubmitOwnerDisposition, IInv
    <2> QED BY <2>2, <2>3, <2>4, <2>5 DEF IInv
  <1>3. ASSUME Consume \/ Reconcile \/ RequestShutdown PROVE IInv'
    <2>1. TypeOK'
      BY <1>3 DEF Consume, Reconcile, RequestShutdown, IInv, TypeOK
    <2>2. CellInv'
      BY <1>3 DEF Consume, Reconcile, RequestShutdown, IInv, CellInv
    <2>3. LeftInv'
      BY <1>3 DEF Consume, Reconcile, RequestShutdown, IInv, LeftInv, CellInv, Pending
    <2>4. FloorInv'
      BY <1>3 DEF Consume, Reconcile, RequestShutdown, IInv, FloorInv, FloorsHold
    <2> QED BY <2>1, <2>2, <2>3, <2>4 DEF IInv
  <1>4. ASSUME Start PROVE IInv'
    <2>1. TypeOK'
      BY <1>4 DEF Start, IInv, TypeOK
    <2>2. CellInv' /\ LeftInv'
      BY <1>4 DEF Start, IInv, CellInv, LeftInv, Pending
    <2>3. FloorInv'
      BY <1>4 DEF Start, IInv, FloorInv, FloorsHold
    <2> QED BY <2>1, <2>2, <2>3 DEF IInv
  <1>5. ASSUME Take PROVE IInv'
    <2>0. request \in Request
      BY <1>5 DEF Take, IInv, TypeOK, Pending
    <2>a. executed' \in Seq(Request)
      BY <1>5, <2>0 DEF Take, IInv, TypeOK
    <2>1. TypeOK'
      BY <1>5, <2>0, <2>a DEF Take, IInv, TypeOK
    <2>2. CellInv'
      BY <1>5 DEF Take, IInv, CellInv, Pending
    <2>3. LeftInv' /\ FloorInv'
      BY <1>5 DEF Take, IInv, LeftInv, FloorInv, FloorsHold, Pending
    <2> QED BY <2>1, <2>2, <2>3 DEF IInv
  <1>6. ASSUME NEW outcome \in Outcome, Finish(outcome) PROVE IInv'
    <2>1. /\ work = request /\ request # None /\ completion' = [of |-> work, outcome |-> outcome]
          /\ work \in Request
      BY <1>6 DEF Finish, IInv, CellInv, TypeOK
    <2>2. completion' \in Result /\ completion' # None /\ completion'.of = request
      BY <2>1 DEF Result
    <2>3. TypeOK'
      BY <1>6, <2>2 DEF Finish, IInv, TypeOK
    <2>4. CellInv'
      BY <1>6, <2>2 DEF Finish, IInv, CellInv
    <2>5. LeftInv' /\ FloorInv'
      BY <1>6, <2>2 DEF Finish, IInv, LeftInv, CellInv, FloorInv, FloorsHold, Pending
    <2> QED BY <2>3, <2>4, <2>5 DEF IInv
  <1>7. ASSUME Leave PROVE IInv'
    BY <1>7 DEF Leave, cell, IInv, TypeOK, CellInv, LeftInv, FloorInv, FloorsHold, Pending
  <1>8. ASSUME Stop PROVE IInv'
    BY <1>8 DEF Stop, IInv, TypeOK, CellInv, LeftInv, FloorInv, FloorsHold, Pending
  <1>9. ASSUME UNCHANGED vars PROVE IInv'
    BY <1>9 DEF vars, cell, IInv, TypeOK, CellInv, LeftInv, FloorInv, FloorsHold, Pending
  <1> QED
    BY <1>1, <1>2, <1>3, <1>4, <1>5, <1>6, <1>7, <1>8, <1>9 DEF Next, Callers, Worker

(* The inductive invariant holds in every reachable state.                    *)
THEOREM Invariance == Spec => []IInv
  BY InitInv, NextInv, PTL DEF Spec

(* Type correctness of the executor.                                          *)
THEOREM TypeCorrect == Spec => []TypeOK
  BY Invariance, PTL DEF IInv

(* A visible completion is always the retained request's.                     *)
THEOREM CompletionOwned == Spec => []OwnCompletion
  <1>1. IInv => OwnCompletion
    BY DEF IInv, CellInv, OwnCompletion
  <1> QED BY <1>1, Invariance, PTL

(* execute() is called once per accepted request, in order.                   *)
THEOREM ExecutedOnce == Spec => []OnceInOrder
  <1>1. IInv => OnceInOrder
    BY DEF IInv, CellInv, OnceInOrder
  <1> QED BY <1>1, Invariance, PTL

(* Steps and transport epochs of accepted requests never go back.             *)
THEOREM Floors == Spec => []FloorsHold
  <1>1. IInv => FloorsHold
    BY DEF IInv, FloorInv
  <1> QED BY <1>1, Invariance, PTL

(* A stopped executor has drained what it accepted.                           *)
THEOREM ShutdownDrains == Spec => []Drained
  <1>1. IInv => Drained
    BY DEF IInv, CellInv, LeftInv, Drained, Pending
  <1> QED BY <1>1, Invariance, PTL
==============================================================================
