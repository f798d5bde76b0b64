------------------------------ MODULE MCTransport -----------------------------
(* The Pattern transport under fair scheduling: the executor that runs       *)
(* accepted requests on its worker, and the controller whose presses it must *)
(* settle.                                                                   *)
EXTENDS TransportExecutor

VARIABLES part, c, inputs, holds, switches, io, en, journal, publish, heard, excused, count
controllerVars == <<c, inputs, holds, switches, io, en, journal, publish, heard, excused, count>>

Controller == INSTANCE TransportController WITH MaxInputs <- 1, MaxRequests <- 1, MaxEvents <- 1, Faults <-
  {}, Capacity <- 2, SwitchCapacity <- 1
ASSUME Controller!ControllerAssumption
-------------------------------------------------------------------------------
(* The components side by side, each in an initial state; a behaviour moves  *)
(* one of them.                                                              *)
Parts == {"executor", "controller"}
MCInit ==
  /\ part \in Parts /\ Init
  /\ Controller!Init
MCNext ==
  /\ UNCHANGED part
  /\ \/ part = "executor" /\ Next /\ UNCHANGED <<controllerVars>>
     \/ part = "controller" /\ Controller!Next /\ UNCHANGED <<vars>>
(* The worker threads run, the audio device calls back, and the host steps the *)
(* controller again while a step would change something.                       *)
MCFairness ==
  /\ WF_vars(part = "executor" /\ Worker)
  /\ WF_controllerVars(part = "controller" /\ Controller!CallbackBegin)
  /\ WF_controllerVars(part = "controller" /\ Controller!CallbackEnd)
  /\ WF_controllerVars(part = "controller" /\ Controller!Worker)
  /\ []<>(part # "controller" \/ Controller!StepIdle) \/ []<><<part = "controller" /\ Controller!Step>>_controllerVars
  /\ \/ <>[](part # "controller" \/ ~Controller!CanPublish)
     \/ []<><<part = "controller" /\ Controller!Step /\ publish /\ ~publish'>>_controllerVars
MCSpec == MCInit /\ [][MCNext]_<<part, vars, controllerVars>> /\ MCFairness
-------------------------------------------------------------------------------
(* Every accepted press is settled (TransportController).                    *)
PressesSettle == Controller!PressesSettle
===============================================================================
