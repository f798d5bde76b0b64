------------------------------- MODULE MCEngine -------------------------------
(* Three ways in which control hands something to the audio callback without *)
(* waiting for it: the last value of a channel, sample Banks and Patterns    *)
(* (Engine); and the Pattern transport controller, which learns late, and    *)
(* from a worker too, what the callback did with its inputs.                 *)
EXTENDS Engine

VARIABLES part, c, presses, holds, switches, io, en, journal, publish, heard, excused, count
controllerVars == <<c, presses, holds, switches, io, en, journal, publish, heard, excused, count>>
Bars == [p \in {"a", "b"} |-> IF p = "a" THEN 2 ELSE 3]
Switches == [pattern : {"a"}, switch : {TRUE}, auth : {TRUE}]
Edits == [pattern : {"a"}, switch : {FALSE}, auth : {FALSE}] \cup [pattern : {"b"}, switch : {TRUE}, auth : BOOLEAN]

(* Mail with two sets of requests: edits and a switch to a Pattern with a Bar *)
(* of its own, and switches alone for more frames.                            *)
Switching == INSTANCE PatternMailbox WITH Slots <- PatternSlots, MaxGen <- MaxPattern, Requests <- Switches,
  MaxFrame <- 5, slots <- mailSlots, local <- mailLocal, current <- mailCurrent, audio <- mailAudio,
  gens <- mailGens
Controller == INSTANCE TransportController WITH MaxInputs <- 1, MaxRequests <- 1, Capacity <- 2,
  SwitchCapacity <- 1, MaxEvents <- 1, Faults <- {"refused", "unknown", "voice", "stop"}, inputs <- presses
ASSUME Controller!ControllerAssumption /\ Switching!MailboxAssumption /\ Mail!MailboxAssumption /\ Banks!BanksAssumption
-------------------------------------------------------------------------------
(* The components side by side, each in an initial state; a behaviour moves  *)
(* one of them.                                                              *)
Parts == {"values", "switches", "edits", "banks", "controller"}
MCInit ==
  /\ part \in Parts /\ Init
  /\ IF part = "edits" THEN Mail!Init ELSE Switching!Init
  /\ Banks!Init
  /\ Controller!Init
MCNext ==
  /\ UNCHANGED part
  /\ \/ part = "values" /\ Next /\ UNCHANGED <<mailVars, bankVars, controllerVars>>
     \/ part = "switches" /\ Switching!Next /\ UNCHANGED <<vars, bankVars, controllerVars>>
     \/ part = "edits" /\ Mail!Next /\ UNCHANGED <<vars, bankVars, controllerVars>>
     \/ part = "banks" /\ Banks!Next /\ UNCHANGED <<vars, mailVars, controllerVars>>
     \/ part = "controller" /\ Controller!Next /\ UNCHANGED <<vars, mailVars, bankVars>>
MCSpec == MCInit /\ [][MCNext]_<<part, vars, mailVars, bankVars, controllerVars>>
-------------------------------------------------------------------------------
(* A closed take holds every press heard between its opening and its cutoff, *)
(* once and in order, and no settled release leaves a note sounding in it,   *)
(* whatever the engine, the worker or the disk refused meanwhile             *)
(* (TransportController).                                                    *)
InputKept == part = "controller" => Controller!TypeOK /\ Controller!JournalOrdered /\ Controller!NothingLost /\ Controller!ReleaseSound /\ Controller!RetainedDurable
===============================================================================
