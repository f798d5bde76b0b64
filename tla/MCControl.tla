------------------------------- MODULE MCControl ------------------------------
(* From a gesture to the audio thread and into a take: the ring between      *)
(* them, and the live effect controls with their recording and replay.       *)
EXTENDS SpscQueue
CONSTANTS Nil

VARIABLES part, eng, core, rec, take, rep
liveVars == <<eng, core, rec, take, rep>>

Live == INSTANCE LiveControl WITH Stages <- {"delay"}, Params <- {1}, Values <- {1, 2}, Capacity <- 2,
  Surfaces <- {"live", "record", "restart", "fault"}, MaxControls <- 3, MaxEpoch <- 2
Shared == INSTANCE LiveControl WITH Stages <- {"delay"}, Params <- {1}, Values <- {1}, Capacity <- 2,
  Surfaces <- {"live", "record", "legacy", "restart", "fault"}, MaxControls <- 3, MaxEpoch <- 2
Record == INSTANCE LiveControl WITH Stages <- {"delay"}, Params <- {1}, Values <- {1}, Capacity <- 2, Surfaces
  <- {"live", "record", "fault"}, MaxControls <- 4, MaxEpoch <- 1
Replay == INSTANCE LiveControl WITH Stages <- {"delay"}, Params <- {1}, Values <- {1}, Capacity <- 1, Surfaces
  <- {"live", "legacy", "replay"}, MaxControls <- 2, MaxEpoch <- 1
ASSUME Live!ControlAssumption /\ Shared!ControlAssumption /\
       Record!ControlAssumption /\ Replay!ControlAssumption /\ Live!FxAssumption /\
       Shared!FxAssumption /\ Record!FxAssumption /\ Replay!FxAssumption
-------------------------------------------------------------------------------
(* The components side by side, each in an initial state; a behaviour moves  *)
(* one of them.                                                              *)
Parts == {"ring", "live", "shared", "record", "replay"}
MCInit ==
  /\ part \in Parts /\ Init
  /\ IF part = "replay" THEN Replay!Init ELSE IF part = "record" THEN Record!Init ELSE Live!Init
MCNext ==
  /\ UNCHANGED part
  /\ \/ part = "ring" /\ Next /\ UNCHANGED liveVars
     \/ part = "live" /\ Live!Next /\ UNCHANGED vars
     \/ part = "shared" /\ Shared!Next /\ UNCHANGED vars
     \/ part = "record" /\ Record!Next /\ UNCHANGED vars
     \/ part = "replay" /\ Replay!Next /\ UNCHANGED vars
MCSpec == MCInit /\ [][MCNext]_<<part, vars, liveVars>>
-------------------------------------------------------------------------------
(* What the core reports as accepted and as applied is what the master bus   *)
(* does, and no control of an earlier engine start reaches a later one, but  *)
(* for a cell held over the restart, for session-free gestures before the    *)
(* core has observed it, and for a control frozen while such a gesture was   *)
(* made; a replay that ends leaves the effects neutral (LiveControl).        *)
AppliedIsHeard ==
  /\ part \in {"live", "shared"} =>
       Live!ShadowMirrors /\ Live!AppliedIsHeard /\ Live!EngagedIsBound /\ Live!EpochIsolated
  /\ part = "replay" => Replay!ResetIsNeutral

(* Replaying a take from its header gives what was heard while it was        *)
(* recorded, but for events recorded and refused by the bus and for a legacy *)
(* engagement of the Filter over an open typed gesture (LiveControl).        *)
TakeReproduces ==
  /\ part = "record" => Record!TakeReproduces /\ Record!FenceKept
  /\ part \in {"live", "shared"} => Shared!TakeReproduces /\ Shared!FenceKept
===============================================================================
