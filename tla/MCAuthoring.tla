------------------------------ MODULE MCAuthoring -----------------------------
(* Undo and redo in one session, and the Project commands they replay: on    *)
(* Patterns and slots, and on Pads, Assets and performances.                 *)
EXTENDS AuthoringSession, TLC

VARIABLES part, st, log, zero, failed
commandVars == <<st, log, zero, failed>>
PatternOps == {"slot_assign", "slot_clear", "slot_move", "create", "merge", "edit", "resize", "double", "copy"}
PadOps == {"import", "assign", "import_assign", "adopt", "install", "colour", "playback", "settings",
           "performance_create", "performance_append", "performance_bind", "performance_save", "performance_delete"}

Patterns == INSTANCE ProjectCommands WITH Banks <- 1, Sixteenth <- 2, BarTicks <- 4, AssetIds <- {"a1"},
  PatternIds <- {"p1", "p2"}, PerformanceIds <- {}, BankPads <- 1, SlotCount <- 3, LongestBars <- 2, Ops <-
  PatternOps, MaxRevision <- 3
Pads == INSTANCE ProjectCommands WITH Banks <- 1, Sixteenth <- 2, BarTicks <- 4, AssetIds <- {"a1", "a2",
  "a3"}, PatternIds <- {"p1"}, PerformanceIds <- {"f1"}, BankPads <- 2, SlotCount <- 1, LongestBars <- 1, Ops
  <- PadOps, MaxRevision <- 3
ASSUME Patterns!CommandAssumption /\ Pads!CommandAssumption
-------------------------------------------------------------------------------
(* The components side by side, each in an initial state; a behaviour moves  *)
(* one of them.                                                              *)
Parts == {"session", "patterns", "pads"}
MCInit ==
  /\ part \in Parts /\ Init
  /\ IF part = "pads" THEN Pads!Init ELSE Patterns!Init
MCNext ==
  /\ UNCHANGED part
  /\ \/ part = "session" /\ Next /\ UNCHANGED <<commandVars>>
     \/ part = "patterns" /\ Patterns!Next /\ UNCHANGED <<vars>>
     \/ part = "pads" /\ Pads!Next /\ UNCHANGED <<vars>>
MCSpec == MCInit /\ [][MCNext]_<<part, vars, commandVars>>
Perms == Permutations(Content)
-------------------------------------------------------------------------------
(* Replaying the recorded commands gives the Project that was committed, and *)
(* a Pattern made longer keeps what was in it (ProjectCommands).             *)
ReplayReproduces ==
  /\ part = "patterns" => Patterns!ReplayReproduces /\ Patterns!LengthensLosslessly
  /\ part = "pads" => Pads!ReplayReproduces

(* A command that is accepted leads to a Project the next load accepts, and  *)
(* so does every event a recording quantises and swings (ProjectCommands).   *)
CommitsWhatItAccepts ==
  /\ part = "patterns" => Patterns!CommitsWhatItAccepts /\ Patterns!RecordedIsValid
  /\ part = "pads" => Pads!CommitsWhatItAccepts

(* A command changes nothing but what it names and makes no empty revision   *)
(* (ProjectCommands); an edit that takes the Project back to where its group *)
(* began leaves the two stacks as they were before the group                 *)
(* (AuthoringSession).                                                       *)
EditsAreLocal ==
  /\ CancelRestores
  /\ [][/\ part = "patterns" => Patterns!EditIsLocal /\ Patterns!NoEmptyRevision
        /\ part = "pads" => Pads!EditIsLocal /\ Pads!NoEmptyRevision]_commandVars
===============================================================================
