---------------------------- MODULE MCProjectFiles ----------------------------
(* Project bundles on disk: one process that fails at every file operation   *)
(* and crashes, two processes that share a bundle, bundles imported and      *)
(* duplicated by one process and by two.                                     *)
EXTENDS ProjectStore
CONSTANTS t1, t2

VARIABLES part, trees, staging, projects, leases, procs, journal, acked, litter, spent
bundleVars == <<trees, staging, projects, leases, procs, journal, acked, litter, spent>>

Alone == INSTANCE ProjectStore WITH Blob <- {"b1", "b2"}, MaxRevision <- 3, MaxFaults <- 2
Importing == INSTANCE BundleTransfer WITH Ids <- {"a", "b"}, Up <- {"p1"}, MaxCrashes <- 1, Nil <- None, Procs <-
  {"p1"}, Tokens <- {t1, t2}, Sizes <- <<2, 0>>, Versions <- 1 .. 2, Surfaces <- {"import"}, MaxFaults <- 1,
  MaxEdits <- 0, MaxTrees <- 1
Shared == INSTANCE BundleTransfer WITH Ids <- {"a", "b"}, Up <- {"p1"}, MaxCrashes <- 1, Nil <- None, Procs <-
  {"p1", "p2"}, Tokens <- {t1, t2}, Sizes <- <<1, 0>>, Versions <- {1}, Surfaces <- {"import"}, MaxFaults <- 1,
  MaxEdits <- 0, MaxTrees <- 1
Duplicate == INSTANCE BundleTransfer WITH Ids <- {"a", "b"}, Up <- {"p1"}, MaxCrashes <- 1, Nil <- None, Procs
  <- {"p1", "p2"}, Tokens <- {t1}, Sizes <- <<1>>, Versions <- {1}, Surfaces <- {"import", "duplicate"},
  MaxFaults <- 0, MaxEdits <- 2, MaxTrees <- 3
ASSUME /\ Alone!StoreAssumption /\ Importing!BundleAssumption /\ Shared!BundleAssumption
       /\ Duplicate!BundleAssumption
-------------------------------------------------------------------------------
(* The bundle as two processes share it, or as one process after the other   *)
(* authors it, beside the import and the duplication of bundles; a behaviour *)
(* moves one of the five.                                                    *)
Parts == {"together", "alone", "import", "shared", "duplicate"}
MCInit ==
  /\ part \in Parts
  /\ IF part = "alone" THEN Alone!Init ELSE Init
  /\ CASE part = "duplicate" -> Duplicate!Init [] part = "shared" -> Shared!Init [] OTHER -> Importing!Init
MCNext ==
  /\ UNCHANGED part
  /\ \/ part = "together" /\ Next /\ UNCHANGED bundleVars
     \/ part = "alone" /\ Alone!OneAtATime /\ UNCHANGED bundleVars
     \/ part = "import" /\ Importing!Next /\ UNCHANGED vars
     \/ part = "shared" /\ Shared!Next /\ UNCHANGED vars
     \/ part = "duplicate" /\ Duplicate!Next /\ UNCHANGED vars
MCSpec == MCInit /\ [][MCNext]_<<part, vars, bundleVars>>
Perms == Permutations(Process) \cup Permutations(Command) \cup Permutations({t1, t2})
-------------------------------------------------------------------------------
(* The types of the store's variables; and while one process at a time       *)
(* authors the Project, its Undo and Redo find their audio bytes through     *)
(* failed commits, clean-up and recovery (ProjectStore).                     *)
BytesKept ==
  /\ part = "together" => TypeOK
  /\ part = "alone" => Alone!RetainedBytes

(* An import that crashes, fails or is retried publishes a whole Project or  *)
(* none, with one process at a time. With two, and for a duplicate, one      *)
(* Project alone may lack entries: that whose staging a starting process     *)
(* took between the release of its lease and its rename; and no published    *)
(* entry is ever a wrong one. A session in which chunks are still sent keeps *)
(* its staging although another process starts and cleans up; and what is    *)
(* left the next start may remove (BundleTransfer).                          *)
PublishedWhole ==
  /\ part = "import" => Importing!PublishedWhole /\ Importing!NothingLeft
  /\ part = "shared" => Shared!WholeUnlessOvertaken /\ Shared!LiveKept /\ Shared!NothingLeft
  /\ part = "duplicate" => Duplicate!WholeUnlessOvertaken /\ Duplicate!LiveKept /\ Duplicate!NothingLeft

(* What the import is documented to be, an atomic publication of a complete  *)
(* Project: also while another process starts (BundleTransfer).              *)
PublishedAtomically == part = "shared" => Shared!PublishedWhole

(* A published Project is never replaced, one that was answered as imported  *)
(* is there, and a published duplicate is the head of its source             *)
(* (BundleTransfer).                                                         *)
PublishedStays ==
  [][/\ part = "import" => Importing!NeverReplaces /\ Importing!AnsweredIsThere
     /\ part = "shared" => Shared!NeverReplaces /\ Shared!AnsweredIsThere
     /\ part = "duplicate" => Duplicate!CopiesHead /\ Duplicate!NeverReplaces]_bundleVars
===============================================================================
