------------------------------ MODULE MCMaterial ------------------------------
(* Where the material of a Project comes from: runs of a generator and their *)
(* Candidates, imported, resampled and installed samples, the Sound Set      *)
(* store, and the writer lease of the Web storage they are kept under.       *)
EXTENDS WebWriterLease

VARIABLES part, terminal, dir, run, starts, jobFaults, jobEntry, owner, set, active, execution, begun, found,
          adopting, adopted, project, sessions, sampleStaging, used, host, sampleCalls, holder, deletes, last,
          sampleFaults, sets, intent, setStaging, lease, setCalls, catalog, answered, left, setFaults
jobVars == <<terminal, dir, run, starts, jobFaults, jobEntry, owner, set, active, execution, begun, found,
            adopting, adopted>>
sampleVars == <<project, sessions, sampleStaging, used, host, sampleCalls, holder, deletes, last,
            sampleFaults>>
setVars == <<sets, intent, setStaging, lease, setCalls, catalog, answered, left, setFaults>>
ASSUME WriterAssumption
LeaseRealm == [c1 |-> "control", c2 |-> "control", w1 |-> "worker"]
SetBlobs == [s \in {"whole", "slot"} |-> IF s = "whole" THEN {"demo", "kick"} ELSE {"kick"}]

Jobs == INSTANCE CandidateJobs WITH None <- Nil, Inspector <- "inspector", Executors <- {"e1", "e2"}, Ids <-
  {"i1", "i2"}, Artifacts <- {"a"}, Web <- FALSE, MaxOutputs <- 1, MaxStarts <- 3, MaxFaults <- 0, faults <-
  jobFaults, entry <- jobEntry
FailingJobs == INSTANCE CandidateJobs WITH None <- Nil, Inspector <- "inspector", Executors <- {"e1", "e2"},
  Ids <- {"i1", "i2"}, Artifacts <- {"a"}, Web <- FALSE, MaxOutputs <- 1, MaxStarts <- 2, MaxFaults <- 1,
  faults <- jobFaults, entry <- jobEntry
WebJobs == INSTANCE CandidateJobs WITH None <- Nil, Inspector <- "inspector", Executors <- {"e1", "e2"}, Ids
  <- {"i1"}, Artifacts <- {"a1", "a2"}, Web <- TRUE, MaxOutputs <- 2, MaxStarts <- 2, MaxFaults <- 2, faults
  <- jobFaults, entry <- jobEntry
Importing == INSTANCE SampleAuthoring WITH Nil <- Nil, Cmds <- {"k1", "k2"}, Files <- {"f"}, Chunks <- [f |->
  2], Bytes <- [f |-> 2], BankLimit <- 2, ProjectLimit <- 3, MaxSessions <- 1, MaxRevision <- 2, Callers <-
  {"h", "g"}, Far <- {}, Tokens <- {"t"}, Pads <- {"p1"}, Bank <- [p1 |-> 0], Kinds <- {"import", "update",
  "delete"}, MaxFaults <- 1, staging <- sampleStaging, calls <- sampleCalls, faults <- sampleFaults
Sharing == INSTANCE SampleAuthoring WITH Nil <- Nil, Cmds <- {"k1", "k2"}, Files <- {"f"}, Chunks <- [f |->
  2], Bytes <- [f |-> 2], BankLimit <- 2, ProjectLimit <- 3, MaxSessions <- 1, MaxRevision <- 2, Callers <-
  {"h", "far"}, Far <- {"far"}, Tokens <- {"t"}, Pads <- {"p1", "p2"}, Bank <- [p1 |-> 0, p2 |-> 1], MaxFaults
  <- 0, Kinds <- {"import", "install"}, staging <- sampleStaging, calls <- sampleCalls, faults <- sampleFaults
Refilling == INSTANCE SampleAuthoring WITH Nil <- Nil, Cmds <- {"k1", "k2"}, Files <- {"f"}, Chunks <- [f |->
  2], Bytes <- [f |-> 2], BankLimit <- 2, ProjectLimit <- 3, MaxSessions <- 1, MaxRevision <- 2, Callers <-
  {"h", "far"}, Far <- {"far"}, Tokens <- {"t"}, Pads <- {"p1", "p2"}, Bank <- [p1 |-> 0, p2 |-> 1], MaxFaults
  <- 0, Kinds <- {"resample", "install", "slot"}, staging <- sampleStaging, calls <- sampleCalls, faults <-
  sampleFaults
Store == INSTANCE SoundSetStore WITH Sets <- {"whole", "slot"}, Slots <- {"slot"}, Manifest <- "manifest",
  Blobs <- SetBlobs, Bytes <- [f \in {"manifest", "demo", "kick"} |-> 1], MaxFaults <- 2, Nil <- Nil, Hosts <-
  {"h1", "h2"}, StagingLimit <- 5, Copying <- TRUE, Faults <- {"catalog", "storage", "crash", "licence"},
  staging <- setStaging, calls <- setCalls, faults <- setFaults
OneHost == INSTANCE SoundSetStore WITH Sets <- {"whole", "slot"}, Slots <- {"slot"}, Manifest <- "manifest",
  Blobs <- SetBlobs, Bytes <- [f \in {"manifest", "demo", "kick"} |-> 1], MaxFaults <- 2, Nil <- Nil, Hosts <-
  {"h1"}, StagingLimit <- 4, Copying <- FALSE, Faults <- {"catalog", "storage", "crash"}, staging <-
  setStaging, calls <- setCalls, faults <- setFaults
ASSUME Jobs!InspectorAssumption /\ FailingJobs!InspectorAssumption /\ WebJobs!InspectorAssumption /\
       Jobs!AttemptConstants /\ FailingJobs!AttemptConstants /\ WebJobs!AttemptConstants /\
       Importing!SampleAssumption /\ Sharing!SampleAssumption /\ Refilling!SampleAssumption /\
       Store!SoundSetAssumption /\ OneHost!SoundSetAssumption
-------------------------------------------------------------------------------
(* The components side by side, each in an initial state; a behaviour moves  *)
(* one of them.                                                              *)
Parts == {"lease", "jobs", "failing_jobs", "web_jobs", "importing", "sharing", "refilling", "store",
  "one_host"}
MCInit ==
  /\ part \in Parts /\ Init
  /\ IF part = "web_jobs" THEN WebJobs!Init ELSE IF part = "failing_jobs" THEN FailingJobs!Init ELSE Jobs!Init
  /\ IF part = "refilling" THEN Refilling!Init ELSE IF part = "sharing" THEN Sharing!Init ELSE Importing!Init
  /\ IF part = "one_host" THEN OneHost!Init ELSE Store!Init
MCNext ==
  /\ UNCHANGED part
  /\ \/ part = "lease" /\ Next /\ UNCHANGED <<jobVars, sampleVars, setVars>>
     \/ part = "jobs" /\ Jobs!Next /\ UNCHANGED <<vars, sampleVars, setVars>>
     \/ part = "failing_jobs" /\ FailingJobs!Next /\ UNCHANGED <<vars, sampleVars, setVars>>
     \/ part = "web_jobs" /\ WebJobs!Next /\ UNCHANGED <<vars, sampleVars, setVars>>
     \/ part = "importing" /\ Importing!Next /\ UNCHANGED <<vars, jobVars, setVars>>
     \/ part = "sharing" /\ Sharing!Next /\ UNCHANGED <<vars, jobVars, setVars>>
     \/ part = "refilling" /\ Refilling!Next /\ UNCHANGED <<vars, jobVars, setVars>>
     \/ part = "store" /\ Store!Next /\ UNCHANGED <<vars, jobVars, sampleVars>>
     \/ part = "one_host" /\ OneHost!Next /\ UNCHANGED <<vars, jobVars, sampleVars>>
MCSpec == MCInit /\ [][MCNext]_<<part, vars, jobVars, sampleVars, setVars>>
-------------------------------------------------------------------------------
(* A record of success is backed by all its outputs, the Job state can be    *)
(* read again, its Candidate Sets verify, and no recovery decides the entry  *)
(* of a run in progress (CandidateJobs, AttemptStore).                       *)
WholeSuccess ==
  /\ part = "jobs" => Jobs!WholeSuccess /\ Jobs!StateReadable /\ Jobs!SetsVerifiable /\ Jobs!LiveUndisturbed
  /\ part = "failing_jobs" => FailingJobs!TypeOK /\ FailingJobs!WholeSuccess /\ FailingJobs!StateReadable
                            /\ FailingJobs!SetsVerifiable /\ FailingJobs!LiveUndisturbed
  /\ part = "web_jobs" => WebJobs!WholeSuccess

(* A cancelled entry stays cancelled and an acknowledged record unchanged,   *)
(* although the run goes on (CandidateJobs).                                 *)
CancelWins == [][part = "jobs" => Jobs!CancelStays /\ Jobs!RecordStays /\ Jobs!AdoptIsActive]_jobVars

(* Every measured revision is within the quota, and staged bytes stay while  *)
(* an import needs them (SampleAuthoring).                                   *)
QuotaKept ==
  /\ part = "sharing" => Sharing!QuotaKept /\ Sharing!StagingHeld
  /\ part = "refilling" => Refilling!QuotaKept

(* An import begun before its Pad was deleted never lands after the          *)
(* deletion, and the host knows the sessions that are open                   *)
(* (SampleAuthoring).                                                        *)
DeletedStaysEmpty == part = "importing" => Importing!DeletedStaysEmpty /\ Importing!HostTracks

(* A Sound Set that a Host lists, was told is stored, or is offered, can be  *)
(* read whole, and no staging is left unaccounted for (SoundSetStore).       *)
OfferedInstalls ==
  /\ part = "store" => Store!OfferedInstalls /\ Store!AnsweredIsListed /\ Store!StagingAccounted
  /\ part = "one_host" => OneHost!ListedWhole /\ OneHost!StagingBounded
===============================================================================
