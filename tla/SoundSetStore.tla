----------------------------- MODULE SoundSetStore -----------------------------
(* Sound Sets a Catalog declares are acquired into the Workspace: staged file  *)
(* by file, checked against their hashes, and published as one directory.      *)
(* Hosts share the Workspace; each serialises its own calls.  A platform that  *)
(* cannot rename publishes by copying under an intent: a record beside the     *)
(* destination that hides it until the copy is committed, and that tells the   *)
(* next writer lease what an interrupted publication left.                     *)
EXTENDS Naturals, FiniteSets, FiniteSetsExt, TLC

CONSTANTS Nil,
          Hosts,
          Sets, Slots,         \* destinations: whole Sets, and the slots of Sets among them
          Manifest, Blobs,     \* Blobs[s]: the Artifacts a destination stores
          Bytes,               \* Bytes[f]: the length of a file
          StagingLimit,        \* maximum_soundset_staging_bytes
          Copying,             \* whether the platform publishes by copying
          Faults,              \* what may go wrong: "catalog", "storage", "crash", "licence"
          MaxFaults            \* bound

Files(s) == {Manifest} \cup Blobs[s]

SoundSetAssumption ==
  /\ Slots \subseteq Sets /\ Copying \in BOOLEAN /\ {StagingLimit, MaxFaults} \subseteq Nat
  /\ \A s \in Sets : \A f \in Files(s) : Bytes[f] \in Nat

VARIABLES sets,      \* destination -> Nil, or the files in its directory and whether they are genuine
          intent,    \* destination -> Nil, "pending" (or unreadable, which counts as that), "committed"
          staging,   \* destination -> Nil or the staged files
          lease,     \* destination -> the Host that holds its writer lease, or Nil
          calls,     \* Host -> Nil or [set, entry, phase]
          catalog,   \* destination -> "agrees" or "differs": the licence the Catalog shows
          answered,  \* destinations some Host was told are stored
          left,      \* destinations whose staging a crash or a failed removal left
          faults
vars == <<sets, intent, staging, lease, calls, catalog, answered, left, faults>>

NoFiles == [f \in {} |-> "good"]
Init ==
  /\ sets = [s \in Sets |-> Nil] /\ intent = [s \in Sets |-> Nil] /\ staging = [s \in Sets |-> Nil]
  /\ lease = [s \in Sets |-> Nil] /\ calls = [h \in Hosts |-> Nil]
  /\ catalog = [s \in Sets |-> "agrees"] /\ answered = {} /\ left = {} /\ faults = 0

Fault(kind) == kind \in Faults /\ faults < MaxFaults /\ faults' = faults + 1
At(h, phase) == calls[h] # Nil /\ calls[h].phase = phase
Goto(h, phase) == calls' = [calls EXCEPT ![h].phase = phase]
-------------------------------------------------------------------------------
(* A directory with a pending intent is not listed; loading checks the         *)
(* manifest alone.                                                             *)
Enumerated(s) == sets[s] # Nil /\ intent[s] # "pending"
Good(s, files) == sets[s] # Nil /\ \A f \in files : f \in DOMAIN sets[s] /\ sets[s][f] = "good"
Loads(s) == Good(s, {Manifest})

(* read_slot_artifact(): the slot is listed and its Artifact hashes.           *)
SlotReads(s) == Enumerated(s) /\ Loads(s) /\ Good(s, Blobs[s])

(* read_artifact() of each: what is read is hashed again.                      *)
Decodes(s) == Good(s, Blobs[s])

(* soundset_catalog_list() offers a listed Set the Catalog does not contradict;*)
(* resolve_soundset() reads it by its hash, listed or not.                     *)
Offered(s) == Enumerated(s) /\ Loads(s) /\ catalog[s] = "agrees"
Resolves(s) == (IF s \in Slots THEN SlotReads(s) ELSE Loads(s)) /\ catalog[s] = "agrees" /\ Decodes(s)

(* unique_total() of what is acquired, and staged_bytes() of the whole area. *)
Need(s) == MapThenSumSet(LAMBDA f : Bytes[f], Files(s))
StagedIn(ss) == MapThenSumSet(LAMBDA s : MapThenSumSet(LAMBDA f : Bytes[f], DOMAIN staging[s]), {s \in ss : staging[s] # Nil})

(* The call ends and its destination lease with it.                            *)
Ended(h) ==
  /\ calls' = [calls EXCEPT ![h] = Nil]
  /\ lease' = [s \in Sets |-> IF lease[s] = h THEN Nil ELSE lease[s]]

Cleared(s) == staging' = [staging EXCEPT ![s] = Nil] /\ left' = left \ {s}

(* discard(): the staged bytes go, unless their removal fails.                 *)
Discard(s) ==
  \/ Cleared(s)
  \/ "storage" \in Faults /\ left' = left \cup {s} /\ UNCHANGED staging
-------------------------------------------------------------------------------
(* acquire(), acquire_slot(): for an entry of the Catalog.                     *)
Acquire(h, s) ==
  /\ calls[h] = Nil
  /\ calls' = [calls EXCEPT ![h] = [set |-> s, entry |-> catalog[s], phase |-> "called"]]
  /\ UNCHANGED <<sets, intent, staging, lease, catalog, answered, left, faults>>

(* What is stored is the answer; a slot is read and its licence checked.       *)
Answer(h, s) ==
  /\ answered' = IF s \in Slots => SlotReads(s) /\ calls[h].entry = "agrees" THEN answered \cup {s} ELSE answered
  /\ Ended(h) /\ UNCHANGED <<sets, intent, staging, catalog, left, faults>>

(* A listed Set is answered without a lease; a listing that fails answers no.  *)
Cached(h) ==
  /\ At(h, "called")
  /\ \/ Enumerated(calls[h].set) /\ Loads(calls[h].set) /\ Answer(h, calls[h].set)
     \/ /\ IF Enumerated(calls[h].set) /\ Loads(calls[h].set) THEN Fault("storage") ELSE UNCHANGED faults
        /\ Goto(h, "leasing") /\ UNCHANGED <<sets, intent, staging, lease, catalog, answered, left>>

(* Mutant: the lease leaves an interrupted copy where it is.                   *)
NotRecovered(s) == sets[s]

(* recoverPublicationIntent(): a copy that was not committed goes.             *)
Recovered(s) == IF intent[s] = "pending" THEN Nil ELSE sets[s]

(* Its other case: the source of a committed copy goes.                        *)
RecoverTree(s) ==
  sets' = [sets EXCEPT ![s] = Recovered(s)] /\ IF intent[s] = "committed" THEN Cleared(s) ELSE UNCHANGED <<staging, left>>

(* The record is removed last; where a removal fails there is no lease.        *)
Recover(h, s) ==
  \/ /\ RecoverTree(s) /\ intent' = [intent EXCEPT ![s] = Nil]
     /\ lease' = [lease EXCEPT ![s] = h] /\ Goto(h, "leased") /\ UNCHANGED faults
  \/ /\ RecoverTree(s) \/ UNCHANGED <<sets, staging, left>>
     /\ Fault("storage") /\ Ended(h) /\ UNCHANGED intent

LeaseDestination(h) ==
  /\ At(h, "leasing")
  /\ LET s == calls[h].set IN
       IF lease[s] # Nil THEN Ended(h) /\ UNCHANGED <<sets, intent, staging, left, faults>> ELSE Recover(h, s)
  /\ UNCHANGED <<catalog, answered>>

(* Under the lease: published meanwhile, damaged, or to be acquired.           *)
Decide(h) ==
  /\ At(h, "leased")
  /\ LET s == calls[h].set IN
       IF Loads(s) THEN Answer(h, s)
       ELSE /\ IF sets[s] # Nil THEN Ended(h) ELSE Goto(h, "fetching") /\ UNCHANGED lease
            /\ UNCHANGED <<sets, intent, staging, catalog, answered, left, faults>>

(* The manifest: genuine, of this identity, eligible; or refused.              *)
Fetch(h) ==
  /\ At(h, "fetching")
  /\ \/ calls[h].entry = "agrees" /\ Goto(h, "reserving") /\ UNCHANGED <<lease, faults>>
     \/ calls[h].entry # "agrees" /\ Ended(h) /\ UNCHANGED faults
     \/ Fault("catalog") /\ Ended(h)
  /\ UNCHANGED <<sets, intent, staging, catalog, answered, left>>

(* Own leftovers are cleared before the area is measured.                      *)
Reserve(h) ==
  /\ At(h, "reserving")
  /\ LET s == calls[h].set
         fits == StagedIn(Sets \ {s}) + Need(s) <= StagingLimit
     IN  /\ IF fits THEN Goto(h, "staging") /\ UNCHANGED lease ELSE Ended(h)
         /\ staging' = [staging EXCEPT ![s] = IF fits THEN NoFiles ELSE Nil]
         /\ left' = left \ {s}
  /\ UNCHANGED <<sets, intent, catalog, answered, faults>>

(* An Artifact is staged only when its length and hash are as declared.        *)
Staged(s, f, sent) ==
  IF sent = "good" THEN [staging EXCEPT ![s] = (f :> sent) @@ @] ELSE staging

Refuse(h, s) == Ended(h) /\ Discard(s)

(* The manifest first, then each Artifact in turn.                             *)
Stage(h, f, sent) ==
  /\ At(h, "staging")
  /\ LET s == calls[h].set IN
       /\ f \in Files(s) \ DOMAIN staging[s] /\ (f = Manifest \/ Manifest \in DOMAIN staging[s])
       /\ IF sent = "bad" THEN f # Manifest /\ Fault("catalog") ELSE UNCHANGED faults
       /\ LET now == Staged(s, f, sent) IN
            IF f \in DOMAIN now[s]
            THEN /\ staging' = now /\ UNCHANGED <<left, lease>>
                 /\ IF DOMAIN now[s] = Files(s) THEN Goto(h, "publishing") ELSE UNCHANGED calls
            ELSE Refuse(h, s)
  /\ UNCHANGED <<sets, intent, catalog, answered>>

(* The Catalog or the staging platform fails.                                  *)
StageFails(h) ==
  /\ At(h, "staging") /\ faults < MaxFaults /\ Faults \cap {"catalog", "storage"} # {}
  /\ staging' = [staging EXCEPT ![calls[h].set] = Nil] /\ left' = left \ {calls[h].set}
  /\ faults' = faults + 1 /\ Ended(h)
  /\ UNCHANGED <<sets, intent, catalog, answered>>

(* publish_directory_if_absent(): a rename, or the pending intent of a copy.   *)
(* The lease and Decide leave no destination that is there.                    *)
Publish(h) ==
  /\ At(h, "publishing")
  /\ LET s == calls[h].set IN
       IF Copying
       THEN /\ intent' = [intent EXCEPT ![s] = "pending"] /\ Goto(h, "copying")
            /\ UNCHANGED <<sets, staging, lease, answered, left, faults>>
       ELSE /\ sets' = [sets EXCEPT ![s] = staging[s]] /\ staging' = [staging EXCEPT ![s] = Nil] /\ Ended(h)
            /\ answered' = answered \cup {s} /\ UNCHANGED <<intent, left, faults>>
  /\ UNCHANGED catalog

(* copyDirectoryBounded(): the directory with its first file; a storage that   *)
(* loses bytes need not say so.                                                *)
Copied(s) == IF sets[s] = Nil THEN NoFiles ELSE sets[s]
Copy(h, f, written) ==
  /\ At(h, "copying")
  /\ LET s == calls[h].set IN
       /\ f \in DOMAIN staging[s] \ DOMAIN Copied(s)
       /\ IF written = "good" THEN UNCHANGED faults ELSE Fault("storage")
       /\ sets' = [sets EXCEPT ![s] = (f :> IF written = "good" THEN staging[s][f] ELSE "bad") @@ Copied(s)]
  /\ UNCHANGED <<intent, staging, lease, calls, catalog, answered, left>>

(* compareDirectoriesBounded(): the copy is compared with its source.          *)
Compare(h) ==
  /\ At(h, "copying")
  /\ LET s == calls[h].set IN
       /\ DOMAIN Copied(s) = DOMAIN staging[s]
       /\ Goto(h, IF sets[s] = staging[s] THEN "compared" ELSE "undoing")
  /\ UNCHANGED <<sets, intent, staging, lease, catalog, answered, left, faults>>

(* replacePublicationCommitted(): the record is replaced in one step.          *)
Commit(h) ==
  /\ At(h, "compared")
  /\ intent' = [intent EXCEPT ![calls[h].set] = "committed"] /\ Goto(h, "committed")
  /\ UNCHANGED <<sets, staging, lease, catalog, answered, left, faults>>

(* The record is read back, the source goes and the record after it; from the  *)
(* commit on every failure is answered as success.                             *)
Settle(h) ==
  /\ At(h, "committed")
  /\ LET s == calls[h].set IN
       /\ \/ Cleared(s) /\ intent' = [intent EXCEPT ![s] = Nil] /\ UNCHANGED faults
          \/ Fault("storage") /\ Discard(s) /\ UNCHANGED intent
       /\ answered' = answered \cup {s} /\ Ended(h)
  /\ UNCHANGED <<sets, catalog>>

(* Before the commit a failure undoes the copy; its record goes only once the  *)
(* destination is seen to be gone.                                             *)
Undo(h) ==
  /\ At(h, "undoing")
  /\ LET s == calls[h].set IN
       /\ \/ sets' = [sets EXCEPT ![s] = Nil] /\ intent' = [intent EXCEPT ![s] = Nil] /\ UNCHANGED faults
          \/ Fault("storage") /\ sets' \in {sets, [sets EXCEPT ![s] = Nil]} /\ UNCHANGED intent
       /\ Refuse(h, s)
  /\ UNCHANGED <<catalog, answered>>

(* The copy fails; or the intent is not written, in part or with its answer    *)
(* lost, and stays; or the rename fails before or after its effect.            *)
CopyFails(h) ==
  /\ At(h, "copying") \/ At(h, "compared")
  /\ Fault("storage") /\ Goto(h, "undoing")
  /\ UNCHANGED <<sets, intent, staging, lease, catalog, answered, left>>
PublishFails(h) ==
  /\ At(h, "publishing") /\ Fault("storage")
  /\ LET s == calls[h].set IN
       /\ IF Copying THEN intent' \in {intent, [intent EXCEPT ![s] = "pending"]} /\ UNCHANGED sets
          ELSE sets' \in {sets, [sets EXCEPT ![s] = staging[s]]} /\ UNCHANGED intent
       /\ IF sets' # sets THEN Cleared(s) /\ Ended(h) ELSE Refuse(h, s)
  /\ UNCHANGED <<catalog, answered>>

(* A Host ends: its leases are free, its staging, copy and record stay.        *)
Crash(h) ==
  /\ calls[h] # Nil /\ Fault("crash") /\ Ended(h)
  /\ left' = IF staging[calls[h].set] # Nil THEN left \cup {calls[h].set} ELSE left
  /\ UNCHANGED <<sets, intent, staging, catalog, answered>>

(* The Catalog shows another licence for a Set.                                *)
Relicense(s) ==
  /\ Fault("licence") /\ catalog' = [catalog EXCEPT ![s] = IF @ = "agrees" THEN "differs" ELSE "agrees"]
  /\ UNCHANGED <<sets, intent, staging, lease, calls, answered, left>>

Step(h) ==
  \/ Cached(h) \/ LeaseDestination(h) \/ Decide(h) \/ Fetch(h) \/ Reserve(h) \/ Publish(h)
  \/ Compare(h) \/ Commit(h) \/ Settle(h) \/ Undo(h)
  \/ \E s \in Sets : \E f \in Files(s), sent \in {"good", "bad"} : Copy(h, f, sent) \/ Stage(h, f, sent)
Next ==
  \/ \E h \in Hosts : \/ Step(h) \/ StageFails(h) \/ CopyFails(h) \/ PublishFails(h) \/ Crash(h)
                     \/ \E s \in Sets : Acquire(h, s)
  \/ \E s \in Sets : Relicense(s)
Spec == Init /\ [][Next]_vars
FairSpec ==
  /\ Spec /\ \A h \in Hosts : WF_vars(Step(h))
  /\ \A s \in Sets : SF_vars(\E h \in Hosts : Acquire(h, s))
-------------------------------------------------------------------------------
(* A Set that is listed is complete and genuine: every file it declares is     *)
(* there and hashes as declared, however the publication was interrupted.      *)
ListedWhole == \A s \in Sets : Enumerated(s) => sets[s] = [f \in Files(s) |-> "good"]

(* A Host is never told that a Set is stored which another one would not list. *)
AnsweredIsListed == \A s \in answered : Enumerated(s)

(* What a Catalog listing offers can be inspected, auditioned and installed:   *)
(* every Artifact it declares can be read and hashes as declared.              *)
OfferedInstalls == \A s \in Sets : Offered(s) => Resolves(s)

(* Staging is somebody's work in progress, or the mark of a crash or of a      *)
(* removal that failed: a refusal gives its bytes back.                        *)
StagingAccounted ==
  \A s \in Sets : staging[s] # Nil => s \in left \/ \E h \in Hosts : calls[h] # Nil /\ calls[h].set = s /\ lease[s] = h

(* The staging area never holds more than its limit.                           *)
StagingBounded == StagedIn(Sets) <= StagingLimit

(* Once the failures end, a Host that keeps refreshing its Catalog gets every  *)
(* Set stored whole: no interrupted attempt is in the way for ever.            *)
EverySetArrives == \A s \in Sets : <>(Enumerated(s) /\ Good(s, Files(s)))
===============================================================================
