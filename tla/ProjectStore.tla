----------------------------- MODULE ProjectStore -----------------------------
(* The commit and recovery protocol of a Project bundle:                      *)
(* packages/project-io/src/project_store.cpp over the native storage          *)
(* platform. Processes share the bundle's files; each holds the writer lease  *)
(* for one operation at a time, may crash between any two file operations,    *)
(* and may see any file operation fail, with or without its effect.           *)
(*                                                                            *)
(* The n-th transaction of the manifest takes the Project from revision n - 1 *)
(* to n, so the manifest is the sequence of its command identities, head      *)
(* revision included. File bodies are written whole (create_immutable links a *)
(* synced sibling, replace_complete renames one); the siblings themselves     *)
(* have unguessable names, are never read, and are left out.                  *)
EXTENDS AuthoringHistory, FiniteSets

CONSTANTS Process,              \* processes that open the bundle
          Command,              \* command identities
          Blob,                 \* content-addressed audio artifacts
          Mark,                 \* authored content other than assets
          MaxRevision,          \* bound on the head revision
          MaxFaults             \* bound on I/O failures and crashes

VARIABLES
    manifest,       \* manifest.json: committed command ids, or None
    checkpoints,    \* history/checkpoints/<rev>.json
    transactions,   \* history/transactions/<rev>-<command>.json
    blobs,          \* assets/<sha256>.wav
    lease,          \* the process that holds the writer lease
    pc,             \* where a process is
    kind,           \* the operation it is in
    loaded,         \* the LoadedProject: command ids and content
    request,        \* the command being committed: identity and operation
    staged,         \* artifacts still to publish
    fresh,          \* newly_published_artifacts
    strict,         \* is the cleanup in progress cleanup_unpublished()?
    history,        \* the process's AuthoringHistory object
    prepared,       \* the state its Publication would install
    acknowledged,   \* commands reported committed to some caller
    faults          \* failures and crashes so far

disk == <<manifest, checkpoints, transactions, blobs>>
memory == <<pc, kind, loaded, request, staged, fresh, strict, history, prepared>>
vars == <<disk, lease, memory, acknowledged, faults>>

------------------------------------------------------------------------------
(* Project content and commands                                               *)

Revision == 0 .. MaxRevision
Name     == (1 .. MaxRevision) \X Command
Content  == [assets : SUBSET Blob, mark : Mark]

Edit(m)    == [kind |-> "edit", mark |-> m]
Import(bs) == [kind |-> "import", blobs |-> bs]
Authored   == {Edit(m) : m \in Mark} \union {Import(bs) : bs \in (SUBSET Blob) \ {{}}}
Restored(from, to) == [kind |-> "restore", from |-> from, to |-> to]
Op == Authored \union {Restored(f, t) : f \in Content, t \in Content}

(* apply_command(): refused unless it applies                                 *)
Applies(op, content) ==
    CASE op.kind = "edit"    -> TRUE
      [] op.kind = "import"  -> op.blobs \intersect content.assets = {}
      [] op.kind = "restore" -> op.from = content

Apply(op, content) ==
    CASE op.kind = "edit"    -> [content EXCEPT !.mark = op.mark]
      [] op.kind = "import"  -> [content EXCEPT !.assets = @ \union op.blobs]
      [] op.kind = "restore" -> op.to

ASSUME StoreAssumption ==
    /\ MaxRevision \in Nat /\ MaxFaults \in Nat
    /\ None \notin Content /\ None \notin Op /\ None \notin Process /\ None \notin Seq(Command)

Committed(log, c) == \E i \in DOMAIN log : log[i] = c

(* load_project() without its asset check: checkpoint 0 and every listed      *)
(* transaction replay to the head checkpoint.                                 *)
Replays(log) ==
    /\ checkpoints[0] # None
    /\ checkpoints[Len(log)] # None
    /\ \A i \in 1 .. Len(log) : transactions[<<i, log[i]>>] # None
    /\ LET replay[n \in 0 .. Len(log)] ==
             IF n = 0 THEN checkpoints[0] ELSE Apply(transactions[<<n, log[n]>>], replay[n - 1])
       IN  /\ \A n \in 1 .. Len(log) : Applies(transactions[<<n, log[n]>>], replay[n - 1])
           /\ replay[Len(log)] = checkpoints[Len(log)]

(* ... and every referenced blob is there.                                    *)
AssetsPresent(content) == content.assets \subseteq blobs

------------------------------------------------------------------------------
NoProject == [log |-> <<>>, content |-> None]
NoRequest == [cmd |-> None, op |-> None]

Init ==
    /\ manifest = None
    /\ checkpoints = [r \in Revision |-> None]
    /\ transactions = [n \in Name |-> None]
    /\ blobs = {}
    /\ lease = None
    /\ pc = [p \in Process |-> "idle"]
    /\ kind = [p \in Process |-> "none"]
    /\ loaded = [p \in Process |-> NoProject]
    /\ request = [p \in Process |-> NoRequest]
    /\ staged = [p \in Process |-> {}]
    /\ fresh = [p \in Process |-> {}]
    /\ strict = [p \in Process |-> FALSE]
    /\ history = [p \in Process |-> Closed]
    /\ prepared = [p \in Process |-> None]
    /\ acknowledged = {}
    /\ faults = 0

Goto(p, label) == pc' = [pc EXCEPT ![p] = label]

(* The operation returns: its locals are gone and the lease is released.     *)
Return(p) ==
    /\ pc' = [pc EXCEPT ![p] = "idle"]
    /\ kind' = [kind EXCEPT ![p] = "none"]
    /\ loaded' = [loaded EXCEPT ![p] = NoProject]
    /\ request' = [request EXCEPT ![p] = NoRequest]
    /\ staged' = [staged EXCEPT ![p] = {}]
    /\ fresh' = [fresh EXCEPT ![p] = {}]
    /\ strict' = [strict EXCEPT ![p] = FALSE]
    /\ prepared' = [prepared EXCEPT ![p] = None]
    /\ lease' = IF lease = p THEN None ELSE lease

(* A file operation fails, within the bound.                                  *)
Fault == faults < MaxFaults /\ faults' = faults + 1

HeadRevision(p) == Len(loaded[p].log)

locals == <<kind, loaded, request, staged, fresh, strict, prepared>>

------------------------------------------------------------------------------
(* Beginning an operation. Every operation that writes takes the lease first; *)
(* a caller that finds it taken is turned away, load() reads on without it,   *)
(* and Undo/Redo gives up its history.                                        *)

Acquire(p, k) ==
    /\ pc[p] = "idle"
    /\ lease = None
    /\ lease' = p
    /\ kind' = [kind EXCEPT ![p] = k]
    /\ Goto(p, IF k = "create" THEN "create" ELSE "load")
    /\ UNCHANGED <<disk, loaded, request, staged, fresh, strict, history, prepared, acknowledged, faults>>

(* restore_authoring_history() or inspect_authoring_history() with the lease  *)
(* taken by another process                                                   *)
OwnerLost(p) ==
    /\ pc[p] = "idle"
    /\ lease \notin {None, p}
    /\ history' = [history EXCEPT ![p] = Invalidate(@)]
    /\ UNCHANGED <<disk, lease, pc, locals, acknowledged, faults>>

(* close_authoring_history()                                                  *)
CloseHistory(p) ==
    /\ pc[p] = "idle"
    /\ history' = [history EXCEPT ![p] = Closed]
    /\ UNCHANGED <<disk, lease, pc, locals, acknowledged, faults>>

(* load_project() under the lease. Undo/Redo and inspection reconcile the     *)
(* history and go on; every other operation recovers uncommitted files first. *)
Load(p) ==
    /\ pc[p] = "load"
    /\ IF manifest # None /\ Replays(manifest) /\ AssetsPresent(checkpoints[Len(manifest)])
       THEN /\ loaded' = [loaded EXCEPT ![p] =
                            [log |-> manifest, content |-> checkpoints[Len(manifest)]]]
            /\ history' = [history EXCEPT ![p] =
                            Reconcile(@, Len(manifest), checkpoints[Len(manifest)])]
            /\ Goto(p, IF kind[p] = "restore" THEN "decide" ELSE "recover")
            /\ UNCHANGED <<lease, kind, request, staged, fresh, strict, prepared>>
       ELSE Return(p) /\ UNCHANGED history
    /\ UNCHANGED <<disk, acknowledged, faults>>

------------------------------------------------------------------------------
(* recover_uncommitted(): checkpoints, then transactions, then artifacts.     *)

RetainedBlobs(p) ==
    UNION {(e.from.assets \ e.to.assets) \union (e.to.assets \ e.from.assets) :
              e \in RetainedEntries(history[p])}

StaleCheckpoints(p) == {r \in Revision : checkpoints[r] # None /\ r > HeadRevision(p)}

StaleTransactions(p) ==
    {n \in Name : transactions[n] # None /\ n[1] > HeadRevision(p)}

(* Mutant: the artifacts of the Undo and Redo entries are not retained.       *)
StaleBlobsHeadOnly(p) == blobs \ loaded[p].content.assets

StaleBlobs(p) == blobs \ (loaded[p].content.assets \union RetainedBlobs(p))

RemoveStale(p) ==
    /\ pc[p] = "recover"
    /\ \/ \E r \in StaleCheckpoints(p) :
             /\ checkpoints' = [checkpoints EXCEPT ![r] = None]
             /\ UNCHANGED <<transactions, blobs>>
       \/ /\ StaleCheckpoints(p) = {}
          /\ \E n \in StaleTransactions(p) : transactions' = [transactions EXCEPT ![n] = None]
          /\ UNCHANGED <<checkpoints, blobs>>
       \/ /\ StaleCheckpoints(p) = {} /\ StaleTransactions(p) = {}
          /\ \E b \in StaleBlobs(p) : blobs' = blobs \ {b}
          /\ UNCHANGED <<checkpoints, transactions>>
    /\ UNCHANGED <<manifest, lease, memory, acknowledged, faults>>

(* A removal fails: the operation is refused, the rest stays for later.       *)
RemoveStaleFails(p) ==
    /\ pc[p] = "recover"
    /\ StaleCheckpoints(p) # {} \/ StaleTransactions(p) # {} \/ StaleBlobs(p) # {}
    /\ Fault
    /\ Return(p)
    /\ UNCHANGED <<disk, history, acknowledged>>

(* All clean: load() returns, open_authoring_history() starts a session, a    *)
(* command goes on to commit_loaded().                                        *)
Recovered(p) ==
    /\ pc[p] = "recover"
    /\ StaleCheckpoints(p) = {} /\ StaleTransactions(p) = {} /\ StaleBlobs(p) = {}
    /\ IF kind[p] = "command"
       THEN /\ Goto(p, "decide")
            /\ UNCHANGED <<lease, locals, history>>
       ELSE /\ Return(p)
            /\ history' = IF kind[p] = "open"
                          THEN [history EXCEPT ![p] = Start(HeadRevision(p), loaded[p].content)]
                          ELSE history
    /\ UNCHANGED <<disk, acknowledged, faults>>

------------------------------------------------------------------------------
(* commit_loaded(): what becomes of a request. The request arrives here: the  *)
(* steps before do not depend on it.                                          *)

(* Refused without effect: another identity for a known command id, a stale   *)
(* expected revision, a command that does not apply, an active recording      *)
(* journal, nothing to undo.                                                  *)
Refuse(p) ==
    /\ pc[p] = "decide"
    /\ Return(p)
    /\ UNCHANGED <<disk, history, acknowledged, faults>>

(* The command is already committed with this very identity: acknowledged     *)
(* from its receipt, nothing is written. A retry of Undo/Redo needs the       *)
(* session it was made in.                                                    *)
Replay(p) ==
    /\ pc[p] = "decide"
    /\ kind[p] = "restore" => Owns(history[p])
    /\ \E i \in DOMAIN loaded[p].log :
          /\ (kind[p] = "restore") =
               (transactions[<<i, loaded[p].log[i]>>].kind = "restore")
          /\ acknowledged' = acknowledged \union {loaded[p].log[i]}
    /\ Return(p)
    /\ UNCHANGED <<disk, history, faults>>

(* Mutant: receipts of committed commands are not consulted.                  *)
BeginCommandNoReceipt(p) ==
    /\ pc[p] = "decide" /\ kind[p] = "command"
    /\ HeadRevision(p) < MaxRevision
    /\ \E c \in Command, op \in Authored :
          /\ Applies(op, loaded[p].content)
          /\ request' = [request EXCEPT ![p] = [cmd |-> c, op |-> op]]
          /\ staged' = [staged EXCEPT ![p] = IF op.kind = "import" THEN op.blobs ELSE {}]
          /\ prepared' = [prepared EXCEPT ![p] =
                 IF Owns(history[p])
                 THEN PrepareEdit(history[p].state, HeadRevision(p) + 1, loaded[p].content,
                                  Apply(op, loaded[p].content), NoGroup)
                 ELSE None]
    /\ Goto(p, "blob")
    /\ UNCHANGED <<disk, lease, kind, loaded, fresh, strict, history, acknowledged, faults>>

BeginCommand(p) ==
    /\ pc[p] = "decide" /\ kind[p] = "command"
    /\ HeadRevision(p) < MaxRevision
    /\ \E c \in Command, op \in Authored :
          /\ ~Committed(loaded[p].log, c)
          /\ Applies(op, loaded[p].content)
          /\ request' = [request EXCEPT ![p] = [cmd |-> c, op |-> op]]
          /\ staged' = [staged EXCEPT ![p] = IF op.kind = "import" THEN op.blobs ELSE {}]
          /\ prepared' = [prepared EXCEPT ![p] =
                 IF Owns(history[p])
                 THEN PrepareEdit(history[p].state, HeadRevision(p) + 1, loaded[p].content,
                                  Apply(op, loaded[p].content), NoGroup)
                 ELSE None]
    /\ Goto(p, "blob")
    /\ UNCHANGED <<disk, lease, kind, loaded, fresh, strict, history, acknowledged, faults>>

(* Undo or Redo: the content to restore must have all its audio bytes.        *)
BeginRestore(p) ==
    /\ pc[p] = "decide" /\ kind[p] = "restore"
    /\ HeadRevision(p) < MaxRevision
    /\ \E c \in Command, redo \in BOOLEAN :
          /\ ~Committed(loaded[p].log, c)
          /\ CanRestore(history[p], loaded[p].content, redo)
          /\ AssetsPresent(Selected(history[p].state, redo))
          /\ request' = [request EXCEPT ![p] =
                 [cmd |-> c, op |-> Restored(loaded[p].content,
                                             Selected(history[p].state, redo))]]
          /\ prepared' = [prepared EXCEPT ![p] =
                 PrepareRestore(history[p].state, HeadRevision(p) + 1, redo)]
    /\ Goto(p, "blob")
    /\ UNCHANGED <<disk, lease, kind, loaded, staged, fresh, strict, history, acknowledged, faults>>

------------------------------------------------------------------------------
(* Publication of the artifacts, one create_immutable() each; a blob that is  *)
(* already there is verified and not counted as newly published.              *)

PublishArtifact(p, b) ==
    /\ pc[p] = "blob"
    /\ b \in staged[p]
    /\ staged' = [staged EXCEPT ![p] = @ \ {b}]
    /\ blobs' = blobs \union {b}
    /\ fresh' = [fresh EXCEPT ![p] = IF b \in blobs THEN @ ELSE @ \union {b}]
    /\ UNCHANGED <<manifest, checkpoints, transactions, lease, pc, kind, loaded, request,
                   strict, history, prepared, acknowledged, faults>>

(* create_immutable() fails before or after the file is linked: what was      *)
(* published before is removed.                                               *)
PublishArtifactFails(p, b) ==
    /\ pc[p] = "blob"
    /\ b \in staged[p]
    /\ Fault
    /\ blobs' \in {blobs, blobs \union {b}}
    /\ Goto(p, "un_blob")
    /\ UNCHANGED <<manifest, checkpoints, transactions, lease, locals, history, acknowledged>>

File(p) == <<HeadRevision(p) + 1, request[p].cmd>>

(* The transaction file                                                       *)
WriteTransaction(p) ==
    /\ pc[p] = "blob"
    /\ staged[p] = {}
    /\ IF transactions[File(p)] = None
       THEN /\ transactions' = [transactions EXCEPT ![File(p)] = request[p].op]
            /\ Goto(p, "checkpoint")
       ELSE /\ Goto(p, "un_blob")
            /\ UNCHANGED transactions
    /\ UNCHANGED <<manifest, checkpoints, blobs, lease, locals, history, acknowledged, faults>>

WriteTransactionFails(p) ==
    /\ pc[p] = "blob"
    /\ staged[p] = {}
    /\ transactions[File(p)] = None
    /\ Fault
    /\ transactions' \in {transactions, [transactions EXCEPT ![File(p)] = request[p].op]}
    /\ Goto(p, "un_blob")
    /\ UNCHANGED <<manifest, checkpoints, blobs, lease, locals, history, acknowledged>>

NewContent(p) == Apply(request[p].op, loaded[p].content)

(* The checkpoint of the new revision                                         *)
(* Mutant: an existing checkpoint file of that name is taken as written.      *)
WriteCheckpointReuses(p) ==
    /\ pc[p] = "checkpoint"
    /\ checkpoints' = IF checkpoints[HeadRevision(p) + 1] = None
                      THEN [checkpoints EXCEPT ![HeadRevision(p) + 1] = NewContent(p)]
                      ELSE checkpoints
    /\ Goto(p, "claim")
    /\ UNCHANGED <<manifest, transactions, blobs, lease, locals, history, acknowledged, faults>>

WriteCheckpoint(p) ==
    /\ pc[p] = "checkpoint"
    /\ IF checkpoints[HeadRevision(p) + 1] = None
       THEN /\ checkpoints' = [checkpoints EXCEPT ![HeadRevision(p) + 1] = NewContent(p)]
            /\ Goto(p, "claim")
       ELSE /\ Goto(p, "un_transaction")
            /\ UNCHANGED checkpoints
    /\ UNCHANGED <<manifest, transactions, blobs, lease, locals, history, acknowledged, faults>>

WriteCheckpointFails(p) ==
    /\ pc[p] = "checkpoint"
    /\ checkpoints[HeadRevision(p) + 1] = None
    /\ Fault
    /\ checkpoints' \in {checkpoints,
                         [checkpoints EXCEPT ![HeadRevision(p) + 1] = NewContent(p)]}
    /\ Goto(p, "un_transaction")
    /\ UNCHANGED <<manifest, transactions, blobs, lease, locals, history, acknowledged>>

------------------------------------------------------------------------------
(* claim_publish(): the caller's token may refuse, or force a failure after   *)
(* the claim; both end in cleanup_unpublished().                              *)

Claim(p) ==
    /\ pc[p] = "claim"
    /\ Goto(p, "replace")
    /\ UNCHANGED <<disk, lease, locals, history, acknowledged, faults>>

ClaimRefused(p) ==
    /\ pc[p] = "claim"
    /\ strict' = [strict EXCEPT ![p] = TRUE]
    /\ Goto(p, IF kind[p] = "create" THEN "un_checkpoint" ELSE "un_transaction")
    /\ UNCHANGED <<disk, lease, kind, loaded, request, staged, fresh, history, prepared,
                   acknowledged, faults>>

(* Removal of what a commit that will not be published has written. The       *)
(* cleanup of a failed write goes on past a failed removal; the cleanup of an *)
(* unclaimed publication stops at a transaction or checkpoint it cannot       *)
(* remove, but tries every artifact.                                          *)

AfterTransaction(p) == IF strict[p] THEN "un_checkpoint" ELSE "un_blob"

UndoTransaction(p) ==
    /\ pc[p] = "un_transaction"
    /\ transactions' = [transactions EXCEPT ![File(p)] = None]
    /\ Goto(p, AfterTransaction(p))
    /\ UNCHANGED <<manifest, checkpoints, blobs, lease, locals, history, acknowledged, faults>>

UndoTransactionFails(p) ==
    /\ pc[p] = "un_transaction"
    /\ Fault
    /\ IF strict[p] THEN Return(p)
       ELSE Goto(p, AfterTransaction(p)) /\ UNCHANGED <<lease, locals>>
    /\ UNCHANGED <<disk, history, acknowledged>>

CheckpointOf(p) == IF kind[p] = "create" THEN 0 ELSE HeadRevision(p) + 1

UndoCheckpoint(p) ==
    /\ pc[p] = "un_checkpoint"
    /\ checkpoints' = [checkpoints EXCEPT ![CheckpointOf(p)] = None]
    /\ Goto(p, "un_blob")
    /\ UNCHANGED <<manifest, transactions, blobs, lease, locals, history, acknowledged, faults>>

UndoCheckpointFails(p) ==
    /\ pc[p] = "un_checkpoint"
    /\ Fault
    /\ Return(p)
    /\ UNCHANGED <<disk, history, acknowledged>>

UndoArtifact(p) ==
    /\ pc[p] = "un_blob"
    /\ IF fresh[p] = {}
       THEN Return(p) /\ UNCHANGED blobs
       ELSE \E b \in fresh[p] :
               /\ fresh' = [fresh EXCEPT ![p] = @ \ {b}]
               /\ blobs' = blobs \ {b}
               /\ UNCHANGED <<lease, pc, kind, loaded, request, staged, strict, prepared>>
    /\ UNCHANGED <<manifest, checkpoints, transactions, history, acknowledged, faults>>

UndoArtifactFails(p) ==
    /\ pc[p] = "un_blob"
    /\ Fault
    /\ \E b \in fresh[p] : fresh' = [fresh EXCEPT ![p] = @ \ {b}]
    /\ UNCHANGED <<disk, lease, pc, kind, loaded, request, staged, strict, prepared,
                   history, acknowledged>>

------------------------------------------------------------------------------
(* replace_complete() of the manifest is the commit point. The history's      *)
(* publication begins before it and is confirmed after it; when it fails, the *)
(* manifest may or may not have been replaced, nothing is cleaned up and the  *)
(* publication stays pending.                                                 *)

NewManifest(p) == IF kind[p] = "create" THEN <<>> ELSE Append(loaded[p].log, request[p].cmd)

ReplaceManifest(p) ==
    /\ pc[p] = "replace"
    /\ manifest' = NewManifest(p)
    /\ history' = IF kind[p] = "create" THEN history
                  ELSE [history EXCEPT ![p] = Confirm(@, prepared[p])]
    /\ acknowledged' = IF kind[p] = "create" THEN acknowledged
                       ELSE acknowledged \union {request[p].cmd}
    /\ Return(p)
    /\ UNCHANGED <<checkpoints, transactions, blobs, faults>>

ReplaceManifestFails(p) ==
    /\ pc[p] = "replace"
    /\ Fault
    /\ manifest' \in {manifest, NewManifest(p)}
    /\ history' = IF kind[p] = "create" THEN history
                  ELSE [history EXCEPT ![p] = Begin(@, prepared[p])]
    /\ Return(p)
    /\ UNCHANGED <<checkpoints, transactions, blobs, acknowledged>>

------------------------------------------------------------------------------
(* create(): checkpoint 0, reused when a failed creation left the same one,   *)
(* and the empty manifest.                                                    *)

Initial == {c \in Content : c.assets = {}}

CreateCheckpoint(p) ==
    /\ pc[p] = "create"
    /\ \E initial \in Initial :
          IF manifest # None \/ checkpoints[0] \notin {None, initial}
          THEN Return(p) /\ UNCHANGED checkpoints
          ELSE /\ checkpoints' = [checkpoints EXCEPT ![0] = initial]
               /\ Goto(p, "claim")
               /\ UNCHANGED <<lease, locals>>
    /\ UNCHANGED <<manifest, transactions, blobs, history, acknowledged, faults>>

CreateCheckpointFails(p) ==
    /\ pc[p] = "create"
    /\ manifest = None /\ checkpoints[0] = None
    /\ Fault
    /\ \E initial \in Initial :
          checkpoints' \in {checkpoints, [checkpoints EXCEPT ![0] = initial]}
    /\ Return(p)
    /\ UNCHANGED <<manifest, transactions, blobs, history, acknowledged>>

------------------------------------------------------------------------------
(* load() while another process holds the lease reads the files one after the *)
(* other without protection and recovers nothing.                             *)

ReadManifest(p) ==
    /\ pc[p] = "idle"
    /\ lease \notin {None, p}
    /\ manifest # None
    /\ loaded' = [loaded EXCEPT ![p] = [log |-> manifest, content |-> None]]
    /\ kind' = [kind EXCEPT ![p] = "read"]
    /\ Goto(p, "read_history")
    /\ UNCHANGED <<disk, lease, request, staged, fresh, strict, history, prepared, acknowledged, faults>>

ReadHistory(p) ==
    /\ pc[p] = "read_history"
    /\ IF Replays(loaded[p].log)
       THEN /\ loaded' = [loaded EXCEPT ![p] =
                            [log |-> loaded[p].log, content |-> checkpoints[HeadRevision(p)]]]
            /\ Goto(p, "read_assets")
            /\ UNCHANGED <<lease, kind, request, staged, fresh, strict, prepared>>
       ELSE Return(p)
    /\ UNCHANGED <<disk, history, acknowledged, faults>>

(* The last check: every referenced blob is present. Either way it returns.   *)
ReadAssets(p) ==
    /\ pc[p] = "read_assets"
    /\ Return(p)
    /\ UNCHANGED <<disk, history, acknowledged, faults>>

(* The process dies: its memory is gone and the operating system drops the    *)
(* lease. The files stay as they are.                                         *)
Crash(p) ==
    /\ Fault
    /\ Return(p)
    /\ history' = [history EXCEPT ![p] = Closed]
    /\ UNCHANGED <<disk, acknowledged>>

------------------------------------------------------------------------------
Kinds == {"create", "command", "restore", "load", "open"}

Operation(p) ==
    \/ \E k \in Kinds : Acquire(p, k)
    \/ OwnerLost(p) \/ CloseHistory(p)
    \/ Load(p) \/ RemoveStale(p) \/ RemoveStaleFails(p) \/ Recovered(p)
    \/ Refuse(p) \/ Replay(p) \/ BeginCommand(p) \/ BeginRestore(p)
    \/ \E b \in Blob : PublishArtifact(p, b) \/ PublishArtifactFails(p, b)
    \/ WriteTransaction(p) \/ WriteTransactionFails(p)
    \/ WriteCheckpoint(p) \/ WriteCheckpointFails(p)
    \/ Claim(p) \/ ClaimRefused(p)
    \/ UndoTransaction(p) \/ UndoTransactionFails(p)
    \/ UndoCheckpoint(p) \/ UndoCheckpointFails(p)
    \/ UndoArtifact(p) \/ UndoArtifactFails(p)
    \/ ReplaceManifest(p) \/ ReplaceManifestFails(p)
    \/ CreateCheckpoint(p) \/ CreateCheckpointFails(p)
    \/ ReadManifest(p) \/ ReadHistory(p) \/ ReadAssets(p)
    \/ Crash(p)

Next == \E p \in Process : Operation(p)

Spec == Init /\ [][Next]_vars

(* The Project is authored by one process at a time: the others are at rest   *)
(* and have no session open, though they may take over after it.              *)
OneAtATime ==
    \E p \in Process : /\ \A q \in Process \ {p} : pc[q] = "idle" /\ history[q] = Closed
                       /\ Operation(p)

SoloSpec == Init /\ [][OneAtATime]_vars
------------------------------------------------------------------------------
Labels == {"idle", "create", "load", "recover", "decide", "blob", "checkpoint", "claim",
           "replace", "un_transaction", "un_checkpoint", "un_blob", "read_history",
           "read_assets"}

LoadedProject == [log : Seq(Command), content : Content \union {None}]
Request       == [cmd : Command \union {None}, op : Op \union {None}]

FilesTyped ==
    /\ manifest \in Seq(Command) \union {None}
    /\ manifest # None => Len(manifest) <= MaxRevision
    /\ checkpoints \in [Revision -> Content \union {None}]
    /\ transactions \in [Name -> Op \union {None}]
    /\ blobs \subseteq Blob
    /\ acknowledged \subseteq Command
    /\ faults \in 0 .. MaxFaults

MemoryTyped ==
    /\ lease \in Process \union {None}
    /\ pc \in [Process -> Labels]
    /\ kind \in [Process -> Kinds \union {"none", "read"}]
    /\ loaded \in [Process -> LoadedProject]
    /\ request \in [Process -> Request]
    /\ staged \in [Process -> SUBSET Blob]
    /\ fresh \in [Process -> SUBSET Blob]
    /\ strict \in [Process -> BOOLEAN]

(* A process that is in a file operation of a writer holds the lease, so no   *)
(* two are.                                                                   *)
Writing(p) == pc[p] \notin {"idle", "read_history", "read_assets"}
WritersHoldLease == \A p \in Process : Writing(p) => lease = p

(* The types of the variables, and the lease excludes a second writer.        *)
TypeOK == FilesTyped /\ MemoryTyped /\ WritersHoldLease

(* Whatever file operation failed and wherever a process died, the bundle     *)
(* loads: checkpoint 0, every listed transaction, the head checkpoint and     *)
(* every referenced blob are there and replay to the same content. No residue *)
(* of an unpublished commit, and no clean-up of it, ever gets in the way.     *)
Loads == manifest # None => Replays(manifest) /\ AssetsPresent(checkpoints[Len(manifest)])

(* load() without the lease: from the moment it has read the manifest, the    *)
(* history this manifest lists stays complete and unchanged on disk, although *)
(* other processes commit, recover and clean up meanwhile.                    *)
ReaderSound ==
    \A p \in Process : pc[p] = "read_history" => Replays(loaded[p].log)

(* The bundle loads for whoever opens it next, and for everyone who is        *)
(* loading it now.                                                            *)
Recoverable == Loads /\ ReaderSound

(* The audio bytes every Undo and Redo entry needs are still on disk while    *)
(* this process alone authors the Project, through failed commits and the     *)
(* clean-up and recovery after them.                                          *)
RetainedBytes == \A p \in Process : RetainedBlobs(p) \subseteq blobs

(* An Undo or Redo that got as far as writing finds the names of its files    *)
(* free, also on the retry after a failed publication.                        *)
RetryNotBlocked ==
    \A p \in Process :
        pc[p] = "blob" /\ kind[p] = "restore" =>
            transactions[File(p)] = None /\ checkpoints[HeadRevision(p) + 1] = None

Truth == INSTANCE ProjectTruth WITH
            created <- manifest # None,
            log <- IF manifest = None THEN <<>> ELSE manifest

(* The bundle implements the append-only log of commands: a commit is atomic, *)
(* happens at most once per command id whatever is retried, survives every    *)
(* crash, and nothing is acknowledged that is not committed.                  *)
TruthSpec == Truth!ASpec
==============================================================================
