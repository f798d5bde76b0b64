-------------------------- MODULE ProjectStoreProofs --------------------------
(* A bundle loads whatever failed and whoever died, and it implements the      *)
(* append-only log of commands; and under one author Undo and Redo keep their  *)
(* audio bytes: for every set of processes, commands, contents and artifacts,  *)
(* any number of revisions and of faults.                                      *)
EXTENDS ProjectStore, SequenceTheorems, WellFoundedInduction, TLAPS

(* The files of a log: every listed transaction leads from the checkpoint      *)
(* before it to its own. Only the head checkpoint is ever compared with a      *)
(* replay; that the ones between are right as well is what makes the replay of *)
(* a longer log, and of a reader's shorter one, come out right.                *)
Chain(log) ==
  /\ checkpoints[0] \in Content
  /\ \A i \in 1 .. Len(log) :
       /\ transactions[<<i, log[i]>>] \in Op
       /\ checkpoints[i] \in Content
       /\ Applies(transactions[<<i, log[i]>>], checkpoints[i - 1])
       /\ checkpoints[i] = Apply(transactions[<<i, log[i]>>], checkpoints[i - 1])

Chained == manifest # None => Chain(manifest) /\ AssetsPresent(checkpoints[Len(manifest)])

Committing == {"blob", "checkpoint", "claim", "replace", "un_transaction", "un_checkpoint", "un_blob"}

(* Only a commit in progress has artifacts to publish or to take back.         *)
Clean(p) == pc[p] \notin Committing => staged[p] = {} /\ fresh[p] = {}

(* What a writer has loaded is the head, and no artifact it would take back is *)
(* one the head refers to.                                                     *)
Holds(p) ==
  pc[p] \in Committing \cup {"recover", "decide"} /\ kind[p] # "create" =>
    /\ manifest # None
    /\ loaded[p] = [log |-> manifest, content |-> checkpoints[Len(manifest)]]
    /\ fresh[p] \cap checkpoints[Len(manifest)].assets = {}

(* The commit it is in applies to the head and is new; the artifacts, the      *)
(* transaction and the checkpoint it names are written in this order.          *)
Writes(p) ==
  pc[p] \in Committing /\ kind[p] # "create" =>
    /\ HeadRevision(p) < MaxRevision
    /\ request[p].cmd \in Command /\ ~Committed(loaded[p].log, request[p].cmd)
    /\ request[p].op \in Op /\ Applies(request[p].op, loaded[p].content)
    /\ pc[p] \in {"blob", "checkpoint", "claim", "replace"} =>
         NewContent(p).assets \subseteq blobs \cup staged[p]
    /\ pc[p] \in {"checkpoint", "claim", "replace"} =>
         staged[p] = {} /\ transactions[File(p)] = request[p].op
    /\ pc[p] \in {"claim", "replace"} => checkpoints[HeadRevision(p) + 1] = NewContent(p)

(* A creation finds no manifest, and checkpoint 0 is its own until it gives up.*)
Creates(p) ==
  /\ pc[p] = "create" => kind[p] = "create"
  /\ kind[p] = "create" =>
       /\ pc[p] \in {"create", "claim", "replace", "un_checkpoint", "un_blob"}
       /\ pc[p] # "create" => manifest = None /\ fresh[p] = {}
       /\ pc[p] \in {"claim", "replace"} => checkpoints[0] \in Initial

(* The log a reader without the lease has read is a beginning of the manifest. *)
Reads(p) ==
  pc[p] = "read_history" =>
    /\ manifest # None
    /\ Len(loaded[p].log) <= Len(manifest)
    /\ \A i \in 1 .. Len(loaded[p].log) : loaded[p].log[i] = manifest[i]

Local(p) == Clean(p) /\ Holds(p) /\ Writes(p) /\ Creates(p) /\ Reads(p)

(* The Undo/Redo objects hold contents only, so that what Undo restores is one.*)
EntryType == [from : Content, to : Content, group : {NoGroup}]
StateType ==
  [rev : Nat, content : Content, undo : Seq(EntryType), redo : Seq(EntryType),
   displacedRedo : Seq(EntryType), displacedOldest : Seq(EntryType), disabled : BOOLEAN]
Objects == [state : StateType \cup {None}, before : StateType \cup {None}, after : StateType \cup {None}]
HistoryTyped == history \in [Process -> Objects] /\ prepared \in [Process -> StateType \cup {None}]

IInv == TypeOK /\ HistoryTyped /\ Chained /\ \A p \in Process : Local(p)
-------------------------------------------------------------------------------
(* Every nonempty set of naturals has a least element.                         *)
LEMMA LeastNat ==
  ASSUME NEW T \in SUBSET Nat, T # {}
  PROVE  \E x \in T : \A y \in T : ~(y < x)
PROOF
<1>1. PICK x \in T : \A y \in T : ~(<<y, x>> \in OpToRel(<, Nat))
  BY WFMin, NatLessThanWellFounded
<1>2. \A y \in T : y < x => <<y, x>> \in OpToRel(<, Nat)
  BY DEF OpToRel
<1> QED
  BY <1>1, <1>2

(* Chained files replay: the replay from checkpoint 0 passes through every     *)
(* checkpoint, so it applies throughout and ends at the head.                  *)
LEMMA ChainReplays ==
  ASSUME NEW log \in Seq(Command), Chain(log)
  PROVE  Replays(log)
PROOF
<1> DEFINE m == Len(log)
           step(g) == [n \in 0 .. m |->
                         IF n = 0 THEN checkpoints[0] ELSE Apply(transactions[<<n, log[n]>>], g[n - 1])]
           replay == CHOOSE g : g = step(g)
           witness == [n \in 0 .. m |-> checkpoints[n]]
<1>1. m \in Nat
  BY LenProperties
<1>2. /\ checkpoints[0] \in Content
      /\ \A i \in 1 .. m : /\ transactions[<<i, log[i]>>] \in Op
                           /\ checkpoints[i] \in Content
                           /\ Applies(transactions[<<i, log[i]>>], checkpoints[i - 1])
                           /\ checkpoints[i] = Apply(transactions[<<i, log[i]>>], checkpoints[i - 1])
  BY DEF Chain
<1>3. witness = step(witness)
  <2>1. \A n \in 0 .. m : checkpoints[n] = IF n = 0 THEN checkpoints[0]
                                           ELSE Apply(transactions[<<n, log[n]>>], witness[n - 1])
    BY <1>1, <1>2
  <2> QED
    BY <2>1
<1>4. replay = step(replay)
  BY <1>3
<1> HIDE DEF replay
<1>5. ASSUME NEW n \in 0 .. m PROVE replay[n] = checkpoints[n]
  <2> DEFINE T == {k \in 0 .. m : replay[k] # checkpoints[k]}
  <2>1. SUFFICES ASSUME T # {} PROVE FALSE
    OBVIOUS
  <2>2. T \in SUBSET Nat
    BY <1>1
  <2> HIDE DEF T
  <2>3. PICK x \in T : \A y \in T : ~(y < x)
    BY <2>1, <2>2, LeastNat
  <2> USE DEF T
  <2>4. replay[x] = IF x = 0 THEN checkpoints[0] ELSE Apply(transactions[<<x, log[x]>>], replay[x - 1])
    BY <1>4
  <2>5. x # 0 => x - 1 \in 0 .. m /\ x - 1 < x /\ x \in 1 .. m
    BY <1>1
  <2> QED
    BY <1>2, <2>3, <2>4, <2>5
<1>6. Replays(log) = /\ checkpoints[0] # None
                     /\ checkpoints[m] # None
                     /\ \A i \in 1 .. m : transactions[<<i, log[i]>>] # None
                     /\ \A n \in 1 .. m : Applies(transactions[<<n, log[n]>>], replay[n - 1])
                     /\ replay[m] = checkpoints[m]
  BY DEF Replays, replay
<1>7. checkpoints[0] # None /\ \A i \in 1 .. m : checkpoints[i] # None /\ transactions[<<i, log[i]>>] # None
  BY <1>2, StoreAssumption
<1> HIDE DEF m
<1>8. checkpoints[m] # None
  <2>1. m = 0 \/ m \in 1 .. m
    BY <1>1
  <2> QED
    BY <1>7, <2>1
<1>9. \A n \in 1 .. m : replay[n - 1] = checkpoints[n - 1]
  BY <1>1, <1>5
<1>10. replay[m] = checkpoints[m]
  BY <1>1, <1>5
<1>11. \A n \in 1 .. m : Applies(transactions[<<n, log[n]>>], replay[n - 1])
  BY <1>2, <1>9
<1> QED
  BY <1>6, <1>7, <1>8, <1>10, <1>11

-------------------------------------------------------------------------------
(* The three kinds of command.                                                 *)
LEMMA OpKinds ==
  ASSUME NEW op \in Op
  PROVE  \/ op.kind = "edit" /\ op.mark \in Mark
         \/ op.kind = "import" /\ op.blobs \in SUBSET Blob
         \/ op.kind = "restore" /\ op.to \in Content
  BY DEF Op, Authored, Edit, Import, Restored

(* apply_command() leads from a Project to a Project.                          *)
LEMMA ApplyTyped ==
  ASSUME NEW op \in Op, NEW content \in Content
  PROVE  Apply(op, content) \in Content
PROOF
<1>1. CASE op.kind = "edit" /\ op.mark \in Mark
  BY <1>1 DEF Apply, Content
<1>2. CASE op.kind = "import" /\ op.blobs \in SUBSET Blob
  BY <1>2 DEF Apply, Content
<1>3. CASE op.kind = "restore" /\ op.to \in Content
  BY <1>3 DEF Apply
<1> QED
  BY <1>1, <1>2, <1>3, OpKinds

(* What an authored command adds to the assets of the Project is what it has   *)
(* staged.                                                                     *)
LEMMA AuthoredAssets ==
  ASSUME NEW op \in Authored, NEW content \in Content
  PROVE  /\ op \in Op
         /\ (IF op.kind = "import" THEN op.blobs ELSE {}) \in SUBSET Blob
         /\ Apply(op, content).assets = content.assets \cup IF op.kind = "import" THEN op.blobs ELSE {}
PROOF
<1>1. op \in Op
  BY DEF Op
<1>2. \/ op.kind = "edit" /\ op.mark \in Mark
      \/ op.kind = "import" /\ op.blobs \in SUBSET Blob
  BY DEF Authored, Edit, Import
<1> QED
  BY <1>1, <1>2 DEF Apply, Content

LEMMA RestoredOp ==
  ASSUME NEW from \in Content, NEW to \in Content
  PROVE  /\ Restored(from, to) \in Op
         /\ Applies(Restored(from, to), from)
         /\ Apply(Restored(from, to), from) = to
PROOF
<1>1. Restored(from, to) \in Op
  BY DEF Op
<1>2. Restored(from, to).kind = "restore" /\ Restored(from, to).from = from /\ Restored(from, to).to = to
  BY DEF Restored
<1> HIDE DEF Restored
<1> QED
  BY <1>1, <1>2 DEF Applies, Apply
-------------------------------------------------------------------------------
(* The Undo/Redo object: every operation keeps it an object over contents.     *)
LEMMA StartTyped ==
  ASSUME NEW rev \in Nat, NEW content \in Content
  PROVE  Start(rev, content) \in Objects
PROOF
<1>1. <<>> \in Seq(EntryType)
  BY EmptySeq
<1>2. Start(rev, content).state \in StateType
  BY <1>1 DEF Start, StateType
<1> QED
  BY <1>1, <1>2 DEF Start, Objects, StateType

LEMMA SettledTyped ==
  ASSUME NEW h \in StateType \cup {None}
  PROVE  Settled(h) \in Objects
  BY DEF Settled, Objects

LEMMA ClosedTyped == Closed \in Objects
  BY DEF Closed, Objects

LEMMA InvalidateTyped ==
  ASSUME NEW o \in Objects
  PROVE  Invalidate(o) \in Objects
PROOF
<1>1. CASE o.state = None
  BY <1>1 DEF Invalidate
<1>2. CASE o.state # None
  <2>1. o.state \in StateType /\ <<>> \in Seq(EntryType)
    BY <1>2, EmptySeq DEF Objects
  <2>2. [o.state EXCEPT !.undo = <<>>, !.redo = <<>>, !.displacedRedo = <<>>,
                        !.displacedOldest = <<>>, !.disabled = TRUE] \in StateType
    BY <2>1 DEF StateType
  <2> QED
    BY <1>2, <2>2 DEF Invalidate, Objects
<1> QED
  BY <1>1, <1>2

LEMMA ReconcileTyped ==
  ASSUME NEW o \in Objects, NEW rev, NEW content
  PROVE  Reconcile(o, rev, content) \in Objects
PROOF
<1> DEFINE settled ==
      CASE o.after = None -> o
        [] o.after # None /\ Matches(o.after, rev, content) -> Settled(o.after)
        [] o.after # None /\ ~Matches(o.after, rev, content)
             /\ Matches(o.before, rev, content) -> Settled(o.before)
        [] OTHER -> Invalidate(o)
<1>1. Settled(o.after) \in Objects /\ Settled(o.before) \in Objects /\ Invalidate(o) \in Objects
  <2>1. o.after \in StateType \cup {None} /\ o.before \in StateType \cup {None}
    BY DEF Objects
  <2> QED
    BY <2>1, SettledTyped, InvalidateTyped
<1>2. settled \in {o, Settled(o.after), Settled(o.before), Invalidate(o)}
  OBVIOUS
<1>3. Reconcile(o, rev, content) \in {o, settled, Invalidate(settled)}
  BY DEF Reconcile
<1> HIDE DEF settled
<1>4. settled \in Objects
  BY <1>1, <1>2
<1> QED
  BY <1>3, <1>4, InvalidateTyped

(* Publication::begin() and confirm()                                          *)
LEMMA PublishTyped ==
  ASSUME NEW o \in Objects, NEW next \in StateType \cup {None}
  PROVE  Begin(o, next) \in Objects /\ Confirm(o, next) \in Objects
  BY SettledTyped DEF Begin, Confirm, Objects

LEMMA SealedTyped ==
  ASSUME NEW s \in Seq(EntryType)
  PROVE  Sealed(s) \in Seq(EntryType)
PROOF
<1>1. Len(s) \in Nat /\ DOMAIN s = 1 .. Len(s) /\ \A i \in 1 .. Len(s) : s[i] \in EntryType
  BY LenProperties, ElementOfSeq
<1>2. \A i \in 1 .. Len(s) : [s[i] EXCEPT !.group = NoGroup] \in EntryType
  BY <1>1 DEF EntryType
<1>3. Sealed(s) \in [1 .. Len(s) -> EntryType]
  BY <1>1, <1>2 DEF Sealed
<1> QED
  BY <1>1, <1>3, SeqDef

(* The state an authored command prepares; a store's commands have no group.   *)
LEMMA PrepareEditTyped ==
  ASSUME NEW h \in StateType, NEW rev \in Nat, NEW from \in Content, NEW to \in Content
  PROVE  PrepareEdit(h, rev, from, to, NoGroup) \in StateType
PROOF
<1> DEFINE next == [h EXCEPT !.rev = rev, !.content = to]
           all == Append(Sealed(next.undo), Entry(from, to, NoGroup))
           undo == IF Len(all) > MaxActions THEN Tail(all) ELSE all
           pushed == [next EXCEPT !.undo = undo, !.redo = <<>>, !.displacedRedo = <<>>, !.displacedOldest = <<>>]
<1>1. next \in StateType /\ next.undo \in Seq(EntryType)
  BY DEF StateType
<1> HIDE DEF next
<1>2. all \in Seq(EntryType) /\ all # <<>>
  <2>1. Sealed(next.undo) \in Seq(EntryType) /\ Entry(from, to, NoGroup) \in EntryType
    BY <1>1, SealedTyped DEF Entry, EntryType
  <2> QED
    BY <2>1, AppendProperties
<1> HIDE DEF all
<1>3. undo \in Seq(EntryType) /\ <<>> \in Seq(EntryType)
  BY <1>2, HeadTailProperties, EmptySeq
<1> HIDE DEF undo
<1>4. pushed \in StateType
  BY <1>1, <1>3 DEF StateType
<1>5. Pushed(next, from, to, NoGroup) = pushed
  BY DEF Pushed, undo, all
<1>6. PrepareEdit(h, rev, from, to, NoGroup) \in {next, pushed}
  BY <1>5 DEF PrepareEdit, Merges, next
<1> QED
  BY <1>1, <1>4, <1>6

(* The state Undo or Redo prepares, and the content it leads to.               *)
LEMMA PrepareRestoreTyped ==
  ASSUME NEW o \in Objects, NEW content, NEW redo \in BOOLEAN, CanRestore(o, content, redo), NEW rev \in Nat
  PROVE  Selected(o.state, redo) \in Content /\ PrepareRestore(o.state, rev, redo) \in StateType
PROOF
<1> DEFINE h == o.state
           from == IF redo THEN h.redo ELSE h.undo
           to == IF redo THEN h.undo ELSE h.redo
           moved == Append(to, [Last(from) EXCEPT !.group = NoGroup])
           u == IF redo THEN moved ELSE Front(from)
           r == IF redo THEN Front(from) ELSE moved
<1>1. h \in StateType /\ from \in Seq(EntryType) /\ to \in Seq(EntryType) /\ from # <<>>
  BY DEF CanRestore, Objects, StateType
<1>2. Last(from) \in EntryType /\ Front(from) \in Seq(EntryType)
  <2> HIDE DEF from
  <2>1. Len(from) \in Nat \ {0} /\ \A i \in 1 .. Len(from) : from[i] \in EntryType
    BY <1>1, EmptySeq, ElementOfSeq
  <2>2. Len(from) - 1 \in Nat /\ \A i \in 1 .. Len(from) - 1 : from[i] \in EntryType
    BY <2>1
  <2> QED
    BY <2>1, <2>2, SubSeqProperties DEF Last, Front
<1>3. moved \in Seq(EntryType)
  <2>1. [Last(from) EXCEPT !.group = NoGroup] \in EntryType
    BY <1>2 DEF EntryType
  <2> HIDE DEF from, to
  <2> QED
    BY <1>1, <2>1, AppendProperties
<1>4. Selected(h, redo) = (IF redo THEN Last(from).to ELSE Last(from).from)
  BY DEF Selected
<1>5. Selected(h, redo) \in Content
  BY <1>2, <1>4 DEF EntryType
<1>6. Moved(h, redo) = [h EXCEPT !.undo = u, !.redo = r, !.displacedRedo = <<>>, !.displacedOldest = <<>>]
  BY DEF Moved
<1>7. u \in Seq(EntryType) /\ r \in Seq(EntryType) /\ <<>> \in Seq(EntryType)
  BY <1>2, <1>3, EmptySeq
<1> HIDE DEF u, r, from, h
<1>8. Moved(h, redo) \in StateType
  BY <1>1, <1>6, <1>7 DEF StateType
<1>9. PrepareRestore(h, rev, redo) \in StateType
  BY <1>5, <1>8 DEF PrepareRestore, StateType
<1> QED
  BY <1>5, <1>9 DEF h
-------------------------------------------------------------------------------
(* Frames: what a step of one process leaves of the others.                    *)
SameAt(q) ==
  /\ pc'[q] = pc[q] /\ kind'[q] = kind[q] /\ loaded'[q] = loaded[q] /\ request'[q] = request[q]
  /\ staged'[q] = staged[q] /\ fresh'[q] = fresh[q]
OthersSame(p) == \A q \in Process \ {p} : SameAt(q)

(* All the types of a process's memory.                                        *)
Typed == MemoryTyped /\ WritersHoldLease /\ HistoryTyped

(* The manifest stays, begins or grows by one command.                         *)
Grows == \/ manifest' = manifest
         \/ manifest = None
         \/ manifest # None /\ \E c \in Command : manifest' = Append(manifest, c)

LEMMA NoLocals == NoProject \in LoadedProject /\ NoRequest \in Request
PROOF
<1>1. <<>> \in Seq(Command)
  BY EmptySeq
<1> QED
  BY <1>1 DEF NoProject, NoRequest, LoadedProject, Request

LEMMA ReturnKeeps ==
  ASSUME Typed, NEW p \in Process, Return(p), history' \in [Process -> Objects]
  PROVE  Typed' /\ OthersSame(p) /\ Local(p)'
PROOF
<1>1. MemoryTyped'
  BY NoLocals DEF Typed, MemoryTyped, Return, Labels, Kinds
<1>2. WritersHoldLease'
  <2>1. SUFFICES ASSUME NEW q \in Process, Writing(q)' PROVE lease' = q
    BY DEF WritersHoldLease
  <2>2. q # p /\ Writing(q)
    BY <2>1 DEF Typed, MemoryTyped, Return, Writing
  <2> QED
    BY <2>2 DEF Typed, WritersHoldLease, Return
<1>3. HistoryTyped'
  BY DEF Typed, HistoryTyped, Return
<1>4. OthersSame(p)
  BY DEF Typed, MemoryTyped, OthersSame, SameAt, Return
<1>5. pc'[p] = "idle" /\ kind'[p] = "none" /\ staged'[p] = {} /\ fresh'[p] = {}
  BY DEF Typed, MemoryTyped, Return
<1>6. Local(p)'
  BY <1>5 DEF Local, Clean, Holds, Writes, Creates, Reads, Committing
<1> QED
  BY <1>1, <1>2, <1>3, <1>4, <1>6 DEF Typed

LEMMA GotoKeeps ==
  ASSUME Typed, NEW p \in Process, Writing(p), NEW l \in Labels, Goto(p, l), strict' \in [Process -> BOOLEAN],
         UNCHANGED <<lease, kind, loaded, request, staged, fresh, prepared, history>>
  PROVE  /\ Typed' /\ OthersSame(p) /\ pc'[p] = l /\ kind'[p] = kind[p] /\ loaded'[p] = loaded[p]
         /\ request'[p] = request[p] /\ staged'[p] = staged[p] /\ fresh'[p] = fresh[p]
PROOF
<1>1. MemoryTyped' /\ pc'[p] = l
  BY DEF Typed, MemoryTyped, Goto
<1>2. WritersHoldLease'
  BY DEF Typed, MemoryTyped, WritersHoldLease, Writing, Goto
<1>3. HistoryTyped'
  BY DEF Typed, HistoryTyped
<1>4. OthersSame(p)
  BY DEF Typed, MemoryTyped, OthersSame, SameAt, Goto
<1> QED
  BY <1>1, <1>2, <1>3, <1>4 DEF Typed

(* A reader, or a process that does nothing, does not mind what a writer does. *)
LEMMA BystanderKept ==
  ASSUME FilesTyped, MemoryTyped, NEW q \in Process, Local(q), SameAt(q), ~Writing(q), Grows
  PROVE  Local(q)'
PROOF
<1>1. pc[q] \in {"idle", "read_history", "read_assets"} /\ kind[q] # "create"
  BY DEF Writing, Local, Creates
<1>2. Clean(q)' /\ Holds(q)' /\ Writes(q)' /\ Creates(q)'
  BY <1>1 DEF SameAt, Local, Clean, Holds, Writes, Creates, Committing
<1>3. Reads(q)'
  <2>1. SUFFICES ASSUME pc[q] = "read_history"
                 PROVE  /\ manifest' # None
                        /\ Len(loaded[q].log) <= Len(manifest')
                        /\ \A i \in 1 .. Len(loaded[q].log) : loaded[q].log[i] = manifest'[i]
    BY DEF SameAt, Reads
  <2>2. /\ manifest # None /\ manifest \in Seq(Command) /\ Len(loaded[q].log) <= Len(manifest)
        /\ \A i \in 1 .. Len(loaded[q].log) : loaded[q].log[i] = manifest[i]
    BY <2>1 DEF Local, Reads, FilesTyped
  <2>3. CASE manifest' = manifest
    BY <2>2, <2>3
  <2>4. ASSUME NEW c \in Command, manifest' = Append(manifest, c)
        PROVE  /\ manifest' # None
               /\ Len(loaded[q].log) <= Len(manifest')
               /\ \A i \in 1 .. Len(loaded[q].log) : loaded[q].log[i] = manifest'[i]
    <3>1. /\ manifest' \in Seq(Command) /\ Len(manifest') = Len(manifest) + 1
          /\ \A i \in 1 .. Len(manifest) : manifest'[i] = manifest[i]
      BY <2>2, <2>4, AppendProperties
    <3>2. loaded[q].log \in Seq(Command)
      BY DEF MemoryTyped, LoadedProject
    <3>3. Len(loaded[q].log) \in Nat /\ Len(manifest) \in Nat
      BY <2>2, <3>2, LenProperties
    <3> QED
      BY <2>2, <3>1, <3>3, StoreAssumption
  <2> QED
    BY <2>2, <2>3, <2>4 DEF Grows
<1> QED
  BY <1>2, <1>3 DEF Local

(* The whole invariant after a step of p, from what the step does to the files *)
(* and to p itself.                                                            *)
LEMMA StepKeeps ==
  ASSUME IInv, NEW p \in Process, FilesTyped', Typed', Chained', Local(p)', OthersSame(p),
         UNCHANGED disk \/ (Writing(p) /\ Grows)
  PROVE  IInv'
PROOF
<1>1. SUFFICES ASSUME NEW q \in Process PROVE Local(q)'
  BY DEF IInv, TypeOK, Typed
<1>2. CASE q = p
  BY <1>2
<1>3. ASSUME q # p, Writing(p), Grows PROVE Local(q)'
  <2>1. ~Writing(q)
    BY <1>3 DEF IInv, TypeOK, WritersHoldLease
  <2> QED
    BY <1>3, <2>1, BystanderKept DEF IInv, TypeOK, OthersSame
<1>4. ASSUME q # p, UNCHANGED disk PROVE Local(q)'
  <2>1. SameAt(q) /\ Local(q)
    BY <1>4 DEF IInv, OthersSame
  <2>2. manifest' = manifest /\ checkpoints' = checkpoints /\ transactions' = transactions /\ blobs' = blobs
    BY <1>4 DEF disk
  <2>3. Clean(q)' /\ Creates(q)' /\ Reads(q)'
    BY <2>1, <2>2 DEF SameAt, Local, Clean, Creates, Reads
  <2>4. Holds(q)'
    BY <2>1, <2>2 DEF SameAt, Local, Holds
  <2>5. Writes(q)'
    BY <2>1, <2>2 DEF SameAt, Local, Writes, HeadRevision, NewContent, File
  <2> QED
    BY <2>3, <2>4, <2>5 DEF Local
<1> QED
  BY <1>2, <1>3, <1>4

(* A step that leaves the files of the manifest alone.                         *)
LEMMA ChainedKept ==
  ASSUME FilesTyped, Chained, manifest' = manifest,
         manifest # None =>
           /\ \A i \in 0 .. Len(manifest) : checkpoints'[i] = checkpoints[i]
           /\ \A i \in 1 .. Len(manifest) :
                transactions'[<<i, manifest[i]>>] = transactions[<<i, manifest[i]>>]
           /\ checkpoints[Len(manifest)].assets \subseteq blobs'
  PROVE  Chained'
PROOF
<1>1. SUFFICES ASSUME manifest # None
               PROVE  Chain(manifest)' /\ AssetsPresent(checkpoints[Len(manifest)])'
  BY DEF Chained
<1>2. Len(manifest) \in Nat
  BY <1>1, LenProperties DEF FilesTyped
<1>3. Chain(manifest)
  BY <1>1 DEF Chained
<1>4. checkpoints'[Len(manifest)] = checkpoints[Len(manifest)] /\ checkpoints'[0] = checkpoints[0]
  BY <1>1, <1>2
<1>5. \A i \in 1 .. Len(manifest) : /\ checkpoints'[i] = checkpoints[i] /\ checkpoints'[i - 1] = checkpoints[i - 1]
                                    /\ transactions'[<<i, manifest[i]>>] = transactions[<<i, manifest[i]>>]
  BY <1>1, <1>2
<1> QED
  BY <1>1, <1>3, <1>4, <1>5 DEF Chain, AssetsPresent

(* A step that writes no file at all.                                          *)
LEMMA ChainedStill ==
  ASSUME Chained, UNCHANGED disk
  PROVE  Chained'
  BY DEF disk, Chained, Chain, AssetsPresent
-------------------------------------------------------------------------------
(* The head of a bundle.                                                       *)
LEMMA HeadFacts ==
  ASSUME FilesTyped, Chained, manifest # None
  PROVE  /\ manifest \in Seq(Command) /\ Len(manifest) \in Nat /\ Len(manifest) <= MaxRevision
         /\ checkpoints[Len(manifest)] \in Content
         /\ checkpoints[Len(manifest)].assets \subseteq blobs
         /\ Replays(manifest)
PROOF
<1>1. manifest \in Seq(Command) /\ Len(manifest) \in Nat /\ Len(manifest) <= MaxRevision
  BY LenProperties DEF FilesTyped
<1>2. Chain(manifest) /\ checkpoints[Len(manifest)].assets \subseteq blobs
  BY DEF Chained, AssetsPresent
<1>3. Len(manifest) = 0 \/ Len(manifest) \in 1 .. Len(manifest)
  BY <1>1
<1>4. checkpoints[Len(manifest)] \in Content
  BY <1>2, <1>3 DEF Chain
<1> QED
  BY <1>1, <1>2, <1>4, ChainReplays

(* A commit in progress: what it would publish, and under which names.         *)
LEMMA WriterFacts ==
  ASSUME IInv, NEW p \in Process, pc[p] \in Committing, kind[p] # "create"
  PROVE  /\ manifest # None /\ manifest \in Seq(Command) /\ Len(manifest) \in Nat
         /\ HeadRevision(p) = Len(manifest)
         /\ Len(manifest) + 1 \in Revision /\ Len(manifest) + 1 \in 1 .. MaxRevision
         /\ loaded[p].log = manifest
         /\ loaded[p].content = checkpoints[Len(manifest)]
         /\ request[p].cmd \in Command /\ request[p].op \in Op
         /\ File(p) = <<Len(manifest) + 1, request[p].cmd>> /\ File(p) \in Name
         /\ checkpoints[Len(manifest)] \in Content
         /\ checkpoints[Len(manifest)].assets \subseteq blobs
         /\ NewContent(p) = Apply(request[p].op, checkpoints[Len(manifest)])
         /\ NewContent(p) \in Content
         /\ fresh[p] \cap checkpoints[Len(manifest)].assets = {}
PROOF
<1>1. /\ manifest # None
      /\ loaded[p] = [log |-> manifest, content |-> checkpoints[Len(manifest)]]
      /\ fresh[p] \cap checkpoints[Len(manifest)].assets = {}
  BY DEF IInv, Local, Holds
<1>2. loaded[p].log = manifest /\ loaded[p].content = checkpoints[Len(manifest)]
  BY <1>1
<1>3. /\ HeadRevision(p) < MaxRevision
      /\ request[p].cmd \in Command /\ request[p].op \in Op
  BY DEF IInv, Local, Writes
<1>4. /\ manifest \in Seq(Command) /\ Len(manifest) \in Nat
      /\ checkpoints[Len(manifest)] \in Content /\ checkpoints[Len(manifest)].assets \subseteq blobs
  BY <1>1, HeadFacts DEF IInv, TypeOK
<1>5. HeadRevision(p) = Len(manifest)
  BY <1>2 DEF HeadRevision
<1>6. Len(manifest) + 1 \in Revision /\ Len(manifest) + 1 \in 1 .. MaxRevision
  BY <1>3, <1>4, <1>5, StoreAssumption DEF Revision
<1>7. File(p) = <<Len(manifest) + 1, request[p].cmd>> /\ File(p) \in Name
  BY <1>3, <1>5, <1>6 DEF File, Name
<1>8. NewContent(p) = Apply(request[p].op, checkpoints[Len(manifest)])
  BY <1>2 DEF NewContent
<1>9. NewContent(p) \in Content
  BY <1>3, <1>4, <1>8, ApplyTyped
<1> QED
  BY <1>1, <1>2, <1>3, <1>4, <1>5, <1>6, <1>7, <1>8, <1>9

LEMMA FaultTyped ==
  ASSUME FilesTyped, Fault
  PROVE  faults' \in 0 .. MaxFaults
  BY StoreAssumption DEF FilesTyped, Fault

LEMMA StillTyped ==
  ASSUME FilesTyped, UNCHANGED disk, acknowledged' \in SUBSET Command, faults' \in 0 .. MaxFaults
  PROVE  FilesTyped'
  BY DEF FilesTyped, disk

(* An operation returns and has touched no file.                               *)
LEMMA QuietReturn ==
  ASSUME IInv, NEW p \in Process, Return(p), UNCHANGED disk, history' \in [Process -> Objects],
         acknowledged' \in SUBSET Command, faults' \in 0 .. MaxFaults
  PROVE  IInv'
PROOF
<1>1. FilesTyped'
  BY StillTyped DEF IInv, TypeOK
<1>2. Typed' /\ OthersSame(p) /\ Local(p)'
  BY ReturnKeeps DEF IInv, TypeOK, Typed
<1>3. Chained'
  BY ChainedStill DEF IInv
<1> QED
  BY <1>1, <1>2, <1>3, StepKeeps

LEMMA PlainTyped ==
  ASSUME IInv
  PROVE  history \in [Process -> Objects] /\ acknowledged \in SUBSET Command /\ faults \in 0 .. MaxFaults
  BY DEF IInv, TypeOK, FilesTyped, HistoryTyped

LEMMA ReturningKeeps ==
  ASSUME IInv, NEW p \in Process,
         \/ Refuse(p) \/ RemoveStaleFails(p) \/ UndoCheckpointFails(p) \/ ReadAssets(p) \/ Crash(p)
         \/ (UndoTransactionFails(p) /\ strict[p])
  PROVE  IInv'
PROOF
<1>1. CASE Refuse(p)
  BY <1>1, QuietReturn, PlainTyped DEF Refuse
<1>2. CASE RemoveStaleFails(p)
  BY <1>2, QuietReturn, PlainTyped, FaultTyped DEF RemoveStaleFails, IInv, TypeOK
<1>3. CASE UndoCheckpointFails(p)
  BY <1>3, QuietReturn, PlainTyped, FaultTyped DEF UndoCheckpointFails, IInv, TypeOK
<1>4. CASE ReadAssets(p)
  BY <1>4, QuietReturn, PlainTyped DEF ReadAssets
<1>5. CASE Crash(p)
  <2>1. history' \in [Process -> Objects]
    BY <1>5, ClosedTyped, PlainTyped DEF Crash
  <2> QED
    BY <1>5, <2>1, QuietReturn, PlainTyped, FaultTyped DEF Crash, IInv, TypeOK
<1>6. CASE UndoTransactionFails(p) /\ strict[p]
  BY <1>6, QuietReturn, PlainTyped, FaultTyped DEF UndoTransactionFails, IInv, TypeOK
<1> QED
  BY <1>1, <1>2, <1>3, <1>4, <1>5, <1>6

LEMMA ReplayKeeps ==
  ASSUME IInv, NEW p \in Process, Replay(p)
  PROVE  IInv'
PROOF
<1>1. PICK i \in DOMAIN loaded[p].log : acknowledged' = acknowledged \union {loaded[p].log[i]}
  BY DEF Replay
<1>2. loaded[p].log \in Seq(Command)
  BY DEF IInv, TypeOK, MemoryTyped, LoadedProject
<1>3. loaded[p].log[i] \in Command
  BY <1>1, <1>2, LenProperties, ElementOfSeq
<1>4. acknowledged' \in SUBSET Command
  BY <1>1, <1>3, PlainTyped
<1> QED
  BY <1>4, QuietReturn, PlainTyped DEF Replay

(* Where nothing has begun: the Undo/Redo object alone changes.                *)
LEMMA HistoryOnly ==
  ASSUME IInv, NEW p \in Process, history' \in [Process -> Objects],
         UNCHANGED <<disk, lease, pc, locals, acknowledged, faults>>
  PROVE  IInv'
PROOF
<1>1. FilesTyped' /\ Chained'
  BY StillTyped, ChainedStill, PlainTyped DEF IInv, TypeOK
<1>2. Typed'
  BY DEF IInv, TypeOK, Typed, MemoryTyped, WritersHoldLease, Writing, HistoryTyped, locals
<1>3. \A q \in Process : SameAt(q)
  BY DEF SameAt, locals
<1>4. Local(p)'
  <2>1. Local(p) /\ manifest' = manifest /\ checkpoints' = checkpoints /\ transactions' = transactions /\ blobs' = blobs
    BY DEF IInv, disk
  <2>2. SameAt(p)
    BY <1>3
  <2>3. Clean(p)' /\ Creates(p)' /\ Reads(p)'
    BY <2>1, <2>2 DEF SameAt, Local, Clean, Creates, Reads
  <2>4. Holds(p)'
    BY <2>1, <2>2 DEF SameAt, Local, Holds
  <2>5. Writes(p)'
    BY <2>1, <2>2 DEF SameAt, Local, Writes, HeadRevision, NewContent, File
  <2> QED
    BY <2>3, <2>4, <2>5 DEF Local
<1> QED
  BY <1>1, <1>2, <1>3, <1>4, StepKeeps DEF OthersSame

LEMMA IdleKeeps ==
  ASSUME IInv, NEW p \in Process, OwnerLost(p) \/ CloseHistory(p)
  PROVE  IInv'
PROOF
<1>1. history \in [Process -> Objects]
  BY PlainTyped
<1>2. CASE OwnerLost(p)
  <2>1. history' \in [Process -> Objects]
    BY <1>1, <1>2, InvalidateTyped DEF OwnerLost
  <2> QED
    BY <1>2, <2>1, HistoryOnly DEF OwnerLost
<1>3. CASE CloseHistory(p)
  <2>1. history' \in [Process -> Objects]
    BY <1>1, <1>3, ClosedTyped DEF CloseHistory
  <2> QED
    BY <1>3, <2>1, HistoryOnly DEF CloseHistory
<1> QED
  BY <1>2, <1>3
-------------------------------------------------------------------------------
(* From the lease to the request.                                              *)
LEMMA AcquireKeeps ==
  ASSUME IInv, NEW p \in Process, NEW k \in Kinds, Acquire(p, k)
  PROVE  IInv'
PROOF
<1>1. FilesTyped' /\ Chained'
  BY StillTyped, ChainedStill, PlainTyped DEF IInv, TypeOK, Acquire
<1>2. Typed'
  <2>1. MemoryTyped'
    BY DEF IInv, TypeOK, MemoryTyped, Acquire, Goto, Labels
  <2>2. WritersHoldLease'
    <3>1. SUFFICES ASSUME NEW q \in Process, Writing(q)' PROVE lease' = q
      BY DEF WritersHoldLease
    <3>2. CASE q = p
      BY <3>2 DEF Acquire
    <3>3. CASE q # p
      <4>1. Writing(q)
        BY <3>1, <3>3 DEF IInv, TypeOK, MemoryTyped, Acquire, Goto, Writing
      <4>2. lease = q /\ lease = None
        BY <4>1 DEF IInv, TypeOK, WritersHoldLease, Acquire
      <4> QED
        BY <4>2, StoreAssumption
    <3> QED
      BY <3>2, <3>3
  <2>3. HistoryTyped'
    BY DEF IInv, HistoryTyped, Acquire
  <2> QED
    BY <2>1, <2>2, <2>3 DEF Typed
<1>3. OthersSame(p)
  BY DEF IInv, TypeOK, MemoryTyped, OthersSame, SameAt, Acquire, Goto
<1>4. /\ pc'[p] = IF k = "create" THEN "create" ELSE "load"
      /\ kind'[p] = k /\ staged'[p] = staged[p] /\ fresh'[p] = fresh[p]
  BY DEF IInv, TypeOK, MemoryTyped, Acquire, Goto
<1>5. staged[p] = {} /\ fresh[p] = {}
  BY DEF IInv, Local, Clean, Committing, Acquire
<1>6. Local(p)'
  BY <1>4, <1>5 DEF Local, Clean, Holds, Writes, Creates, Reads, Committing
<1> QED
  BY <1>1, <1>2, <1>3, <1>6, StepKeeps DEF Acquire

LEMMA LoadKeeps ==
  ASSUME IInv, NEW p \in Process, Load(p)
  PROVE  IInv'
PROOF
<1> DEFINE head == checkpoints[Len(manifest)]
           ok == manifest # None /\ Replays(manifest) /\ AssetsPresent(head)
<1>1. CASE ~ok
  BY <1>1, QuietReturn, PlainTyped DEF Load
<1>2. CASE ok
  <2>1. /\ pc[p] = "load" /\ manifest # None
        /\ loaded' = [loaded EXCEPT ![p] = [log |-> manifest, content |-> head]]
        /\ history' = [history EXCEPT ![p] = Reconcile(@, Len(manifest), head)]
        /\ Goto(p, IF kind[p] = "restore" THEN "decide" ELSE "recover")
        /\ UNCHANGED <<lease, kind, request, staged, fresh, strict, prepared>>
        /\ UNCHANGED <<disk, acknowledged, faults>>
    BY <1>2 DEF Load
  <2>2. manifest \in Seq(Command) /\ head \in Content
    BY <2>1, HeadFacts DEF IInv, TypeOK
  <2>3. [log |-> manifest, content |-> head] \in LoadedProject
    BY <2>2 DEF LoadedProject
  <2> HIDE DEF head, ok
  <2>4. FilesTyped' /\ Chained'
    BY <2>1, StillTyped, ChainedStill, PlainTyped DEF IInv, TypeOK
  <2>5. MemoryTyped'
    BY <2>1, <2>3 DEF IInv, TypeOK, MemoryTyped, Goto, Labels
  <2>6. WritersHoldLease'
    BY <2>1 DEF IInv, TypeOK, MemoryTyped, WritersHoldLease, Writing, Goto
  <2>7. HistoryTyped'
    <3>1. Reconcile(history[p], Len(manifest), head) \in Objects
      BY ReconcileTyped, PlainTyped
    <3>2. history' = [history EXCEPT ![p] = Reconcile(history[p], Len(manifest), head)]
      BY <2>1
    <3> QED
      BY <2>1, <3>1, <3>2 DEF IInv, HistoryTyped
  <2>8. OthersSame(p)
    BY <2>1 DEF IInv, TypeOK, MemoryTyped, OthersSame, SameAt, Goto
  <2>9. /\ pc'[p] \in {"decide", "recover"} /\ kind'[p] = kind[p] /\ staged'[p] = staged[p] /\ fresh'[p] = fresh[p]
        /\ loaded'[p] = [log |-> manifest, content |-> head]
    BY <2>1 DEF IInv, TypeOK, MemoryTyped, Goto
  <2>10. staged[p] = {} /\ fresh[p] = {} /\ kind[p] # "create"
    BY <2>1 DEF IInv, Local, Clean, Creates, Committing
  <2>11. Clean(p)' /\ Writes(p)' /\ Creates(p)' /\ Reads(p)'
    BY <2>9, <2>10 DEF Clean, Writes, Creates, Reads, Committing
  <2>12. Holds(p)'
    <3>1. manifest' = manifest /\ checkpoints' = checkpoints
      BY <2>1 DEF disk
    <3> QED
      BY <2>1, <2>9, <2>10, <3>1 DEF Holds, head
  <2> QED
    BY <2>1, <2>4, <2>5, <2>6, <2>7, <2>8, <2>11, <2>12, StepKeeps DEF Local, Typed
<1> QED
  BY <1>1, <1>2

LEMMA MemoryStill ==
  ASSUME IInv, UNCHANGED <<lease, memory>>
  PROVE  Typed' /\ \A q \in Process : SameAt(q)
PROOF
<1>1. Typed'
  BY DEF IInv, TypeOK, Typed, MemoryTyped, WritersHoldLease, Writing, HistoryTyped, memory
<1>2. \A q \in Process : SameAt(q)
  BY DEF SameAt, memory
<1> QED
  BY <1>1, <1>2

(* recover_uncommitted() removes only what is beyond the head: no file the     *)
(* manifest lists, and no artifact the head refers to.                         *)
LEMMA RemoveStaleKeeps ==
  ASSUME IInv, NEW p \in Process, RemoveStale(p)
  PROVE  IInv'
PROOF
<1>1. pc[p] = "recover" /\ manifest' = manifest /\ UNCHANGED <<lease, memory, acknowledged, faults>>
  BY DEF RemoveStale
<1>2. kind[p] # "create"
  BY <1>1 DEF IInv, Local, Creates
<1>3. /\ manifest # None
      /\ loaded[p] = [log |-> manifest, content |-> checkpoints[Len(manifest)]]
      /\ fresh[p] \cap checkpoints[Len(manifest)].assets = {}
  BY <1>1, <1>2 DEF IInv, Local, Holds
<1>4. HeadRevision(p) = Len(manifest) /\ loaded[p].content = checkpoints[Len(manifest)]
  BY <1>3 DEF HeadRevision
<1>5. /\ manifest \in Seq(Command) /\ Len(manifest) \in Nat /\ Len(manifest) <= MaxRevision
      /\ checkpoints[Len(manifest)].assets \subseteq blobs
  BY <1>3, HeadFacts DEF IInv, TypeOK
<1> DEFINE Spares ==
             /\ checkpoints' \in [Revision -> Content \cup {None}]
             /\ transactions' \in [Name -> Op \cup {None}]
             /\ blobs' \subseteq Blob
             /\ \A i \in 0 .. Len(manifest) : checkpoints'[i] = checkpoints[i]
             /\ \A i \in 1 .. Len(manifest) : transactions'[<<i, manifest[i]>>] = transactions[<<i, manifest[i]>>]
             /\ checkpoints[Len(manifest)].assets \subseteq blobs'
<1>6. Spares
  <2>1. /\ checkpoints \in [Revision -> Content \cup {None}]
        /\ transactions \in [Name -> Op \cup {None}]
        /\ blobs \subseteq Blob
    BY DEF IInv, TypeOK, FilesTyped
  <2>2. ASSUME NEW r \in StaleCheckpoints(p), checkpoints' = [checkpoints EXCEPT ![r] = None],
               UNCHANGED <<transactions, blobs>>
        PROVE  Spares
    <3>1. r \in Revision /\ r > Len(manifest)
      BY <1>4 DEF StaleCheckpoints
    <3>2. \A i \in 0 .. Len(manifest) : i # r /\ i \in Revision
      BY <1>5, <3>1, StoreAssumption DEF Revision
    <3> QED
      BY <1>5, <2>1, <2>2, <3>1, <3>2
  <2>3. ASSUME NEW n \in StaleTransactions(p), transactions' = [transactions EXCEPT ![n] = None],
               UNCHANGED <<checkpoints, blobs>>
        PROVE  Spares
    <3>1. n \in Name /\ n[1] > Len(manifest)
      BY <1>4 DEF StaleTransactions
    <3>2. \A i \in 1 .. Len(manifest) : <<i, manifest[i]>> # n
      BY <1>5, <3>1
    <3>3. \A i \in 1 .. Len(manifest) : transactions'[<<i, manifest[i]>>] = transactions[<<i, manifest[i]>>]
      <4>1. \A i \in 1 .. Len(manifest) : <<i, manifest[i]>> \in Name
        BY <1>5, ElementOfSeq, StoreAssumption DEF Name
      <4> QED
        BY <2>1, <2>3, <3>2, <4>1
    <3>4. transactions' \in [Name -> Op \cup {None}]
      BY <2>1, <2>3, <3>1
    <3> QED
      BY <1>5, <2>1, <2>3, <3>3, <3>4
  <2>4. ASSUME NEW b \in StaleBlobs(p), blobs' = blobs \ {b}, UNCHANGED <<checkpoints, transactions>>
        PROVE  Spares
    <3>1. b \notin checkpoints[Len(manifest)].assets
      BY <1>4 DEF StaleBlobs
    <3> QED
      BY <1>5, <2>1, <2>4, <3>1
  <2> QED
    BY <2>2, <2>3, <2>4 DEF RemoveStale
<1>7. FilesTyped'
  BY <1>1, <1>6 DEF IInv, TypeOK, FilesTyped
<1>8. Chained'
  BY <1>1, <1>6, ChainedKept DEF IInv, TypeOK
<1>9. Typed' /\ \A q \in Process : SameAt(q)
  BY <1>1, MemoryStill
<1>10. Local(p)'
  <2>1. SameAt(p) /\ checkpoints'[Len(manifest)] = checkpoints[Len(manifest)]
    BY <1>5, <1>6, <1>9
  <2>2. staged[p] = {} /\ fresh[p] = {}
    BY <1>1 DEF IInv, Local, Clean, Committing
  <2>3. Clean(p)' /\ Writes(p)' /\ Creates(p)' /\ Reads(p)'
    BY <1>1, <1>2, <2>1, <2>2 DEF SameAt, Clean, Writes, Creates, Reads, Committing
  <2>4. Holds(p)'
    BY <1>1, <1>3, <2>1 DEF SameAt, Holds
  <2> QED
    BY <2>3, <2>4 DEF Local
<1>11. Writing(p) /\ Grows
  BY <1>1 DEF Writing, Grows
<1> QED
  BY <1>7, <1>8, <1>9, <1>10, <1>11, StepKeeps DEF OthersSame

LEMMA RecoveredKeeps ==
  ASSUME IInv, NEW p \in Process, Recovered(p)
  PROVE  IInv'
PROOF
<1>1. pc[p] = "recover" /\ UNCHANGED <<disk, acknowledged, faults>>
  BY DEF Recovered
<1>2. kind[p] # "create"
  BY <1>1 DEF IInv, Local, Creates
<1>3. /\ manifest # None
      /\ loaded[p] = [log |-> manifest, content |-> checkpoints[Len(manifest)]]
  BY <1>1, <1>2 DEF IInv, Local, Holds
<1>4. CASE kind[p] = "command"
  <2>1. Goto(p, "decide") /\ UNCHANGED <<lease, locals, history>>
    BY <1>4 DEF Recovered
  <2>2. FilesTyped' /\ Chained'
    BY <1>1, StillTyped, ChainedStill, PlainTyped DEF IInv, TypeOK
  <2>3. Typed' /\ OthersSame(p) /\ pc'[p] = "decide"
    <3>1. UNCHANGED <<lease, kind, loaded, request, staged, fresh, prepared, history>> /\ strict' \in [Process -> BOOLEAN]
      BY <2>1 DEF locals, IInv, TypeOK, MemoryTyped
    <3> QED
      BY <1>1, <2>1, <3>1, GotoKeeps DEF Writing, Labels, IInv, TypeOK, Typed
  <2>4. staged[p] = {} /\ fresh[p] = {}
    BY <1>1 DEF IInv, Local, Clean, Committing
  <2>5. Clean(p)' /\ Writes(p)' /\ Creates(p)' /\ Reads(p)'
    BY <1>4, <2>1, <2>3, <2>4 DEF Clean, Writes, Creates, Reads, Committing, locals
  <2>6. Holds(p)'
    BY <1>1, <1>3, <2>1, <2>4 DEF Holds, locals, disk
  <2> QED
    BY <1>1, <2>2, <2>3, <2>5, <2>6, StepKeeps DEF Local
<1>5. CASE kind[p] # "command"
  <2>1. Start(HeadRevision(p), loaded[p].content) \in Objects
    <3>1. Len(manifest) \in Nat /\ checkpoints[Len(manifest)] \in Content
      BY <1>3, HeadFacts DEF IInv, TypeOK
    <3>2. HeadRevision(p) = Len(manifest) /\ loaded[p].content = checkpoints[Len(manifest)]
      BY <1>3 DEF HeadRevision
    <3> QED
      BY <3>1, <3>2, StartTyped
  <2>2. Return(p) /\ history' = IF kind[p] = "open"
                                THEN [history EXCEPT ![p] = Start(HeadRevision(p), loaded[p].content)]
                                ELSE history
    BY <1>5 DEF Recovered
  <2>3. history' \in [Process -> Objects]
    BY <2>1, <2>2, PlainTyped
  <2> QED
    BY <1>1, <2>2, <2>3, QuietReturn, PlainTyped
<1> QED
  BY <1>4, <1>5
-------------------------------------------------------------------------------
(* A request begins: the commit it starts applies to the head and is new.      *)
LEMMA BeginKeeps ==
  ASSUME IInv, NEW p \in Process, pc[p] = "decide", kind[p] # "create", HeadRevision(p) < MaxRevision,
         NEW c \in Command, NEW op \in Op, NEW bs \in SUBSET Blob, NEW next \in StateType \cup {None},
         ~Committed(loaded[p].log, c), Applies(op, loaded[p].content),
         Apply(op, loaded[p].content).assets \subseteq blobs \cup bs,
         request' = [request EXCEPT ![p] = [cmd |-> c, op |-> op]],
         staged' \in [Process -> SUBSET Blob], staged'[p] = bs, \A q \in Process \ {p} : staged'[q] = staged[q],
         prepared' = [prepared EXCEPT ![p] = next],
         Goto(p, "blob"), UNCHANGED <<disk, lease, kind, loaded, fresh, strict, history, acknowledged, faults>>
  PROVE  IInv'
PROOF
<1>1. FilesTyped' /\ Chained'
  BY StillTyped, ChainedStill, PlainTyped DEF IInv, TypeOK
<1>2. [cmd |-> c, op |-> op] \in Request
  BY DEF Request
<1>3. MemoryTyped'
  BY <1>2 DEF IInv, TypeOK, MemoryTyped, Goto, Labels
<1>4. WritersHoldLease'
  BY DEF IInv, TypeOK, MemoryTyped, WritersHoldLease, Writing, Goto
<1>5. HistoryTyped'
  BY DEF IInv, HistoryTyped
<1>6. OthersSame(p)
  BY DEF IInv, TypeOK, MemoryTyped, OthersSame, SameAt, Goto
<1>7. /\ pc'[p] = "blob" /\ request'[p] = [cmd |-> c, op |-> op]
      /\ kind'[p] = kind[p] /\ loaded'[p] = loaded[p] /\ fresh'[p] = fresh[p]
  BY DEF IInv, TypeOK, MemoryTyped, Goto
<1>8. manifest' = manifest /\ checkpoints' = checkpoints /\ blobs' = blobs
  BY DEF disk
<1>9. Holds(p)
  BY DEF IInv, Local
<1>10. Clean(p)' /\ Creates(p)' /\ Reads(p)'
  BY <1>7 DEF Clean, Creates, Reads, Committing
<1>11. Holds(p)'
  BY <1>7, <1>8, <1>9 DEF Holds
<1>12. Writes(p)'
  <2>1. request'[p].cmd = c /\ request'[p].op = op
    BY <1>7
  <2>2. HeadRevision(p)' = HeadRevision(p) /\ NewContent(p)' = Apply(op, loaded[p].content)
    BY <1>7, <2>1 DEF HeadRevision, NewContent
  <2> QED
    BY <1>7, <1>8, <2>1, <2>2 DEF Writes
<1> QED
  BY <1>1, <1>3, <1>4, <1>5, <1>6, <1>10, <1>11, <1>12, StepKeeps DEF Local, Typed

LEMMA BeginCommandKeeps ==
  ASSUME IInv, NEW p \in Process, BeginCommand(p)
  PROVE  IInv'
PROOF
<1>1. pc[p] = "decide" /\ kind[p] = "command" /\ HeadRevision(p) < MaxRevision
  BY DEF BeginCommand
<1>2. /\ manifest # None
      /\ loaded[p] = [log |-> manifest, content |-> checkpoints[Len(manifest)]]
  BY <1>1 DEF IInv, Local, Holds
<1>3. /\ loaded[p].content \in Content /\ loaded[p].content.assets \subseteq blobs
      /\ HeadRevision(p) + 1 \in Nat
  <2>1. /\ loaded[p].log = manifest /\ loaded[p].content = checkpoints[Len(manifest)]
    BY <1>2
  <2> QED
    BY <1>2, <2>1, HeadFacts DEF IInv, TypeOK, HeadRevision
<1>4. PICK c \in Command, op \in Authored :
        /\ ~Committed(loaded[p].log, c)
        /\ Applies(op, loaded[p].content)
        /\ request' = [request EXCEPT ![p] = [cmd |-> c, op |-> op]]
        /\ staged' = [staged EXCEPT ![p] = IF op.kind = "import" THEN op.blobs ELSE {}]
        /\ prepared' = [prepared EXCEPT ![p] =
               IF Owns(history[p])
               THEN PrepareEdit(history[p].state, HeadRevision(p) + 1, loaded[p].content,
                                Apply(op, loaded[p].content), NoGroup)
               ELSE None]
  BY DEF BeginCommand
<1> DEFINE bs == IF op.kind = "import" THEN op.blobs ELSE {}
           next == IF Owns(history[p])
                   THEN PrepareEdit(history[p].state, HeadRevision(p) + 1, loaded[p].content,
                                    Apply(op, loaded[p].content), NoGroup)
                   ELSE None
<1>5. op \in Op /\ bs \in SUBSET Blob /\ Apply(op, loaded[p].content).assets = loaded[p].content.assets \cup bs
  BY <1>3, AuthoredAssets
<1>6. next \in StateType \cup {None}
  <2>1. CASE Owns(history[p])
    <3>1. history[p].state \in StateType
      BY <2>1, PlainTyped DEF Owns, Objects
    <3>2. Apply(op, loaded[p].content) \in Content
      BY <1>3, <1>5, ApplyTyped
    <3> QED
      BY <1>3, <3>1, <3>2, PrepareEditTyped
  <2>2. CASE ~Owns(history[p])
    BY <2>2
  <2> QED
    BY <2>1, <2>2
<1>7. staged' = [staged EXCEPT ![p] = bs] /\ prepared' = [prepared EXCEPT ![p] = next]
  BY <1>4
<1> HIDE DEF bs, next
<1>8. staged' \in [Process -> SUBSET Blob] /\ staged'[p] = bs /\ \A q \in Process \ {p} : staged'[q] = staged[q]
  BY <1>5, <1>7 DEF IInv, TypeOK, MemoryTyped
<1>9. Apply(op, loaded[p].content).assets \subseteq blobs \cup bs
  BY <1>3, <1>5
<1>10. Goto(p, "blob") /\ UNCHANGED <<disk, lease, kind, loaded, fresh, strict, history, acknowledged, faults>>
  BY DEF BeginCommand
<1> QED
  BY <1>1, <1>4, <1>5, <1>6, <1>7, <1>8, <1>9, <1>10, BeginKeeps

LEMMA BeginRestoreKeeps ==
  ASSUME IInv, NEW p \in Process, BeginRestore(p)
  PROVE  IInv'
PROOF
<1>1. pc[p] = "decide" /\ kind[p] = "restore" /\ HeadRevision(p) < MaxRevision
  BY DEF BeginRestore
<1>2. /\ manifest # None
      /\ loaded[p] = [log |-> manifest, content |-> checkpoints[Len(manifest)]]
  BY <1>1 DEF IInv, Local, Holds
<1>3. loaded[p].content \in Content /\ HeadRevision(p) + 1 \in Nat
  <2>1. /\ loaded[p].log = manifest /\ loaded[p].content = checkpoints[Len(manifest)]
    BY <1>2
  <2> QED
    BY <1>2, <2>1, HeadFacts DEF IInv, TypeOK, HeadRevision
<1>4. PICK c \in Command, redo \in BOOLEAN :
        /\ ~Committed(loaded[p].log, c)
        /\ CanRestore(history[p], loaded[p].content, redo)
        /\ AssetsPresent(Selected(history[p].state, redo))
        /\ request' = [request EXCEPT ![p] =
               [cmd |-> c, op |-> Restored(loaded[p].content, Selected(history[p].state, redo))]]
        /\ prepared' = [prepared EXCEPT ![p] = PrepareRestore(history[p].state, HeadRevision(p) + 1, redo)]
  BY DEF BeginRestore
<1> DEFINE to == Selected(history[p].state, redo)
           op == Restored(loaded[p].content, to)
           next == PrepareRestore(history[p].state, HeadRevision(p) + 1, redo)
<1>5. to \in Content /\ next \in StateType
  BY <1>3, <1>4, PlainTyped, PrepareRestoreTyped
<1>6. to.assets \subseteq blobs
  BY <1>4 DEF AssetsPresent
<1> HIDE DEF to, next
<1>7. op \in Op /\ Applies(op, loaded[p].content) /\ Apply(op, loaded[p].content) = to
  BY <1>3, <1>5, RestoredOp
<1>8. request' = [request EXCEPT ![p] = [cmd |-> c, op |-> op]] /\ prepared' = [prepared EXCEPT ![p] = next]
  BY <1>4 DEF to, next
<1> HIDE DEF op
<1>9. staged' = staged /\ staged[p] = {}
  BY <1>1 DEF BeginRestore, IInv, Local, Clean, Committing
<1>10. /\ staged' \in [Process -> SUBSET Blob] /\ staged'[p] = {} /\ \A q \in Process \ {p} : staged'[q] = staged[q]
       /\ {} \in SUBSET Blob
  BY <1>9 DEF IInv, TypeOK, MemoryTyped
<1>11. Apply(op, loaded[p].content).assets \subseteq blobs \cup {}
  BY <1>6, <1>7
<1>12. Goto(p, "blob") /\ UNCHANGED <<disk, lease, kind, loaded, fresh, strict, history, acknowledged, faults>>
  BY DEF BeginRestore
<1> QED
  BY <1>1, <1>4, <1>5, <1>7, <1>8, <1>10, <1>11, <1>12, BeginKeeps
-------------------------------------------------------------------------------
(* A commit goes from one file operation to the next, or to its clean-up.      *)
LEMMA WriterMoves ==
  ASSUME IInv, NEW p \in Process, pc[p] \in Committing, kind[p] # "create", NEW l \in Committing,
         FilesTyped', Typed', OthersSame(p), manifest' = manifest,
         pc'[p] = l, kind'[p] = kind[p], loaded'[p] = loaded[p], request'[p] = request[p],
         \A i \in 0 .. Len(manifest) : checkpoints'[i] = checkpoints[i],
         \A i \in 1 .. Len(manifest) : transactions'[<<i, manifest[i]>>] = transactions[<<i, manifest[i]>>],
         checkpoints[Len(manifest)].assets \subseteq blobs',
         fresh'[p] \cap checkpoints[Len(manifest)].assets = {},
         l \in {"blob", "checkpoint", "claim", "replace"} =>
           NewContent(p).assets \subseteq blobs' \cup staged'[p],
         l \in {"checkpoint", "claim", "replace"} =>
           staged'[p] = {} /\ transactions'[File(p)] = request[p].op,
         l \in {"claim", "replace"} => checkpoints'[Len(manifest) + 1] = NewContent(p)
  PROVE  IInv'
PROOF
<1>1. /\ manifest # None /\ Len(manifest) \in Nat /\ HeadRevision(p) = Len(manifest)
      /\ checkpoints'[Len(manifest)] = checkpoints[Len(manifest)]
  <2>1. manifest # None /\ Len(manifest) \in Nat /\ HeadRevision(p) = Len(manifest)
    BY WriterFacts
  <2> QED
    BY <2>1
<1>2. Chained'
  BY <1>1, ChainedKept DEF IInv, TypeOK
<1>3. Clean(p)' /\ Creates(p)' /\ Reads(p)'
  BY DEF Clean, Creates, Reads, Committing
<1>4. Holds(p)'
  <2>1. loaded[p] = [log |-> manifest, content |-> checkpoints[Len(manifest)]]
    BY DEF IInv, Local, Holds
  <2> QED
    BY <1>1, <2>1 DEF Holds
<1>5. Writes(p)'
  <2>1. /\ HeadRevision(p) < MaxRevision
        /\ request[p].cmd \in Command /\ ~Committed(loaded[p].log, request[p].cmd)
        /\ request[p].op \in Op /\ Applies(request[p].op, loaded[p].content)
    BY DEF IInv, Local, Writes
  <2>2. HeadRevision(p)' = HeadRevision(p)
    BY DEF HeadRevision
  <2>3. NewContent(p)' = NewContent(p)
    BY DEF NewContent
  <2>4. File(p)' = File(p)
    BY <2>2 DEF File
  <2> QED
    BY <1>1, <2>1, <2>2, <2>3, <2>4 DEF Writes
<1>6. Writing(p) /\ Grows
  BY DEF Writing, Grows, Committing
<1> QED
  BY <1>2, <1>3, <1>4, <1>5, <1>6, StepKeeps DEF Local

(* The same for a creation, which has no manifest yet.                         *)
LEMMA CreatorMoves ==
  ASSUME IInv, NEW p \in Process, Writing(p), kind[p] = "create", manifest = None, manifest' = manifest,
         NEW l \in {"claim", "replace", "un_checkpoint", "un_blob"},
         FilesTyped', Typed', OthersSame(p), pc'[p] = l, kind'[p] = kind[p], fresh'[p] = {},
         l \in {"claim", "replace"} => checkpoints'[0] \in Initial
  PROVE  IInv'
PROOF
<1>1. Chained'
  BY DEF Chained
<1>2. Local(p)'
  BY DEF Local, Clean, Holds, Writes, Creates, Reads, Committing
<1>3. Grows
  BY DEF Grows
<1> QED
  BY <1>1, <1>2, <1>3, StepKeeps

(* A file operation that leaves the process's memory alone.                    *)
LEMMA Moves ==
  ASSUME IInv, NEW p \in Process, Writing(p), NEW l \in Labels, Goto(p, l), UNCHANGED <<lease, locals, history>>
  PROVE  /\ Typed' /\ OthersSame(p) /\ pc'[p] = l /\ kind'[p] = kind[p] /\ loaded'[p] = loaded[p]
         /\ request'[p] = request[p] /\ staged'[p] = staged[p] /\ fresh'[p] = fresh[p]
PROOF
<1>1. UNCHANGED <<lease, kind, loaded, request, staged, fresh, prepared, history>> /\ strict' \in [Process -> BOOLEAN]
  BY DEF locals, IInv, TypeOK, MemoryTyped
<1>2. Typed
  BY DEF IInv, TypeOK, Typed
<1> QED
  BY <1>1, <1>2, GotoKeeps

LEMMA PublishArtifactKeeps ==
  ASSUME IInv, NEW p \in Process, NEW b \in Blob, PublishArtifact(p, b)
  PROVE  IInv'
PROOF
<1>1. /\ pc[p] = "blob" /\ b \in staged[p]
      /\ staged' = [staged EXCEPT ![p] = staged[p] \ {b}]
      /\ blobs' = blobs \cup {b}
      /\ fresh' = [fresh EXCEPT ![p] = IF b \in blobs THEN fresh[p] ELSE fresh[p] \cup {b}]
      /\ UNCHANGED <<manifest, checkpoints, transactions, lease, pc, kind, loaded, request,
                     strict, history, prepared, acknowledged, faults>>
  BY DEF PublishArtifact
<1>2. kind[p] # "create" /\ pc[p] \in Committing
  BY <1>1 DEF IInv, Local, Creates, Committing
<1>3. /\ Len(manifest) \in Nat /\ checkpoints[Len(manifest)].assets \subseteq blobs
      /\ fresh[p] \cap checkpoints[Len(manifest)].assets = {}
  BY <1>2, WriterFacts
<1>4. NewContent(p).assets \subseteq blobs \cup staged[p]
  BY <1>1, <1>2 DEF IInv, Local, Writes
<1>5. FilesTyped'
  BY <1>1 DEF IInv, TypeOK, FilesTyped
<1>6. MemoryTyped'
  BY <1>1 DEF IInv, TypeOK, MemoryTyped
<1>7. WritersHoldLease' /\ HistoryTyped'
  BY <1>1 DEF IInv, TypeOK, WritersHoldLease, Writing, HistoryTyped
<1>8. OthersSame(p)
  BY <1>1 DEF IInv, TypeOK, MemoryTyped, OthersSame, SameAt
<1>9. staged'[p] = staged[p] \ {b} /\ fresh'[p] = IF b \in blobs THEN fresh[p] ELSE fresh[p] \cup {b}
  BY <1>1 DEF IInv, TypeOK, MemoryTyped
<1>10. fresh'[p] \cap checkpoints[Len(manifest)].assets = {}
  BY <1>3, <1>9
<1>11. NewContent(p).assets \subseteq blobs' \cup staged'[p] /\ checkpoints[Len(manifest)].assets \subseteq blobs'
  BY <1>1, <1>3, <1>4, <1>9
<1> QED
  BY <1>1, <1>2, <1>5, <1>6, <1>7, <1>8, <1>10, <1>11, WriterMoves DEF Typed

(* From here on a commit's steps differ in the one file they write or remove.  *)
LEMMA PublishArtifactFailsKeeps ==
  ASSUME IInv, NEW p \in Process, NEW b \in Blob, PublishArtifactFails(p, b)
  PROVE  IInv'
PROOF
<1>1. /\ pc[p] = "blob" /\ Fault /\ blobs' \in {blobs, blobs \cup {b}} /\ Goto(p, "un_blob")
      /\ UNCHANGED <<manifest, checkpoints, transactions, lease, locals, history, acknowledged>>
  BY DEF PublishArtifactFails
<1>2. kind[p] # "create" /\ pc[p] \in Committing /\ Writing(p)
  BY <1>1 DEF IInv, Local, Creates, Committing, Writing
<1>3. /\ checkpoints[Len(manifest)].assets \subseteq blobs
      /\ fresh[p] \cap checkpoints[Len(manifest)].assets = {}
  BY <1>2, WriterFacts
<1>4. faults' \in 0 .. MaxFaults
  BY <1>1, FaultTyped DEF IInv, TypeOK
<1>5. FilesTyped'
  BY <1>1, <1>4 DEF IInv, TypeOK, FilesTyped
<1>6. "un_blob" \in Labels /\ "un_blob" \in Committing
  BY DEF Labels, Committing
<1>7. /\ Typed' /\ OthersSame(p) /\ pc'[p] = "un_blob" /\ kind'[p] = kind[p] /\ loaded'[p] = loaded[p]
      /\ request'[p] = request[p] /\ staged'[p] = staged[p] /\ fresh'[p] = fresh[p]
  BY <1>1, <1>2, <1>6, Moves
<1>8. checkpoints[Len(manifest)].assets \subseteq blobs'
  BY <1>1, <1>3
<1> QED
  BY <1>1, <1>2, <1>3, <1>5, <1>6, <1>7, <1>8, WriterMoves

(* Writing or removing the transaction of the next revision.                   *)
LEMMA TransactionAside ==
  ASSUME IInv, NEW p \in Process, pc[p] \in Committing, kind[p] # "create", NEW v \in Op \cup {None},
         transactions' \in {transactions, [transactions EXCEPT ![File(p)] = v]}
  PROVE  /\ transactions' \in [Name -> Op \cup {None}]
         /\ \A i \in 1 .. Len(manifest) : transactions'[<<i, manifest[i]>>] = transactions[<<i, manifest[i]>>]
         /\ transactions' = [transactions EXCEPT ![File(p)] = v] => transactions'[File(p)] = v
PROOF
<1>1. /\ manifest \in Seq(Command) /\ Len(manifest) \in Nat
      /\ File(p) = <<Len(manifest) + 1, request[p].cmd>> /\ File(p) \in Name
      /\ Len(manifest) + 1 \in 1 .. MaxRevision
  BY WriterFacts
<1>2. transactions \in [Name -> Op \cup {None}]
  BY DEF IInv, TypeOK, FilesTyped
<1>3. \A i \in 1 .. Len(manifest) : <<i, manifest[i]>> \in Name /\ <<i, manifest[i]>> # File(p)
  <2>1. \A i \in 1 .. Len(manifest) : i \in 1 .. MaxRevision /\ i # Len(manifest) + 1 /\ manifest[i] \in Command
    BY <1>1, ElementOfSeq, StoreAssumption
  <2> QED
    BY <1>1, <2>1 DEF Name
<1> QED
  BY <1>1, <1>2, <1>3

LEMMA CheckpointAside ==
  ASSUME IInv, NEW p \in Process, pc[p] \in Committing, kind[p] # "create", NEW v \in Content \cup {None},
         checkpoints' \in {checkpoints, [checkpoints EXCEPT ![Len(manifest) + 1] = v]}
  PROVE  /\ checkpoints' \in [Revision -> Content \cup {None}]
         /\ \A i \in 0 .. Len(manifest) : checkpoints'[i] = checkpoints[i]
         /\ checkpoints' = [checkpoints EXCEPT ![Len(manifest) + 1] = v] => checkpoints'[Len(manifest) + 1] = v
PROOF
<1>1. Len(manifest) \in Nat /\ Len(manifest) + 1 \in Revision
  BY WriterFacts
<1>2. checkpoints \in [Revision -> Content \cup {None}]
  BY DEF IInv, TypeOK, FilesTyped
<1>3. \A i \in 0 .. Len(manifest) : i \in Revision /\ i # Len(manifest) + 1
  BY <1>1, StoreAssumption DEF Revision
<1> QED
  BY <1>1, <1>2, <1>3

LEMMA TransactionKeeps ==
  ASSUME IInv, NEW p \in Process,
         WriteTransaction(p) \/ WriteTransactionFails(p) \/ UndoTransaction(p)
         \/ (UndoTransactionFails(p) /\ ~strict[p])
  PROVE  IInv'
PROOF
<1>1. /\ pc[p] \in {"blob", "un_transaction"}
      /\ UNCHANGED <<manifest, checkpoints, blobs, lease, locals, history, acknowledged>>
  BY DEF WriteTransaction, WriteTransactionFails, UndoTransaction, UndoTransactionFails, disk
<1>2. kind[p] # "create" /\ pc[p] \in Committing /\ Writing(p)
  BY <1>1 DEF IInv, Local, Creates, Committing, Writing
<1>3. /\ checkpoints[Len(manifest)].assets \subseteq blobs
      /\ fresh[p] \cap checkpoints[Len(manifest)].assets = {}
      /\ request[p].op \in Op
  BY <1>2, WriterFacts
<1>4. faults' \in 0 .. MaxFaults
  BY FaultTyped, PlainTyped
     DEF IInv, TypeOK, WriteTransaction, WriteTransactionFails, UndoTransaction, UndoTransactionFails
<1>5. ASSUME NEW v \in Op \cup {None}, NEW l \in {"un_blob", "un_checkpoint"}, Goto(p, l),
             transactions' \in {transactions, [transactions EXCEPT ![File(p)] = v]}
      PROVE  IInv'
  <2>1. /\ transactions' \in [Name -> Op \cup {None}]
        /\ \A i \in 1 .. Len(manifest) : transactions'[<<i, manifest[i]>>] = transactions[<<i, manifest[i]>>]
    BY <1>2, <1>5, TransactionAside
  <2>2. FilesTyped'
    BY <1>1, <1>4, <2>1 DEF IInv, TypeOK, FilesTyped
  <2>3. l \in Labels /\ l \in Committing
    BY DEF Labels, Committing
  <2>4. /\ Typed' /\ OthersSame(p) /\ pc'[p] = l /\ kind'[p] = kind[p] /\ loaded'[p] = loaded[p]
        /\ request'[p] = request[p] /\ staged'[p] = staged[p] /\ fresh'[p] = fresh[p]
    BY <1>1, <1>2, <1>5, <2>3, Moves
  <2> QED
    BY <1>1, <1>2, <1>3, <2>1, <2>2, <2>3, <2>4, WriterMoves
<1>6. CASE WriteTransaction(p) /\ transactions[File(p)] = None
  <2>1. /\ pc[p] = "blob" /\ staged[p] = {} /\ Goto(p, "checkpoint")
        /\ transactions' = [transactions EXCEPT ![File(p)] = request[p].op]
    BY <1>6 DEF WriteTransaction
  <2>2. /\ transactions' \in [Name -> Op \cup {None}]
        /\ \A i \in 1 .. Len(manifest) : transactions'[<<i, manifest[i]>>] = transactions[<<i, manifest[i]>>]
        /\ transactions'[File(p)] = request[p].op
    BY <1>2, <1>3, <2>1, TransactionAside
  <2>3. FilesTyped'
    BY <1>1, <1>4, <2>2 DEF IInv, TypeOK, FilesTyped
  <2>4. "checkpoint" \in Labels /\ "checkpoint" \in Committing
    BY DEF Labels, Committing
  <2>5. /\ Typed' /\ OthersSame(p) /\ pc'[p] = "checkpoint" /\ kind'[p] = kind[p] /\ loaded'[p] = loaded[p]
        /\ request'[p] = request[p] /\ staged'[p] = staged[p] /\ fresh'[p] = fresh[p]
    BY <1>1, <1>2, <2>1, <2>4, Moves
  <2>6. NewContent(p).assets \subseteq blobs' \cup staged'[p]
    BY <1>1, <1>2, <2>1, <2>5 DEF IInv, Local, Writes
  <2> QED
    BY <1>1, <1>2, <1>3, <2>1, <2>2, <2>3, <2>4, <2>5, <2>6, WriterMoves
<1>7. CASE WriteTransaction(p) /\ transactions[File(p)] # None
  <2>1. Goto(p, "un_blob") /\ transactions' = transactions
    BY <1>7 DEF WriteTransaction
  <2> QED
    BY <1>3, <1>5, <2>1
<1>8. CASE WriteTransactionFails(p)
  <2>1. Goto(p, "un_blob") /\ transactions' \in {transactions, [transactions EXCEPT ![File(p)] = request[p].op]}
    BY <1>8 DEF WriteTransactionFails
  <2> QED
    BY <1>3, <1>5, <2>1
<1>9. CASE UndoTransaction(p)
  <2>1. Goto(p, AfterTransaction(p)) /\ transactions' = [transactions EXCEPT ![File(p)] = None]
    BY <1>9 DEF UndoTransaction
  <2>2. AfterTransaction(p) \in {"un_blob", "un_checkpoint"}
    BY DEF AfterTransaction
  <2> QED
    BY <1>5, <2>1, <2>2
<1>10. CASE UndoTransactionFails(p) /\ ~strict[p]
  <2>1. Goto(p, "un_blob") /\ transactions' = transactions
    BY <1>10 DEF UndoTransactionFails, AfterTransaction, disk
  <2> QED
    BY <1>3, <1>5, <2>1
<1> QED
  BY <1>6, <1>7, <1>8, <1>9, <1>10

LEMMA CheckpointKeeps ==
  ASSUME IInv, NEW p \in Process,
         WriteCheckpoint(p) \/ WriteCheckpointFails(p) \/ (UndoCheckpoint(p) /\ kind[p] # "create")
  PROVE  IInv'
PROOF
<1>1. /\ pc[p] \in {"checkpoint", "un_checkpoint"} /\ kind[p] # "create"
      /\ UNCHANGED <<manifest, transactions, blobs, lease, locals, history, acknowledged>>
  BY DEF WriteCheckpoint, WriteCheckpointFails, UndoCheckpoint, IInv, Local, Creates
<1>2. pc[p] \in Committing /\ Writing(p)
  BY <1>1 DEF Committing, Writing
<1>3. /\ checkpoints[Len(manifest)].assets \subseteq blobs
      /\ fresh[p] \cap checkpoints[Len(manifest)].assets = {}
      /\ NewContent(p) \in Content /\ HeadRevision(p) = Len(manifest)
  BY <1>1, <1>2, WriterFacts
<1>4. faults' \in 0 .. MaxFaults
  BY FaultTyped, PlainTyped DEF IInv, TypeOK, WriteCheckpoint, WriteCheckpointFails, UndoCheckpoint
<1>5. ASSUME NEW v \in Content \cup {None}, NEW l \in {"un_transaction", "un_blob"}, Goto(p, l),
             checkpoints' \in {checkpoints, [checkpoints EXCEPT ![Len(manifest) + 1] = v]}
      PROVE  IInv'
  <2>1. /\ checkpoints' \in [Revision -> Content \cup {None}]
        /\ \A i \in 0 .. Len(manifest) : checkpoints'[i] = checkpoints[i]
    BY <1>1, <1>2, <1>5, CheckpointAside
  <2>2. FilesTyped'
    BY <1>1, <1>4, <2>1 DEF IInv, TypeOK, FilesTyped
  <2>3. l \in Labels /\ l \in Committing
    BY DEF Labels, Committing
  <2>4. /\ Typed' /\ OthersSame(p) /\ pc'[p] = l /\ kind'[p] = kind[p] /\ loaded'[p] = loaded[p]
        /\ request'[p] = request[p] /\ staged'[p] = staged[p] /\ fresh'[p] = fresh[p]
    BY <1>1, <1>2, <1>5, <2>3, Moves
  <2> QED
    BY <1>1, <1>2, <1>3, <2>1, <2>2, <2>3, <2>4, WriterMoves
<1>6. CASE WriteCheckpoint(p) /\ checkpoints[HeadRevision(p) + 1] = None
  <2>1. /\ pc[p] = "checkpoint" /\ Goto(p, "claim")
        /\ checkpoints' = [checkpoints EXCEPT ![Len(manifest) + 1] = NewContent(p)]
    BY <1>3, <1>6 DEF WriteCheckpoint
  <2>2. /\ checkpoints' \in [Revision -> Content \cup {None}]
        /\ \A i \in 0 .. Len(manifest) : checkpoints'[i] = checkpoints[i]
        /\ checkpoints'[Len(manifest) + 1] = NewContent(p)
    BY <1>1, <1>2, <1>3, <2>1, CheckpointAside
  <2>3. FilesTyped'
    BY <1>1, <1>4, <2>2 DEF IInv, TypeOK, FilesTyped
  <2>4. "claim" \in Labels /\ "claim" \in Committing
    BY DEF Labels, Committing
  <2>5. /\ Typed' /\ OthersSame(p) /\ pc'[p] = "claim" /\ kind'[p] = kind[p] /\ loaded'[p] = loaded[p]
        /\ request'[p] = request[p] /\ staged'[p] = staged[p] /\ fresh'[p] = fresh[p]
    BY <1>1, <1>2, <2>1, <2>4, Moves
  <2>6. /\ NewContent(p).assets \subseteq blobs' \cup staged'[p]
        /\ staged'[p] = {} /\ transactions'[File(p)] = request[p].op
    BY <1>1, <1>2, <2>1, <2>5 DEF IInv, Local, Writes
  <2> QED
    BY <1>1, <1>2, <1>3, <2>2, <2>3, <2>4, <2>5, <2>6, WriterMoves
<1>7. CASE WriteCheckpoint(p) /\ checkpoints[HeadRevision(p) + 1] # None
  <2>1. Goto(p, "un_transaction") /\ checkpoints' = checkpoints
    BY <1>7 DEF WriteCheckpoint
  <2> QED
    BY <1>3, <1>5, <2>1
<1>8. CASE WriteCheckpointFails(p)
  <2>1. /\ Goto(p, "un_transaction")
        /\ checkpoints' \in {checkpoints, [checkpoints EXCEPT ![Len(manifest) + 1] = NewContent(p)]}
    BY <1>3, <1>8 DEF WriteCheckpointFails
  <2> QED
    BY <1>3, <1>5, <2>1
<1>9. CASE UndoCheckpoint(p)
  <2>1. Goto(p, "un_blob") /\ checkpoints' = [checkpoints EXCEPT ![Len(manifest) + 1] = None]
    BY <1>1, <1>3, <1>9 DEF UndoCheckpoint, CheckpointOf
  <2> QED
    BY <1>5, <2>1
<1> QED
  BY <1>6, <1>7, <1>8, <1>9

(* A creation: checkpoint 0 comes and goes while there is no manifest.         *)
LEMMA CheckpointZero ==
  ASSUME IInv, manifest = None, NEW v \in Content \cup {None}, manifest' = manifest,
         checkpoints' \in {checkpoints, [checkpoints EXCEPT ![0] = v]},
         UNCHANGED <<transactions, blobs, acknowledged>>, faults' \in 0 .. MaxFaults
  PROVE  /\ FilesTyped'
         /\ checkpoints' = [checkpoints EXCEPT ![0] = v] => checkpoints'[0] = v
PROOF
<1>1. checkpoints \in [Revision -> Content \cup {None}] /\ 0 \in Revision
  BY StoreAssumption DEF IInv, TypeOK, FilesTyped, Revision
<1>2. checkpoints' \in [Revision -> Content \cup {None}]
  BY <1>1
<1> QED
  BY <1>1, <1>2 DEF IInv, TypeOK, FilesTyped

LEMMA UndoCreationKeeps ==
  ASSUME IInv, NEW p \in Process, UndoCheckpoint(p), kind[p] = "create"
  PROVE  IInv'
PROOF
<1>1. /\ pc[p] = "un_checkpoint" /\ Goto(p, "un_blob") /\ checkpoints' = [checkpoints EXCEPT ![0] = None]
      /\ UNCHANGED <<manifest, transactions, blobs, lease, locals, history, acknowledged, faults>>
  BY DEF UndoCheckpoint, CheckpointOf
<1>2. manifest = None /\ fresh[p] = {} /\ Writing(p)
  BY <1>1 DEF IInv, Local, Creates, Writing
<1>3. FilesTyped'
  BY <1>1, <1>2, CheckpointZero, PlainTyped
<1>4. "un_blob" \in Labels
  BY DEF Labels
<1>5. /\ Typed' /\ OthersSame(p) /\ pc'[p] = "un_blob" /\ kind'[p] = kind[p] /\ fresh'[p] = fresh[p]
  BY <1>1, <1>2, <1>4, Moves
<1> QED
  BY <1>1, <1>2, <1>3, <1>5, CreatorMoves

LEMMA InitialContent ==
  ASSUME NEW c \in Initial
  PROVE  c \in Content /\ c.assets = {}
  BY DEF Initial

LEMMA CreateKeeps ==
  ASSUME IInv, NEW p \in Process, CreateCheckpoint(p) \/ CreateCheckpointFails(p)
  PROVE  IInv'
PROOF
<1>1. pc[p] = "create" /\ UNCHANGED <<manifest, transactions, blobs, history, acknowledged>>
  BY DEF CreateCheckpoint, CreateCheckpointFails
<1>2. Writing(p) /\ kind[p] = "create" /\ fresh[p] = {} /\ Grows
  BY <1>1 DEF IInv, Local, Creates, Clean, Writing, Committing, Grows
<1>3. CASE CreateCheckpoint(p)
  <2>1. PICK initial \in Initial :
          IF manifest # None \/ checkpoints[0] \notin {None, initial}
          THEN Return(p) /\ UNCHANGED checkpoints
          ELSE /\ checkpoints' = [checkpoints EXCEPT ![0] = initial]
               /\ Goto(p, "claim")
               /\ UNCHANGED <<lease, locals>>
    BY <1>3 DEF CreateCheckpoint
  <2>2. faults' = faults
    BY <1>3 DEF CreateCheckpoint
  <2>3. CASE manifest # None \/ checkpoints[0] \notin {None, initial}
    BY <1>1, <2>1, <2>2, <2>3, QuietReturn, PlainTyped DEF disk
  <2>4. CASE ~(manifest # None \/ checkpoints[0] \notin {None, initial})
    <3>1. FilesTyped' /\ checkpoints'[0] = initial
      BY <1>1, <2>1, <2>2, <2>4, CheckpointZero, PlainTyped, InitialContent
    <3>2. "claim" \in Labels
      BY DEF Labels
    <3>3. Typed' /\ OthersSame(p) /\ pc'[p] = "claim" /\ kind'[p] = kind[p] /\ fresh'[p] = fresh[p]
      BY <1>1, <1>2, <2>1, <2>4, <3>2, Moves
    <3> QED
      BY <1>1, <1>2, <2>4, <3>1, <3>3, CreatorMoves
  <2> QED
    BY <2>3, <2>4
<1>4. CASE CreateCheckpointFails(p)
  <2>1. manifest = None /\ Return(p) /\ Fault
    BY <1>4 DEF CreateCheckpointFails
  <2>2. PICK initial \in Initial : checkpoints' \in {checkpoints, [checkpoints EXCEPT ![0] = initial]}
    BY <1>4 DEF CreateCheckpointFails
  <2>3. FilesTyped'
    BY <1>1, <2>1, <2>2, CheckpointZero, FaultTyped, InitialContent DEF IInv, TypeOK
  <2>4. Typed' /\ OthersSame(p) /\ Local(p)'
    BY <1>1, <2>1, ReturnKeeps, PlainTyped DEF IInv, TypeOK, Typed
  <2>5. Chained'
    BY <1>1, <2>1 DEF Chained
  <2> QED
    BY <1>2, <2>3, <2>4, <2>5, StepKeeps
<1> QED
  BY <1>3, <1>4

LEMMA ClaimKeeps ==
  ASSUME IInv, NEW p \in Process, Claim(p) \/ ClaimRefused(p)
  PROVE  IInv'
PROOF
<1>1. /\ pc[p] = "claim"
      /\ UNCHANGED <<disk, lease, kind, loaded, request, staged, fresh, prepared, history, acknowledged, faults>>
      /\ strict' \in [Process -> BOOLEAN]
  BY DEF Claim, ClaimRefused, locals, IInv, TypeOK, MemoryTyped
<1>2. pc[p] \in Committing /\ Writing(p)
  BY <1>1 DEF Committing, Writing
<1>3. PICK l \in {"replace", "un_checkpoint", "un_transaction"} :
        Goto(p, l) /\ (kind[p] = "create" => l # "un_transaction")
  BY DEF Claim, ClaimRefused
<1>4. l \in Labels /\ l \in Committing
  BY DEF Labels, Committing
<1>5. /\ Typed' /\ OthersSame(p) /\ pc'[p] = l /\ kind'[p] = kind[p] /\ loaded'[p] = loaded[p]
      /\ request'[p] = request[p] /\ staged'[p] = staged[p] /\ fresh'[p] = fresh[p]
  <2>1. Typed
    BY DEF IInv, TypeOK, Typed
  <2> QED
    BY <1>1, <1>2, <1>3, <1>4, <2>1, GotoKeeps
<1>6. FilesTyped'
  BY <1>1, StillTyped, PlainTyped DEF IInv, TypeOK
<1>7. manifest' = manifest /\ checkpoints' = checkpoints /\ transactions' = transactions /\ blobs' = blobs
  BY <1>1 DEF disk
<1>8. CASE kind[p] = "create"
  <2>1. manifest = None /\ fresh[p] = {} /\ checkpoints[0] \in Initial
    BY <1>1, <1>8 DEF IInv, Local, Creates
  <2> QED
    BY <1>2, <1>3, <1>5, <1>6, <1>7, <1>8, <2>1, CreatorMoves
<1>9. CASE kind[p] # "create"
  <2>1. /\ checkpoints[Len(manifest)].assets \subseteq blobs
        /\ fresh[p] \cap checkpoints[Len(manifest)].assets = {} /\ HeadRevision(p) = Len(manifest)
    BY <1>2, <1>9, WriterFacts
  <2>2. /\ NewContent(p).assets \subseteq blobs \cup staged[p]
        /\ staged[p] = {} /\ transactions[File(p)] = request[p].op
        /\ checkpoints[Len(manifest) + 1] = NewContent(p)
    BY <1>1, <1>2, <1>9, <2>1 DEF IInv, Local, Writes
  <2> QED
    BY <1>2, <1>4, <1>5, <1>6, <1>7, <1>9, <2>1, <2>2, WriterMoves
<1> QED
  BY <1>8, <1>9

(* The clean-up of a failed commit takes back only artifacts the head does not *)
(* refer to.                                                                   *)
LEMMA UndoArtifactKeeps ==
  ASSUME IInv, NEW p \in Process, UndoArtifact(p) \/ UndoArtifactFails(p)
  PROVE  IInv'
PROOF
<1>1. pc[p] = "un_blob"
  BY DEF UndoArtifact, UndoArtifactFails
<1>2. CASE UndoArtifact(p) /\ fresh[p] = {}
  BY <1>2, QuietReturn, PlainTyped DEF UndoArtifact, disk
<1>3. ASSUME fresh[p] # {}, UndoArtifact(p) \/ UndoArtifactFails(p)
      PROVE  IInv'
  <2>1. kind[p] # "create" /\ pc[p] \in Committing
    BY <1>1, <1>3 DEF IInv, Local, Creates, Committing
  <2>2. PICK b \in fresh[p] :
          /\ fresh' = [fresh EXCEPT ![p] = fresh[p] \ {b}]
          /\ blobs' \in {blobs, blobs \ {b}}
    BY <1>3 DEF UndoArtifact, UndoArtifactFails, disk
  <2>3. UNCHANGED <<manifest, checkpoints, transactions, lease, pc, kind, loaded, request, staged, strict,
                    prepared, history, acknowledged>>
    BY <1>3 DEF UndoArtifact, UndoArtifactFails, disk
  <2>4. faults' \in 0 .. MaxFaults
    BY <1>3, FaultTyped, PlainTyped DEF IInv, TypeOK, UndoArtifact, UndoArtifactFails
  <2>5. /\ checkpoints[Len(manifest)].assets \subseteq blobs
        /\ fresh[p] \cap checkpoints[Len(manifest)].assets = {}
    BY <2>1, WriterFacts
  <2>6. FilesTyped'
    BY <2>2, <2>3, <2>4 DEF IInv, TypeOK, FilesTyped
  <2>7. MemoryTyped'
    BY <2>2, <2>3 DEF IInv, TypeOK, MemoryTyped
  <2>8. WritersHoldLease' /\ HistoryTyped'
    BY <2>3 DEF IInv, TypeOK, WritersHoldLease, Writing, HistoryTyped
  <2>9. OthersSame(p) /\ fresh'[p] = fresh[p] \ {b}
    BY <2>2, <2>3 DEF IInv, TypeOK, MemoryTyped, OthersSame, SameAt
  <2>10. checkpoints[Len(manifest)].assets \subseteq blobs' /\ fresh'[p] \cap checkpoints[Len(manifest)].assets = {}
    BY <2>2, <2>5, <2>9
  <2> QED
    BY <1>1, <2>1, <2>3, <2>6, <2>7, <2>8, <2>9, <2>10, WriterMoves DEF Typed
<1>4. UndoArtifactFails(p) => fresh[p] # {}
  BY DEF UndoArtifactFails
<1> QED
  BY <1>2, <1>3, <1>4

(* The manifest is replaced by one whose files are complete.                   *)
LEMMA PublishedChained ==
  ASSUME IInv, NEW p \in Process, pc[p] = "replace", manifest' = NewManifest(p),
         UNCHANGED <<checkpoints, transactions, blobs>>
  PROVE  manifest' \in Seq(Command) /\ Len(manifest') <= MaxRevision /\ Chained' /\ Grows
PROOF
<1>1. CASE kind[p] = "create"
  <2>1. manifest = None /\ checkpoints[0] \in Initial
    BY <1>1 DEF IInv, Local, Creates
  <2>2. manifest' = <<>> /\ checkpoints' = checkpoints /\ blobs' = blobs
    BY <1>1 DEF NewManifest
  <2>3. manifest' \in Seq(Command) /\ Len(manifest') = 0
    BY <2>2, EmptySeq
  <2>4. checkpoints[0] \in Content /\ checkpoints[0].assets = {}
    BY <2>1, InitialContent
  <2>5. Chained'
    BY <2>2, <2>3, <2>4 DEF Chained, Chain, AssetsPresent
  <2> QED
    BY <2>1, <2>3, <2>5, StoreAssumption DEF Grows
<1>2. CASE kind[p] # "create"
  <2> DEFINE m == Len(manifest)
             c == request[p].cmd
  <2>1. pc[p] \in Committing
    BY DEF Committing
  <2>2. /\ manifest # None /\ manifest \in Seq(Command) /\ m \in Nat /\ m + 1 \in 1 .. MaxRevision
        /\ loaded[p].log = manifest /\ HeadRevision(p) = m /\ c \in Command
        /\ File(p) = <<m + 1, c>> /\ checkpoints[m] \in Content
        /\ NewContent(p) = Apply(request[p].op, checkpoints[m]) /\ NewContent(p) \in Content
        /\ request[p].op \in Op /\ loaded[p].content = checkpoints[m]
    BY <1>2, <2>1, WriterFacts
  <2>3. /\ NewContent(p).assets \subseteq blobs \cup staged[p] /\ staged[p] = {}
        /\ transactions[File(p)] = request[p].op /\ checkpoints[m + 1] = NewContent(p)
        /\ Applies(request[p].op, loaded[p].content)
    BY <1>2, <2>1, <2>2 DEF IInv, Local, Writes
  <2>4. manifest' = Append(manifest, c)
    BY <1>2, <2>2 DEF NewManifest
  <2>5. /\ manifest' \in Seq(Command) /\ Len(manifest') = m + 1 /\ manifest'[m + 1] = c
        /\ \A i \in 1 .. m : manifest'[i] = manifest[i]
    BY <2>2, <2>4, AppendProperties
  <2>6. Chain(manifest)
    BY <2>2 DEF IInv, Chained
  <2> HIDE DEF m, c
  <2>7. ASSUME NEW i \in 1 .. m + 1
        PROVE  /\ transactions[<<i, manifest'[i]>>] \in Op
               /\ checkpoints[i] \in Content
               /\ Applies(transactions[<<i, manifest'[i]>>], checkpoints[i - 1])
               /\ checkpoints[i] = Apply(transactions[<<i, manifest'[i]>>], checkpoints[i - 1])
    <3>1. CASE i = m + 1
      <4>1. i - 1 = m /\ <<i, manifest'[i]>> = File(p)
        BY <2>2, <2>5, <3>1
      <4> QED
        BY <2>2, <2>3, <3>1, <4>1
    <3>2. CASE i # m + 1
      <4>1. i \in 1 .. m /\ manifest'[i] = manifest[i]
        BY <2>2, <2>5, <3>2
      <4> QED
        BY <2>6, <4>1 DEF Chain, m
    <3> QED
      BY <3>1, <3>2
  <2>8. Chain(manifest)'
    BY <2>5, <2>6, <2>7 DEF Chain
  <2>9. AssetsPresent(checkpoints[Len(manifest)])'
    BY <2>3, <2>5 DEF AssetsPresent
  <2>10. Len(manifest') <= MaxRevision
    BY <2>2, <2>5, StoreAssumption
  <2>11. Grows
    BY <2>2, <2>4 DEF Grows
  <2> QED
    BY <2>5, <2>8, <2>9, <2>10, <2>11 DEF Chained
<1> QED
  BY <1>1, <1>2

LEMMA ReplaceKeeps ==
  ASSUME IInv, NEW p \in Process, ReplaceManifest(p) \/ ReplaceManifestFails(p)
  PROVE  IInv'
PROOF
<1>1. pc[p] = "replace" /\ Return(p) /\ UNCHANGED <<checkpoints, transactions, blobs>>
  BY DEF ReplaceManifest, ReplaceManifestFails
<1>2. manifest' \in {manifest, NewManifest(p)}
  BY DEF ReplaceManifest, ReplaceManifestFails
<1>3. /\ manifest' \in Seq(Command) \cup {None} /\ (manifest' # None => Len(manifest') <= MaxRevision)
      /\ Chained' /\ Grows
  <2>1. CASE manifest' = manifest
    BY <1>1, <2>1 DEF IInv, TypeOK, FilesTyped, Chained, Chain, AssetsPresent, Grows
  <2>2. CASE manifest' = NewManifest(p)
    BY <1>1, <2>2, PublishedChained
  <2> QED
    BY <1>2, <2>1, <2>2
<1>4. history' \in [Process -> Objects]
  <2>1. history[p] \in Objects /\ prepared[p] \in StateType \cup {None}
    BY DEF IInv, HistoryTyped
  <2>2. Begin(history[p], prepared[p]) \in Objects /\ Confirm(history[p], prepared[p]) \in Objects
    BY <2>1, PublishTyped
  <2>3. \/ history' = history
        \/ history' = [history EXCEPT ![p] = Begin(history[p], prepared[p])]
        \/ history' = [history EXCEPT ![p] = Confirm(history[p], prepared[p])]
    BY DEF ReplaceManifest, ReplaceManifestFails
  <2> QED
    BY <2>2, <2>3, PlainTyped
<1>5. acknowledged' \subseteq Command
  <2>1. kind[p] # "create" => request[p].cmd \in Command
    BY <1>1, WriterFacts DEF Committing
  <2> QED
    BY <2>1, PlainTyped DEF ReplaceManifest, ReplaceManifestFails
<1>6. faults' \in 0 .. MaxFaults
  BY FaultTyped, PlainTyped DEF IInv, TypeOK, ReplaceManifest, ReplaceManifestFails
<1>7. FilesTyped'
  BY <1>1, <1>3, <1>5, <1>6 DEF IInv, TypeOK, FilesTyped
<1>8. Typed' /\ OthersSame(p) /\ Local(p)'
  BY <1>1, <1>4, ReturnKeeps DEF IInv, TypeOK, Typed
<1>9. Writing(p)
  BY <1>1 DEF Writing
<1> QED
  BY <1>3, <1>7, <1>8, <1>9, StepKeeps

(* A reader without the lease.                                                 *)
LEMMA ReadKeeps ==
  ASSUME IInv, NEW p \in Process, ReadManifest(p) \/ ReadHistory(p)
  PROVE  IInv'
PROOF
<1>1. UNCHANGED <<disk, history, acknowledged, faults>> /\ pc[p] \in {"idle", "read_history"}
  BY DEF ReadManifest, ReadHistory
<1>2. FilesTyped' /\ Chained'
  BY <1>1, StillTyped, ChainedStill, PlainTyped DEF IInv, TypeOK
<1>3. staged[p] = {} /\ fresh[p] = {} /\ kind[p] # "create"
  BY <1>1 DEF IInv, Local, Clean, Creates, Committing
<1>4. CASE ReadHistory(p) /\ ~Replays(loaded[p].log)
  BY <1>1, <1>4, QuietReturn, PlainTyped DEF ReadHistory
<1>5. ASSUME NEW v \in LoadedProject, NEW l \in {"read_history", "read_assets"}, NEW k \in {"read", kind[p]},
             loaded' = [loaded EXCEPT ![p] = v], Goto(p, l), kind' = [kind EXCEPT ![p] = k],
             UNCHANGED <<lease, request, staged, fresh, strict, prepared>>,
             l = "read_history" => manifest # None /\ v.log = manifest
      PROVE  IInv'
  <2>1. MemoryTyped'
    BY <1>5 DEF IInv, TypeOK, MemoryTyped, Goto, Labels, Kinds
  <2>2. WritersHoldLease'
    BY <1>5 DEF IInv, TypeOK, MemoryTyped, WritersHoldLease, Writing, Goto
  <2>3. HistoryTyped'
    BY <1>1, <1>5 DEF IInv, HistoryTyped
  <2>4. OthersSame(p)
    BY <1>5 DEF IInv, TypeOK, MemoryTyped, OthersSame, SameAt, Goto
  <2>5. /\ pc'[p] = l /\ kind'[p] = k /\ loaded'[p] = v /\ staged'[p] = {} /\ fresh'[p] = {}
        /\ manifest' = manifest
    BY <1>1, <1>3, <1>5 DEF IInv, TypeOK, MemoryTyped, Goto, disk
  <2>6. Clean(p)' /\ Holds(p)' /\ Writes(p)' /\ Creates(p)'
    BY <1>3, <2>5 DEF Clean, Holds, Writes, Creates, Committing
  <2>7. Reads(p)'
    <3>1. l = "read_history" => manifest \in Seq(Command)
      BY <1>5 DEF IInv, TypeOK, FilesTyped
    <3>2. l = "read_history" => Len(manifest) \in Nat
      BY <3>1, LenProperties
    <3> QED
      BY <1>5, <2>5, <3>2 DEF Reads
  <2> QED
    BY <1>1, <1>2, <2>1, <2>2, <2>3, <2>4, <2>6, <2>7, StepKeeps DEF Local, Typed
<1>6. CASE ReadHistory(p) /\ Replays(loaded[p].log)
  <2> DEFINE v == [log |-> loaded[p].log, content |-> checkpoints[HeadRevision(p)]]
  <2>1. /\ loaded' = [loaded EXCEPT ![p] = v] /\ Goto(p, "read_assets") /\ pc[p] = "read_history"
        /\ UNCHANGED <<lease, kind, request, staged, fresh, strict, prepared>>
    BY <1>6 DEF ReadHistory
  <2>2. kind' = [kind EXCEPT ![p] = kind[p]]
    BY <2>1 DEF IInv, TypeOK, MemoryTyped
  <2>3. v \in LoadedProject
    <3>1. loaded[p].log \in Seq(Command)
      BY DEF IInv, TypeOK, MemoryTyped, LoadedProject
    <3>2. Len(loaded[p].log) <= Len(manifest) /\ manifest # None
      BY <2>1 DEF IInv, Local, Reads
    <3>3. Len(manifest) \in Nat /\ Len(manifest) <= MaxRevision
      BY <3>2, HeadFacts DEF IInv, TypeOK
    <3>4. HeadRevision(p) \in Revision
      BY <3>1, <3>2, <3>3, LenProperties, StoreAssumption DEF HeadRevision, Revision
    <3>5. checkpoints[HeadRevision(p)] \in Content \cup {None}
      BY <3>4 DEF IInv, TypeOK, FilesTyped
    <3> QED
      BY <3>1, <3>5 DEF LoadedProject
  <2> HIDE DEF v
  <2> QED
    BY <1>5, <2>1, <2>2, <2>3
<1>7. CASE ReadManifest(p)
  <2> DEFINE v == [log |-> manifest, content |-> None]
  <2>1. /\ loaded' = [loaded EXCEPT ![p] = v] /\ Goto(p, "read_history") /\ manifest # None
        /\ kind' = [kind EXCEPT ![p] = "read"]
        /\ UNCHANGED <<lease, request, staged, fresh, strict, prepared>>
    BY <1>7 DEF ReadManifest
  <2>2. v \in LoadedProject /\ v.log = manifest
    BY <2>1 DEF IInv, TypeOK, FilesTyped, LoadedProject
  <2> HIDE DEF v
  <2> QED
    BY <1>5, <2>1, <2>2
<1> QED
  BY <1>4, <1>6, <1>7
-------------------------------------------------------------------------------
LEMMA InitIInv == Init => IInv
PROOF
<1> SUFFICES ASSUME Init PROVE IInv
  OBVIOUS
<1>1. FilesTyped
  BY StoreAssumption DEF Init, FilesTyped
<1>2. MemoryTyped
  BY NoLocals DEF Init, MemoryTyped, Labels
<1>3. WritersHoldLease
  BY DEF Init, WritersHoldLease, Writing
<1>4. HistoryTyped
  BY ClosedTyped DEF Init, HistoryTyped
<1>5. Chained
  BY DEF Init, Chained
<1>6. ASSUME NEW p \in Process PROVE Local(p)
  <2>1. pc[p] = "idle" /\ kind[p] = "none" /\ staged[p] = {} /\ fresh[p] = {}
    BY DEF Init
  <2> QED
    BY <2>1 DEF Local, Clean, Holds, Writes, Creates, Reads, Committing
<1> QED
  BY <1>1, <1>2, <1>3, <1>4, <1>5, <1>6 DEF IInv, TypeOK

LEMMA NextIInv == IInv /\ [Next]_vars => IInv'
PROOF
<1> SUFFICES ASSUME IInv, [Next]_vars PROVE IInv'
  OBVIOUS
<1>1. ASSUME NEW p \in Process, Operation(p) PROVE IInv'
  <2>1. ASSUME NEW k \in Kinds, Acquire(p, k) PROVE IInv'
    BY <2>1, AcquireKeeps
  <2>2. CASE OwnerLost(p) \/ CloseHistory(p)
    BY <2>2, IdleKeeps
  <2>3. CASE Load(p)
    BY <2>3, LoadKeeps
  <2>4. CASE RemoveStale(p)
    BY <2>4, RemoveStaleKeeps
  <2>5. CASE Recovered(p)
    BY <2>5, RecoveredKeeps
  <2>6. CASE RemoveStaleFails(p) \/ Refuse(p) \/ UndoCheckpointFails(p) \/ ReadAssets(p) \/ Crash(p)
    BY <2>6, ReturningKeeps
  <2>7. CASE Replay(p)
    BY <2>7, ReplayKeeps
  <2>8. CASE BeginCommand(p)
    BY <2>8, BeginCommandKeeps
  <2>9. CASE BeginRestore(p)
    BY <2>9, BeginRestoreKeeps
  <2>10. ASSUME NEW b \in Blob, PublishArtifact(p, b) \/ PublishArtifactFails(p, b) PROVE IInv'
    BY <2>10, PublishArtifactKeeps, PublishArtifactFailsKeeps
  <2>11. CASE WriteTransaction(p) \/ WriteTransactionFails(p) \/ UndoTransaction(p)
    BY <2>11, TransactionKeeps
  <2>12. CASE UndoTransactionFails(p)
    BY <2>12, TransactionKeeps, ReturningKeeps
  <2>13. CASE WriteCheckpoint(p) \/ WriteCheckpointFails(p)
    BY <2>13, CheckpointKeeps
  <2>14. CASE UndoCheckpoint(p)
    BY <2>14, CheckpointKeeps, UndoCreationKeeps
  <2>15. CASE Claim(p) \/ ClaimRefused(p)
    BY <2>15, ClaimKeeps
  <2>16. CASE UndoArtifact(p) \/ UndoArtifactFails(p)
    BY <2>16, UndoArtifactKeeps
  <2>17. CASE ReplaceManifest(p) \/ ReplaceManifestFails(p)
    BY <2>17, ReplaceKeeps
  <2>18. CASE CreateCheckpoint(p) \/ CreateCheckpointFails(p)
    BY <2>18, CreateKeeps
  <2>19. CASE ReadManifest(p) \/ ReadHistory(p)
    BY <2>19, ReadKeeps
  <2> QED
    BY <1>1, <2>1, <2>2, <2>3, <2>4, <2>5, <2>6, <2>7, <2>8, <2>9, <2>10, <2>11, <2>12, <2>13, <2>14, <2>15,
       <2>16, <2>17, <2>18, <2>19 DEF Operation
<1>2. CASE UNCHANGED vars
  <2>1. history' \in [Process -> Objects] /\ UNCHANGED <<disk, lease, memory, acknowledged, faults>>
    BY <1>2, PlainTyped DEF vars, memory
  <2>2. FilesTyped' /\ Chained'
    BY <2>1, StillTyped, ChainedStill, PlainTyped DEF IInv, TypeOK
  <2>3. Typed' /\ \A q \in Process : SameAt(q)
    BY <2>1, MemoryStill
  <2>4. manifest' = manifest /\ checkpoints' = checkpoints /\ transactions' = transactions /\ blobs' = blobs
    BY <2>1 DEF disk
  <2>5. ASSUME NEW q \in Process PROVE Local(q)'
    <3>1. Local(q) /\ SameAt(q)
      BY <2>3 DEF IInv
    <3>2. Clean(q)' /\ Creates(q)' /\ Reads(q)'
      BY <2>4, <3>1 DEF SameAt, Local, Clean, Creates, Reads
    <3>3. Holds(q)'
      BY <2>4, <3>1 DEF SameAt, Local, Holds
    <3>4. Writes(q)'
      BY <2>4, <3>1 DEF SameAt, Local, Writes, HeadRevision, NewContent, File
    <3> QED
      BY <3>2, <3>3, <3>4 DEF Local
  <2> QED
    BY <2>2, <2>3, <2>5 DEF IInv, TypeOK, Typed
<1> QED
  BY <1>1, <1>2 DEF Next

THEOREM Invariance == Spec => []IInv
  BY InitIInv, NextIInv, PTL DEF Spec

(* The types hold, and never do two processes write at once.                   *)
THEOREM TypeCorrect == Spec => []TypeOK
PROOF
<1>1. IInv => TypeOK
  BY DEF IInv
<1> QED
  BY <1>1, Invariance, PTL

(* Whatever file operation fails, before or after its effect, and whichever    *)
(* process dies wherever, load_project() finds the bundle whole; and a load    *)
(* without the lease that has read the manifest finds the history it lists,    *)
(* although others commit, recover and clean up meanwhile.                     *)
THEOREM RecoverySound == Spec => []Recoverable
PROOF
<1>1. ASSUME IInv PROVE Recoverable
  <2>1. Loads
    BY <1>1, HeadFacts DEF Loads, AssetsPresent, IInv, TypeOK
  <2>2. ASSUME NEW p \in Process, pc[p] = "read_history" PROVE Replays(loaded[p].log)
    <3> DEFINE log == loaded[p].log
    <3>1. log \in Seq(Command)
      BY <1>1 DEF IInv, TypeOK, MemoryTyped, LoadedProject
    <3>2. manifest # None /\ Len(log) <= Len(manifest) /\ \A i \in 1 .. Len(log) : log[i] = manifest[i]
      BY <1>1, <2>2 DEF IInv, Local, Reads
    <3>3. Chain(manifest) /\ Len(manifest) \in Nat
      BY <1>1, <3>2, HeadFacts DEF IInv, TypeOK, Chained
    <3>4. Len(log) \in Nat
      BY <3>1, LenProperties
    <3> HIDE DEF log
    <3>5. \A i \in 1 .. Len(log) : i \in 1 .. Len(manifest) /\ log[i] = manifest[i]
      BY <3>2, <3>3, <3>4
    <3>6. Chain(log)
      BY <3>3, <3>5 DEF Chain
    <3> QED
      BY <3>1, <3>6, ChainReplays DEF log
  <2> QED
    BY <2>1, <2>2 DEF Recoverable, ReaderSound
<1> QED
  BY <1>1, Invariance, PTL

-------------------------------------------------------------------------------
(* The bundle implements the append-only log.                                  *)
LEMMA InitTruth == Init => Truth!AInit
  BY DEF Init, Truth!AInit

(* Only the manifest's replacement and a retry's receipt are visible.          *)
LEMMA Invisible ==
  ASSUME manifest' = manifest, acknowledged' = acknowledged
  PROVE  UNCHANGED Truth!avars
  BY DEF Truth!avars

LEMMA CommitTruth ==
  ASSUME IInv, NEW p \in Process, ReplaceManifest(p) \/ ReplaceManifestFails(p)
  PROVE  Truth!ANext \/ UNCHANGED Truth!avars
PROOF
<1>1. pc[p] = "replace" /\ manifest' \in {manifest, NewManifest(p)}
  BY DEF ReplaceManifest, ReplaceManifestFails
<1>2. CASE kind[p] = "create"
  <2>1. manifest = None /\ NewManifest(p) = <<>> /\ acknowledged' = acknowledged
    BY <1>1, <1>2 DEF IInv, Local, Creates, NewManifest, ReplaceManifest, ReplaceManifestFails
  <2>2. CASE manifest' = manifest
    BY <2>1, <2>2, Invisible
  <2>3. CASE manifest' = <<>>
    <3>1. manifest' # None
      BY <2>3, EmptySeq, StoreAssumption
    <3>2. Truth!ACreate
      BY <2>1, <2>3, <3>1 DEF Truth!ACreate
    <3> QED
      BY <3>2 DEF Truth!ANext
  <2> QED
    BY <1>1, <2>1, <2>2, <2>3
<1>3. CASE kind[p] # "create"
  <2> DEFINE c == request[p].cmd
  <2>1. pc[p] \in Committing
    BY <1>1 DEF Committing
  <2>2. manifest # None /\ manifest \in Seq(Command) /\ loaded[p].log = manifest /\ c \in Command
    BY <1>3, <2>1, WriterFacts
  <2>3. ~Committed(manifest, c)
    BY <1>3, <2>1, <2>2 DEF IInv, Local, Writes
  <2>4. NewManifest(p) = Append(manifest, c)
    BY <1>3, <2>2 DEF NewManifest
  <2>5. acknowledged' = acknowledged \/ (acknowledged' = acknowledged \cup {c} /\ manifest' = NewManifest(p))
    BY <1>3 DEF ReplaceManifest, ReplaceManifestFails
  <2>6. Append(manifest, c) # None /\ Append(manifest, c) # manifest
    <3>1. Append(manifest, c) \in Seq(Command) /\ Len(Append(manifest, c)) = Len(manifest) + 1
      BY <2>2, AppendProperties
    <3>2. Len(manifest) \in Nat
      BY <2>2, LenProperties
    <3> QED
      BY <3>1, <3>2, StoreAssumption
  <2> HIDE DEF c
  <2>7. CASE manifest' = Append(manifest, c)
    <3>1. ~Truth!InLog(c)
      BY <2>2, <2>3 DEF Truth!InLog, Committed
    <3>2. Truth!ACommit
      BY <2>2, <2>5, <2>6, <2>7, <3>1 DEF Truth!ACommit
    <3> QED
      BY <3>2 DEF Truth!ANext
  <2>8. CASE manifest' = manifest
    BY <2>4, <2>5, <2>6, <2>8, Invisible
  <2> QED
    BY <1>1, <2>4, <2>7, <2>8
<1> QED
  BY <1>2, <1>3

LEMMA ReceiptTruth ==
  ASSUME IInv, NEW p \in Process, Replay(p)
  PROVE  Truth!ANext
PROOF
<1>1. pc[p] = "decide" /\ manifest' = manifest
  BY DEF Replay, disk
<1>2. manifest # None /\ loaded[p] = [log |-> manifest, content |-> checkpoints[Len(manifest)]]
  BY <1>1 DEF IInv, Local, Holds, Creates
<1>3. loaded[p].log = manifest
  BY <1>2
<1>4. PICK i \in DOMAIN manifest : acknowledged' = acknowledged \cup {manifest[i]}
  BY <1>3 DEF Replay
<1>5. manifest \in Seq(Command)
  BY <1>2 DEF IInv, TypeOK, FilesTyped
<1>6. manifest[i] \in Command
  BY <1>4, <1>5, LenProperties, ElementOfSeq
<1>7. Truth!InLog(manifest[i])
  BY <1>2, <1>4 DEF Truth!InLog
<1>8. Truth!AReplay
  BY <1>1, <1>4, <1>6, <1>7 DEF Truth!AReplay
<1> QED
  BY <1>8 DEF Truth!ANext

LEMMA NextTruth == IInv /\ [Next]_vars => [Truth!ANext]_(Truth!avars)
PROOF
<1> SUFFICES ASSUME IInv, [Next]_vars PROVE Truth!ANext \/ UNCHANGED Truth!avars
  OBVIOUS
<1>1. ASSUME NEW p \in Process, Operation(p) PROVE Truth!ANext \/ UNCHANGED Truth!avars
  <2>1. CASE ReplaceManifest(p) \/ ReplaceManifestFails(p)
    BY <2>1, CommitTruth
  <2>2. CASE Replay(p)
    BY <2>2, ReceiptTruth
  <2>3. ASSUME ~(ReplaceManifest(p) \/ ReplaceManifestFails(p) \/ Replay(p))
        PROVE  manifest' = manifest /\ acknowledged' = acknowledged
    <3>1. CASE \/ \E k \in Kinds : Acquire(p, k)
               \/ OwnerLost(p) \/ CloseHistory(p) \/ Load(p) \/ RemoveStale(p) \/ RemoveStaleFails(p)
               \/ Recovered(p) \/ Refuse(p) \/ BeginCommand(p) \/ BeginRestore(p)
      BY <3>1 DEF disk, Acquire, OwnerLost, CloseHistory, Load, RemoveStale, RemoveStaleFails, Recovered, Refuse,
                  BeginCommand, BeginRestore
    <3>2. CASE \/ \E b \in Blob : PublishArtifact(p, b) \/ PublishArtifactFails(p, b)
               \/ WriteTransaction(p) \/ WriteTransactionFails(p) \/ WriteCheckpoint(p) \/ WriteCheckpointFails(p)
               \/ Claim(p) \/ ClaimRefused(p)
      BY <3>2 DEF disk, PublishArtifact, PublishArtifactFails, WriteTransaction, WriteTransactionFails,
                  WriteCheckpoint, WriteCheckpointFails, Claim, ClaimRefused
    <3>3. CASE \/ UndoTransaction(p) \/ UndoTransactionFails(p) \/ UndoCheckpoint(p) \/ UndoCheckpointFails(p)
               \/ UndoArtifact(p) \/ UndoArtifactFails(p) \/ CreateCheckpoint(p) \/ CreateCheckpointFails(p)
               \/ ReadManifest(p) \/ ReadHistory(p) \/ ReadAssets(p) \/ Crash(p)
      BY <3>3 DEF disk, UndoTransaction, UndoTransactionFails, UndoCheckpoint, UndoCheckpointFails, UndoArtifact,
                  UndoArtifactFails, CreateCheckpoint, CreateCheckpointFails, ReadManifest, ReadHistory,
                  ReadAssets, Crash
    <3> QED
      BY <1>1, <2>3, <3>1, <3>2, <3>3 DEF Operation
  <2> QED
    BY <2>1, <2>2, <2>3, Invisible
<1>2. CASE UNCHANGED vars
  BY <1>2, Invisible DEF vars, disk
<1> QED
  BY <1>1, <1>2 DEF Next

(* A commit is atomic, happens at most once per command however often it is    *)
(* retried, is never taken back, not even by a crash or a failed clean-up, and *)
(* only committed commands are acknowledged.                                   *)
THEOREM ImplementsTruth == Spec => TruthSpec
PROOF
<1>1. Spec => Truth!AInit /\ [][Truth!ANext]_(Truth!avars)
  BY InitTruth, NextTruth, Invariance, PTL DEF Spec
<1> QED
  BY <1>1 DEF TruthSpec, Truth!ASpec
-------------------------------------------------------------------------------
(* The bytes of Undo and Redo. The artifacts an entry of the history needs are *)
(* those its two contents do not share.                                        *)
Delta(e) == (e.from.assets \ e.to.assets) \cup (e.to.assets \ e.from.assets)
Covered(s, B) == \A i \in 1 .. Len(s) : Delta(s[i]) \subseteq B
Kept(h, B) ==
  h # None => Covered(h.undo, B) /\ Covered(h.redo, B) /\ Covered(h.displacedRedo, B) /\ Covered(h.displacedOldest, B)
KeptObject(o, B) == Kept(o.state, B) /\ Kept(o.before, B) /\ Kept(o.after, B)

(* What the history needs is on disk and none of it is the commit's to take    *)
(* back; what the prepared state needs is on disk or still to be published.    *)
BytesHeld(p) ==
  /\ KeptObject(history[p], blobs \ fresh[p])
  /\ pc[p] \in {"blob", "checkpoint", "claim", "replace"} /\ kind[p] # "create" =>
       Kept(prepared[p], blobs \cup staged[p])

LEMMA KeptMono ==
  ASSUME NEW h \in StateType \cup {None}, NEW B, NEW C, B \subseteq C, Kept(h, B)
  PROVE  Kept(h, C)
  BY DEF Kept, Covered

LEMMA KeptObjectMono ==
  ASSUME NEW o \in Objects, NEW B, NEW C, B \subseteq C, KeptObject(o, B)
  PROVE  KeptObject(o, C)
PROOF
<1>1. o.state \in StateType \cup {None} /\ o.before \in StateType \cup {None} /\ o.after \in StateType \cup {None}
  BY DEF Objects
<1> QED
  BY <1>1, KeptMono DEF KeptObject

LEMMA EmptyCovered ==
  ASSUME NEW B
  PROVE  Covered(<<>>, B) /\ Kept(None, B)
PROOF
<1>1. Len(<<>>) = 0
  BY EmptySeq
<1> QED
  BY <1>1 DEF Covered, Kept

LEMMA AppendCovered ==
  ASSUME NEW s \in Seq(EntryType), NEW e \in EntryType, NEW B, Covered(s, B), Delta(e) \subseteq B
  PROVE  Covered(Append(s, e), B)
PROOF
<1>1. /\ Len(s) \in Nat /\ Len(Append(s, e)) = Len(s) + 1 /\ Append(s, e)[Len(s) + 1] = e
      /\ \A i \in 1 .. Len(s) : Append(s, e)[i] = s[i]
  BY AppendProperties, LenProperties
<1> HIDE DEF Delta
<1>2. ASSUME NEW i \in 1 .. Len(s) + 1 PROVE Delta(Append(s, e)[i]) \subseteq B
  <2>1. CASE i = Len(s) + 1
    BY <1>1, <2>1
  <2>2. CASE i # Len(s) + 1
    <3>1. i \in 1 .. Len(s)
      BY <1>1, <2>2
    <3>2. Append(s, e)[i] = s[i]
      BY <1>1, <3>1
    <3> QED
      BY <3>1, <3>2 DEF Covered
  <2> QED
    BY <2>1, <2>2
<1> QED
  BY <1>1, <1>2 DEF Covered

LEMMA SealedCovered ==
  ASSUME NEW s \in Seq(EntryType), NEW B, Covered(s, B)
  PROVE  Covered(Sealed(s), B)
PROOF
<1>1. Len(s) \in Nat /\ DOMAIN s = 1 .. Len(s) /\ \A i \in 1 .. Len(s) : s[i] \in EntryType
  BY LenProperties, ElementOfSeq
<1>2. \A i \in 1 .. Len(s) : /\ [s[i] EXCEPT !.group = NoGroup] \in EntryType
                             /\ [s[i] EXCEPT !.group = NoGroup].from = s[i].from
                             /\ [s[i] EXCEPT !.group = NoGroup].to = s[i].to
  BY <1>1 DEF EntryType
<1>3. Sealed(s) \in [1 .. Len(s) -> EntryType]
  BY <1>1, <1>2 DEF Sealed
<1>4. Len(Sealed(s)) = Len(s)
  BY <1>1, <1>3, SeqDef
<1>5. \A i \in 1 .. Len(s) : Sealed(s)[i].from = s[i].from /\ Sealed(s)[i].to = s[i].to
  BY <1>1, <1>2 DEF Sealed
<1>6. \A i \in 1 .. Len(s) : Delta(Sealed(s)[i]) = Delta(s[i])
  BY <1>5 DEF Delta
<1> HIDE DEF Delta
<1> QED
  BY <1>4, <1>6 DEF Covered

LEMMA TailCovered ==
  ASSUME NEW s \in Seq(EntryType), s # <<>>, NEW B, Covered(s, B)
  PROVE  Covered(Tail(s), B)
PROOF
<1>1. Len(s) \in Nat /\ Len(Tail(s)) = Len(s) - 1 /\ \A i \in 1 .. Len(Tail(s)) : Tail(s)[i] = s[i + 1]
  BY HeadTailProperties, LenProperties
<1>2. \A i \in 1 .. Len(Tail(s)) : i + 1 \in 1 .. Len(s)
  BY <1>1
<1> QED
  BY <1>1, <1>2 DEF Covered

LEMMA FrontCovered ==
  ASSUME NEW s \in Seq(EntryType), s # <<>>, NEW B, Covered(s, B)
  PROVE  /\ Front(s) \in Seq(EntryType) /\ Covered(Front(s), B)
         /\ Last(s) \in EntryType /\ Delta(Last(s)) \subseteq B
PROOF
<1> DEFINE n == Len(s) - 1
<1>1. Len(s) \in Nat \ {0} /\ \A i \in 1 .. Len(s) : s[i] \in EntryType
  BY EmptySeq, ElementOfSeq
<1>2. n \in Nat /\ 1 \in Int /\ n \in Int /\ \A i \in 1 .. n : s[i] \in EntryType
  BY <1>1
<1>3. /\ Front(s) \in Seq(EntryType)
      /\ Len(Front(s)) = IF 1 <= n THEN n - 1 + 1 ELSE 0
      /\ \A i \in 1 .. n - 1 + 1 : Front(s)[i] = s[1 + i - 1]
  BY <1>2, SubSeqProperties DEF Front
<1> DEFINE k == Len(Front(s))
<1>4. k = IF 1 <= n THEN n - 1 + 1 ELSE 0
  BY <1>3
<1> HIDE DEF n, k
<1>5. k = n
  BY <1>2, <1>4
<1>6. ASSUME NEW i \in 1 .. k PROVE Front(s)[i] = s[i] /\ i \in 1 .. Len(s)
  <2>1. i \in 1 .. n - 1 + 1 /\ 1 + i - 1 = i
    BY <1>2, <1>5
  <2>2. i \in 1 .. Len(s)
    BY <1>1, <1>5 DEF n
  <2> QED
    BY <1>3, <2>1, <2>2
<1>7. Covered(Front(s), B)
  BY <1>6 DEF Covered, k
<1>8. Len(s) \in 1 .. Len(s)
  BY <1>1
<1> QED
  BY <1>1, <1>3, <1>7, <1>8 DEF Covered, Last

LEMMA InvalidateKept ==
  ASSUME NEW o \in Objects, NEW B, KeptObject(o, B)
  PROVE  KeptObject(Invalidate(o), B)
PROOF
<1>1. CASE o.state = None
  BY <1>1 DEF Invalidate
<1>2. CASE o.state # None
  <2> DEFINE h == [o.state EXCEPT !.undo = <<>>, !.redo = <<>>, !.displacedRedo = <<>>,
                                  !.displacedOldest = <<>>, !.disabled = TRUE]
  <2>1. o.state \in StateType
    BY <1>2 DEF Objects
  <2>2. h.undo = <<>> /\ h.redo = <<>> /\ h.displacedRedo = <<>> /\ h.displacedOldest = <<>>
    BY <2>1 DEF StateType
  <2>3. Invalidate(o) = [state |-> h, before |-> None, after |-> None]
    BY <1>2 DEF Invalidate
  <2> HIDE DEF h
  <2>4. Kept(h, B) /\ Kept(None, B)
    BY <2>2, EmptyCovered DEF Kept
  <2> QED
    BY <2>3, <2>4 DEF KeptObject
<1> QED
  BY <1>1, <1>2

LEMMA SettledKept ==
  ASSUME NEW h, NEW B, Kept(h, B)
  PROVE  KeptObject(Settled(h), B)
PROOF
<1>1. Settled(h).state = h /\ Settled(h).before = None /\ Settled(h).after = None
  BY DEF Settled
<1> QED
  BY <1>1, EmptyCovered DEF KeptObject

LEMMA ReconcileKept ==
  ASSUME NEW o \in Objects, NEW rev, NEW content, NEW B, KeptObject(o, B)
  PROVE  KeptObject(Reconcile(o, rev, content), B)
PROOF
<1> DEFINE settled ==
      CASE o.after = None -> o
        [] o.after # None /\ Matches(o.after, rev, content) -> Settled(o.after)
        [] o.after # None /\ ~Matches(o.after, rev, content)
             /\ Matches(o.before, rev, content) -> Settled(o.before)
        [] OTHER -> Invalidate(o)
<1>1. /\ Settled(o.after) \in Objects /\ Settled(o.before) \in Objects /\ Invalidate(o) \in Objects
      /\ KeptObject(Settled(o.after), B) /\ KeptObject(Settled(o.before), B) /\ KeptObject(Invalidate(o), B)
  <2>1. /\ o.after \in StateType \cup {None} /\ o.before \in StateType \cup {None}
        /\ Kept(o.after, B) /\ Kept(o.before, B)
    BY DEF Objects, KeptObject
  <2> QED
    BY <2>1, SettledTyped, InvalidateTyped, SettledKept, InvalidateKept
<1>2. settled \in {o, Settled(o.after), Settled(o.before), Invalidate(o)}
  OBVIOUS
<1>3. Reconcile(o, rev, content) \in {o, settled, Invalidate(settled)}
  BY DEF Reconcile
<1> HIDE DEF settled
<1>4. settled \in Objects /\ KeptObject(settled, B)
  BY <1>1, <1>2
<1> QED
  BY <1>3, <1>4, InvalidateKept

LEMMA PrepareEditKept ==
  ASSUME NEW h \in StateType, NEW rev \in Nat, NEW from \in Content, NEW to \in Content, NEW B, Kept(h, B),
         (from.assets \ to.assets) \cup (to.assets \ from.assets) \subseteq B, h # None
  PROVE  Kept(PrepareEdit(h, rev, from, to, NoGroup), B)
PROOF
<1> DEFINE next == [h EXCEPT !.rev = rev, !.content = to]
           e == Entry(from, to, NoGroup)
           all == Append(Sealed(next.undo), e)
           undo == IF Len(all) > MaxActions THEN Tail(all) ELSE all
           pushed == [next EXCEPT !.undo = undo, !.redo = <<>>, !.displacedRedo = <<>>, !.displacedOldest = <<>>]
<1>1. /\ next \in StateType /\ next.undo \in Seq(EntryType)
      /\ next.undo = h.undo /\ next.redo = h.redo
      /\ next.displacedRedo = h.displacedRedo /\ next.displacedOldest = h.displacedOldest
  BY DEF StateType
<1>2. PrepareEdit(h, rev, from, to, NoGroup) \in {next, pushed}
  BY DEF PrepareEdit, Merges, Pushed
<1> HIDE DEF next
<1>3. Covered(next.undo, B)
  BY <1>1 DEF Kept
<1>4. e \in EntryType /\ Delta(e) \subseteq B
  BY DEF Entry, EntryType, Delta
<1> HIDE DEF e
<1>5. all \in Seq(EntryType) /\ all # <<>> /\ Covered(all, B)
  <2>1. Sealed(next.undo) \in Seq(EntryType) /\ Covered(Sealed(next.undo), B)
    BY <1>1, <1>3, SealedTyped, SealedCovered
  <2> QED
    BY <1>4, <2>1, AppendProperties, AppendCovered
<1> HIDE DEF all
<1>6. Covered(undo, B)
  BY <1>5, TailCovered
<1> HIDE DEF undo
<1>7. pushed.undo = undo /\ pushed.redo = <<>> /\ pushed.displacedRedo = <<>> /\ pushed.displacedOldest = <<>>
  BY <1>1 DEF StateType
<1> HIDE DEF pushed
<1>8. Kept(pushed, B)
  BY <1>6, <1>7, EmptyCovered DEF Kept
<1>9. Kept(next, B)
  BY <1>1 DEF Kept
<1> QED
  BY <1>2, <1>8, <1>9

LEMMA PrepareRestoreKept ==
  ASSUME NEW o \in Objects, NEW content, NEW redo \in BOOLEAN, CanRestore(o, content, redo), NEW rev \in Nat,
         NEW B, Kept(o.state, B)
  PROVE  Kept(PrepareRestore(o.state, rev, redo), B)
PROOF
<1> DEFINE h == o.state
           from == IF redo THEN h.redo ELSE h.undo
           to == IF redo THEN h.undo ELSE h.redo
           last == [Last(from) EXCEPT !.group = NoGroup]
           moved == Append(to, last)
           u == IF redo THEN moved ELSE Front(from)
           r == IF redo THEN Front(from) ELSE moved
           m == [h EXCEPT !.undo = u, !.redo = r, !.displacedRedo = <<>>, !.displacedOldest = <<>>]
           n == [m EXCEPT !.rev = rev, !.content = Selected(h, redo)]
<1>1. h \in StateType /\ from \in Seq(EntryType) /\ to \in Seq(EntryType) /\ from # <<>>
  BY DEF CanRestore, Objects, StateType
<1>2. h # None
  BY DEF CanRestore
<1>3. Covered(from, B) /\ Covered(to, B)
  BY <1>2 DEF Kept
<1>4. PrepareRestore(h, rev, redo) = n
  BY DEF PrepareRestore, Moved
<1> HIDE DEF from, to
<1>5. Covered(Front(from), B) /\ Front(from) \in Seq(EntryType) /\ Last(from) \in EntryType /\ Delta(Last(from)) \subseteq B
  BY <1>1, <1>3, FrontCovered
<1>6. last \in EntryType /\ last.from = Last(from).from /\ last.to = Last(from).to
  BY <1>5 DEF EntryType
<1>7. Delta(last) \subseteq B
  BY <1>5, <1>6 DEF Delta
<1> HIDE DEF last
<1>8. Covered(moved, B) /\ moved \in Seq(EntryType)
  BY <1>1, <1>3, <1>6, <1>7, AppendCovered, AppendProperties
<1> HIDE DEF moved
<1>9. Covered(u, B) /\ Covered(r, B) /\ u \in Seq(EntryType) /\ r \in Seq(EntryType)
  BY <1>5, <1>8
<1> HIDE DEF u, r, h
<1>10. <<>> \in Seq(EntryType)
  BY EmptySeq
<1>11. m \in StateType /\ m.undo = u /\ m.redo = r /\ m.displacedRedo = <<>> /\ m.displacedOldest = <<>>
  BY <1>1, <1>9, <1>10 DEF StateType
<1> HIDE DEF m
<1>12. n.undo = u /\ n.redo = r /\ n.displacedRedo = <<>> /\ n.displacedOldest = <<>>
  BY <1>11 DEF StateType
<1> HIDE DEF n
<1>13. Kept(n, B)
  BY <1>9, <1>12, EmptyCovered DEF Kept
<1> QED
  BY <1>4, <1>13 DEF h

(* What retained_artifacts() names is what the entries need.                   *)
LEMMA EntriesKept ==
  ASSUME NEW h \in StateType \cup {None}, NEW B
  PROVE  Kept(h, B) <=> \A e \in EntriesOf(h) : Delta(e) \subseteq B
PROOF
<1>1. CASE h = None
  BY <1>1 DEF Kept, EntriesOf
<1>2. CASE h # None
  <2> HIDE DEF Delta
  <2>1. ASSUME NEW s \in Seq(EntryType) PROVE Covered(s, B) <=> \A e \in Range(s) : Delta(e) \subseteq B
    <3>1. DOMAIN s = 1 .. Len(s)
      BY LenProperties
    <3> QED
      BY <3>1 DEF Covered, Range
  <2>2. /\ h.undo \in Seq(EntryType) /\ h.redo \in Seq(EntryType)
        /\ h.displacedRedo \in Seq(EntryType) /\ h.displacedOldest \in Seq(EntryType)
    BY <1>2 DEF StateType
  <2>3. EntriesOf(h) = Range(h.undo) \cup Range(h.redo) \cup Range(h.displacedRedo) \cup Range(h.displacedOldest)
    BY <1>2 DEF EntriesOf
  <2> QED
    BY <1>2, <2>1, <2>2, <2>3 DEF Kept
<1> QED
  BY <1>1, <1>2

LEMMA RetainedKept ==
  ASSUME HistoryTyped, NEW p \in Process, NEW B
  PROVE  KeptObject(history[p], B) <=> RetainedBlobs(p) \subseteq B
PROOF
<1> DEFINE o == history[p]
<1>1. o.state \in StateType \cup {None} /\ o.before \in StateType \cup {None} /\ o.after \in StateType \cup {None}
  BY DEF HistoryTyped, Objects
<1>2. RetainedBlobs(p) \subseteq B <=> \A e \in RetainedEntries(o) : Delta(e) \subseteq B
  BY DEF RetainedBlobs, Delta
<1> HIDE DEF o, Delta
<1>3. RetainedBlobs(p) \subseteq B <=>
        /\ \A e \in EntriesOf(o.state) : Delta(e) \subseteq B
        /\ \A e \in EntriesOf(o.before) : Delta(e) \subseteq B
        /\ \A e \in EntriesOf(o.after) : Delta(e) \subseteq B
  BY <1>2 DEF RetainedEntries
<1> QED
  BY <1>1, <1>3, EntriesKept DEF KeptObject, o

-------------------------------------------------------------------------------
(* The steps of the one process that authors the Project.                      *)

Preparing == {"blob", "checkpoint", "claim", "replace"}

(* The history is the old one, or needs nothing new, and nothing was removed.  *)
LEMMA QuietHeld ==
  ASSUME IInv, NEW p \in Process, BytesHeld(p), KeptObject(history'[p], blobs \ fresh[p]), HistoryTyped',
         blobs \subseteq blobs', fresh'[p] \subseteq fresh[p], pc'[p] \notin Preparing
  PROVE  BytesHeld(p)'
PROOF
<1>1. history'[p] \in Objects
  BY DEF HistoryTyped
<1>2. blobs \ fresh[p] \subseteq blobs' \ fresh'[p]
  OBVIOUS
<1>3. KeptObject(history'[p], blobs' \ fresh'[p])
  BY <1>1, <1>2, KeptObjectMono
<1> QED
  BY <1>3 DEF BytesHeld, Preparing

LEMMA ReturnHeld ==
  ASSUME IInv, NEW p \in Process, BytesHeld(p), Return(p), HistoryTyped', blobs' = blobs,
         KeptObject(history'[p], blobs \ fresh[p])
  PROVE  BytesHeld(p)'
PROOF
<1>1. pc'[p] = "idle" /\ fresh'[p] = {}
  BY DEF Return, IInv, TypeOK, MemoryTyped
<1>2. pc'[p] \notin Preparing
  BY <1>1 DEF Preparing
<1> QED
  BY <1>1, <1>2, QuietHeld

LEMMA EmptyKept ==
  ASSUME NEW rev, NEW content, NEW B
  PROVE  KeptObject(Closed, B) /\ KeptObject(Start(rev, content), B)
PROOF
<1>1. /\ Closed.state = None /\ Closed.before = None /\ Closed.after = None
      /\ Start(rev, content).before = None /\ Start(rev, content).after = None
  BY DEF Closed, Start
<1>2. /\ Start(rev, content).state.undo = <<>> /\ Start(rev, content).state.redo = <<>>
      /\ Start(rev, content).state.displacedRedo = <<>> /\ Start(rev, content).state.displacedOldest = <<>>
  BY DEF Start
<1> QED
  BY <1>1, <1>2, EmptyCovered DEF KeptObject, Kept

(* Everything that leaves the artifacts and the prepared state alone.          *)
LEMMA StillHeld ==
  ASSUME IInv, IInv', NEW p \in Process, BytesHeld(p),
         \/ \E k \in Kinds : Acquire(p, k)
         \/ RemoveStaleFails(p) \/ Refuse(p) \/ Replay(p) \/ UndoTransaction(p) \/ UndoTransactionFails(p)
         \/ UndoCheckpoint(p) \/ UndoCheckpointFails(p) \/ ClaimRefused(p) \/ CreateCheckpointFails(p)
         \/ ReadManifest(p) \/ ReadHistory(p) \/ ReadAssets(p)
         \/ WriteTransactionFails(p) \/ WriteCheckpointFails(p)
  PROVE  BytesHeld(p)'
PROOF
<1>1. fresh' = fresh \/ Return(p)
  BY DEF IInv, TypeOK, MemoryTyped, Acquire, RemoveStaleFails, Refuse, Replay, UndoTransaction, UndoTransactionFails,
         UndoCheckpoint, UndoCheckpointFails, ClaimRefused, CreateCheckpointFails, ReadManifest, ReadHistory,
         ReadAssets, WriteTransactionFails, WriteCheckpointFails, locals
<1>2. history' = history /\ blobs' = blobs
  BY DEF Acquire, RemoveStaleFails, Refuse, Replay, UndoTransaction, UndoTransactionFails, UndoCheckpoint,
         UndoCheckpointFails, ClaimRefused, CreateCheckpointFails, ReadManifest, ReadHistory, ReadAssets,
         WriteTransactionFails, WriteCheckpointFails, disk
<1>3. KeptObject(history'[p], blobs \ fresh[p])
  BY <1>2 DEF BytesHeld
<1>4. CASE Return(p)
  BY <1>2, <1>3, <1>4, ReturnHeld DEF IInv
<1>5. CASE ~Return(p)
  <2>1. fresh' = fresh
    BY <1>1, <1>5
  <2>2. pc'[p] \notin Preparing
    BY <1>5 DEF IInv, TypeOK, MemoryTyped, Acquire, RemoveStaleFails, Refuse, Replay, UndoTransaction,
       UndoTransactionFails, UndoCheckpoint, UndoCheckpointFails, ClaimRefused, CreateCheckpointFails, ReadManifest,
       ReadHistory, ReadAssets, WriteTransactionFails, WriteCheckpointFails, Goto, AfterTransaction, Preparing
  <2> QED
    BY <1>2, <1>3, <2>1, <2>2, QuietHeld DEF IInv
<1> QED
  BY <1>4, <1>5

(* The history changes and no file does.                                       *)
LEMMA SessionHeld ==
  ASSUME IInv, IInv', NEW p \in Process, BytesHeld(p),
         OwnerLost(p) \/ CloseHistory(p) \/ Load(p) \/ Recovered(p) \/ Crash(p)
  PROVE  BytesHeld(p)'
PROOF
<1> DEFINE B == blobs \ fresh[p]
<1>1. /\ history[p] \in Objects /\ history \in [Process -> Objects] /\ KeptObject(history[p], B) /\ HistoryTyped'
      /\ pc \in [Process -> Labels]
  BY DEF IInv, HistoryTyped, BytesHeld, TypeOK, MemoryTyped
<1>2. blobs' = blobs
  BY DEF OwnerLost, CloseHistory, Load, Recovered, Crash, disk
<1> HIDE DEF B
<1>3. /\ \A rev, content : KeptObject(Reconcile(history[p], rev, content), B) /\ KeptObject(Start(rev, content), B)
      /\ KeptObject(Invalidate(history[p]), B) /\ KeptObject(Closed, B)
  BY <1>1, ReconcileKept, InvalidateKept, EmptyKept
<1>4. KeptObject(history'[p], B)
  <2>1. CASE OwnerLost(p)
    BY <1>1, <1>3, <2>1 DEF OwnerLost
  <2>2. CASE CloseHistory(p) \/ Crash(p)
    BY <1>1, <1>3, <2>2 DEF CloseHistory, Crash
  <2>3. CASE Load(p)
    BY <1>1, <1>3, <2>3 DEF Load
  <2>4. CASE Recovered(p)
    BY <1>1, <1>3, <2>4 DEF Recovered
  <2> QED
    BY <2>1, <2>2, <2>3, <2>4
<1>5. CASE Return(p)
  BY <1>1, <1>2, <1>4, <1>5, ReturnHeld DEF B
<1>6. CASE ~Return(p)
  <2>1. fresh' = fresh
    BY <1>6 DEF OwnerLost, CloseHistory, Load, Recovered, Crash, locals
  <2>2. pc'[p] \notin Preparing
    BY <1>1, <1>6 DEF OwnerLost, CloseHistory, Load, Recovered, Crash, Goto, Preparing
  <2> QED
    BY <1>1, <1>2, <1>4, <2>1, <2>2, QuietHeld DEF B
<1> QED
  BY <1>5, <1>6

(* recover_uncommitted() removes no artifact an entry needs.                   *)
LEMMA RemoveStaleHeld ==
  ASSUME IInv, IInv', NEW p \in Process, BytesHeld(p), RemoveStale(p)
  PROVE  BytesHeld(p)'
PROOF
<1>1. pc[p] = "recover" /\ UNCHANGED memory
  BY DEF RemoveStale
<1>2. fresh[p] = {} /\ HistoryTyped /\ history' = history /\ pc' = pc /\ fresh' = fresh
  BY <1>1 DEF IInv, Local, Clean, Committing, memory
<1>3. RetainedBlobs(p) \subseteq blobs
  BY <1>2, RetainedKept DEF BytesHeld
<1>4. RetainedBlobs(p) \subseteq blobs'
  BY <1>3 DEF RemoveStale, StaleBlobs
<1>5. KeptObject(history[p], blobs')
  BY <1>2, <1>4, RetainedKept
<1>6. blobs' \ fresh'[p] = blobs' /\ pc'[p] \notin Preparing
  BY <1>1, <1>2 DEF Preparing
<1> QED
  BY <1>2, <1>5, <1>6 DEF BytesHeld, Preparing

(* An edit's entry needs what the command brings, which is staged.             *)
LEMMA BeginCommandHeld ==
  ASSUME IInv, IInv', NEW p \in Process, BytesHeld(p), BeginCommand(p)
  PROVE  BytesHeld(p)'
PROOF
<1>1. pc[p] = "decide" /\ kind[p] = "command"
  BY DEF BeginCommand
<1>2. loaded[p].content \in Content /\ HeadRevision(p) + 1 \in Nat /\ fresh[p] = {}
  <2>1. /\ manifest # None /\ loaded[p] = [log |-> manifest, content |-> checkpoints[Len(manifest)]]
        /\ fresh[p] = {}
    BY <1>1 DEF IInv, Local, Holds, Clean, Committing
  <2>2. loaded[p].log = manifest /\ loaded[p].content = checkpoints[Len(manifest)]
    BY <2>1
  <2> QED
    BY <2>1, <2>2, HeadFacts DEF IInv, TypeOK, HeadRevision
<1>3. PICK c \in Command, op \in Authored :
        /\ staged' = [staged EXCEPT ![p] = IF op.kind = "import" THEN op.blobs ELSE {}]
        /\ prepared' = [prepared EXCEPT ![p] =
               IF Owns(history[p])
               THEN PrepareEdit(history[p].state, HeadRevision(p) + 1, loaded[p].content,
                                Apply(op, loaded[p].content), NoGroup)
               ELSE None]
  BY DEF BeginCommand
<1> DEFINE bs == IF op.kind = "import" THEN op.blobs ELSE {}
           to == Apply(op, loaded[p].content)
           edited == PrepareEdit(history[p].state, HeadRevision(p) + 1, loaded[p].content, to, NoGroup)
           next == IF Owns(history[p]) THEN edited ELSE None
<1>4. op \in Op /\ to.assets = loaded[p].content.assets \cup bs /\ to \in Content
  BY <1>2, AuthoredAssets, ApplyTyped
<1>5. staged'[p] = bs /\ prepared'[p] = next
  BY <1>3 DEF IInv, TypeOK, MemoryTyped, HistoryTyped
<1>6. history' = history /\ blobs' = blobs /\ fresh' = fresh
  BY DEF BeginCommand, disk
<1> HIDE DEF bs, to
<1>7. Kept(next, blobs \cup bs)
  <2>1. CASE Owns(history[p])
    <3>1. history[p].state \in StateType /\ history[p].state # None
      BY <2>1, PlainTyped DEF Owns, Objects
    <3>2. Kept(history[p].state, blobs \ fresh[p])
      BY DEF BytesHeld, KeptObject
    <3>3. Kept(history[p].state, blobs \cup bs)
      BY <3>1, <3>2, KeptMono
    <3>4. (loaded[p].content.assets \ to.assets) \cup (to.assets \ loaded[p].content.assets) \subseteq blobs \cup bs
      BY <1>4
    <3> QED
      BY <1>2, <1>4, <2>1, <3>1, <3>3, <3>4, PrepareEditKept
  <2>2. CASE ~Owns(history[p])
    BY <2>2, EmptyCovered
  <2> QED
    BY <2>1, <2>2
<1> HIDE DEF next
<1> QED
  BY <1>5, <1>6, <1>7 DEF BytesHeld

LEMMA BeginRestoreHeld ==
  ASSUME IInv, IInv', NEW p \in Process, BytesHeld(p), BeginRestore(p)
  PROVE  BytesHeld(p)'
PROOF
<1>1. pc[p] = "decide" /\ kind[p] = "restore"
  BY DEF BeginRestore
<1>2. HeadRevision(p) + 1 \in Nat
  <2>1. manifest # None /\ loaded[p] = [log |-> manifest, content |-> checkpoints[Len(manifest)]]
    BY <1>1 DEF IInv, Local, Holds
  <2>2. loaded[p].log = manifest
    BY <2>1
  <2> QED
    BY <2>1, <2>2, HeadFacts DEF IInv, TypeOK, HeadRevision
<1>3. PICK redo \in BOOLEAN :
        /\ CanRestore(history[p], loaded[p].content, redo)
        /\ prepared' = [prepared EXCEPT ![p] = PrepareRestore(history[p].state, HeadRevision(p) + 1, redo)]
  BY DEF BeginRestore
<1> DEFINE next == PrepareRestore(history[p].state, HeadRevision(p) + 1, redo)
<1>4. prepared'[p] = next
  BY <1>3 DEF IInv, HistoryTyped
<1>5. history' = history /\ blobs' = blobs /\ fresh' = fresh
  BY DEF BeginRestore, disk
<1>6. history[p] \in Objects /\ Kept(history[p].state, blobs \ fresh[p])
  BY PlainTyped DEF BytesHeld, KeptObject
<1>7. next \in StateType /\ Kept(next, blobs \ fresh[p])
  BY <1>2, <1>3, <1>6, PrepareRestoreKept, PrepareRestoreTyped
<1> HIDE DEF next
<1>8. Kept(next, blobs \cup staged'[p])
  BY <1>7, KeptMono
<1> QED
  BY <1>4, <1>5, <1>8 DEF BytesHeld

(* Publication of an artifact, and its removal when the commit is given up:    *)
(* what was there before the commit is not touched.                            *)
LEMMA ArtifactHeld ==
  ASSUME IInv, IInv', NEW p \in Process, BytesHeld(p),
         \/ \E b \in Blob : PublishArtifact(p, b) \/ PublishArtifactFails(p, b)
         \/ UndoArtifact(p) \/ UndoArtifactFails(p)
  PROVE  BytesHeld(p)'
PROOF
<1>1. /\ fresh \in [Process -> SUBSET Blob] /\ staged \in [Process -> SUBSET Blob] /\ pc \in [Process -> Labels]
      /\ history[p] \in Objects /\ KeptObject(history[p], blobs \ fresh[p]) /\ HistoryTyped'
      /\ prepared[p] \in StateType \cup {None}
  BY DEF IInv, TypeOK, MemoryTyped, HistoryTyped, BytesHeld
<1>2. ASSUME NEW b \in Blob, PublishArtifact(p, b) PROVE BytesHeld(p)'
  <2>1. /\ history' = history /\ pc' = pc /\ kind' = kind /\ prepared' = prepared /\ pc[p] = "blob"
        /\ blobs' = blobs \cup {b} /\ staged'[p] = staged[p] \ {b}
        /\ fresh'[p] = IF b \in blobs THEN fresh[p] ELSE fresh[p] \cup {b}
    BY <1>1, <1>2 DEF PublishArtifact
  <2>2. blobs \ fresh[p] \subseteq blobs' \ fresh'[p] /\ blobs \cup staged[p] \subseteq blobs' \cup staged'[p]
    BY <2>1
  <2>3. KeptObject(history'[p], blobs' \ fresh'[p])
    BY <1>1, <2>1, <2>2, KeptObjectMono
  <2>4. kind[p] # "create" => Kept(prepared[p], blobs' \cup staged'[p])
    BY <1>1, <2>1, <2>2, KeptMono DEF BytesHeld
  <2> QED
    BY <2>1, <2>3, <2>4 DEF BytesHeld
<1>3. ASSUME NEW b \in Blob, PublishArtifactFails(p, b) PROVE BytesHeld(p)'
  <2>1. history' = history /\ blobs \subseteq blobs' /\ fresh' = fresh /\ pc'[p] = "un_blob"
    BY <1>1, <1>3 DEF PublishArtifactFails, locals, Goto
  <2> QED
    BY <1>1, <2>1, QuietHeld DEF Preparing
<1>4. CASE UndoArtifact(p) /\ fresh[p] = {}
  <2>1. history' = history /\ blobs' = blobs /\ Return(p)
    BY <1>4 DEF UndoArtifact
  <2> QED
    BY <1>1, <2>1, ReturnHeld
<1>5. CASE UndoArtifact(p) /\ fresh[p] # {}
  <2>1. PICK a \in fresh[p] : fresh' = [fresh EXCEPT ![p] = @ \ {a}] /\ blobs' = blobs \ {a}
    BY <1>5 DEF UndoArtifact
  <2>2. history' = history /\ pc' = pc /\ pc[p] = "un_blob"
    BY <1>5 DEF UndoArtifact
  <2>3. fresh'[p] = fresh[p] \ {a}
    BY <1>1, <2>1
  <2>4. blobs' \ fresh'[p] = blobs \ fresh[p]
    BY <2>1, <2>3
  <2> QED
    BY <1>1, <2>2, <2>4 DEF BytesHeld
<1>6. CASE UndoArtifactFails(p)
  <2>1. PICK a \in fresh[p] : fresh' = [fresh EXCEPT ![p] = @ \ {a}]
    BY <1>6 DEF UndoArtifactFails
  <2>2. history' = history /\ blobs' = blobs /\ pc' = pc /\ pc[p] = "un_blob" /\ fresh'[p] \subseteq fresh[p]
    BY <1>1, <1>6, <2>1 DEF UndoArtifactFails, disk
  <2> QED
    BY <1>1, <2>2, QuietHeld DEF Preparing
<1> QED
  BY <1>2, <1>3, <1>4, <1>5, <1>6

(* A commit goes on to its next file, or gives up.                             *)
LEMMA WriteHeld ==
  ASSUME IInv, IInv', NEW p \in Process, BytesHeld(p),
         WriteTransaction(p) \/ WriteCheckpoint(p) \/ Claim(p) \/ CreateCheckpoint(p)
  PROVE  BytesHeld(p)'
PROOF
<1>1. /\ pc \in [Process -> Labels] /\ KeptObject(history[p], blobs \ fresh[p]) /\ HistoryTyped'
      /\ history' = history /\ blobs' = blobs
  BY DEF IInv, TypeOK, MemoryTyped, BytesHeld, WriteTransaction, WriteCheckpoint, Claim, CreateCheckpoint, disk
<1>2. CASE Return(p)
  BY <1>1, <1>2, ReturnHeld
<1>3. CASE ~Return(p)
  <2>1. UNCHANGED locals
    BY <1>3 DEF WriteTransaction, WriteCheckpoint, Claim, CreateCheckpoint
  <2>2. CASE CreateCheckpoint(p)
    <3>1. kind[p] = "create"
      BY <2>2 DEF CreateCheckpoint, IInv, Local, Creates
    <3> QED
      BY <1>1, <2>1, <3>1 DEF BytesHeld, locals
  <2>3. CASE WriteTransaction(p) \/ WriteCheckpoint(p) \/ Claim(p)
    <3>1. pc[p] \in Preparing
      BY <2>3 DEF WriteTransaction, WriteCheckpoint, Claim, Preparing
    <3> QED
      BY <1>1, <2>1, <3>1 DEF BytesHeld, locals, Preparing
  <2> QED
    BY <2>2, <2>3
<1> QED
  BY <1>2, <1>3

(* The manifest is replaced: nothing is staged any more, so all the prepared   *)
(* state needs is on disk and, with the commit over, stays.                    *)
LEMMA ReplaceHeld ==
  ASSUME IInv, IInv', NEW p \in Process, BytesHeld(p), ReplaceManifest(p) \/ ReplaceManifestFails(p)
  PROVE  BytesHeld(p)'
PROOF
<1>1. /\ pc[p] = "replace" /\ blobs' = blobs /\ Return(p)
  BY DEF ReplaceManifest, ReplaceManifestFails
<1>2. history[p] \in Objects /\ history \in [Process -> Objects] /\ prepared[p] \in StateType \cup {None}
  BY DEF IInv, HistoryTyped
<1>3. pc'[p] = "idle" /\ fresh'[p] = {}
  BY <1>1 DEF Return, IInv, TypeOK, MemoryTyped
<1>4. KeptObject(history[p], blobs)
  <2>1. KeptObject(history[p], blobs \ fresh[p])
    BY DEF BytesHeld
  <2> QED
    BY <1>2, <2>1, KeptObjectMono
<1>5. KeptObject(history'[p], blobs)
  <2>1. CASE kind[p] = "create"
    BY <1>4, <2>1 DEF ReplaceManifest, ReplaceManifestFails
  <2>2. CASE kind[p] # "create"
    <3>1. staged[p] = {} /\ Kept(prepared[p], blobs \cup staged[p])
      BY <1>1, <2>2 DEF IInv, Local, Writes, Committing, BytesHeld
    <3>2. blobs \cup staged[p] = blobs
      BY <3>1
    <3>3. Kept(prepared[p], blobs)
      BY <3>1, <3>2
    <3>4. KeptObject(Confirm(history[p], prepared[p]), blobs)
      BY <1>4, <3>3, SettledKept DEF Confirm
    <3>5. KeptObject(Begin(history[p], prepared[p]), blobs)
      <4>1. LET o == [history[p] EXCEPT !.before = history[p].state, !.after = prepared[p]]
            IN  o.state = history[p].state /\ o.before = history[p].state /\ o.after = prepared[p]
        BY <1>2 DEF Objects
      <4>2. KeptObject([history[p] EXCEPT !.before = history[p].state, !.after = prepared[p]], blobs)
        BY <1>4, <3>3, <4>1 DEF KeptObject
      <4> QED
        BY <1>4, <4>2 DEF Begin
    <3>6. history'[p] \in {Confirm(history[p], prepared[p]), Begin(history[p], prepared[p])}
      BY <1>2, <2>2 DEF ReplaceManifest, ReplaceManifestFails
    <3> QED
      BY <3>4, <3>5, <3>6
  <2> QED
    BY <2>1, <2>2
<1>6. blobs' \ fresh'[p] = blobs
  BY <1>1, <1>3
<1> QED
  BY <1>3, <1>5, <1>6 DEF BytesHeld

-------------------------------------------------------------------------------
LEMMA OperationHeld ==
  ASSUME IInv, IInv', NEW p \in Process, BytesHeld(p), Operation(p)
  PROVE  BytesHeld(p)'
PROOF
<1>1. CASE OwnerLost(p) \/ CloseHistory(p) \/ Load(p) \/ Recovered(p) \/ Crash(p)
  BY <1>1, SessionHeld
<1>2. CASE RemoveStale(p) \/ BeginCommand(p) \/ BeginRestore(p)
  BY <1>2, RemoveStaleHeld, BeginCommandHeld, BeginRestoreHeld
<1>3. CASE \/ \E b \in Blob : PublishArtifact(p, b) \/ PublishArtifactFails(p, b)
           \/ UndoArtifact(p) \/ UndoArtifactFails(p)
  BY <1>3, ArtifactHeld
<1>4. CASE WriteTransaction(p) \/ WriteCheckpoint(p) \/ Claim(p) \/ CreateCheckpoint(p)
  BY <1>4, WriteHeld
<1>5. CASE ReplaceManifest(p) \/ ReplaceManifestFails(p)
  BY <1>5, ReplaceHeld
<1>6. CASE \/ \E k \in Kinds : Acquire(p, k)
           \/ RemoveStaleFails(p) \/ Refuse(p) \/ Replay(p) \/ UndoTransaction(p) \/ UndoTransactionFails(p)
           \/ UndoCheckpoint(p) \/ UndoCheckpointFails(p) \/ ClaimRefused(p) \/ CreateCheckpointFails(p)
           \/ ReadManifest(p) \/ ReadHistory(p) \/ ReadAssets(p)
           \/ WriteTransactionFails(p) \/ WriteCheckpointFails(p)
  BY <1>6, StillHeld
<1> QED
  BY <1>1, <1>2, <1>3, <1>4, <1>5, <1>6 DEF Operation

(* A process at rest without a session needs nothing.                          *)
LEMMA AtRestHeld ==
  ASSUME IInv, NEW p \in Process, NEW q \in Process \ {p}, pc[q] = "idle", history[q] = Closed, Operation(p)
  PROVE  BytesHeld(q)'
PROOF
<1>1. pc \in [Process -> Labels] /\ history \in [Process -> Objects]
  BY DEF IInv, TypeOK, MemoryTyped, HistoryTyped
<1>2. pc'[q] = pc[q] /\ history'[q] = history[q]
  <2>1. CASE \/ \E k \in Kinds : Acquire(p, k)
             \/ OwnerLost(p) \/ CloseHistory(p) \/ Load(p) \/ RemoveStale(p) \/ RemoveStaleFails(p)
             \/ Recovered(p) \/ Refuse(p) \/ Replay(p) \/ BeginCommand(p) \/ BeginRestore(p)
    BY <1>1, <2>1 DEF memory, Goto, Return, Acquire, OwnerLost, CloseHistory, Load, RemoveStale, RemoveStaleFails,
                      Recovered, Refuse, Replay, BeginCommand, BeginRestore
  <2>2. CASE \/ \E b \in Blob : PublishArtifact(p, b) \/ PublishArtifactFails(p, b)
             \/ WriteTransaction(p) \/ WriteTransactionFails(p) \/ WriteCheckpoint(p) \/ WriteCheckpointFails(p)
             \/ Claim(p) \/ ClaimRefused(p)
    BY <1>1, <2>2 DEF Goto, PublishArtifact, PublishArtifactFails, WriteTransaction, WriteTransactionFails,
                      WriteCheckpoint, WriteCheckpointFails, Claim, ClaimRefused
  <2>3. CASE \/ UndoTransaction(p) \/ UndoTransactionFails(p) \/ UndoCheckpoint(p) \/ UndoCheckpointFails(p)
             \/ UndoArtifact(p) \/ UndoArtifactFails(p) \/ ReplaceManifest(p) \/ ReplaceManifestFails(p)
    BY <1>1, <2>3 DEF Goto, Return, UndoTransaction, UndoTransactionFails, UndoCheckpoint, UndoCheckpointFails,
                      UndoArtifact, UndoArtifactFails, ReplaceManifest, ReplaceManifestFails
  <2>4. CASE \/ CreateCheckpoint(p) \/ CreateCheckpointFails(p)
             \/ ReadManifest(p) \/ ReadHistory(p) \/ ReadAssets(p) \/ Crash(p)
    BY <1>1, <2>4 DEF Goto, Return, CreateCheckpoint, CreateCheckpointFails, ReadManifest, ReadHistory, ReadAssets,
                      Crash
  <2> QED
    BY <2>1, <2>2, <2>3, <2>4 DEF Operation
<1> QED
  BY <1>2, EmptyKept DEF BytesHeld

Held == IInv /\ \A p \in Process : BytesHeld(p)

LEMMA InitHeld == Init => Held
PROOF
<1> SUFFICES ASSUME Init PROVE Held
  OBVIOUS
<1>1. \A p \in Process : history[p] = Closed /\ pc[p] = "idle"
  BY DEF Init
<1> QED
  BY <1>1, InitIInv, EmptyKept DEF Held, BytesHeld

LEMMA NextHeld == Held /\ [OneAtATime]_vars => Held'
PROOF
<1> SUFFICES ASSUME Held, [OneAtATime]_vars PROVE Held'
  OBVIOUS
<1>1. IInv'
  <2>1. [Next]_vars
    BY DEF OneAtATime, Next
  <2> QED
    BY <2>1, NextIInv DEF Held
<1>2. CASE UNCHANGED vars
  <2>1. \A p \in Process : BytesHeld(p)' = BytesHeld(p)
    BY <1>2 DEF vars, disk, memory, BytesHeld
  <2> QED
    BY <1>1, <2>1 DEF Held
<1>3. CASE OneAtATime
  <2>1. PICK p \in Process : /\ \A q \in Process \ {p} : pc[q] = "idle" /\ history[q] = Closed
                             /\ Operation(p)
    BY <1>3 DEF OneAtATime
  <2>2. BytesHeld(p)'
    BY <1>1, <2>1, OperationHeld DEF Held
  <2>3. \A q \in Process \ {p} : BytesHeld(q)'
    BY <2>1, AtRestHeld DEF Held
  <2> QED
    BY <1>1, <2>2, <2>3 DEF Held
<1> QED
  BY <1>2, <1>3

(* While one process at a time authors the Project, the audio bytes that its   *)
(* Undo and Redo entries need are on disk: neither the clean-up of a failed    *)
(* commit, nor recover_uncommitted(), nor a crash in the middle of them takes  *)
(* any away, whether the publication they belong to is settled or pending.     *)
THEOREM BytesRetained == SoloSpec => []RetainedBytes
PROOF
<1>1. Held => RetainedBytes
  <2> SUFFICES ASSUME Held, NEW p \in Process PROVE RetainedBlobs(p) \subseteq blobs
    BY DEF RetainedBytes
  <2>1. KeptObject(history[p], blobs \ fresh[p]) /\ HistoryTyped
    BY DEF Held, BytesHeld, IInv
  <2>2. RetainedBlobs(p) \subseteq blobs \ fresh[p]
    BY <2>1, RetainedKept
  <2> QED
    BY <2>2
<1> QED
  BY <1>1, InitHeld, NextHeld, PTL DEF SoloSpec
===============================================================================
