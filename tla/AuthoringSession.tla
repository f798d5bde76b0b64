-------------------------- MODULE AuthoringSession --------------------------
(* One Facade's Undo/Redo session over a committed Project that other         *)
(* processes may also change. A commit of this Facade prepares its history,   *)
(* begins a publication, replaces the manifest and confirms: the outcome may  *)
(* be a refusal before publication, a published manifest, or an error of      *)
(* replace_complete() that leaves the manifest replaced or not, with the      *)
(* history's publication still pending.                                       *)
EXTENDS AuthoringHistory

CONSTANTS Content,              \* authoring contents
          Group,                \* names of multi-commit actions
          MaxRevision           \* bound on the Project's revision

VARIABLES truth,                \* the committed Project: revision and content
          history,              \* the AuthoringHistory object
          opened                \* the stacks when the open group began (more than
                                \* one while a publication's result is unknown)

vars == <<truth, history, opened>>

Outcome == {"refused", "published", "unknown_old", "unknown_new"}

Init == /\ truth \in {[rev |-> 0, content |-> c] : c \in Content}
        /\ history = Closed
        /\ opened = {}

(* The deltas of both stacks, without their groups.                           *)
Deltas(entries) == [i \in DOMAIN entries |-> <<entries[i].from, entries[i].to>>]
Stacks(h) == [undo |-> Deltas(h.undo), redo |-> Deltas(h.redo)]

(* commit_loaded() once prepare() has produced `next` for content `to`.       *)
Publish(o, next, to, outcome) ==
    /\ truth' = IF outcome \in {"published", "unknown_new"}
                THEN [rev |-> truth.rev + 1, content |-> to]
                ELSE truth
    /\ history' = CASE outcome = "refused" -> o
                    [] outcome = "published" -> Confirm(o, next)
                    [] OTHER -> Begin(o, next)

(* A command that leads to content c, alone or as a step of a group.          *)
Commit(c, group, outcome) ==
    LET o == Reconcile(history, truth.rev, truth.content)
        next == PrepareEdit(o.state, truth.rev + 1, truth.content, c, group)
    IN  /\ truth.rev < MaxRevision
        /\ IF Owns(o) THEN Publish(o, next, c, outcome) ELSE Publish(o, None, c, outcome)
        /\ opened' = IF Owns(o) /\ outcome # "refused" /\ group # NoGroup
                          /\ c # truth.content /\ ~Merges(o.state, group)
                     THEN {Stacks(o.state)} \union
                              (IF outcome = "published" THEN {} ELSE opened)
                     ELSE opened

(* restore_authoring_history(), first attempt of its command                  *)
Restore(redo, outcome) ==
    LET o == Reconcile(history, truth.rev, truth.content)
    IN  /\ truth.rev < MaxRevision
        /\ CanRestore(o, truth.content, redo)
        /\ Publish(o, PrepareRestore(o.state, truth.rev + 1, redo),
                   Selected(o.state, redo), outcome)
        /\ UNCHANGED opened

(* open_authoring_history(), inspect_authoring_history(), and the latter when *)
(* another process holds the writer lease; close and seal.                    *)
Open == /\ history' = Start(truth.rev, truth.content)
        /\ UNCHANGED <<truth, opened>>

Inspect == /\ history' = Reconcile(history, truth.rev, truth.content)
           /\ UNCHANGED <<truth, opened>>

OwnerLost == /\ history' = Invalidate(history)
             /\ UNCHANGED <<truth, opened>>

Close == /\ history' = Closed
         /\ UNCHANGED <<truth, opened>>

Seal == /\ history' = SealGroup(history)
        /\ UNCHANGED <<truth, opened>>

(* A commit of another process: it knows nothing of this history.             *)
Foreign(c) == /\ truth.rev < MaxRevision
              /\ truth' = [rev |-> truth.rev + 1, content |-> c]
              /\ UNCHANGED <<history, opened>>

Next == \/ \E c \in Content, group \in Group \union {NoGroup}, outcome \in Outcome :
               Commit(c, group, outcome)
        \/ \E redo \in BOOLEAN, outcome \in Outcome : Restore(redo, outcome)
        \/ Open \/ Inspect \/ OwnerLost \/ Close \/ Seal
        \/ \E c \in Content : Foreign(c)

Spec == Init /\ [][Next]_vars

------------------------------------------------------------------------------
IsState(h) ==
    /\ h.rev \in 0 .. MaxRevision
    /\ h.content \in Content
    /\ \A s \in {h.undo, h.redo, h.displacedRedo, h.displacedOldest} :
          \A i \in DOMAIN s :
             s[i] \in [from : Content, to : Content, group : Group \union {NoGroup}]
    /\ h.disabled \in BOOLEAN

(* The types of the variables.                                                *)
TypeOK ==
    /\ truth \in [rev : 0 .. MaxRevision, content : Content]
    /\ \A h \in {history.state, history.before, history.after} : h = None \/ IsState(h)
    /\ (history.before = None) = (history.after = None)

(* Undo entries lead one into the next up to `content`, Redo entries from     *)
(* `content` onwards.                                                         *)
Chained(h) ==
    /\ \A i \in 1 .. Len(h.undo) :
          h.undo[i].to = IF i = Len(h.undo) THEN h.content ELSE h.undo[i + 1].from
    /\ \A i \in 1 .. Len(h.redo) :
          h.redo[i].from = IF i = Len(h.redo) THEN h.content ELSE h.redo[i + 1].to

(* Whatever the result of a pending publication turns out to be, and whatever *)
(* other processes committed meanwhile, an enabled session describes the      *)
(* committed content: every chain of Undo and Redo steps from it is a chain   *)
(* of contents this session really had.                                       *)
RestoresWhatWas ==
    LET o == Reconcile(history, truth.rev, truth.content)
    IN  Owns(o) => o.state.content = truth.content /\ Chained(o.state)

(* Cancelling a multi-commit action back to its original content gives back   *)
(* the Undo and Redo stacks as they were when the action began: neither the   *)
(* old Redo branch nor the oldest Undo entry is consumed.                     *)
CancelRestores ==
    [][LET o == Reconcile(history, truth.rev, truth.content)
       IN  \A g \in Group :
             (/\ Owns(o)
              /\ Merges(o.state, g)
              /\ Last(o.state.undo).from # truth.content
              /\ Commit(Last(o.state.undo).from, g, "published"))
             => Stacks(history'.state) \in opened]_vars
==============================================================================
