------------------------------- MODULE BundleTransfer -------------------------------
(* Import, duplication and cleanup of Project Bundles in a workspace several  *)
(* processes (or tabs) share.  A process runs one operation at a time (its    *)
(* mutex); leases exclude other processes only, and a directory that is being *)
(* removed entry by entry may be renamed by somebody else meanwhile.          *)
EXTENDS Integers, Sequences, FiniteSets, SequencesExt

CONSTANTS Procs, Tokens, Ids,
          Up,          \* the processes that run at the start
          Sizes,       \* chunks of each Bundle entry
          Versions,    \* versions of an incoming Bundle
          Surfaces,    \* what a run uses: "import", "duplicate"
          MaxFaults, MaxCrashes, MaxEdits, MaxTrees, \* bounds
          Nil
BundleAssumption ==
  /\ Up \subseteq Procs /\ Sizes \in Seq(Nat) /\ Versions \subseteq Nat /\ Tokens \cap Ids = {}
  /\ MaxFaults \in Nat /\ MaxCrashes \in Nat /\ MaxEdits \in Nat /\ MaxTrees \in Nat

VARIABLES trees,    \* the directories of Projects: id, version, entries; a rename keeps the directory
          staging,  \* import-staging: the staged tree of a token or of a duplicate's id
          projects, \* projects/<id>.lmdj: a tree, 0 when absent
          leases,   \* writer leases: who owns which path
          procs,    \* per process: sessions, used tokens, the running operation, the open Project
          journal,  \* Projects with an active recording
          acked,    \* imports and duplicates answered with success
          litter,   \* staging whose owner crashed or could not remove it
          spent     \* so far: tokens clients used, faults, crashes, edits, and the staged
                    \* trees a cleanup took although their publication was under way
vars == <<trees, staging, projects, leases, procs, journal, acked, litter, spent>>

Entries == DOMAIN Sizes
Empty == [e \in Entries |-> Nil]
Full == [e \in Entries |-> [i \in 1 .. Sizes[e] |-> "ok"]]
Tree(id, ver, parts) == [id |-> id, ver |-> ver, parts |-> parts]
Names == Tokens \cup Ids
Idle(p) == procs[p].up /\ procs[p].op = Nil
Free(path, p) == \A l \in leases : l.path = path => l.owner = p
Lease(path, p, role) == [path |-> path, owner |-> p, role |-> role]
MayFail == spent.faults < MaxFaults
Fault == spent' = [spent EXCEPT !.faults = @ + 1]

Down == [up |-> FALSE, sessions |-> [n \in Names |-> Nil], used |-> {}, op |-> Nil, open |-> Nil]
Init ==
  /\ LET i == CHOOSE i \in Ids : TRUE
     IN  projects = [j \in Ids |-> IF j = i THEN 1 ELSE 0] /\ trees = <<Tree(i, 1, Full)>>
  /\ staging = [n \in Names |-> Nil] /\ leases = {} /\ journal = {} /\ acked = {} /\ litter = {}
  /\ procs = [p \in Procs |-> [Down EXCEPT !.up = p \in Up]]
  /\ spent = [tokens |-> {}, faults |-> 0, crashes |-> 0, edits |-> 0, overtaken |-> {}]
-------------------------------------------------------------------------------
(* begin(): the token is used whatever happens next.                          *)
Begin(p) ==
  /\ "import" \in Surfaces /\ Idle(p)
  /\ \E t \in Tokens \ spent.tokens, i \in Ids, v \in Versions :
       /\ Free(t, p)
       /\ \/ /\ trees' = Append(trees, Tree(i, v, Empty)) /\ staging' = [staging EXCEPT ![t] = Len(trees) + 1]
             /\ leases' = leases \cup {Lease(t, p, "session")}
             /\ procs' = [procs EXCEPT ![p].used = @ \cup {t},
                            ![p].sessions[t] = [id |-> i, ver |-> v, index |-> FALSE, read |-> FALSE, next |-> 1, written |-> 0]]
             /\ spent' = [spent EXCEPT !.tokens = @ \cup {t}]
          \/ /\ MayFail /\ procs' = [procs EXCEPT ![p].used = @ \cup {t}]
             /\ spent' = [spent EXCEPT !.tokens = @ \cup {t}, !.faults = @ + 1]
             /\ UNCHANGED <<trees, staging, leases>>
  /\ UNCHANGED <<projects, journal, acked, litter>>

(* append_index() with the last chunk; a wrong index, or one that cannot be   *)
(* read back, leaves the session without an index for good.                   *)
AppendIndex(p) ==
  /\ Idle(p)
  /\ \E t \in Tokens, outcome \in {"parsed", "refused", "unwritten"} :
       /\ procs[p].sessions[t] # Nil /\ ~ procs[p].sessions[t].read
       /\ outcome = "unwritten" => MayFail
       /\ IF outcome = "unwritten" THEN Fault /\ UNCHANGED procs
          ELSE /\ procs' = [procs EXCEPT ![p].sessions[t].read = TRUE, ![p].sessions[t].index = outcome = "parsed"]
               /\ UNCHANGED spent
  /\ UNCHANGED <<trees, staging, projects, leases, journal, acked, litter>>

(* Mutant: only the length of an entry is compared.                           *)
SameLength(data, e) == data # Nil /\ Len(data) = Sizes[e]

(* sha256 of an entry against the index.                                      *)
SameHash(data, e) == data = Full[e]
(* append_entry(): the first chunk creates the file, the others are appended  *)
(* after the session's own count, over whatever tail a failure left.          *)
AppendEntry(p) ==
  /\ Idle(p)
  /\ \E t \in Tokens :
       LET s == procs[p].sessions[t]
           n == staging[t]
           had == trees[n].parts[s.next]
           size == Sizes[s.next]
           made == s.written = 0 /\ had # Nil
       IN  /\ s # Nil /\ s.index /\ s.next \in Entries
           /\ (size = 0 \/ s.written < size) /\ ~ made
           /\ \E byte \in {"ok", "bad"}, outcome \in {"done", "unwritten", "unsynced", "unread"} :
                LET data == IF size = 0 THEN <<>>
                            ELSE Append(IF s.written = 0 THEN <<>> ELSE SubSeq(had, 1, s.written), byte)
                    final == Len(data) = size
                    ok == outcome = "done" /\ SameHash(data, s.next)
                IN  /\ outcome # "done" => MayFail
                    /\ outcome = "unread" => final
                    /\ trees' = IF outcome = "unwritten" THEN trees ELSE [trees EXCEPT ![n].parts[s.next] = data]
                    /\ procs' =
                         IF outcome \in {"unwritten", "unsynced"} THEN procs
                         ELSE [procs EXCEPT ![p].sessions[t].next = IF final /\ ok THEN @ + 1 ELSE @,
                                            ![p].sessions[t].written = IF final /\ ok THEN 0 ELSE Len(data)]
                    /\ IF outcome = "done" THEN UNCHANGED spent ELSE Fault
  /\ UNCHANGED <<staging, projects, leases, journal, acked, litter>>
-------------------------------------------------------------------------------

(* The end of an operation of p on the staging of n: the leases are given     *)
(* back and the tree is removed; a failure leaves it to the next start.       *)
Removed(n, tree) == IF tree = 0 THEN trees ELSE [trees EXCEPT ![tree].parts = Empty]
Cleanup(p, n) ==
  /\ leases' = {l \in leases : ~ (l.owner = p /\ (l.path = n \/ l.role = "target"))}
  /\ procs' = [procs EXCEPT ![p].op = Nil, ![p].sessions[n] = Nil]
  /\ \/ /\ trees' = IF staging[n] = Nil THEN trees ELSE Removed(n, staging[n])
        /\ staging' = [staging EXCEPT ![n] = Nil] /\ litter' = litter \ {n} /\ UNCHANGED spent
     \/ MayFail /\ staging[n] # Nil /\ Fault /\ litter' = litter \cup {n} /\ UNCHANGED <<trees, staging>>

Abort(p) ==
  /\ Idle(p)
  /\ \E t \in Tokens : procs[p].sessions[t] # Nil /\ Cleanup(p, t)
  /\ UNCHANGED <<projects, journal, acked>>

(* summarize_project(): the staged Project loads and has the declared digest. *)
Validated(s, n) ==
  n # Nil /\ (\A e \in Entries : SameHash(trees[n].parts[e], e)) /\ trees[n].id = s.id /\ trees[n].ver = s.ver
Complete(s) == s.index /\ s.next > Len(Sizes) /\ s.written = 0

EqualsLocal(local, s) ==
  local # 0 /\ (\A e \in Entries : SameHash(trees[local].parts[e], e)) /\ trees[local].ver = s.ver
(* commit(): every refusal removes the staging; an equal local Project is     *)
(* answered as imported; else the lease of the staging is given up and the    *)
(* directory is published.                                                    *)
Commit(p) ==
  /\ Idle(p)
  /\ \E t \in Tokens :
       LET s == procs[p].sessions[t]
           proceeds == Complete(s) /\ Validated(s, staging[t]) /\ Free(s.id, p)
           local == projects[s.id]
       IN  /\ s # Nil
           /\ IF proceeds /\ local = 0
              THEN /\ procs' = [procs EXCEPT ![p].op = [kind |-> "publish", name |-> t, id |-> s.id, ver |-> s.ver, src |-> Nil]]
                   /\ leases' = {l \in leases : l.path # t} \cup {Lease(s.id, p, "target")}
                   /\ UNCHANGED <<trees, staging, litter, spent, acked>>
              ELSE /\ Cleanup(p, t)
                   /\ acked' = IF proceeds /\ EqualsLocal(local, s) THEN acked \cup {[id |-> s.id, ver |-> s.ver]} ELSE acked
  /\ UNCHANGED <<projects, journal>>

(* Mutant: the source Project is not kept while it is copied.                 *)
DuplicateLeasesTarget(p, src, dst) == {Lease(dst, p, "target"), Lease(dst, p, "session")}

DuplicateLeases(p, src, dst) == {Lease(src, p, "target"), Lease(dst, p, "target"), Lease(dst, p, "session")}
(* duplicate(): the source's head is copied under both leases.                *)
Duplicate(p) ==
  /\ "duplicate" \in Surfaces /\ Idle(p) /\ Len(trees) < MaxTrees
  /\ \E src \in Ids, dst \in Ids :
       /\ src # dst /\ Free(src, p) /\ Free(dst, p) /\ projects[src] # 0 /\ projects[dst] = 0 /\ src \notin journal
       /\ trees[projects[src]].parts = Full
       /\ trees' = Append(trees, Tree(dst, trees[projects[src]].ver, Full))
       /\ staging' = [staging EXCEPT ![dst] = Len(trees) + 1]
       /\ leases' = leases \cup DuplicateLeases(p, src, dst)
       /\ procs' = [procs EXCEPT ![p].op = [kind |-> "copied", name |-> dst, id |-> dst,
                                            ver |-> trees[projects[src]].ver, src |-> src]]
  /\ UNCHANGED <<projects, journal, acked, litter, spent>>
(* claim_publish() or a forced failure, then the staging lease is given up.   *)
DuplicateClaim(p) ==
  LET op == procs[p].op IN
  /\ op # Nil /\ op.kind = "copied"
  /\ \/ /\ procs' = [procs EXCEPT ![p].op.kind = "publish"]
        /\ leases' = leases \ {Lease(op.name, p, "session")}
        /\ UNCHANGED <<trees, staging, litter, spent>>
     \/ Cleanup(p, op.name)
  /\ UNCHANGED <<projects, journal, acked>>

(* publish_directory_if_absent(): a rename that replaces nothing; its         *)
(* failure may come before or after the rename.                               *)
Renames(op) == staging[op.name] # Nil /\ staging[op.name] # 0 /\ projects[op.id] = 0
Publish(p) ==
  LET op == procs[p].op IN
  /\ op # Nil /\ op.kind = "publish"
  /\ \/ /\ Renames(op)
        /\ projects' = [projects EXCEPT ![op.id] = staging[op.name]]
        /\ staging' = [staging EXCEPT ![op.name] = 0]
        /\ \/ /\ procs' = [procs EXCEPT ![p].op.kind = "published"] /\ UNCHANGED spent
           \/ /\ MayFail /\ procs' = [procs EXCEPT ![p].op.kind = "failed"] /\ Fault
     \/ /\ ~ Renames(op) /\ procs' = [procs EXCEPT ![p].op.kind = "failed"] /\ UNCHANGED <<projects, staging, spent>>
     \/ /\ MayFail /\ procs' = [procs EXCEPT ![p].op.kind = "failed"] /\ Fault /\ UNCHANGED <<projects, staging>>
  /\ UNCHANGED <<trees, leases, journal, acked, litter>>

Finish(p) ==
  LET op == procs[p].op IN
  /\ op # Nil /\ op.kind \in {"published", "failed"} /\ Cleanup(p, op.name)
  /\ acked' = IF op.kind = "published" THEN acked \cup {[id |-> op.id, ver |-> op.ver]} ELSE acked
  /\ UNCHANGED <<projects, journal>>
-------------------------------------------------------------------------------
(* A process starts with cleanup_incomplete(): it removes, entry by entry,    *)
(* every staging nobody has leased when it looks.                             *)
Start(p) ==
  /\ ~ procs[p].up
  /\ procs' = [procs EXCEPT ![p].up = TRUE,
                            ![p].op = [kind |-> "cleanup", todo |-> {n \in Names : staging[n] # Nil}, name |-> Nil, tree |-> 0]]
  /\ UNCHANGED <<trees, staging, projects, leases, journal, acked, litter, spent>>

(* Mutant: staging another process works in is not spared.                    *)
CleanupSparesNone(p, n) == FALSE

CleanupSpares(p, n) == ~ Free(n, p)
Publishing(n) == \E q \in Procs : procs[q].op # Nil /\ procs[q].op.kind = "publish" /\ procs[q].op.name = n
CleanupTake(p) ==
  LET op == procs[p].op IN
  /\ op # Nil /\ op.kind = "cleanup" /\ op.name = Nil
  /\ IF op.todo = {} THEN procs' = [procs EXCEPT ![p].op = Nil] /\ UNCHANGED spent
     ELSE \E n \in op.todo :
            LET taken == ~ CleanupSpares(p, n) /\ staging[n] # Nil
            IN  procs' = [procs EXCEPT ![p].op.todo = @ \ {n}, ![p].op.name = IF taken THEN n ELSE Nil,
                                       ![p].op.tree = IF taken THEN staging[n] ELSE 0]
                /\ spent' = IF taken /\ Publishing(n) THEN [spent EXCEPT !.overtaken = @ \cup {staging[n]}] ELSE spent
  /\ UNCHANGED <<trees, staging, projects, leases, journal, acked, litter>>
CleanupRemove(p) ==
  LET op == procs[p].op IN
  /\ op # Nil /\ op.kind = "cleanup" /\ op.name # Nil
  /\ \/ /\ op.tree # 0
        /\ \E e \in Entries :
             trees[op.tree].parts[e] # Nil /\ trees' = [trees EXCEPT ![op.tree].parts[e] = Nil]
        /\ UNCHANGED <<staging, procs, litter>>
     \/ /\ op.tree = 0 \/ trees[IF op.tree = 0 THEN 1 ELSE op.tree].parts = Empty
        /\ procs' = [procs EXCEPT ![p].op.name = Nil, ![p].op.tree = 0]
        /\ staging' = IF staging[op.name] \in {op.tree, 0} THEN [staging EXCEPT ![op.name] = Nil] ELSE staging
        /\ litter' = IF staging' [op.name] = Nil THEN litter \ {op.name} ELSE litter
        /\ UNCHANGED trees
  /\ UNCHANGED <<projects, leases, journal, acked, spent>>
Works(p, n) == procs[p].sessions[n] # Nil \/ (procs[p].op # Nil /\ procs[p].op.name = n)
Crash(p) ==
  /\ procs[p].up /\ spent.crashes < MaxCrashes
  /\ spent' = [spent EXCEPT !.crashes = @ + 1]
  /\ litter' = litter \cup {n \in Names : staging[n] # Nil /\ Works(p, n)}
  /\ procs' = [procs EXCEPT ![p] = Down] /\ leases' = {l \in leases : l.owner # p}
  /\ UNCHANGED <<trees, staging, projects, journal, acked>>
-------------------------------------------------------------------------------
(* The Host's work on an open Project, under its lease.                       *)
Open(p) ==
  /\ Idle(p) /\ procs[p].open = Nil /\ spent.edits < MaxEdits
  /\ \E i \in Ids : projects[i] # 0 /\ Free(i, p)
                    /\ procs' = [procs EXCEPT ![p].open = i] /\ leases' = leases \cup {Lease(i, p, "open")}
  /\ UNCHANGED <<trees, staging, projects, journal, acked, litter, spent>>
Close(p) ==
  /\ Idle(p) /\ procs[p].open # Nil /\ procs[p].open \notin journal
  /\ procs' = [procs EXCEPT ![p].open = Nil] /\ leases' = leases \ {Lease(procs[p].open, p, "open")}
  /\ UNCHANGED <<trees, staging, projects, journal, acked, litter, spent>>
Edit(p) ==
  /\ Idle(p) /\ procs[p].open # Nil /\ spent.edits < MaxEdits
  /\ spent' = [spent EXCEPT !.edits = @ + 1]
  /\ \/ procs[p].open \notin journal /\ journal' = journal \cup {procs[p].open} /\ UNCHANGED trees
     \/ journal' = journal \ {procs[p].open} /\ trees' = [trees EXCEPT ![projects[procs[p].open]].ver = @ + 10]
  /\ UNCHANGED <<staging, projects, leases, procs, acked, litter>>
-------------------------------------------------------------------------------
Next ==
  \E p \in Procs :
    \/ Begin(p) \/ AppendIndex(p) \/ AppendEntry(p) \/ Commit(p) \/ Abort(p) \/ Publish(p) \/ Finish(p)
    \/ Duplicate(p) \/ DuplicateClaim(p) \/ Start(p) \/ CleanupTake(p) \/ CleanupRemove(p) \/ Crash(p)
    \/ Open(p) \/ Close(p) \/ Edit(p)
Spec == Init /\ [][Next]_vars
-------------------------------------------------------------------------------
(* A directory under projects/ is a whole Project of that identity, whatever  *)
(* crashed, failed or was cleaned up around its publication.                  *)
PublishedWhole ==
  \A i \in Ids : projects[i] # 0 => trees[projects[i]].parts = Full /\ trees[projects[i]].id = i

(* The staging lease is given up before the rename: a process that starts in  *)
(* between removes entries of the Project that is published. All others are   *)
(* whole, and such a Project may lack entries but has no wrong one.           *)
WholeUnlessOvertaken ==
  \A i \in Ids : projects[i] # 0 =>
    LET t == projects[i] IN
      /\ trees[t].id = i
      /\ \A e \in Entries : trees[t].parts[e] = Full[e] \/ (t \in spent.overtaken /\ trees[t].parts[e] = Nil)

(* Neither an import nor a duplicate replaces or removes a local Project.     *)
NeverReplaces == \A i \in Ids : projects[i] # 0 => projects'[i] = projects[i]

(* An answer of success names a Project that is there, in the version that    *)
(* was sent or copied.                                                        *)
AnsweredIsThere ==
  \A a \in acked' \ acked : projects'[a.id] # 0 /\ trees'[projects'[a.id]].ver = a.ver

(* A published duplicate is the source's head at that moment, and no take of  *)
(* the source was unfinished.                                                 *)
CopiesHead ==
  \A p \in Procs :
    LET op == procs[p].op
    IN  op # Nil /\ op.kind = "publish" =>
          (op.src # Nil /\ projects'[op.id] # projects[op.id] =>
             trees[projects[op.src]].ver = op.ver /\ op.src \notin journal)

(* A session in which chunks are still sent keeps its staging: no start of    *)
(* another process has begun to remove it.                                    *)
LiveKept ==
  \A p \in Procs, t \in Tokens :
    procs[p].sessions[t] # Nil /\ procs[p].op = Nil =>
      /\ staging[t] # Nil
      /\ \A q \in Procs : procs[q].op # Nil => ~ (procs[q].op.kind = "cleanup" /\ procs[q].op.name = t)

(* Staging without a session or an operation is what a crash or a failed      *)
(* removal left, so that the next start may remove it.                        *)
NothingLeft ==
  \A n \in Names : staging[n] # Nil => n \in litter \/ \E p \in Procs : Works(p, n)
===============================================================================
