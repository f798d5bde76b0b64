---------------------------- MODULE SampleAuthoring ----------------------------
(* How sound gets onto Pads: Sample imports staged in the Workspace and        *)
(* committed by token, Pad assignment and deletion, and Sound Set installation, *)
(* all against one prepared-PCM quota per Bank and per Project.                *)
(* A caller's operation is a few steps: the import session is claimed under    *)
(* sample_mutex, sequence_mutex is taken for authoring, the Project is loaded  *)
(* and measured without the writer lease, and the store commits at an expected *)
(* revision.  Callers of one process share the mutexes; another process shares *)
(* only the Project and the staging directory.                                 *)
EXTENDS Naturals, FiniteSets, FiniteSetsExt

CONSTANTS Nil,
          Callers, Far,        \* callers; Far \subseteq Callers belongs to another process
          Tokens, Cmds, Pads,
          Bank,                \* Bank[pad]
          Files,
          Chunks, Bytes,       \* Chunks[f]: staged length; Bytes[f]: prepared PCM bytes
          BankLimit, ProjectLimit,
          MaxSessions,         \* kMaximumSampleImportSessions
          Kinds,               \* operations the callers use
          MaxRevision,         \* bound: Project commits
          MaxFaults            \* bound: failing storage calls, timeouts, restarts

SampleAssumption ==
  /\ Far \subseteq Callers /\ Bank \in [Pads -> Nat]
  /\ Chunks \in [Files -> Nat \ {0}] /\ Bytes \in [Files -> Nat]
  /\ {BankLimit, ProjectLimit, MaxSessions, MaxRevision, MaxFaults} \subseteq Nat

VARIABLES project,   \* [rev, pads: Pads -> file or Nil, receipts: Cmds -> identity or Nil]
          sessions,  \* sample_imports: token -> Nil or the session
          staging,   \* token -> "none", "leased" or "left"
          used,      \* used_sample_import_tokens
          host,      \* [up, tokens]: the Web host's view
          calls,     \* the operation each caller is in
          holder,    \* the caller that holds sequence_mutex, or Nil
          deletes,   \* how often each Pad was deleted
          last,      \* the operation that made the current revision
          faults
vars == <<project, sessions, staging, used, host, calls, holder, deletes, last, faults>>

Init ==
  /\ project = [rev |-> 0, pads |-> [p \in Pads |-> Nil], receipts |-> [c \in Cmds |-> Nil]]
  /\ sessions = [t \in Tokens |-> Nil] /\ staging = [t \in Tokens |-> "none"]
  /\ used = {} /\ host = [up |-> TRUE, tokens |-> {}]
  /\ calls = [c \in Callers |-> Nil] /\ holder = Nil
  /\ deletes = [p \in Pads |-> 0] /\ last = [kind |-> "none"] /\ faults = 0

Here == Callers \ Far
Fault == faults < MaxFaults /\ faults' = faults + 1
Free(c) == calls[c] = Nil /\ (c \in Here => host.up)
-------------------------------------------------------------------------------
(* The prepared-PCM ledger: each assigned Pad counts once, the Pads about to   *)
(* be written do not.                                                          *)
Used(pads, bank, without) ==
  MapThenSumSet(LAMBDA p : Bytes[pads[p]], {p \in Pads \ without : Bank[p] \in bank /\ pads[p] # Nil})
Banks == {Bank[p] : p \in Pads}

(* compute_bank_ledger() and assess_runtime_quota() for files on the Pads of *)
(* w.                                                                        *)
Assess(pads, w, wanted) ==
  /\ \A b \in {Bank[p] : p \in w} : Used(pads, {b}, w) + wanted <= BankLimit
  /\ Used(pads, Banks, w) + wanted <= ProjectLimit

Fits(pads) == (\A b \in Banks : Used(pads, {b}, {}) <= BankLimit) /\ Used(pads, Banks, {}) <= ProjectLimit
-------------------------------------------------------------------------------
(* A client names the current revision, or repeats a command it has sent;      *)
(* others commit before its call gets to the store.                            *)
Seen(cmd, seen) ==
  IF project.receipts[cmd] = Nil THEN seen = project.rev ELSE seen = project.receipts[cmd].expected

(* begin_sample_import(): the session, when the token is new.                  *)
Opens(t) ==
  /\ sessions[t] = Nil /\ Cardinality({x \in Tokens : sessions[x] # Nil}) < MaxSessions
  /\ t \notin used /\ staging[t] = "none"
Session(p, f, cmd, seen) ==
  [pad |-> p, file |-> f, cmd |-> cmd, expected |-> seen, born |-> deletes[p], received |-> 0, final |-> FALSE]

(* The host remembers the token.                                               *)
Begin(c, t, p, f, cmd, seen) ==
  /\ "import" \in Kinds /\ c \in Here /\ Free(c)
  /\ Opens(t) /\ Seen(cmd, seen)
  /\ \/ /\ sessions' = [sessions EXCEPT ![t] = Session(p, f, cmd, seen)]
        /\ staging' = [staging EXCEPT ![t] = "leased"] /\ used' = used \cup {t}
        /\ host' = [host EXCEPT !.tokens = @ \cup {t}] /\ UNCHANGED faults
     \/ /\ Fault /\ staging' = [staging EXCEPT ![t] = "left"] /\ UNCHANGED <<sessions, used, host>>
  /\ UNCHANGED <<project, calls, holder, deletes, last>>

(* The host forgets the tokens of ended sessions.                              *)
Untracked(ts) == host' = [host EXCEPT !.tokens = @ \ ts]

(* The directory of an ended session: removed, or left to a later start.       *)
Drop(ts) ==
  \/ staging' = [t \in Tokens |-> IF t \in ts THEN "none" ELSE staging[t]] /\ UNCHANGED faults
  \/ ts # {} /\ Fault /\ staging' = [t \in Tokens |-> IF t \in ts THEN "left" ELSE staging[t]]

(* append_sample_import(): the next chunk, or one that ends the session.       *)
Follows(s, final) == ~s.final /\ s.received < Chunks[s.file] /\ (final => s.received + 1 = Chunks[s.file])
Append(c, t, final) ==
  /\ c \in Here /\ Free(c) /\ sessions[t] # Nil
  /\ LET s == sessions[t]
     IN  IF Follows(s, final)
         THEN \/ /\ sessions' = [sessions EXCEPT ![t].received = @ + 1, ![t].final = final]
                 /\ UNCHANGED <<staging, host, faults>>
              \/ /\ Fault /\ sessions' = [sessions EXCEPT ![t] = Nil]
                 /\ staging' \in {[staging EXCEPT ![t] = "none"], [staging EXCEPT ![t] = "left"]}
                 /\ Untracked({t})
         ELSE /\ sessions' = [sessions EXCEPT ![t] = Nil] /\ Drop({t})
              /\ Untracked({t})
  /\ UNCHANGED <<project, used, calls, holder, deletes, last>>

(* abort_sample_import(), also reached through a malformed chunk or commit.    *)
Abort(c, t) ==
  /\ c \in Here /\ Free(c) /\ sessions[t] # Nil
  /\ sessions' = [sessions EXCEPT ![t] = Nil] /\ Drop({t})
  /\ Untracked({t})
  /\ UNCHANGED <<project, used, calls, holder, deletes, last>>
-------------------------------------------------------------------------------
Call(kind, pads, file, cmd, expected) ==
  [kind |-> kind, pads |-> pads, file |-> file, cmd |-> cmd, expected |-> expected,
   token |-> Nil, whole |-> TRUE, born |-> 0, phase |-> "called"]

(* Mutant: the import expects the revision it finds at its commit.             *)
ClaimedNow(s, t) ==
  [Call("import", {s.pad}, s.file, s.cmd, project.rev) EXCEPT
     !.token = t, !.whole = s.final /\ s.received = Chunks[s.file], !.born = s.born]

(* commit_sample_import() first takes the session out of the map.              *)
Claimed(s, t) ==
  [Call("import", {s.pad}, s.file, s.cmd, s.expected) EXCEPT
     !.token = t, !.whole = s.final /\ s.received = Chunks[s.file], !.born = s.born]
Claim(c, t) ==
  /\ c \in Here /\ Free(c) /\ sessions[t] # Nil
  /\ calls' = [calls EXCEPT ![c] = Claimed(sessions[t], t)]
  /\ sessions' = [sessions EXCEPT ![t] = Nil]
  /\ UNCHANGED <<project, staging, used, host, holder, deletes, last, faults>>

(* The other requests: "resample", "assign", "update", "delete" of one Pad;    *)
(* "install" of a whole Set on several Pads or "slot" on an empty one.         *)
Request(c, kind, pads, file, cmd, seen) ==
  /\ kind \in Kinds \ {"import"} /\ Free(c) /\ Seen(cmd, seen)
  /\ pads # {} /\ (kind # "install" => Cardinality(pads) = 1)
  /\ calls' = [calls EXCEPT ![c] = Call(kind, pads, file, cmd, seen)]
  /\ UNCHANGED <<project, sessions, staging, used, host, holder, deletes, last, faults>>

(* The end of a call.                                                          *)
Ended(c) ==
  /\ calls' = [calls EXCEPT ![c] = Nil]
  /\ holder' = IF holder = c THEN Nil ELSE holder
Refused(c) ==
  /\ Ended(c)
  /\ IF calls[c].token = Nil THEN UNCHANGED <<staging, host, faults>>
     ELSE Drop({calls[c].token}) /\ Untracked({calls[c].token})
  /\ UNCHANGED <<project, sessions, used, deletes, last>>

(* admit_non_sequence_authoring(): sequence_mutex, except for an installation. *)
Admitted(c) == calls[c].kind \in {"install", "slot"} \/ c \in Far \/ holder = Nil
Admit(c) ==
  /\ calls[c] # Nil /\ calls[c].phase = "called" /\ Admitted(c)
  /\ calls' = [calls EXCEPT ![c].phase = "admitted"]
  /\ holder' = IF calls[c].kind \in {"install", "slot"} \/ c \in Far THEN holder ELSE c
  /\ UNCHANGED <<project, sessions, staging, used, host, deletes, last, faults>>

(* Admission refused after the claim: the staging is nobody's.                 *)
AdmitRefused(c) ==
  /\ calls[c] # Nil /\ calls[c].phase = "called" /\ Fault /\ Ended(c)
  /\ IF calls[c].token = Nil THEN UNCHANGED <<staging, host>>
     ELSE /\ staging' = [staging EXCEPT ![calls[c].token] = "left"]
          /\ Untracked({calls[c].token})
  /\ UNCHANGED <<project, sessions, used, deletes, last>>

(* Whether the request is measured against the Project it loaded: a file at    *)
(* its revision; a Set always, a slot unless its command may be a replay.      *)
ChargedFile(op) == op.kind \in {"import", "resample"} /\ project.rev = op.expected

(* Mutant: a whole Set is not measured.                                        *)
ChargedSlot(op) == op.kind = "slot" /\ op.expected >= project.rev

ChargedSet(op) == op.kind = "install" \/ (op.kind = "slot" /\ op.expected >= project.rev)

Load(c) ==
  /\ calls[c] # Nil /\ calls[c].phase = "admitted"
  /\ LET op == calls[c]
         wanted == IF op.file = Nil THEN 0 ELSE Cardinality(op.pads) * Bytes[op.file]
     IN  IF op.whole /\ (ChargedFile(op) \/ ChargedSet(op) => Assess(project.pads, op.pads, wanted))
         THEN /\ calls' = [calls EXCEPT ![c].phase = "loaded"]
              /\ UNCHANGED <<project, sessions, staging, used, host, holder, deletes, last, faults>>
         ELSE Refused(c)
-------------------------------------------------------------------------------
Identity(op) == [kind |-> op.kind, pads |-> op.pads, file |-> op.file, expected |-> op.expected]

(* The store under the writer lease: a known command is replayed, a stale one  *)
(* refused, a slot installation needs empty Pads.                              *)
StoreVerdict(op) ==
  IF project.receipts[op.cmd] # Nil THEN (IF project.receipts[op.cmd] = Identity(op) THEN "replayed" ELSE "refused")
  ELSE IF project.rev # op.expected THEN "refused"
  ELSE IF op.kind = "slot" /\ \E p \in op.pads : project.pads[p] # Nil THEN "refused"
  ELSE "applied"

Written(op) ==
  [p \in Pads |-> IF p \in op.pads /\ op.kind # "update" THEN op.file ELSE project.pads[p]]
Committed(op) ==
  /\ project' = [rev |-> project.rev + 1, pads |-> Written(op),
                 receipts |-> [project.receipts EXCEPT ![op.cmd] = Identity(op)]]
  /\ deletes' = [p \in Pads |-> IF op.kind = "delete" /\ p \in op.pads THEN deletes[p] + 1 ELSE deletes[p]]
  /\ last' = [kind |-> op.kind, pads |-> op.pads, born |-> op.born]

(* delete_sample_pad(): the imports of the Pad end with the deletion; a        *)
(* replayed deletion cancels nothing.                                          *)
Cancelled(c, verdict) ==
  LET op == calls[c]
      gone == IF op.kind = "delete" /\ verdict = "applied" /\ c \in Here
              THEN {t \in Tokens : sessions[t] # Nil /\ sessions[t].pad \in op.pads} ELSE {}
      ended == IF op.token = Nil THEN gone ELSE {op.token}
  IN  /\ sessions' = [t \in Tokens |-> IF t \in gone THEN Nil ELSE sessions[t]]
      /\ Drop(ended) /\ Untracked(ended)

Store(c) ==
  /\ calls[c] # Nil /\ calls[c].phase = "loaded"
  /\ LET op == calls[c]
         verdict == StoreVerdict(op)
     IN  /\ verdict = "applied" => project.rev < MaxRevision
         /\ IF verdict = "refused" THEN Refused(c)
            ELSE /\ IF verdict = "applied" THEN Committed(op) ELSE UNCHANGED <<project, deletes, last>>
                 /\ Cancelled(c, verdict) /\ Ended(c) /\ UNCHANGED used

(* The store reports a failure: nothing, or the commit is there unreported.    *)
StoreFails(c) ==
  /\ calls[c] # Nil /\ calls[c].phase = "loaded" /\ Fault /\ Ended(c)
  /\ LET op == calls[c] IN
       /\ \/ UNCHANGED <<project, deletes, last>>
          \/ StoreVerdict(op) = "applied" /\ project.rev < MaxRevision /\ Committed(op)
       /\ staging' = IF op.token = Nil THEN staging ELSE [staging EXCEPT ![op.token] = "none"]
       /\ host' = IF op.token = Nil THEN host ELSE [host EXCEPT !.tokens = @ \ {op.token}]
  /\ UNCHANGED <<sessions, used>>
-------------------------------------------------------------------------------
(* A request runs past its deadline: the host is sealed and its imports end.   *)
Seal ==
  /\ host.up /\ (\A c \in Here : calls[c] = Nil) /\ Fault
  /\ LET open == {t \in Tokens : sessions[t] # Nil} IN
       /\ sessions' = [t \in Tokens |-> Nil]
       /\ staging' = [t \in Tokens |-> IF t \in open THEN "none" ELSE staging[t]]
  /\ host' = [up |-> FALSE, tokens |-> {}]
  /\ UNCHANGED <<project, used, calls, holder, deletes, last>>

(* cleanup_sample_import_staging(): what is unleased may go; a young directory *)
(* of the strict shape is kept.                                                *)
Scavenged(ts) == [t \in Tokens |-> IF t \in ts /\ staging[t] = "left" THEN "none" ELSE staging[t]]

(* The process ends and starts again, or the other one starts.                 *)
Restart ==
  /\ (\A c \in Here : calls[c] = Nil) /\ Fault
  /\ \E ts \in SUBSET Tokens :
       staging' = [t \in Tokens |-> IF t \in ts \/ staging[t] = "none" THEN "none" ELSE "left"]
  /\ sessions' = [t \in Tokens |-> Nil] /\ used' = {} /\ host' = [up |-> TRUE, tokens |-> {}]
  /\ UNCHANGED <<project, calls, holder, deletes, last>>
FarStart ==
  /\ Far # {} /\ \E ts \in SUBSET Tokens : ts # {} /\ staging' = Scavenged(ts)
  /\ UNCHANGED <<project, sessions, used, host, calls, holder, deletes, last, faults>>

Next ==
  \/ \E c \in Callers :
       \/ \E t \in Tokens :
            \/ \E p \in Pads, f \in Files, cmd \in Cmds, seen \in 0 .. MaxRevision : Begin(c, t, p, f, cmd, seen)
            \/ (\E final \in BOOLEAN : Append(c, t, final)) \/ Abort(c, t) \/ Claim(c, t)
       \/ \E kind \in Kinds \ {"import"}, cmd \in Cmds, seen \in 0 .. MaxRevision, pads \in SUBSET Pads :
            \E f \in IF kind \in {"resample", "install", "slot", "assign"} THEN Files ELSE {Nil} :
              Request(c, kind, pads, f, cmd, seen)
       \/ Admit(c) \/ AdmitRefused(c) \/ Load(c) \/ Store(c) \/ StoreFails(c)
  \/ Seal \/ Restart \/ FarStart
Spec == Init /\ [][Next]_vars
-------------------------------------------------------------------------------
(* Every revision a measured operation made is within the Bank and Project     *)
(* quota, although it was measured outside the writer lease, before the        *)
(* commits of other callers and processes.                                     *)
QuotaKept == last.kind \in {"import", "resample", "install", "slot"} => Fits(project.pads)

(* An import begun before its Pad was deleted never lands after the deletion,  *)
(* not even when it was claimed before and the deletion did not see it.        *)
DeletedStaysEmpty == last.kind = "import" => \A p \in last.pads : last.born = deletes[p]

(* Between requests the host's tokens are exactly the sessions of the facade:  *)
(* a lost token would block Undo and tempo, a stray one project changes.       *)
HostTracks == host.up /\ (\A c \in Here : calls[c] = Nil) => host.tokens = {t \in Tokens : sessions[t] # Nil}

(* The staging of a session, and of a claimed import, is never removed or      *)
(* given up under it.                                                          *)
StagingHeld ==
  \A t \in Tokens :
    (sessions[t] # Nil \/ \E c \in Callers : calls[c] # Nil /\ calls[c].token = t) => staging[t] = "leased"
===============================================================================
