---------------------------- MODULE WebWriterLease ----------------------------
(* The writer lease of one Project in the browser.  The OPFS lock belongs to   *)
(* the thread (realm) that opened it; leases taken in other realms borrow it   *)
(* through counters in shared memory.  Only the owner realm may close the      *)
(* lock, from a timer or at the end of one of its own leases, and the block of *)
(* counters is freed by whoever drops it last.  A lease slot is one C++ lease; *)
(* every atomic access another realm can see is a step.                        *)
EXTENDS Integers, FiniteSets

CONSTANTS Nil, Realms, Slots,
          RealmOf,      \* RealmOf[l]: the realm that creates the leases of a slot
          Blocks,       \* acquisition generations, 1 .. n
          MaxTries,     \* bound: acquisitions
          MayFail       \* bound: failing recoveries, leases destroyed elsewhere, terminal seals

WriterAssumption ==
  /\ RealmOf \in [Slots -> Realms] /\ {MaxTries, MayFail} \subseteq Nat /\ Blocks \subseteq Nat \ {0}
  /\ IsFiniteSet(Slots) /\ Nil \notin [b : Blocks, refs : Nat, delegated : BOOLEAN, timer : BOOLEAN]

VARIABLES block,    \* generation -> its words, its owner realm and its lock
          entry,    \* realm -> Nil or [b, refs, delegated, timer]: leasesByPath
          slot,     \* slot -> [pc, b, initial]
          current,  \* writers_: the generation the map refers to weakly, or 0
          tries, fails
vars == <<block, entry, slot, current, tries, fails>>

Unused == [owner |-> Nil, refs |-> 0, sealed |-> FALSE, remote |-> 0, debt |-> FALSE, terminal |-> FALSE,
           acquired |-> FALSE, lock |-> "none", memory |-> 0, state |-> "unused"]
Idle == [pc |-> "idle", b |-> 0, initial |-> FALSE]
Init ==
  /\ block = [b \in Blocks |-> Unused] /\ entry = [r \in Realms |-> Nil]
  /\ slot = [l \in Slots |-> Idle] /\ current = 0 /\ tries = 0 /\ fails = 0

Fails == fails < MayFail /\ fails' = fails + 1
At(l, pc) == slot[l].pc = pc
B(l) == slot[l].b
Here(l) == RealmOf[l]
Remote(l) == block[B(l)].owner # Here(l)
Goto(l, pc) == slot' = [slot EXCEPT ![l].pc = pc]
(* A realm runs one acquisition or release at a time.                          *)
Quiet(r) == \A l \in Slots : RealmOf[l] = r => slot[l].pc \in {"idle", "held"}
(* The C++ state of a generation lives while something points to it.           *)
Pointed(b, l) == \E k \in Slots \ {l} : B(k) = b
-------------------------------------------------------------------------------
(* acquire_writer(): the state in the map, or a fresh one of this realm.       *)
Find(l) ==
  /\ At(l, "idle") /\ Quiet(Here(l)) /\ tries < MaxTries /\ tries' = tries + 1
  /\ IF current # 0 /\ Pointed(current, l)
     THEN /\ slot' = [slot EXCEPT ![l] = [pc |-> "check", b |-> current, initial |-> FALSE]]
          /\ UNCHANGED <<block, current>>
     ELSE \E b \in Blocks :
          /\ block[b].state = "unused" /\ \A a \in Blocks : a < b => block[a].state # "unused"
          /\ slot' = [slot EXCEPT ![l] = [pc |-> "enter", b |-> b, initial |-> TRUE]]
          /\ block' = [block EXCEPT ![b] = [@ EXCEPT !.owner = Here(l), !.refs = 1, !.memory = 1, !.state = "live"]]
          /\ current' = b
  /\ UNCHANGED <<entry, fails>>

(* Mutant: a borrower is counted by the gate alone.                            *)
ReserveNothing(l) == UNCHANGED block

(* pin(): remote custody is reserved before the gate is tried.                 *)
Reserve(l) == IF Remote(l) THEN block' = [block EXCEPT ![B(l)].remote = @ + 1] ELSE UNCHANGED block
Check(l) ==
  /\ At(l, "check")
  /\ IF block[B(l)].acquired THEN Reserve(l) /\ Goto(l, "pin") ELSE UNCHANGED block /\ Goto(l, "drop")
  /\ UNCHANGED <<entry, current, tries, fails>>
Pin(l) ==
  /\ At(l, "pin")
  /\ LET w == block[B(l)] IN
       IF ~w.sealed /\ w.refs # 0
       THEN block' = [block EXCEPT ![B(l)].refs = @ + 1] /\ Goto(l, "enter")
       ELSE UNCHANGED block /\ Goto(l, IF Remote(l) THEN "unreserve" ELSE "drop")
  /\ UNCHANGED <<entry, current, tries, fails>>
Unreserve(l) ==
  /\ At(l, "unreserve")
  /\ block' = [block EXCEPT ![B(l)].remote = @ - 1] /\ Goto(l, "drop")
  /\ UNCHANGED <<entry, current, tries, fails>>
-------------------------------------------------------------------------------
(* The JavaScript side.  A lock may be drained when nobody remote borrows it,  *)
(* no cleanup is owed, and its last lease is gone or the realm is ending.      *)
Usable(b) == ~block[b].sealed /\ block[b].refs > 0 /\ ~block[b].debt /\ block[b].lock # "closed"
Drainable(w) == w.remote = 0 /\ ~w.debt /\ (w.terminal \/ (w.sealed /\ w.refs = 0))
Draining(r) ==
  /\ entry[r] # Nil /\ ~entry[r].delegated /\ Drainable(block[entry[r].b])
  /\ entry[r].timer \/ \E l \in Slots : RealmOf[l] = r /\ slot[l].pc \in {"enter", "drain"}

(* One memory reference less: whoever gives up the last frees the counters.    *)
Forgotten(w) == [w EXCEPT !.memory = w.memory - 1, !.state = IF w.memory = 1 THEN "freed" ELSE w.state]
(* closeWriter(): the receipt, then the JavaScript memory reference.           *)
Closed(w) == Forgotten([w EXCEPT !.lock = "closed"])
Drain(r) ==
  /\ Draining(r)
  /\ block' = [block EXCEPT ![entry[r].b] = Closed(@)] /\ entry' = [entry EXCEPT ![r] = Nil]
  /\ UNCHANGED <<slot, current, tries, fails>>

(* acquireWriter(): drain first; a token of a lock this realm knows, one that  *)
(* borrows, or the lock itself.                                                *)
Enter(l) ==
  /\ At(l, "enter") /\ ~Draining(Here(l))
  /\ LET r == Here(l) IN
       IF ~Usable(B(l)) \/ (entry[r] # Nil /\ entry[r].b # B(l)) THEN Goto(l, "unpin") /\ UNCHANGED entry
       ELSE IF entry[r] # Nil THEN entry' = [entry EXCEPT ![r].refs = @ + 1] /\ Goto(l, "held")
       ELSE Goto(l, IF slot[l].initial THEN "open" ELSE "borrow") /\ UNCHANGED entry
  /\ UNCHANGED <<block, current, tries, fails>>
Borrow(l) ==
  /\ At(l, "borrow")
  /\ IF Usable(B(l))
     THEN /\ entry' = [entry EXCEPT ![Here(l)] = [b |-> B(l), refs |-> 1, delegated |-> TRUE, timer |-> FALSE]]
          /\ Goto(l, "held")
     ELSE UNCHANGED entry /\ Goto(l, "unpin")
  /\ UNCHANGED <<block, current, tries, fails>>

Opened(w) == [w EXCEPT !.lock = "open", !.memory = w.memory + 1]
Open(l) ==
  /\ At(l, "open")
  /\ IF \E b \in Blocks : block[b].lock = "open" THEN UNCHANGED <<block, entry>> /\ Goto(l, "unpin")
     ELSE /\ block' = [block EXCEPT ![B(l)] = Opened(@)] /\ Goto(l, "recover")
          /\ entry' = [entry EXCEPT ![Here(l)] = [b |-> B(l), refs |-> 0, delegated |-> FALSE, timer |-> FALSE]]
  /\ UNCHANGED <<current, tries, fails>>

(* Interrupted intents are recovered before the lease is published.            *)
Recover(l) ==
  /\ At(l, "recover") /\ Usable(B(l))
  /\ block' = [block EXCEPT ![B(l)].acquired = TRUE]
  /\ entry' = [entry EXCEPT ![Here(l)].refs = 1] /\ Goto(l, "held")
  /\ UNCHANGED <<current, tries, fails>>
RecoveryFails(l) ==
  /\ At(l, "recover") /\ Fails
  /\ block' = [block EXCEPT ![B(l)] = Closed(@)] /\ entry' = [entry EXCEPT ![Here(l)] = Nil]
  /\ Goto(l, "unpin") /\ UNCHANGED <<current, tries>>
-------------------------------------------------------------------------------
(* ~WebWriterLease(): the token, then the pin, then a drain, then the state.   *)
Destroy(l) == At(l, "held") /\ Quiet(Here(l)) /\ Goto(l, "release") /\ UNCHANGED <<block, entry, current, tries, fails>>

(* Mutant: the owner's last token schedules no drain.                          *)
ReleasedUnwatched(e) == IF e.delegated /\ e.refs = 1 THEN Nil ELSE [e EXCEPT !.refs = @ - 1]

Released(e) ==
  IF e.refs # 1 THEN [e EXCEPT !.refs = @ - 1]
  ELSE IF e.delegated THEN Nil ELSE [e EXCEPT !.refs = 0, !.timer = TRUE]
Release(l) ==
  /\ At(l, "release")
  /\ entry' = IF block[B(l)].lock = "closed" THEN entry ELSE [entry EXCEPT ![Here(l)] = Released(@)]
  /\ Goto(l, "unpin") /\ UNCHANGED <<block, current, tries, fails>>
Unpin(l) ==
  /\ At(l, "unpin")
  /\ LET w == block[B(l)] IN
       /\ block' = [block EXCEPT ![B(l)] =
            IF w.refs = 0 THEN [w EXCEPT !.debt = TRUE]
            ELSE IF w.refs = 1 THEN [w EXCEPT !.refs = 0, !.sealed = TRUE] ELSE [w EXCEPT !.refs = w.refs - 1]]
       /\ Goto(l, IF w.refs # 0 /\ Remote(l) THEN "retire" ELSE "drain")
  /\ UNCHANGED <<entry, current, tries, fails>>
Retire(l) ==
  /\ At(l, "retire")
  /\ block' = [block EXCEPT ![B(l)].remote = @ - 1] /\ Goto(l, "drain")
  /\ UNCHANGED <<entry, current, tries, fails>>
DrainOwn(l) == At(l, "drain") /\ ~Draining(Here(l)) /\ Goto(l, "drop") /\ UNCHANGED <<block, entry, current, tries, fails>>

(* The shared pointer: the last one gives up the C++ memory reference.         *)
Drop(l) ==
  /\ At(l, "drop")
  /\ slot' = [slot EXCEPT ![l] = Idle]
  /\ block' = IF Pointed(B(l), l) THEN block
              ELSE [block EXCEPT ![B(l)] = Forgotten(@)]
  /\ UNCHANGED <<entry, current, tries, fails>>

(* A lease destroyed in another realm keeps its pin and owes a cleanup.        *)
DestroyElsewhere(l) ==
  /\ At(l, "held") /\ Fails
  /\ block' = IF block[B(l)].lock = "closed" THEN block ELSE [block EXCEPT ![B(l)].debt = TRUE]
  /\ Goto(l, IF block[B(l)].lock = "closed" THEN "unpin" ELSE "drop")
  /\ UNCHANGED <<entry, current, tries>>

(* releaseAllWriters(): a realm that ends seals its lock and drains it.        *)
Terminate(r) ==
  /\ Quiet(r) /\ entry[r] # Nil /\ ~entry[r].delegated /\ ~block[entry[r].b].terminal /\ Fails
  /\ LET w == [block[entry[r].b] EXCEPT !.sealed = TRUE, !.terminal = TRUE] IN
       /\ block' = [block EXCEPT ![entry[r].b] = IF Drainable(w) THEN Closed(w) ELSE w]
       /\ entry' = IF Drainable(w) THEN [entry EXCEPT ![r] = Nil] ELSE entry
  /\ UNCHANGED <<slot, current, tries>>

Acquiring(l) == Check(l) \/ Pin(l) \/ Unreserve(l) \/ Enter(l) \/ Borrow(l) \/ Open(l) \/ Recover(l)
Releasing(l) == Destroy(l) \/ Release(l) \/ Unpin(l) \/ Retire(l) \/ DrainOwn(l) \/ Drop(l)
Next ==
  \/ \E l \in Slots : Find(l) \/ Acquiring(l) \/ Releasing(l) \/ RecoveryFails(l) \/ DestroyElsewhere(l)
  \/ \E r \in Realms : Drain(r) \/ Terminate(r)
Spec == Init /\ [][Next]_vars
FairSpec ==
  /\ Spec /\ \A r \in Realms : WF_vars(Drain(r))
  /\ \A l \in Slots : WF_vars(Acquiring(l)) /\ WF_vars(Releasing(l) /\ ~At(l, "held")) /\ WF_vars(Destroy(l))
-------------------------------------------------------------------------------
(* A lease writes only under the open lock: none is closed under a borrower,   *)
(* and under its owner only when the owner's realm ends.                       *)
OpenWhileHeld ==
  \A l \in Slots : slot[l].pc \in {"held", "release"} => block[B(l)].lock = "open" \/ (block[B(l)].terminal /\ ~Remote(l))

(* The shared counters are freed only when neither a lease, an acquisition nor *)
(* a realm's own table still reads them.                                       *)
NoDangling ==
  \A b \in Blocks : block[b].state = "freed" => (\A l \in Slots : B(l) # b) /\ \A r \in Realms : entry[r] = Nil \/ entry[r].b # b

(* Neither the lock nor the counters go away under a lease that uses them.     *)
HeldIsOpen == OpenWhileHeld /\ NoDangling

(* With no debts and once nobody asks any more, every generation is closed and *)
(* freed, so a later acquisition, in whatever realm, finds the lock free.      *)
EveryBlockFreed == \A b \in Blocks : [](block[b].state = "live" => <>(block[b].state = "freed"))
===============================================================================
