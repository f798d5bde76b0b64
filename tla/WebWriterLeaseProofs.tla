------------------------- MODULE WebWriterLeaseProofs -------------------------
(* No lock is closed and no counters are freed under a lease, for every number *)
(* of realms, leases and acquisitions, whichever realms end or fail.           *)
EXTENDS WebWriterLease, FiniteSetTheorems, TLAPS

Pcs == {"idle", "check", "pin", "unreserve", "enter", "borrow", "open", "recover",
        "held", "release", "unpin", "retire", "drain", "drop"}
Pinning == {"enter", "borrow", "open", "recover", "held", "release", "unpin"}
Reserving == Pinning \cup {"pin", "unreserve", "retire"}
Holding == {"held", "release"}
(* The steps in which a realm is inside one acquisition or release.            *)
Busy == {"check", "pin", "unreserve", "enter", "borrow", "open", "recover", "release"}

BlockType ==
  [owner : Realms \cup {Nil}, refs : Nat, sealed : BOOLEAN, remote : Nat, debt : BOOLEAN, terminal : BOOLEAN,
   acquired : BOOLEAN, lock : {"none", "open", "closed"}, memory : Nat, state : {"unused", "live", "freed"}]
EntryType == [b : Blocks, refs : Nat, delegated : BOOLEAN, timer : BOOLEAN]
SlotType == [pc : Pcs, b : Blocks \cup {0}, initial : BOOLEAN]
TypeInv ==
  /\ block \in [Blocks -> BlockType] /\ entry \in [Realms -> EntryType \cup {Nil}]
  /\ slot \in [Slots -> SlotType] /\ current \in Blocks \cup {0}

(* Who pins a block, who borrows it from another realm, whose token a realm's  *)
(* entry counts, and who points to it at all.                                  *)
Pinned(b) == {l \in Slots : slot[l].b = b /\ slot[l].pc \in Pinning}
Reserved(b) == {l \in Slots : slot[l].b = b /\ slot[l].pc \in Reserving /\ RealmOf[l] # block[b].owner}
Holders(r, b) == {l \in Slots : RealmOf[l] = r /\ slot[l].b = b /\ slot[l].pc \in Holding}
NoPointer(b) == \A l \in Slots : slot[l].b # b

(* The shared counters count at least the leases: a lease destroyed elsewhere  *)
(* leaves its pin behind.                                                      *)
CountInv == \A b \in Blocks : block[b].refs >= Cardinality(Pinned(b)) /\ block[b].remote >= Cardinality(Reserved(b))

(* A realm is in one acquisition or release at a time, and a block is opened   *)
(* by one lease only.                                                          *)
AloneInv ==
  \A l, k \in Slots :
    /\ slot[l].pc \in Busy /\ slot[k].pc \in Busy /\ RealmOf[l] = RealmOf[k] => l = k
    /\ slot[l].initial /\ slot[k].initial /\ slot[l].b = slot[k].b => l = k

(* Where a lease is tells what it found on the way.                            *)
Phase(l) ==
  LET s == slot[l]
      w == block[s.b]
      e == entry[RealmOf[l]]
  IN  /\ s.pc = "idle" => s.b = 0 /\ ~s.initial
      /\ s.pc # "idle" =>
           /\ s.b \in Blocks
           /\ s.initial => w.owner = RealmOf[l] /\ s.pc \notin {"check", "pin", "unreserve", "borrow", "retire"}
           /\ s.pc \in {"open", "recover"} => s.initial
           /\ s.pc \in {"unreserve", "retire"} => w.owner # RealmOf[l]
           /\ s.pc \in Reserving /\ ~s.initial => w.acquired
           /\ s.pc \in Holding => w.acquired
           /\ s.pc \in {"enter", "open"} /\ s.initial => w.lock = "none"
           /\ s.pc = "recover" =>
                w.lock = "open" /\ ~w.acquired /\ ~w.terminal /\ e # Nil /\ e.b = s.b /\ ~e.delegated
           /\ s.pc \in {"open", "borrow"} => e = Nil
           /\ s.pc \in Holding /\ w.lock # "closed" => e # Nil /\ e.b = s.b
PhaseInv == \A l \in Slots : Phase(l)

(* The words of a block: the memory counts the C++ state and the open lock.    *)
Words(b) ==
  LET w == block[b]
  IN  /\ w.state = "unused" => NoPointer(b) /\ w.lock = "none" /\ ~w.acquired /\ ~w.debt
      /\ w.state = "freed" => NoPointer(b) /\ w.lock # "open"
      /\ w.state # "unused" => w.memory = (IF NoPointer(b) THEN 0 ELSE 1) + (IF w.lock = "open" THEN 1 ELSE 0)
      /\ w.acquired \/ w.terminal => w.lock # "none"
      /\ w.debt => w.acquired
      /\ w.lock = "open" => w.owner \in Realms /\ entry[w.owner] # Nil /\ entry[w.owner].b = b /\ ~entry[w.owner].delegated
BlockInv == \A b \in Blocks : Words(b)

(* A realm's entry stands for an open lock; it counts the tokens of the realm, *)
(* a borrower's entry exactly so unless a cleanup is owed.                     *)
Tokens(r) ==
  LET e == entry[r]
      w == block[e.b]
      n == Cardinality(Holders(r, e.b))
  IN  e # Nil => /\ w.lock = "open" /\ e.refs >= n
                 /\ ~e.delegated => w.owner = r
                 /\ e.delegated => w.owner # r /\ e.refs >= 1 /\ (w.debt \/ e.refs = n)
EntryInv == \A r \in Realms : Tokens(r)

IInv == TypeInv /\ CountInv /\ AloneInv /\ PhaseInv /\ BlockInv /\ EntryInv /\ OpenWhileHeld
-------------------------------------------------------------------------------
(* How the size of a set of leases changes.                                    *)
LEMMA Sizes ==
  ASSUME WriterAssumption, NEW S \in SUBSET Slots, NEW T \in SUBSET Slots, NEW x \in Slots
  PROVE  /\ Cardinality(S) \in Nat /\ Cardinality(T) \in Nat
         /\ S = {} <=> Cardinality(S) = 0
         /\ T \subseteq S => Cardinality(T) <= Cardinality(S)
         /\ T \subseteq S \cup {x} => Cardinality(T) <= Cardinality(S) + 1
         /\ x \in S => Cardinality(S \ {x}) = Cardinality(S) - 1
         /\ x \notin S => Cardinality(S \cup {x}) = Cardinality(S) + 1
         /\ x \in S /\ T \subseteq S \ {x} => Cardinality(T) <= Cardinality(S) - 1
PROOF
<1>1. IsFiniteSet(S) /\ IsFiniteSet(T)
  BY FS_Subset DEF WriterAssumption
<1>2. Cardinality(S) \in Nat /\ Cardinality(T) \in Nat
  BY <1>1, FS_CardinalityType
<1>3. S = {} <=> Cardinality(S) = 0
  BY <1>1, FS_EmptySet
<1>4. T \subseteq S => Cardinality(T) <= Cardinality(S)
  BY <1>1, FS_Subset
<1>5. /\ IsFiniteSet(S \cup {x}) /\ (x \notin S => Cardinality(S \cup {x}) = Cardinality(S) + 1)
      /\ x \in S => Cardinality(S \cup {x}) = Cardinality(S)
  BY <1>1, FS_AddElement
<1>6. IsFiniteSet(S \ {x}) /\ (x \in S => Cardinality(S \ {x}) = Cardinality(S) - 1)
  BY <1>1, FS_RemoveElement
<1>7. T \subseteq S \cup {x} => Cardinality(T) <= Cardinality(S \cup {x})
  BY <1>5, FS_Subset
<1>8. T \subseteq S \ {x} => Cardinality(T) <= Cardinality(S \ {x})
  BY <1>6, FS_Subset
<1>9. Cardinality(S \cup {x}) <= Cardinality(S) + 1
  BY <1>2, <1>5
<1>10. T \subseteq S \cup {x} => Cardinality(T) <= Cardinality(S) + 1
  <2>1. Cardinality(S \cup {x}) \in Nat
    BY <1>5, FS_CardinalityType
  <2> QED
    BY <1>2, <1>7, <1>9, <2>1
<1> QED
  BY <1>2, <1>3, <1>4, <1>5, <1>6, <1>8, <1>10

(* What Goto changes.                                                          *)
LEMMA Moves ==
  ASSUME TypeInv, NEW l \in Slots, NEW pc \in Pcs, Goto(l, pc)
  PROVE  /\ slot' \in [Slots -> SlotType]
         /\ slot'[l].pc = pc /\ slot'[l].b = slot[l].b /\ slot'[l].initial = slot[l].initial
         /\ \A k \in Slots : k # l => slot'[k] = slot[k]
         /\ \A k \in Slots : slot'[k].b = slot[k].b /\ slot'[k].initial = slot[k].initial
PROOF
<1>1. slot \in [Slots -> SlotType]
  BY DEF TypeInv
<1>2. slot[l] \in SlotType
  BY <1>1
<1>3. slot' = [slot EXCEPT ![l] = [slot[l] EXCEPT !.pc = pc]]
  BY DEF Goto
<1>4. [slot[l] EXCEPT !.pc = pc] \in SlotType
  BY <1>2 DEF SlotType
<1>5. /\ [slot[l] EXCEPT !.pc = pc].pc = pc /\ [slot[l] EXCEPT !.pc = pc].b = slot[l].b
      /\ [slot[l] EXCEPT !.pc = pc].initial = slot[l].initial
  BY <1>2 DEF SlotType
<1> QED
  BY <1>1, <1>3, <1>4, <1>5

(* The words that counting leaves alone.                                       *)
Kept(v, w) ==
  /\ v.owner = w.owner /\ v.acquired = w.acquired /\ v.lock = w.lock
  /\ v.memory = w.memory /\ v.state = w.state /\ v.terminal = w.terminal

(* A step of lease l that changes counters at most.                            *)
LEMMA CounterStep ==
  ASSUME WriterAssumption, IInv, NEW l \in Slots, NEW pc \in Pcs, Goto(l, pc), entry' = entry, current' = current,
         block' \in [Blocks -> BlockType], CountInv', Phase(l)',
         \A b \in Blocks : /\ Kept(block'[b], block[b]) /\ (block[b].debt => block'[b].debt)
                           /\ block'[b].debt => block'[b].acquired,
         slot[l].pc # "idle", pc # "idle",
         pc \in Busy => slot[l].pc \in Busy \/ Quiet(RealmOf[l]),
         pc \in Holding => slot[l].pc \in Holding,
         slot[l].pc \in Holding /\ pc \notin Holding => block[slot[l].b].lock = "closed" \/ block'[slot[l].b].debt
  PROVE  IInv'
PROOF
<1>1. /\ TypeInv /\ CountInv /\ AloneInv /\ PhaseInv /\ BlockInv /\ EntryInv /\ OpenWhileHeld
      /\ RealmOf \in [Slots -> Realms] /\ Blocks \subseteq Nat \ {0}
  BY DEF IInv, WriterAssumption
<1>2. /\ slot' \in [Slots -> SlotType]
      /\ slot'[l].pc = pc /\ slot'[l].b = slot[l].b /\ slot'[l].initial = slot[l].initial
      /\ \A k \in Slots : k # l => slot'[k] = slot[k]
      /\ \A k \in Slots : slot'[k].b = slot[k].b /\ slot'[k].initial = slot[k].initial
  BY <1>1, Moves
<1>3. slot[l].b \in Blocks
  BY <1>1 DEF PhaseInv, Phase
<1>4. TypeInv'
  BY <1>1, <1>2 DEF TypeInv
<1>5. AloneInv'
  <2>1. SUFFICES ASSUME NEW j \in Slots, NEW k \in Slots
                 PROVE  /\ slot'[j].pc \in Busy /\ slot'[k].pc \in Busy /\ RealmOf[j] = RealmOf[k] => j = k
                        /\ slot'[j].initial /\ slot'[k].initial /\ slot'[j].b = slot'[k].b => j = k
    BY DEF AloneInv
  <2>2. slot'[j].initial /\ slot'[k].initial /\ slot'[j].b = slot'[k].b => j = k
    BY <1>1, <1>2 DEF AloneInv
  <2>3. ASSUME slot'[j].pc \in Busy, slot'[k].pc \in Busy, RealmOf[j] = RealmOf[k], j # k PROVE FALSE
    <3>1. CASE j # l /\ k # l
      BY <1>1, <1>2, <2>3, <3>1 DEF AloneInv
    <3>2. CASE j = l
      <4>1. pc \in Busy /\ slot[k].pc \in Busy
        BY <1>2, <2>3, <3>2
      <4>2. CASE slot[l].pc \in Busy
        BY <1>1, <2>3, <3>2, <4>1, <4>2 DEF AloneInv
      <4>3. CASE Quiet(RealmOf[l])
        BY <2>3, <3>2, <4>1, <4>3 DEF Quiet, Busy
      <4> QED
        BY <4>1, <4>2, <4>3
    <3>3. CASE k = l
      <4>1. pc \in Busy /\ slot[j].pc \in Busy
        BY <1>2, <2>3, <3>3
      <4>2. CASE slot[l].pc \in Busy
        BY <1>1, <2>3, <3>3, <4>1, <4>2 DEF AloneInv
      <4>3. CASE Quiet(RealmOf[l])
        BY <2>3, <3>3, <4>1, <4>3 DEF Quiet, Busy
      <4> QED
        BY <4>1, <4>2, <4>3
    <3> QED
      BY <3>1, <3>2, <3>3
  <2> QED
    BY <2>2, <2>3
<1>6. PhaseInv'
  <2>1. SUFFICES ASSUME NEW k \in Slots, k # l PROVE Phase(k)'
    BY DEF PhaseInv
  <2>2. slot'[k] = slot[k] /\ Phase(k)
    BY <1>1, <1>2, <2>1 DEF PhaseInv
  <2>3. slot[k].b \in Blocks => Kept(block'[slot[k].b], block[slot[k].b])
    OBVIOUS
  <2> QED
    BY <2>2, <2>3 DEF Phase, Kept
<1>7. BlockInv'
  <2>1. SUFFICES ASSUME NEW b \in Blocks PROVE Words(b)'
    BY DEF BlockInv
  <2>2. NoPointer(b)' <=> NoPointer(b)
    BY <1>2 DEF NoPointer
  <2>3. Words(b) /\ Kept(block'[b], block[b]) /\ (block'[b].debt => block'[b].acquired)
    BY <1>1 DEF BlockInv
  <2>4. block'[b].debt => block'[b].acquired /\ block'[b].state # "unused"
    BY <2>3 DEF Words, Kept
  <2> QED
    BY <2>2, <2>3, <2>4 DEF Words, Kept
<1>8. EntryInv'
  <2>1. SUFFICES ASSUME NEW r \in Realms, entry[r] # Nil PROVE Tokens(r)'
    BY DEF EntryInv, Tokens
  <2> DEFINE b == entry[r].b
             S == Holders(r, b)
             T == {k \in Slots : RealmOf[k] = r /\ slot'[k].b = b /\ slot'[k].pc \in Holding}
  <2>2. b \in Blocks /\ entry[r].refs \in Nat
    BY <1>1, <2>1 DEF TypeInv, EntryType
  <2>3. /\ block[b].lock = "open" /\ entry[r].refs >= Cardinality(S)
        /\ ~entry[r].delegated => block[b].owner = r
        /\ entry[r].delegated => /\ block[b].owner # r /\ entry[r].refs >= 1
                                 /\ block[b].debt \/ entry[r].refs = Cardinality(S)
    BY <1>1, <2>1 DEF EntryInv, Tokens
  <2>4. S \in SUBSET Slots /\ T \in SUBSET Slots /\ T \subseteq S
    BY <1>2 DEF Holders
  <2>5. T = S \/ block'[b].debt
    <3>1. CASE l \in S /\ pc \notin Holding
      BY <2>3, <3>1 DEF Holders
    <3>2. CASE ~(l \in S /\ pc \notin Holding)
      <4>1. S \subseteq T
        BY <1>2, <3>2 DEF Holders
      <4> QED
        BY <2>4, <4>1
    <3> QED
      BY <3>1, <3>2
  <2>6. Cardinality(S) \in Nat /\ Cardinality(T) \in Nat /\ Cardinality(T) <= Cardinality(S)
    BY <2>4, Sizes
  <2>7. Kept(block'[b], block[b]) /\ (block[b].debt => block'[b].debt)
    BY <2>2
  <2>8. Holders(r, b)' = T
    BY DEF Holders
  <2> HIDE DEF S, T
  <2>9. entry[r].refs >= Cardinality(T)
    BY <2>2, <2>3, <2>6
  <2> QED
    BY <2>3, <2>5, <2>7, <2>8, <2>9 DEF Tokens, Kept
<1>9. OpenWhileHeld'
  <2>1. SUFFICES ASSUME NEW k \in Slots, slot'[k].pc \in {"held", "release"}
                 PROVE  block'[slot'[k].b].lock = "open" \/ (block'[slot'[k].b].terminal /\ block'[slot'[k].b].owner = RealmOf[k])
    BY DEF OpenWhileHeld, B, Remote, Here
  <2>2. slot[k].pc \in {"held", "release"} /\ slot'[k].b = slot[k].b
    BY <1>2, <2>1 DEF Holding
  <2>3. slot[k].b \in Blocks
    BY <1>1, <2>2 DEF PhaseInv, Phase
  <2>4. block[slot[k].b].lock = "open" \/ (block[slot[k].b].terminal /\ block[slot[k].b].owner = RealmOf[k])
    BY <1>1, <2>2 DEF OpenWhileHeld, B, Remote, Here
  <2>5. Kept(block'[slot[k].b], block[slot[k].b])
    BY <2>3
  <2> QED
    BY <2>2, <2>4, <2>5 DEF Kept
<1> QED
  BY <1>4, <1>5, <1>6, <1>7, <1>8, <1>9 DEF IInv

(* The counters still cover the leases when those of the block of lease l move *)
(* with it.                                                                    *)
LEMMA CountStep ==
  ASSUME WriterAssumption, IInv, NEW l \in Slots, NEW pc \in Pcs, Goto(l, pc), slot[l].pc # "idle",
         block' \in [Blocks -> BlockType],
         \A b \in Blocks : /\ block'[b].owner = block[b].owner
                           /\ b # slot[l].b => block'[b].refs = block[b].refs /\ block'[b].remote = block[b].remote,
         LET v == block'[slot[l].b]
             w == block[slot[l].b]
             p == slot[l].pc
         IN  /\ \/ v.refs = w.refs + 1
                \/ v.refs = w.refs /\ (pc \in Pinning => p \in Pinning)
                \/ v.refs = w.refs - 1 /\ p \in Pinning /\ pc \notin Pinning
             /\ \/ v.remote = w.remote + 1
                \/ v.remote = w.remote /\ (pc \in Reserving /\ w.owner # RealmOf[l] => p \in Reserving)
                \/ v.remote = w.remote - 1 /\ p \in Reserving /\ w.owner # RealmOf[l] /\ pc \notin Reserving
  PROVE  CountInv'
PROOF
<1>1. TypeInv /\ CountInv /\ PhaseInv
  BY DEF IInv
<1>2. /\ slot'[l].pc = pc /\ slot'[l].b = slot[l].b
      /\ \A k \in Slots : k # l => slot'[k] = slot[k]
  BY <1>1, Moves
<1>3. slot[l].b \in Blocks
  BY <1>1 DEF PhaseInv, Phase
<1>4. SUFFICES ASSUME NEW b \in Blocks
               PROVE  /\ block'[b].refs >= Cardinality(Pinned(b)')
                      /\ block'[b].remote >= Cardinality(Reserved(b)')
  BY DEF CountInv
<1> DEFINE P == Pinned(b)
           Q == Pinned(b)'
           R == Reserved(b)
           S == Reserved(b)'
<1>5. P \in SUBSET Slots /\ Q \in SUBSET Slots /\ R \in SUBSET Slots /\ S \in SUBSET Slots
  BY DEF Pinned, Reserved
<1>6. /\ block[b].refs \in Nat /\ block[b].remote \in Nat /\ block'[b].refs \in Nat /\ block'[b].remote \in Nat
      /\ block[b].refs >= Cardinality(P) /\ block[b].remote >= Cardinality(R)
  BY <1>1 DEF TypeInv, BlockType, CountInv
<1>7. /\ Cardinality(P) \in Nat /\ Cardinality(Q) \in Nat
      /\ Q \subseteq P => Cardinality(Q) <= Cardinality(P)
      /\ Q \subseteq P \cup {l} => Cardinality(Q) <= Cardinality(P) + 1
      /\ l \in P /\ Q \subseteq P \ {l} => Cardinality(Q) <= Cardinality(P) - 1
  BY <1>5, Sizes
<1>8. /\ Cardinality(R) \in Nat /\ Cardinality(S) \in Nat
      /\ S \subseteq R => Cardinality(S) <= Cardinality(R)
      /\ S \subseteq R \cup {l} => Cardinality(S) <= Cardinality(R) + 1
      /\ l \in R /\ S \subseteq R \ {l} => Cardinality(S) <= Cardinality(R) - 1
  BY <1>5, Sizes
<1>9. CASE b # slot[l].b
  <2>1. Q \subseteq P /\ S \subseteq R
    BY <1>2, <1>9 DEF Pinned, Reserved
  <2>2. block'[b].refs = block[b].refs /\ block'[b].remote = block[b].remote
    BY <1>9
  <2> HIDE DEF P, Q, R, S
  <2>3. block'[b].refs >= Cardinality(Q) /\ block'[b].remote >= Cardinality(S)
    BY <1>6, <1>7, <1>8, <2>1, <2>2
  <2> QED
    BY <2>3 DEF Q, S
<1>10. CASE b = slot[l].b
  <2>1. Q \subseteq P \cup {l} /\ S \subseteq R \cup {l}
    BY <1>2 DEF Pinned, Reserved
  <2>2. /\ (pc \in Pinning => slot[l].pc \in Pinning) => Q \subseteq P
        /\ slot[l].pc \in Pinning /\ pc \notin Pinning => l \in P /\ Q \subseteq P \ {l}
    BY <1>2, <1>10 DEF Pinned
  <2>3. /\ (pc \in Reserving /\ block[b].owner # RealmOf[l] => slot[l].pc \in Reserving) => S \subseteq R
        /\ slot[l].pc \in Reserving /\ block[b].owner # RealmOf[l] /\ pc \notin Reserving => l \in R /\ S \subseteq R \ {l}
    BY <1>2, <1>10 DEF Reserved
  <2>4. \/ block'[b].refs = block[b].refs + 1
        \/ block'[b].refs = block[b].refs /\ Q \subseteq P
        \/ block'[b].refs = block[b].refs - 1 /\ l \in P /\ Q \subseteq P \ {l}
    BY <1>10, <2>2
  <2>5. \/ block'[b].remote = block[b].remote + 1
        \/ block'[b].remote = block[b].remote /\ S \subseteq R
        \/ block'[b].remote = block[b].remote - 1 /\ l \in R /\ S \subseteq R \ {l}
    BY <1>10, <2>3
  <2> HIDE DEF P, Q, R, S
  <2>6. block'[b].refs >= Cardinality(Q)
    BY <1>6, <1>7, <2>1, <2>4
  <2>7. block'[b].remote >= Cardinality(S)
    BY <1>6, <1>8, <2>1, <2>5
  <2> QED
    BY <2>6, <2>7 DEF Q, S
<1> QED
  BY <1>9, <1>10

(* A lease that pins or borrows a block is counted there.                      *)
LEMMA Counted ==
  ASSUME WriterAssumption, IInv, NEW l \in Slots, slot[l].pc # "idle"
  PROVE  /\ slot[l].b \in Blocks /\ block[slot[l].b] \in BlockType
         /\ slot[l].pc \in Pinning => block[slot[l].b].refs >= 1
         /\ slot[l].pc \in Reserving /\ block[slot[l].b].owner # RealmOf[l] => block[slot[l].b].remote >= 1
PROOF
<1> DEFINE b == slot[l].b
           P == Pinned(b)
           R == Reserved(b)
<1>1. b \in Blocks /\ block[b] \in BlockType
  BY DEF IInv, PhaseInv, Phase, TypeInv
<1>2. /\ block[b].refs \in Nat /\ block[b].remote \in Nat
      /\ block[b].refs >= Cardinality(P) /\ block[b].remote >= Cardinality(R)
  BY <1>1 DEF IInv, CountInv, BlockType
<1>3. P \in SUBSET Slots /\ R \in SUBSET Slots
  BY DEF Pinned, Reserved
<1>4. /\ Cardinality(P) \in Nat /\ (P = {} <=> Cardinality(P) = 0)
      /\ Cardinality(R) \in Nat /\ (R = {} <=> Cardinality(R) = 0)
  BY <1>3, Sizes
<1>5. /\ slot[l].pc \in Pinning => P # {}
      /\ slot[l].pc \in Reserving /\ block[b].owner # RealmOf[l] => R # {}
  BY DEF Pinned, Reserved
<1> HIDE DEF P, R
<1>6. slot[l].pc \in Pinning => block[b].refs >= 1
  BY <1>2, <1>4, <1>5
<1>7. slot[l].pc \in Reserving /\ block[b].owner # RealmOf[l] => block[b].remote >= 1
  BY <1>2, <1>4, <1>5
<1> QED
  BY <1>1, <1>6, <1>7
-------------------------------------------------------------------------------
(* The steps that leave all blocks alone, apart from the ends of entries.      *)
LEMMA QuietStep ==
  ASSUME WriterAssumption, IInv, NEW l \in Slots, NEW pc \in Pcs, Goto(l, pc), entry' = entry, current' = current,
         block' = block, Phase(l)', slot[l].pc # "idle", pc # "idle",
         pc \in Busy => slot[l].pc \in Busy \/ Quiet(RealmOf[l]),
         pc \in Holding <=> slot[l].pc \in Holding,
         pc \in Pinning => slot[l].pc \in Pinning,
         pc \in Reserving /\ block[slot[l].b].owner # RealmOf[l] => slot[l].pc \in Reserving
  PROVE  IInv'
PROOF
<1>1. block' \in [Blocks -> BlockType] /\ \A b \in Blocks : block[b].debt => block[b].acquired
  BY DEF IInv, TypeInv, BlockInv, Words
<1>2. slot[l].b \in Blocks
  BY Counted
<1>3. CountInv'
  BY <1>1, CountStep
<1>4. \A b \in Blocks : Kept(block'[b], block[b])
  BY DEF Kept
<1> QED
  BY <1>1, <1>3, <1>4, CounterStep

LEMMA CheckIInv ==
  ASSUME WriterAssumption, IInv, NEW l \in Slots, Check(l)
  PROVE  IInv'
PROOF
<1> DEFINE b == slot[l].b
           w == block[b]
<1>1. slot[l].pc = "check" /\ entry' = entry /\ current' = current
  BY DEF Check, At
<1>2. b \in Blocks /\ w \in BlockType /\ Phase(l) /\ TypeInv /\ ~slot[l].initial
  BY <1>1, Counted DEF IInv, PhaseInv, Phase
<1>3. CASE w.acquired /\ w.owner # RealmOf[l]
  <2>1. Goto(l, "pin") /\ block' = [block EXCEPT ![b] = [w EXCEPT !.remote = w.remote + 1]]
    BY <1>3 DEF Check, Reserve, Remote, B, Here
  <2> DEFINE v == [w EXCEPT !.remote = w.remote + 1]
  <2>2. v \in BlockType /\ Kept(v, w) /\ v.remote = w.remote + 1 /\ v.refs = w.refs /\ v.debt = w.debt
    BY <1>2 DEF BlockType, Kept
  <2> HIDE DEF v
  <2>3. /\ block' \in [Blocks -> BlockType] /\ block'[b] = v
        /\ \A c \in Blocks : c # b => block'[c] = block[c]
    BY <1>2, <2>1, <2>2 DEF TypeInv, v
  <2>4. slot'[l].pc = "pin" /\ slot'[l].b = b /\ slot'[l].initial = slot[l].initial
    BY <1>2, <2>1, Moves DEF Pcs
  <2>5. Phase(l)'
    BY <1>1, <1>2, <1>3, <2>2, <2>3, <2>4 DEF Phase, Kept, Reserving, Pinning, Holding
  <2>6. \A c \in Blocks : /\ Kept(block'[c], block[c]) /\ (block[c].debt => block'[c].debt)
                          /\ block'[c].debt => block'[c].acquired
    BY <2>2, <2>3 DEF Kept, IInv, BlockInv, Words
  <2>7. CountInv'
    BY <1>1, <2>1, <2>2, <2>3, <2>6, CountStep DEF Pcs, Pinning, Kept
  <2> QED
    BY <1>1, <2>1, <2>3, <2>5, <2>6, <2>7, CounterStep DEF Pcs, Busy, Holding
<1>4. CASE w.acquired /\ w.owner = RealmOf[l]
  <2>1. Goto(l, "pin") /\ block' = block
    BY <1>4 DEF Check, Reserve, Remote, B, Here
  <2>2. slot'[l].pc = "pin" /\ slot'[l].b = b /\ slot'[l].initial = slot[l].initial
    BY <1>2, <2>1, Moves DEF Pcs
  <2>3. Phase(l)'
    BY <1>1, <1>2, <1>4, <2>1, <2>2 DEF Phase, Reserving, Pinning, Holding
  <2> QED
    BY <1>1, <1>4, <2>1, <2>3, QuietStep DEF Pcs, Busy, Holding, Pinning
<1>5. CASE ~w.acquired
  <2>1. Goto(l, "drop") /\ block' = block
    BY <1>5 DEF Check, B
  <2>2. slot'[l].pc = "drop" /\ slot'[l].b = b /\ slot'[l].initial = slot[l].initial
    BY <1>2, <2>1, Moves DEF Pcs
  <2>3. Phase(l)'
    BY <1>1, <1>2, <2>1, <2>2 DEF Phase, Reserving, Pinning, Holding
  <2> QED
    BY <1>1, <2>1, <2>3, QuietStep DEF Pcs, Busy, Holding, Pinning, Reserving
<1> QED
  BY <1>3, <1>4, <1>5

LEMMA PinIInv ==
  ASSUME WriterAssumption, IInv, NEW l \in Slots, Pin(l)
  PROVE  IInv'
PROOF
<1> DEFINE b == slot[l].b
           w == block[b]
<1>1. slot[l].pc = "pin" /\ current' = current
  BY DEF Pin, At
<1>2. /\ b \in Blocks /\ w \in BlockType /\ Phase(l) /\ TypeInv
      /\ w.refs \in Nat /\ w.remote \in Nat
  BY <1>1, Counted DEF IInv, PhaseInv, BlockType
<1>3. CASE ~w.sealed /\ w.refs # 0
  <2> DEFINE v == [w EXCEPT !.refs = w.refs + 1]
  <2>1. Goto(l, "enter") /\ block' = [block EXCEPT ![b] = v] /\ entry' = entry
    BY <1>1, <1>2, <1>3 DEF Pin, B
  <2>2. v \in BlockType /\ Kept(v, w) /\ v.refs = w.refs + 1 /\ v.remote = w.remote /\ v.debt = w.debt
    BY <1>2, <1>3 DEF BlockType, Kept, Phase
  <2> HIDE DEF v
  <2>3. /\ block' \in [Blocks -> BlockType] /\ block'[b] = v
        /\ \A c \in Blocks : c # b => block'[c] = block[c]
    BY <1>2, <2>1, <2>2 DEF TypeInv
  <2>4. slot'[l].pc = "enter" /\ slot'[l].b = b /\ slot'[l].initial = slot[l].initial
    BY <1>2, <2>1, Moves DEF Pcs
  <2>5. Phase(l)'
    BY <1>1, <1>2, <1>3, <2>1, <2>2, <2>3, <2>4 DEF Phase, Kept, Reserving, Pinning, Holding
  <2>6. \A c \in Blocks : /\ Kept(block'[c], block[c]) /\ (block[c].debt => block'[c].debt)
                          /\ block'[c].debt => block'[c].acquired
    BY <1>1, <1>2, <2>2, <2>3 DEF Kept, IInv, BlockInv, Words, Phase, Holding
  <2>7. CountInv'
    BY <1>1, <1>2, <1>3, <2>1, <2>2, <2>3, <2>6, CountStep DEF Pcs, Pinning, Reserving, Kept, Phase
  <2> QED
    BY <1>1, <1>2, <2>1, <2>2, <2>3, <2>5, <2>6, <2>7, CounterStep DEF Pcs, Busy, Holding
<1>4. CASE ~(~w.sealed /\ w.refs # 0) /\ w.owner # RealmOf[l]
  <2>1. Goto(l, "unreserve") /\ block' = block /\ entry' = entry
    BY <1>1, <1>2, <1>4 DEF Pin, B, Remote, Here
  <2>2. slot'[l].pc = "unreserve" /\ slot'[l].b = b /\ slot'[l].initial = slot[l].initial
    BY <1>2, <2>1, Moves DEF Pcs
  <2>3. Phase(l)'
    BY <1>1, <1>2, <1>4, <2>1, <2>2 DEF Phase, Reserving, Pinning, Holding
  <2> QED
    BY <1>1, <1>2, <1>4, <2>1, <2>3, QuietStep DEF Pcs, Busy, Holding, Pinning, Reserving
<1>5. CASE ~(~w.sealed /\ w.refs # 0) /\ w.owner = RealmOf[l]
  <2>1. Goto(l, "drop") /\ block' = block /\ entry' = entry
    BY <1>1, <1>2, <1>5 DEF Pin, B, Remote, Here
  <2>2. slot'[l].pc = "drop" /\ slot'[l].b = b /\ slot'[l].initial = slot[l].initial
    BY <1>2, <2>1, Moves DEF Pcs
  <2>3. Phase(l)'
    BY <1>1, <1>2, <1>5, <2>1, <2>2 DEF Phase, Reserving, Pinning, Holding
  <2> QED
    BY <1>1, <1>2, <1>5, <2>1, <2>3, QuietStep DEF Pcs, Busy, Holding, Pinning, Reserving
<1> QED
  BY <1>3, <1>4, <1>5

LEMMA UnreserveIInv ==
  ASSUME WriterAssumption, IInv, NEW l \in Slots, Unreserve(l)
  PROVE  IInv'
PROOF
<1> DEFINE b == slot[l].b
           w == block[b]
<1>1. slot[l].pc = "unreserve" /\ current' = current
  BY DEF Unreserve, At
<1>2. /\ b \in Blocks /\ w \in BlockType /\ Phase(l) /\ TypeInv
      /\ w.refs \in Nat /\ w.remote \in Nat /\ w.remote >= 1 /\ w.owner # RealmOf[l]
  BY <1>1, Counted DEF IInv, PhaseInv, Phase, BlockType, Reserving
<1>3. IInv'
  <2> DEFINE v == [w EXCEPT !.remote = w.remote - 1]
  <2>1. Goto(l, "drop") /\ block' = [block EXCEPT ![b] = v] /\ entry' = entry
    BY <1>1, <1>2 DEF Unreserve, B
  <2>2. v \in BlockType /\ Kept(v, w) /\ v.refs = w.refs /\ v.remote = w.remote - 1 /\ v.debt = w.debt
    BY <1>2 DEF BlockType, Kept, Phase
  <2> HIDE DEF v
  <2>3. /\ block' \in [Blocks -> BlockType] /\ block'[b] = v
        /\ \A c \in Blocks : c # b => block'[c] = block[c]
    BY <1>2, <2>1, <2>2 DEF TypeInv
  <2>4. slot'[l].pc = "drop" /\ slot'[l].b = b /\ slot'[l].initial = slot[l].initial
    BY <1>2, <2>1, Moves DEF Pcs
  <2>5. Phase(l)'
    BY <1>1, <1>2, <2>1, <2>2, <2>3, <2>4 DEF Phase, Kept, Reserving, Pinning, Holding
  <2>6. \A c \in Blocks : /\ Kept(block'[c], block[c]) /\ (block[c].debt => block'[c].debt)
                          /\ block'[c].debt => block'[c].acquired
    BY <1>1, <1>2, <2>2, <2>3 DEF Kept, IInv, BlockInv, Words, Phase, Holding
  <2>7. CountInv'
    BY <1>1, <1>2, <2>1, <2>2, <2>3, <2>6, CountStep DEF Pcs, Pinning, Reserving, Kept, Phase
  <2> QED
    BY <1>1, <1>2, <2>1, <2>2, <2>3, <2>5, <2>6, <2>7, CounterStep DEF Pcs, Busy, Holding
<1> QED
  BY <1>3

LEMMA UnpinIInv ==
  ASSUME WriterAssumption, IInv, NEW l \in Slots, Unpin(l)
  PROVE  IInv'
PROOF
<1> DEFINE b == slot[l].b
           w == block[b]
<1>1. slot[l].pc = "unpin" /\ current' = current
  BY DEF Unpin, At
<1>2. /\ b \in Blocks /\ w \in BlockType /\ Phase(l) /\ TypeInv
      /\ w.refs \in Nat /\ w.remote \in Nat /\ w.refs >= 1
  BY <1>1, Counted DEF IInv, PhaseInv, BlockType, Pinning
<1>3. CASE w.refs = 1 /\ w.owner # RealmOf[l]
  <2> DEFINE v == [w EXCEPT !.refs = 0, !.sealed = TRUE]
  <2>1. Goto(l, "retire") /\ block' = [block EXCEPT ![b] = v] /\ entry' = entry
    BY <1>1, <1>2, <1>3 DEF Unpin, B, Remote, Here
  <2>2. v \in BlockType /\ Kept(v, w) /\ v.refs = w.refs - 1 /\ v.remote = w.remote /\ v.debt = w.debt
    <3>1. v \in BlockType
      BY <1>2 DEF BlockType
    <3>2. Kept(v, w) /\ v.refs = 0 /\ v.remote = w.remote /\ v.debt = w.debt
      BY <1>2 DEF BlockType, Kept
    <3>3. 0 = w.refs - 1
      BY <1>3
    <3> QED
      BY <3>1, <3>2, <3>3
  <2> HIDE DEF v
  <2>3. /\ block' \in [Blocks -> BlockType] /\ block'[b] = v
        /\ \A c \in Blocks : c # b => block'[c] = block[c]
    BY <1>2, <2>1, <2>2 DEF TypeInv
  <2>4. slot'[l].pc = "retire" /\ slot'[l].b = b /\ slot'[l].initial = slot[l].initial
    BY <1>2, <2>1, Moves DEF Pcs
  <2>5. Phase(l)'
    BY <1>1, <1>2, <1>3, <2>1, <2>2, <2>3, <2>4 DEF Phase, Kept, Reserving, Pinning, Holding
  <2>6. \A c \in Blocks : /\ Kept(block'[c], block[c]) /\ (block[c].debt => block'[c].debt)
                          /\ block'[c].debt => block'[c].acquired
    BY <1>1, <1>2, <2>2, <2>3 DEF Kept, IInv, BlockInv, Words, Phase, Holding
  <2>7. CountInv'
    BY <1>1, <1>2, <1>3, <2>1, <2>2, <2>3, <2>6, CountStep DEF Pcs, Pinning, Reserving, Kept, Phase
  <2> QED
    BY <1>1, <1>2, <2>1, <2>2, <2>3, <2>5, <2>6, <2>7, CounterStep DEF Pcs, Busy, Holding
<1>4. CASE w.refs = 1 /\ w.owner = RealmOf[l]
  <2> DEFINE v == [w EXCEPT !.refs = 0, !.sealed = TRUE]
  <2>1. Goto(l, "drain") /\ block' = [block EXCEPT ![b] = v] /\ entry' = entry
    BY <1>1, <1>2, <1>4 DEF Unpin, B, Remote, Here
  <2>2. v \in BlockType /\ Kept(v, w) /\ v.refs = w.refs - 1 /\ v.remote = w.remote /\ v.debt = w.debt
    <3>1. v \in BlockType
      BY <1>2 DEF BlockType
    <3>2. Kept(v, w) /\ v.refs = 0 /\ v.remote = w.remote /\ v.debt = w.debt
      BY <1>2 DEF BlockType, Kept
    <3>3. 0 = w.refs - 1
      BY <1>4
    <3> QED
      BY <3>1, <3>2, <3>3
  <2> HIDE DEF v
  <2>3. /\ block' \in [Blocks -> BlockType] /\ block'[b] = v
        /\ \A c \in Blocks : c # b => block'[c] = block[c]
    BY <1>2, <2>1, <2>2 DEF TypeInv
  <2>4. slot'[l].pc = "drain" /\ slot'[l].b = b /\ slot'[l].initial = slot[l].initial
    BY <1>2, <2>1, Moves DEF Pcs
  <2>5. Phase(l)'
    BY <1>1, <1>2, <1>4, <2>1, <2>2, <2>3, <2>4 DEF Phase, Kept, Reserving, Pinning, Holding
  <2>6. \A c \in Blocks : /\ Kept(block'[c], block[c]) /\ (block[c].debt => block'[c].debt)
                          /\ block'[c].debt => block'[c].acquired
    BY <1>1, <1>2, <2>2, <2>3 DEF Kept, IInv, BlockInv, Words, Phase, Holding
  <2>7. CountInv'
    BY <1>1, <1>2, <1>4, <2>1, <2>2, <2>3, <2>6, CountStep DEF Pcs, Pinning, Reserving, Kept, Phase
  <2> QED
    BY <1>1, <1>2, <2>1, <2>2, <2>3, <2>5, <2>6, <2>7, CounterStep DEF Pcs, Busy, Holding
<1>5. CASE w.refs # 1 /\ w.owner # RealmOf[l]
  <2> DEFINE v == [w EXCEPT !.refs = w.refs - 1]
  <2>1. Goto(l, "retire") /\ block' = [block EXCEPT ![b] = v] /\ entry' = entry
    <3>1. w.refs # 0 /\ w.refs # 1
      BY <1>2, <1>5
    <3>2. /\ entry' = entry /\ Goto(l, IF w.refs # 0 /\ Remote(l) THEN "retire" ELSE "drain")
          /\ block' = [block EXCEPT ![b] =
                         IF w.refs = 0 THEN [w EXCEPT !.debt = TRUE]
                         ELSE IF w.refs = 1 THEN [w EXCEPT !.refs = 0, !.sealed = TRUE] ELSE [w EXCEPT !.refs = w.refs - 1]]
      BY DEF Unpin, B
    <3> QED
      BY <1>5, <3>1, <3>2 DEF B, Remote, Here
  <2>2. v \in BlockType /\ Kept(v, w) /\ v.refs = w.refs - 1 /\ v.remote = w.remote /\ v.debt = w.debt
    BY <1>2, <1>5 DEF BlockType, Kept, Phase
  <2> HIDE DEF v
  <2>3. /\ block' \in [Blocks -> BlockType] /\ block'[b] = v
        /\ \A c \in Blocks : c # b => block'[c] = block[c]
    BY <1>2, <2>1, <2>2 DEF TypeInv
  <2>4. slot'[l].pc = "retire" /\ slot'[l].b = b /\ slot'[l].initial = slot[l].initial
    BY <1>2, <2>1, Moves DEF Pcs
  <2>5. Phase(l)'
    BY <1>1, <1>2, <1>5, <2>1, <2>2, <2>3, <2>4 DEF Phase, Kept, Reserving, Pinning, Holding
  <2>6. \A c \in Blocks : /\ Kept(block'[c], block[c]) /\ (block[c].debt => block'[c].debt)
                          /\ block'[c].debt => block'[c].acquired
    BY <1>1, <1>2, <2>2, <2>3 DEF Kept, IInv, BlockInv, Words, Phase, Holding
  <2>7. CountInv'
    BY <1>1, <1>2, <1>5, <2>1, <2>2, <2>3, <2>6, CountStep DEF Pcs, Pinning, Reserving, Kept, Phase
  <2> QED
    BY <1>1, <1>2, <2>1, <2>2, <2>3, <2>5, <2>6, <2>7, CounterStep DEF Pcs, Busy, Holding
<1>6. CASE w.refs # 1 /\ w.owner = RealmOf[l]
  <2> DEFINE v == [w EXCEPT !.refs = w.refs - 1]
  <2>1. Goto(l, "drain") /\ block' = [block EXCEPT ![b] = v] /\ entry' = entry
    <3>1. w.refs # 0 /\ w.refs # 1
      BY <1>2, <1>6
    <3>2. /\ entry' = entry /\ Goto(l, IF w.refs # 0 /\ Remote(l) THEN "retire" ELSE "drain")
          /\ block' = [block EXCEPT ![b] =
                         IF w.refs = 0 THEN [w EXCEPT !.debt = TRUE]
                         ELSE IF w.refs = 1 THEN [w EXCEPT !.refs = 0, !.sealed = TRUE] ELSE [w EXCEPT !.refs = w.refs - 1]]
      BY DEF Unpin, B
    <3> QED
      BY <1>6, <3>1, <3>2 DEF B, Remote, Here
  <2>2. v \in BlockType /\ Kept(v, w) /\ v.refs = w.refs - 1 /\ v.remote = w.remote /\ v.debt = w.debt
    BY <1>2, <1>6 DEF BlockType, Kept, Phase
  <2> HIDE DEF v
  <2>3. /\ block' \in [Blocks -> BlockType] /\ block'[b] = v
        /\ \A c \in Blocks : c # b => block'[c] = block[c]
    BY <1>2, <2>1, <2>2 DEF TypeInv
  <2>4. slot'[l].pc = "drain" /\ slot'[l].b = b /\ slot'[l].initial = slot[l].initial
    BY <1>2, <2>1, Moves DEF Pcs
  <2>5. Phase(l)'
    BY <1>1, <1>2, <1>6, <2>1, <2>2, <2>3, <2>4 DEF Phase, Kept, Reserving, Pinning, Holding
  <2>6. \A c \in Blocks : /\ Kept(block'[c], block[c]) /\ (block[c].debt => block'[c].debt)
                          /\ block'[c].debt => block'[c].acquired
    BY <1>1, <1>2, <2>2, <2>3 DEF Kept, IInv, BlockInv, Words, Phase, Holding
  <2>7. CountInv'
    BY <1>1, <1>2, <1>6, <2>1, <2>2, <2>3, <2>6, CountStep DEF Pcs, Pinning, Reserving, Kept, Phase
  <2> QED
    BY <1>1, <1>2, <2>1, <2>2, <2>3, <2>5, <2>6, <2>7, CounterStep DEF Pcs, Busy, Holding
<1> QED
  BY <1>3, <1>4, <1>5, <1>6

LEMMA RetireIInv ==
  ASSUME WriterAssumption, IInv, NEW l \in Slots, Retire(l)
  PROVE  IInv'
PROOF
<1> DEFINE b == slot[l].b
           w == block[b]
<1>1. slot[l].pc = "retire" /\ current' = current
  BY DEF Retire, At
<1>2. /\ b \in Blocks /\ w \in BlockType /\ Phase(l) /\ TypeInv
      /\ w.refs \in Nat /\ w.remote \in Nat /\ w.remote >= 1 /\ w.owner # RealmOf[l]
  BY <1>1, Counted DEF IInv, PhaseInv, Phase, BlockType, Reserving
<1>3. IInv'
  <2> DEFINE v == [w EXCEPT !.remote = w.remote - 1]
  <2>1. Goto(l, "drain") /\ block' = [block EXCEPT ![b] = v] /\ entry' = entry
    BY <1>1, <1>2 DEF Retire, B
  <2>2. v \in BlockType /\ Kept(v, w) /\ v.refs = w.refs /\ v.remote = w.remote - 1 /\ v.debt = w.debt
    BY <1>2 DEF BlockType, Kept, Phase
  <2> HIDE DEF v
  <2>3. /\ block' \in [Blocks -> BlockType] /\ block'[b] = v
        /\ \A c \in Blocks : c # b => block'[c] = block[c]
    BY <1>2, <2>1, <2>2 DEF TypeInv
  <2>4. slot'[l].pc = "drain" /\ slot'[l].b = b /\ slot'[l].initial = slot[l].initial
    BY <1>2, <2>1, Moves DEF Pcs
  <2>5. Phase(l)'
    BY <1>1, <1>2, <2>1, <2>2, <2>3, <2>4 DEF Phase, Kept, Reserving, Pinning, Holding
  <2>6. \A c \in Blocks : /\ Kept(block'[c], block[c]) /\ (block[c].debt => block'[c].debt)
                          /\ block'[c].debt => block'[c].acquired
    BY <1>1, <1>2, <2>2, <2>3 DEF Kept, IInv, BlockInv, Words, Phase, Holding
  <2>7. CountInv'
    BY <1>1, <1>2, <2>1, <2>2, <2>3, <2>6, CountStep DEF Pcs, Pinning, Reserving, Kept, Phase
  <2> QED
    BY <1>1, <1>2, <2>1, <2>2, <2>3, <2>5, <2>6, <2>7, CounterStep DEF Pcs, Busy, Holding
<1> QED
  BY <1>3

LEMMA DestroyIInv ==
  ASSUME WriterAssumption, IInv, NEW l \in Slots, Destroy(l)
  PROVE  IInv'
PROOF
<1> DEFINE b == slot[l].b
           w == block[b]
<1>1. slot[l].pc = "held" /\ current' = current /\ Quiet(RealmOf[l])
  BY DEF Destroy, At, Here
<1>2. /\ b \in Blocks /\ w \in BlockType /\ Phase(l) /\ TypeInv
      /\ w.refs \in Nat /\ w.remote \in Nat
  BY <1>1, Counted DEF IInv, PhaseInv, BlockType
<1>3. IInv'
  <2>1. Goto(l, "release") /\ block' = block /\ entry' = entry
    BY <1>1, <1>2 DEF Destroy
  <2>2. slot'[l].pc = "release" /\ slot'[l].b = b /\ slot'[l].initial = slot[l].initial
    BY <1>2, <2>1, Moves DEF Pcs
  <2>3. Phase(l)'
    BY <1>1, <1>2, <2>1, <2>2 DEF Phase, Reserving, Pinning, Holding
  <2> QED
    BY <1>1, <1>2, <2>1, <2>3, QuietStep DEF Pcs, Busy, Holding, Pinning, Reserving
<1> QED
  BY <1>3

LEMMA DrainOwnIInv ==
  ASSUME WriterAssumption, IInv, NEW l \in Slots, DrainOwn(l)
  PROVE  IInv'
PROOF
<1> DEFINE b == slot[l].b
           w == block[b]
<1>1. slot[l].pc = "drain" /\ current' = current
  BY DEF DrainOwn, At
<1>2. /\ b \in Blocks /\ w \in BlockType /\ Phase(l) /\ TypeInv
      /\ w.refs \in Nat /\ w.remote \in Nat
  BY <1>1, Counted DEF IInv, PhaseInv, BlockType
<1>3. IInv'
  <2>1. Goto(l, "drop") /\ block' = block /\ entry' = entry
    BY <1>1, <1>2 DEF DrainOwn
  <2>2. slot'[l].pc = "drop" /\ slot'[l].b = b /\ slot'[l].initial = slot[l].initial
    BY <1>2, <2>1, Moves DEF Pcs
  <2>3. Phase(l)'
    BY <1>1, <1>2, <2>1, <2>2 DEF Phase, Reserving, Pinning, Holding
  <2> QED
    BY <1>1, <1>2, <2>1, <2>3, QuietStep DEF Pcs, Busy, Holding, Pinning, Reserving
<1> QED
  BY <1>3

LEMMA DestroyElsewhereIInv ==
  ASSUME WriterAssumption, IInv, NEW l \in Slots, DestroyElsewhere(l)
  PROVE  IInv'
PROOF
<1> DEFINE b == slot[l].b
           w == block[b]
<1>1. slot[l].pc = "held" /\ current' = current
  BY DEF DestroyElsewhere, At
<1>2. /\ b \in Blocks /\ w \in BlockType /\ Phase(l) /\ TypeInv
      /\ w.refs \in Nat /\ w.remote \in Nat
  BY <1>1, Counted DEF IInv, PhaseInv, BlockType
<1>3. CASE w.lock # "closed"
  <2> DEFINE v == [w EXCEPT !.debt = TRUE]
  <2>1. Goto(l, "drop") /\ block' = [block EXCEPT ![b] = v] /\ entry' = entry
    BY <1>1, <1>2, <1>3 DEF DestroyElsewhere, B
  <2>2. v \in BlockType /\ Kept(v, w) /\ v.refs = w.refs /\ v.remote = w.remote /\ v.debt
    BY <1>2, <1>3 DEF BlockType, Kept, Phase
  <2> HIDE DEF v
  <2>3. /\ block' \in [Blocks -> BlockType] /\ block'[b] = v
        /\ \A c \in Blocks : c # b => block'[c] = block[c]
    BY <1>2, <2>1, <2>2 DEF TypeInv
  <2>4. slot'[l].pc = "drop" /\ slot'[l].b = b /\ slot'[l].initial = slot[l].initial
    BY <1>2, <2>1, Moves DEF Pcs
  <2>5. Phase(l)'
    BY <1>1, <1>2, <1>3, <2>1, <2>2, <2>3, <2>4 DEF Phase, Kept, Reserving, Pinning, Holding
  <2>6. \A c \in Blocks : /\ Kept(block'[c], block[c]) /\ (block[c].debt => block'[c].debt)
                          /\ block'[c].debt => block'[c].acquired
    BY <1>1, <1>2, <2>2, <2>3 DEF Kept, IInv, BlockInv, Words, Phase, Holding
  <2>7. CountInv'
    BY <1>1, <1>2, <1>3, <2>1, <2>2, <2>3, <2>6, CountStep DEF Pcs, Pinning, Reserving, Kept, Phase
  <2> QED
    BY <1>1, <1>2, <2>1, <2>2, <2>3, <2>5, <2>6, <2>7, CounterStep DEF Pcs, Busy, Holding
<1>4. CASE w.lock = "closed"
  <2>1. Goto(l, "unpin") /\ block' = block /\ entry' = entry
    BY <1>1, <1>2, <1>4 DEF DestroyElsewhere, B
  <2>2. slot'[l].pc = "unpin" /\ slot'[l].b = b /\ slot'[l].initial = slot[l].initial
    BY <1>2, <2>1, Moves DEF Pcs
  <2>3. Phase(l)'
    BY <1>1, <1>2, <1>4, <2>1, <2>2 DEF Phase, Reserving, Pinning, Holding
  <2>4. \A c \in Blocks : /\ Kept(block'[c], block[c]) /\ (block[c].debt => block'[c].debt)
                          /\ block'[c].debt => block'[c].acquired
    BY <2>1 DEF Kept, IInv, BlockInv, Words
  <2>5. CountInv'
    BY <1>1, <1>2, <2>1, CountStep DEF Pcs, Pinning, Reserving, TypeInv
  <2> QED
    BY <1>1, <1>2, <1>4, <2>1, <2>3, <2>4, <2>5, CounterStep DEF Pcs, Busy, Holding, TypeInv
<1> QED
  BY <1>3, <1>4

-------------------------------------------------------------------------------
(* Steps that change an entry.  First what they leave alone.                   *)
LEMMA AloneStep ==
  ASSUME WriterAssumption, IInv, NEW l \in Slots, NEW pc \in Pcs, Goto(l, pc),
         pc \in Busy => slot[l].pc \in Busy
  PROVE  AloneInv'
PROOF
<1>1. TypeInv /\ AloneInv
  BY DEF IInv
<1>2. /\ slot'[l].pc = pc /\ (\A k \in Slots : k # l => slot'[k] = slot[k])
      /\ \A k \in Slots : slot'[k].b = slot[k].b /\ slot'[k].initial = slot[k].initial
  BY <1>1, Moves
<1>3. \A k \in Slots : slot'[k].pc \in Busy => slot[k].pc \in Busy
  BY <1>2
<1> QED
  BY <1>1, <1>2, <1>3 DEF AloneInv

LEMMA TokensKept ==
  ASSUME TypeInv, NEW r \in Realms, Tokens(r), entry'[r] = entry[r],
         entry[r] # Nil => LET v == block'[entry[r].b]
                               w == block[entry[r].b]
                           IN  v.lock = w.lock /\ v.owner = w.owner /\ v.debt = w.debt,
         \A k \in Slots : RealmOf[k] = r => /\ slot'[k].pc \in Holding <=> slot[k].pc \in Holding
                                            /\ slot[k].pc \in Holding => slot'[k].b = slot[k].b
  PROVE  Tokens(r)'
PROOF
<1>1. SUFFICES ASSUME entry[r] # Nil PROVE Tokens(r)'
  BY DEF Tokens
<1> DEFINE b == entry[r].b
           S == Holders(r, b)
           T == {k \in Slots : RealmOf[k] = r /\ slot'[k].b = b /\ slot'[k].pc \in Holding}
<1>2. T = S
  BY DEF Holders
<1>3. Holders(r, b)' = T
  BY DEF Holders
<1>4. /\ block[b].lock = "open" /\ entry[r].refs >= Cardinality(S)
      /\ ~entry[r].delegated => block[b].owner = r
      /\ entry[r].delegated => /\ block[b].owner # r /\ entry[r].refs >= 1
                               /\ block[b].debt \/ entry[r].refs = Cardinality(S)
  BY <1>1 DEF Tokens
<1> HIDE DEF S, T
<1> QED
  BY <1>1, <1>2, <1>3, <1>4 DEF Tokens

(* What a changed entry must satisfy, given the leases T that now hold it.     *)
LEMMA TokensNow ==
  ASSUME NEW r \in Realms, NEW T,
         T = {k \in Slots : RealmOf[k] = r /\ slot'[k].b = entry'[r].b /\ slot'[k].pc \in Holding},
         LET f == entry'[r]
             v == block'[f.b]
         IN  /\ v.lock = "open" /\ f.refs >= Cardinality(T)
             /\ ~f.delegated => v.owner = r
             /\ f.delegated => v.owner # r /\ f.refs >= 1 /\ (v.debt \/ f.refs = Cardinality(T))
  PROVE  Tokens(r)'
PROOF
<1>1. Holders(r, entry[r].b)' = T
  BY DEF Holders
<1> QED
  BY <1>1 DEF Tokens

(* A lease that meets an entry of its realm's own for its block joins it.      *)
LEMMA EnterIInv ==
  ASSUME WriterAssumption, IInv, NEW l \in Slots, Enter(l)
  PROVE  IInv'
PROOF
<1> DEFINE b == slot[l].b
           w == block[b]
           r == RealmOf[l]
           e == entry[r]
<1>1. slot[l].pc = "enter" /\ current' = current /\ block' = block
  BY DEF Enter, At
<1>2. /\ b \in Blocks /\ w \in BlockType /\ Phase(l) /\ r \in Realms
      /\ TypeInv /\ CountInv /\ AloneInv /\ PhaseInv /\ BlockInv /\ EntryInv /\ OpenWhileHeld
  BY <1>1, Counted DEF IInv, PhaseInv, WriterAssumption
<1>3. CASE ~Usable(b) \/ (e # Nil /\ e.b # b)
  <2>1. Goto(l, "unpin") /\ entry' = entry
    BY <1>3 DEF Enter, B, Here
  <2>2. slot'[l].pc = "unpin" /\ slot'[l].b = b /\ slot'[l].initial = slot[l].initial
    BY <1>2, <2>1, Moves DEF Pcs
  <2>3. Phase(l)'
    BY <1>1, <1>2, <2>1, <2>2 DEF Phase, Reserving, Pinning, Holding
  <2> QED
    BY <1>1, <2>1, <2>3, QuietStep DEF Pcs, Busy, Holding, Pinning, Reserving
<1>4. CASE Usable(b) /\ e = Nil
  <2> DEFINE pc == IF slot[l].initial THEN "open" ELSE "borrow"
  <2>1. Goto(l, pc) /\ entry' = entry
    BY <1>4 DEF Enter, B, Here
  <2>2. slot'[l].pc = pc /\ slot'[l].b = b /\ slot'[l].initial = slot[l].initial
    BY <1>2, <2>1, Moves DEF Pcs
  <2>3. Phase(l)'
    BY <1>1, <1>2, <1>4, <2>1, <2>2 DEF Phase, Reserving, Pinning, Holding
  <2> QED
    BY <1>1, <2>1, <2>3, QuietStep DEF Pcs, Busy, Holding, Pinning, Reserving
<1>5. CASE Usable(b) /\ e # Nil /\ e.b = b
  <2>1. Goto(l, "held") /\ entry' = [entry EXCEPT ![r].refs = @ + 1]
    BY <1>5 DEF Enter, B, Here
  <2>2. /\ slot' \in [Slots -> SlotType]
        /\ slot'[l].pc = "held" /\ slot'[l].b = b /\ slot'[l].initial = slot[l].initial
        /\ \A k \in Slots : k # l => slot'[k] = slot[k]
        /\ \A k \in Slots : slot'[k].b = slot[k].b /\ slot'[k].initial = slot[k].initial
    BY <1>2, <2>1, Moves DEF Pcs
  <2>3. e \in EntryType /\ Tokens(r) /\ e.refs \in Nat
    BY <1>2, <1>5 DEF TypeInv, EntryInv, EntryType
  <2> DEFINE f == [e EXCEPT !.refs = e.refs + 1]
  <2>4. f \in EntryType /\ f.b = b /\ f.refs = e.refs + 1 /\ f.delegated = e.delegated
    BY <1>5, <2>3 DEF EntryType
  <2>5. f # Nil
    BY <2>4 DEF EntryType, WriterAssumption
  <2>6. entry' = [entry EXCEPT ![r] = f]
    BY <2>1
  <2> HIDE DEF f
  <2>7. /\ entry' \in [Realms -> EntryType \cup {Nil}] /\ entry'[r] = f
        /\ \A q \in Realms : q # r => entry'[q] = entry[q]
    BY <1>2, <2>4, <2>6 DEF TypeInv
  <2>8. w.lock = "open" /\ w.acquired
    BY <1>1, <1>2, <1>5, <2>3 DEF Tokens, Phase, Reserving, Pinning
  <2>9. TypeInv'
    BY <1>1, <1>2, <2>2, <2>7 DEF TypeInv
  <2>10. CountInv'
    BY <1>1, <1>2, <2>1, CountStep DEF TypeInv, Pcs, Pinning, Reserving
  <2>11. AloneInv'
    BY <2>1, AloneStep DEF Pcs, Busy
  <2>12. PhaseInv'
    <3>1. Phase(l)'
      BY <1>1, <1>2, <2>2, <2>4, <2>5, <2>7, <2>8 DEF Phase, Holding
    <3>2. ASSUME NEW k \in Slots, k # l PROVE Phase(k)'
      <4>1. slot'[k] = slot[k] /\ Phase(k) /\ RealmOf[k] \in Realms
        BY <1>2, <2>2, <3>2 DEF PhaseInv, WriterAssumption
      <4>2. /\ entry'[RealmOf[k]] = Nil <=> entry[RealmOf[k]] = Nil
            /\ entry[RealmOf[k]] # Nil => /\ entry'[RealmOf[k]].b = entry[RealmOf[k]].b
                                          /\ entry'[RealmOf[k]].delegated = entry[RealmOf[k]].delegated
        BY <1>5, <2>4, <2>5, <2>7, <4>1
      <4> QED
        BY <1>1, <4>1, <4>2 DEF Phase
    <3> QED
      BY <3>1, <3>2 DEF PhaseInv
  <2>13. BlockInv'
    <3>1. SUFFICES ASSUME NEW c \in Blocks PROVE Words(c)'
      BY DEF BlockInv
    <3>2. Words(c) /\ (NoPointer(c)' <=> NoPointer(c))
      BY <1>2, <2>2 DEF BlockInv, NoPointer
    <3> QED
      BY <1>1, <1>5, <2>4, <2>5, <2>7, <3>2 DEF Words
  <2>14. EntryInv'
    <3>1. ASSUME NEW q \in Realms, q # r PROVE Tokens(q)'
      <4>1. \A k \in Slots : RealmOf[k] = q => slot'[k] = slot[k]
        BY <2>2, <3>1
      <4>2. Tokens(q) /\ entry'[q] = entry[q]
        BY <1>2, <2>7, <3>1 DEF EntryInv
      <4> QED
        BY <1>1, <1>2, <4>1, <4>2, TokensKept
    <3>2. Tokens(r)'
      <4> DEFINE S == Holders(r, b)
                 T == {k \in Slots : RealmOf[k] = r /\ slot'[k].b = b /\ slot'[k].pc \in Holding}
      <4>1. S \in SUBSET Slots /\ T = S \cup {l} /\ l \notin S
        BY <1>1, <2>2 DEF Holders, Holding
      <4>2. Cardinality(T) = Cardinality(S) + 1 /\ Cardinality(S) \in Nat
        BY <4>1, Sizes
      <4>3. e.refs >= Cardinality(S) /\ (~e.delegated => w.owner = r)
            /\ (e.delegated => w.owner # r /\ e.refs >= 1 /\ (w.debt \/ e.refs = Cardinality(S)))
        BY <1>5, <2>3 DEF Tokens
      <4>4. T = {k \in Slots : RealmOf[k] = r /\ slot'[k].b = entry'[r].b /\ slot'[k].pc \in Holding}
        BY <2>4, <2>7
      <4> HIDE DEF S, T
      <4>5. f.refs >= Cardinality(T) /\ (e.delegated => f.refs >= 1 /\ (w.debt \/ f.refs = Cardinality(T)))
        BY <2>3, <2>4, <4>2, <4>3
      <4> QED
        BY <1>1, <1>2, <2>4, <2>7, <2>8, <4>3, <4>4, <4>5, TokensNow
    <3> QED
      BY <3>1, <3>2 DEF EntryInv
  <2>15. OpenWhileHeld'
    BY <1>1, <1>2, <2>2, <2>8 DEF OpenWhileHeld, B, Remote, Here
  <2> QED
    BY <2>9, <2>10, <2>11, <2>12, <2>13, <2>14, <2>15 DEF IInv
<1> QED
  BY <1>3, <1>4, <1>5

(* A borrower's entry stands for the one lock its owner keeps open.            *)
LEMMA BorrowIInv ==
  ASSUME WriterAssumption, IInv, NEW l \in Slots, Borrow(l)
  PROVE  IInv'
PROOF
<1> DEFINE b == slot[l].b
           w == block[b]
           r == RealmOf[l]
<1>1. slot[l].pc = "borrow" /\ current' = current /\ block' = block
  BY DEF Borrow, At
<1>2. /\ b \in Blocks /\ w \in BlockType /\ Phase(l) /\ r \in Realms
      /\ TypeInv /\ CountInv /\ AloneInv /\ PhaseInv /\ BlockInv /\ EntryInv /\ OpenWhileHeld
  BY <1>1, Counted DEF IInv, PhaseInv, WriterAssumption
<1>3. CASE ~Usable(b)
  <2>1. Goto(l, "unpin") /\ entry' = entry
    BY <1>3 DEF Borrow, B, Here
  <2>2. slot'[l].pc = "unpin" /\ slot'[l].b = b /\ slot'[l].initial = slot[l].initial
    BY <1>2, <2>1, Moves DEF Pcs
  <2>3. Phase(l)'
    BY <1>1, <1>2, <2>1, <2>2 DEF Phase, Reserving, Pinning, Holding
  <2> QED
    BY <1>1, <2>1, <2>3, QuietStep DEF Pcs, Busy, Holding, Pinning, Reserving
<1>4. CASE Usable(b)
  <2> DEFINE f == [b |-> b, refs |-> 1, delegated |-> TRUE, timer |-> FALSE]
  <2>1. Goto(l, "held") /\ entry' = [entry EXCEPT ![r] = f]
    BY <1>4 DEF Borrow, B, Here
  <2>2. /\ slot' \in [Slots -> SlotType]
        /\ slot'[l].pc = "held" /\ slot'[l].b = b /\ slot'[l].initial = slot[l].initial
        /\ \A k \in Slots : k # l => slot'[k] = slot[k]
        /\ \A k \in Slots : slot'[k].b = slot[k].b /\ slot'[k].initial = slot[k].initial
    BY <1>2, <2>1, Moves DEF Pcs
  <2>3. f \in EntryType /\ f.b = b /\ f.refs = 1 /\ f.delegated
    BY <1>2 DEF EntryType
  <2>4. f # Nil
    BY <2>3 DEF EntryType, WriterAssumption
  <2> HIDE DEF f
  <2>5. /\ entry' \in [Realms -> EntryType \cup {Nil}] /\ entry'[r] = f
        /\ \A q \in Realms : q # r => entry'[q] = entry[q]
    BY <1>2, <2>1, <2>3 DEF TypeInv
  <2>6. w.lock = "open" /\ w.acquired /\ entry[r] = Nil
    <3>1. w.acquired /\ entry[r] = Nil
      BY <1>1, <1>2 DEF Phase, Reserving, Pinning
    <3>2. w.lock # "none" /\ w.lock # "closed"
      BY <1>2, <1>4, <3>1 DEF BlockInv, Words, Usable
    <3> QED
      BY <1>2, <3>1, <3>2 DEF BlockType
  <2>7. w.owner # r /\ \A c \in Blocks : block[c].lock = "open" => block[c].owner # r
    BY <1>2, <2>6 DEF BlockInv, Words
  <2>8. TypeInv'
    BY <1>1, <1>2, <2>2, <2>5 DEF TypeInv
  <2>9. CountInv'
    BY <1>1, <1>2, <2>1, CountStep DEF TypeInv, Pcs, Pinning, Reserving
  <2>10. AloneInv'
    BY <2>1, AloneStep DEF Pcs, Busy
  <2>11. PhaseInv'
    <3>1. Phase(l)'
      BY <1>1, <1>2, <2>2, <2>3, <2>4, <2>5, <2>6 DEF Phase, Holding
    <3>2. ASSUME NEW k \in Slots, k # l PROVE Phase(k)'
      <4>1. slot'[k] = slot[k] /\ Phase(k) /\ RealmOf[k] \in Realms
        BY <1>2, <2>2, <3>2 DEF PhaseInv, WriterAssumption
      <4>2. CASE RealmOf[k] # r
        <5>1. entry'[RealmOf[k]] = entry[RealmOf[k]]
          BY <2>5, <4>1, <4>2
        <5> QED
          BY <1>1, <4>1, <5>1 DEF Phase
      <4>3. CASE RealmOf[k] = r
        <5>1. slot[k].pc \notin {"open", "borrow"}
          BY <1>1, <1>2, <3>2, <4>3 DEF AloneInv, Busy
        <5> QED
          BY <1>1, <2>6, <4>1, <4>3, <5>1 DEF Phase
      <4> QED
        BY <4>2, <4>3
    <3> QED
      BY <3>1, <3>2 DEF PhaseInv
  <2>12. BlockInv'
    <3>1. SUFFICES ASSUME NEW c \in Blocks PROVE Words(c)'
      BY DEF BlockInv
    <3>2. Words(c) /\ (NoPointer(c)' <=> NoPointer(c))
      BY <1>2, <2>2 DEF BlockInv, NoPointer
    <3> QED
      BY <1>1, <2>5, <2>7, <3>2 DEF Words
  <2>13. EntryInv'
    <3>1. ASSUME NEW q \in Realms, q # r PROVE Tokens(q)'
      <4>1. \A k \in Slots : RealmOf[k] = q => slot'[k] = slot[k]
        BY <2>2, <3>1
      <4>2. Tokens(q) /\ entry'[q] = entry[q]
        BY <1>2, <2>5, <3>1 DEF EntryInv
      <4> QED
        BY <1>1, <1>2, <4>1, <4>2, TokensKept
    <3>2. Tokens(r)'
      <4> DEFINE S == {}
                 T == {k \in Slots : RealmOf[k] = r /\ slot'[k].b = b /\ slot'[k].pc \in Holding}
      <4>1. ASSUME NEW k \in Slots, RealmOf[k] = r, slot[k].b = b, slot[k].pc \in Holding PROVE FALSE
        BY <1>2, <2>6, <4>1 DEF PhaseInv, Phase, Holding
      <4>2. S \in SUBSET Slots /\ T = S \cup {l} /\ l \notin S
        BY <2>2, <4>1 DEF Holding
      <4>3. Cardinality(S) = 0 /\ Cardinality(T) = Cardinality(S) + 1
        BY <4>2, Sizes
      <4>4. T = {k \in Slots : RealmOf[k] = r /\ slot'[k].b = entry'[r].b /\ slot'[k].pc \in Holding}
        BY <2>3, <2>5
      <4> HIDE DEF S, T
      <4>5. Cardinality(T) = 1
        BY <4>3
      <4> QED
        BY <1>1, <1>2, <2>3, <2>5, <2>6, <2>7, <4>4, <4>5, TokensNow
    <3> QED
      BY <3>1, <3>2 DEF EntryInv
  <2>14. OpenWhileHeld'
    BY <1>1, <1>2, <2>2, <2>6 DEF OpenWhileHeld, B, Remote, Here
  <2> QED
    BY <2>8, <2>9, <2>10, <2>11, <2>12, <2>13, <2>14 DEF IInv
<1> QED
  BY <1>3, <1>4

(* The one lock is opened where no other is open, so no realm has an entry.    *)
LEMMA OpenIInv ==
  ASSUME WriterAssumption, IInv, NEW l \in Slots, Open(l)
  PROVE  IInv'
PROOF
<1> DEFINE b == slot[l].b
           w == block[b]
           r == RealmOf[l]
<1>1. slot[l].pc = "open" /\ current' = current
  BY DEF Open, At
<1>2. /\ b \in Blocks /\ w \in BlockType /\ Phase(l) /\ r \in Realms
      /\ TypeInv /\ CountInv /\ AloneInv /\ PhaseInv /\ BlockInv /\ EntryInv /\ OpenWhileHeld
  BY <1>1, Counted DEF IInv, PhaseInv, WriterAssumption
<1>3. CASE \E c \in Blocks : block[c].lock = "open"
  <2>1. Goto(l, "unpin") /\ entry' = entry /\ block' = block
    BY <1>3 DEF Open
  <2>2. slot'[l].pc = "unpin" /\ slot'[l].b = b /\ slot'[l].initial = slot[l].initial
    BY <1>2, <2>1, Moves DEF Pcs
  <2>3. Phase(l)'
    BY <1>1, <1>2, <2>1, <2>2 DEF Phase, Reserving, Pinning, Holding
  <2> QED
    BY <1>1, <2>1, <2>3, QuietStep DEF Pcs, Busy, Holding, Pinning, Reserving
<1>4. CASE \A c \in Blocks : block[c].lock # "open"
  <2> DEFINE v == Opened(w)
             f == [b |-> b, refs |-> 0, delegated |-> FALSE, timer |-> FALSE]
  <2>1. Goto(l, "recover") /\ block' = [block EXCEPT ![b] = v] /\ entry' = [entry EXCEPT ![r] = f]
    BY <1>4 DEF Open, B, Here
  <2>2. /\ slot' \in [Slots -> SlotType]
        /\ slot'[l].pc = "recover" /\ slot'[l].b = b /\ slot'[l].initial = slot[l].initial
        /\ \A k \in Slots : k # l => slot'[k] = slot[k]
        /\ \A k \in Slots : slot'[k].b = slot[k].b /\ slot'[k].initial = slot[k].initial
    BY <1>2, <2>1, Moves DEF Pcs
  <2>3. f \in EntryType /\ f.b = b /\ f.refs = 0 /\ ~f.delegated
    BY <1>2 DEF EntryType
  <2>4. f # Nil
    BY <2>3 DEF EntryType, WriterAssumption
  <2>5. /\ v \in BlockType /\ v.lock = "open" /\ v.memory = w.memory + 1 /\ v.owner = w.owner /\ v.refs = w.refs
        /\ v.remote = w.remote /\ v.debt = w.debt /\ v.terminal = w.terminal /\ v.acquired = w.acquired /\ v.state = w.state
    <3>1. w.memory + 1 \in Nat
      BY <1>2 DEF BlockType
    <3>2. v = [w EXCEPT !.lock = "open", !.memory = w.memory + 1]
      BY DEF Opened
    <3> HIDE DEF v
    <3>3. v \in BlockType
      BY <1>2, <3>1, <3>2 DEF BlockType
    <3> QED
      BY <1>2, <3>2, <3>3 DEF BlockType
  <2> HIDE DEF f, v
  <2>6. /\ entry' \in [Realms -> EntryType \cup {Nil}] /\ entry'[r] = f
        /\ \A q \in Realms : q # r => entry'[q] = entry[q]
    BY <1>2, <2>1, <2>3 DEF TypeInv
  <2>7. /\ block' \in [Blocks -> BlockType] /\ block'[b] = v
        /\ \A c \in Blocks : c # b => block'[c] = block[c]
    BY <1>2, <2>1, <2>5 DEF TypeInv
  <2>8. slot[l].initial /\ w.lock = "none" /\ w.owner = r /\ entry[r] = Nil
    BY <1>1, <1>2 DEF Phase
  <2>9. ~w.acquired /\ ~w.terminal /\ w.state = "live" /\ w.memory = 1
    BY <1>2, <2>8 DEF BlockInv, Words, NoPointer, BlockType
  <2>10. \A k \in Slots : k # l /\ slot[k].b = b => ~slot[k].initial /\ slot[k].pc \notin Reserving
    BY <1>2, <2>8, <2>9 DEF AloneInv, PhaseInv, Phase, Reserving, Pinning
  <2>11. \A q \in Realms : entry[q] = Nil
    BY <1>2, <1>4 DEF EntryInv, Tokens, TypeInv, EntryType
  <2>12. TypeInv'
    BY <1>1, <1>2, <2>2, <2>6, <2>7 DEF TypeInv
  <2>13. CountInv'
    BY <1>1, <1>2, <2>1, <2>5, <2>7, CountStep DEF Pcs, Pinning, Reserving
  <2>14. AloneInv'
    BY <1>1, <2>1, AloneStep DEF Pcs, Busy
  <2>15. PhaseInv'
    <3>1. Phase(l)'
      BY <1>1, <1>2, <2>2, <2>3, <2>4, <2>5, <2>6, <2>7, <2>8, <2>9 DEF Phase, Holding
    <3>2. ASSUME NEW k \in Slots, k # l PROVE Phase(k)'
      <4>1. slot'[k] = slot[k] /\ Phase(k) /\ RealmOf[k] \in Realms
        BY <1>2, <2>2, <3>2 DEF PhaseInv, WriterAssumption
      <4>2. RealmOf[k] = r => slot[k].pc \notin {"open", "borrow"}
        BY <1>1, <1>2, <3>2 DEF AloneInv, Busy
      <4>3. entry[RealmOf[k]] = Nil /\ (RealmOf[k] # r => entry'[RealmOf[k]] = Nil)
        BY <2>6, <2>11, <4>1
      <4>4. CASE slot[k].b = b
        BY <2>5, <2>7, <2>10, <3>2, <4>1, <4>2, <4>3, <4>4 DEF Phase, Reserving, Pinning, Holding
      <4>5. CASE slot[k].b # b
        <5>1. slot[k].b \in Blocks => block'[slot[k].b] = block[slot[k].b]
          BY <2>7, <4>5
        <5> QED
          BY <4>1, <4>2, <4>3, <5>1 DEF Phase
      <4> QED
        BY <4>4, <4>5
    <3> QED
      BY <3>1, <3>2 DEF PhaseInv
  <2>16. BlockInv'
    <3>1. SUFFICES ASSUME NEW c \in Blocks PROVE Words(c)'
      BY DEF BlockInv
    <3>2. Words(c) /\ (NoPointer(c)' <=> NoPointer(c))
      BY <1>2, <2>2 DEF BlockInv, NoPointer
    <3>3. CASE c = b
      <4>1. ~NoPointer(b)
        BY DEF NoPointer
      <4> QED
        BY <1>2, <2>3, <2>4, <2>5, <2>6, <2>7, <2>8, <2>9, <3>2, <3>3, <4>1 DEF Words
    <3>4. CASE c # b
      <4>1. block'[c] = block[c] /\ block[c].lock # "open"
        BY <1>4, <2>7, <3>4
      <4> QED
        BY <3>2, <4>1 DEF Words
    <3> QED
      BY <3>3, <3>4
  <2>17. EntryInv'
    <3>1. ASSUME NEW q \in Realms, q # r PROVE Tokens(q)'
      BY <2>6, <2>11, <3>1 DEF Tokens
    <3>2. Tokens(r)'
      <4> DEFINE T == {k \in Slots : RealmOf[k] = r /\ slot'[k].b = b /\ slot'[k].pc \in Holding}
      <4>1. T = {}
        BY <2>2, <2>10 DEF Holding, Reserving, Pinning
      <4>2. T \in SUBSET Slots
        OBVIOUS
      <4>3. T = {k \in Slots : RealmOf[k] = r /\ slot'[k].b = entry'[r].b /\ slot'[k].pc \in Holding}
        BY <2>3, <2>6
      <4> HIDE DEF T
      <4>4. Cardinality(T) = 0
        BY <4>1, <4>2, Sizes
      <4> QED
        BY <1>2, <2>3, <2>5, <2>6, <2>7, <2>8, <4>3, <4>4, TokensNow
    <3> QED
      BY <3>1, <3>2 DEF EntryInv
  <2>18. OpenWhileHeld'
    <3>1. ASSUME NEW k \in Slots, slot'[k].pc \in {"held", "release"}
          PROVE  k # l /\ slot[k].b # b /\ slot[k].b \in Blocks /\ slot'[k] = slot[k]
      BY <1>2, <2>2, <2>10, <3>1 DEF Reserving, Pinning, PhaseInv, Phase
    <3> QED
      BY <1>2, <2>7, <3>1 DEF OpenWhileHeld, B, Remote, Here
  <2> QED
    BY <2>12, <2>13, <2>14, <2>15, <2>16, <2>17, <2>18 DEF IInv
<1> QED
  BY <1>3, <1>4

(* Recovery publishes the lock with the token of its one lease.                *)
LEMMA RecoverIInv ==
  ASSUME WriterAssumption, IInv, NEW l \in Slots, Recover(l)
  PROVE  IInv'
PROOF
<1> DEFINE b == slot[l].b
           w == block[b]
           r == RealmOf[l]
<1>1. slot[l].pc = "recover" /\ current' = current
  BY DEF Recover, At
<1>2. /\ b \in Blocks /\ w \in BlockType /\ Phase(l) /\ r \in Realms
      /\ TypeInv /\ CountInv /\ AloneInv /\ PhaseInv /\ BlockInv /\ EntryInv /\ OpenWhileHeld
  BY <1>1, Counted DEF IInv, PhaseInv, WriterAssumption
<1> DEFINE v == [w EXCEPT !.acquired = TRUE]
           f == [entry[r] EXCEPT !.refs = 1]
<1>3. /\ slot[l].initial /\ w.lock = "open" /\ ~w.acquired /\ ~w.terminal /\ w.owner = r
      /\ entry[r] # Nil /\ entry[r].b = b /\ ~entry[r].delegated
  BY <1>1, <1>2 DEF Phase
<1>4. Goto(l, "held") /\ block' = [block EXCEPT ![b] = v] /\ entry' = [entry EXCEPT ![r] = f]
  BY DEF Recover, B, Here
<1>5. entry[r] \in EntryType
  BY <1>2, <1>3 DEF TypeInv
<1>6. f \in EntryType /\ f.b = b /\ f.refs = 1 /\ f.delegated = entry[r].delegated
  BY <1>3, <1>5 DEF EntryType
<1>7. f # Nil
  BY <1>6 DEF EntryType, WriterAssumption
<1>8. /\ v \in BlockType /\ v.lock = "open" /\ v.acquired /\ v.memory = w.memory /\ v.owner = w.owner /\ v.refs = w.refs
      /\ v.remote = w.remote /\ v.debt = w.debt /\ v.terminal = w.terminal /\ v.state = w.state
  BY <1>2, <1>3 DEF BlockType
<1> HIDE DEF f, v
<1>9. /\ slot' \in [Slots -> SlotType]
      /\ slot'[l].pc = "held" /\ slot'[l].b = b /\ slot'[l].initial = slot[l].initial
      /\ \A k \in Slots : k # l => slot'[k] = slot[k]
      /\ \A k \in Slots : slot'[k].b = slot[k].b /\ slot'[k].initial = slot[k].initial
  BY <1>2, <1>4, Moves DEF Pcs
<1>10. /\ entry' \in [Realms -> EntryType \cup {Nil}] /\ entry'[r] = f
       /\ \A q \in Realms : q # r => entry'[q] = entry[q]
  BY <1>2, <1>4, <1>6 DEF TypeInv
<1>11. /\ block' \in [Blocks -> BlockType] /\ block'[b] = v
       /\ \A c \in Blocks : c # b => block'[c] = block[c]
  BY <1>2, <1>4, <1>8 DEF TypeInv
<1>12. TypeInv'
  BY <1>1, <1>2, <1>9, <1>10, <1>11 DEF TypeInv
<1>13. CountInv'
  BY <1>1, <1>2, <1>4, <1>8, <1>11, CountStep DEF Pcs, Pinning, Reserving
<1>14. AloneInv'
  BY <1>1, <1>4, AloneStep DEF Pcs, Busy
<1>15. PhaseInv'
  <2>1. Phase(l)'
    BY <1>1, <1>2, <1>6, <1>7, <1>8, <1>9, <1>10, <1>11 DEF Phase, Holding
  <2>2. ASSUME NEW k \in Slots, k # l PROVE Phase(k)'
    <3>1. slot'[k] = slot[k] /\ Phase(k) /\ RealmOf[k] \in Realms
      BY <1>2, <1>9, <2>2 DEF PhaseInv, WriterAssumption
    <3>2. /\ entry'[RealmOf[k]] = Nil <=> entry[RealmOf[k]] = Nil
          /\ entry[RealmOf[k]] # Nil => /\ entry'[RealmOf[k]].b = entry[RealmOf[k]].b
                                        /\ entry'[RealmOf[k]].delegated = entry[RealmOf[k]].delegated
      BY <1>3, <1>6, <1>7, <1>10, <3>1
    <3>3. CASE slot[k].b = b
      <4>1. slot[k].pc # "recover"
        BY <1>2, <1>3, <2>2, <3>1, <3>3 DEF AloneInv, Phase
      <4> QED
        BY <1>3, <1>8, <1>11, <3>1, <3>2, <3>3, <4>1 DEF Phase
    <3>4. CASE slot[k].b # b
      <4>1. slot[k].b \in Blocks => block'[slot[k].b] = block[slot[k].b]
        BY <1>11, <3>4
      <4> QED
        BY <3>1, <3>2, <4>1 DEF Phase
    <3> QED
      BY <3>3, <3>4
  <2> QED
    BY <2>1, <2>2 DEF PhaseInv
<1>16. BlockInv'
  <2>1. SUFFICES ASSUME NEW c \in Blocks PROVE Words(c)'
    BY DEF BlockInv
  <2>2. Words(c) /\ (NoPointer(c)' <=> NoPointer(c))
    BY <1>2, <1>9 DEF BlockInv, NoPointer
  <2>3. /\ c # b => block'[c] = block[c]
        /\ c = b => block'[c] = v /\ ~NoPointer(c)
    BY <1>11 DEF NoPointer
  <2>4. \A q \in Realms : entry[q] # Nil => /\ entry'[q] # Nil /\ entry'[q].b = entry[q].b
                                            /\ entry'[q].delegated = entry[q].delegated
    BY <1>3, <1>6, <1>7, <1>10
  <2>5. CASE c = b
    BY <1>3, <1>8, <2>2, <2>3, <2>4, <2>5 DEF Words
  <2>6. CASE c # b
    BY <2>2, <2>3, <2>4, <2>6 DEF Words
  <2> QED
    BY <2>5, <2>6
<1>17. EntryInv'
  <2>1. ASSUME NEW q \in Realms, q # r PROVE Tokens(q)'
    <3>1. \A k \in Slots : RealmOf[k] = q => slot'[k] = slot[k]
      BY <1>9, <2>1
    <3>2. Tokens(q) /\ entry'[q] = entry[q]
      BY <1>2, <1>10, <2>1 DEF EntryInv
    <3>3. entry[q] # Nil => entry[q].b \in Blocks
      BY <1>2 DEF TypeInv, EntryType
    <3> QED
      BY <1>2, <1>3, <1>8, <1>11, <3>1, <3>2, <3>3, TokensKept
  <2>2. Tokens(r)'
    <3> DEFINE S == {}
               T == {k \in Slots : RealmOf[k] = r /\ slot'[k].b = b /\ slot'[k].pc \in Holding}
    <3>1. ASSUME NEW k \in Slots, slot[k].b = b, slot[k].pc \in Holding PROVE FALSE
      BY <1>2, <1>3, <3>1 DEF PhaseInv, Phase, Holding
    <3>2. S \in SUBSET Slots /\ T = S \cup {l} /\ l \notin S
      BY <1>9, <3>1 DEF Holding
    <3>3. Cardinality(S) = 0 /\ Cardinality(T) = Cardinality(S) + 1
      BY <3>2, Sizes
    <3>4. T = {k \in Slots : RealmOf[k] = r /\ slot'[k].b = entry'[r].b /\ slot'[k].pc \in Holding}
      BY <1>6, <1>10
    <3> HIDE DEF S, T
    <3>5. Cardinality(T) = 1
      BY <3>3
    <3> QED
      BY <1>2, <1>3, <1>6, <1>8, <1>10, <1>11, <3>4, <3>5, TokensNow
  <2> QED
    BY <2>1, <2>2 DEF EntryInv
<1>18. OpenWhileHeld'
  <2>1. SUFFICES ASSUME NEW k \in Slots, slot'[k].pc \in {"held", "release"}
                 PROVE  block'[slot[k].b].lock = "open" \/ (block'[slot[k].b].terminal /\ block'[slot[k].b].owner = RealmOf[k])
    BY <1>9 DEF OpenWhileHeld, B, Remote, Here
  <2>2. CASE slot[k].b = b
    BY <1>8, <1>11, <2>2
  <2>3. CASE slot[k].b # b
    <3>1. slot'[k] = slot[k] /\ slot[k].b \in Blocks
      BY <1>2, <1>9, <2>1, <2>3 DEF PhaseInv, Phase
    <3>2. block[slot[k].b].lock = "open" \/ (block[slot[k].b].terminal /\ block[slot[k].b].owner = RealmOf[k])
      BY <1>2, <2>1, <3>1 DEF OpenWhileHeld, B, Remote, Here
    <3> QED
      BY <1>11, <2>3, <3>1, <3>2
  <2> QED
    BY <2>2, <2>3
<1> QED
  BY <1>12, <1>13, <1>14, <1>15, <1>16, <1>17, <1>18 DEF IInv

(* A lease gives its token back; a borrower's last one ends the entry.         *)
LEMMA ReleaseIInv ==
  ASSUME WriterAssumption, IInv, NEW l \in Slots, Release(l)
  PROVE  IInv'
PROOF
<1> DEFINE b == slot[l].b
           w == block[b]
           r == RealmOf[l]
<1>1. slot[l].pc = "release" /\ current' = current /\ block' = block
  BY DEF Release, At
<1>2. /\ b \in Blocks /\ w \in BlockType /\ Phase(l) /\ r \in Realms
      /\ TypeInv /\ CountInv /\ AloneInv /\ PhaseInv /\ BlockInv /\ EntryInv /\ OpenWhileHeld
  BY <1>1, Counted DEF IInv, PhaseInv, WriterAssumption
<1> DEFINE e == entry[r]
<1>3. Goto(l, "unpin")
  BY DEF Release
<1>4. /\ slot' \in [Slots -> SlotType]
      /\ slot'[l].pc = "unpin" /\ slot'[l].b = b /\ slot'[l].initial = slot[l].initial
      /\ \A k \in Slots : k # l => slot'[k] = slot[k]
      /\ \A k \in Slots : slot'[k].b = slot[k].b /\ slot'[k].initial = slot[k].initial
  BY <1>2, <1>3, Moves DEF Pcs
<1>5. CASE w.lock = "closed"
  <2>1. entry' = entry
    BY <1>5 DEF Release, B
  <2>2. Phase(l)'
    BY <1>1, <1>2, <1>4, <2>1 DEF Phase, Reserving, Pinning, Holding
  <2>3. \A c \in Blocks : /\ Kept(block'[c], block[c]) /\ (block[c].debt => block'[c].debt)
                          /\ block'[c].debt => block'[c].acquired
    BY <1>1, <1>2 DEF Kept, BlockInv, Words
  <2>4. CountInv'
    BY <1>1, <1>2, <1>3, CountStep DEF Pcs, Pinning, Reserving, TypeInv
  <2> QED
    BY <1>1, <1>2, <1>3, <1>5, <2>1, <2>2, <2>3, <2>4, CounterStep DEF Pcs, Busy, Holding, TypeInv
<1>6. CASE w.lock # "closed"
  <2> DEFINE f == Released(e)
             S == Holders(r, b)
             T == {k \in Slots : RealmOf[k] = r /\ slot'[k].b = b /\ slot'[k].pc \in Holding}
  <2>1. entry' = [entry EXCEPT ![r] = f]
    BY <1>6 DEF Release, B, Here
  <2>2. e # Nil /\ e.b = b /\ e \in EntryType /\ e.refs \in Nat
    BY <1>1, <1>2, <1>6 DEF Phase, Holding, TypeInv, EntryType
  <2>3. /\ w.lock = "open" /\ e.refs >= Cardinality(S) /\ (~e.delegated => w.owner = r)
        /\ e.delegated => w.owner # r /\ e.refs >= 1 /\ (w.debt \/ e.refs = Cardinality(S))
    BY <1>2, <2>2 DEF EntryInv, Tokens
  <2>4. S \in SUBSET Slots /\ l \in S /\ T = S \ {l}
    BY <1>1, <1>4 DEF Holders, Holding
  <2>5. /\ Cardinality(S) \in Nat /\ Cardinality(T) \in Nat /\ Cardinality(T) = Cardinality(S) - 1
        /\ T = {} <=> Cardinality(T) = 0
    <3>1. T \in SUBSET Slots /\ Cardinality(S \ {l}) = Cardinality(S) - 1
      BY <2>4, Sizes
    <3> QED
      BY <2>4, <3>1, Sizes
  <2>6. \/ f = Nil /\ e.delegated /\ e.refs = 1
        \/ /\ f \in EntryType /\ f # Nil /\ f.b = b /\ f.delegated = e.delegated /\ f.refs = e.refs - 1
           /\ e.delegated => e.refs # 1
    <3>1. CASE e.refs # 1
      <4>1. e.refs - 1 \in Nat
        <5> HIDE DEF S, T
        <5> QED BY <2>2, <2>3, <2>5
      <4>2. f = [e EXCEPT !.refs = e.refs - 1]
        BY <3>1 DEF Released
      <4> HIDE DEF f
      <4>3. f \in EntryType /\ f.b = b /\ f.delegated = e.delegated /\ f.refs = e.refs - 1
        BY <2>2, <4>1, <4>2 DEF EntryType
      <4> QED
        BY <3>1, <4>3 DEF WriterAssumption, EntryType
    <3>2. CASE e.refs = 1 /\ e.delegated
      BY <3>2 DEF Released
    <3>3. CASE e.refs = 1 /\ ~e.delegated
      <4>1. f = [e EXCEPT !.refs = 0, !.timer = TRUE]
        BY <3>3 DEF Released
      <4> HIDE DEF f
      <4>2. f \in EntryType /\ f.b = b /\ f.delegated = e.delegated /\ f.refs = 0
        BY <2>2, <4>1 DEF EntryType
      <4>3. f.refs = e.refs - 1
        BY <3>3, <4>2
      <4> QED
        BY <3>3, <4>2, <4>3 DEF WriterAssumption, EntryType
    <3> QED
      BY <3>1, <3>2, <3>3
  <2>7. f = Nil => \A k \in Slots : k # l /\ RealmOf[k] = r /\ slot[k].b = b => slot[k].pc \notin Holding
    <3>1. SUFFICES ASSUME f = Nil, NEW k \in Slots, k # l, RealmOf[k] = r, slot[k].b = b, slot[k].pc \in Holding
                   PROVE  FALSE
      OBVIOUS
    <3>2. k \in T
      BY <1>4, <3>1
    <3>3. e.refs = 1
      BY <2>6, <3>1
    <3> HIDE DEF S, T, f
    <3>4. Cardinality(T) = 0
      BY <2>2, <2>3, <2>5, <3>3
    <3> QED
      BY <2>5, <3>2, <3>4
  <2> HIDE DEF f
  <2>8. /\ entry' \in [Realms -> EntryType \cup {Nil}] /\ entry'[r] = f
        /\ \A q \in Realms : q # r => entry'[q] = entry[q]
    BY <1>2, <2>1, <2>6 DEF TypeInv
  <2>9. TypeInv'
    BY <1>1, <1>2, <1>4, <2>8 DEF TypeInv
  <2>10. CountInv'
    BY <1>1, <1>2, <1>3, CountStep DEF TypeInv, Pcs, Pinning, Reserving
  <2>11. AloneInv'
    BY <1>3, AloneStep DEF Pcs, Busy
  <2>12. PhaseInv'
    <3>1. Phase(l)'
      BY <1>1, <1>2, <1>4 DEF Phase, Reserving, Pinning, Holding
    <3>2. ASSUME NEW k \in Slots, k # l PROVE Phase(k)'
      <4>1. slot'[k] = slot[k] /\ Phase(k) /\ RealmOf[k] \in Realms
        BY <1>2, <1>4, <3>2 DEF PhaseInv, WriterAssumption
      <4>2. CASE RealmOf[k] # r
        <5>1. entry'[RealmOf[k]] = entry[RealmOf[k]]
          BY <2>8, <4>1, <4>2
        <5> QED
          BY <1>1, <4>1, <5>1 DEF Phase
      <4>3. CASE RealmOf[k] = r /\ f # Nil
        BY <1>1, <2>2, <2>6, <2>8, <4>1, <4>3 DEF Phase
      <4>4. CASE RealmOf[k] = r /\ f = Nil
        BY <1>1, <2>2, <2>6, <2>7, <2>8, <3>2, <4>1, <4>4 DEF Phase
      <4> QED
        BY <4>2, <4>3, <4>4
    <3> QED
      BY <3>1, <3>2 DEF PhaseInv
  <2>13. BlockInv'
    <3>1. SUFFICES ASSUME NEW c \in Blocks PROVE Words(c)'
      BY DEF BlockInv
    <3>2. Words(c) /\ (NoPointer(c)' <=> NoPointer(c))
      BY <1>2, <1>4 DEF BlockInv, NoPointer
    <3>3. \A q \in Realms : entry[q] # Nil /\ ~entry[q].delegated =>
            entry'[q] # Nil /\ entry'[q].b = entry[q].b /\ ~entry'[q].delegated
      BY <2>2, <2>6, <2>8
    <3> QED
      BY <1>1, <3>2, <3>3 DEF Words
  <2>14. EntryInv'
    <3>1. ASSUME NEW q \in Realms, q # r PROVE Tokens(q)'
      <4>1. \A k \in Slots : RealmOf[k] = q => slot'[k] = slot[k]
        BY <1>4, <3>1
      <4>2. Tokens(q) /\ entry'[q] = entry[q]
        BY <1>2, <2>8, <3>1 DEF EntryInv
      <4> QED
        BY <1>1, <1>2, <4>1, <4>2, TokensKept
    <3>2. ASSUME f = Nil PROVE Tokens(r)'
      BY <2>8, <3>2 DEF Tokens
    <3>3. ASSUME f # Nil PROVE Tokens(r)'
      <4>1. T = {k \in Slots : RealmOf[k] = r /\ slot'[k].b = entry'[r].b /\ slot'[k].pc \in Holding}
        BY <2>6, <2>8, <3>3
      <4> HIDE DEF S, T
      <4>2. f.b = b /\ f.refs = e.refs - 1 /\ f.delegated = e.delegated /\ (e.delegated => e.refs # 1)
        BY <2>6, <3>3
      <4>3. f.refs >= Cardinality(T) /\ (e.delegated => f.refs >= 1 /\ (w.debt \/ f.refs = Cardinality(T)))
        BY <2>2, <2>3, <2>5, <4>2
      <4> QED
        BY <1>1, <1>2, <2>3, <2>8, <4>1, <4>2, <4>3, TokensNow
    <3> QED
      BY <3>1, <3>2, <3>3 DEF EntryInv
  <2>15. OpenWhileHeld'
    BY <1>1, <1>2, <1>4 DEF OpenWhileHeld, B, Remote, Here
  <2> QED
    BY <2>9, <2>10, <2>11, <2>12, <2>13, <2>14, <2>15 DEF IInv
<1> QED
  BY <1>5, <1>6
-------------------------------------------------------------------------------
(* An owner's entry ends with its lock: by then nobody borrows the lock, and   *)
(* whoever still holds it is of the realm that ended.                          *)
Ends(v, w) ==
  /\ v.owner = w.owner /\ v.acquired = w.acquired /\ v.debt = w.debt /\ v.lock = "closed" /\ ~w.debt
  /\ v.memory = w.memory - 1 /\ v.state = IF w.memory = 1 THEN "freed" ELSE w.state
Stays(k) ==
  \/ slot'[k] = slot[k]
  \/ /\ slot'[k].b = slot[k].b /\ slot'[k].initial = slot[k].initial
     /\ slot[k].pc = "recover" /\ slot'[k].pc = "unpin"
Leaves(k, r, v) == slot'[k].pc # "recover" /\ (slot[k].pc \in Holding => RealmOf[k] = r /\ v.terminal)
LEMMA CloseStep ==
  ASSUME WriterAssumption, IInv, NEW r \in Realms, entry[r] # Nil, ~entry[r].delegated, NEW v \in BlockType,
         NEW b, b = entry[r].b, Ends(v, block[b]),
         slot' \in [Slots -> SlotType], AloneInv', CountInv', current' = current,
         block' = [block EXCEPT ![b] = v], entry' = [entry EXCEPT ![r] = Nil],
         \A k \in Slots : Stays(k) /\ (slot[k].b = b => Leaves(k, r, v))
  PROVE  IInv'
PROOF
<1> DEFINE w == block[b]
<1>0. /\ \A k \in Slots : \/ slot'[k] = slot[k]
                          \/ /\ slot'[k].b = slot[k].b /\ slot'[k].initial = slot[k].initial
                             /\ slot[k].pc = "recover" /\ slot'[k].pc = "unpin"
      /\ \A k \in Slots : slot[k].b = b => /\ slot'[k].pc # "recover"
                                           /\ slot[k].pc \in Holding => RealmOf[k] = r /\ v.terminal
      /\ v.owner = w.owner /\ v.acquired = w.acquired /\ v.debt = w.debt /\ v.lock = "closed" /\ ~w.debt
      /\ v.memory = w.memory - 1 /\ v.state = IF w.memory = 1 THEN "freed" ELSE w.state
  BY DEF Stays, Leaves, Ends
<1> USE <1>0
<1>1. /\ TypeInv /\ PhaseInv /\ BlockInv /\ EntryInv /\ OpenWhileHeld
      /\ b \in Blocks /\ w \in BlockType /\ w.memory \in Nat
  BY DEF IInv, TypeInv, EntryType, BlockType
<1>2. w.lock = "open" /\ w.owner = r
  BY <1>1 DEF EntryInv, Tokens
<1>3. \A q \in Realms : q # r /\ entry[q] # Nil => entry[q].b # b
  <2>1. SUFFICES ASSUME NEW q \in Realms, q # r, entry[q] # Nil, entry[q].b = b PROVE FALSE
    OBVIOUS
  <2> DEFINE S == Holders(q, b)
  <2>2. entry[q].delegated /\ entry[q].refs >= 1 /\ entry[q].refs = Cardinality(S)
    BY <1>1, <1>2, <2>1 DEF EntryInv, Tokens
  <2>3. S \in SUBSET Slots
    BY DEF Holders
  <2>4. S = {}
    BY <2>1 DEF Holders
  <2> HIDE DEF S
  <2>5. S = {} => Cardinality(S) = 0
    BY FS_EmptySet
  <2> QED
    BY <2>2, <2>4, <2>5
<1>4. /\ entry' \in [Realms -> EntryType \cup {Nil}] /\ entry'[r] = Nil
      /\ \A q \in Realms : q # r => entry'[q] = entry[q]
  BY <1>1 DEF TypeInv
<1>5. /\ block' \in [Blocks -> BlockType] /\ block'[b] = v
      /\ \A c \in Blocks : c # b => block'[c] = block[c]
  BY <1>1 DEF TypeInv
<1>6. TypeInv'
  BY <1>1, <1>4, <1>5 DEF TypeInv
<1>7. PhaseInv'
  <2>1. SUFFICES ASSUME NEW k \in Slots PROVE Phase(k)'
    BY DEF PhaseInv
  <2>2. Phase(k) /\ RealmOf[k] \in Realms
    BY <1>1 DEF PhaseInv, WriterAssumption
  <2>3. CASE slot'[k] = slot[k]
    <3>1. CASE slot[k].b = b
      <4>1. slot[k].pc # "recover"
        BY <2>3, <3>1
      <4>2. entry'[RealmOf[k]] = Nil \/ entry'[RealmOf[k]] = entry[RealmOf[k]]
        BY <1>4, <2>2
      <4> QED
        BY <1>2, <1>5, <2>2, <2>3, <3>1, <4>1, <4>2 DEF Phase
    <3>2. CASE slot[k].b # b
      <4>1. slot[k].b \in Blocks => block'[slot[k].b] = block[slot[k].b]
        BY <1>5, <3>2
      <4>2. entry'[RealmOf[k]] = entry[RealmOf[k]] \/ (entry'[RealmOf[k]] = Nil /\ RealmOf[k] = r)
        BY <1>4, <2>2
      <4> QED
        BY <2>2, <2>3, <3>2, <4>1, <4>2 DEF Phase
    <3> QED
      BY <3>1, <3>2
  <2>4. CASE /\ slot'[k].b = slot[k].b /\ slot'[k].initial = slot[k].initial
             /\ slot[k].pc = "recover" /\ slot'[k].pc = "unpin"
    <3>1. slot[k].b \in Blocks /\ slot[k].initial /\ block[slot[k].b].owner = RealmOf[k]
      BY <2>2, <2>4 DEF Phase
    <3>2. block'[slot[k].b].owner = block[slot[k].b].owner
      BY <1>5, <3>1
    <3> QED
      BY <2>4, <3>1, <3>2 DEF Phase, Holding
  <2> QED
    BY <2>3, <2>4
<1>8. BlockInv'
  <2>1. SUFFICES ASSUME NEW c \in Blocks PROVE Words(c)'
    BY DEF BlockInv
  <2>2. \A k \in Slots : slot'[k].b = slot[k].b
    BY <1>0
  <2>3. Words(c) /\ (NoPointer(c)' <=> NoPointer(c))
    BY <1>1, <2>2 DEF BlockInv, NoPointer
  <2>4. CASE c = b
    <3>1. w.state = "live" /\ w.memory = (IF NoPointer(b) THEN 0 ELSE 1) + 1
      BY <1>1, <1>2, <2>3, <2>4 DEF Words, BlockType
    <3>2. /\ v.memory = IF NoPointer(b) THEN 0 ELSE 1
          /\ v.state = IF NoPointer(b) THEN "freed" ELSE "live"
      BY <3>1
    <3>3. w.debt => w.acquired
      BY <2>3, <2>4 DEF Words
    <3> QED
      BY <1>5, <2>3, <2>4, <3>2, <3>3 DEF Words
  <2>5. CASE c # b
    <3>1. block'[c] = block[c]
      BY <1>5, <2>5
    <3>2. block[c].lock = "open" => block[c].owner # r /\ block[c].owner \in Realms
      BY <2>3, <2>5 DEF Words
    <3>3. block[c].lock = "open" => entry'[block[c].owner] = entry[block[c].owner]
      BY <1>4, <3>2
    <3> QED
      BY <2>3, <3>1, <3>3 DEF Words
  <2> QED
    BY <2>4, <2>5
<1>9. EntryInv'
  <2>1. SUFFICES ASSUME NEW q \in Realms, q # r PROVE Tokens(q)'
    BY <1>4 DEF EntryInv, Tokens
  <2>2. \A k \in Slots : /\ slot'[k].pc \in Holding <=> slot[k].pc \in Holding
                         /\ slot'[k].b = slot[k].b
    BY DEF Holding
  <2>3. Tokens(q) /\ entry'[q] = entry[q]
    BY <1>1, <1>4, <2>1 DEF EntryInv
  <2>4. entry[q] # Nil => entry[q].b \in Blocks /\ entry[q].b # b
    BY <1>1, <1>3, <2>1 DEF TypeInv, EntryType
  <2> QED
    BY <1>1, <1>5, <2>2, <2>3, <2>4, TokensKept
<1>10. OpenWhileHeld'
  <2>1. SUFFICES ASSUME NEW k \in Slots, slot'[k].pc \in {"held", "release"}
                 PROVE  block'[slot'[k].b].lock = "open" \/ (block'[slot'[k].b].terminal /\ block'[slot'[k].b].owner = RealmOf[k])
    BY DEF OpenWhileHeld, B, Remote, Here
  <2>2. slot'[k] = slot[k] /\ slot[k].b \in Blocks
    BY <1>1, <2>1 DEF PhaseInv, Phase
  <2>3. CASE slot[k].b = b
    BY <1>2, <1>5, <2>1, <2>2, <2>3 DEF Holding
  <2>4. CASE slot[k].b # b
    <3>1. block[slot[k].b].lock = "open" \/ (block[slot[k].b].terminal /\ block[slot[k].b].owner = RealmOf[k])
      BY <1>1, <2>1, <2>2 DEF OpenWhileHeld, B, Remote, Here
    <3> QED
      BY <1>5, <2>2, <2>4, <3>1
  <2> QED
    BY <2>3, <2>4
<1> QED
  BY <1>6, <1>7, <1>8, <1>9, <1>10 DEF IInv

LEMMA ForgottenWords ==
  ASSUME NEW w \in BlockType, w.memory >= 1
  PROVE  LET v == Forgotten(w)
         IN  /\ v \in BlockType /\ v.owner = w.owner /\ v.refs = w.refs /\ v.remote = w.remote /\ v.debt = w.debt
             /\ v.terminal = w.terminal /\ v.acquired = w.acquired /\ v.lock = w.lock
             /\ v.memory = w.memory - 1 /\ v.state = IF w.memory = 1 THEN "freed" ELSE w.state
PROOF
<1> DEFINE m == w.memory - 1
           t == IF w.memory = 1 THEN "freed" ELSE w.state
           v == [w EXCEPT !.memory = m, !.state = t]
<1>1. m \in Nat /\ t \in {"unused", "live", "freed"}
  BY DEF BlockType
<1>2. Forgotten(w) = v
  BY DEF Forgotten
<1> HIDE DEF m, t
<1>3. v \in BlockType
  BY <1>1 DEF BlockType
<1>4. /\ v.owner = w.owner /\ v.refs = w.refs /\ v.remote = w.remote /\ v.debt = w.debt
      /\ v.terminal = w.terminal /\ v.acquired = w.acquired /\ v.lock = w.lock /\ v.memory = m /\ v.state = t
  BY DEF BlockType
<1> HIDE DEF v
<1> QED
  BY <1>2, <1>3, <1>4 DEF m, t

LEMMA ClosedWords ==
  ASSUME NEW w \in BlockType, w.memory >= 1
  PROVE  LET v == Closed(w)
         IN  /\ v \in BlockType /\ v.owner = w.owner /\ v.refs = w.refs /\ v.remote = w.remote /\ v.debt = w.debt
             /\ v.terminal = w.terminal /\ v.acquired = w.acquired /\ v.lock = "closed"
             /\ v.memory = w.memory - 1 /\ v.state = IF w.memory = 1 THEN "freed" ELSE w.state
PROOF
<1> DEFINE u == [w EXCEPT !.lock = "closed"]
<1>1. u \in BlockType
  BY DEF BlockType
<1>2. /\ u.owner = w.owner /\ u.refs = w.refs /\ u.remote = w.remote /\ u.debt = w.debt /\ u.terminal = w.terminal
      /\ u.acquired = w.acquired /\ u.lock = "closed" /\ u.memory = w.memory /\ u.state = w.state
  BY DEF BlockType
<1>3. Closed(w) = Forgotten(u)
  BY DEF Closed
<1> HIDE DEF u
<1> QED
  BY <1>1, <1>2, <1>3, ForgottenWords

(* A step of no lease leaves the counts and the realms' acquisitions alone.    *)
LEMMA SameSlots ==
  ASSUME CountInv, AloneInv, slot' = slot,
         \A c \in Blocks : /\ block'[c].refs = block[c].refs /\ block'[c].remote = block[c].remote
                           /\ block'[c].owner = block[c].owner
  PROVE  CountInv' /\ AloneInv'
PROOF
<1>1. ASSUME NEW c \in Blocks
      PROVE  block'[c].refs >= Cardinality(Pinned(c)') /\ block'[c].remote >= Cardinality(Reserved(c)')
  <2>1. Pinned(c)' = Pinned(c) /\ Reserved(c)' = Reserved(c)
    BY DEF Pinned, Reserved
  <2> QED
    BY <2>1 DEF CountInv
<1>2. AloneInv'
  BY DEF AloneInv
<1> QED
  BY <1>1, <1>2 DEF CountInv

(* What an owner's entry says of its lock.                                     *)
LEMMA Owned ==
  ASSUME WriterAssumption, IInv, NEW r \in Realms, entry[r] # Nil, ~entry[r].delegated
  PROVE  LET b == entry[r].b
             w == block[b]
         IN  /\ b \in Blocks /\ w \in BlockType /\ w.lock = "open" /\ w.owner = r /\ w.memory >= 1
             /\ \A k \in Slots : slot[k].b = b /\ slot[k].pc = "recover" => RealmOf[k] = r /\ ~w.terminal /\ w.refs # 0
             /\ \A k \in Slots : slot[k].b = b /\ slot[k].pc \in Holding =>
                                    w.acquired /\ w.refs # 0 /\ (w.remote = 0 => RealmOf[k] = r)
PROOF
<1> DEFINE b == entry[r].b
           w == block[b]
<1>1. b \in Blocks /\ w \in BlockType
  BY DEF IInv, TypeInv, EntryType
<1>2. w.lock = "open" /\ w.owner = r
  BY DEF IInv, EntryInv, Tokens
<1>3. w.memory >= 1
  BY <1>1, <1>2 DEF IInv, BlockInv, Words
<1>4. ASSUME NEW k \in Slots, slot[k].b = b, slot[k].pc \in Holding \cup {"recover"}
      PROVE  w.refs # 0 /\ (w.owner # RealmOf[k] => w.remote # 0)
  <2>1. slot[k].pc # "idle" /\ slot[k].pc \in Pinning /\ slot[k].pc \in Reserving
    BY <1>4 DEF Holding, Pinning, Reserving
  <2>2. w.refs >= 1 /\ (w.owner # RealmOf[k] => w.remote >= 1)
    BY <1>4, <2>1, Counted
  <2> QED
    BY <2>2
<1>5. ASSUME NEW k \in Slots, slot[k].b = b, slot[k].pc = "recover" PROVE RealmOf[k] = r /\ ~w.terminal
  BY <1>2, <1>5 DEF IInv, PhaseInv, Phase
<1>6. ASSUME NEW k \in Slots, slot[k].b = b, slot[k].pc \in Holding PROVE w.acquired
  BY <1>6 DEF IInv, PhaseInv, Phase, Holding
<1> QED
  BY <1>1, <1>2, <1>3, <1>4, <1>5, <1>6

LEMMA RecoveryFailsIInv ==
  ASSUME WriterAssumption, IInv, NEW l \in Slots, RecoveryFails(l)
  PROVE  IInv'
PROOF
<1> DEFINE b == slot[l].b
           w == block[b]
           r == RealmOf[l]
           v == Closed(w)
<1>1. slot[l].pc = "recover" /\ current' = current /\ Goto(l, "unpin")
  BY DEF RecoveryFails, At
<1>2. Phase(l) /\ r \in Realms /\ TypeInv /\ AloneInv /\ PhaseInv /\ BlockInv
  BY DEF IInv, PhaseInv, WriterAssumption
<1>3. slot[l].initial /\ ~w.acquired /\ entry[r] # Nil /\ entry[r].b = b /\ ~entry[r].delegated
  BY <1>1, <1>2 DEF Phase
<1>4. b \in Blocks /\ w \in BlockType /\ w.owner = r /\ w.memory >= 1 /\ w.lock = "open"
  BY <1>2, <1>3, Owned
<1>5. /\ v \in BlockType /\ v.owner = w.owner /\ v.refs = w.refs /\ v.remote = w.remote /\ v.debt = w.debt
      /\ v.acquired = w.acquired /\ v.lock = "closed"
      /\ v.memory = w.memory - 1 /\ v.state = IF w.memory = 1 THEN "freed" ELSE w.state
  BY <1>4, ClosedWords
<1>6. block' = [block EXCEPT ![b] = v] /\ entry' = [entry EXCEPT ![r] = Nil]
  BY DEF RecoveryFails, B, Here
<1> HIDE DEF v
<1>7. /\ block' \in [Blocks -> BlockType] /\ block'[b] = v
      /\ \A c \in Blocks : c # b => block'[c] = block[c]
  BY <1>2, <1>4, <1>5, <1>6 DEF TypeInv
<1>8. CountInv'
  BY <1>1, <1>4, <1>5, <1>7, CountStep DEF Pcs, Pinning, Reserving
<1>9. AloneInv'
  BY <1>1, AloneStep DEF Pcs, Busy
<1>10. /\ slot' \in [Slots -> SlotType]
       /\ slot'[l].pc = "unpin" /\ slot'[l].b = b /\ slot'[l].initial = slot[l].initial
       /\ \A k \in Slots : k # l => slot'[k] = slot[k]
  BY <1>1, <1>2, Moves DEF Pcs
<1>11. \A k \in Slots : slot[k].b = b => slot'[k].pc # "recover" /\ slot[k].pc \notin Holding
  <2>1. SUFFICES ASSUME NEW k \in Slots, slot[k].b = b PROVE slot'[k].pc # "recover" /\ slot[k].pc \notin Holding
    OBVIOUS
  <2>2. slot[k].pc \notin Holding
    BY <1>2, <1>3, <2>1 DEF PhaseInv, Phase, Holding
  <2>3. k # l => slot[k].pc # "recover"
    BY <1>2, <1>3, <2>1 DEF PhaseInv, Phase, AloneInv
  <2> QED
    BY <1>10, <2>2, <2>3
<1>12. ~w.debt
  BY <1>2, <1>3, <1>4 DEF BlockInv, Words
<1>13. \A k \in Slots : Stays(k) /\ (slot[k].b = b => Leaves(k, r, v))
  BY <1>1, <1>10, <1>11 DEF Stays, Leaves
<1>14. Ends(v, w)
  BY <1>5, <1>12 DEF Ends
<1> HIDE DEF b, w, r
<1> QED
  BY <1>1, <1>2, <1>3, <1>5, <1>6, <1>8, <1>9, <1>10, <1>13, <1>14, CloseStep DEF w

LEMMA DrainIInv ==
  ASSUME WriterAssumption, IInv, NEW r \in Realms, Drain(r)
  PROVE  IInv'
PROOF
<1> DEFINE b == entry[r].b
           w == block[b]
           v == Closed(w)
<1>1. entry[r] # Nil /\ ~entry[r].delegated /\ Drainable(w)
  BY DEF Drain, Draining
<1>2. /\ b \in Blocks /\ w \in BlockType /\ w.lock = "open" /\ w.owner = r /\ w.memory >= 1
      /\ \A k \in Slots : slot[k].b = b /\ slot[k].pc = "recover" => RealmOf[k] = r /\ ~w.terminal /\ w.refs # 0
      /\ \A k \in Slots : slot[k].b = b /\ slot[k].pc \in Holding =>
                             w.acquired /\ w.refs # 0 /\ (w.remote = 0 => RealmOf[k] = r)
  BY <1>1, Owned
<1>3. /\ v \in BlockType /\ v.owner = w.owner /\ v.refs = w.refs /\ v.remote = w.remote /\ v.debt = w.debt
      /\ v.terminal = w.terminal /\ v.acquired = w.acquired /\ v.lock = "closed"
      /\ v.memory = w.memory - 1 /\ v.state = IF w.memory = 1 THEN "freed" ELSE w.state
  BY <1>2, ClosedWords
<1>4. /\ block' = [block EXCEPT ![b] = v] /\ entry' = [entry EXCEPT ![r] = Nil]
      /\ slot' = slot /\ current' = current
  BY DEF Drain
<1> HIDE DEF v
<1>5. TypeInv /\ CountInv /\ AloneInv
  BY DEF IInv
<1>6. block'[b] = v /\ \A c \in Blocks : c # b => block'[c] = block[c]
  BY <1>2, <1>4, <1>5 DEF TypeInv
<1>7. CountInv' /\ AloneInv'
  BY <1>3, <1>4, <1>5, <1>6, SameSlots
<1>8. ~w.debt /\ w.remote = 0 /\ (w.terminal \/ w.refs = 0)
  BY <1>1 DEF Drainable
<1>9. \A k \in Slots : slot[k].b = b => /\ slot'[k].pc # "recover"
                                        /\ slot[k].pc \in Holding => RealmOf[k] = r /\ v.terminal
  BY <1>2, <1>3, <1>4, <1>8
<1>10. slot' \in [Slots -> SlotType]
  BY <1>4, <1>5 DEF TypeInv
<1>11. Ends(v, w)
  BY <1>3, <1>8 DEF Ends
<1>12. \A k \in Slots : Stays(k) /\ (slot[k].b = b => Leaves(k, r, v))
  BY <1>4, <1>9 DEF Stays, Leaves
<1> QED
  BY <1>1, <1>3, <1>4, <1>7, <1>10, <1>11, <1>12, CloseStep

(* A realm that ends with leases abroad keeps its lock until they are gone.    *)
LEMMA TerminateIInv ==
  ASSUME WriterAssumption, IInv, NEW r \in Realms, Terminate(r)
  PROVE  IInv'
PROOF
<1> DEFINE b == entry[r].b
           w == block[b]
           u == [w EXCEPT !.sealed = TRUE, !.terminal = TRUE]
<1>1. Quiet(r) /\ entry[r] # Nil /\ ~entry[r].delegated /\ slot' = slot /\ current' = current
  BY DEF Terminate
<1>2. /\ b \in Blocks /\ w \in BlockType /\ w.lock = "open" /\ w.owner = r /\ w.memory >= 1
      /\ \A k \in Slots : slot[k].b = b /\ slot[k].pc = "recover" => RealmOf[k] = r /\ ~w.terminal /\ w.refs # 0
      /\ \A k \in Slots : slot[k].b = b /\ slot[k].pc \in Holding =>
                             w.acquired /\ w.refs # 0 /\ (w.remote = 0 => RealmOf[k] = r)
  BY <1>1, Owned
<1>3. \A k \in Slots : slot[k].b = b => slot[k].pc # "recover"
  BY <1>1, <1>2 DEF Quiet
<1>4. u \in BlockType
  BY <1>2 DEF BlockType
<1>5. u.terminal /\ u.refs = w.refs /\ u.remote = w.remote /\ u.debt = w.debt /\ Kept([u EXCEPT !.terminal = w.terminal], w)
  BY <1>2 DEF BlockType, Kept
<1>6. u.owner = w.owner /\ u.acquired = w.acquired /\ u.lock = w.lock /\ u.memory = w.memory /\ u.state = w.state
  BY <1>2 DEF BlockType
<1>7. /\ block' = [block EXCEPT ![b] = IF Drainable(u) THEN Closed(u) ELSE u]
      /\ entry' = IF Drainable(u) THEN [entry EXCEPT ![r] = Nil] ELSE entry
  BY DEF Terminate
<1>8. /\ TypeInv /\ CountInv /\ AloneInv /\ PhaseInv /\ BlockInv /\ EntryInv /\ OpenWhileHeld
  BY DEF IInv
<1> HIDE DEF u
<1>9. CASE Drainable(u)
  <2> DEFINE v == Closed(u)
  <2>1. /\ v \in BlockType /\ v.owner = w.owner /\ v.refs = w.refs /\ v.remote = w.remote /\ v.debt = w.debt
        /\ v.terminal /\ v.acquired = w.acquired /\ v.lock = "closed"
        /\ v.memory = w.memory - 1 /\ v.state = IF w.memory = 1 THEN "freed" ELSE w.state
    BY <1>2, <1>4, <1>5, <1>6, ClosedWords
  <2>2. block' = [block EXCEPT ![b] = v] /\ entry' = [entry EXCEPT ![r] = Nil]
    BY <1>7, <1>9
  <2> HIDE DEF v
  <2>3. block'[b] = v /\ \A c \in Blocks : c # b => block'[c] = block[c]
    BY <1>2, <1>8, <2>2 DEF TypeInv
  <2>4. CountInv' /\ AloneInv'
    BY <1>1, <1>8, <2>1, <2>3, SameSlots
  <2>5. ~w.debt /\ w.remote = 0
    BY <1>5, <1>9 DEF Drainable
  <2>6. \A k \in Slots : slot[k].b = b => /\ slot'[k].pc # "recover"
                                          /\ slot[k].pc \in Holding => RealmOf[k] = r /\ v.terminal
    BY <1>1, <1>2, <1>3, <2>1, <2>5
  <2>7. slot' \in [Slots -> SlotType]
    BY <1>1, <1>8 DEF TypeInv
  <2>8. Ends(v, w)
    BY <2>1, <2>5 DEF Ends
  <2>9. \A k \in Slots : Stays(k) /\ (slot[k].b = b => Leaves(k, r, v))
    BY <1>1, <2>6 DEF Stays, Leaves
  <2> QED
    BY <1>1, <2>1, <2>2, <2>4, <2>7, <2>8, <2>9, CloseStep
<1>10. CASE ~Drainable(u)
  <2>1. block' = [block EXCEPT ![b] = u] /\ entry' = entry
    BY <1>7, <1>10
  <2>2. /\ block' \in [Blocks -> BlockType] /\ block'[b] = u
        /\ \A c \in Blocks : c # b => block'[c] = block[c]
    BY <1>2, <1>4, <1>8, <2>1 DEF TypeInv
  <2>3. TypeInv'
    BY <1>1, <1>8, <2>1, <2>2 DEF TypeInv
  <2>4. CountInv' /\ AloneInv'
    BY <1>1, <1>5, <1>6, <1>8, <2>2, SameSlots
  <2>5. PhaseInv'
    <3>1. SUFFICES ASSUME NEW k \in Slots PROVE Phase(k)'
      BY DEF PhaseInv
    <3>2. Phase(k) /\ slot'[k] = slot[k]
      BY <1>1, <1>8 DEF PhaseInv
    <3>3. CASE slot[k].b = b
      <4>1. slot[k].pc # "recover"
        BY <1>3, <3>3
      <4> QED
        BY <1>6, <2>1, <2>2, <3>2, <3>3, <4>1 DEF Phase
    <3>4. CASE slot[k].b # b
      <4>1. slot[k].b \in Blocks => block'[slot[k].b] = block[slot[k].b]
        BY <2>2, <3>4
      <4> QED
        BY <2>1, <3>2, <4>1 DEF Phase
    <3> QED
      BY <3>3, <3>4
  <2>6. BlockInv'
    <3>1. SUFFICES ASSUME NEW c \in Blocks PROVE Words(c)'
      BY DEF BlockInv
    <3>2. Words(c) /\ (NoPointer(c)' <=> NoPointer(c))
      BY <1>1, <1>8 DEF BlockInv, NoPointer
    <3>3. CASE c = b
      BY <1>2, <1>5, <1>6, <2>1, <2>2, <3>2, <3>3 DEF Words
    <3>4. CASE c # b
      BY <2>1, <2>2, <3>2, <3>4 DEF Words
    <3> QED
      BY <3>3, <3>4
  <2>7. EntryInv'
    <3>1. SUFFICES ASSUME NEW q \in Realms PROVE Tokens(q)'
      BY DEF EntryInv
    <3>2. Tokens(q) /\ entry'[q] = entry[q] /\ (entry[q] # Nil => entry[q].b \in Blocks)
      BY <1>8, <2>1 DEF EntryInv, TypeInv, EntryType
    <3>3. entry[q] # Nil => /\ block'[entry[q].b].lock = block[entry[q].b].lock
                            /\ block'[entry[q].b].owner = block[entry[q].b].owner
                            /\ block'[entry[q].b].debt = block[entry[q].b].debt
      BY <1>5, <1>6, <2>2, <3>2
    <3> QED
      BY <1>1, <1>8, <3>2, <3>3, TokensKept
  <2>8. OpenWhileHeld'
    <3>1. SUFFICES ASSUME NEW k \in Slots, slot[k].pc \in {"held", "release"}
                   PROVE  block'[slot[k].b].lock = "open" \/ (block'[slot[k].b].terminal /\ block'[slot[k].b].owner = RealmOf[k])
      BY <1>1 DEF OpenWhileHeld, B, Remote, Here
    <3>2. block[slot[k].b].lock = "open" \/ (block[slot[k].b].terminal /\ block[slot[k].b].owner = RealmOf[k])
      BY <1>8, <3>1 DEF OpenWhileHeld, B, Remote, Here
    <3>3. slot[k].b \in Blocks
      BY <1>8, <3>1 DEF PhaseInv, Phase
    <3> QED
      BY <1>2, <1>6, <2>2, <3>2, <3>3
  <2> QED
    BY <2>3, <2>4, <2>5, <2>6, <2>7, <2>8 DEF IInv
<1> QED
  BY <1>9, <1>10
-------------------------------------------------------------------------------
(* The first and the last step of a lease: it neither pins, borrows nor holds  *)
(* anything before or after, save that a fresh block starts with its pin.      *)
LEMMA EndStep ==
  ASSUME WriterAssumption, IInv, NEW l \in Slots, NEW s \in SlotType, slot' = [slot EXCEPT ![l] = s],
         entry' = entry, current' \in Blocks \cup {0}, block' \in [Blocks -> BlockType],
         slot[l].pc \notin Reserving, s.pc \notin Holding, s.pc \in Busy => Quiet(RealmOf[l]),
         s.initial => \A k \in Slots : slot[k].b # s.b, CountInv', Phase(l)', BlockInv',
         \A c \in Blocks : \/ NoPointer(c) /\ block[c].lock = "none" /\ block'[c].lock = "none"
                           \/ /\ block'[c].owner = block[c].owner /\ block'[c].acquired = block[c].acquired
                              /\ block'[c].lock = block[c].lock /\ block'[c].terminal = block[c].terminal
                              /\ block'[c].debt = block[c].debt
  PROVE  IInv'
PROOF
<1>1. TypeInv /\ AloneInv /\ PhaseInv /\ EntryInv /\ OpenWhileHeld
  BY DEF IInv
<1>2. /\ slot' \in [Slots -> SlotType] /\ slot'[l] = s
      /\ \A k \in Slots : k # l => slot'[k] = slot[k]
  BY <1>1 DEF TypeInv
<1>3. TypeInv'
  BY <1>1, <1>2 DEF TypeInv
<1>4. AloneInv'
  <2>1. SUFFICES ASSUME NEW j \in Slots, NEW k \in Slots, j # k
                 PROVE  /\ ~(slot'[j].pc \in Busy /\ slot'[k].pc \in Busy /\ RealmOf[j] = RealmOf[k])
                        /\ ~(slot'[j].initial /\ slot'[k].initial /\ slot'[j].b = slot'[k].b)
    BY DEF AloneInv
  <2>2. CASE j # l /\ k # l
    BY <1>1, <1>2, <2>1, <2>2 DEF AloneInv
  <2>3. CASE j = l
    BY <1>1, <1>2, <2>1, <2>3 DEF Quiet, Busy
  <2>4. CASE k = l
    BY <1>1, <1>2, <2>1, <2>4 DEF Quiet, Busy
  <2> QED
    BY <2>2, <2>3, <2>4
<1>5. PhaseInv'
  <2>1. SUFFICES ASSUME NEW k \in Slots, k # l PROVE Phase(k)'
    BY DEF PhaseInv
  <2>2. slot'[k] = slot[k] /\ Phase(k)
    BY <1>1, <1>2, <2>1 DEF PhaseInv
  <2>3. slot[k].b \in Blocks => ~NoPointer(slot[k].b)
    BY DEF NoPointer
  <2> QED
    BY <2>2, <2>3 DEF Phase
<1>6. EntryInv'
  <2>1. SUFFICES ASSUME NEW q \in Realms PROVE Tokens(q)'
    BY DEF EntryInv
  <2>2. Tokens(q) /\ (entry[q] # Nil => entry[q].b \in Blocks /\ block[entry[q].b].lock = "open")
    BY <1>1 DEF EntryInv, Tokens, TypeInv, EntryType
  <2>3. \A k \in Slots : RealmOf[k] = q => /\ slot'[k].pc \in Holding <=> slot[k].pc \in Holding
                                           /\ slot[k].pc \in Holding => slot'[k].b = slot[k].b
    BY <1>2 DEF Holding, Reserving, Pinning
  <2> QED
    BY <1>1, <2>2, <2>3, TokensKept
<1>7. OpenWhileHeld'
  <2>1. SUFFICES ASSUME NEW k \in Slots, slot'[k].pc \in {"held", "release"}
                 PROVE  block'[slot'[k].b].lock = "open" \/ (block'[slot'[k].b].terminal /\ block'[slot'[k].b].owner = RealmOf[k])
    BY DEF OpenWhileHeld, B, Remote, Here
  <2>2. k # l /\ slot'[k] = slot[k]
    BY <1>2, <2>1 DEF Holding
  <2>3. slot[k].b \in Blocks /\ ~NoPointer(slot[k].b)
    BY <1>1, <2>1, <2>2 DEF PhaseInv, Phase, NoPointer
  <2>4. block[slot[k].b].lock = "open" \/ (block[slot[k].b].terminal /\ block[slot[k].b].owner = RealmOf[k])
    BY <1>1, <2>1, <2>2 DEF OpenWhileHeld, B, Remote, Here
  <2> QED
    BY <2>2, <2>3, <2>4
<1> QED
  BY <1>3, <1>4, <1>5, <1>6, <1>7 DEF IInv

LEMMA DropIInv ==
  ASSUME WriterAssumption, IInv, NEW l \in Slots, Drop(l)
  PROVE  IInv'
PROOF
<1> DEFINE b == slot[l].b
           w == block[b]
           v == IF Pointed(b, l) THEN w ELSE Forgotten(w)
<1>1. slot[l].pc = "drop" /\ slot' = [slot EXCEPT ![l] = Idle] /\ entry' = entry /\ current' = current
  BY DEF Drop, At
<1>2. /\ b \in Blocks /\ w \in BlockType /\ TypeInv /\ CountInv /\ BlockInv /\ 0 \notin Blocks
  BY <1>1, Counted DEF IInv, WriterAssumption
<1>3. /\ ~NoPointer(b) /\ w.state = "live" /\ Words(b)
      /\ w.memory = 1 + (IF w.lock = "open" THEN 1 ELSE 0)
  BY <1>2 DEF BlockInv, Words, NoPointer, BlockType
<1>4. /\ v \in BlockType /\ v.owner = w.owner /\ v.refs = w.refs /\ v.remote = w.remote /\ v.debt = w.debt
      /\ v.terminal = w.terminal /\ v.acquired = w.acquired /\ v.lock = w.lock
      /\ v.memory = IF Pointed(b, l) THEN w.memory ELSE w.memory - 1
      /\ v.state = IF ~Pointed(b, l) /\ w.lock # "open" THEN "freed" ELSE "live"
  <2>1. w.memory >= 1 /\ (w.memory = 1 <=> w.lock # "open")
    BY <1>3
  <2>2. CASE Pointed(b, l)
    BY <1>2, <1>3, <2>2
  <2>3. CASE ~Pointed(b, l)
    BY <1>2, <1>3, <2>1, <2>3, ForgottenWords
  <2> QED
    BY <2>2, <2>3
<1>5. block' = [block EXCEPT ![b] = v]
  <2>1. CASE Pointed(b, l)
    BY <1>2, <2>1 DEF Drop, B, TypeInv
  <2>2. CASE ~Pointed(b, l)
    BY <2>2 DEF Drop, B
  <2> QED
    BY <2>1, <2>2
<1> HIDE DEF v
<1>6. /\ block' \in [Blocks -> BlockType] /\ block'[b] = v
      /\ \A c \in Blocks : c # b => block'[c] = block[c]
  BY <1>2, <1>4, <1>5 DEF TypeInv
<1>7. Idle \in SlotType /\ Idle.pc = "idle" /\ Idle.b = 0 /\ Idle.initial = FALSE
  BY DEF Idle, SlotType, Pcs
<1>8. /\ slot'[l] = Idle /\ \A k \in Slots : k # l => slot'[k] = slot[k]
  BY <1>1, <1>2 DEF TypeInv
<1>9. CountInv'
  <2>1. SUFFICES ASSUME NEW c \in Blocks
                 PROVE  block'[c].refs >= Cardinality(Pinned(c)') /\ block'[c].remote >= Cardinality(Reserved(c)')
    BY DEF CountInv
  <2>2. block'[c].refs = block[c].refs /\ block'[c].remote = block[c].remote /\ block'[c].owner = block[c].owner
    BY <1>4, <1>6
  <2>3. Pinned(c)' = Pinned(c) /\ Reserved(c)' = Reserved(c)
    BY <1>1, <1>2, <1>7, <1>8, <2>2 DEF Pinned, Reserved, Pinning, Reserving
  <2> QED
    BY <1>2, <2>2, <2>3 DEF CountInv
<1>10. Phase(l)'
  BY <1>7, <1>8 DEF Phase
<1>11. BlockInv'
  <2>1. SUFFICES ASSUME NEW c \in Blocks PROVE Words(c)'
    BY DEF BlockInv
  <2>2. CASE c = b
    <3>1. NoPointer(c)' <=> ~Pointed(b, l)
      <4>1. \A k \in Slots : slot'[k].b = b <=> k # l /\ slot[k].b = b
        BY <1>2, <1>7, <1>8
      <4>2. (\A k \in Slots : slot'[k].b # b) <=> ~Pointed(b, l)
        BY <4>1 DEF Pointed, B
      <4> QED
        BY <2>2, <4>2 DEF NoPointer
    <3>2. /\ v.memory = (IF ~Pointed(b, l) THEN 0 ELSE 1) + (IF v.lock = "open" THEN 1 ELSE 0)
          /\ v.state = "freed" => ~Pointed(b, l) /\ v.lock # "open"
          /\ v.state # "unused"
      BY <1>3, <1>4
    <3> QED
      BY <1>1, <1>3, <1>4, <1>6, <2>2, <3>1, <3>2 DEF Words
  <2>3. CASE c # b
    <3>1. NoPointer(c)' <=> NoPointer(c)
      BY <1>2, <1>7, <1>8, <2>3 DEF NoPointer
    <3>2. block'[c] = block[c] /\ Words(c)
      BY <1>2, <1>6, <2>3 DEF BlockInv
    <3> QED
      BY <1>1, <3>1, <3>2 DEF Words
  <2> QED
    BY <2>2, <2>3
<1>12. \A c \in Blocks : /\ block'[c].owner = block[c].owner /\ block'[c].acquired = block[c].acquired
                         /\ block'[c].lock = block[c].lock /\ block'[c].terminal = block[c].terminal
                         /\ block'[c].debt = block[c].debt
  BY <1>4, <1>6
<1>13. slot[l].pc \notin Reserving /\ Idle.pc \notin Holding /\ Idle.pc \notin Busy /\ ~Idle.initial
  BY <1>1, <1>7 DEF Reserving, Pinning, Holding, Busy
<1>14. current' \in Blocks \cup {0}
  BY <1>1, <1>2 DEF TypeInv
<1> QED
  BY <1>1, <1>6, <1>7, <1>9, <1>10, <1>11, <1>12, <1>13, <1>14, EndStep

(* A lease joins the state in the map, which another lease keeps alive, or     *)
(* starts a fresh one.                                                         *)
LEMMA FindIInv ==
  ASSUME WriterAssumption, IInv, NEW l \in Slots, Find(l)
  PROVE  IInv'
PROOF
<1> DEFINE r == RealmOf[l]
<1>1. slot[l].pc = "idle" /\ Quiet(r) /\ entry' = entry
  BY DEF Find, At, Here
<1>2. /\ TypeInv /\ CountInv /\ PhaseInv /\ BlockInv /\ 0 \notin Blocks /\ r \in Realms
      /\ slot[l].b = 0 /\ slot[l].pc \notin Reserving
  BY <1>1 DEF IInv, WriterAssumption, PhaseInv, Phase, Reserving, Pinning
<1>3. CASE current # 0 /\ Pointed(current, l)
  <2> DEFINE s == [pc |-> "check", b |-> current, initial |-> FALSE]
  <2>1. slot' = [slot EXCEPT ![l] = s] /\ block' = block /\ current' = current
    BY <1>3 DEF Find
  <2>2. current \in Blocks
    BY <1>2, <1>3 DEF TypeInv
  <2>3. s \in SlotType /\ s.pc = "check" /\ s.b = current /\ s.initial = FALSE
    BY <2>2 DEF SlotType, Pcs
  <2> HIDE DEF s
  <2>4. slot'[l] = s /\ \A k \in Slots : k # l => slot'[k] = slot[k]
    BY <1>2, <2>1 DEF TypeInv
  <2>5. CountInv'
    <3>1. SUFFICES ASSUME NEW c \in Blocks
                   PROVE  block'[c].refs >= Cardinality(Pinned(c)') /\ block'[c].remote >= Cardinality(Reserved(c)')
      BY DEF CountInv
    <3>2. Pinned(c)' = Pinned(c) /\ Reserved(c)' = Reserved(c)
      BY <1>1, <2>1, <2>3, <2>4 DEF Pinned, Reserved, Pinning, Reserving
    <3> QED
      BY <1>2, <2>1, <3>2 DEF CountInv
  <2>6. Phase(l)'
    BY <2>2, <2>3, <2>4 DEF Phase, Reserving, Pinning, Holding
  <2>7. BlockInv'
    <3>1. SUFFICES ASSUME NEW c \in Blocks PROVE Words(c)'
      BY DEF BlockInv
    <3>2. PICK k \in Slots : k # l /\ slot[k].b = current
      BY <1>3 DEF Pointed, B
    <3>3. NoPointer(c)' <=> NoPointer(c)
      BY <1>2, <2>3, <2>4, <3>2 DEF NoPointer
    <3> QED
      BY <1>1, <1>2, <2>1, <3>3 DEF BlockInv, Words
  <2>8. block' \in [Blocks -> BlockType] /\ current' \in Blocks \cup {0}
    BY <1>2, <2>1 DEF TypeInv
  <2>9. s.pc \notin Holding
    BY <2>3 DEF Holding
  <2> QED
    BY <1>1, <1>2, <2>1, <2>3, <2>5, <2>6, <2>7, <2>8, <2>9, EndStep
<1>4. CASE ~(current # 0 /\ Pointed(current, l))
  <2>1. PICK b \in Blocks :
          /\ block[b].state = "unused"
          /\ slot' = [slot EXCEPT ![l] = [pc |-> "enter", b |-> b, initial |-> TRUE]]
          /\ block' = [block EXCEPT ![b] = [block[b] EXCEPT !.owner = r, !.refs = 1, !.memory = 1, !.state = "live"]]
          /\ current' = b
    BY <1>4 DEF Find, Here
  <2> DEFINE s == [pc |-> "enter", b |-> b, initial |-> TRUE]
             w == block[b]
             v == [w EXCEPT !.owner = r, !.refs = 1, !.memory = 1, !.state = "live"]
  <2>2. s \in SlotType /\ s.pc = "enter" /\ s.b = b /\ s.initial = TRUE
    BY DEF SlotType, Pcs
  <2>3. w \in BlockType /\ NoPointer(b) /\ w.lock = "none" /\ ~w.acquired /\ ~w.debt /\ ~w.terminal
    BY <1>2, <2>1 DEF TypeInv, BlockInv, Words
  <2>4. v \in BlockType
    BY <1>2, <2>3 DEF BlockType
  <2>5. /\ v.owner = r /\ v.refs = 1 /\ v.memory = 1 /\ v.state = "live" /\ v.remote = w.remote /\ v.debt = w.debt
        /\ v.terminal = w.terminal /\ v.acquired = w.acquired /\ v.lock = w.lock
    BY <2>3 DEF BlockType
  <2>6. slot' = [slot EXCEPT ![l] = s] /\ block' = [block EXCEPT ![b] = v]
    BY <2>1
  <2> HIDE DEF s, v
  <2>7. slot'[l] = s /\ \A k \in Slots : k # l => slot'[k] = slot[k]
    BY <1>2, <2>6 DEF TypeInv
  <2>8. /\ block' \in [Blocks -> BlockType] /\ block'[b] = v
        /\ \A c \in Blocks : c # b => block'[c] = block[c]
    BY <1>2, <2>4, <2>6 DEF TypeInv
  <2>9. CountInv'
    <3>1. SUFFICES ASSUME NEW c \in Blocks
                   PROVE  block'[c].refs >= Cardinality(Pinned(c)') /\ block'[c].remote >= Cardinality(Reserved(c)')
      BY DEF CountInv
    <3>2. CASE c = b
      <4>1. Pinned(c)' = {l} /\ Reserved(c)' = {}
        BY <2>2, <2>3, <2>5, <2>7, <2>8, <3>2 DEF Pinned, Reserved, NoPointer, Pinning
      <4>2. Cardinality({l}) = 1 /\ Cardinality({}) = 0
        BY FS_Singleton, FS_EmptySet
      <4>3. block'[c].refs = 1 /\ block'[c].remote \in Nat
        BY <2>4, <2>5, <2>8, <3>2 DEF BlockType
      <4> QED
        BY <4>1, <4>2, <4>3
    <3>3. CASE c # b
      <4>1. Pinned(c)' = Pinned(c) /\ Reserved(c)' = Reserved(c)
        BY <1>1, <2>2, <2>7, <2>8, <3>3 DEF Pinned, Reserved, Pinning, Reserving
      <4> QED
        BY <1>2, <2>8, <3>3, <4>1 DEF CountInv
    <3> QED
      BY <3>2, <3>3
  <2>10. Phase(l)'
    BY <2>2, <2>3, <2>5, <2>7, <2>8 DEF Phase, Reserving, Pinning, Holding
  <2>11. BlockInv'
    <3>1. SUFFICES ASSUME NEW c \in Blocks PROVE Words(c)'
      BY DEF BlockInv
    <3>2. CASE c = b
      <4>1. ~NoPointer(b)'
        BY <2>2, <2>7 DEF NoPointer
      <4> QED
        BY <2>3, <2>5, <2>8, <3>2, <4>1 DEF Words
    <3>3. CASE c # b
      <4>1. NoPointer(c)' <=> NoPointer(c)
        BY <1>2, <2>2, <2>7, <3>3 DEF NoPointer
      <4>2. block'[c] = block[c] /\ Words(c)
        BY <1>2, <2>8, <3>3 DEF BlockInv
      <4> QED
        BY <1>1, <4>1, <4>2 DEF Words
    <3> QED
      BY <3>2, <3>3
  <2>12. \A c \in Blocks : \/ NoPointer(c) /\ block[c].lock = "none" /\ block'[c].lock = "none"
                           \/ block'[c] = block[c]
    BY <2>3, <2>5, <2>8
  <2>13. s.pc \notin Holding /\ \A k \in Slots : slot[k].b # s.b
    BY <2>2, <2>3 DEF Holding, NoPointer
  <2>14. current' \in Blocks \cup {0}
    BY <2>1
  <2> QED
    BY <1>1, <1>2, <2>2, <2>6, <2>8, <2>9, <2>10, <2>11, <2>12, <2>13, <2>14, EndStep
<1> QED
  BY <1>3, <1>4
-------------------------------------------------------------------------------
LEMMA InitIInv == WriterAssumption /\ Init => IInv
PROOF
<1>1. SUFFICES ASSUME WriterAssumption, Init PROVE IInv
  OBVIOUS
<1>2. /\ Unused \in BlockType /\ Unused.lock = "none" /\ ~Unused.acquired /\ ~Unused.debt /\ ~Unused.terminal
      /\ Unused.state = "unused" /\ Unused.refs = 0 /\ Unused.remote = 0
  BY DEF Unused, BlockType
<1>3. Idle \in SlotType /\ Idle.pc = "idle" /\ Idle.b = 0 /\ Idle.initial = FALSE
  BY DEF Idle, SlotType, Pcs
<1>4. /\ block \in [Blocks -> BlockType] /\ entry \in [Realms -> EntryType \cup {Nil}]
      /\ slot \in [Slots -> SlotType] /\ current = 0 /\ 0 \notin Blocks
      /\ (\A b \in Blocks : block[b] = Unused) /\ (\A r \in Realms : entry[r] = Nil) /\ (\A l \in Slots : slot[l] = Idle)
  BY <1>1, <1>2, <1>3 DEF Init, WriterAssumption
<1>5. TypeInv /\ AloneInv /\ PhaseInv /\ EntryInv /\ OpenWhileHeld
  BY <1>3, <1>4 DEF TypeInv, AloneInv, PhaseInv, Phase, EntryInv, Tokens, OpenWhileHeld, Busy
<1>6. BlockInv
  <2>1. SUFFICES ASSUME NEW b \in Blocks PROVE Words(b)
    BY DEF BlockInv
  <2>2. NoPointer(b)
    BY <1>3, <1>4 DEF NoPointer
  <2> QED
    BY <1>2, <1>4, <2>2 DEF Words
<1>7. CountInv
  <2>1. SUFFICES ASSUME NEW b \in Blocks
                 PROVE  block[b].refs >= Cardinality(Pinned(b)) /\ block[b].remote >= Cardinality(Reserved(b))
    BY DEF CountInv
  <2>2. Pinned(b) = {} /\ Reserved(b) = {}
    BY <1>3, <1>4 DEF Pinned, Reserved
  <2>3. Cardinality({}) = 0
    BY FS_EmptySet
  <2> QED
    BY <1>2, <1>4, <2>2, <2>3
<1> QED
  BY <1>5, <1>6, <1>7 DEF IInv

LEMMA NextIInv == WriterAssumption /\ IInv /\ [Next]_vars => IInv'
PROOF
<1>1. SUFFICES ASSUME WriterAssumption, IInv, [Next]_vars PROVE IInv'
  OBVIOUS
<1>2. CASE UNCHANGED vars
  <2>1. block' = block /\ entry' = entry /\ slot' = slot /\ current' = current
    BY <1>2 DEF vars
  <2>2. TypeInv' /\ AloneInv' /\ OpenWhileHeld'
    BY <1>1, <2>1 DEF IInv, TypeInv, AloneInv, OpenWhileHeld, B, Remote, Here
  <2>3. CountInv'
    BY <1>1, <2>1, SameSlots DEF IInv
  <2>4. PhaseInv' /\ BlockInv'
    BY <1>1, <2>1 DEF IInv, PhaseInv, Phase, BlockInv, Words, NoPointer
  <2>5. EntryInv'
    BY <1>1, <2>1, TokensKept DEF IInv, EntryInv
  <2> QED
    BY <2>2, <2>3, <2>4, <2>5 DEF IInv
<1>3. ASSUME NEW l \in Slots, Acquiring(l) PROVE IInv'
  <2>1. Check(l) \/ Pin(l) \/ Unreserve(l) \/ Enter(l) \/ Borrow(l) \/ Open(l) \/ Recover(l)
    BY <1>3 DEF Acquiring
  <2> QED
    BY <1>1, <2>1, CheckIInv, PinIInv, UnreserveIInv, EnterIInv, BorrowIInv, OpenIInv, RecoverIInv
<1>4. ASSUME NEW l \in Slots, Releasing(l) PROVE IInv'
  <2>1. Destroy(l) \/ Release(l) \/ Unpin(l) \/ Retire(l) \/ DrainOwn(l) \/ Drop(l)
    BY <1>4 DEF Releasing
  <2> QED
    BY <1>1, <2>1, DestroyIInv, ReleaseIInv, UnpinIInv, RetireIInv, DrainOwnIInv, DropIInv
<1>5. ASSUME NEW l \in Slots, Find(l) \/ RecoveryFails(l) \/ DestroyElsewhere(l) PROVE IInv'
  BY <1>1, <1>5, FindIInv, RecoveryFailsIInv, DestroyElsewhereIInv
<1>6. ASSUME NEW r \in Realms, Drain(r) \/ Terminate(r) PROVE IInv'
  BY <1>1, <1>6, DrainIInv, TerminateIInv
<1> QED
  BY <1>1, <1>2, <1>3, <1>4, <1>5, <1>6 DEF Next

(* Nothing a lease, an acquisition or a realm's table still uses is freed.     *)
LEMMA NothingDangles == IInv => HeldIsOpen
PROOF
<1>1. SUFFICES ASSUME IInv PROVE NoDangling
  BY DEF IInv, HeldIsOpen
<1>2. SUFFICES ASSUME NEW b \in Blocks, block[b].state = "freed"
               PROVE  (\A l \in Slots : B(l) # b) /\ \A r \in Realms : entry[r] = Nil \/ entry[r].b # b
  BY DEF NoDangling
<1>3. NoPointer(b) /\ block[b].lock # "open"
  BY <1>1, <1>2 DEF IInv, BlockInv, Words
<1>4. \A r \in Realms : entry[r] # Nil => block[entry[r].b].lock = "open"
  BY <1>1 DEF IInv, EntryInv, Tokens
<1> QED
  BY <1>3, <1>4 DEF NoPointer, B

(* ~WebWriterLease, closeWriter() and releaseAllWriters(): whatever the number *)
(* of realms and leases, and however acquisitions, releases, failed recoveries,*)
(* leases destroyed in the wrong realm and ending realms interleave, no lease  *)
(* writes without the open lock (but for the leases of a realm that ends) and  *)
(* no shared counter is freed while something still reads it.                  *)
THEOREM HeldSound == ASSUME WriterAssumption PROVE Spec => []HeldIsOpen
PROOF
<1>1. Init => IInv
  BY InitIInv
<1>2. IInv /\ [Next]_vars => IInv'
  BY NextIInv
<1>3. IInv => HeldIsOpen
  BY NothingDangles
<1> QED
  BY <1>1, <1>2, <1>3, PTL DEF Spec
===============================================================================
