------------------------ MODULE AuthoringSessionProofs ------------------------
(* Undo and Redo of a session lead only through contents it really had, for    *)
(* every set of contents and groups, every bound on the history and any        *)
(* interleaving with unknown outcomes and foreign writers.                     *)
EXTENDS AuthoringSession, SequenceTheorems, TLAPS

EntryType == [from : Content, to : Content, group : Group \cup {NoGroup}]
StateType ==
  [rev : Nat, content : Content, undo : Seq(EntryType), redo : Seq(EntryType),
   displacedRedo : Seq(EntryType), displacedOldest : Seq(EntryType), disabled : BOOLEAN]

(* The two halves of Chained, for a stack s that ends at content c.            *)
UndoChain(s, c) == \A i \in 1 .. Len(s) : s[i].to = IF i = Len(s) THEN c ELSE s[i + 1].from
RedoChain(s, c) == \A i \in 1 .. Len(s) : s[i].from = IF i = Len(s) THEN c ELSE s[i + 1].to

(* What an open group displaced fits where the cancellation of the group would *)
(* put it back: the oldest entry before the first one that is left, the Redo   *)
(* branch at the content before the group.                                     *)
Displaced(h) ==
  /\ h.displacedOldest # <<>> => /\ h.undo # <<>> /\ Len(h.displacedOldest) = 1
                                 /\ h.displacedOldest[1].to = h.undo[1].from
  /\ h.displacedRedo # <<>> => h.undo # <<>> /\ RedoChain(h.displacedRedo, h.undo[Len(h.undo)].from)

(* Only the newest Undo entry can belong to an open group, and while it does   *)
(* there is nothing to redo.                                                   *)
Grouped(h) ==
  /\ \A i \in 1 .. Len(h.undo) - 1 : h.undo[i].group = NoGroup
  /\ h.undo # <<>> /\ Last(h.undo).group # NoGroup => h.redo = <<>>
  /\ h.displacedOldest # <<>> => h.displacedOldest[1].group = NoGroup

Linked(h) ==
  UndoChain(h.undo, h.content) /\ RedoChain(h.redo, h.content) /\ Displaced(h) /\ Grouped(h)

(* A session state as the history keeps it: enabled and linked, or disabled.   *)
Good(h) == h \in StateType /\ (~h.disabled => Linked(h))
Objects == [state : StateType \cup {None}, before : StateType \cup {None}, after : StateType \cup {None}]
GoodObject(o) ==
  /\ o \in Objects
  /\ o.state # None => Good(o.state)
  /\ o.before # None => Good(o.before)
  /\ o.after # None => Good(o.after)
  /\ o.after # None => o.before # None

IInv == truth \in [rev : Nat, content : Content] /\ GoodObject(history)
-------------------------------------------------------------------------------
(* A session state is the record of its fields.                                *)
LEMMA StateRecord ==
  ASSUME NEW h \in StateType
  PROVE  h = [rev |-> h.rev, content |-> h.content, undo |-> h.undo, redo |-> h.redo,
              displacedRedo |-> h.displacedRedo, displacedOldest |-> h.displacedOldest, disabled |-> h.disabled]
  BY DEF StateType

(* The record that an edit, and the record that moved stacks make.             *)
LEMMA EditedState ==
  ASSUME NEW h \in StateType, NEW rev \in Nat, NEW to \in Content
  PROVE  /\ [h EXCEPT !.rev = rev, !.content = to] \in StateType
         /\ [h EXCEPT !.rev = rev, !.content = to] =
              [rev |-> rev, content |-> to, undo |-> h.undo, redo |-> h.redo,
               displacedRedo |-> h.displacedRedo, displacedOldest |-> h.displacedOldest, disabled |-> h.disabled]
PROOF
<1> DEFINE n == [h EXCEPT !.rev = rev, !.content = to]
<1>1. n \in StateType
  BY DEF StateType
<1>2. /\ n.rev = rev /\ n.content = to /\ n.undo = h.undo /\ n.redo = h.redo
      /\ n.displacedRedo = h.displacedRedo /\ n.displacedOldest = h.displacedOldest /\ n.disabled = h.disabled
  BY DEF StateType
<1> HIDE DEF n
<1>3. n = [rev |-> n.rev, content |-> n.content, undo |-> n.undo, redo |-> n.redo,
              displacedRedo |-> n.displacedRedo, displacedOldest |-> n.displacedOldest, disabled |-> n.disabled]
  BY <1>1, StateRecord
<1>4. n = [rev |-> rev, content |-> to, undo |-> h.undo, redo |-> h.redo,
               displacedRedo |-> h.displacedRedo, displacedOldest |-> h.displacedOldest, disabled |-> h.disabled]
  BY <1>2, <1>3
<1> QED
  BY <1>1, <1>4 DEF n

Restack(h, u, r, d, o) ==
  [h EXCEPT !.undo = u, !.redo = r, !.displacedRedo = d, !.displacedOldest = o]

LEMMA RestackedState ==
  ASSUME NEW h \in StateType, NEW u \in Seq(EntryType), NEW r \in Seq(EntryType),
         NEW d \in Seq(EntryType), NEW o \in Seq(EntryType)
  PROVE  /\ Restack(h, u, r, d, o) \in StateType
         /\ Restack(h, u, r, d, o) =
              [rev |-> h.rev, content |-> h.content, undo |-> u, redo |-> r,
               displacedRedo |-> d, displacedOldest |-> o, disabled |-> h.disabled]
PROOF
<1> DEFINE n == Restack(h, u, r, d, o)
<1>1. n \in StateType
  BY DEF StateType, Restack
<1>2. /\ n.rev = h.rev /\ n.content = h.content /\ n.undo = u /\ n.redo = r
      /\ n.displacedRedo = d /\ n.displacedOldest = o /\ n.disabled = h.disabled
  BY DEF StateType, Restack
<1> HIDE DEF n
<1>3. n = [rev |-> n.rev, content |-> n.content, undo |-> n.undo, redo |-> n.redo,
              displacedRedo |-> n.displacedRedo, displacedOldest |-> n.displacedOldest, disabled |-> n.disabled]
  BY <1>1, StateRecord
<1>4. n = [rev |-> h.rev, content |-> h.content, undo |-> u, redo |-> r,
               displacedRedo |-> d, displacedOldest |-> o, disabled |-> h.disabled]
  BY <1>2, <1>3
<1> QED
  BY <1>1, <1>4 DEF n

LEMMA RestackedClear ==
  ASSUME NEW h \in StateType, NEW u \in Seq(EntryType), NEW r \in Seq(EntryType)
  PROVE  /\ Restack(h, u, r, <<>>, <<>>) \in StateType
         /\ Restack(h, u, r, <<>>, <<>>) =
              [rev |-> h.rev, content |-> h.content, undo |-> u, redo |-> r,
               displacedRedo |-> <<>>, displacedOldest |-> <<>>, disabled |-> h.disabled]
PROOF
<1>1. ASSUME NEW d \in Seq(EntryType)
      PROVE  /\ Restack(h, u, r, d, d) \in StateType
             /\ Restack(h, u, r, d, d) =
                  [rev |-> h.rev, content |-> h.content, undo |-> u, redo |-> r,
                   displacedRedo |-> d, displacedOldest |-> d, disabled |-> h.disabled]
  BY RestackedState
<1>2. <<>> \in Seq(EntryType)
  BY EmptySeq
<1> QED
  BY <1>1, <1>2

(* seal_group() leaves the Redo stack.                                         *)
LEMMA SealedState ==
  ASSUME NEW h \in StateType, NEW u \in Seq(EntryType)
  PROVE  [h EXCEPT !.undo = u, !.displacedRedo = <<>>, !.displacedOldest = <<>>] =
         Restack(h, u, h.redo, <<>>, <<>>)
  BY DEF StateType, Restack

(* The deltas of a sealed stack are those of the stack.                        *)
LEMMA SealedStack ==
  ASSUME NEW s \in Seq(EntryType)
  PROVE  /\ Sealed(s) \in Seq(EntryType) /\ Len(Sealed(s)) = Len(s)
         /\ \A i \in 1 .. Len(s) : Sealed(s)[i].from = s[i].from /\ Sealed(s)[i].to = s[i].to
         /\ \A i \in 1 .. Len(s) : i = Len(s) \/ s[i].group = NoGroup => Sealed(s)[i].group = NoGroup
PROOF
<1>1. Len(s) \in Nat /\ DOMAIN s = 1 .. Len(s) /\ \A i \in 1 .. Len(s) : s[i] \in EntryType
  BY LenProperties, ElementOfSeq
<1>2. \A i \in 1 .. Len(s) : /\ [s[i] EXCEPT !.group = NoGroup] \in EntryType
                             /\ [s[i] EXCEPT !.group = NoGroup].from = s[i].from
                             /\ [s[i] EXCEPT !.group = NoGroup].to = s[i].to
                             /\ [s[i] EXCEPT !.group = NoGroup].group = NoGroup
  BY <1>1 DEF EntryType
<1>3. Sealed(s) \in [1 .. Len(s) -> EntryType]
  BY <1>1, <1>2 DEF Sealed
<1>4. Sealed(s) \in Seq(EntryType) /\ Len(Sealed(s)) = Len(s)
  BY <1>1, <1>3, SeqDef
<1>5. \A i \in 1 .. Len(s) :
        /\ Sealed(s)[i].from = s[i].from /\ Sealed(s)[i].to = s[i].to
        /\ i = Len(s) \/ s[i].group = NoGroup => Sealed(s)[i].group = NoGroup
  BY <1>1, <1>2 DEF Sealed
<1> QED
  BY <1>4, <1>5

(* Stacks with the same deltas are chained alike.                              *)
LEMMA SameDeltas ==
  ASSUME NEW s \in Seq(EntryType), NEW t \in Seq(EntryType), Len(s) = Len(t), NEW c,
         \A i \in 1 .. Len(s) : t[i].from = s[i].from /\ t[i].to = s[i].to
  PROVE  UndoChain(s, c) => UndoChain(t, c)
  BY LenProperties DEF UndoChain

(* Appending an entry that begins where the stack ends.                        *)
LEMMA AppendedUndo ==
  ASSUME NEW s \in Seq(EntryType), NEW e \in EntryType, UndoChain(s, e.from)
  PROVE  UndoChain(Append(s, e), e.to)
PROOF
<1>1. /\ Len(s) \in Nat /\ Len(Append(s, e)) = Len(s) + 1 /\ Append(s, e)[Len(s) + 1] = e
      /\ \A i \in 1 .. Len(s) : Append(s, e)[i] = s[i]
  BY AppendProperties, LenProperties
<1> QED
  BY <1>1 DEF UndoChain

LEMMA AppendedRedo ==
  ASSUME NEW s \in Seq(EntryType), NEW e \in EntryType, RedoChain(s, e.to)
  PROVE  RedoChain(Append(s, e), e.from)
PROOF
<1>1. /\ Len(s) \in Nat /\ Len(Append(s, e)) = Len(s) + 1 /\ Append(s, e)[Len(s) + 1] = e
      /\ \A i \in 1 .. Len(s) : Append(s, e)[i] = s[i]
  BY AppendProperties, LenProperties
<1> QED
  BY <1>1 DEF RedoChain

(* What is left below the last entry of a stack.                               *)
LEMMA FrontOfStack ==
  ASSUME NEW s \in Seq(EntryType), s # <<>>
  PROVE  /\ Last(s) \in EntryType /\ Last(s) = s[Len(s)] /\ Len(s) \in Nat \ {0}
         /\ Front(s) \in Seq(EntryType) /\ Len(Front(s)) = Len(s) - 1
         /\ \A i \in 1 .. Len(s) - 1 : Front(s)[i] = s[i]
PROOF
<1> DEFINE n == Len(s) - 1
<1>1. Len(s) \in Nat \ {0} /\ \A i \in 1 .. Len(s) : s[i] \in EntryType
  BY EmptySeq, ElementOfSeq
<1>2. n \in Nat /\ 1 \in Int /\ n \in Int /\ \A i \in 1 .. n : s[i] \in EntryType
  BY <1>1
<1>3. /\ Front(s) \in Seq(EntryType)
      /\ Len(Front(s)) = IF 1 <= n THEN n - 1 + 1 ELSE 0
      /\ \A i \in 1 .. n - 1 + 1 : Front(s)[i] = s[1 + i - 1]
  BY <1>2, SubSeqProperties DEF Front
<1>4. Last(s) = s[Len(s)] /\ Last(s) \in EntryType
  BY <1>1 DEF Last
<1> HIDE DEF n
<1>5. Len(Front(s)) = n
  <2> DEFINE m == Len(Front(s))
  <2>1. m = IF 1 <= n THEN n - 1 + 1 ELSE 0
    BY <1>3
  <2> HIDE DEF m
  <2>2. m = n
    BY <1>2, <2>1
  <2> QED
    BY <2>2 DEF m
<1>6. ASSUME NEW i \in 1 .. n PROVE Front(s)[i] = s[i]
  <2>1. i \in 1 .. n - 1 + 1 /\ 1 + i - 1 = i
    BY <1>2
  <2> QED
    BY <1>3, <2>1
<1> QED
  BY <1>1, <1>3, <1>4, <1>5, <1>6 DEF n

LEMMA FrontChains ==
  ASSUME NEW s \in Seq(EntryType), s # <<>>, NEW c
  PROVE  /\ UndoChain(s, c) => Last(s).to = c /\ UndoChain(Front(s), Last(s).from)
         /\ RedoChain(s, c) => Last(s).from = c /\ RedoChain(Front(s), Last(s).to)
PROOF
<1>1. /\ Last(s) = s[Len(s)] /\ Len(s) \in Nat \ {0} /\ Len(Front(s)) = Len(s) - 1
      /\ \A i \in 1 .. Len(s) - 1 : Front(s)[i] = s[i]
  BY FrontOfStack
<1>2. UndoChain(s, c) => Last(s).to = c /\ UndoChain(Front(s), Last(s).from)
  BY <1>1 DEF UndoChain
<1>3. RedoChain(s, c) => Last(s).from = c /\ RedoChain(Front(s), Last(s).to)
  BY <1>1 DEF RedoChain
<1> QED
  BY <1>2, <1>3

(* An Undo stack without its oldest entry.                                     *)
LEMMA TailChains ==
  ASSUME NEW s \in Seq(EntryType), Len(s) > 1, NEW c, UndoChain(s, c)
  PROVE  /\ Tail(s) \in Seq(EntryType) /\ Len(Tail(s)) = Len(s) - 1 /\ Tail(s) # <<>>
         /\ \A i \in 1 .. Len(s) - 1 : Tail(s)[i] = s[i + 1]
         /\ UndoChain(Tail(s), c)
         /\ Head(s) \in EntryType /\ Head(s) = s[1] /\ Head(s).to = Tail(s)[1].from
PROOF
<1> DEFINE t == Tail(s)
           n == Len(s)
<1>1. s # <<>> /\ n \in Nat /\ n > 1 /\ s[1] \in EntryType /\ Head(s) = s[1]
  BY EmptySeq, LenProperties, ElementOfSeq
<1>2. t \in Seq(EntryType) /\ Len(t) = n - 1 /\ \A i \in 1 .. Len(t) : t[i] = s[i + 1]
  BY <1>1, HeadTailProperties
<1>3. \A i \in 1 .. n : s[i].to = IF i = n THEN c ELSE s[i + 1].from
  BY DEF UndoChain
<1> HIDE DEF t, n
<1>4. t # <<>>
  <2>1. Len(t) # 0
    BY <1>1, <1>2
  <2> QED
    BY <2>1, EmptySeq
<1>5. \A i \in 1 .. n - 1 : t[i] = s[i + 1]
  BY <1>2
<1>6. \A i \in 1 .. n - 1 : t[i].to = IF i = n - 1 THEN c ELSE t[i + 1].from
  <2>1. SUFFICES ASSUME NEW i \in 1 .. n - 1
                 PROVE  t[i].to = IF i = n - 1 THEN c ELSE t[i + 1].from
    OBVIOUS
  <2>2. i + 1 \in 1 .. n /\ t[i] = s[i + 1]
    BY <1>1, <1>5
  <2>3. t[i].to = IF i + 1 = n THEN c ELSE s[i + 1 + 1].from
    BY <1>3, <2>2
  <2>4. i # n - 1 => t[i + 1] = s[i + 1 + 1]
    BY <1>1, <1>5
  <2> QED
    BY <1>1, <2>3, <2>4
<1>7. s[1].to = s[2].from /\ t[1] = s[2]
  BY <1>1, <1>3, <1>5
<1>8. UndoChain(t, c)
  BY <1>2, <1>6 DEF UndoChain
<1> QED
  BY <1>1, <1>2, <1>4, <1>5, <1>7, <1>8 DEF t, n


(* Putting the displaced oldest entry back below what a group leaves.          *)
LEMMA OldestPutBack ==
  ASSUME NEW s \in Seq(EntryType), s # <<>>, NEW old \in Seq(EntryType), old # <<>> => Len(old) = 1
  PROVE  /\ old \o Front(s) \in Seq(EntryType)
         /\ old = <<>> => old \o Front(s) = Front(s)
         /\ old # <<>> => /\ Len(old \o Front(s)) = Len(s) /\ (old \o Front(s))[1] = old[1]
                          /\ \A i \in 2 .. Len(s) : (old \o Front(s))[i] = s[i - 1]
PROOF
<1> DEFINE n == Len(s)
           f == Front(s)
           u == old \o f
           k == Len(old)
           m == Len(u)
<1>1. n \in Nat \ {0} /\ f \in Seq(EntryType) /\ Len(f) = n - 1 /\ \A i \in 1 .. n - 1 : f[i] = s[i]
  BY FrontOfStack
<1>2. u \in Seq(EntryType) /\ m = k + Len(f) /\ \A i \in 1 .. k + Len(f) : u[i] = IF i <= k THEN old[i] ELSE f[i - k]
  BY <1>1, ConcatProperties
<1>3. old = <<>> => u = f
  BY <1>1, ConcatEmptySeq
<1>4. ASSUME old # <<>> PROVE m = n /\ u[1] = old[1] /\ \A i \in 2 .. n : u[i] = s[i - 1]
  <2>1. k = 1
    BY <1>4
  <2>2. m = 1 + (n - 1) /\ \A i \in 1 .. 1 + (n - 1) : u[i] = IF i <= 1 THEN old[i] ELSE f[i - 1]
    BY <1>1, <1>2, <2>1
  <2> HIDE DEF n, f, u, m, k
  <2>3. m = n /\ \A i \in 1 .. n : u[i] = IF i <= 1 THEN old[i] ELSE f[i - 1]
    BY <1>1, <2>2
  <2>4. \A i \in 2 .. n : i - 1 \in 1 .. n - 1 /\ i \in 1 .. n /\ ~(i <= 1)
    BY <1>1
  <2> QED
    BY <1>1, <2>3, <2>4
<1> QED
  BY <1>2, <1>3, <1>4


(* What is put back leads to the content before the group.                     *)
LEMMA PutBackLinked ==
  ASSUME NEW s \in Seq(EntryType), s # <<>>, NEW old \in Seq(EntryType), NEW c, UndoChain(s, c),
         old # <<>> => Len(old) = 1 /\ old[1].to = s[1].from
  PROVE  UndoChain(old \o Front(s), Last(s).from)
PROOF
<1>1. CASE old = <<>>
  BY <1>1, OldestPutBack, FrontChains
<1>2. CASE old # <<>>
  <2> DEFINE u == old \o Front(s)
             n == Len(s)
  <2>1. /\ Len(u) = n /\ u[1] = old[1] /\ \A i \in 2 .. n : u[i] = s[i - 1]
        /\ Last(s) = s[n] /\ n \in Nat \ {0} /\ old[1].to = s[1].from
    BY <1>2, OldestPutBack, FrontOfStack
  <2>2. \A i \in 1 .. n : s[i].to = IF i = n THEN c ELSE s[i + 1].from
    BY DEF UndoChain
  <2> HIDE DEF u, n
  <2>3. ASSUME NEW i \in 1 .. n PROVE u[i].to = IF i = n THEN Last(s).from ELSE u[i + 1].from
    <3>1. u[i].to = s[i].from
      <4>1. CASE i = 1
        BY <2>1, <4>1
      <4>2. CASE i # 1
        <5>1. i \in 2 .. n /\ i - 1 \in 1 .. n /\ i - 1 # n /\ i - 1 + 1 = i
          BY <2>1, <4>2
        <5> QED
          BY <2>1, <2>2, <5>1
      <4> QED
        BY <4>1, <4>2
    <3>2. i # n => u[i + 1] = s[i]
      <4>1. i # n => i + 1 \in 2 .. n /\ i + 1 - 1 = i
        BY <2>1
      <4> QED
        BY <2>1, <4>1
    <3> QED
      BY <2>1, <3>1, <3>2
  <2> QED
    BY <2>1, <2>3 DEF UndoChain, u
<1> QED
  BY <1>1, <1>2

(* The groups of what is left after a group was cancelled.                     *)
LEMMA PutBackClosed ==
  ASSUME NEW s \in Seq(EntryType), s # <<>>, NEW old \in Seq(EntryType),
         \A i \in 1 .. Len(s) - 1 : s[i].group = NoGroup,
         old # <<>> => Len(old) = 1 /\ old[1].group = NoGroup
  PROVE  \A i \in 1 .. Len(old \o Front(s)) : (old \o Front(s))[i].group = NoGroup
PROOF
<1>1. CASE old = <<>>
  BY <1>1, OldestPutBack, FrontOfStack
<1>2. CASE old # <<>>
  <2> DEFINE u == old \o Front(s)
             n == Len(s)
  <2>1. /\ Len(u) = n /\ u[1] = old[1] /\ \A i \in 2 .. n : u[i] = s[i - 1]
        /\ n \in Nat \ {0} /\ old[1].group = NoGroup /\ \A i \in 1 .. n - 1 : s[i].group = NoGroup
    BY <1>2, OldestPutBack, FrontOfStack
  <2> HIDE DEF u, n
  <2>2. ASSUME NEW i \in 1 .. n PROVE u[i].group = NoGroup
    <3>1. CASE i = 1
      BY <2>1, <3>1
    <3>2. CASE i # 1
      <4>1. i \in 2 .. n /\ i - 1 \in 1 .. n - 1
        BY <2>1, <3>2
      <4> QED
        BY <2>1, <4>1
    <3> QED
      BY <3>1, <3>2
  <2> QED
    BY <2>1, <2>2 DEF u
<1> QED
  BY <1>1, <1>2

-------------------------------------------------------------------------------
(* Undo and Redo of a linked state give a linked state.                        *)
LEMMA RestoreGood ==
  ASSUME NEW h, Good(h), ~h.disabled, NEW redo \in BOOLEAN, NEW rev \in Nat,
         (IF redo THEN h.redo ELSE h.undo) # <<>>
  PROVE  Good(PrepareRestore(h, rev, redo))
PROOF
<1>1. h \in StateType /\ UndoChain(h.undo, h.content) /\ RedoChain(h.redo, h.content) /\ Grouped(h)
  BY DEF Good, Linked
<1>2. /\ h.undo \in Seq(EntryType) /\ h.redo \in Seq(EntryType) /\ <<>> \in Seq(EntryType)
      /\ Len(h.undo) \in Nat /\ Len(h.redo) \in Nat
  BY <1>1, EmptySeq, LenProperties DEF StateType
<1> DEFINE r == PrepareRestore(h, rev, redo)
<1>3. CASE redo = FALSE
  <2> DEFINE e == [Last(h.undo) EXCEPT !.group = NoGroup]
             f == Front(h.undo)
             back == Append(h.redo, e)
             n == Len(h.undo)
  <2>1. h.undo # <<>> /\ Last(h.undo) \in EntryType /\ n \in Nat \ {0}
    BY <1>2, <1>3, FrontOfStack
  <2>2. e \in EntryType /\ e.from = Last(h.undo).from /\ e.to = Last(h.undo).to
    BY <2>1 DEF EntryType
  <2> HIDE DEF e
  <2>3. f \in Seq(EntryType) /\ Len(f) = n - 1 /\ \A i \in 1 .. n - 1 : f[i] = h.undo[i]
    BY <1>2, <2>1, FrontOfStack
  <2>4. UndoChain(f, Last(h.undo).from) /\ Last(h.undo).to = h.content
    BY <1>1, <1>2, <2>1, FrontChains
  <2>5. back \in Seq(EntryType)
    BY <1>2, <2>2, AppendProperties
  <2>6. RedoChain(back, Last(h.undo).from)
    <3>1. RedoChain(h.redo, e.to)
      BY <1>1, <2>2, <2>4
    <3> QED
      BY <1>2, <2>2, <3>1, AppendedRedo
  <2>7. \A i \in 1 .. n - 1 : f[i].group = NoGroup
    BY <1>1, <2>3 DEF Grouped
  <2>8. f # <<>> => n - 1 \in 1 .. n - 1 /\ Last(f) = f[n - 1]
    BY <2>3, FrontOfStack
  <2> HIDE DEF f, back, n
  <2>9. /\ \A i \in 1 .. Len(f) - 1 : f[i].group = NoGroup
        /\ f # <<>> => Last(f).group = NoGroup
    <3>1. \A i \in 1 .. Len(f) - 1 : i \in 1 .. n - 1
      BY <2>1, <2>3
    <3> QED
      BY <2>7, <2>8, <3>1
  <2>10. /\ r \in StateType
         /\ r = [rev |-> rev, content |-> Last(h.undo).from, undo |-> f, redo |-> back,
                 displacedRedo |-> <<>>, displacedOldest |-> <<>>, disabled |-> h.disabled]
    <3> DEFINE m == Restack(h, f, back, <<>>, <<>>)
    <3>1. r = [m EXCEPT !.rev = rev, !.content = Last(h.undo).from]
      BY <1>3 DEF PrepareRestore, Moved, Selected, Restack, e, f, back
    <3>2. /\ m \in StateType
          /\ m = [rev |-> h.rev, content |-> h.content, undo |-> f, redo |-> back,
                  displacedRedo |-> <<>>, displacedOldest |-> <<>>, disabled |-> h.disabled]
      <4>1. h \in StateType /\ f \in Seq(EntryType) /\ back \in Seq(EntryType) 
        BY <1>1, <1>2, <2>3, <2>5
      <4> QED
        BY <4>1, RestackedClear
    <3>3. Last(h.undo).from \in Content
      BY <2>1 DEF EntryType
    <3> HIDE DEF m, r
    <3>4. /\ r \in StateType
          /\ r = [rev |-> rev, content |-> Last(h.undo).from, undo |-> m.undo, redo |-> m.redo,
                  displacedRedo |-> m.displacedRedo, displacedOldest |-> m.displacedOldest, disabled |-> m.disabled]
      BY <3>1, <3>2, <3>3, EditedState
    <3> QED
      BY <3>2, <3>4
  <2>11. Linked(r)
    BY <2>4, <2>6, <2>9, <2>10 DEF Linked, Displaced, Grouped
  <2> QED
    BY <2>10, <2>11 DEF Good
<1>4. CASE redo = TRUE
  <2> DEFINE e == [Last(h.redo) EXCEPT !.group = NoGroup]
             f == Front(h.redo)
             on == Append(h.undo, e)
             n == Len(h.undo)
  <2>1. h.redo # <<>> /\ Last(h.redo) \in EntryType
    BY <1>2, <1>4, FrontOfStack
  <2>2. e \in EntryType /\ e.from = Last(h.redo).from /\ e.to = Last(h.redo).to /\ e.group = NoGroup
    BY <2>1 DEF EntryType
  <2> HIDE DEF e
  <2>3. f \in Seq(EntryType)
    BY <1>2, <2>1, FrontOfStack
  <2>4. RedoChain(f, Last(h.redo).to) /\ Last(h.redo).from = h.content
    BY <1>1, <1>2, <2>1, FrontChains
  <2>5. /\ on \in Seq(EntryType) /\ on # <<>> /\ Len(on) = n + 1 /\ on[n + 1] = e
        /\ \A i \in 1 .. n : on[i] = h.undo[i]
    BY <1>2, <2>2, AppendProperties
  <2>6. UndoChain(on, Last(h.redo).to)
    <3>1. UndoChain(h.undo, e.from)
      BY <1>1, <2>2, <2>4
    <3> QED
      BY <1>2, <2>2, <3>1, AppendedUndo
  <2>7. \A i \in 1 .. n : h.undo[i].group = NoGroup
    <3>1. h.undo # <<>> => Last(h.undo).group = NoGroup /\ Last(h.undo) = h.undo[n]
      BY <1>1, <1>2, <2>1, FrontOfStack DEF Grouped
    <3>2. \A i \in 1 .. n : i = n \/ i \in 1 .. n - 1
      BY <1>2
    <3>3. n # 0 => h.undo # <<>>
      BY EmptySeq
    <3>4. \A i \in 1 .. n : n # 0
      BY <1>2
    <3> QED
      BY <1>1, <3>1, <3>2, <3>3, <3>4 DEF Grouped
  <2> HIDE DEF f, on, n
  <2>8. /\ \A i \in 1 .. Len(on) - 1 : on[i].group = NoGroup
        /\ Last(on).group = NoGroup
    <3>1. \A i \in 1 .. Len(on) - 1 : i \in 1 .. n
      BY <1>2, <2>5 DEF n
    <3> QED
      BY <2>2, <2>5, <2>7, <3>1 DEF Last
  <2>9. /\ r \in StateType
        /\ r = [rev |-> rev, content |-> Last(h.redo).to, undo |-> on, redo |-> f,
                displacedRedo |-> <<>>, displacedOldest |-> <<>>, disabled |-> h.disabled]
    <3> DEFINE m == Restack(h, on, f, <<>>, <<>>)
    <3>1. r = [m EXCEPT !.rev = rev, !.content = Last(h.redo).to]
      BY <1>4 DEF PrepareRestore, Moved, Selected, Restack, e, f, on
    <3>2. /\ m \in StateType
          /\ m = [rev |-> h.rev, content |-> h.content, undo |-> on, redo |-> f,
                  displacedRedo |-> <<>>, displacedOldest |-> <<>>, disabled |-> h.disabled]
      <4>1. h \in StateType /\ on \in Seq(EntryType) /\ f \in Seq(EntryType) 
        BY <1>1, <1>2, <2>3, <2>5
      <4> QED
        BY <4>1, RestackedClear
    <3>3. Last(h.redo).to \in Content
      BY <2>1 DEF EntryType
    <3> HIDE DEF m, r
    <3>4. /\ r \in StateType
          /\ r = [rev |-> rev, content |-> Last(h.redo).to, undo |-> m.undo, redo |-> m.redo,
                  displacedRedo |-> m.displacedRedo, displacedOldest |-> m.displacedOldest, disabled |-> m.disabled]
      BY <3>1, <3>2, <3>3, EditedState
    <3> QED
      BY <3>2, <3>4
  <2>10. Linked(r)
    BY <2>4, <2>6, <2>8, <2>9 DEF Linked, Displaced, Grouped
  <2> QED
    BY <2>9, <2>10 DEF Good
<1> QED
  BY <1>3, <1>4

(* A commit that extends or cancels the open group.                            *)
LEMMA MergedGood ==
  ASSUME NEW h, Good(h), ~h.disabled, NEW rev \in Nat, NEW to \in Content,
         NEW group \in Group \cup {NoGroup}, Merges(h, group)
  PROVE  Good(Merged([h EXCEPT !.rev = rev, !.content = to], to))
PROOF
<1> DEFINE next == [h EXCEPT !.rev = rev, !.content = to]
           n == Len(h.undo)
<1>1. /\ h \in StateType /\ UndoChain(h.undo, h.content) /\ RedoChain(h.redo, h.content)
      /\ Displaced(h) /\ Grouped(h)
  BY DEF Good, Linked
<1>2. /\ h.undo \in Seq(EntryType) /\ h.redo \in Seq(EntryType) /\ <<>> \in Seq(EntryType)
      /\ h.displacedOldest \in Seq(EntryType) /\ h.displacedRedo \in Seq(EntryType) /\ h.disabled \in BOOLEAN
      /\ h.undo # <<>> /\ Last(h.undo).group # NoGroup
  BY <1>1, EmptySeq DEF StateType, Merges
<1>3. /\ Last(h.undo) = h.undo[n] /\ Last(h.undo) \in EntryType /\ n \in Nat \ {0} /\ h.redo = <<>>
  BY <1>1, <1>2, FrontOfStack DEF Grouped
<1>4. next = [rev |-> rev, content |-> to, undo |-> h.undo, redo |-> h.redo,
              displacedRedo |-> h.displacedRedo, displacedOldest |-> h.displacedOldest, disabled |-> h.disabled]
  BY <1>1, EditedState
<1>5. CASE Last(h.undo).from = to
  <2> DEFINE u == h.displacedOldest \o Front(h.undo)
             m == [rev |-> rev, content |-> to, undo |-> u, redo |-> h.displacedRedo,
                   displacedRedo |-> <<>>, displacedOldest |-> <<>>, disabled |-> h.disabled]
  <2>1. Merged(next, to) = m
    BY <1>4, <1>5 DEF Merged
  <2>2. u \in Seq(EntryType) /\ UndoChain(u, to)
    BY <1>1, <1>2, <1>5, OldestPutBack, PutBackLinked DEF Displaced
  <2>3. \A i \in 1 .. Len(u) : u[i].group = NoGroup
    BY <1>1, <1>2, PutBackClosed DEF Displaced, Grouped
  <2>4. RedoChain(h.displacedRedo, to)
    <3>1. CASE h.displacedRedo = <<>>
      BY <3>1, EmptySeq DEF RedoChain
    <3>2. CASE h.displacedRedo # <<>>
      BY <1>1, <1>3, <1>5, <3>2 DEF Displaced
    <3> QED
      BY <3>1, <3>2
  <2> HIDE DEF u
  <2>5. /\ \A i \in 1 .. Len(u) - 1 : u[i].group = NoGroup
        /\ u # <<>> => Last(u).group = NoGroup
    <3>1. Len(u) \in Nat /\ (u # <<>> => Len(u) \in 1 .. Len(u))
      BY <2>2, EmptySeq, LenProperties
    <3> QED
      BY <2>3, <3>1 DEF Last
  <2>6. m \in StateType
    BY <1>2, <2>2 DEF StateType
  <2>7. Linked(m)
    BY <2>2, <2>4, <2>5 DEF Linked, Displaced, Grouped
  <2> QED
    BY <2>1, <2>6, <2>7 DEF Good
<1>6. CASE Last(h.undo).from # to
  <2> DEFINE e == [h.undo[n] EXCEPT !.to = to]
             u == [h.undo EXCEPT ![n] = e]
             m == [rev |-> rev, content |-> to, undo |-> u, redo |-> <<>>, displacedRedo |-> h.displacedRedo,
                   displacedOldest |-> h.displacedOldest, disabled |-> h.disabled]
  <2>1. e \in EntryType /\ e.to = to /\ e.from = h.undo[n].from
    BY <1>3 DEF EntryType
  <2>2. Merged(next, to) = m
    BY <1>3, <1>4, <1>6 DEF Merged
  <2>3. /\ u \in Seq(EntryType) /\ Len(u) = n
        /\ \A j \in 1 .. n : u[j] = IF j = n THEN e ELSE h.undo[j]
    BY <1>2, <1>3, <2>1, ExceptSeq
  <2> HIDE DEF e, u
  <2>4. UndoChain(u, to)
    BY <1>1, <1>3, <2>1, <2>3 DEF UndoChain
  <2>5. u # <<>> /\ u[1].from = h.undo[1].from /\ u[n].from = h.undo[n].from
    BY <1>3, <2>1, <2>3, EmptySeq
  <2>6. \A i \in 1 .. n - 1 : u[i].group = NoGroup
    BY <1>1, <1>3, <2>3 DEF Grouped
  <2>7. Displaced(m)
    BY <1>1, <2>3, <2>5 DEF Displaced
  <2>8. Grouped(m)
    BY <1>1, <2>3, <2>6 DEF Grouped
  <2>9. m \in StateType
    BY <1>2, <2>3 DEF StateType
  <2>10. RedoChain(<<>>, to)
    BY EmptySeq DEF RedoChain
  <2>11. Linked(m)
    BY <2>4, <2>7, <2>8, <2>10 DEF Linked
  <2> QED
    BY <2>2, <2>9, <2>11 DEF Good
<1> QED
  BY <1>5, <1>6

(* A commit that pushes an entry of its own.                                   *)
LEMMA PushedGood ==
  ASSUME NEW h, Good(h), ~h.disabled, NEW rev \in Nat, NEW to \in Content,
         NEW group \in Group \cup {NoGroup}
  PROVE  Good(Pushed([h EXCEPT !.rev = rev, !.content = to], h.content, to, group))
PROOF
<1> DEFINE next == [h EXCEPT !.rev = rev, !.content = to]
           sealed == Sealed(h.undo)
           e == Entry(h.content, to, group)
           all == Append(sealed, e)
           full == Len(all) > MaxActions
           kept == IF full THEN Tail(all) ELSE all
           branch == IF group # NoGroup THEN h.redo ELSE <<>>
           oldest == IF full /\ group # NoGroup THEN <<Head(all)>> ELSE <<>>
           p == [rev |-> rev, content |-> to, undo |-> kept, redo |-> <<>>, displacedRedo |-> branch,
                 displacedOldest |-> oldest, disabled |-> h.disabled]
<1>1. /\ h \in StateType /\ UndoChain(h.undo, h.content) /\ RedoChain(h.redo, h.content) /\ Grouped(h)
  BY DEF Good, Linked
<1>2. /\ h.undo \in Seq(EntryType) /\ h.redo \in Seq(EntryType) /\ <<>> \in Seq(EntryType)
      /\ h.content \in Content /\ h.disabled \in BOOLEAN /\ Len(h.undo) \in Nat
  BY <1>1, EmptySeq, LenProperties DEF StateType
<1>3. /\ sealed \in Seq(EntryType) /\ Len(sealed) = Len(h.undo)
      /\ \A i \in 1 .. Len(h.undo) : sealed[i].from = h.undo[i].from /\ sealed[i].to = h.undo[i].to
      /\ \A i \in 1 .. Len(h.undo) : sealed[i].group = NoGroup
  <2>1. \A i \in 1 .. Len(h.undo) : i = Len(h.undo) \/ h.undo[i].group = NoGroup
    BY <1>1, <1>2 DEF Grouped
  <2> QED
    BY <1>2, <2>1, SealedStack
<1>4. e \in EntryType /\ e.from = h.content /\ e.to = to
  BY <1>2 DEF Entry, EntryType
<1> HIDE DEF sealed, e
<1>6. UndoChain(sealed, e.from)
  BY <1>1, <1>2, <1>3, <1>4, SameDeltas
<1>7. /\ all \in Seq(EntryType) /\ all # <<>> /\ Len(all) = Len(h.undo) + 1 /\ all[Len(h.undo) + 1] = e
      /\ \A i \in 1 .. Len(h.undo) : all[i] = sealed[i]
      /\ UndoChain(all, to)
  BY <1>3, <1>4, <1>6, AppendProperties, AppendedUndo
<1> HIDE DEF all
<1>8. full => Len(all) > 1
  BY <1>2, <1>7, MaxActionsAssumption
<1>9. /\ kept \in Seq(EntryType) /\ kept # <<>> /\ Len(kept) \in Nat \ {0} /\ UndoChain(kept, to)
      /\ kept[Len(kept)] = e /\ \A i \in 1 .. Len(kept) - 1 : kept[i].group = NoGroup
  <2>1. CASE full
    <3>1. /\ Tail(all) \in Seq(EntryType) /\ Len(Tail(all)) = Len(all) - 1 /\ Tail(all) # <<>>
          /\ \A i \in 1 .. Len(all) - 1 : Tail(all)[i] = all[i + 1]
          /\ UndoChain(Tail(all), to)
      BY <1>7, <1>8, <2>1, TailChains
    <3> DEFINE t == Tail(all)
               n == Len(h.undo)
    <3>2. kept = t
      BY <2>1
    <3>3. n \in Nat /\ Len(t) = n /\ Len(all) = n + 1 /\ n + 1 > 1
      BY <1>2, <1>7, <1>8, <2>1, <3>1
    <3>4. (\A i \in 1 .. n : t[i] = all[i + 1]) /\ all[n + 1] = e /\ t # <<>> /\ UndoChain(t, to) /\ t \in Seq(EntryType)
      BY <1>7, <3>1, <3>3
    <3>5. \A i \in 1 .. n : all[i].group = NoGroup
      BY <1>3, <1>7
    <3> HIDE DEF t, n, kept
    <3>6. n \in 1 .. n /\ \A i \in 1 .. n - 1 : i \in 1 .. n /\ i + 1 \in 1 .. n
      BY <3>3
    <3>7. t[n] = e /\ \A i \in 1 .. n - 1 : t[i].group = NoGroup
      BY <3>4, <3>5, <3>6
    <3>8. Len(t) \in Nat \ {0}
      BY <3>3
    <3> QED
      BY <3>2, <3>3, <3>4, <3>7, <3>8
  <2>2. CASE ~full
    BY <1>2, <1>3, <1>7, <2>2
  <2> QED
    BY <2>1, <2>2
<1>10. /\ oldest \in Seq(EntryType)
       /\ oldest # <<>> => Len(oldest) = 1 /\ oldest[1].to = kept[1].from /\ oldest[1].group = NoGroup
  <2>1. CASE full /\ group # NoGroup
    <3>1. Head(all) \in EntryType /\ Head(all) = all[1] /\ Head(all).to = Tail(all)[1].from
      BY <1>7, <1>8, <2>1, TailChains
    <3>2. oldest = <<Head(all)>> /\ kept = Tail(all) /\ all[1].group = NoGroup
      BY <1>2, <1>3, <1>7, <1>8, <2>1
    <3> DEFINE x == Head(all)
    <3>3. x \in EntryType /\ oldest = <<x>> /\ x.to = kept[1].from /\ x.group = NoGroup
      BY <3>1, <3>2
    <3> HIDE DEF x, kept, oldest
    <3>4. <<x>> \in Seq(EntryType) /\ Len(<<x>>) = 1 /\ <<x>>[1] = x
      BY <3>3
    <3> QED
      BY <3>3, <3>4
  <2>2. CASE ~(full /\ group # NoGroup)
    BY <1>2, <2>2
  <2> QED
    BY <2>1, <2>2
<1>11. branch \in Seq(EntryType) /\ (branch # <<>> => RedoChain(branch, kept[Len(kept)].from))
  BY <1>1, <1>2, <1>4, <1>9
<1> HIDE DEF kept, oldest, branch
<1>12. p \in StateType /\ Pushed(next, h.content, to, group) = p
  <2>1. /\ next \in StateType
        /\ next = [rev |-> rev, content |-> to, undo |-> h.undo, redo |-> h.redo, displacedRedo |-> h.displacedRedo,
                   displacedOldest |-> h.displacedOldest, disabled |-> h.disabled]
    BY <1>1, EditedState
  <2>2. /\ next.rev = rev /\ next.content = to /\ next.undo = h.undo /\ next.redo = h.redo
        /\ next.disabled = h.disabled
    BY <2>1
  <2> HIDE DEF next
  <2>3. Pushed(next, h.content, to, group) =
          Restack(next, kept, <<>>, branch, oldest)
    BY <2>2 DEF Pushed, Restack, sealed, e, all, kept, branch, oldest
  <2>4. kept \in Seq(EntryType) /\ branch \in Seq(EntryType) /\ oldest \in Seq(EntryType) /\ <<>> \in Seq(EntryType)
    BY <1>2, <1>9, <1>10, <1>11
  <2> DEFINE x == Restack(next, kept, <<>>, branch, oldest)
  <2>5. /\ x \in StateType
        /\ x = [rev |-> next.rev, content |-> next.content, undo |-> kept, redo |-> <<>>,
                displacedRedo |-> branch, displacedOldest |-> oldest, disabled |-> next.disabled]
    <3>1. ASSUME NEW r \in Seq(EntryType)
          PROVE  /\ Restack(next, kept, r, branch, oldest) \in StateType
                 /\ Restack(next, kept, r, branch, oldest) =
                      [rev |-> next.rev, content |-> next.content, undo |-> kept, redo |-> r,
                       displacedRedo |-> branch, displacedOldest |-> oldest, disabled |-> next.disabled]
      <4>1. next \in StateType /\ kept \in Seq(EntryType) /\ branch \in Seq(EntryType) /\ oldest \in Seq(EntryType)
        BY <2>1, <2>4
      <4> QED
        BY <4>1, RestackedState
    <3> QED
      BY <2>4, <3>1
  <2> HIDE DEF x
  <2>6. x = p
    BY <2>2, <2>5
  <2> QED
    BY <2>3, <2>5, <2>6 DEF x
<1>13. RedoChain(<<>>, to)
  BY EmptySeq DEF RedoChain
<1>14. Displaced(p) /\ Grouped(p)
  BY <1>9, <1>10, <1>11 DEF Displaced, Grouped
<1>15. Linked(p)
  BY <1>9, <1>13, <1>14 DEF Linked
<1> QED
  BY <1>12, <1>15 DEF Good

(* Every state that prepare() makes for an edit of the described content.      *)
LEMMA EditGood ==
  ASSUME NEW h, Good(h), ~h.disabled, NEW rev \in Nat, NEW to \in Content,
         NEW group \in Group \cup {NoGroup}
  PROVE  Good(PrepareEdit(h, rev, h.content, to, group))
PROOF
<1> DEFINE next == [h EXCEPT !.rev = rev, !.content = to]
<1>1. CASE h.content = to
  <2>1. h \in StateType /\ Linked(h)
    BY DEF Good
  <2>2. next = [rev |-> rev, content |-> to, undo |-> h.undo, redo |-> h.redo, displacedRedo |-> h.displacedRedo,
                displacedOldest |-> h.displacedOldest, disabled |-> h.disabled]
    BY <2>1, EditedState
  <2>3. next \in StateType
    BY <2>1, EditedState
  <2>4. /\ next.undo = h.undo /\ next.redo = h.redo /\ next.displacedRedo = h.displacedRedo
        /\ next.displacedOldest = h.displacedOldest /\ next.content = h.content
    BY <1>1, <2>2
  <2>5. PrepareEdit(h, rev, h.content, to, group) = next
    BY <1>1 DEF PrepareEdit
  <2> HIDE DEF next
  <2>6. Linked(next)
    BY <2>1, <2>4 DEF Linked, Displaced, Grouped
  <2> QED
    BY <2>3, <2>5, <2>6 DEF Good
<1>2. CASE h.content # to /\ Merges(h, group)
  <2>1. PrepareEdit(h, rev, h.content, to, group) = Merged(next, to)
    BY <1>2 DEF PrepareEdit
  <2> QED
    BY <1>2, <2>1, MergedGood
<1>3. CASE h.content # to /\ ~Merges(h, group)
  <2>1. PrepareEdit(h, rev, h.content, to, group) = Pushed(next, h.content, to, group)
    BY <1>3 DEF PrepareEdit
  <2> QED
    BY <2>1, PushedGood
<1> QED
  BY <1>1, <1>2, <1>3

(* seal_group() closes the newest entry and forgets what was displaced.        *)
LEMMA SealGood ==
  ASSUME NEW h, Good(h)
  PROVE  Good([h EXCEPT !.undo = Sealed(h.undo), !.displacedRedo = <<>>, !.displacedOldest = <<>>])
PROOF
<1> DEFINE u == Sealed(h.undo)
           g == [h EXCEPT !.undo = Sealed(h.undo), !.displacedRedo = <<>>, !.displacedOldest = <<>>]
<1>1. h \in StateType /\ h.undo \in Seq(EntryType) /\ <<>> \in Seq(EntryType) /\ Len(h.undo) \in Nat
  BY EmptySeq, LenProperties DEF Good, StateType
<1>2. /\ u \in Seq(EntryType) /\ Len(u) = Len(h.undo)
      /\ \A i \in 1 .. Len(h.undo) : u[i].from = h.undo[i].from /\ u[i].to = h.undo[i].to
      /\ \A i \in 1 .. Len(h.undo) : i = Len(h.undo) \/ h.undo[i].group = NoGroup => u[i].group = NoGroup
  BY <1>1, SealedStack
<1>3. /\ g = [rev |-> h.rev, content |-> h.content, undo |-> u, redo |-> h.redo, displacedRedo |-> <<>>,
           displacedOldest |-> <<>>, disabled |-> h.disabled]
      /\ g \in StateType
  <2> HIDE DEF u
  <2> DEFINE x == Restack(h, u, h.redo, <<>>, <<>>)
  <2>1. h \in StateType /\ u \in Seq(EntryType) /\ h.redo \in Seq(EntryType) /\ <<>> \in Seq(EntryType)
    BY <1>1, <1>2 DEF StateType
  <2>2. g = x
    BY <2>1, SealedState DEF u
  <2>3. /\ x \in StateType
        /\ x = [rev |-> h.rev, content |-> h.content, undo |-> u, redo |-> h.redo, displacedRedo |-> <<>>,
                displacedOldest |-> <<>>, disabled |-> h.disabled]
    BY <2>1, RestackedClear
  <2> QED
    BY <2>2, <2>3
<1> HIDE DEF u, g
<1>4. ASSUME ~g.disabled PROVE Linked(g)
  <2>1. UndoChain(h.undo, h.content) /\ RedoChain(h.redo, h.content) /\ Grouped(h)
    BY <1>3, <1>4 DEF Good, Linked
  <2>2. UndoChain(u, h.content)
    BY <1>1, <1>2, <2>1, SameDeltas
  <2>3. /\ \A i \in 1 .. Len(u) - 1 : u[i].group = NoGroup
        /\ u # <<>> => Last(u).group = NoGroup
    <3>1. \A i \in 1 .. Len(u) : u[i].group = NoGroup
      BY <1>1, <1>2, <2>1 DEF Grouped
    <3>2. u # <<>> => Len(u) \in 1 .. Len(u)
      BY <1>2, EmptySeq
    <3> QED
      BY <1>1, <1>2, <3>1, <3>2 DEF Last
  <2> QED
    BY <1>3, <2>1, <2>2, <2>3 DEF Linked, Displaced, Grouped
<1> QED
  BY <1>3, <1>4 DEF Good, g

(* invalidate() and reconcile() keep the object good; a session that is still  *)
(* enabled after reconcile() describes the committed content.                  *)
LEMMA InvalidateGood ==
  ASSUME NEW o, GoodObject(o)
  PROVE  GoodObject(Invalidate(o)) /\ ~Owns(Invalidate(o))
PROOF
<1>1. CASE o.state = None
  BY <1>1 DEF Invalidate, Owns
<1>2. CASE o.state # None
  <2> DEFINE h == [o.state EXCEPT !.undo = <<>>, !.redo = <<>>, !.displacedRedo = <<>>,
                                  !.displacedOldest = <<>>, !.disabled = TRUE]
  <2>1. o.state \in StateType /\ <<>> \in Seq(EntryType)
    BY <1>2, EmptySeq DEF GoodObject, Good
  <2>2. h \in StateType /\ h.disabled = TRUE
    BY <2>1 DEF StateType
  <2>3. Invalidate(o) = [state |-> h, before |-> None, after |-> None]
    BY <1>2 DEF Invalidate
  <2> HIDE DEF h
  <2>4. Good(h)
    BY <2>2 DEF Good
  <2> QED
    BY <2>2, <2>3, <2>4 DEF GoodObject, Objects, Owns
<1> QED
  BY <1>1, <1>2

LEMMA SettledGood ==
  ASSUME NEW h, Good(h) PROVE GoodObject(Settled(h))
  BY DEF Good, GoodObject, Objects, Settled

LEMMA ReconcileGood ==
  ASSUME NEW o, GoodObject(o), NEW rev, NEW content
  PROVE  /\ GoodObject(Reconcile(o, rev, content))
         /\ Owns(Reconcile(o, rev, content)) =>
              Good(Reconcile(o, rev, content).state) /\ Reconcile(o, rev, content).state.content = content
PROOF
<1> DEFINE settled ==
             CASE o.after = None -> o
               [] o.after # None /\ Matches(o.after, rev, content) -> Settled(o.after)
               [] o.after # None /\ ~Matches(o.after, rev, content)
                    /\ Matches(o.before, rev, content) -> Settled(o.before)
               [] OTHER -> Invalidate(o)
<1>1. CASE o.state = None
  BY <1>1 DEF Reconcile, Owns
<1>2. CASE o.state # None
  <2>1. GoodObject(settled)
    <3>1. CASE o.after = None
      BY <3>1
    <3>2. CASE o.after # None /\ Matches(o.after, rev, content)
      <4>1. settled = Settled(o.after)
        BY <3>2
      <4> QED
        BY <3>2, <4>1, SettledGood DEF GoodObject
    <3>3. CASE o.after # None /\ ~Matches(o.after, rev, content) /\ Matches(o.before, rev, content)
      <4>1. settled = Settled(o.before)
        BY <3>3
      <4> QED
        BY <3>3, <4>1, SettledGood DEF GoodObject
    <3>4. CASE o.after # None /\ ~Matches(o.after, rev, content) /\ ~Matches(o.before, rev, content)
      <4>1. settled = Invalidate(o)
        BY <3>4
      <4> QED
        BY <4>1, InvalidateGood
    <3> QED
      BY <3>1, <3>2, <3>3, <3>4
  <2>2. Reconcile(o, rev, content) = IF Matches(settled.state, rev, content) THEN settled ELSE Invalidate(settled)
    BY <1>2 DEF Reconcile
  <2> HIDE DEF settled
  <2>3. CASE Matches(settled.state, rev, content)
    BY <2>1, <2>2, <2>3 DEF Matches, Owns, GoodObject
  <2>4. CASE ~Matches(settled.state, rev, content)
    BY <2>1, <2>2, <2>4, InvalidateGood
  <2> QED
    BY <2>3, <2>4
<1> QED
  BY <1>1, <1>2
-------------------------------------------------------------------------------
(* A publication, whatever its outcome, keeps the object good.                 *)
LEMMA PublishGood ==
  ASSUME IInv, NEW o, GoodObject(o), NEW next, Owns(o) => Good(next), NEW to \in Content,
         NEW outcome, Publish(o, next, to, outcome)
  PROVE  IInv'
PROOF
<1>1. truth' \in [rev : Nat, content : Content]
  BY DEF IInv, Publish
<1>2. GoodObject(history')
  <2>1. history' \in {o, Confirm(o, next), Begin(o, next)}
    BY DEF Publish
  <2>2. GoodObject(Confirm(o, next))
    BY SettledGood DEF Confirm
  <2>3. GoodObject(Begin(o, next))
    <3>1. CASE ~Owns(o)
      BY <3>1 DEF Begin
    <3>2. CASE Owns(o)
      <4>1. Begin(o, next) = [state |-> o.state, before |-> o.state, after |-> next] /\ o.state # None
        BY <3>2 DEF Begin, Owns, GoodObject, Objects
      <4>2. Good(next) /\ Good(o.state)
        BY <3>2, <4>1 DEF GoodObject
      <4> QED
        BY <4>1, <4>2 DEF GoodObject, Objects, Good
    <3> QED
      BY <3>1, <3>2
  <2> QED
    BY <2>1, <2>2, <2>3
<1> QED
  BY <1>1, <1>2 DEF IInv, GoodObject

(* No session is open at first.                                                *)
LEMMA InitIInv == Init => IInv
  BY DEF Init, IInv, Closed, GoodObject, Objects

LEMMA NextIInv == ASSUME IInv, [Next]_vars PROVE IInv'
PROOF
<1> DEFINE o == Reconcile(history, truth.rev, truth.content)
<1>1. truth.rev \in Nat /\ truth.rev + 1 \in Nat /\ truth.content \in Content
  BY DEF IInv
<1>2. GoodObject(o) /\ (Owns(o) => Good(o.state) /\ o.state.content = truth.content /\ ~o.state.disabled)
  BY ReconcileGood DEF IInv, Owns
<1> HIDE DEF o
<1>3. ASSUME NEW c \in Content, NEW group \in Group \union {NoGroup}, NEW outcome \in Outcome, Commit(c, group, outcome)
      PROVE  IInv'
  <2> DEFINE next == PrepareEdit(o.state, truth.rev + 1, truth.content, c, group)
  <2>1. Owns(o) => Good(next)
    BY <1>1, <1>2, EditGood
  <2> HIDE DEF next
  <2>2. CASE Owns(o)
    <3>1. Publish(o, next, c, outcome)
      BY <1>3, <2>2 DEF Commit, o, next
    <3> QED
      BY <1>2, <2>1, <3>1, PublishGood
  <2>3. CASE ~Owns(o)
    <3>1. Publish(o, None, c, outcome)
      BY <1>3, <2>3 DEF Commit, o
    <3> QED
      BY <1>2, <2>3, <3>1, PublishGood
  <2> QED
    BY <2>2, <2>3
<1>4. ASSUME NEW redo \in BOOLEAN, NEW outcome \in Outcome, Restore(redo, outcome)
      PROVE  IInv'
  <2>1. /\ CanRestore(o, truth.content, redo)
        /\ Publish(o, PrepareRestore(o.state, truth.rev + 1, redo), Selected(o.state, redo), outcome)
    BY <1>4 DEF Restore, o
  <2>2. Owns(o) /\ (IF redo THEN o.state.redo ELSE o.state.undo) # <<>>
    BY <2>1 DEF CanRestore, Owns
  <2>3. Good(PrepareRestore(o.state, truth.rev + 1, redo))
    BY <1>1, <1>2, <2>2, RestoreGood
  <2>4. Selected(o.state, redo) \in Content
    <3>1. o.state.redo \in Seq(EntryType) /\ o.state.undo \in Seq(EntryType)
      BY <1>2, <2>2 DEF Good, StateType
    <3>2. CASE redo = TRUE
      <4>1. Last(o.state.redo) \in EntryType
        BY <2>2, <3>1, <3>2, FrontOfStack
      <4> QED
        BY <3>2, <4>1 DEF Selected, EntryType
    <3>3. CASE redo = FALSE
      <4>1. Last(o.state.undo) \in EntryType
        BY <2>2, <3>1, <3>3, FrontOfStack
      <4> QED
        BY <3>3, <4>1 DEF Selected, EntryType
    <3> QED
      BY <3>2, <3>3
  <2> QED
    BY <1>2, <2>1, <2>3, <2>4, PublishGood
<1>5. CASE Open
  <2>1. history' = Start(truth.rev, truth.content) /\ truth' = truth
    BY <1>5 DEF Open
  <2> DEFINE h == [rev |-> truth.rev, content |-> truth.content, undo |-> <<>>, redo |-> <<>>,
                   displacedRedo |-> <<>>, displacedOldest |-> <<>>, disabled |-> FALSE]
  <2>2. h \in StateType
    BY <1>1, EmptySeq DEF StateType
  <2>3. Linked(h)
    BY EmptySeq DEF Linked, UndoChain, RedoChain, Displaced, Grouped
  <2>4. GoodObject(Start(truth.rev, truth.content))
    <3>1. Start(truth.rev, truth.content) = Settled(h)
      BY DEF Start, Settled
    <3> QED
      BY <2>2, <2>3, <3>1, SettledGood DEF Good
  <2> QED
    BY <2>1, <2>4 DEF IInv, GoodObject
<1>6. CASE Inspect
  BY <1>2, <1>6 DEF Inspect, IInv, GoodObject, o
<1>7. CASE OwnerLost
  <2>1. GoodObject(Invalidate(history))
    BY InvalidateGood DEF IInv
  <2> QED
    BY <1>7, <2>1 DEF OwnerLost, IInv, GoodObject
<1>8. CASE Close
  BY <1>8 DEF Close, Closed, IInv, GoodObject, Objects
<1>9. CASE Seal
  <2>1. GoodObject(SealGroup(history))
    <3>1. CASE history.state = None \/ history.after # None
      BY <3>1 DEF SealGroup, IInv
    <3>2. CASE ~(history.state = None \/ history.after # None)
      <4> DEFINE g == [history.state EXCEPT !.undo = Sealed(history.state.undo), !.displacedRedo = <<>>, !.displacedOldest = <<>>]
      <4>1. Good(g)
        BY <3>2, SealGood DEF IInv, GoodObject
      <4>2. SealGroup(history) = [history EXCEPT !.state = g]
        BY <3>2, Zenon DEF SealGroup
      <4> HIDE DEF g
      <4>3. [history EXCEPT !.state = g] \in Objects
        BY <4>1 DEF IInv, GoodObject, Objects, Good
      <4>4. /\ [history EXCEPT !.state = g].state = g /\ [history EXCEPT !.state = g].before = history.before
            /\ [history EXCEPT !.state = g].after = history.after
        BY DEF IInv, GoodObject, Objects
      <4> QED
        BY <4>1, <4>2, <4>3, <4>4 DEF IInv, GoodObject
    <3> QED
      BY <3>1, <3>2
  <2> QED
    BY <1>9, <2>1 DEF Seal, IInv, GoodObject
<1>10. ASSUME NEW c \in Content, Foreign(c) PROVE IInv'
  BY <1>1, <1>10 DEF Foreign, IInv, GoodObject
<1>11. CASE UNCHANGED vars
  BY <1>11 DEF vars, IInv, GoodObject
<1> QED
  BY <1>3, <1>4, <1>5, <1>6, <1>7, <1>8, <1>9, <1>10, <1>11 DEF Next

(* Whatever an unknown publication did and whatever other processes committed, *)
(* an enabled session describes the committed content, and Undo and Redo lead  *)
(* from it only through contents the session really had.                       *)
THEOREM HistorySound == Spec => []RestoresWhatWas
PROOF
<1>1. IInv => RestoresWhatWas
  BY ReconcileGood DEF IInv, RestoresWhatWas, Owns, Good, Linked, Chained, UndoChain, RedoChain
<1> QED
  BY <1>1, InitIInv, NextIInv, PTL DEF Spec
===============================================================================
