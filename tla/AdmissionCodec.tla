---------------------------- MODULE AdmissionCodec ----------------------------
(* The admission part of a Sequence Journal: live pad input is retained as    *)
(* candidates, each stamped with a watermark and an audio frame, between an   *)
(* admission fence and a cutoff fence; prefixes of the candidates are         *)
(* converted ("transferred") into the Journal's pending events, and the       *)
(* admission completes when nothing is left.  These are the operators a       *)
(* reader folds over the Journal's records and a writer evaluates, under the  *)
(* writer lease, before it appends one (admission_codec::apply): for each     *)
(* record kind, whether the state already holds it (an exact retry is then    *)
(* synced and not appended), whether it may follow, and the state after it.   *)
(* Identities, hashes and byte budgets are represented by the values they     *)
(* are computed from.                                                         *)
EXTENDS Integers, Sequences, FiniteSets, SequencesExt, TLC

CONSTANT Nil                    \* std::nullopt

(* A batch of Pattern events: at most one event per key (pad slot and onset   *)
(* tick), so a function from keys to what was played.                         *)
NoEvents == <<>>
Merge(stored, incoming) == incoming @@ stored
Residual(committed, candidate) ==
  [k \in {k \in DOMAIN candidate : k \notin DOMAIN committed
                                    \/ committed[k] # candidate[k]} |-> candidate[k]]
Covers(committed, candidate) == DOMAIN candidate \subseteq DOMAIN committed

Recording(j) == j.state \in {"active", "switching"}
AllCompleted(j) == \A i \in DOMAIN j.flushes : j.flushes[i].completed
-------------------------------------------------------------------------------
(* The state of one admission: what admission-prepare starts from.            *)
Prepared(p) ==
  [prep |-> p, candidates |-> <<>>, opening |-> Nil, cutoff |-> Nil, closure |-> Nil,
   transfers |-> <<>>, switches |-> <<>>, profiles |-> <<>>,
   segment |-> p.gen, published |-> 0, completed |-> FALSE]

LastWatermark(s) ==
  LET prefixes == SelectSeq(s.transfers, LAMBDA t : ~t.terminal)
  IN  IF s.candidates # <<>> THEN Last(s.candidates).wm
      ELSE IF prefixes # <<>> THEN Last(prefixes).last ELSE Nil

TerminalRetained(s) == s.transfers # <<>> /\ Last(s.transfers).terminal

(* The switch a cutoff fence reports as applied before it.                    *)
CutoffSwitch(s) == IF s.cutoff = Nil THEN Nil ELSE s.cutoff.applied

SegmentOf(s, gen) ==
  IF gen = s.prep.gen
  THEN [pattern |-> s.prep.pattern, gen |-> gen,
        frame |-> IF s.opening = Nil THEN 0 ELSE s.opening.frame]
  ELSE LET own == {s.switches[i] : i \in {i \in DOMAIN s.switches : s.switches[i].gen = gen}}
       IN  IF own # {} THEN CHOOSE a \in own : TRUE
           ELSE IF CutoffSwitch(s) # Nil /\ CutoffSwitch(s).gen = gen THEN CutoffSwitch(s)
           ELSE Nil

Segment(s) == SegmentOf(s, s.segment)

(* An applied switch the Journal has not followed yet.                        *)
PendingSwitch(s) ==
  IF s.switches # <<>> /\ Last(s.switches).gen > s.segment THEN Last(s.switches)
  ELSE IF CutoffSwitch(s) # Nil /\ CutoffSwitch(s).gen > s.segment THEN CutoffSwitch(s)
  ELSE Nil

(* Mutant: a new segment starts with the notes the one before it still held.  *)
Checkpoint(s, pattern) ==
  LET a == Segment(s)
  IN  IF s.transfers # <<>> /\ Last(s.transfers).checkpoint.gen = a.gen
      THEN Last(s.transfers).checkpoint
      ELSE [pattern |-> pattern, gen |-> a.gen, frame |-> a.frame, owned |-> NoEvents]

(* The opening comes before the cutoff, under another command.                *)
FencesValid(s) ==
  /\ s.opening # Nil => s.opening.kind = "admission"
  /\ s.cutoff # Nil => s.cutoff.kind = "cutoff"
  /\ s.opening # Nil /\ s.cutoff # Nil =>
       s.cutoff.frame >= s.opening.frame /\ s.cutoff.cmd # s.opening.cmd

(* Applied switches advance, at most one of them is not yet followed, and a   *)
(* cutoff agrees with the last of them.                                       *)
SwitchesValid(s) ==
  LET first == [pattern |-> s.prep.pattern, gen |-> s.prep.gen,
                frame |-> IF s.opening = Nil THEN 0 ELSE s.opening.frame]
      seen == <<first>> \o s.switches
      previous == Last(seen)
      waiting == {i \in DOMAIN s.switches : s.switches[i].gen > s.segment}
      c == CutoffSwitch(s)
  IN  /\ \A i \in DOMAIN s.switches :
            /\ seen[i + 1].gen > seen[i].gen
            /\ seen[i + 1].frame >= seen[i].frame
            /\ seen[i + 1].pattern # seen[i].pattern
      /\ Cardinality(waiting) <= 1
      /\ Segment(s) # Nil
      /\ s.cutoff # Nil =>
           /\ \A i \in DOMAIN s.switches :
                 /\ s.switches[i].frame < s.cutoff.frame
                 /\ c # Nil /\ s.switches[i].gen = c.gen => s.switches[i] = c
           /\ IF c = Nil
              THEN /\ s.cutoff.pattern = previous.pattern
                   /\ s.cutoff.gen = IF s.published > previous.gen THEN s.published ELSE previous.gen
              ELSE /\ c.gen >= previous.gen /\ c.frame >= previous.frame
                   /\ IF c.gen = previous.gen
                      THEN c.pattern = previous.pattern /\ (s.switches = <<>> \/ c = previous)
                      ELSE waiting = {}

(* Profiles name applied segments, never run backwards and never reach back   *)
(* over input that came before them.                                          *)
ProfilesValid(s, revision) ==
  \A i \in DOMAIN s.profiles : LET p == s.profiles[i] IN
    /\ s.opening # Nil
    /\ SegmentOf(s, p.gen) # Nil /\ SegmentOf(s, p.gen).pattern = p.pattern
    /\ p.gen <= s.segment /\ p.first >= s.prep.first /\ p.rev <= revision
    /\ p.frame >= SegmentOf(s, p.gen).frame
    /\ \A k \in 1 .. i - 1 : LET q == s.profiles[k] IN
         q.cmd # p.cmd /\ q.first <= p.first /\ q.gen <= p.gen
                       /\ q.rev <= p.rev /\ q.frame <= p.frame
    /\ \A c \in Range(s.candidates) : c.wm < p.first => c.frame <= p.frame
    /\ \A t \in Range(s.transfers) :
         ~t.terminal /\ t.last < p.first => t.checkpoint.frame <= p.frame

(* Whether unresolved admission input keeps a flush, or a switch to a target, *)
(* from being recorded.                                                       *)
BlocksFlush(j) ==
  /\ j.adm # Nil /\ ~j.adm.completed
  /\ \/ j.adm.opening = Nil
     \/ /\ j.adm.candidates # <<>>
        /\ ~(/\ PendingSwitch(j.adm) # Nil
             /\ \A c \in Range(j.adm.candidates) : c.frame >= PendingSwitch(j.adm).frame)

BlocksSwitch(j, target) ==
  /\ j.adm # Nil /\ ~j.adm.completed
  /\ \/ BlocksFlush(j)
     \/ j.pending # NoEvents
     \/ j.adm.opening = Nil
     \/ PendingSwitch(j.adm) = Nil
     \/ PendingSwitch(j.adm).pattern # target

(* A recorded switch makes the pending boundary the Journal's segment.        *)
ReconcileSwitch(j) ==
  IF j.adm = Nil \/ j.adm.completed THEN j.adm
  ELSE [j.adm EXCEPT !.segment = PendingSwitch(j.adm).gen]
-------------------------------------------------------------------------------
(* admission-prepare                                                          *)
PrepareKnown(j, p) == j.adm # Nil /\ j.adm.prep = p
PrepareOK(j, p) == j.adm = Nil /\ j.state = "active" /\ p.pattern = j.pattern
PrepareApply(j, p) == [j EXCEPT !.adm = Prepared(p)]

(* admission-profile                                                          *)
ProfileKnown(j, p) == \E q \in Range(j.adm.profiles) : q = p
ProfileApply(j, p) == [j EXCEPT !.adm.profiles = Append(@, p)]
ProfileOK(j, p) ==
  LET s == j.adm IN
  /\ \A q \in Range(s.profiles) : q.cmd # p.cmd
  /\ ~s.completed /\ s.closure = Nil /\ ~TerminalRetained(s) /\ s.opening # Nil
  /\ PendingSwitch(s) = Nil /\ Recording(j)
  /\ p.pattern = j.pattern /\ p.gen = s.segment /\ p.rev = j.rev
  /\ p.frame >= Checkpoint(s, j.pattern).frame
  /\ LastWatermark(s) # Nil => p.first > LastWatermark(s)
  /\ ProfilesValid(ProfileApply(j, p).adm, j.rev)

(* admission-candidate: occupying the last slot closes the admission in the   *)
(* same record.                                                               *)
CandidateKnown(j, c) ==
  \/ \E d \in Range(j.adm.candidates) : d = c
  \/ \E t \in Range(j.adm.transfers) : \E d \in Range(t.receipts) : d = c
CandidateOK(j, c) ==
  LET s == j.adm IN
  /\ ~CandidateKnown(j, c)
  /\ ~s.completed /\ s.closure = Nil /\ ~TerminalRetained(s) /\ Recording(j)
  /\ c.wm >= s.prep.first
  /\ LastWatermark(s) # Nil => c.wm > LastWatermark(s)
  /\ Len(s.candidates) < s.prep.limit
CandidateApply(j, c) ==
  [j EXCEPT !.adm.candidates = Append(@, c),
            !.adm.closure = IF Len(j.adm.candidates) + 1 = j.adm.prep.limit
                            THEN [last |-> c.wm, reason |-> "capacity"] ELSE @]

(* admission-switch: the audio engine applied another Pattern's publication.  *)
SwitchKnown(j, a) == \E b \in Range(j.adm.switches) : b = a
SwitchApply(j, a) == [j EXCEPT !.adm.published = 0, !.adm.switches = Append(@, a)]
SwitchOK(j, a) ==
  LET s == j.adm IN
  /\ \A b \in Range(s.switches) : b.gen # a.gen
  /\ ~s.completed /\ ~TerminalRetained(s) /\ s.opening # Nil /\ Recording(j)
  /\ PendingSwitch(s) # Nil =>
       /\ s.switches # <<>> => Last(s.switches).gen <= s.segment
       /\ PendingSwitch(s) = a
  /\ a.gen > Segment(s).gen /\ a.frame >= Checkpoint(s, j.pattern).frame
  /\ s.cutoff # Nil => CutoffSwitch(s) = a
  /\ SwitchesValid(SwitchApply(j, a).adm)

(* admission-overlay: the current segment was published again.                *)
OverlayKnown(j, gen) == gen = j.adm.published
OverlayOK(j, gen) ==
  LET s == j.adm IN
  /\ gen # s.published
  /\ ~s.completed /\ ~TerminalRetained(s) /\ s.opening # Nil /\ s.cutoff = Nil
  /\ PendingSwitch(s) = Nil /\ j.state = "active"
  /\ gen > s.published /\ gen > Segment(s).gen
OverlayApply(j, gen) == [j EXCEPT !.adm.published = gen]

(* admission-fence: the two fences are immutable.                             *)
FenceValid(f, p) ==
  /\ \/ f.kind = "admission" /\ f.epoch = p.epoch /\ f.pattern = p.pattern /\ f.gen = p.gen
     \/ f.kind = "cutoff" /\ f.epoch > p.epoch
  /\ f.applied # Nil => /\ f.applied.frame < f.frame
                        /\ f.pattern = f.applied.pattern /\ f.gen = f.applied.gen
FenceKnown(j, f) == f \in {j.adm.opening, j.adm.cutoff}
FenceApply(j, f) == IF f.kind = "admission" THEN [j EXCEPT !.adm.opening = f]
                    ELSE [j EXCEPT !.adm.cutoff = f]
FenceOK(j, f) ==
  /\ FenceValid(f, j.adm.prep)
  /\ Nil = IF f.kind = "admission" THEN j.adm.opening ELSE j.adm.cutoff
  /\ ~j.adm.completed
  /\ FencesValid(FenceApply(j, f).adm) /\ SwitchesValid(FenceApply(j, f).adm)

(* admission-close: no later input is retained than the closure names.        *)
CloseKnown(j, c) == j.adm.closure = c
CloseOK(j, c) == j.adm.closure = Nil /\ ~j.adm.completed /\ c.last = LastWatermark(j.adm)
CloseApply(j, c) == [j EXCEPT !.adm.closure = c]

(* admission-transfer: a converted prefix of the candidates, or the terminal  *)
(* receipt that ends the held notes at the cutoff.                            *)
TransferKnown(j, t) == \E u \in Range(j.adm.transfers) : u = t
TransferOK(j, t) ==
  LET s == j.adm
      before == Checkpoint(s, j.pattern)
      n == Len(t.receipts) IN
  /\ \A u \in Range(s.transfers) : u.id # t.id
  /\ ~s.completed /\ ~TerminalRetained(s) /\ s.opening # Nil /\ Recording(j)
  /\ t.pattern = j.pattern /\ t.rev = j.rev
  /\ t.checkpoint.gen = before.gen /\ t.checkpoint.frame >= before.frame
  /\ IF t.terminal
     THEN /\ s.cutoff # Nil /\ s.closure # Nil /\ s.candidates = <<>>
          /\ PendingSwitch(s) = Nil /\ t.receipts = <<>> /\ t.checkpoint.owned = NoEvents
          /\ t.input = Nil /\ t.pattern = s.cutoff.pattern
     ELSE /\ n > 0 /\ n <= Len(s.candidates)
          /\ t.receipts = SubSeq(s.candidates, 1, n)
          /\ t.last = s.candidates[n].wm
          /\ s.closure # Nil => s.cutoff # Nil
          /\ t.input = Nil => t.tail = j.pending /\ t.checkpoint = before
  /\ t.input # Nil /\ j.lastInput # Nil => t.input > j.lastInput
TransferApply(j, t) ==
  [j EXCEPT !.lastInput = IF t.input = Nil THEN @ ELSE t.input,
            !.nextTail = IF t.input = Nil THEN @ ELSE @ + 1,
            !.pending = t.tail,
            !.adm.transfers = Append(@, t),
            !.adm.candidates = SubSeq(@, Len(t.receipts) + 1, Len(@))]

(* admission-complete: nothing retained is left to convert or to commit.      *)
CompleteKnown(j) == j.adm.completed
CompleteOK(j) ==
  LET s == j.adm IN
  /\ ~s.completed /\ s.opening # Nil /\ s.cutoff # Nil /\ s.closure # Nil
  /\ s.candidates = <<>> /\ PendingSwitch(s) = Nil /\ TerminalRetained(s)
  /\ Last(s.transfers).checkpoint.owned = NoEvents
  /\ j.pending = NoEvents /\ AllCompleted(j)
CompleteApply(j) == [j EXCEPT !.adm.completed = TRUE]

(* The same rules read back from a sealed snapshot.                           *)
SnapshotValid(j) ==
  LET s == j.adm
      prefixes == SelectSeq(s.transfers, LAMBDA t : ~t.terminal)
      inputs == FlattenSeq([i \in DOMAIN prefixes |-> prefixes[i].receipts]) \o s.candidates IN
  /\ s.published = 0 \/ s.published > s.prep.gen
  /\ FencesValid(s) /\ SwitchesValid(s) /\ ProfilesValid(s, j.rev)
  /\ ~s.completed => Segment(s).pattern = j.pattern
  /\ \A i \in DOMAIN s.transfers : LET t == s.transfers[i] IN
       /\ SegmentOf(s, t.checkpoint.gen) # Nil
       /\ SegmentOf(s, t.checkpoint.gen).pattern = t.pattern
       /\ t.checkpoint.gen <= s.segment
       /\ t.checkpoint.frame >= SegmentOf(s, t.checkpoint.gen).frame
       /\ \A k \in 1 .. i - 1 : /\ ~s.transfers[k].terminal
                                /\ s.transfers[k].id # t.id
                                /\ s.transfers[k].checkpoint.gen <= t.checkpoint.gen
       /\ t.terminal => /\ s.cutoff # Nil /\ s.closure # Nil /\ s.candidates = <<>>
                        /\ PendingSwitch(s) = Nil /\ t.pattern = s.cutoff.pattern
                        /\ t.checkpoint.owned = NoEvents
  /\ \A i \in DOMAIN inputs : /\ inputs[i].wm >= s.prep.first
                              /\ \A k \in 1 .. i - 1 : inputs[k].wm < inputs[i].wm
  /\ Len(s.candidates) <= s.prep.limit
  /\ Len(s.candidates) = s.prep.limit => s.closure # Nil
  /\ s.closure # Nil => s.closure.last = LastWatermark(s)
  /\ s.transfers # <<>> => s.opening # Nil
  /\ s.completed => TerminalRetained(s)
==============================================================================
