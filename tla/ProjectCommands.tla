------------------------------ MODULE ProjectCommands ------------------------------
(* The authoring domain: the state of a Project and the commands that edit    *)
(* it.  Each command is a guard, which is its refusals, and a result.  The    *)
(* store keeps the accepted commands and one checkpoint; a load replays the   *)
(* whole log from checkpoint zero and requires it to give the head again, so  *)
(* the commands must do the same then as they did when they were accepted.    *)
(* Artifacts, velocities, names, tempo values and playback parameters are     *)
(* reduced to whether they were changed.                                      *)
EXTENDS Integers, Sequences, FiniteSets, SequencesExt

CONSTANTS AssetIds, PatternIds, PerformanceIds,
          Banks,        \* number of Banks
          BankPads,     \* Pads of a Bank
          SlotCount,    \* kPatternSlotCount
          Sixteenth,    \* kSixteenthTicks
          BarTicks,     \* kBarTicks4x4
          LongestBars,  \* the longest Pattern, in bars
          Ops,          \* the commands of a run
          MaxRevision   \* bound: commands accepted

NoName == "none"
Pad == (0 .. Banks - 1) \X (0 .. BankPads - 1)
Slot == 0 .. SlotCount - 1
Bars == {b \in {1, 2, 4, 8} : b <= LongestBars}
Lineage == {NoName, "resample", "soundset", "adoption"}
CommandAssumption ==
  /\ Banks \in Nat \ {0} /\ BankPads \in Nat \ {0} /\ SlotCount \in Nat /\ MaxRevision \in Nat
  /\ Sixteenth \in Nat \ {0} /\ BarTicks \in Nat \ {0} /\ LongestBars \in {1, 2, 4, 8}
  /\ NoName \notin AssetIds \cup PatternIds \cup PerformanceIds

VARIABLES st,    \* the Project in memory, after every commit also the head checkpoint
          log,   \* the commands of the transactions, as they are persisted
          zero,  \* checkpoint zero
          failed \* a commit found that its checkpoint would not be read back
vars == <<st, log, zero, failed>>

EmptyPad == [asset |-> NoName, playback |-> "default", colour |-> NoName]
CreateProject(contract) ==
  [contract |-> contract, revision |-> 0, settings |-> "default", assets |-> <<>>,
   pads |-> [p \in Pad |-> EmptyPad], patterns |-> <<>>, slots |-> [n \in Slot |-> NoName],
   performances |-> <<>>]
(* A Project of this build, or one that an older build created.               *)
Init ==
  /\ \E contract \in {3, 4, 5} : st = CreateProject(contract)
  /\ log = <<>> /\ zero = st /\ failed = FALSE

Put(f, k, v) == [x \in DOMAIN f \cup {k} |-> IF x = k THEN v ELSE f[x]]
-------------------------------------------------------------------------------
(* Patterns.  The events of a Pattern are kept sorted and one per Pad and     *)
(* onset, so they are a set here.                                             *)
Key(e) == <<e.pad, e.on>>
Ticks(bars) == bars * BarTicks

(* merge_pattern_events(): the incoming event of a key replaces the stored    *)
(* one, and the last one the earlier ones.                                    *)
MergeEvents(stored, incoming) ==
  {e \in stored : \A k \in DOMAIN incoming : Key(incoming[k]) # Key(e)}
  \cup {incoming[k] : k \in {j \in DOMAIN incoming :
                               \A l \in DOMAIN incoming : l > j => Key(incoming[l]) # Key(incoming[j])}}

ValidEvent(e, bars) ==
  /\ e.pad \in Pad /\ e.on < Ticks(bars)
  /\ e.dur # 0 /\ e.dur <= Ticks(bars) - e.on
ValidPattern(p) == p.bars \in Bars /\ \A e \in p.events : ValidEvent(e, p.bars)

(* Mutant: a note that crosses the new end keeps its length.                  *)
ShortenedUncut(p, bars) == [bars |-> bars, events |-> {e \in p.events : e.on < Ticks(bars)}]
Shortened(p, bars) ==
  [bars |-> bars,
   events |-> {IF e.on + e.dur <= Ticks(bars) THEN e ELSE [e EXCEPT !.dur = Ticks(bars) - e.on] :
                 e \in {f \in p.events : f.on < Ticks(bars)}}]
(* Mutant: the second half begins one tick early.                             *)
Doubled(p) ==
  [bars |-> 2 * p.bars,
   events |-> p.events \cup {[e EXCEPT !.on = @ + Ticks(p.bars)] : e \in p.events}]

(* quantize_onset_tick(), normalize_duration_tick(): the note a recorded      *)
(* gesture becomes.                                                           *)
QuantizeOnset(raw, loop, quantize, swing) ==
  LET tick == raw % loop
      grid == (tick + Sixteenth \div 2 - 1) \div Sixteenth
      plain == (grid * Sixteenth) % loop
      swung == (grid - 1) * Sixteenth + (2 * Sixteenth * swing + 50) \div 100
  IN  IF ~ quantize THEN tick
      ELSE IF plain = 0 \/ grid % 2 = 0 THEN plain ELSE swung % loop
(* Mutant: the duration is not cut at the end of the loop.                    *)
NormalizeDuration(attack, release, onset, loop) ==
  LET raw == IF release > attack THEN release - attack ELSE 1
  IN  IF raw <= loop - onset THEN raw ELSE loop - onset
Recorded(pad, attack, release, bars, swing) ==
  LET onset == QuantizeOnset(attack, Ticks(bars), TRUE, swing)
  IN  [pad |-> pad, on |-> onset, dur |-> NormalizeDuration(attack, release, onset, Ticks(bars))]

(* validate_pattern_slots()                                                   *)
ValidSlots(s) ==
  /\ \A n \in Slot : s.slots[n] # NoName => s.slots[n] \in DOMAIN s.patterns
  /\ \A n, k \in Slot : s.slots[n] = s.slots[k] /\ s.slots[n] # NoName => n = k
-------------------------------------------------------------------------------
(* Commands on Pattern slots.                                                 *)
CanAssignSlot(s, c) ==
  /\ ValidSlots(s) /\ c.slot \in Slot /\ c.pattern \in DOMAIN s.patterns
  /\ s.slots[c.slot] = NoName /\ \A n \in Slot : s.slots[n] # c.pattern
AssignSlot(s, c) == [s EXCEPT !.slots[c.slot] = c.pattern]

CanClearSlot(s, c) == ValidSlots(s) /\ c.slot \in Slot /\ s.slots[c.slot] # NoName
ClearSlot(s, c) == [s EXCEPT !.slots[c.slot] = NoName]

CanMoveSlot(s, c) ==
  /\ ValidSlots(s) /\ c.slot \in Slot /\ c.to \in Slot /\ c.slot # c.to
  /\ s.slots[c.slot] # NoName /\ s.slots[c.to] = NoName
MoveSlot(s, c) == [s EXCEPT !.slots[c.slot] = NoName, !.slots[c.to] = s.slots[c.slot]]

(* Commands on Patterns.                                                      *)
(* Mutant: an identity that is in use is taken again.                         *)
CanCreateAgain(s, c) ==
  c.bars \in Bars /\ \A k \in DOMAIN c.events : ValidEvent(c.events[k], c.bars)
CanCreate(s, c) ==
  /\ c.pattern \notin DOMAIN s.patterns
  /\ c.bars \in Bars /\ \A k \in DOMAIN c.events : ValidEvent(c.events[k], c.bars)
Create(s, c) ==
  [s EXCEPT !.patterns = Put(@, c.pattern, [bars |-> c.bars, events |-> MergeEvents({}, c.events)])]

CanMerge(s, c) ==
  /\ c.pattern \in DOMAIN s.patterns
  /\ \A k \in DOMAIN c.events : ValidEvent(c.events[k], s.patterns[c.pattern].bars)
Merge(s, c) == [s EXCEPT !.patterns[c.pattern].events = MergeEvents(@, c.events)]

Edited(s, c) ==
  MergeEvents({e \in s.patterns[c.pattern].events : Key(e) \notin c.remove}, c.events)
(* Mutant: an edit that changes nothing is accepted.                          *)
CanEdit(s, c) ==
  /\ c.pattern \in DOMAIN s.patterns
  /\ \A j, k \in DOMAIN c.events : Key(c.events[j]) = Key(c.events[k]) => j = k
  /\ c.remove # {} \/ c.events # <<>>
  /\ \A k \in DOMAIN c.events : ValidEvent(c.events[k], s.patterns[c.pattern].bars)
  /\ c.remove \subseteq {Key(e) : e \in s.patterns[c.pattern].events}
  /\ Edited(s, c) # s.patterns[c.pattern].events
Edit(s, c) == [s EXCEPT !.patterns[c.pattern].events = Edited(s, c)]

CanResize(s, c) ==
  c.bars \in Bars /\ c.pattern \in DOMAIN s.patterns /\ s.patterns[c.pattern].bars # c.bars
Resize(s, c) == [s EXCEPT !.patterns[c.pattern] = Shortened(@, c.bars)]

CanDouble(s, c) == c.pattern \in DOMAIN s.patterns /\ s.patterns[c.pattern].bars < LongestBars
Double(s, c) == [s EXCEPT !.patterns[c.pattern] = Doubled(@)]

(* A slotted source places its copy in the first empty slot after its own.    *)
CopySlots(s, c) ==
  {n \in Slot : /\ s.slots[n] = NoName
                /\ \E h \in Slot : h < n /\ s.slots[h] = c.source
                                   /\ \A k \in h + 1 .. n - 1 : s.slots[k] # NoName}
CanCopy(s, c) == c.source \in DOMAIN s.patterns /\ c.pattern \notin DOMAIN s.patterns /\ ValidSlots(s)
Copy(s, c) ==
  [s EXCEPT !.patterns = Put(@, c.pattern, s.patterns[c.source]),
            !.slots = [n \in Slot |-> IF n \in CopySlots(s, c) THEN c.pattern ELSE @[n]]]
-------------------------------------------------------------------------------
(* Commands on Assets and Pads.  An installation assigns several Pads.        *)
LineageAllowed(s, lineage) ==
  /\ lineage # NoName => s.contract >= 4
  /\ lineage = "adoption" => s.contract >= 5
NewAssets(s, assign) ==
  /\ assign # <<>> /\ DOMAIN assign \subseteq Pad
  /\ \A p \in DOMAIN assign : assign[p] \in AssetIds \ DOMAIN s.assets
  /\ \A p, q \in DOMAIN assign : assign[p] = assign[q] => p = q
(* The Pad keeps its colour across the change of its Asset.                   *)
Assigned(s, assign, lineage) ==
  [s EXCEPT !.assets = [a \in DOMAIN s.assets \cup {assign[p] : p \in DOMAIN assign} |->
                          IF a \in DOMAIN s.assets THEN s.assets[a] ELSE lineage],
            !.pads = [p \in Pad |-> IF p \in DOMAIN assign
                                    THEN [@[p] EXCEPT !.asset = assign[p], !.playback = "default"]
                                    ELSE @[p]]]

CanImport(s, c) == LineageAllowed(s, c.lineage) /\ c.asset \notin DOMAIN s.assets
Import(s, c) == [s EXCEPT !.assets = Put(@, c.asset, c.lineage)]

CanAssign(s, c) == c.pad \in Pad /\ (c.asset # NoName => c.asset \in DOMAIN s.assets)
(* Mutant: an emptied Pad keeps its colour.                                   *)
Assign(s, c) ==
  LET pad == s.pads[c.pad]
      resets == c.asset = NoName \/ pad.asset # c.asset
  IN  [s EXCEPT !.pads[c.pad] = [asset |-> c.asset,
                                 playback |-> IF resets THEN "default" ELSE pad.playback,
                                 colour |-> IF c.asset = NoName THEN NoName ELSE pad.colour]]

CanImportAssign(s, c) ==
  c.pad \in Pad /\ LineageAllowed(s, c.lineage) /\ c.asset \notin DOMAIN s.assets
ImportAssign(s, c) == Assigned(s, [p \in {c.pad} |-> c.asset], c.lineage)

CanAdopt(s, c) == c.source \in DOMAIN s.assets /\ NewAssets(s, c.assign)
Adopt(s, c) == Assigned(s, c.assign, "adoption")

(* map_soundset(), resolve_soundset_write_set(): the Pads a Sound Set whose   *)
(* slots `set` are occupied may write under a policy; without one a collision *)
(* is refused.                                                                *)
Collisions(s, bank, set) == {p \in set : s.pads[<<bank, p>>].asset # NoName}
(* Mutant: keep writes the occupied Pads too.                                 *)
WriteSet(s, bank, set, policy) == IF policy = "keep" THEN set \ Collisions(s, bank, set) ELSE set
CanInstall(s, c) ==
  /\ s.contract >= 4
  /\ Collisions(s, c.bank, c.set) = {} \/ c.policy # NoName
  /\ DOMAIN c.assign = {c.bank} \X WriteSet(s, c.bank, c.set, c.policy)
  /\ NewAssets(s, c.assign)
Install(s, c) == Assigned(s, c.assign, "soundset")

CanColour(s, c) ==
  c.pad \in Pad /\ s.pads[c.pad].asset # NoName /\ s.pads[c.pad].colour # c.colour
Colour(s, c) == [s EXCEPT !.pads[c.pad].colour = c.colour]

CanPlayback(s, c) == c.pad \in Pad
Playback(s, c) == [s EXCEPT !.pads[c.pad].playback = c.playback]

Settings(s, c) == [s EXCEPT !.settings = "edited"]

(* Commands on Performances: the recording bound to one is never replaced.    *)
CanPerform(s, c) ==
  IF c.op = "performance_create" THEN c.perf \notin DOMAIN s.performances
  ELSE /\ c.perf \in DOMAIN s.performances
       /\ c.op = "performance_bind" => s.performances[c.perf].bound = NoName
       /\ c.op = "performance_save" =>
            \/ c.artifact = NoName
            \/ s.performances[c.perf].bound \in {NoName, c.artifact}
Perform(s, c) ==
  CASE c.op = "performance_create" ->
         [s EXCEPT !.performances = Put(@, c.perf, [bound |-> NoName, events |-> 0])]
    [] c.op = "performance_append" -> [s EXCEPT !.performances[c.perf].events = @ + 1]
    [] c.op = "performance_bind" -> [s EXCEPT !.performances[c.perf].bound = c.artifact]
    [] c.op = "performance_save" ->
         IF c.artifact = NoName THEN s ELSE [s EXCEPT !.performances[c.perf].bound = c.artifact]
    [] c.op = "performance_delete" ->
         [s EXCEPT !.performances = [x \in DOMAIN @ \ {c.perf} |-> @[x]]]
-------------------------------------------------------------------------------
PerformanceOps == {"performance_create", "performance_append", "performance_bind",
                   "performance_save", "performance_delete"}
Accepts(s, c) ==
  CASE c.op = "slot_assign" -> CanAssignSlot(s, c)  [] c.op = "slot_clear" -> CanClearSlot(s, c)
    [] c.op = "slot_move" -> CanMoveSlot(s, c)      [] c.op = "create" -> CanCreate(s, c)
    [] c.op = "merge" -> CanMerge(s, c)             [] c.op = "edit" -> CanEdit(s, c)
    [] c.op = "resize" -> CanResize(s, c)           [] c.op = "double" -> CanDouble(s, c)
    [] c.op = "copy" -> CanCopy(s, c)               [] c.op = "import" -> CanImport(s, c)
    [] c.op = "assign" -> CanAssign(s, c)           [] c.op = "import_assign" -> CanImportAssign(s, c)
    [] c.op = "adopt" -> CanAdopt(s, c)             [] c.op = "install" -> CanInstall(s, c)
    [] c.op = "colour" -> CanColour(s, c)           [] c.op = "playback" -> CanPlayback(s, c)
    [] c.op = "settings" -> TRUE                    [] c.op \in PerformanceOps -> CanPerform(s, c)
Changed(s, c) ==
  CASE c.op = "slot_assign" -> AssignSlot(s, c)     [] c.op = "slot_clear" -> ClearSlot(s, c)
    [] c.op = "slot_move" -> MoveSlot(s, c)         [] c.op = "create" -> Create(s, c)
    [] c.op = "merge" -> Merge(s, c)                [] c.op = "edit" -> Edit(s, c)
    [] c.op = "resize" -> Resize(s, c)              [] c.op = "double" -> Double(s, c)
    [] c.op = "copy" -> Copy(s, c)                  [] c.op = "import" -> Import(s, c)
    [] c.op = "assign" -> Assign(s, c)              [] c.op = "import_assign" -> ImportAssign(s, c)
    [] c.op = "adopt" -> Adopt(s, c)                [] c.op = "install" -> Install(s, c)
    [] c.op = "colour" -> Colour(s, c)              [] c.op = "playback" -> Playback(s, c)
    [] c.op = "settings" -> Settings(s, c)          [] c.op \in PerformanceOps -> Perform(s, c)

(* applied(): the contract level rises to what the command needs.             *)
Level(s, c) ==
  CASE c.op \in {"slot_assign", "slot_clear", "slot_move", "install"} \cup PerformanceOps -> 4
    [] c.op = "adopt" -> 5
    [] c.op = "copy" -> IF CopySlots(s, c) # {} THEN 4 ELSE 3
    [] OTHER -> 3
Apply(s, c) ==
  LET n == Changed(s, c)
  IN  [n EXCEPT !.revision = @ + 1,
                !.contract = IF Level(s, c) > @ THEN Level(s, c) ELSE @]

(* persist_in_place(): what is written is always of the newest contract.      *)
Persisted(s) == [s EXCEPT !.contract = 5]

(* parse_project(): what a checkpoint must satisfy to be read back as itself. *)
PadsParse(s) ==
  \A p \in Pad : /\ s.pads[p].asset # NoName => s.pads[p].asset \in DOMAIN s.assets
                 /\ s.pads[p].colour # NoName => s.contract = 5 /\ s.pads[p].asset # NoName
AssetsParse(s) == \A a \in DOMAIN s.assets : s.assets[a] \in Lineage /\ LineageAllowed(s, s.assets[a])
PatternsParse(s) ==
  \A p \in DOMAIN s.patterns :
    /\ ValidPattern(s.patterns[p])
    /\ \A e, f \in s.patterns[p].events : Key(e) = Key(f) => e = f
SlotsParse(s) ==
  IF s.contract >= 4 THEN ValidSlots(s)
  ELSE (\A n \in Slot : s.slots[n] = NoName) /\ s.performances = <<>>
Parses(s) == PadsParse(s) /\ AssetsParse(s) /\ PatternsParse(s) /\ SlotsParse(s)

(* persisted_command(): the events of a command are written merged.           *)
(* Mutant: of two events of a key the first is written.                       *)
PersistedCommand(c) ==
  IF c.op \in {"create", "merge"} THEN [c EXCEPT !.events = SetToSeq(MergeEvents({}, c.events))] ELSE c

(* One commit.  promote_for_persist() reads the checkpoint back before it is  *)
(* written; a state that would not load is an error and changes nothing.      *)
Command(c) ==
  /\ c.op \in Ops /\ st.revision < MaxRevision
  /\ Accepts(st, c)
  /\ LET n == Persisted(Apply(st, c))
     IN  IF Parses(n) THEN /\ st' = n /\ log' = Append(log, PersistedCommand(c))
                           /\ UNCHANGED failed
         ELSE failed' = TRUE /\ UNCHANGED <<st, log>>
  /\ UNCHANGED zero
-------------------------------------------------------------------------------
(* The inputs.                                                                *)
Event == [pad : Pad, on : {0, BarTicks - 1, BarTicks, Ticks(LongestBars)}, dur : {0, 1, BarTicks}]
Notes(p) ==
  {<<Recorded(q, a, a + d, st.patterns[p].bars, 50)>> : q \in Pad, a \in {0, 2}, d \in {0, BarTicks}}
Pairs == {<<Recorded(q, 0, 1, 1, 50), Recorded(q, 0, d, 1, 50)>> : q \in Pad, d \in {2}}

SlotAssign == \E n \in Slot, p \in PatternIds : Command([op |-> "slot_assign", slot |-> n, pattern |-> p])
SlotClear == \E n \in Slot : Command([op |-> "slot_clear", slot |-> n])
SlotMove == \E n, k \in Slot : Command([op |-> "slot_move", slot |-> n, to |-> k])
CreatePattern ==
  \E p \in PatternIds, b \in Bars, e \in {<<>>} \cup Pairs :
    Command([op |-> "create", pattern |-> p, bars |-> b, events |-> e])
MergePatternEvents ==
  \E p \in DOMAIN st.patterns : \E e \in Notes(p) \cup Pairs :
    Command([op |-> "merge", pattern |-> p, events |-> e])
EditPatternEvents ==
  \E p \in DOMAIN st.patterns : \E e \in {<<>>} \cup {<<x>> : x \in Event} :
    \E r \in {{}} \cup {{Key(x)} : x \in st.patterns[p].events} :
      Command([op |-> "edit", pattern |-> p, events |-> e, remove |-> r])
ResizePattern == \E p \in PatternIds, b \in Bars : Command([op |-> "resize", pattern |-> p, bars |-> b])
DoubleUpPattern == \E p \in PatternIds : Command([op |-> "double", pattern |-> p])
CopyPattern == \E p, q \in PatternIds : Command([op |-> "copy", source |-> p, pattern |-> q])
ImportAsset ==
  \E a \in AssetIds, l \in {NoName, "resample"} : Command([op |-> "import", asset |-> a, lineage |-> l])
AssignPad ==
  \E p \in Pad, a \in AssetIds \cup {NoName} : Command([op |-> "assign", pad |-> p, asset |-> a])
ImportAssignSample ==
  \E p \in Pad, a \in AssetIds, l \in {NoName, "resample"} :
    Command([op |-> "import_assign", pad |-> p, asset |-> a, lineage |-> l])
AdoptCandidates ==
  \E a \in AssetIds, ps \in SUBSET Pad : \E f \in [ps -> AssetIds] :
    Command([op |-> "adopt", source |-> a, assign |-> f])
InstallSoundSet ==
  \E b \in 0 .. Banks - 1, set \in SUBSET (0 .. BankPads - 1), pol \in {NoName, "keep", "replace"} :
    \E f \in [{b} \X WriteSet(st, b, set, pol) -> AssetIds] :
      Command([op |-> "install", bank |-> b, set |-> set, policy |-> pol, assign |-> f])
SetPadColour ==
  \E p \in Pad, k \in {NoName, "palette"} : Command([op |-> "colour", pad |-> p, colour |-> k])
UpdatePadPlayback == \E p \in Pad : Command([op |-> "playback", pad |-> p, playback |-> "edited"])
ResetPadPlayback == \E p \in Pad : Command([op |-> "playback", pad |-> p, playback |-> "default"])
UpdateSequenceSettings == Command([op |-> "settings"])
PerformanceCommand ==
  \E o \in PerformanceOps, p \in PerformanceIds, a \in {NoName, "wav1", "wav2"} :
    /\ o = "performance_bind" => a # NoName
    /\ o \in {"performance_create", "performance_append", "performance_delete"} => a = NoName
    /\ Command([op |-> o, perf |-> p, artifact |-> a])

PatternCommand ==
  \/ SlotAssign \/ SlotClear \/ SlotMove \/ CreatePattern \/ MergePatternEvents
  \/ EditPatternEvents \/ ResizePattern \/ DoubleUpPattern \/ CopyPattern
PadCommand ==
  \/ ImportAsset \/ AssignPad \/ ImportAssignSample \/ AdoptCandidates \/ InstallSoundSet
  \/ SetPadColour \/ UpdatePadPlayback \/ ResetPadPlayback
Next == PatternCommand \/ PadCommand \/ UpdateSequenceSettings \/ PerformanceCommand
Spec == Init /\ [][Next]_vars
-------------------------------------------------------------------------------
(* replay_transaction() in load_project(): the log is applied from checkpoint *)
(* zero, at the contract level of the head checkpoint.                        *)
(* Mutant: the replay starts at the contract the Project was created under.   *)
ReplayBaseOld == zero
ReplayBase == [zero EXCEPT !.contract = st.contract]
Replayed(r, c) ==
  LET ok == r.ok /\ Accepts(r.s, c)
  IN  [ok |-> ok, s |-> IF ok THEN Apply(r.s, c) ELSE r.s]
Replays == FoldLeft(Replayed, [ok |-> TRUE, s |-> ReplayBase], log) = [ok |-> TRUE, s |-> st]

(* The whole log is accepted again at every load and gives the very state the *)
(* head checkpoint holds, whatever contract the Project was created under     *)
(* (load_project: "project checkpoint does not match transaction replay").    *)
ReplayReproduces == st.revision > 0 => Replays

(* A command the domain accepts is never refused by the checkpoint's reader   *)
(* afterwards: every state a command produces is a state that loads.          *)
CommitsWhatItAccepts == ~ failed
Loads == Parses(st)

(* Doubling or lengthening a Pattern and cutting it back gives the Pattern.   *)
LengthensLosslessly ==
  \A p \in DOMAIN st.patterns :
    LET old == st.patterns[p]
    IN  /\ 2 * old.bars \in Bars => Shortened(Doubled(old), old.bars) = old
        /\ \A b \in Bars : b > old.bars => Shortened(Shortened(old, b), old.bars) = old

(* What the recorder makes of a gesture is always an event the Pattern        *)
(* accepts, at most half a sixteenth from where it was played (without swing).*)
(* This does not depend on the state and is evaluated in the initial ones.    *)
RecordedIsValid == st.revision = 0 =>
  \A b \in Bars, s \in {50, 62, 75}, x \in Pad :
    \A a \in 0 .. 2 * Ticks(b) : \A r \in a .. a + 2 * Ticks(b) :
      LET e == Recorded(x, a, r, b, s)
          off == (e.on - a) % Ticks(b)
      IN  /\ ValidEvent(e, b)
          /\ s = 50 => off <= Sixteenth \div 2 \/ Ticks(b) - off <= Sixteenth \div 2

(* A step changes only what its command names: Assets are never changed or    *)
(* removed, a kept Pad stays, a copy leaves its source, an edit the other     *)
(* Patterns, and a bound recording is never replaced.                         *)
EditIsLocal ==
  log' # log =>
   LET c == Last(log')
   IN  /\ \A a \in DOMAIN st.assets : a \in DOMAIN st'.assets /\ st'.assets[a] = st.assets[a]
       /\ \A p \in DOMAIN st.patterns :
            /\ p \in DOMAIN st'.patterns
            /\ c.op \notin {"merge", "edit", "resize", "double"} \/ c.pattern # p =>
                 st'.patterns[p] = st.patterns[p]
       /\ \A x \in Pad : st'.pads[x] # st.pads[x] =>
            \/ c.op \in {"assign", "import_assign", "colour", "playback"} /\ c.pad = x
            \/ c.op = "adopt" /\ x \in DOMAIN c.assign
            \/ c.op = "install" /\ x[1] = c.bank /\ (c.policy = "keep" => st.pads[x].asset = NoName)
       /\ \A p \in DOMAIN st.performances \cap DOMAIN st'.performances :
            st.performances[p].bound # NoName => st'.performances[p].bound = st.performances[p].bound
EditsAreLocal == [][EditIsLocal]_vars

(* A refused no-op makes no revision: these commands always change something. *)
NoEmptyRevision ==
  log' # log /\ Last(log').op \in {"edit", "resize", "double", "colour", "slot_move", "copy"} =>
     [st' EXCEPT !.revision = 0, !.contract = 0] # [st EXCEPT !.revision = 0, !.contract = 0]
===============================================================================
