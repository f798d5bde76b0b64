---------------------------------- MODULE MasterFx ----------------------------------
(* The controls of the master bus: HOLD, the Filter (one stage with a legacy  *)
(* scalar branch and an independent typed branch), the other FX and the Pad   *)
(* gates.  Chain is what the audio thread keeps; Shadow is what the control   *)
(* thread believes it accepted, with the generation of each open gesture.     *)
(* Scalars and typed tuples are numbers; the gates are those of one Pad.      *)
EXTENDS Integers, Sequences, FiniteSets, SequencesExt

CONSTANTS Stages,   \* the FX beside the Filter
          Values,   \* scalars of an active FX; 0 is the rest value
          Params    \* typed Filter tuples

FxAssumption == "filter" \notin Stages /\ Values \subseteq Nat \ {0} /\ Params \subseteq Nat

FX == Stages \cup {"filter"}
DefaultParams == 0
Stage(eng, fro, val) == [eng |-> eng, fro |-> fro, val |-> val]
Off == Stage(FALSE, FALSE, 0)
Active(s) == s.eng \/ s.fro

Fx(kind, fx, arg) == [type |-> "fx", kind |-> kind, fx |-> fx, arg |-> arg]
Filter(kind, arg) == [type |-> "filter", kind |-> kind, fx |-> "filter", arg |-> arg]
Gates(arg) == [type |-> "gates", kind |-> "set", fx |-> "filter", arg |-> arg]
HoldOff == Fx("hold_off", "filter", 0)
HoldOn == Fx("hold_on", "filter", 0)
-------------------------------------------------------------------------------
(* MasterFxChain: the legacy branch is an effect like the others, the         *)
(* independent branch has its own flags, and the mode says which one owns the *)
(* stage.                                                                     *)
NeutralChain ==
  [hold |-> FALSE, mode |-> "independent", fx |-> [f \in FX |-> Off],
   ind |-> Stage(FALSE, FALSE, DefaultParams), gates |-> 0]

Released(s, hold) ==
  LET frozen == hold /\ Active(s)
  IN  Stage(FALSE, frozen, IF frozen THEN s.val ELSE 0)
ApplyLegacyFilter(ch, g) ==
  CASE g.kind = "release" ->
         IF ch.mode = "legacy" THEN [ch EXCEPT !.fx["filter"] = Released(@, ch.hold)] ELSE ch
    [] g.kind = "engage" ->
         [ch EXCEPT !.mode = "legacy", !.ind.eng = FALSE, !.ind.fro = FALSE,
                    !.fx["filter"] = Stage(TRUE, FALSE, g.arg)]
    [] g.kind = "move" ->
         IF Active(ch.ind)
         THEN [ch EXCEPT !.mode = "legacy", !.ind.eng = FALSE, !.ind.fro = FALSE,
                         !.fx["filter"] = Stage(TRUE, FALSE, g.arg)]
         ELSE [ch EXCEPT !.fx["filter"].val = g.arg]
ApplyGesture(ch, g) ==
  CASE g.kind = "hold_on" -> [ch EXCEPT !.hold = TRUE]
    [] g.kind = "hold_off" ->
         [ch EXCEPT !.hold = FALSE, !.ind.fro = FALSE,
                    !.fx = [f \in FX |-> [@[f] EXCEPT !.fro = FALSE]]]
    [] g.kind \in {"engage", "move", "release"} ->
         IF g.fx = "filter" THEN ApplyLegacyFilter(ch, g)
         ELSE CASE g.kind = "release" -> [ch EXCEPT !.fx[g.fx] = Released(@, ch.hold)]
                [] g.kind = "engage" -> [ch EXCEPT !.fx[g.fx] = Stage(TRUE, FALSE, g.arg)]
                [] g.kind = "move" -> [ch EXCEPT !.fx[g.fx].val = g.arg]
ApplyFilterGesture(ch, g) ==
  CASE g.kind = "engage" ->
         [ch EXCEPT !.mode = "independent", !.ind = Stage(TRUE, FALSE, g.arg),
                    !.fx["filter"].eng = FALSE, !.fx["filter"].fro = FALSE]
    [] g.kind = "move" ->
         IF ch.mode = "independent" /\ ch.ind.eng THEN [ch EXCEPT !.ind.val = g.arg] ELSE ch
    [] g.kind = "release" ->
         IF ch.mode = "independent"
         THEN [ch EXCEPT !.ind.eng = FALSE, !.ind.fro = ch.hold /\ Active(ch.ind)] ELSE ch
ApplyControl(ch, g) ==
  CASE g.type = "fx" -> ApplyGesture(ch, g)
    [] g.type = "filter" -> ApplyFilterGesture(ch, g)
    [] g.type = "gates" -> [ch EXCEPT !.gates = g.arg]
Applied(ch, controls) == FoldLeft(ApplyControl, ch, controls)

(* filter_state() and the rest of the state a Host can read back.             *)
ChainPublic(ch) ==
  [hold |-> ch.hold, mode |-> ch.mode,
   filter |-> IF ch.mode = "legacy" THEN ch.fx["filter"] ELSE ch.ind,
   fx |-> [f \in Stages |-> ch.fx[f]], gates |-> ch.gates]
-------------------------------------------------------------------------------
(* The shadow: filter_live_state_after() merges the two branches into one     *)
(* state with one pair of flags.                                              *)
NeutralShadow ==
  [hold |-> FALSE, mode |-> "independent", eng |-> FALSE, fro |-> FALSE, par |-> DefaultParams,
   val |-> 0, fx |-> [f \in Stages |-> Off], gates |-> 0, gen |-> [f \in FX |-> 0]]

FilterAfter(s, g) ==
  CASE g.kind = "hold_on" -> [s EXCEPT !.hold = TRUE]
    [] g.kind = "hold_off" -> [s EXCEPT !.hold = FALSE, !.fro = FALSE]
    [] g.kind = "engage" /\ g.fx = "filter" ->
         [s EXCEPT !.mode = "legacy", !.eng = TRUE, !.fro = FALSE, !.val = g.arg]
    [] g.kind = "move" /\ g.fx = "filter" ->
         IF s.mode = "independent" /\ (s.eng \/ s.fro)
         THEN [s EXCEPT !.mode = "legacy", !.eng = TRUE, !.fro = FALSE, !.val = g.arg]
         ELSE [s EXCEPT !.val = g.arg]
    [] g.kind = "release" /\ g.fx = "filter" /\ s.mode = "legacy" ->
         LET frozen == s.hold /\ (s.eng \/ s.fro)
         IN  [s EXCEPT !.eng = FALSE, !.fro = frozen, !.val = IF frozen THEN @ ELSE 0]
    [] OTHER -> s
TypedFilterAfter(s, g) ==
  CASE g.kind = "engage" ->
         [s EXCEPT !.mode = "independent", !.eng = TRUE, !.fro = FALSE, !.par = g.arg]
    [] g.kind = "move" ->
         IF s.mode = "independent" /\ s.eng THEN [s EXCEPT !.par = g.arg] ELSE s
    [] g.kind = "release" ->
         IF s.mode = "independent"
         THEN [s EXCEPT !.eng = FALSE, !.fro = s.hold /\ (s.eng \/ s.fro)] ELSE s

(* apply_fx_gesture_to_shadow(): a new gesture gets the generation n.         *)
GestureShadow(s, g, n) ==
  LET f == FilterAfter(s, g)
      takesOver == s.mode = "independent" /\ (s.eng \/ s.fro)
  IN  CASE g.kind = "hold_off" -> [f EXCEPT !.fx = [x \in Stages |-> [@[x] EXCEPT !.fro = FALSE]]]
        [] g.kind = "hold_on" -> f
        [] g.kind = "engage" ->
             [f EXCEPT !.gen[g.fx] = n,
                       !.fx = [x \in Stages |-> IF x = g.fx THEN Stage(TRUE, FALSE, g.arg) ELSE @[x]]]
        [] g.kind = "move" ->
             IF g.fx = "filter" THEN IF takesOver THEN [f EXCEPT !.gen["filter"] = n] ELSE f
             ELSE [f EXCEPT !.fx[g.fx].val = g.arg]
        [] g.kind = "release" ->
             [f EXCEPT !.gen[g.fx] = 0,
                       !.fx = [x \in Stages |-> IF x = g.fx THEN Released(@[x], s.hold) ELSE @[x]]]

ControlShadow(s, g, n) ==
  CASE g.type = "fx" -> GestureShadow(s, g, n)
    [] g.type = "filter" ->
         LET f == TypedFilterAfter(s, g)
         IN  CASE g.kind = "engage" -> [f EXCEPT !.gen["filter"] = n]
               [] g.kind = "release" -> [f EXCEPT !.gen["filter"] = 0]
               [] OTHER -> f
    [] g.type = "gates" -> [s EXCEPT !.gates = g.arg]

(* to_public_state(), shadow_from_public(): the branch that does not own the  *)
(* stage is lost on the way.                                                  *)
Public(s) ==
  [hold |-> s.hold, mode |-> s.mode,
   filter |-> Stage(s.eng, s.fro, IF s.mode = "legacy" THEN s.val ELSE s.par),
   fx |-> s.fx, gates |-> s.gates]
FromPublic(p, gen) ==
  [hold |-> p.hold, mode |-> p.mode, eng |-> p.filter.eng, fro |-> p.filter.fro,
   par |-> IF p.mode = "legacy" THEN DefaultParams ELSE p.filter.val,
   val |-> IF p.mode = "legacy" THEN p.filter.val ELSE 0, fx |-> p.fx, gates |-> p.gates, gen |-> gen]

(* What can be heard: an inactive stage is silent whatever it remembers.      *)
Audible(p) ==
  [hold |-> p.hold, gates |-> p.gates,
   filter |-> IF Active(p.filter) THEN <<p.mode, p.filter>> ELSE <<"off", Off>>,
   fx |-> [f \in Stages |-> IF Active(p.fx[f]) THEN p.fx[f] ELSE Off]]
-------------------------------------------------------------------------------
(* apply_initial_live_state(): the controls that restore a header.            *)
Restores(type, fx, s) ==
  IF ~ Active(s) THEN <<>>
  ELSE LET on == IF type = "fx" THEN Fx("engage", fx, s.val) ELSE Filter("engage", s.val)
           off == IF type = "fx" THEN Fx("release", fx, 0) ELSE Filter("release", s.val)
       IN  IF s.fro /\ ~ s.eng THEN <<on, off>> ELSE <<on>>
(* Mutant: HOLD is restored after the effects it froze.                       *)
HeaderControlsHoldLast(p) ==
  FlattenSeq([i \in 1 .. Cardinality(Stages) |->
                LET f == SetToSeq(Stages)[i] IN Restores("fx", f, p.fx[f])])
  \o Restores(IF p.mode = "legacy" THEN "fx" ELSE "filter", "filter", p.filter)
  \o (IF p.gates # 0 THEN <<Gates(p.gates)>> ELSE <<>>)
  \o (IF p.hold THEN <<HoldOn>> ELSE <<>>)

HeaderControls(p) ==
  (IF p.hold THEN <<HoldOn>> ELSE <<>>)
  \o FlattenSeq([i \in 1 .. Cardinality(Stages) |->
                   LET f == SetToSeq(Stages)[i] IN Restores("fx", f, p.fx[f])])
  \o Restores(IF p.mode = "legacy" THEN "fx" ELSE "filter", "filter", p.filter)
  \o (IF p.gates # 0 THEN <<Gates(p.gates)>> ELSE <<>>)

(* validate_performance_events_with_seed(): the recorded events as the domain *)
(* follows them; a control that is frozen in the header counts as engaged.    *)
Seed(p) ==
  [ok |-> TRUE, hold |-> p.hold,
   eng |-> [f \in FX |-> IF f = "filter" THEN p.mode = "legacy" /\ Active(p.filter) ELSE Active(p.fx[f])],
   ind |-> p.mode = "independent" /\ Active(p.filter)]
Validated(v, g) ==
  CASE g.type = "gates" -> v
    [] g.type = "filter" ->
         IF g.kind = "engage"
         THEN [v EXCEPT !.ok = @ /\ ~ v.ind, !.ind = TRUE, !.eng["filter"] = FALSE]
         ELSE [v EXCEPT !.ok = @ /\ v.ind, !.ind = g.kind = "move"]
    [] g.type = "fx" ->
         CASE g.kind = "hold_on" -> [v EXCEPT !.ok = @ /\ ~ v.hold, !.hold = TRUE]
           [] g.kind = "hold_off" -> [v EXCEPT !.ok = @ /\ v.hold, !.hold = FALSE]
           [] g.kind = "engage" ->
                [v EXCEPT !.ok = @ /\ ~ v.eng[g.fx], !.eng[g.fx] = TRUE,
                          !.ind = IF g.fx = "filter" THEN FALSE ELSE @]
           [] g.kind = "move" -> [v EXCEPT !.ok = @ /\ v.eng[g.fx]]
           [] g.kind = "release" -> [v EXCEPT !.ok = @ /\ v.eng[g.fx], !.eng[g.fx] = FALSE]
ValidEvents(header, events) == FoldLeft(Validated, Seed(header), events).ok
===============================================================================
