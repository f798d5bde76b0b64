--------------------------------- MODULE LiveControl ---------------------------------
(* The live-control core of a Performance: the engine with its bounded        *)
(* control queue, the core's accepted shadow and its history by queue         *)
(* position, the headered recording of controls, and the replay of a take     *)
(* into the same queue.  Control calls come from one thread and are atomic;   *)
(* the audio callback drains the queue between any two of them.               *)
EXTENDS MasterFx

CONSTANTS Capacity,    \* kRealtimeQueueCapacity
          Surfaces,    \* what a run uses: "live", "record", "legacy", "replay", "restart", "fault"
          MaxControls, \* bound: controls accepted
          MaxEpoch,    \* bound: engine starts
          Nil          \* none
ControlAssumption ==
  Capacity \in Nat \ {0} /\ MaxControls \in Nat /\ MaxEpoch \in Nat \ {0}

VARIABLES eng,   \* the engine: running, start epoch, queue, chain, positions enqueued and drained, and
                 \* (ghost) what was published in this start against the rules, see Excuses
          core,  \* shadow, history, accepted sequence, bound epoch, seen epoch, held cells, generations
          rec,   \* the headered recording, or Nil
          take,  \* a finished or stored take, or Nil
          rep    \* the replay, or Nil
vars == <<eng, core, rec, take, rep>>

Uses(surface) == surface \in Surfaces
StoredTakes ==
  LET header == {Public([NeutralShadow EXCEPT !.hold = h, !.mode = m, !.eng = e, !.fro = ~ e /\ h,
                                              !.val = IF m = "legacy" THEN 1 ELSE 0]) :
                   h \in BOOLEAN, m \in {"legacy", "independent"}, e \in BOOLEAN}
      event == {Fx("engage", f, 1) : f \in FX} \cup {HoldOn, HoldOff, Gates(1), Filter("engage", 1)}
  IN  {t \in [header : header, events : {<<>>} \cup {<<g>> : g \in event}] : ValidEvents(t.header, t.events)}
Init ==
  /\ eng = [running |-> TRUE, epoch |-> 1, queue |-> <<>>, chain |-> NeutralChain, enq |-> 0, deq |-> 0,
            excused |-> {}]
  /\ core = [shadow |-> NeutralShadow, history |-> <<[pos |-> 0, shadow |-> NeutralShadow, seq |-> 0]>>,
             seq |-> 0, bound |-> 0, seen |-> 1, held |-> 0, gens |-> 0]
  /\ rec = Nil /\ rep = Nil
  /\ IF Uses("replay") THEN take \in StoredTakes ELSE take = Nil
-------------------------------------------------------------------------------
(* The engine.  A stop and a start leave nothing behind.                      *)
Drained(e) == Applied(e.chain, [i \in DOMAIN e.queue |-> e.queue[i].g])
EngineEnqueues(e) == e.running /\ Len(e.queue) < Capacity
EngineEnqueue(e, g, admitted) ==
  [e EXCEPT !.queue = Append(@, [g |-> g, epoch |-> admitted]), !.enq = @ + 1]
Render ==
  \E n \in 1 .. Len(eng.queue) :
    /\ eng.running
    /\ eng' = [eng EXCEPT !.queue = SubSeq(@, n + 1, Len(@)), !.deq = @ + n,
                          !.chain = Applied(@, [i \in 1 .. n |-> eng.queue[i].g])]
    /\ UNCHANGED <<core, rec, take, rep>>
EngineStop ==
  /\ Uses("restart") /\ eng.running /\ eng.epoch < MaxEpoch
  /\ eng' = [eng EXCEPT !.running = FALSE, !.queue = <<>>, !.chain = NeutralChain]
  /\ UNCHANGED <<core, rec, take, rep>>
EngineStart ==
  /\ ~ eng.running
  /\ eng' = [eng EXCEPT !.running = TRUE, !.epoch = @ + 1, !.enq = 0, !.deq = 0, !.excused = {}]
  /\ UNCHANGED <<core, rec, take, rep>>
-------------------------------------------------------------------------------
(* The core.                                                            *)
(* observe_engine_epoch_locked()                                              *)
Observe(c, e) ==
  IF c.seen = e.epoch THEN c
  ELSE [c EXCEPT !.seen = e.epoch, !.bound = 0, !.seq = 0, !.shadow = NeutralShadow,
                 !.history = <<[pos |-> e.enq, shadow |-> NeutralShadow, seq |-> 0]>>]
Bind(c, e) == [Observe(c, e) EXCEPT !.bound = e.epoch]

(* occupied_cells_locked(): the queue's own count already holds the typed     *)
(* controls, which are added once more.                                       *)
Occupied(c, e) ==
  Len(e.queue) + c.held + Cardinality({i \in DOMAIN e.queue : e.queue[i].g.type # "fx"})

(* Mutant: the entry of the position that is being heard is dropped too.      *)
PrunedAll(h, deq) == IF h[Len(h)].pos <= deq + 1 THEN <<h[Len(h)]>> ELSE h

Pruned(h, deq) ==
  LET keep == {i \in DOMAIN h : i = 1 \/ h[i].pos <= deq}
  IN  SubSeq(h, CHOOSE i \in keep : \A j \in keep : j <= i, Len(h))
(* commit_shadow_locked(): e is the engine with the control already queued.   *)
Commit(c, e, shadow, live) ==
  LET seq == IF live THEN c.seq + 1 ELSE c.seq
  IN  [c EXCEPT !.shadow = shadow, !.seq = seq, !.gens = @ + 1,
                !.history = Pruned(Append(@, [pos |-> e.enq, shadow |-> shadow,
                                              seq |-> IF live THEN seq ELSE @[Len(@)].seq]), e.deq)]
(* state_at_locked()                                                          *)
StateAt(h, pos) ==
  LET past == {i \in DOMAIN h : i = 1 \/ h[i].pos <= pos}
  IN  h[CHOOSE i \in past : \A j \in past : j <= i].shadow

(* derive_locked() on an intent: the control it becomes; a move or a release  *)
(* names the generation of its gesture.                                       *)
Derives(s, g, gen) ==
  CASE g.type = "gates" -> TRUE
    [] g.kind = "engage" -> TRUE
    [] g.kind = "hold_on" -> ~ s.hold
    [] g.kind = "hold_off" -> s.hold
    [] g.type = "fx" /\ g.kind \in {"move", "release"} -> gen # 0 /\ s.gen[g.fx] = gen
    [] g.type = "filter" /\ g.kind \in {"move", "release"} ->
         s.mode = "independent" /\ s.eng /\ gen # 0 /\ s.gen["filter"] = gen

(* publish_legacy_gesture(), publish_filter_change(), publish_pad_gates():    *)
(* the siblings of the core publish without a reservation.                    *)
Publishes(x, g) == EngineEnqueues(x.e)
Publish(x, g, live) ==
  LET e == EngineEnqueue(x.e, g, x.e.epoch)
  IN  [e |-> e, c |-> Commit(x.c, e, ControlShadow(x.c.shadow, g, x.c.gens + 1), live)]
World == [e |-> eng, c |-> core]
Becomes(x) == eng' = x.e /\ core' = x.c
MayControl == core.gens < MaxControls

(* The inputs: gestures a client may make, each with its own generation.      *)
Intents(s) ==
  {Fx("engage", f, v) : f \in FX, v \in Values} \cup {Filter("engage", p) : p \in Params}
  \cup {Fx("move", f, v) : f \in {x \in FX : s.gen[x] # 0}, v \in Values}
  \cup {Fx("release", f, 0) : f \in {x \in FX : s.gen[x] # 0}}
  \cup {Filter("move", p) : p \in Params} \cup {Filter("release", 0)}
  \cup {HoldOn, HoldOff} \cup {Gates(n) : n \in {0, 1}}
(* A client moves and releases the branch of the Filter it engaged.           *)
Sensible(s, g) == g.type = "fx" /\ g.fx = "filter" /\ g.kind \in {"move", "release"} => s.mode = "legacy"
-------------------------------------------------------------------------------
(* performance.live.control: no recording, the epoch is bound and current.    *)
LiveControlCommand ==
  /\ Uses("live") /\ MayControl /\ rec = Nil
  /\ \E g \in Intents(core.shadow), epoch \in 1 .. eng.epoch :
       LET c == Bind(core, eng)
           s == c.shadow
           accepts == /\ Sensible(s, g) /\ epoch = eng.epoch /\ Derives(s, g, s.gen[g.fx])
                      /\ Occupied(c, eng) < Capacity
       IN  IF accepts /\ EngineEnqueues(eng) THEN Becomes(Publish([e |-> eng, c |-> c], g, TRUE))
           ELSE core' = c /\ UNCHANGED eng
  /\ rep' = IF rep = Nil THEN rep ELSE [rep EXCEPT !.alone = FALSE]
  /\ UNCHANGED <<rec, take>>

(* performance.fx.gesture: session-free by design, journalled nowhere, and     *)
(* published with no look at the engine's start.  Excuses are what makes the   *)
(* core's report differ: the core has not observed this start, or the release  *)
(* is of a branch of the Filter that is not the engaged one.                   *)
Excuses(g) ==
  (IF core.seen # eng.epoch THEN {"unobserved"} ELSE {})
  \cup (IF g.kind = "release" /\ g.fx = "filter" /\ core.shadow.mode = "independent" THEN {"released"} ELSE {})
FxGesture ==
  /\ Uses("legacy") /\ MayControl
  /\ \E g \in {Fx(k, f, v) : k \in {"engage", "move", "release"}, f \in FX, v \in Values} \cup {HoldOn, HoldOff} :
       LET x == Publish(World, [g EXCEPT !.arg = IF g.kind = "release" THEN 0 ELSE @], TRUE)
       IN  /\ Publishes(World, g)
           /\ eng' = [x.e EXCEPT !.excused = @ \cup Excuses(g)] /\ core' = x.c
  /\ rec' = IF rec = Nil THEN rec ELSE [rec EXCEPT !.alone = FALSE]
  /\ rep' = IF rep = Nil THEN rep ELSE [rep EXCEPT !.alone = FALSE]
  /\ UNCHANGED take

(* performance.live.status, and every other call that reads the core.         *)
LiveStatus ==
  /\ (Uses("live") \/ Uses("legacy")) /\ core # Bind(core, eng)
  /\ core' = Bind(core, eng) /\ UNCHANGED <<eng, rec, take, rep>>
-------------------------------------------------------------------------------
(* The headered recording.  begin_fence() captures the accepted state as the  *)
(* header; engaged controls are adopted as open gestures.                     *)
RecordBegin ==
  /\ Uses("record") /\ rec = Nil /\ take = Nil
  /\ LET c == Bind(core, eng)
         s == c.shadow
     IN  /\ Occupied(c, eng) < Capacity
         /\ \A f \in Stages : s.fx[f].eng => s.gen[f] # 0
         /\ s.eng => s.gen["filter"] # 0
         /\ core' = c
         /\ rec' = [epoch |-> eng.epoch, header |-> Public(s), events |-> <<>>, hold |-> s.hold,
                    fx |-> {f \in Stages : s.fx[f].eng}
                           \cup {f \in {"filter"} : s.eng /\ s.mode = "legacy"},
                    value |-> [f \in FX |-> IF f = "filter" THEN s.val ELSE s.fx[f].val],
                    filter |-> s.eng /\ s.mode = "independent",
                    fence |-> [pos |-> eng.enq, epoch |-> eng.epoch, state |-> s],
                    ready |-> FALSE, diverged |-> FALSE, recovery |-> FALSE, frozen |-> Nil,
                    alone |-> eng.excused \subseteq {"released"}]
  /\ UNCHANGED <<eng, take, rep>>

(* fence_readiness(), refresh_control_ready()                                 *)
Readiness(c, e, fence) ==
  IF c.bound = 0 \/ e.epoch # fence.epoch THEN "diverged"
  ELSE IF e.deq < fence.pos THEN "pending"
  ELSE LET s == StateAt(c.history, fence.pos)
       IN  IF Public(s) = Public(fence.state) /\ s.gen = fence.state.gen THEN "ready" ELSE "diverged"
Refreshed(r, c, e) ==
  IF r.ready THEN r
  ELSE LET is == Readiness(c, e, r.fence)
       IN  [r EXCEPT !.ready = is = "ready", !.recovery = @ \/ is = "diverged", !.diverged = @ \/ is = "diverged"]
RecordPoll ==
  /\ Uses("record") /\ rec # Nil /\ ~ rec.ready /\ ~ rec.recovery
  /\ LET c == Observe(core, eng)
     IN  core' = c /\ rec' = Refreshed(rec, c, eng) /\ rec' # rec
  /\ UNCHANGED <<eng, take, rep>>

(* verify_session_epoch()                                                     *)
SessionEpochVerified(c, r) == c.bound = r.epoch

(* What an admitted control adds to the take and to the open gestures.        *)
RecordNoop(r, c, g) ==
  \/ g.type = "fx" /\ g.kind = "move" /\ r.value[g.fx] = g.arg
  \/ g.type = "gates" /\ c.shadow.gates = g.arg
RecordMatches(r, g) ==
  /\ g.type = "fx" /\ g.kind \in {"move", "release"} => g.fx \in r.fx
  /\ g.type = "fx" /\ g.kind = "engage" => g.fx \notin r.fx
  /\ g.type = "filter" /\ g.kind # "engage" => r.filter
Recorded(r, g) ==
  [r EXCEPT !.events = Append(@, g),
            !.hold = IF g.kind = "hold_on" THEN TRUE ELSE IF g.kind = "hold_off" THEN FALSE ELSE @,
            !.fx = IF g.type # "fx" THEN @ ELSE IF g.kind = "engage" THEN @ \cup {g.fx}
                   ELSE IF g.kind = "release" THEN @ \ {g.fx} ELSE @,
            !.value = IF g.type = "fx" /\ g.kind \in {"engage", "move"} THEN [@ EXCEPT ![g.fx] = g.arg] ELSE @,
            !.filter = IF g.type # "filter" THEN @ ELSE IF g.kind = "engage" THEN TRUE
                       ELSE IF g.kind = "release" THEN FALSE ELSE @]
(* headered_checkpoint() reads the typed Filter state of an open typed        *)
(* gesture; when the legacy branch owns the stage it throws.                  *)
CheckpointThrows(r, p) == r.filter /\ p.mode = "legacy"

(* publish_live_control(): the shadow becomes the state derived when the cell *)
(* was reserved, whatever happened since.                                     *)
PublishReserved(x, f) ==
  IF EngineEnqueues(x.e)
  THEN LET e == [EngineEnqueue(x.e, f.g, f.epoch)
                   EXCEPT !.excused = @ \cup (IF f.held /\ f.epoch # x.e.epoch THEN {"held"} ELSE {})
                                        \cup (IF f.base # x.c.shadow THEN {"late"} ELSE {})]
       IN  [e |-> e, c |-> Commit(x.c, e, FromPublic(f.public, f.gen), TRUE), heard |-> TRUE]
  ELSE [e |-> x.e, c |-> [x.c EXCEPT !.gens = @ + 1], heard |-> FALSE]

(* performance.record.event with a control: reserve, append, publish.  The    *)
(* append may fail with the record absent, or with its outcome unknown; then  *)
(* the candidate is frozen until the same request comes again.                *)
RecordControl ==
  /\ Uses("record") /\ MayControl /\ rec # Nil /\ rec.frozen = Nil
  /\ LET c == Observe(core, eng)
         r == Refreshed(rec, c, eng)
         s == c.shadow
     IN  /\ SessionEpochVerified(c, rec) /\ ~ rec.recovery
         /\ \E g \in Intents(s) :
              LET after == ControlShadow(s, g, c.gens + 1)
                  f == [g |-> g, epoch |-> rec.epoch, base |-> s, public |-> Public(after), gen |-> after.gen,
                        next |-> Recorded(r, g), held |-> FALSE]
              IN  /\ Sensible(s, g) /\ RecordMatches(rec, g) /\ Derives(s, g, s.gen[g.fx])
                  /\ Occupied(c, eng) < Capacity /\ ~ RecordNoop(r, c, g)
                  /\ IF CheckpointThrows(f.next, f.public)
                     THEN /\ rec' = [f.next EXCEPT !.alone = FALSE]
                          /\ core' = [c EXCEPT !.gens = @ + 1] /\ UNCHANGED eng
                     ELSE \/ LET x == PublishReserved([e |-> eng, c |-> c], f)
                             IN  Becomes(x) /\ rec' = [f.next EXCEPT !.alone = @ /\ x.heard]
                          \/ /\ Uses("fault") /\ UNCHANGED eng
                             /\ \E unknown \in BOOLEAN :
                                  /\ rec' = [r EXCEPT !.frozen = [f EXCEPT !.held = unknown], !.recovery = @ \/ unknown]
                                  /\ core' = [c EXCEPT !.held = @ + (IF unknown THEN 1 ELSE 0), !.gens = @ + 1]
  /\ UNCHANGED <<take, rep>>
(* resume_frozen_admission(): the record is found or written again, and the   *)
(* frozen control is published, from its held cell or from a new one.         *)
RecordResume ==
  /\ rec # Nil /\ rec.frozen # Nil /\ MayControl
  /\ LET f == rec.frozen
         c == IF f.held THEN [core EXCEPT !.held = @ - 1] ELSE Observe(core, eng)
     IN  /\ ~ f.held => SessionEpochVerified(c, rec) /\ Occupied(c, eng) < Capacity
         /\ LET x == PublishReserved([e |-> eng, c |-> c], f)
            IN  /\ Becomes(x)
                /\ rec' = [Recorded(rec, f.g) EXCEPT !.frozen = Nil, !.recovery = FALSE, !.alone = @ /\ x.heard]
  /\ UNCHANGED <<take, rep>>

(* close_performance_transients_headered(): the take is closed, the live      *)
(* state goes on.                                                             *)
Closing(r, p) ==
  FlattenSeq([i \in 1 .. Cardinality(r.fx) |-> <<Fx("release", SetToSeq(r.fx)[i], 0)>>])
  \o (IF r.filter THEN <<Filter("release", p.filter.val)>> ELSE <<>>)
  \o (IF r.hold THEN <<HoldOff>> ELSE <<>>)
RecordStop ==
  /\ Uses("record") /\ rec # Nil /\ rec.frozen = Nil /\ ~ rec.recovery
  /\ LET p == Public(Observe(core, eng).shadow)
     IN  /\ ~ CheckpointThrows(rec, p)
         /\ take' = [header |-> rec.header, events |-> rec.events \o Closing(rec, p)]
  /\ core' = Observe(core, eng) /\ rec' = Nil /\ UNCHANGED <<eng, rep>>
-------------------------------------------------------------------------------
(* The replay of a take.  Each call publishes what fits into the queue.       *)
(* A sequence of controls published until one is refused.                     *)
PublishAll(x, controls) ==
  FoldLeft(LAMBDA a, g : IF a.ok /\ Publishes(a.x, g) THEN [x |-> Publish(a.x, g, FALSE), n |-> a.n + 1, ok |-> TRUE]
                         ELSE [a EXCEPT !.ok = FALSE],
           [x |-> x, n |-> 0, ok |-> TRUE], controls)

(* reset_neutral(): gates, the typed Filter, HOLD, then every legacy release. *)
ResetControls(s) ==
  <<Gates(0)>>
  \o (IF s.mode = "independent" /\ (s.eng \/ s.fro) THEN <<Filter("release", s.par)>> ELSE <<>>)
  \o <<HoldOff, Fx("release", "filter", 0)>>
  \o [i \in 1 .. Cardinality(Stages) |-> Fx("release", SetToSeq(Stages)[i], 0)]

(* finish_reset(): r is the replay with its target state; left is what the    *)
(* reset has still to publish.                                                *)
FinishReset(x, r) ==
  LET first == r.left = Nil
      left == IF first THEN ResetControls(x.c.shadow) ELSE r.left
      epoch == IF first THEN x.e.epoch ELSE r.epoch
      all == PublishAll(x, left)
      rest == SubSeq(left, all.n + 1, Len(left))
      target == IF r.target = 0 /\ rest = <<>> THEN all.x.e.enq ELSE r.target
  IN  IF ~ x.e.running \/ epoch # x.e.epoch THEN [x |-> x, r |-> [r EXCEPT !.state = r.reset]]
      ELSE [x |-> all.x,
            r |-> [r EXCEPT !.left = rest, !.epoch = epoch, !.target = target,
                            !.state = IF rest = <<>> /\ all.x.e.deq >= target THEN r.reset ELSE @]]

ReplayBegin ==
  /\ Uses("replay") /\ take # Nil /\ rep = Nil /\ rec = Nil /\ ValidEvents(take.header, take.events)
  /\ LET all == PublishAll(World, HeaderControls(take.header))
         r == [state |-> "playing", cursor |-> 0, header |-> TRUE, mark |-> all.x.e.enq, reset |-> Nil,
               left |-> Nil, epoch |-> eng.epoch, target |-> 0,
               alone |-> Audible(Public(core.shadow)) = Audible(Public(NeutralShadow)),
               born |-> eng.epoch]
     IN  IF all.ok THEN Becomes(all.x) /\ rep' = r
         ELSE LET d == FinishReset(all.x, [r EXCEPT !.reset = "stopped"]) IN Becomes(d.x) /\ rep' = d.r
  /\ UNCHANGED <<rec, take>>

(* settle_header(), initial_live_state_applied()                              *)
HeaderSettled == rep.header => eng.deq >= rep.mark

(* service(): rendered frames stand for a tick, which stands for a number of  *)
(* events.                                                                    *)
Due(n) == SubSeq(take.events, rep.cursor + 1, rep.cursor + n)
(* advance_to(): the header first, then the events whose time has come.       *)
ReplayService ==
  /\ rep # Nil /\ rep.state = "playing"
  /\ IF rep.reset # Nil
     THEN LET d == FinishReset(World, rep) IN Becomes(d.x) /\ rep' = d.r
     ELSE /\ HeaderSettled
          /\ \E n \in 0 .. Len(take.events) - rep.cursor :
               LET all == PublishAll(World, Due(n))
                   r == [rep EXCEPT !.header = FALSE, !.cursor = @ + all.n,
                                    !.reset = IF ~ all.ok THEN "stopped"
                                              ELSE IF rep.cursor + n = Len(take.events) THEN "complete" ELSE Nil]
                   d == FinishReset(all.x, r)
               IN  IF r.reset = Nil THEN Becomes(all.x) /\ rep' = r ELSE Becomes(d.x) /\ rep' = d.r
  /\ UNCHANGED <<rec, take>>
ReplayStop ==
  /\ rep # Nil /\ rep.state = "playing"
  /\ LET d == FinishReset(World, [rep EXCEPT !.reset = IF @ = Nil THEN "stopped" ELSE @])
     IN  Becomes(d.x) /\ rep' = d.r
  /\ UNCHANGED <<rec, take>>
-------------------------------------------------------------------------------
Next ==
  \/ Render \/ EngineStop \/ EngineStart \/ LiveControlCommand \/ FxGesture \/ LiveStatus
  \/ RecordBegin \/ RecordPoll \/ RecordControl \/ RecordResume \/ RecordStop
  \/ ReplayBegin \/ ReplayService \/ ReplayStop
Spec == Init /\ [][Next]_vars
-------------------------------------------------------------------------------
(* A control admitted in one engine start reaches no later one               *)
(* (observe_engine_epoch_locked(): "the old epoch, callbacks and receipts     *)
(* must not reach the new state").  The one exception is a cell held while    *)
(* its record's outcome was unknown: the resumption publishes it with no look *)
(* at the epoch.                                                              *)
EpochIsolated == "held" \in eng.excused \/ \A i \in DOMAIN eng.queue : eng.queue[i].epoch = eng.epoch

(* The core reports on the running start once it has observed it, unless      *)
(* that start took a held cell of an earlier one, a session-free gesture      *)
(* before it was observed, or a frozen control after a session-free gesture   *)
(* that its derived state does not have.                                      *)
Reports == eng.running /\ core.seen = eng.epoch /\ eng.excused \subseteq {"released"}

(* What the core reports as accepted is what the master bus will be once its  *)
(* queue is drained (performance_engine_adapter.cpp: the shadow and history   *)
(* "are the complete control-thread truth").                                  *)
ShadowMirrors == Reports => Public(core.shadow) = ChainPublic(Drained(eng))

(* What the core reports as applied is what is heard now, however the history *)
(* was cut.                                                                   *)
AppliedIsHeard == Reports => Public(StateAt(core.history, eng.deq)) = ChainPublic(eng.chain)

(* An engaged control has a generation, so that its gesture can be moved,     *)
(* released and adopted by a recording; a session-free release of the other   *)
(* branch of the Filter takes the generation away and leaves it engaged.      *)
EngagedIsBound ==
  Reports /\ "released" \notin eng.excused =>
    /\ core.shadow.eng => core.shadow.gen["filter"] # 0
    /\ \A f \in Stages : core.shadow.fx[f].eng => core.shadow.gen[f] # 0

(* The header and the events recorded so far, replayed on a neutral bus, give *)
(* what is heard, while the recording is alone: it began on a report that was *)
(* right (see Reports), every control heard was its own and every control     *)
(* recorded was heard. Two kinds of event are recorded and not heard: one     *)
(* whose publication the bus refused after its record was written, and a      *)
(* legacy engagement of the Filter over an open typed gesture, whose          *)
(* checkpoint throws when the event is already among the pending ones.        *)
TakeReproduces ==
  rec # Nil /\ rec.frozen = Nil /\ rec.alone /\ eng.running /\ eng.epoch = rec.epoch =>
    Audible(ChainPublic(Applied(NeutralChain, HeaderControls(rec.header) \o rec.events))) =
      Audible(ChainPublic(Drained(eng)))

(* The fence of a recording that is alone diverges only when the engine was   *)
(* restarted: the header is the accepted state at the fence's position.       *)
FenceKept == rec # Nil /\ rec.diverged /\ rec.alone => eng.epoch # rec.epoch \/ core.bound = 0

(* When a replay has ended, the bus of its engine start is neutral, unless    *)
(* somebody else played meanwhile.                                            *)
ResetIsNeutral ==
  rep # Nil /\ rep.state # "playing" /\ rep.alone /\ eng.running /\ eng.epoch = rep.born /\ eng.queue = <<>> =>
    Audible(ChainPublic(eng.chain)) = Audible(ChainPublic(NeutralChain))
===============================================================================
