------------------------------ MODULE MCSessions ------------------------------
(* What must still finish although a peer goes away or others are in the     *)
(* way: recording and stopping through the runtime facade, the transfer of   *)
(* content to the Cardputer, a Capture committed inside a Sequence, the      *)
(* storing of Sound Sets, the browser's writer lock, scheduled recordings.   *)
EXTENDS Sessions
CONSTANTS Nil

VARIABLES part, project, journal, session, answered, faults,
          sets, staging, lease, calls, intent, catalog, installed, left, setFaults,
          block, entry, slot, current, tries, fails,
          tag, cell, payload, last, slots, cur, pins, borrows, local, cutoff, settled, transport, playing,
          acknowledged, authority, cue, tail, audio, recording, commands, held, started, won
captureVars == <<project, journal, session, answered, faults>>
setVars == <<sets, staging, lease, calls, intent, catalog, installed, left, setFaults>>
leaseVars == <<block, entry, slot, current, tries, fails>>
recVars == <<tag, cell, payload, last, slots, cur, pins, borrows, local, cutoff, settled, transport, playing,
            acknowledged, authority, cue, tail, audio, recording, commands, held, started, won>>
allVars == <<part, vars, usbVars, captureVars, setVars, leaseVars, recVars>>
Announced == {<<0, 1>>, <<0, 0>>}

Capture == INSTANCE ArmedCapture WITH Takes <- {"a", "b"},
  VisibleWrites <- {"prepare", "publish", "complete", "abort"}, MaxFaults <- 4, MaxRevision <- 5
Store == INSTANCE SoundSetStore WITH Hosts <- {"h1", "h2"}, Sets <- {"slot"}, Slots <- {"slot"},
  Manifest <- "manifest", Blobs <- [s \in {"slot"} |-> {"demo", "kick"}], Bytes <- [f \in {"manifest", "demo", "kick"} |-> 1],
  StagingLimit <- 5, Copying <- TRUE, Faults <- {"catalog", "crash", "storage"}, MaxFaults <- 2,
  answered <- installed, faults <- setFaults
Lease == INSTANCE WebWriterLease WITH Realms <- {"control", "worker"}, Slots <- {"c1", "c2", "w1"},
  RealmOf <- [c1 |-> "control", c2 |-> "control", w1 |-> "worker"], Blocks <- 1 .. 2, MaxTries <- 5, MayFail <- 0
Recording == INSTANCE ScheduledRecord WITH CountIn <- 2, Markers <- <<0>>, Envelope <- 1, Quanta <- {2},
  Slots <- {"s1"}, MaxSerial <- 2, MaxCommands <- 0, running <- recording
ASSUME /\ Capture!CaptureAssumption /\ Usb!TransferAssumption /\ Store!SoundSetAssumption
       /\ Lease!WriterAssumption /\ Recording!ScheduledAssumption
-------------------------------------------------------------------------------
(* The components side by side, each in an initial state; a behaviour moves  *)
(* one of them.                                                              *)
Parts == {"facade", "usb", "capture", "store", "lease", "records"}
MCInit ==
  /\ part \in Parts /\ Init
  /\ Usb!Init
  /\ Capture!Init
  /\ Store!Init
  /\ Lease!Init
  /\ Recording!Init
MCNext ==
  /\ UNCHANGED part
  /\ \/ part = "facade" /\ Next /\ UNCHANGED <<usbVars, captureVars, setVars, leaseVars, recVars>>
     \/ part = "usb" /\ Usb!Next /\ UNCHANGED <<vars, captureVars, setVars, leaseVars, recVars>>
     \/ part = "capture" /\ Capture!Next /\ UNCHANGED <<vars, usbVars, setVars, leaseVars, recVars>>
     \/ part = "store" /\ Store!Next /\ UNCHANGED <<vars, usbVars, captureVars, leaseVars, recVars>>
     \/ part = "lease" /\ Lease!Next /\ UNCHANGED <<vars, usbVars, captureVars, setVars, recVars>>
     \/ part = "records" /\ Recording!Next /\ UNCHANGED <<vars, usbVars, captureVars, setVars, leaseVars>>
(* Audio calls back, the host polls and retries, a client retries or discards  *)
(* and recovery runs; the device polls its link and its clock ticks. A request *)
(* that was begun goes on, every Set is asked for again and again; lease       *)
(* holders end and realms drain; voices end, control acknowledges and stops    *)
(* the schedule it started. (Again holds one step of each of three parts; a    *)
(* behaviour is of one part.)                                                  *)
Again ==
  \/ part = "facade" /\ PollLoad /\ UNCHANGED <<setVars, recVars>>
  \/ part = "store" /\ (\E h \in {"h1", "h2"} : Store!Acquire(h, "slot")) /\ UNCHANGED <<vars, recVars>>
  \/ part = "records" /\ Recording!Mix(FALSE) /\ UNCHANGED <<vars, setVars>>
MCFairness ==
  /\ WF_vars(part = "facade" /\ Render) /\ SF_<<vars, setVars, recVars>>(Again) /\ WF_vars(part = "facade" /\ PollDrain) /\ WF_vars(part = "facade" /\ PollDrained)
  /\ SF_vars(part = "facade" /\ PollRetire) /\ WF_vars(part = "facade" /\ PollDone)
  /\ WF_vars(part = "facade" /\ SubmitRecord) /\ SF_vars(part = "facade" /\ FinishStop)
  /\ WF_captureVars(part = "capture" /\ Capture!Disarm) /\ WF_captureVars(part = "capture" /\ Capture!Reconcile)
  /\ WF_usbVars(part = "usb" /\ Usb!PollBegin) /\ WF_usbVars(part = "usb" /\ Usb!PollEnd) /\ WF_usbVars(part = "usb" /\ Usb!Tick)
  /\ \A h \in {"h1", "h2"} : WF_setVars(part = "store" /\ Store!Step(h))
  /\ \A r \in {"control", "worker"} : WF_leaseVars(part = "lease" /\ Lease!Drain(r))
  /\ \A l \in {"c1", "c2", "w1"} :
       /\ WF_leaseVars(part = "lease" /\ Lease!Acquiring(l)) /\ WF_leaseVars(part = "lease" /\ Lease!Destroy(l))
       /\ WF_leaseVars(part = "lease" /\ Lease!Releasing(l) /\ ~Lease!At(l, "held"))
  /\ WF_recVars(part = "records" /\ Recording!AudioStep)
  /\ WF_recVars(part = "records" /\ Recording!AcknowledgeCommand)
  /\ WF_recVars(part = "records" /\ Recording!AcknowledgeStart)
  /\ WF_recVars(part = "records" /\ Recording!AcknowledgeCancel)
  /\ WF_recVars(part = "records" /\ cell.serial # 0 /\ Recording!SubmitCommand("stop"))
MCSpec == MCInit /\ [][MCNext]_allVars /\ MCFairness
-------------------------------------------------------------------------------
(* Every command the facade accepted gets its receipt, and a stop that was   *)
(* asked for is answered (RuntimeFacade).                                    *)
AllAnswered == StopFinishes /\ Receipted

(* The marker of an armed take is resolved, whatever failed before           *)
(* (ArmedCapture); a transfer that a peer has left ends (CardputerTransfer). *)
SessionsEnd == Capture!MarkerResolves /\ Usb!Ends

(* Once the failures end, a Sound Set that Hosts keep asking for is stored,  *)
(* with its own bytes: no interrupted attempt, no pending publication and no *)
(* part of a copy is in the way for ever (SoundSetStore).                    *)
EverySetArrives == <>(part = "store" => Store!Enumerated("slot") /\ Store!Good("slot", Store!Files("slot")))

(* Once nobody asks any more every generation of the writer lock is closed   *)
(* and freed, in whatever order its realms let go (WebWriterLease).          *)
EveryBlockFreed == Lease!EveryBlockFreed

(* A schedule starts, is refused or is cancelled, and its cell is free       *)
(* again, unless it is cancelled while audio prepares it (ScheduledRecord).  *)
EveryScheduleDecided == Recording!EveryScheduleDecided
===============================================================================
