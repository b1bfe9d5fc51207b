---------------------------- MODULE RuntimeProofs ----------------------------
(***************************************************************************)
(* Proofs about MpvBoot, for any hosts, sizes and scales: its types, that  *)
(* nobody uses the mpv handle after its end, and that the browsers come to *)
(* have the size of the window; about MacDisplayLink, for any displays:    *)
(* its types, and that the frames go on while the application runs; about  *)
(* MacMainLoop, for any threads and tasks: its types, and that the run     *)
(* loop never sleeps on work it was promised to do; and about the six      *)
(* machines that MCRuntime puts together.                                  *)
(***************************************************************************)
EXTENDS MCRuntime, PlaybackCoordinatorProofs, AppLifecycleProofs

(* The steps of the teardown, and what follows each.                        *)
LEMMA TeardownSteps ==
  /\ DOMAIN Teardown = {"detach", "media", "stop", "wake", "join", "cef", "coordinator",
                        "terminate"}
  /\ Teardown["detach"] = "media" /\ Teardown["media"] = "stop"
  /\ Teardown["stop"] = "wake" /\ Teardown["wake"] = "join"
  /\ Teardown["join"] = "cef" /\ Teardown["cef"] = "coordinator"
  /\ Teardown["coordinator"] = "terminate" /\ Teardown["terminate"] = "down"
BY DEF Teardown

(* A product of sizes that are not zero is not zero.                        *)
LEMMA Product ==
  ASSUME NEW m \in Nat \ {0}, NEW n \in Nat \ {0}
  PROVE  m * n \in Nat \ {0}
OBVIOUS

(* What is appended to a queue comes last in it.                            *)
LEMMA AppendLast ==
  ASSUME NEW S, NEW q \in Seq(S), NEW e \in S
  PROVE  /\ Append(q, e) \in Seq(S)
         /\ Append(q, e) # <<>>
         /\ Append(q, e)[Len(Append(q, e))] = e
OBVIOUS

(* Taking the head of a queue leaves its last where it is.                  *)
LEMMA TailLast ==
  ASSUME NEW S, NEW q \in Seq(S), q # <<>>
  PROVE  /\ Tail(q) \in Seq(S)
         /\ Head(q) \in S
         /\ Tail(q) # <<>> => Tail(q)[Len(Tail(q))] = q[Len(q)]
         /\ Tail(q) = <<>> => Head(q) = q[Len(q)]
<1>1. Len(q) \in Nat \ {0} /\ Tail(q) \in Seq(S) /\ Head(q) \in S
  OBVIOUS
<1>2. Len(Tail(q)) = Len(q) - 1
  OBVIOUS
<1>3. ASSUME Tail(q) # <<>> PROVE Tail(q)[Len(Tail(q))] = q[Len(q)]
  <2>1. Len(Tail(q)) \in 1..(Len(q) - 1)
    BY <1>1, <1>2, <1>3
  <2> QED
    BY <1>1, <1>2, <2>1
<1>4. Len(<<>>) = 0 /\ Head(q) = q[1] /\ (Len(Tail(q)) = 0 => Len(q) = 1)
  BY <1>1, <1>2
<1>5. ASSUME Tail(q) = <<>> PROVE Head(q) = q[Len(q)]
  BY <1>4, <1>5, Zenon
<1> QED
  BY <1>1, <1>3, <1>5

-----------------------------------------------------------------------------
(* Types.                                                                   *)

(* The stages of the main thread: before the VO wait, until the browsers    *)
(* are there, until the main loop runs, and once the proxy is detached.     *)
Initial == {"init", "publish", "observe"}
Early == VoWait \cup {"platform", "browsers"}
Late == {"coord", "handlers", "events", "run"}
Detached == {"media", "stop", "wake", "join", "cef", "coordinator", "terminate"}

(* What the types of the later steps rest on: the sizes used are positive.  *)
SizedInv ==
  /\ at \in {"ready", "platform", "browsers"} \cup Late => vo.mw > 0
  /\ evt.pc # "off" => vo.mw > 0 /\ at \in {"run", "detach", "down"} \cup Detached
  /\ evt.pc = "write" => evt.held > 0
  /\ pend.scale > 0
  /\ proxyAt = "post" => wlWindow.size > 0
  /\ host = "wayland" => "size" \notin news
  /\ host # "wayland" => /\ proxyAt = "idle"
                         /\ vo.mw > 0 \/ ingest.pw > 0 => mpvWin.size > 0

(* The types of the variables, by name.                                     *)
Inputs == [pw : Nat, scale : Nat, maximized : BOOLEAN]
Locals == [want : BOOLEAN, mw : Nat, need_max : BOOLEAN]
Windows == [size : Nat, scale : Nat, max : BOOLEAN, quit : BOOLEAN]
Seen == [size : Nat, scale : Nat]
Pendings == [w : Nat, scale : Nat]
Pcs == {"off", "check", "wait", "scale", "write", "done"}
Events == [pc : Pcs, held : Nat]
Registries == [on : {FALSE}, pw : {0}] \cup [on : BOOLEAN, pw : Nat \ {0}]
Sizes == Seq(Nat \ {0})
Ways == {"early", "written back"}

(* What the main thread may be at.                                          *)
Stages == Initial \cup Early \cup Late \cup {"detach", "down"} \cup Detached

(* The types by their names, in the groups that change together.            *)
ThreadTypes ==
  handle_slot \in {"none", "live", "gone"} /\ at \in Stages /\ vo \in Locals
WindowTypes == mpvWin \in Windows /\ news \subseteq Observed /\ changes \in 0..MaxWindow
WlTypes ==
  /\ wlWindow \in Seen /\ pend \in Pendings
  /\ proxyAt \in {"idle", "scale", "wake_scale", "fire", "post", "wake"} /\ linked \in BOOLEAN
EvtTypes == evt \in Events /\ evtStop \in BOOLEAN
SizeTypes ==
  /\ coord \in {"none", "on", "off"} /\ dims \in Sizes /\ setter \in BOOLEAN
  /\ reg \in Registries /\ lost \subseteq Ways
UserTypes == media \in BOOLEAN /\ holding \subseteq Users /\ closing \in BOOLEAN
BootTypes ==
  /\ host \in Hosts /\ ThreadTypes /\ ingest \in Inputs /\ WindowTypes /\ woken \in BOOLEAN
  /\ WlTypes /\ EvtTypes /\ SizeTypes /\ UserTypes

(* They are the types of the specification.                                 *)
LEMMA BootTypesSame == BootTypeOK <=> BootTypes
<1>1. Stages = {"init", "publish", "observe", "platform", "browsers", "coord", "handlers",
                "events", "run"} \cup VoWait \cup DOMAIN Teardown \cup {"down"}
  BY TeardownSteps DEF Stages, Initial, Early, Late, Detached
<1> HIDE DEF Stages
<1> QED
  BY <1>1 DEF BootTypeOK, BootTypes, ThreadTypes, WindowTypes, WlTypes, EvtTypes, SizeTypes,
              UserTypes, Inputs, Locals, Windows, Seen, Pendings, Pcs, Events, Registries, Sizes,
              Ways

(* A group of variables that does not change keeps its types.               *)
LEMMA GroupsKept ==
  ASSUME BootTypes
  PROVE  /\ UNCHANGED threadVars => ThreadTypes'
         /\ UNCHANGED mpvWinVars => WindowTypes'
         /\ UNCHANGED wlVars => WlTypes'
         /\ UNCHANGED evtVars => EvtTypes'
         /\ UNCHANGED sizeVars => SizeTypes'
         /\ UNCHANGED userVars => UserTypes'
BY DEF BootTypes, ThreadTypes, WindowTypes, WlTypes, EvtTypes, SizeTypes, UserTypes,
       threadVars, mpvWinVars, wlVars, evtVars, sizeVars, userVars

(* The ingest layer keeps its types.                                        *)
LEMMA DigestedTypes ==
  ASSUME BootTypes, NEW p \in Observed
  PROVE  Digested(p) \in Inputs
<1> USE DEF BootTypes, WindowTypes
<1>1. CASE p = "size"
  BY <1>1 DEF Digested, Inputs, Windows
<1>2. CASE p = "scale"
  BY <1>2 DEF Digested, Inputs, Windows
<1>3. CASE p = "max"
  BY <1>3 DEF Digested, Inputs, Windows
<1> QED
  BY <1>1, <1>2, <1>3 DEF Observed

(* So does the VO wait for an event it consumes.                            *)
LEMMA ConsumeTypes ==
  ASSUME BootTypes, ConsumeVoEvent
  PROVE  /\ vo' \in Locals /\ ingest' \in Inputs /\ news' \subseteq Observed
         /\ at' \in {"drain", "down"} /\ UNCHANGED sizeVars
<1> USE DEF BootTypes, ThreadTypes, WindowTypes
<1>1. CASE UNCHANGED <<vo, ingest, news, sizeVars>> /\ at' = "down"
  BY <1>1
<1>2. ASSUME NEW p \in news, NEW mw \in Nat,
             news' = news \ {p} /\ ingest' = Digested(p),
             vo' = [vo EXCEPT !.need_max = @ /\ ~(p = "max" /\ ingest'.maximized),
                              !.mw = IF mw > 0 THEN mw ELSE @],
             at' = "drain", UNCHANGED sizeVars
      PROVE  vo' \in Locals /\ ingest' \in Inputs /\ news' \subseteq Observed
             /\ at' \in {"drain", "down"} /\ UNCHANGED sizeVars
  <2>1. ingest' \in Inputs
    BY <1>2, DigestedTypes
  <2>2. vo' \in Locals
    BY <1>2 DEF Locals
  <2> QED
    BY <1>2, <2>1, <2>2
<1>3. \A p \in news : Digested(p).pw \in Nat
  BY DigestedTypes DEF Inputs
<1>4. wlWindow.size \in Nat
  BY DEF WlTypes, Seen
<1> QED
  BY <1>1, <1>2, <1>3, <1>4 DEF ConsumeVoEvent

(* The sizes posted are positive, and so are those that were posted.        *)
LEMMA PostDimsTypes ==
  ASSUME BootTypes, NEW pw \in Nat \ {0}, PostDims(pw)
  PROVE  SizeTypes'
<1> USE DEF BootTypes, SizeTypes
<1>1. Append(dims, pw) \in Sizes
  BY AppendLast DEF Sizes
<1>2. lost \cup {"early"} \subseteq Ways
  BY DEF Ways
<1> QED
  BY <1>1, <1>2 DEF PostDims, Lose

(* The registry has no size until there is one, a positive one from then on.*)
LEMMA RegistryTypes ==
  ASSUME NEW r \in Registries
  PROVE  /\ r.pw \in Nat /\ r.on \in BOOLEAN /\ (r.on => r.pw > 0)
         /\ [r EXCEPT !.on = FALSE] \in Registries
         /\ \A pw \in Nat \ {0} : r.on => [r EXCEPT !.pw = pw] \in Registries
<1>0. /\ [on : {FALSE}, pw : {0}] \subseteq Registries
      /\ [on : BOOLEAN, pw : Nat \ {0}] \subseteq Registries
  BY DEF Registries
<1>1. CASE r \in [on : {FALSE}, pw : {0}]
  <2>1. r.pw = 0 /\ r.on \in BOOLEAN /\ ~r.on
    BY <1>1
  <2>2. [r EXCEPT !.on = FALSE] \in [on : {FALSE}, pw : {0}]
    BY <1>1
  <2>3. [r EXCEPT !.on = FALSE] \in Registries
    BY <1>0, <2>2
  <2>4. r.pw \in Nat /\ r.on \in BOOLEAN /\ (r.on => r.pw > 0)
    BY <2>1
  <2> QED
    BY <2>1, <2>3, <2>4
<1>2. CASE r \in [on : BOOLEAN, pw : Nat \ {0}]
  <2>1. r.pw \in Nat /\ r.on \in BOOLEAN /\ (r.on => r.pw > 0)
    BY <1>2
  <2>2. [r EXCEPT !.on = FALSE] \in [on : BOOLEAN, pw : Nat \ {0}]
    BY <1>2
  <2>3. \A pw \in Nat \ {0} : [r EXCEPT !.pw = pw] \in [on : BOOLEAN, pw : Nat \ {0}]
    BY <1>2
  <2>4. [r EXCEPT !.on = FALSE] \in Registries
    BY <1>0, <2>2
  <2>5. \A pw \in Nat \ {0} : [r EXCEPT !.pw = pw] \in Registries
    BY <1>0, <2>3
  <2> QED
    BY <2>1, <2>4, <2>5
<1>3. r \in [on : {FALSE}, pw : {0}] \/ r \in [on : BOOLEAN, pw : Nat \ {0}]
  BY DEF Registries
<1> QED
  BY <1>1, <1>2, <1>3

(* The places of the main thread, as the steps name them.                   *)
LEMMA StagesAre ==
  /\ VoWait \subseteq Stages /\ DOMAIN Teardown \subseteq Stages
  /\ \A step \in DOMAIN Teardown : Teardown[step] \in Stages
  /\ {"init", "publish", "observe", "platform", "browsers", "coord", "handlers", "events",
      "run", "detach", "down"} \subseteq Stages
BY TeardownSteps DEF Stages, Initial, Early, Late, Detached

(* The steps of the main thread keep the types.                             *)
LEMMA BootStepTypes == BootTypes /\ SizedInv /\ BootStep /\ UNCHANGED host => BootTypes'
<1> SUFFICES ASSUME BootTypes, SizedInv, BootStep, UNCHANGED host PROVE BootTypes'
  OBVIOUS
<1> USE GroupsKept, StagesAre DEF BootTypes, ThreadTypes, VoWait
<1>1. CASE HandleInit \/ PublishHandle \/ CheckHost \/ RunLoop \/ InitPlatform \/ EndMainLoop
  BY <1>1 DEF HandleInit, PublishHandle, CheckHost, RunLoop, InitPlatform, EndMainLoop
<1>2. CASE ObserveProperties
  BY <1>2 DEF ObserveProperties, WindowTypes
<1>3. CASE Drain
  <2>1. CASE ConsumeVoEvent
    BY <1>3, <2>1, ConsumeTypes DEF Drain, WindowTypes
  <2>2. CASE UNCHANGED <<vo, ingest, news, sizeVars>> /\ at' = "size"
    BY <1>3, <2>2 DEF Drain, WindowTypes
  <2> QED
    BY <1>3, <2>1, <2>2 DEF Drain
<1>4. CASE CheckSize
  <2>1. Source \in Nat
    BY DEF Source, Inputs, WlTypes, Seen
  <2>2. vo' \in Locals
    BY <1>4, <2>1 DEF CheckSize, Locals
  <2> QED
    BY <1>4, <2>2 DEF CheckSize
<1>5. CASE Block
  <2>1. CASE ConsumeVoEvent
    BY <1>5, <2>1, ConsumeTypes DEF Block, WindowTypes
  <2>2. CASE UNCHANGED <<vo, ingest, news, sizeVars>> /\ at' = "drain"
    BY <1>5, <2>2 DEF Block, WindowTypes
  <2> QED
    BY <1>5, <2>1, <2>2 DEF Block
<1>6. CASE InitBrowsers
  <2>1. vo.mw \in Nat \ {0}
    BY <1>6 DEF InitBrowsers, SizedInv, Locals
  <2>2. [ingest EXCEPT !.pw = vo.mw] \in Inputs
    BY <2>1 DEF Inputs
  <2>3. [on |-> TRUE, pw |-> vo.mw] \in Registries
    BY <2>1 DEF Registries
  <2>4. lost' \subseteq Ways
    BY <1>6 DEF InitBrowsers, Ways
  <2> QED
    BY <1>6, <2>2, <2>3, <2>4 DEF InitBrowsers, SizeTypes
<1>7. CASE InitCoordinator \/ SetHandlers
  BY <1>7 DEF InitCoordinator, SetHandlers, SizeTypes, UserTypes
<1>8. CASE StartEventThread
  <2>1. [evt EXCEPT !.pc = "check"] \in Events
    BY DEF EvtTypes, Events, Pcs
  <2> QED
    BY <1>8, <2>1 DEF StartEventThread, EvtTypes
<1>9. CASE DetachProxy \/ StopMedia \/ StopEvents \/ WakeEvents \/ JoinEvents
  <2>1. \A step \in DOMAIN Teardown : Passes(step) => at' \in Stages /\ UNCHANGED vo
    BY StagesAre DEF Passes
  <2> QED
    BY <1>9, <2>1, TeardownSteps DEF DetachProxy, StopMedia, StopEvents, WakeEvents, JoinEvents, WlTypes,
                      EvtTypes, UserTypes
<1>10. CASE ShutdownCef
  <2>1. [reg EXCEPT !.on = FALSE] \in Registries
    BY RegistryTypes DEF SizeTypes
  <2> QED
    BY <1>10, <2>1, TeardownSteps DEF ShutdownCef, SizeTypes, Passes
<1>11. CASE ShutdownCoordinator \/ TerminateHandle
  <2>1. <<>> \in Sizes
    BY DEF Sizes
  <2> QED
    BY <1>11, <2>1, TeardownSteps DEF ShutdownCoordinator, TerminateHandle, SizeTypes, Passes
<1> QED
  BY <1>1, <1>2, <1>3, <1>4, <1>5, <1>6, <1>7, <1>8, <1>9, <1>10, <1>11 DEF BootStep

(* So do those of the proxy thread.                                         *)
LEMMA ProxyStepTypes == BootTypes /\ SizedInv /\ ProxyStep /\ UNCHANGED host => BootTypes'
<1> SUFFICES ASSUME BootTypes, SizedInv, ProxyStep, UNCHANGED host PROVE BootTypes'
  OBVIOUS
<1> USE GroupsKept DEF BootTypes, WlTypes
<1>1. CASE OnScale
  <2>1. [wlWindow EXCEPT !.scale = pend.scale] \in Seen
    BY DEF Seen, Pendings
  <2> QED
    BY <1>1, <2>1 DEF OnScale
<1>2. CASE ProxyWakes
  BY <1>2 DEF ProxyWakes
<1>3. CASE FireConfigure
  <2>1. CASE pend.w = 0 \/ ~linked
    BY <1>3, <2>1 DEF FireConfigure
  <2>2. CASE ~(pend.w = 0 \/ ~linked)
    <3>1. pend.w * pend.scale \in Nat
      BY DEF Pendings
    <3>2. [wlWindow EXCEPT !.size = pend.w * pend.scale] \in Seen
      BY <3>1 DEF Seen
    <3> QED
      BY <1>3, <2>2, <3>2 DEF FireConfigure
  <2> QED
    BY <2>1, <2>2
<1>4. CASE PostOsdPixels
  <2>1. wlWindow.size \in Nat \ {0} /\ PostDims(wlWindow.size)
    BY <1>4 DEF PostOsdPixels, SizedInv, Seen
  <2>2. [ingest EXCEPT !.pw = wlWindow.size] \in Inputs
    BY <2>1 DEF Inputs
  <2>3. SizeTypes'
    BY <2>1, PostDimsTypes
  <2> QED
    BY <1>4, <2>2, <2>3 DEF PostOsdPixels
<1> QED
  BY <1>1, <1>2, <1>3, <1>4 DEF ProxyStep

(* So do those of the event thread.                                         *)
LEMMA EvtStepTypes == BootTypes /\ SizedInv /\ EvtStep /\ UNCHANGED host => BootTypes'
<1> SUFFICES ASSUME BootTypes, SizedInv, EvtStep, UNCHANGED host PROVE BootTypes'
  OBVIOUS
<1> USE GroupsKept DEF BootTypes, EvtTypes
<1>0. \A pos \in Pcs : [evt EXCEPT !.pc = pos] \in Events
  BY DEF Events
<1>1. CASE EvtCheck \/ EvtNone \/ EvtShutdown
  BY <1>1, <1>0 DEF EvtCheck, EvtNone, EvtShutdown, Pcs, UserTypes
<1>2. ASSUME NEW p \in Observed, EvtProperty(p) PROVE BootTypes'
  <2>1. ingest' \in Inputs
    BY <1>2, DigestedTypes DEF EvtProperty
  <2>2. evt' \in Events
    BY <1>2, <1>0 DEF EvtProperty, Pcs
  <2>3. WindowTypes'
    BY <1>2 DEF EvtProperty, WindowTypes
  <2>4. SizeTypes'
    <3>1. CASE p = "size"
      <4>1. host # "wayland" /\ vo.mw > 0
        BY <1>2, <3>1 DEF EvtProperty, SizedInv
      <4>2. mpvWin.size \in Nat \ {0} /\ PostDims(mpvWin.size)
        BY <1>2, <3>1, <4>1 DEF EvtProperty, SizedInv, WindowTypes, Windows
      <4> QED
        BY <4>2, PostDimsTypes
    <3>2. CASE p # "size"
      BY <1>2, <3>2 DEF EvtProperty
    <3> QED
      BY <3>1, <3>2
  <2> QED
    BY <1>2, <2>1, <2>2, <2>3, <2>4 DEF EvtProperty
<1>3. CASE SetScaleRead
  <2>1. reg.pw \in Nat
    BY RegistryTypes DEF SizeTypes
  <2>2. [pc |-> "write", held |-> reg.pw] \in Events
    BY <2>1 DEF Events, Pcs
  <2> QED
    BY <1>3, <1>0, <2>2 DEF SetScaleRead, Pcs
<1>4. CASE SetScaleWrite
  <2>1. [pc |-> "check", held |-> 0] \in Events
    BY DEF Events, Pcs
  <2>2. reg' \in Registries
    <3>1. CASE reg.on
      <4>1. evt.held \in Nat \ {0}
        <5>1. evt.held \in Nat
          BY DEF Events
        <5>2. evt.held > 0
          BY <1>4 DEF SetScaleWrite, SizedInv
        <5> QED
          BY <5>1, <5>2
      <4>2. [reg EXCEPT !.pw = evt.held] \in Registries
        BY <3>1, <4>1, RegistryTypes DEF SizeTypes
      <4> QED
        BY <1>4, <3>1, <4>2 DEF SetScaleWrite
    <3>2. CASE ~reg.on
      BY <1>4, <3>2 DEF SetScaleWrite, SizeTypes
    <3> QED
      BY <3>1, <3>2
  <2>3. lost' \subseteq Ways
    BY <1>4 DEF SetScaleWrite, Ways, SizeTypes
  <2> QED
    BY <1>4, <2>1, <2>2, <2>3 DEF SetScaleWrite, SizeTypes
<1> QED
  BY <1>1, <1>2, <1>3, <1>4 DEF EvtStep

(* So do the worker of the coordinator and the users of the handle.         *)
LEMMA UserStepTypes ==
  BootTypes /\ (DeliverDims \/ \E u \in Users : TakeRaw(u) \/ UseRaw(u)) /\ UNCHANGED host
    => BootTypes'
<1> SUFFICES ASSUME BootTypes, DeliverDims \/ \E u \in Users : TakeRaw(u) \/ UseRaw(u),
                    UNCHANGED host
             PROVE  BootTypes'
  OBVIOUS
<1> USE GroupsKept DEF BootTypes
<1>1. CASE DeliverDims
  <2>1. Tail(dims) \in Sizes /\ Head(dims) \in Nat \ {0}
    BY <1>1, TailLast DEF DeliverDims, SizeTypes, Sizes
  <2>2. reg' \in Registries
    <3>1. CASE setter /\ reg.on
      <4>1. [reg EXCEPT !.pw = Head(dims)] \in Registries
        BY <2>1, <3>1, RegistryTypes DEF SizeTypes
      <4> QED
        BY <1>1, <3>1, <4>1 DEF DeliverDims
    <3>2. CASE ~(setter /\ reg.on)
      BY <1>1, <3>2 DEF DeliverDims, SizeTypes
    <3> QED
      BY <3>1, <3>2
  <2>3. lost' \subseteq Ways
    BY <1>1 DEF DeliverDims, Lose, SizeTypes, Ways
  <2> QED
    BY <1>1, <2>1, <2>2, <2>3 DEF DeliverDims, SizeTypes
<1>2. ASSUME NEW u \in Users, TakeRaw(u) \/ UseRaw(u) PROVE BootTypes'
  BY <1>2 DEF TakeRaw, UseRaw, UserTypes
<1> QED
  BY <1>1, <1>2

(* So do mpv, the compositor and the user.                                  *)
LEMMA EnvironmentTypes == BootTypes /\ Environment /\ UNCHANGED host => BootTypes'
<1> SUFFICES ASSUME BootTypes, Environment, UNCHANGED host PROVE BootTypes'
  OBVIOUS
<1> USE GroupsKept DEF BootTypes
<1>0. changes < MaxWindow => changes + 1 \in 0..MaxWindow
  BY BootAssumption DEF WindowTypes
<1>1. ASSUME NEW p \in Observed, NEW new \in Windows, WindowChanges(p, new) PROVE BootTypes'
  BY <1>0, <1>1 DEF WindowChanges, WindowTypes
<1>2. CASE WindowResized
  <2>1. \A w \in LogicalSizes : [mpvWin EXCEPT !.size = w] \in Windows
    BY BootAssumption DEF Windows, WindowTypes
  <2> QED
    BY <1>1, <1>2, <2>1 DEF WindowResized, Observed
<1>3. CASE WindowRescaled
  <2>1. \A sc \in Scales : [mpvWin EXCEPT !.scale = sc] \in Windows
    BY BootAssumption DEF Windows, WindowTypes
  <2> QED
    BY <1>1, <1>3, <2>1 DEF WindowRescaled, Observed
<1>4. CASE WindowMaximized
  <2>1. [mpvWin EXCEPT !.max = TRUE] \in Windows
    BY DEF Windows, WindowTypes
  <2> QED
    BY <1>4, <2>1 DEF WindowMaximized, WindowTypes, Observed
<1>5. CASE MpvQuits
  <2>1. [mpvWin EXCEPT !.quit = TRUE] \in Windows
    BY DEF Windows, WindowTypes
  <2> QED
    BY <1>5, <2>1 DEF MpvQuits, WindowTypes
<1>6. CASE AskToClose
  BY <1>6 DEF AskToClose, UserTypes
<1>7. ASSUME NEW new \in Pendings, NEW goal \in {"fire", "scale"}, ProxyTakes(new, goal)
      PROVE  BootTypes'
  BY <1>0, <1>7 DEF ProxyTakes, WlTypes, WindowTypes
<1>8. CASE CompositorConfigures
  <2>1. \A w \in LogicalSizes : [pend EXCEPT !.w = w] \in Pendings
    BY BootAssumption DEF WlTypes, Pendings
  <2> QED
    BY <1>7, <1>8, <2>1 DEF CompositorConfigures
<1>9. CASE CompositorRescales
  <2>1. \A sc \in Scales : [pend EXCEPT !.scale = sc] \in Pendings
    BY BootAssumption DEF WlTypes, Pendings
  <2> QED
    BY <1>7, <1>9, <2>1 DEF CompositorRescales
<1> QED
  BY <1>2, <1>3, <1>4, <1>5, <1>6, <1>8, <1>9 DEF Environment

-----------------------------------------------------------------------------
(* Sizes: what is used is positive.                                         *)

(* The VO wait ends with a size only.                                       *)
LEMMA SizedBootStep == BootTypes /\ SizedInv /\ BootStep /\ UNCHANGED host => SizedInv'
<1> SUFFICES ASSUME BootTypes, SizedInv, BootStep, UNCHANGED host PROVE SizedInv'
  OBVIOUS
<1> USE DEF SizedInv, Late, Detached, threadVars, mpvWinVars, wlVars, evtVars, sizeVars, userVars
<1>1. CASE HandleInit \/ PublishHandle \/ CheckHost \/ RunLoop \/ InitPlatform \/ EndMainLoop
  BY <1>1 DEF HandleInit, PublishHandle, CheckHost, RunLoop, InitPlatform, EndMainLoop
<1>2. CASE ObserveProperties
  BY <1>2 DEF ObserveProperties
<1>3. CASE Drain \/ Block
  <2>1. CASE ConsumeVoEvent
    <3>1. evt.pc = "off"
      BY <1>3 DEF Drain, Block
    <3>2. UNCHANGED <<mpvWin, wlVars, evtVars>> /\ at' \in {"drain", "down"}
          /\ news' \subseteq news /\ UNCHANGED sizeVars
      BY <1>3, <2>1 DEF Drain, Block, ConsumeVoEvent
    <3>3. ASSUME host # "wayland", vo'.mw > 0 \/ ingest'.pw > 0
          PROVE  mpvWin.size > 0
      <4>1. CASE UNCHANGED <<vo, ingest, news, sizeVars>>
        BY <3>3, <4>1
      <4>2. ASSUME NEW p \in news, ingest' = Digested(p),
                   vo'.mw = IF Digested(p).pw > 0 THEN Digested(p).pw ELSE vo.mw
            PROVE  mpvWin.size > 0
        <5>1. (Digested(p).pw = mpvWin.size /\ mpvWin.size > 0) \/ Digested(p).pw = ingest.pw
          BY DEF Digested, BootTypes, WindowTypes, Observed, Inputs
        <5> QED
          BY <3>3, <4>2, <5>1
      <4>3. ASSUME NEW p \in news,
                   LET mw == IF host # "wayland" THEN Digested(p).pw ELSE wlWindow.size IN
                   vo' = [vo EXCEPT !.need_max = @ /\ ~(p = "max" /\ ingest'.maximized),
                                    !.mw = IF mw > 0 THEN mw ELSE @]
            PROVE  vo'.mw = IF Digested(p).pw > 0 THEN Digested(p).pw ELSE vo.mw
        BY <3>3, <4>3 DEF BootTypes, ThreadTypes, Locals
      <4> QED
        BY <2>1, <4>1, <4>2, <4>3 DEF ConsumeVoEvent
    <3> QED
      BY <3>1, <3>2, <3>3
  <2>2. CASE ~ConsumeVoEvent
    BY <1>3, <2>2 DEF Drain, Block
  <2> QED
    BY <2>1, <2>2
<1>4. CASE CheckSize
  <2>1. vo'.mw = IF Source > 0 THEN Source ELSE vo.mw
    BY <1>4 DEF CheckSize, BootTypes, ThreadTypes, Locals
  <2> QED
    BY <1>4, <2>1 DEF CheckSize, WindowReady, Source
<1>5. CASE InitBrowsers
  <2>1. ingest'.pw = vo.mw
    BY <1>5 DEF InitBrowsers, BootTypes, Inputs
  <2> QED
    BY <1>5, <2>1 DEF InitBrowsers
<1>6. CASE InitCoordinator \/ SetHandlers
  BY <1>6 DEF InitCoordinator, SetHandlers
<1>7. CASE StartEventThread
  <2>1. evt'.pc = "check"
    BY <1>7 DEF StartEventThread, BootTypes, EvtTypes, Events
  <2> QED
    BY <1>7, <2>1 DEF StartEventThread
<1>8. CASE DetachProxy \/ StopMedia \/ StopEvents \/ WakeEvents \/ JoinEvents
  BY <1>8, TeardownSteps DEF Passes, DetachProxy, StopMedia, StopEvents, WakeEvents, JoinEvents
<1>9. CASE ShutdownCef \/ ShutdownCoordinator \/ TerminateHandle
  BY <1>9, TeardownSteps DEF Passes, ShutdownCef, ShutdownCoordinator, TerminateHandle
<1> QED
  BY <1>1, <1>2, <1>3, <1>4, <1>5, <1>6, <1>7, <1>8, <1>9 DEF BootStep

(* The other threads and what is outside keep the sizes positive.           *)
LEMMA SizedOtherStep ==
  /\ BootTypes /\ SizedInv /\ UNCHANGED host
  /\ ProxyStep \/ EvtStep \/ DeliverDims \/ Environment \/ \E u \in Users : TakeRaw(u) \/ UseRaw(u)
  => SizedInv'
<1> SUFFICES ASSUME BootTypes, SizedInv, UNCHANGED host,
                    ProxyStep \/ EvtStep \/ DeliverDims \/ Environment
                    \/ \E u \in Users : TakeRaw(u) \/ UseRaw(u)
             PROVE  SizedInv'
  OBVIOUS
<1> USE BootAssumption
    DEF SizedInv, Late, Detached, threadVars, mpvWinVars, wlVars, evtVars, sizeVars, userVars
<1>1. CASE ProxyStep
  <2>1. CASE OnScale \/ ProxyWakes
    BY <1>1, <2>1 DEF OnScale, ProxyWakes
  <2>2. CASE FireConfigure
    <3>1. CASE pend.w = 0 \/ ~linked
      BY <2>2, <3>1 DEF FireConfigure
    <3>2. CASE ~(pend.w = 0 \/ ~linked)
      <4>1. pend.w \in Nat \ {0} /\ pend.scale \in Nat \ {0}
        BY <3>2 DEF BootTypes, WlTypes, Pendings
      <4>2. wlWindow'.size = pend.w * pend.scale
        BY <2>2, <3>2 DEF FireConfigure, BootTypes, WlTypes, Seen
      <4>3. wlWindow'.size > 0
        BY <4>1, <4>2, Product
      <4> QED
        BY <2>2, <3>2, <4>3 DEF FireConfigure
    <3> QED
      BY <3>1, <3>2
  <2>3. CASE PostOsdPixels
    BY <2>3 DEF PostOsdPixels
  <2> QED
    BY <1>1, <2>1, <2>2, <2>3 DEF ProxyStep
<1>2. CASE EvtStep
  <2>0. evt \in Events /\ ingest \in Inputs /\ \A p \in Observed : Digested(p) \in Inputs
    BY DigestedTypes DEF BootTypes, EvtTypes
  <2>1. CASE EvtCheck \/ EvtNone \/ EvtShutdown
    <3>1. evt'.pc \in {"check", "wait", "done"} /\ evt.pc # "off"
      BY <2>0, <2>1 DEF EvtCheck, EvtNone, EvtShutdown, Events
    <3> QED
      BY <2>1, <3>1 DEF EvtCheck, EvtNone, EvtShutdown
  <2>2. ASSUME NEW p \in Observed, EvtProperty(p) PROVE SizedInv'
    <3>1. evt'.pc \in {"check", "scale"} /\ evt.pc # "off"
      BY <2>0, <2>2 DEF EvtProperty, Events
    <3> QED
      BY <2>2, <3>1 DEF EvtProperty
  <2>3. CASE SetScaleRead
    <3>1. CASE reg.on
      <4>1. reg.pw > 0
        BY <3>1, RegistryTypes DEF BootTypes, SizeTypes
      <4> QED
        BY <2>3, <3>1, <4>1 DEF SetScaleRead
    <3>2. CASE ~reg.on
      <4>1. evt'.pc = "check"
        BY <2>0, <2>3, <3>2 DEF SetScaleRead, Events
      <4> QED
        BY <2>3, <4>1 DEF SetScaleRead
    <3> QED
      BY <3>1, <3>2
  <2>4. CASE SetScaleWrite
    BY <2>4 DEF SetScaleWrite
  <2> QED
    BY <1>2, <2>1, <2>2, <2>3, <2>4 DEF EvtStep
<1>3. CASE DeliverDims \/ \E u \in Users : TakeRaw(u) \/ UseRaw(u)
  BY <1>3 DEF DeliverDims, TakeRaw, UseRaw
<1>4. CASE Environment
  <2>1. CASE WindowResized
    <3>1. \A w \in LogicalSizes : [mpvWin EXCEPT !.size = w].size > 0
      BY DEF BootTypes, WindowTypes, Windows
    <3> QED
      BY <2>1, <3>1 DEF WindowResized, WindowChanges
  <2>2. CASE WindowRescaled
    <3>1. \A sc \in Scales : [mpvWin EXCEPT !.scale = sc].size = mpvWin.size
      BY DEF BootTypes, WindowTypes, Windows
    <3> QED
      BY <2>2, <3>1 DEF WindowRescaled, WindowChanges
  <2>3. CASE WindowMaximized \/ MpvQuits
    <3>1. mpvWin'.size = mpvWin.size
      BY <2>3 DEF WindowMaximized, MpvQuits, BootTypes, WindowTypes, Windows
    <3> QED
      BY <2>3, <3>1 DEF WindowMaximized, MpvQuits
  <2>4. CASE AskToClose
    BY <2>4 DEF AskToClose
  <2>5. ASSUME NEW new, NEW goal, ProxyTakes(new, goal), new.scale > 0, goal # "post"
        PROVE  SizedInv'
    BY <2>5 DEF ProxyTakes
  <2>6. CASE CompositorConfigures
    <3>1. \A w \in LogicalSizes : [pend EXCEPT !.w = w].scale > 0
      BY DEF BootTypes, WlTypes, Pendings
    <3> QED
      BY <2>5, <2>6, <3>1 DEF CompositorConfigures
  <2>7. CASE CompositorRescales
    <3>1. \A sc \in Scales : [pend EXCEPT !.scale = sc].scale > 0
      BY DEF BootTypes, WlTypes, Pendings
    <3> QED
      BY <2>5, <2>7, <3>1 DEF CompositorRescales
  <2> QED
    BY <1>4, <2>1, <2>2, <2>3, <2>4, <2>6, <2>7 DEF Environment
<1> QED
  BY <1>1, <1>2, <1>3, <1>4

(* In the beginning nothing has a size.                                     *)
LEMMA BootTypesInit == BootInit => BootTypes /\ SizedInv
<1> SUFFICES ASSUME BootInit PROVE BootTypes /\ SizedInv
  OBVIOUS
<1>1. PICK want \in BOOLEAN : vo = [want |-> want, mw |-> 0, need_max |-> want]
  BY DEF BootInit
<1>2. ThreadTypes
  BY <1>1, StagesAre DEF BootInit, ThreadTypes, Locals
<1>3. WindowTypes
  BY BootAssumption DEF BootInit, WindowTypes, Windows
<1>4. WlTypes /\ EvtTypes /\ UserTypes /\ ingest \in Inputs
  BY DEF BootInit, WlTypes, Seen, Pendings, EvtTypes, Events, Pcs, UserTypes, Inputs
<1>5. SizeTypes
  <2>1. [on |-> FALSE, pw |-> 0] \in Registries
    BY DEF Registries
  <2>2. <<>> \in Sizes
    BY DEF Sizes
  <2> QED
    BY <2>1, <2>2 DEF BootInit, SizeTypes
<1>6. SizedInv
  BY <1>1 DEF BootInit, SizedInv, Late
<1> QED
  BY <1>2, <1>3, <1>4, <1>5, <1>6 DEF BootInit, BootTypes

(* The type invariant, and the sizes it needs, are inductive.               *)
LEMMA BootTypesStep == BootTypes /\ SizedInv /\ [BootNext]_bootVars => BootTypes' /\ SizedInv'
<1>1. ASSUME BootTypes, SizedInv, BootNext PROVE BootTypes' /\ SizedInv'
  BY <1>1, BootStepTypes, ProxyStepTypes, EvtStepTypes, UserStepTypes, EnvironmentTypes,
     SizedBootStep, SizedOtherStep DEF BootNext
<1>2. ASSUME BootTypes, SizedInv, UNCHANGED bootVars PROVE BootTypes' /\ SizedInv'
  <2>1. BootTypes'
    BY <1>2, GroupsKept DEF BootTypes, bootVars
  <2>2. SizedInv'
    BY <1>2 DEF SizedInv, bootVars, threadVars, mpvWinVars, wlVars, evtVars, Late, Detached
  <2> QED
    BY <2>1, <2>2
<1> QED
  BY <1>1, <1>2

(* The boot is well typed for any kinds of hosts, sizes and scales; the     *)
(* browsers, once there, always have a size.                                *)
THEOREM BootTypeCorrect == BootSpec => []BootTypeOK
BY BootTypesInit, BootTypesStep, BootTypesSame, PTL DEF BootSpec

-----------------------------------------------------------------------------
(* The teardown: each part is down before what it uses is.                  *)

(* The main thread is at one of the stages, or past them all.               *)
Past(stages) == at \in stages \/ handle_slot = "gone"

(* What is down once the main thread is past a step of the teardown.        *)
TeardownInv ==
  /\ handle_slot = "gone" => at = "down"
  /\ ~linked => proxyAt \in {"idle", "fire"}
  /\ Past(Detached) => ~linked
  /\ Past(Detached \ {"media"}) => ~media /\ "media" \notin holding
  /\ Past({"cef", "coordinator", "terminate"}) => evt.pc \in {"off", "done"}
  /\ Past({"coordinator", "terminate"}) => ~reg.on /\ "cef" \notin holding
  /\ Past({"terminate"}) => coord # "on" /\ "worker" \notin holding

(* At first the handle is not there, and only Wayland's proxy is linked.    *)
LEMMA OrderInit == BootInit => TeardownInv
BY DEF BootInit, TeardownInv, Past, Detached

(* The main thread takes things down in order.                              *)
LEMMA OrderBootStep == BootTypes /\ TeardownInv /\ BootStep /\ UNCHANGED host => TeardownInv'
<1> SUFFICES ASSUME BootTypes, TeardownInv, BootStep, UNCHANGED host PROVE TeardownInv'
  OBVIOUS
<1> USE DEF TeardownInv, Past, Detached, threadVars, mpvWinVars, wlVars, evtVars, sizeVars, userVars
<1>1. CASE HandleInit \/ PublishHandle \/ CheckHost \/ RunLoop \/ InitPlatform \/ EndMainLoop
  BY <1>1 DEF HandleInit, PublishHandle, CheckHost, RunLoop, InitPlatform, EndMainLoop
<1>2. CASE ObserveProperties \/ CheckSize \/ InitCoordinator \/ SetHandlers \/ InitBrowsers
  BY <1>2 DEF ObserveProperties, CheckSize, InitCoordinator, SetHandlers, InitBrowsers
<1>3. CASE Drain \/ Block
  <2>1. UNCHANGED <<handle_slot, wlVars, evtVars, userVars, sizeVars>>
        /\ at' \in {"drain", "down", "size"} /\ at \in {"drain", "block"}
    BY <1>3 DEF Drain, Block, ConsumeVoEvent
  <2> QED
    BY <2>1
<1>4. CASE StartEventThread
  BY <1>4 DEF StartEventThread
<1>5. CASE DetachProxy
  BY <1>5, TeardownSteps DEF DetachProxy, Passes
<1>6. CASE StopMedia
  BY <1>6, TeardownSteps DEF StopMedia, Passes
<1>7. CASE StopEvents \/ WakeEvents \/ JoinEvents
  BY <1>7, TeardownSteps DEF StopEvents, WakeEvents, JoinEvents, Passes
<1>8. CASE ShutdownCef
  <2>1. ~reg'.on
    BY <1>8 DEF ShutdownCef, BootTypes, SizeTypes, Registries
  <2> QED
    BY <1>8, <2>1, TeardownSteps DEF ShutdownCef, Passes
<1>9. CASE ShutdownCoordinator
  BY <1>9, TeardownSteps DEF ShutdownCoordinator, Passes
<1>10. CASE TerminateHandle
  BY <1>10, TeardownSteps DEF TerminateHandle, Passes
<1> QED
  BY <1>1, <1>2, <1>3, <1>4, <1>5, <1>6, <1>7, <1>8, <1>9, <1>10 DEF BootStep

(* Nothing that was taken down comes up again, nor does it take the handle. *)
LEMMA OrderOtherStep ==
  /\ BootTypes /\ TeardownInv /\ UNCHANGED host
  /\ ProxyStep \/ EvtStep \/ DeliverDims \/ Environment \/ \E u \in Users : TakeRaw(u) \/ UseRaw(u)
  => TeardownInv'
<1> SUFFICES ASSUME BootTypes, TeardownInv, UNCHANGED host,
                    ProxyStep \/ EvtStep \/ DeliverDims \/ Environment
                    \/ \E u \in Users : TakeRaw(u) \/ UseRaw(u)
             PROVE  TeardownInv'
  OBVIOUS
<1> USE DEF TeardownInv, Past, Detached, threadVars, mpvWinVars, wlVars, evtVars, sizeVars, userVars
<1>1. CASE ProxyStep
  BY <1>1 DEF ProxyStep, OnScale, ProxyWakes, FireConfigure, PostOsdPixels, PostDims
<1>2. CASE EvtStep
  <2>1. CASE EvtCheck \/ EvtNone \/ EvtShutdown
    BY <2>1 DEF EvtCheck, EvtNone, EvtShutdown
  <2>2. ASSUME NEW p \in Observed, EvtProperty(p) PROVE TeardownInv'
    BY <2>2 DEF EvtProperty, PostDims
  <2>3. CASE SetScaleRead
    BY <2>3 DEF SetScaleRead
  <2>4. CASE SetScaleWrite
    <3>1. reg'.on = reg.on
      BY <2>4 DEF SetScaleWrite, BootTypes, SizeTypes, Registries
    <3> QED
      BY <2>4, <3>1 DEF SetScaleWrite
  <2> QED
    BY <1>2, <2>1, <2>2, <2>3, <2>4 DEF EvtStep
<1>3. CASE DeliverDims
  <2>1. reg'.on = reg.on
    BY <1>3 DEF DeliverDims, BootTypes, SizeTypes, Registries
  <2> QED
    BY <1>3, <2>1 DEF DeliverDims
<1>4. ASSUME NEW u \in Users, TakeRaw(u) \/ UseRaw(u) PROVE TeardownInv'
  <2>1. CASE TakeRaw(u)
    BY <2>1 DEF TakeRaw, Runs
  <2>2. CASE UseRaw(u)
    BY <2>2 DEF UseRaw
  <2> QED
    BY <1>4, <2>1, <2>2
<1>5. CASE Environment
  <2>1. CASE WindowResized \/ WindowRescaled \/ WindowMaximized \/ MpvQuits \/ AskToClose
    BY <2>1 DEF WindowResized, WindowRescaled, WindowMaximized, MpvQuits, AskToClose,
                WindowChanges
  <2>2. CASE CompositorConfigures \/ CompositorRescales
    BY <2>2 DEF CompositorConfigures, CompositorRescales, ProxyTakes
  <2> QED
    BY <1>5, <2>1, <2>2 DEF Environment
<1> QED
  BY <1>1, <1>2, <1>3, <1>4, <1>5

(* The order of the teardown is inductive.                                  *)
LEMMA OrderStep == BootTypes /\ TeardownInv /\ [BootNext]_bootVars => TeardownInv'
<1>1. ASSUME BootTypes, TeardownInv, UNCHANGED bootVars PROVE TeardownInv'
  BY <1>1 DEF TeardownInv, Past, bootVars, threadVars, wlVars, evtVars, sizeVars, userVars
<1> QED
  BY <1>1, OrderBootStep, OrderOtherStep DEF BootNext

(* Nobody uses the mpv handle after its end, wherever the event thread, the *)
(* proxy and the threads that took the raw handle are when the teardown     *)
(* begins.                                                                  *)
THEOREM HandleCorrect == BootSpec => []HandleOutlivesUse
<1>1. TeardownInv /\ BootTypes => HandleOutlivesUse
  BY DEF TeardownInv, Past, Detached, HandleOutlivesUse, BootTypes, UserTypes, Users
<1> QED
  BY <1>1, BootTypesInit, BootTypesStep, OrderInit, OrderStep, PTL DEF BootSpec

-----------------------------------------------------------------------------
(* The size of the window: from its source to the browsers.                 *)

(* What the main thread and the event thread have seen of the size is the   *)
(* window's, unless the notification of it waits; the proxy's is what it    *)
(* was last told, unless the callback is still to run.                      *)
SeenInv ==
  IF host # "wayland"
  THEN /\ at \in Initial \cup Early => vo.mw = ingest.pw
       /\ at \in Early \cup Late /\ "size" \notin news => ingest.pw = mpvWin.size
  ELSE /\ at \notin Detached \cup {"down"} => linked
       /\ pend.w = 0 => wlWindow.size = 0
       /\ linked /\ proxyAt \in {"idle", "post", "wake"} => wlWindow.size = pend.w * pend.scale

(* What is there once the main thread is past a step of the boot.           *)
ThereInv ==
  /\ at \in Late => reg.on
  /\ at \in {"handlers", "events", "run"} => coord = "on"
  /\ at \in Initial \cup Early \cup {"coord"} => coord # "on"
  /\ dims # <<>> => coord = "on"

(* The sizes on their way to the browsers end with the newest, unless the   *)
(* proxy has not posted it yet.                                             *)
Newest == IF dims = <<>> THEN reg.pw ELSE dims[Len(dims)]
ChainInv == at \in Late /\ lost = {} /\ proxyAt # "post" => Newest = Source

(* At first nobody knows a size, and nobody needs it.                       *)
LEMMA ChainInit == BootInit => SeenInv /\ ThereInv /\ ChainInv
<1> SUFFICES ASSUME BootInit PROVE SeenInv /\ ThereInv /\ ChainInv
  OBVIOUS
<1>1. vo.mw = 0
  BY DEF BootInit
<1>2. pend.w * pend.scale = 0 /\ wlWindow.size = 0 /\ ingest.pw = 0 /\ ~reg.on
  BY DEF BootInit
<1>3. SeenInv
  BY <1>1, <1>2 DEF BootInit, SeenInv, Initial, Early, Late, Detached, VoWait
<1> QED
  BY <1>3 DEF BootInit, ThereInv, ChainInv, Initial, Early, Late, VoWait

(* What an event of the VO wait leaves of what was seen.                    *)
LEMMA ConsumeSeen ==
  ASSUME BootTypes, SizedInv, SeenInv, ConsumeVoEvent, UNCHANGED <<host, mpvWin>>,
         at \in Early, host # "wayland"
  PROVE  /\ vo'.mw = ingest'.pw
         /\ "size" \notin news' => ingest'.pw = mpvWin.size
<1>0. vo.mw \in Nat /\ ingest.pw \in Nat /\ mpvWin.size \in Nat
  BY DEF BootTypes, ThreadTypes, Locals, Inputs, WindowTypes, Windows
<1>1. CASE UNCHANGED <<vo, ingest, news, sizeVars>>
  BY <1>1 DEF SeenInv
<1>2. ASSUME NEW p \in news, news' = news \ {p}, ingest' = Digested(p),
             vo'.mw = IF Digested(p).pw > 0 THEN Digested(p).pw ELSE vo.mw
      PROVE  /\ vo'.mw = ingest'.pw
             /\ "size" \notin news' => ingest'.pw = mpvWin.size
  <2>1. CASE p = "size" /\ mpvWin.size > 0
    <3>1. Digested(p).pw = mpvWin.size
      BY <2>1 DEF Digested, BootTypes, Inputs
    <3> QED
      BY <1>2, <2>1, <3>1
  <2>2. CASE ~(p = "size" /\ mpvWin.size > 0)
    <3>1. Digested(p).pw = ingest.pw
      BY <2>2 DEF Digested, BootTypes, Inputs, WindowTypes, Observed
    <3>2. p = "size" => ingest.pw = 0 /\ mpvWin.size = 0
      BY <1>0, <2>2 DEF SizedInv
    <3> QED
      BY <1>0, <1>2, <3>1, <3>2 DEF SeenInv
  <2> QED
    BY <2>1, <2>2
<1>3. ASSUME NEW p \in news,
             LET mw == IF host # "wayland" THEN Digested(p).pw ELSE wlWindow.size IN
             vo' = [vo EXCEPT !.need_max = @ /\ ~(p = "max" /\ ingest'.maximized),
                              !.mw = IF mw > 0 THEN mw ELSE @]
      PROVE  vo'.mw = IF Digested(p).pw > 0 THEN Digested(p).pw ELSE vo.mw
  BY <1>3 DEF BootTypes, ThreadTypes, Locals
<1> QED
  BY <1>1, <1>2, <1>3 DEF ConsumeVoEvent

(* A step that touches none of the sizes breaks nothing of their chain.     *)
LEMMA ChainKept ==
  ASSUME ThereInv, ChainInv, UNCHANGED <<host, sizeVars>>, Source' = Source,
         \/ at' = at
         \/ at \in Initial \cup Early /\ at' \in Initial \cup Early
         \/ at' \in {"detach", "down"} \cup Detached,
         proxyAt # "post" \/ proxyAt' = "post"
  PROVE  ThereInv' /\ ChainInv'
BY DEF ThereInv, ChainInv, Newest, sizeVars, Late, Early, Initial, Detached, VoWait

(* The main thread hands on what it has seen.                               *)
LEMMA ChainBootStep ==
  BootTypes /\ SizedInv /\ SeenInv /\ ThereInv /\ ChainInv /\ BootStep /\ UNCHANGED host
    => SeenInv' /\ ThereInv' /\ ChainInv'
<1> SUFFICES ASSUME BootTypes, SizedInv, SeenInv, ThereInv, ChainInv, BootStep, UNCHANGED host
             PROVE  SeenInv' /\ ThereInv' /\ ChainInv'
  OBVIOUS
<1> USE DEF Initial, Early, Late, Detached, VoWait, threadVars, mpvWinVars, wlVars, evtVars,
            userVars
<1>1. CASE HandleInit \/ PublishHandle \/ CheckHost \/ RunLoop \/ InitPlatform \/ EndMainLoop
  <2>1. /\ UNCHANGED <<vo, ingest, mpvWin, news, wlWindow, pend, proxyAt, linked, sizeVars>>
        /\ \/ at \in Initial \cup Early /\ at' \in Initial \cup Early
           \/ at' \in {"detach", "down"}
    BY <1>1 DEF HandleInit, PublishHandle, CheckHost, RunLoop, InitPlatform, EndMainLoop
  <2>2. SeenInv'
    BY <1>1, <2>1 DEF SeenInv, HandleInit, PublishHandle, CheckHost, RunLoop, InitPlatform,
                      EndMainLoop
  <2> QED
    BY <2>1, <2>2, ChainKept DEF Source
<1>2. CASE ObserveProperties
  <2>1. SeenInv'
    BY <1>2 DEF ObserveProperties, SeenInv, Observed
  <2> QED
    BY <1>2, <2>1, ChainKept DEF ObserveProperties, Source
<1>3. CASE Drain \/ Block
  <2>1. /\ at \in {"drain", "block"} /\ at' \in {"drain", "size", "down"}
        /\ UNCHANGED <<mpvWin, wlVars, sizeVars>>
        /\ ConsumeVoEvent \/ UNCHANGED <<vo, ingest, news>>
    BY <1>3 DEF Drain, Block, ConsumeVoEvent
  <2>2. SeenInv'
    <3>1. CASE ConsumeVoEvent
      BY <2>1, <3>1, ConsumeSeen DEF SeenInv
    <3>2. CASE UNCHANGED <<vo, ingest, news>>
      BY <2>1, <3>2 DEF SeenInv
    <3> QED
      BY <2>1, <3>1, <3>2
  <2>3. ThereInv' /\ ChainInv'
    BY <2>1 DEF ThereInv, ChainInv, sizeVars
  <2> QED
    BY <2>2, <2>3
<1>4. CASE CheckSize
  <2>1. vo'.mw = IF Source > 0 THEN Source ELSE vo.mw
    BY <1>4 DEF CheckSize, BootTypes, ThreadTypes, Locals
  <2>2. vo.mw \in Nat /\ ingest.pw \in Nat
    BY DEF BootTypes, ThreadTypes, Locals, Inputs
  <2>3. at = "size" /\ at' \in {"ready", "block"}
        /\ UNCHANGED <<ingest, mpvWin, news, wlVars, sizeVars>>
    BY <1>4 DEF CheckSize
  <2>4. SeenInv'
    BY <2>1, <2>2, <2>3 DEF SeenInv, Source
  <2> QED
    BY <2>3, <2>4, ChainKept DEF Source
<1>5. CASE InitBrowsers
  <2>1. ingest'.pw = vo.mw /\ reg'.pw = vo.mw /\ reg'.on
    BY <1>5 DEF InitBrowsers, BootTypes, Inputs
  <2>2. /\ at = "browsers" /\ at' = "coord"
        /\ lost' = IF host = "wayland" /\ vo.mw # wlWindow.size THEN {"early"} ELSE {}
        /\ UNCHANGED <<vo, mpvWin, news, wlWindow, pend, proxyAt, linked, coord, dims>>
    BY <1>5 DEF InitBrowsers
  <2>3. dims = <<>>
    BY <2>2 DEF ThereInv
  <2>4. SeenInv'
    BY <2>1, <2>2 DEF SeenInv
  <2>5. ThereInv'
    BY <2>1, <2>2, <2>3 DEF ThereInv
  <2>6. ChainInv'
    BY <2>1, <2>2, <2>3 DEF ChainInv, Newest, Source
  <2> QED
    BY <2>4, <2>5, <2>6
<1>6. CASE InitCoordinator
  <2>1. SeenInv'
    BY <1>6 DEF InitCoordinator, SeenInv
  <2>2. ThereInv' /\ ChainInv'
    BY <1>6 DEF InitCoordinator, ThereInv, ChainInv, Newest, Source
  <2> QED
    BY <2>1, <2>2
<1>7. CASE SetHandlers \/ StartEventThread
  <2>1. /\ at \in {"handlers", "events"} /\ at' \in {"events", "run"}
        /\ UNCHANGED <<vo, ingest, mpvWin, news, wlVars, coord, dims, reg, lost>>
    BY <1>7 DEF SetHandlers, StartEventThread, sizeVars
  <2>2. SeenInv'
    BY <2>1 DEF SeenInv
  <2>3. ThereInv' /\ ChainInv'
    BY <2>1 DEF ThereInv, ChainInv, Newest, Source
  <2> QED
    BY <2>2, <2>3
<1>8. CASE DetachProxy \/ StopMedia \/ StopEvents \/ WakeEvents \/ JoinEvents \/ ShutdownCef
           \/ TerminateHandle \/ ShutdownCoordinator
  <2>1. /\ at' \in Detached \cup {"down"}
        /\ UNCHANGED <<wlWindow, pend, proxyAt>> /\ (linked' => linked)
        /\ at \notin Detached => UNCHANGED <<dims, coord>>
        /\ UNCHANGED <<dims, coord>> \/ dims' = <<>>
    BY <1>8, TeardownSteps DEF Passes, DetachProxy, StopMedia, StopEvents, WakeEvents,
            JoinEvents, ShutdownCef, ShutdownCoordinator, TerminateHandle, sizeVars
  <2>2. SeenInv'
    BY <2>1 DEF SeenInv
  <2>3. ThereInv' /\ ChainInv'
    BY <2>1 DEF ThereInv, ChainInv
  <2> QED
    BY <2>2, <2>3
<1> QED
  BY <1>1, <1>2, <1>3, <1>4, <1>5, <1>6, <1>7, <1>8 DEF BootStep

(* The proxy posts each size it stores.                                     *)
LEMMA ChainProxyStep ==
  BootTypes /\ SizedInv /\ SeenInv /\ ThereInv /\ ChainInv /\ ProxyStep /\ UNCHANGED host
    => SeenInv' /\ ThereInv' /\ ChainInv'
<1> SUFFICES ASSUME BootTypes, SizedInv, SeenInv, ThereInv, ChainInv, ProxyStep, UNCHANGED host
             PROVE  SeenInv' /\ ThereInv' /\ ChainInv'
  OBVIOUS
<1> USE DEF threadVars, mpvWinVars, wlVars, evtVars, userVars
<1>0. host = "wayland"
  BY DEF ProxyStep, OnScale, ProxyWakes, FireConfigure, PostOsdPixels, SizedInv
<1>1. CASE OnScale
  <2>1. wlWindow'.size = wlWindow.size
    BY <1>1 DEF OnScale, BootTypes, WlTypes, Seen
  <2>2. SeenInv'
    BY <1>1, <2>1 DEF OnScale, SeenInv
  <2> QED
    BY <1>0, <1>1, <2>1, <2>2, ChainKept DEF OnScale, Source
<1>2. CASE ProxyWakes
  <2>1. SeenInv'
    BY <1>2 DEF ProxyWakes, SeenInv
  <2> QED
    BY <1>2, <2>1, ChainKept DEF ProxyWakes, Source
<1>3. CASE FireConfigure
  <2>1. CASE pend.w = 0 \/ ~linked
    <3>1. /\ proxyAt' = "idle"
          /\ UNCHANGED <<at, wlWindow, ingest, pend, linked, sizeVars>>
      BY <1>3, <2>1 DEF FireConfigure
    <3>2. pend.w = 0 => pend.w * pend.scale = 0
      BY DEF BootTypes, WlTypes, Pendings
    <3>3. SeenInv'
      BY <1>0, <2>1, <3>1, <3>2 DEF SeenInv
    <3> QED
      BY <1>3, <3>1, <3>3, ChainKept DEF Source, FireConfigure
  <2>2. CASE ~(pend.w = 0 \/ ~linked)
    <3>1. /\ proxyAt' = "post" /\ UNCHANGED <<at, ingest, pend, linked, sizeVars>>
      BY <1>3, <2>2 DEF FireConfigure
    <3>2. wlWindow'.size = pend.w * pend.scale
      BY <1>3, <2>2 DEF FireConfigure, BootTypes, WlTypes, Seen
    <3>3. SeenInv'
      BY <1>0, <2>2, <3>1, <3>2 DEF SeenInv
    <3>4. ThereInv' /\ ChainInv'
      BY <3>1 DEF ThereInv, ChainInv, sizeVars
    <3> QED
      BY <3>3, <3>4
  <2> QED
    BY <2>1, <2>2
<1>4. CASE PostOsdPixels
  <2>1. /\ proxyAt = "post" /\ proxyAt' = "wake" /\ PostDims(wlWindow.size)
        /\ UNCHANGED <<at, wlWindow, pend, linked>>
    BY <1>4 DEF PostOsdPixels
  <2>2. SeenInv'
    BY <1>0, <2>1 DEF SeenInv
  <2>3. CASE coord = "on"
    <3>1. wlWindow.size \in Nat \ {0}
      BY <2>1 DEF SizedInv, BootTypes, WlTypes, Seen
    <3>2. dims' # <<>> /\ dims'[Len(dims')] = wlWindow.size
      BY <2>1, <2>3, <3>1, AppendLast DEF PostDims, BootTypes, SizeTypes, Sizes
    <3>3. ThereInv'
      BY <2>1, <2>3 DEF ThereInv, PostDims
    <3>4. ChainInv'
      BY <1>0, <2>1, <3>2 DEF ChainInv, Newest, Source
    <3> QED
      BY <2>2, <3>3, <3>4
  <2>4. CASE coord # "on"
    <3>1. UNCHANGED <<dims, coord, reg>> /\ (reg.on => lost' # {})
      BY <2>1, <2>4 DEF PostDims, Lose
    <3>2. ThereInv'
      BY <2>1, <3>1 DEF ThereInv
    <3>3. ChainInv'
      BY <2>1, <3>1 DEF ThereInv, ChainInv
    <3> QED
      BY <2>2, <3>2, <3>3
  <2> QED
    BY <2>3, <2>4
<1> QED
  BY <1>1, <1>2, <1>3, <1>4 DEF ProxyStep

(* The event thread posts each size it digests, and a size that set_scale   *)
(* writes back is either the one that is there or is counted as lost.       *)
LEMMA ChainEvtStep ==
  BootTypes /\ SizedInv /\ SeenInv /\ ThereInv /\ ChainInv /\ EvtStep /\ UNCHANGED host
    => SeenInv' /\ ThereInv' /\ ChainInv'
<1> SUFFICES ASSUME BootTypes, SizedInv, SeenInv, ThereInv, ChainInv, EvtStep, UNCHANGED host
             PROVE  SeenInv' /\ ThereInv' /\ ChainInv'
  OBVIOUS
<1> USE DEF threadVars, mpvWinVars, wlVars, evtVars, userVars
<1>1. CASE EvtCheck \/ EvtNone \/ EvtShutdown \/ SetScaleRead
  <2>1. UNCHANGED <<at, vo, ingest, mpvWin, news, wlWindow, pend, proxyAt, linked, sizeVars>>
    BY <1>1 DEF EvtCheck, EvtNone, EvtShutdown, SetScaleRead
  <2>2. SeenInv'
    BY <2>1 DEF SeenInv
  <2> QED
    BY <2>1, <2>2, ChainKept DEF Source
<1>2. ASSUME NEW p \in Observed, EvtProperty(p) PROVE SeenInv' /\ ThereInv' /\ ChainInv'
  <2>1. /\ p \in news /\ news' = news \ {p} /\ ingest' = Digested(p) /\ evt.pc = "wait"
        /\ UNCHANGED <<at, vo, mpvWin, wlWindow, pend, proxyAt, linked>>
    BY <1>2 DEF EvtProperty
  <2>2. at \in {"run", "detach", "down"} \cup Detached
    BY <2>1 DEF SizedInv
  <2>3. CASE p = "size"
    <3>1. host # "wayland" /\ mpvWin.size \in Nat \ {0} /\ PostDims(mpvWin.size)
      <4>1. host # "wayland" /\ vo.mw > 0
        BY <2>1, <2>3 DEF SizedInv
      <4> QED
        BY <1>2, <2>3, <4>1 DEF EvtProperty, SizedInv, BootTypes, WindowTypes, Windows
    <3>2. ingest'.pw = mpvWin.size
      BY <2>1, <2>3, <3>1 DEF Digested, BootTypes, Inputs
    <3>3. SeenInv'
      BY <2>1, <2>2, <3>1, <3>2
         DEF SeenInv, Initial, Early, Late, VoWait, Detached
    <3>4. CASE coord = "on"
      <4>1. dims' # <<>> /\ dims'[Len(dims')] = mpvWin.size
        BY <3>1, <3>4, AppendLast DEF PostDims, BootTypes, SizeTypes, Sizes
      <4>2. ThereInv'
        BY <2>1, <3>1, <3>4 DEF ThereInv, PostDims
      <4>3. ChainInv'
        BY <3>1, <3>2, <4>1 DEF ChainInv, Newest, Source
      <4> QED
        BY <3>3, <4>2, <4>3
    <3>5. CASE coord # "on"
      <4>1. at \notin Late
        BY <2>2, <3>5 DEF ThereInv, Late, Detached
      <4>2. UNCHANGED <<dims, coord, reg>>
        BY <3>1, <3>5 DEF PostDims
      <4> QED
        BY <2>1, <3>3, <4>1, <4>2 DEF ThereInv, ChainInv
    <3> QED
      BY <3>4, <3>5
  <2>4. CASE p # "size"
    <3>1. ingest'.pw = ingest.pw
      BY <2>1, <2>4 DEF Digested, BootTypes, Inputs, WindowTypes, Windows, Observed
    <3>2. UNCHANGED sizeVars
      BY <1>2, <2>4 DEF EvtProperty
    <3>3. SeenInv'
      BY <2>1, <2>4, <3>1 DEF SeenInv
    <3> QED
      BY <2>1, <3>1, <3>2, <3>3, ChainKept DEF Source
  <2> QED
    BY <2>3, <2>4
<1>3. CASE SetScaleWrite
  <2>1. UNCHANGED <<at, vo, ingest, mpvWin, news, wlWindow, pend, proxyAt, linked, coord, dims>>
    BY <1>3 DEF SetScaleWrite
  <2>2. SeenInv'
    BY <2>1 DEF SeenInv
  <2>3. reg'.on = reg.on /\ (lost' = {} => lost = {} /\ reg'.pw = reg.pw)
    <3>1. CASE ~reg.on
      BY <1>3, <3>1 DEF SetScaleWrite
    <3>2. CASE reg.on
      <4>1. reg' = [reg EXCEPT !.pw = evt.held]
            /\ lost' = IF evt.held # reg.pw THEN lost \cup {"written back"} ELSE lost
        BY <1>3, <3>2 DEF SetScaleWrite
      <4>2. reg'.on = reg.on /\ reg'.pw = evt.held
        BY <4>1 DEF BootTypes, SizeTypes, Registries
      <4> QED
        BY <4>1, <4>2
    <3> QED
      BY <3>1, <3>2
  <2>4. ThereInv'
    BY <2>1, <2>3 DEF ThereInv
  <2>5. ChainInv'
    BY <2>1, <2>3 DEF ChainInv, Newest, Source
  <2> QED
    BY <2>2, <2>4, <2>5
<1> QED
  BY <1>1, <1>2, <1>3 DEF EvtStep

(* The worker delivers the sizes in order, the newest last.                 *)
LEMMA ChainDeliver ==
  BootTypes /\ SeenInv /\ ThereInv /\ ChainInv /\ DeliverDims /\ UNCHANGED host
    => SeenInv' /\ ThereInv' /\ ChainInv'
<1> SUFFICES ASSUME BootTypes, SeenInv, ThereInv, ChainInv, DeliverDims, UNCHANGED host
             PROVE  SeenInv' /\ ThereInv' /\ ChainInv'
  OBVIOUS
<1>1. /\ coord = "on" /\ dims # <<>> /\ dims' = Tail(dims)
      /\ UNCHANGED <<at, vo, ingest, mpvWin, news, wlWindow, pend, proxyAt, linked, coord>>
  BY DEF DeliverDims, threadVars, mpvWinVars, wlVars
<1>2. SeenInv'
  BY <1>1 DEF SeenInv
<1>3. /\ Tail(dims) # <<>> => Tail(dims)[Len(Tail(dims))] = dims[Len(dims)]
      /\ Tail(dims) = <<>> => Head(dims) = dims[Len(dims)]
  BY <1>1, TailLast DEF BootTypes, SizeTypes, Sizes
<1>4. CASE setter /\ reg.on
  <2>1. reg'.on = reg.on /\ reg'.pw = Head(dims) /\ UNCHANGED lost
    BY <1>4 DEF DeliverDims, BootTypes, SizeTypes, Registries
  <2>2. ThereInv'
    BY <1>1, <2>1 DEF ThereInv
  <2>3. ChainInv'
    BY <1>1, <1>3, <2>1 DEF ChainInv, Newest, Source
  <2> QED
    BY <1>2, <2>2, <2>3
<1>5. CASE ~(setter /\ reg.on)
  <2>1. UNCHANGED reg /\ (reg.on => lost' # {})
    BY <1>5 DEF DeliverDims, Lose
  <2>2. ThereInv'
    BY <1>1, <2>1 DEF ThereInv
  <2>3. ChainInv'
    BY <1>1, <2>1 DEF ThereInv, ChainInv
  <2> QED
    BY <1>2, <2>2, <2>3
<1> QED
  BY <1>4, <1>5

(* A change of the window is news, or is on the proxy's way.                *)
LEMMA ChainEnvironment ==
  BootTypes /\ SeenInv /\ ThereInv /\ ChainInv /\ Environment /\ UNCHANGED host
    => SeenInv' /\ ThereInv' /\ ChainInv'
<1> SUFFICES ASSUME BootTypes, SeenInv, ThereInv, ChainInv, Environment, UNCHANGED host
             PROVE  SeenInv' /\ ThereInv' /\ ChainInv'
  OBVIOUS
<1> USE DEF threadVars, wlVars, evtVars, userVars
<1>1. CASE WindowResized
  <2>1. /\ host # "wayland" /\ "size" \in news'
        /\ UNCHANGED <<at, vo, ingest, wlWindow, proxyAt, sizeVars>>
    BY <1>1 DEF WindowResized, WindowChanges
  <2>2. SeenInv'
    BY <2>1 DEF SeenInv
  <2> QED
    BY <2>1, <2>2, ChainKept DEF Source
<1>2. CASE WindowRescaled \/ WindowMaximized \/ MpvQuits \/ AskToClose
  <2>1. /\ news \subseteq news'
        /\ UNCHANGED <<at, vo, ingest, wlWindow, pend, proxyAt, linked, sizeVars>>
    BY <1>2 DEF WindowRescaled, WindowChanges, WindowMaximized, MpvQuits, AskToClose, mpvWinVars
  <2>2. mpvWin'.size = mpvWin.size
    BY <1>2 DEF WindowRescaled, WindowChanges, WindowMaximized, MpvQuits, AskToClose, mpvWinVars,
                BootTypes, WindowTypes, Windows
  <2>3. SeenInv'
    BY <2>1, <2>2 DEF SeenInv
  <2> QED
    BY <2>1, <2>3, ChainKept DEF Source
<1>3. ASSUME NEW new, NEW goal \in {"fire", "scale"}, ProxyTakes(new, goal),
             new.w = 0 => wlWindow.size = 0
      PROVE  SeenInv' /\ ThereInv' /\ ChainInv'
  <2>1. /\ host = "wayland" /\ proxyAt = "idle" /\ proxyAt' = goal /\ pend' = new
        /\ UNCHANGED <<at, vo, ingest, mpvWin, news, wlWindow, linked, sizeVars>>
    BY <1>3 DEF ProxyTakes
  <2>2. SeenInv'
    BY <1>3, <2>1 DEF SeenInv
  <2> QED
    BY <2>1, <2>2, ChainKept DEF Source
<1>4. CASE CompositorConfigures
  <2>1. \A w \in LogicalSizes : [pend EXCEPT !.w = w].w # 0
    BY BootAssumption DEF BootTypes, WlTypes, Pendings
  <2> QED
    BY <1>3, <1>4, <2>1 DEF CompositorConfigures
<1>5. CASE CompositorRescales
  <2>1. \A sc \in Scales : [pend EXCEPT !.scale = sc].w = pend.w
    BY DEF BootTypes, WlTypes, Pendings
  <2>2. pend.w = 0 => wlWindow.size = 0
    BY <1>5 DEF CompositorRescales, ProxyTakes, SeenInv
  <2> QED
    BY <1>3, <1>5, <2>1, <2>2 DEF CompositorRescales
<1> QED
  BY <1>1, <1>2, <1>4, <1>5 DEF Environment

(* The chain of the sizes is inductive.                                     *)
LEMMA ChainStep ==
  BootTypes /\ SizedInv /\ SeenInv /\ ThereInv /\ ChainInv /\ [BootNext]_bootVars
    => SeenInv' /\ ThereInv' /\ ChainInv'
<1> SUFFICES ASSUME BootTypes, SizedInv, SeenInv, ThereInv, ChainInv, [BootNext]_bootVars
             PROVE  SeenInv' /\ ThereInv' /\ ChainInv'
  OBVIOUS
<1>1. ASSUME UNCHANGED <<host, at, vo, ingest, mpvWin, news, wlVars, sizeVars>>
      PROVE  SeenInv' /\ ThereInv' /\ ChainInv'
  <2>1. SeenInv'
    BY <1>1 DEF SeenInv, wlVars
  <2> QED
    BY <1>1, <2>1, ChainKept DEF Source, wlVars
<1>2. ASSUME NEW u \in Users, TakeRaw(u) \/ UseRaw(u), UNCHANGED host
      PROVE  SeenInv' /\ ThereInv' /\ ChainInv'
  BY <1>1, <1>2 DEF TakeRaw, UseRaw, threadVars, mpvWinVars
<1>3. CASE UNCHANGED bootVars
  BY <1>1, <1>3 DEF bootVars, threadVars, mpvWinVars
<1> QED
  BY <1>2, <1>3, ChainBootStep, ChainProxyStep, ChainEvtStep, ChainDeliver, ChainEnvironment
     DEF BootNext

(* Once the application runs and nothing is on its way, the browsers have   *)
(* the size of the window, whatever sizes and scales it had and whichever   *)
(* host there is, if no size was lost in the two ways the code has.         *)
THEOREM BrowsersSizeCorrect == BootSpec => []BrowsersHaveSize
<1>1. SeenInv /\ ChainInv => BrowsersHaveSize
  <2> SUFFICES ASSUME SeenInv, ChainInv, BootSettled, lost = {}
               PROVE  reg.pw = IF host = "wayland" THEN pend.w * pend.scale ELSE mpvWin.size
    BY DEF BrowsersHaveSize
  <2>1. at = "run" /\ news = {} /\ dims = <<>> /\ proxyAt = "idle"
    BY DEF BootSettled
  <2>2. reg.pw = Source
    BY <2>1 DEF ChainInv, Newest, Late
  <2> QED
    BY <2>1, <2>2 DEF SeenInv, Source, Late, Detached
<1> QED
  BY <1>1, BootTypesInit, BootTypesStep, ChainInit, ChainStep, PTL DEF BootSpec

-----------------------------------------------------------------------------
(* The display link of macOS.                                               *)

(* The strengthening of FramesGoOn: a link whose display is lit ticks, be   *)
(* it the window's or not, unless a notification waits or the last restart  *)
(* found no display; and no more notifications wait than changes were made. *)
LinkInv ==
  /\ LinkTypeOK
  /\ displays.notes <= displays.changes
  /\ linkAt = "run" =>
       /\ link.display # NoDisplay
       /\ displays.notes = 0 /\ link.display \in displays.lit /\ ~missed => link.ticks

(* The link starts without a display, and its invariant holds.              *)
LEMMA LinkInvInit == LinkInit => LinkInv
<1> SUFFICES ASSUME LinkInit PROVE LinkInv
  OBVIOUS
<1>1. 0 \in 0..MaxLit
  BY LinkAssumption
<1>2. PICK d \in Displays \cup {NoDisplay} :
        displays = [lit |-> Displays, window |-> d, notes |-> 0, changes |-> 0]
  BY DEF LinkInit
<1>3. displays \in [lit : SUBSET Displays, window : Displays \cup {NoDisplay},
                   notes : 0..MaxLit, changes : 0..MaxLit]
  BY <1>1, <1>2
<1>4. displays.notes <= displays.changes
  <2>1. displays.notes = 0 /\ displays.changes = 0
    BY <1>2
  <2> QED
    BY <2>1
<1> QED
  BY <1>3, <1>4 DEF LinkInit, LinkInv, LinkTypeOK, NoLink

(* Every step of the display link keeps the invariant.                      *)
LEMMA LinkInvStep == LinkInv /\ [LinkNext]_linkVars => LinkInv'
<1> SUFFICES ASSUME LinkInv, [LinkNext]_linkVars PROVE LinkInv'
  OBVIOUS
<1> USE LinkAssumption DEF LinkInv, LinkTypeOK, Built
<1>1. CASE MacInit
  <2>1. 0 \in 0..MaxLit
    OBVIOUS
  <2>2. displays' = [displays EXCEPT !.notes = 0]
    BY <1>1 DEF MacInit
  <2>3. displays' \in [lit : SUBSET Displays, window : Displays \cup {NoDisplay},
                       notes : 0..MaxLit, changes : 0..MaxLit]
        /\ displays'.notes = 0
    BY <2>1, <2>2
  <2>4. displays'.notes <= displays'.changes
    <3>1. displays'.changes = displays.changes /\ displays.changes \in 0..MaxLit
      BY <2>2
    <3> QED
      BY <2>3, <3>1
  <2>5. displays'.lit = displays.lit
    BY <2>2
  <2>6. CASE displays.window = NoDisplay
    BY <1>1, <2>3, <2>4, <2>6 DEF MacInit
  <2>7. CASE displays.window # NoDisplay
    <3>1. link' = Built /\ linkAt' = "run" /\ UNCHANGED missed
      BY <1>1, <2>7 DEF MacInit
    <3>2. link' \in [display : Displays \cup {NoDisplay}, ticks : BOOLEAN]
      BY <3>1
    <3>3. link'.display # NoDisplay /\ (link'.display \in displays'.lit => link'.ticks)
      BY <2>5, <2>7, <3>1
    <3> QED
      BY <2>3, <2>4, <3>1, <3>2, <3>3
  <2> QED
    BY <2>6, <2>7
<1>2. CASE ServeNotification
  <2>1. displays' = [displays EXCEPT !.notes = @ - 1] /\ displays.notes > 0
    BY <1>2 DEF ServeNotification
  <2>2. displays.notes - 1 \in 0..MaxLit
    BY <2>1
  <2>3. displays' \in [lit : SUBSET Displays, window : Displays \cup {NoDisplay},
                       notes : 0..MaxLit, changes : 0..MaxLit]
    BY <2>1, <2>2
  <2>4. displays'.notes = displays.notes - 1 /\ displays'.changes = displays.changes
    BY <2>1
  <2>5. displays'.notes <= displays'.changes
    BY <2>4
  <2>6. UNCHANGED linkAt /\ displays'.lit = displays.lit
    BY <1>2, <2>1 DEF ServeNotification
  <2>7. CASE linkAt = "asked"
    BY <1>2, <2>3, <2>5, <2>6, <2>7, <2>4 DEF ServeNotification
  <2>8. CASE linkAt = "run"
    <3>1. link' = (IF displays.window = NoDisplay THEN link ELSE Built)
          /\ missed' = (displays.window = NoDisplay)
      BY <1>2, <2>8 DEF ServeNotification, Restarted
    <3>2. link' \in [display : Displays \cup {NoDisplay}, ticks : BOOLEAN]
      BY <3>1
    <3>3. link'.display # NoDisplay
          /\ (link'.display \in displays.lit /\ ~missed' => link'.ticks)
      BY <2>8, <3>1
    <3> QED
      BY <2>3, <2>5, <2>6, <2>8, <3>1, <3>2, <3>3
  <2> QED
    BY <1>2, <2>7, <2>8 DEF ServeNotification
<1>3. CASE AskEnd
  BY <1>3 DEF AskEnd
<1>4. CASE MacCleanup
  BY <1>4 DEF MacCleanup, NoLink
<1>5. CASE DisplayChange
  <2>1. PICK d \in Displays, told \in BOOLEAN, w \in Displays \cup {NoDisplay} :
          LET back == d \notin displays.lit
              lit == IF back THEN displays.lit \cup {d} ELSE displays.lit \ {d}
          IN
          /\ back \/ w # displays.window => told
          /\ w \in lit \cup {displays.window, NoDisplay}
          /\ displays' = [lit |-> lit, window |-> w, changes |-> displays.changes + 1,
                          notes |-> displays.notes + (IF told THEN 1 ELSE 0)]
          /\ link' = IF link.display = d THEN [link EXCEPT !.ticks = FALSE] ELSE link
    BY <1>5 DEF DisplayChange
  <2>2. displays.changes + 1 \in 0..MaxLit
        /\ displays.notes + (IF told THEN 1 ELSE 0) \in 0..MaxLit
        /\ displays.notes + (IF told THEN 1 ELSE 0) <= displays.changes + 1
    BY <1>5 DEF DisplayChange, CanChange
  <2>3. displays' \in [lit : SUBSET Displays, window : Displays \cup {NoDisplay},
                       notes : 0..MaxLit, changes : 0..MaxLit]
        /\ displays'.notes <= displays'.changes
    BY <2>1, <2>2
  <2>4. link' \in [display : Displays \cup {NoDisplay}, ticks : BOOLEAN]
        /\ link'.display = link.display
    BY <2>1
  <2>5. UNCHANGED <<linkAt, missed>>
    BY <1>5 DEF DisplayChange
  <2>6. ASSUME linkAt' = "run", displays'.notes = 0, link'.display \in displays'.lit, ~missed'
        PROVE  link'.ticks
    <3>1. ~told /\ displays.notes = 0 /\ d \in displays.lit
      BY <2>1, <2>6
    <3> QED
      BY <2>1, <2>4, <2>5, <2>6, <3>1
  <2> QED
    BY <2>3, <2>4, <2>5, <2>6
<1>6. CASE WindowMoves
  <2>1. PICK d \in (displays.lit \cup {NoDisplay}) \ {displays.window} :
          displays' = [displays EXCEPT !.window = d, !.changes = @ + 1]
    BY <1>6 DEF WindowMoves
  <2>2. displays.changes + 1 \in 0..MaxLit
    BY <1>6 DEF WindowMoves, CanChange
  <2>3. displays' \in [lit : SUBSET Displays, window : Displays \cup {NoDisplay},
                       notes : 0..MaxLit, changes : 0..MaxLit]
    BY <2>1, <2>2
  <2>4. displays'.notes = displays.notes /\ displays'.changes = displays.changes + 1
        /\ displays'.lit = displays.lit
    BY <2>1
  <2>5. displays'.notes <= displays'.changes
    BY <2>4
  <2> QED
    BY <1>6, <2>3, <2>4, <2>5 DEF WindowMoves
<1>7. CASE UNCHANGED linkVars
  BY <1>7 DEF linkVars
<1> QED
  BY <1>1, <1>2, <1>3, <1>4, <1>5, <1>6, <1>7 DEF LinkNext

(* The link is well typed, and while the application runs its frames go on: *)
(* whatever displays there are and however they sleep, wake and leave.      *)
THEOREM FramesCorrect == LinkSpec => [](LinkTypeOK /\ FramesGoOn)
<1>1. LinkInv => LinkTypeOK /\ FramesGoOn
  BY DEF LinkInv, FramesGoOn, LinkTypeOK
<1> QED
  BY <1>1, LinkInvInit, LinkInvStep, PTL DEF LinkSpec

-----------------------------------------------------------------------------
(* The main thread of macOS.                                                *)

Underway == \E p \in Posters : posters[p] # "idle"
Signalling == \E p \in Posters : posters[p] = "signal"

(* What CEF believes is true: it was not asked to work only if it has no    *)
(* tasks, and if it believes that its pump was asked for it was, or will be *)
(* by a thread on its way.  The shadow bit of the source promises its       *)
(* signal.                                                                  *)
PumpInv ==
  /\ loopAt \in {"run", "drain"} => source.installed /\ ~source.shutdown
  /\ loopAt = "boot" => /\ ~source.pending /\ ~source.signalled /\ ~source.shutdown
                        /\ \A p \in Posters : posters[p] = "idle"
                        /\ ~CefUp /\ ~releasing.asked
  /\ loopAt \in {"run", "drain"} /\ source.pending => source.signalled \/ Signalling
  /\ loopAt = "run" => /\ pump.dedup \in {"idle", "pending"}
                       /\ pump.dedup = "pending" => source.signalled \/ Underway
                       /\ pump.tasks > 0 => pump.dedup = "pending"
  /\ loopAt = "drain" => pump.dedup = "in_work"

(* No more tasks than were posted, and the two of the start and the end.    *)
PostedInv ==
  /\ pump.tasks <= pump.posted + (IF loopAt = "boot" THEN 0 ELSE 1)
                   + (IF releasing.asked THEN 1 ELSE 0)
  /\ releasing.woken => releasing.asked
  /\ releasing.block => releasing.woken

(* The block that the manager posts comes once, and leaves its event.       *)
ReleaseInv ==
  /\ nsapp.events = 0 \/ nsapp.events = 1
  /\ ~releasing.woken => nsapp.events = 0 /\ ~nsapp.stop /\ ~releasing.block
  /\ releasing.block => nsapp.events = 0 /\ loopAt \in {"run", "drain"}
  /\ loopAt = "boot" => ~releasing.asked
  /\ releasing.woken =>
       \/ releasing.block
       \/ nsapp.stop /\ nsapp.events > 0
       \/ loopAt \in {"teardown", "cef_shutdown", "down"}

SourceRecords == [installed : BOOLEAN, signalled : BOOLEAN, pending : BOOLEAN, shutdown : BOOLEAN]
PumpRecords == [tasks : 0..(MaxTasks + 2), delayed : BOOLEAN, posted : 0..MaxTasks,
                dedup : {"down", "idle", "pending", "in_work"}]
PosterSteps == [Posters -> {"idle", "check", "mark", "signal"}]
ReleaseRecords == [asked : BOOLEAN, woken : BOOLEAN, block : BOOLEAN]

NsappRecords == [stop : BOOLEAN, events : 0..1]

(* The types, by name.                                                      *)
LoopTyped ==
  /\ loopAt \in {"boot", "run", "drain", "teardown", "cef_shutdown", "down"}
  /\ nsapp \in NsappRecords /\ source \in SourceRecords
  /\ timer \in [valid : BOOLEAN, armed : BOOLEAN]
  /\ pump \in PumpRecords /\ posters \in PosterSteps /\ releasing \in ReleaseRecords

LoopInv == LoopTyped /\ PumpInv /\ PostedInv /\ ReleaseInv

(* The loop starts without work, and nobody has asked it to end.            *)
LEMMA LoopInvInit == LoopInit => LoopInv
<1> SUFFICES ASSUME LoopInit PROVE LoopInv
  OBVIOUS
<1> USE LoopAssumption DEF LoopInit
<1>1. pump \in PumpRecords
  BY DEF PumpRecords
<1>2. LoopTyped
  BY <1>1 DEF LoopTyped, NsappRecords, SourceRecords, PosterSteps, ReleaseRecords
<1> QED
  BY <1>2 DEF LoopInv, PumpInv, PostedInv, ReleaseInv, CefUp

(* What a signal, and the signal after a slow turn, leave of the source.    *)
LEMMA SourceSignalled ==
  ASSUME NEW r \in SourceRecords, NEW slow \in BOOLEAN
  PROVE  /\ Signalled(r) \in SourceRecords /\ Rescued(r, slow) \in SourceRecords
         /\ r.installed => /\ Signalled(r).installed /\ Signalled(r).signalled
                           /\ Signalled(r).shutdown = r.shutdown
         /\ r.installed => /\ Rescued(r, slow).installed
                           /\ Rescued(r, slow).shutdown = r.shutdown
                           /\ r.signalled => Rescued(r, slow).signalled
                           /\ slow /\ ~r.pending => Rescued(r, slow).signalled
                           /\ r.pending => Rescued(r, slow) = r
                           /\ ~slow => Rescued(r, slow) = r
BY DEF Signalled, Rescued, SourceRecords

(* A turn of the pump begins with the source and the shadow bit taken back. *)
LEMMA DrainBegun ==
  ASSUME LoopInv, loopAt = "run", DrainBegins
  PROVE  /\ loopAt' = "drain" /\ pump' \in PumpRecords /\ source' \in SourceRecords
         /\ pump'.dedup = "in_work" /\ pump'.tasks = pump.tasks /\ pump'.posted = pump.posted
         /\ source'.installed /\ ~source'.shutdown /\ ~source'.pending
<1>1. source.installed /\ ~source.shutdown
  BY DEF LoopInv, PumpInv
<1>2. /\ loopAt' = "drain" /\ pump' = [pump EXCEPT !.dedup = "in_work"]
      /\ source' = [source EXCEPT !.signalled = FALSE, !.pending = FALSE]
  BY <1>1 DEF DrainBegins
<1>3. pump \in PumpRecords /\ source \in SourceRecords
  BY DEF LoopInv, LoopTyped
<1>4. pump' \in PumpRecords /\ pump'.dedup = "in_work" /\ pump'.tasks = pump.tasks
      /\ pump'.posted = pump.posted
  BY <1>2, <1>3 DEF PumpRecords
<1>5. source' \in SourceRecords /\ source'.installed /\ ~source'.shutdown /\ ~source'.pending
  BY <1>1, <1>2, <1>3 DEF SourceRecords
<1> QED
  BY <1>2, <1>4, <1>5

(* The steps of the main thread.                                            *)
LEMMA MainLoopInv == LoopInv /\ MainLoopStep => LoopInv'
<1> SUFFICES ASSUME LoopInv, MainLoopStep PROVE LoopInv'
  OBVIOUS
<1>0. LoopTyped /\ PumpInv /\ PostedInv /\ ReleaseInv
  BY DEF LoopInv
<1>a. pump.tasks \in Nat /\ pump.posted \in Nat /\ pump.posted <= MaxTasks /\ MaxTasks \in Nat
  BY <1>0, LoopAssumption DEF LoopTyped, PumpRecords
<1>1. CASE PumpInit
  <2>1. source' \in SourceRecords /\ source'.installed /\ source'.signalled /\ ~source'.shutdown
    <3>1. [source EXCEPT !.installed = TRUE] \in SourceRecords
          /\ [source EXCEPT !.installed = TRUE].installed
          /\ [source EXCEPT !.installed = TRUE].shutdown = source.shutdown
      BY <1>0 DEF LoopTyped, SourceRecords
    <3>2. loopAt = "boot" /\ source' = Signalled([source EXCEPT !.installed = TRUE])
      BY <1>1 DEF PumpInit
    <3>3. ~source.shutdown
      BY <1>0, <3>2 DEF PumpInv
    <3> QED
      BY <3>1, <3>2, <3>3, SourceSignalled
  <2>2. pump' \in PumpRecords /\ pump'.tasks = 1 /\ pump'.dedup = "pending"
        /\ pump'.posted = pump.posted
    <3>1. 1 \in 0..(MaxTasks + 2)
      BY LoopAssumption
    <3> QED
      BY <1>0, <1>1, <3>1 DEF LoopTyped, PumpInit, PumpRecords
  <2>3. /\ loopAt' = "run" /\ loopAt = "boot" /\ timer' = [valid |-> TRUE, armed |-> FALSE]
        /\ UNCHANGED <<nsapp, posters, releasing>>
    BY <1>1 DEF PumpInit
  <2>4. LoopTyped'
    BY <1>0, <2>1, <2>2, <2>3 DEF LoopTyped
  <2>5. PumpInv'
    BY <1>0, <2>1, <2>2, <2>3 DEF PumpInv
  <2>6. PostedInv'
    BY <1>0, <1>a, <2>2, <2>3 DEF PostedInv
  <2>7. ReleaseInv'
    BY <1>0, <2>3 DEF ReleaseInv
  <2> QED
    BY <2>4, <2>5, <2>6, <2>7 DEF LoopInv
<1>2. CASE ServeSource \/ ServeTimer
  <2>1. /\ loopAt = "run" /\ DrainBegins /\ UNCHANGED <<nsapp, posters, releasing>>
        /\ timer' = timer \/ timer' = [valid |-> FALSE, armed |-> FALSE]
    BY <1>2 DEF ServeSource, ServeTimer
  <2>t. timer' \in [valid : BOOLEAN, armed : BOOLEAN]
    <3>1. timer \in [valid : BOOLEAN, armed : BOOLEAN]
      BY <1>0 DEF LoopTyped
    <3>2. [valid |-> FALSE, armed |-> FALSE] \in [valid : BOOLEAN, armed : BOOLEAN]
      OBVIOUS
    <3> QED
      BY <2>1, <3>1, <3>2, Zenon
  <2>2. /\ loopAt' = "drain" /\ pump' \in PumpRecords /\ source' \in SourceRecords
        /\ pump'.dedup = "in_work" /\ pump'.tasks = pump.tasks /\ pump'.posted = pump.posted
        /\ source'.installed /\ ~source'.shutdown /\ ~source'.pending
    BY <2>1, DrainBegun
  <2>3. LoopTyped'
    BY <1>0, <2>1, <2>2, <2>t DEF LoopTyped
  <2>4. PumpInv'
    BY <2>2 DEF PumpInv
  <2>5. PostedInv'
    BY <1>0, <2>1, <2>2 DEF PostedInv
  <2>6. ReleaseInv'
    BY <1>0, <2>1, <2>2 DEF ReleaseInv
  <2> QED
    BY <2>3, <2>4, <2>5, <2>6 DEF LoopInv
<1>3. CASE DrainEnds
  <2>1. PICK left \in 0..pump.tasks, slow \in BOOLEAN :
          /\ pump.tasks > 0 => left < pump.tasks
          /\ left > 0 => slow
          /\ slow => pump.tasks > 0
          /\ pump' = [pump EXCEPT !.tasks = left, !.delayed = FALSE,
                                !.dedup = IF left > 0 THEN "pending" ELSE "idle"]
          /\ source' = Rescued(source, slow)
    BY <1>3 DEF DrainEnds
  <2>2. loopAt = "drain" /\ loopAt' = "run" /\ UNCHANGED <<nsapp, timer, posters, releasing>>
    BY <1>3 DEF DrainEnds
  <2>3. left \in 0..(MaxTasks + 2) /\ left <= pump.tasks
    BY <1>0, <1>a DEF LoopTyped, PumpRecords
  <2>4. /\ pump' \in PumpRecords /\ pump'.tasks = left /\ pump'.posted = pump.posted
        /\ pump'.dedup = IF left > 0 THEN "pending" ELSE "idle"
    BY <1>0, <2>1, <2>3 DEF LoopTyped, PumpRecords
  <2>5. source \in SourceRecords /\ source.installed /\ ~source.shutdown
    BY <1>0, <2>2 DEF LoopTyped, PumpInv
  <2>6. /\ source' \in SourceRecords /\ source'.installed /\ ~source'.shutdown
        /\ source.signalled => source'.signalled
        /\ slow /\ ~source.pending => source'.signalled
        /\ source.pending => source' = source
        /\ ~slow => source' = source
    BY <2>1, <2>5, SourceSignalled
  <2>7. LoopTyped'
    BY <1>0, <2>2, <2>4, <2>6 DEF LoopTyped
  <2>8. source'.pending => source'.signalled \/ Signalling'
    <3>1. CASE source.pending
      BY <1>0, <2>2, <2>6, <3>1 DEF PumpInv, Signalling
    <3>2. CASE ~source.pending
      BY <2>6, <3>2
    <3> QED
      BY <3>1, <3>2
  <2>9. left > 0 => source'.signalled \/ Underway'
    <3>1. CASE source.pending
      <4>1. source'.signalled \/ Signalling
        BY <1>0, <2>2, <2>6, <3>1 DEF PumpInv
      <4> QED
        BY <2>2, <4>1 DEF Signalling, Underway
    <3>2. CASE ~source.pending
      BY <2>1, <2>6, <3>2
    <3> QED
      BY <3>1, <3>2
  <2>10. PumpInv'
    BY <2>2, <2>4, <2>6, <2>8, <2>9 DEF PumpInv
  <2>11. PostedInv'
    BY <1>0, <1>a, <2>2, <2>3, <2>4 DEF PostedInv
  <2>12. ReleaseInv'
    BY <1>0, <2>2 DEF ReleaseInv
  <2> QED
    BY <2>7, <2>10, <2>11, <2>12 DEF LoopInv
<1>4. CASE ServeBlock
  <2>1. /\ loopAt = "run" /\ releasing.block /\ nsapp' = WakeBlock(nsapp)
        /\ releasing' = [releasing EXCEPT !.block = FALSE]
        /\ UNCHANGED <<loopAt, source, timer, pump, posters>>
    BY <1>4 DEF ServeBlock, pumpVars
  <2>2. nsapp.events = 0
    BY <1>0, <2>1 DEF ReleaseInv
  <2>3. nsapp' \in NsappRecords /\ nsapp'.stop /\ nsapp'.events = 1
    <3>1. nsapp' = [nsapp EXCEPT !.stop = TRUE, !.events = 1]
      BY <1>0, <2>1, <2>2 DEF LoopTyped, WakeBlock, NsappRecords
    <3>2. nsapp \in NsappRecords
      BY <1>0 DEF LoopTyped
    <3>3. 1 \in 0..1
      OBVIOUS
    <3> QED
      BY <3>1, <3>2, <3>3 DEF NsappRecords
  <2>4. /\ releasing' \in ReleaseRecords /\ ~releasing'.block
        /\ releasing'.asked = releasing.asked /\ releasing'.woken = releasing.woken
    BY <1>0, <2>1 DEF LoopTyped, ReleaseRecords
  <2>5. LoopTyped'
    BY <1>0, <2>1, <2>3, <2>4 DEF LoopTyped
  <2>6. PumpInv'
    BY <1>0, <2>1, <2>4 DEF PumpInv, Underway, Signalling, CefUp
  <2>7. PostedInv' /\ ReleaseInv'
    BY <1>0, <2>1, <2>3, <2>4 DEF PostedInv, ReleaseInv
  <2> QED
    BY <2>5, <2>6, <2>7 DEF LoopInv
<1>5. CASE ServeEvent
  <2>1. /\ loopAt = "run" /\ nsapp.events > 0
        /\ nsapp' = [stop |-> FALSE, events |-> nsapp.events - 1]
        /\ loopAt' = (IF nsapp.stop THEN "teardown" ELSE "run")
        /\ UNCHANGED <<source, timer, pump, posters, releasing>>
    BY <1>5 DEF ServeEvent, pumpVars
  <2>2. releasing.woken /\ ~releasing.block /\ nsapp.stop /\ nsapp.events = 1
    BY <1>0, <2>1 DEF ReleaseInv
  <2>3. nsapp' = [stop |-> FALSE, events |-> 0] /\ loopAt' = "teardown"
    BY <2>1, <2>2
  <2>4. nsapp' \in NsappRecords /\ nsapp'.events = 0
    BY <2>3 DEF NsappRecords
  <2>5. LoopTyped'
    BY <1>0, <2>1, <2>3, <2>4 DEF LoopTyped
  <2>6. PumpInv'
    BY <2>3 DEF PumpInv
  <2>7. PostedInv' /\ ReleaseInv'
    BY <1>0, <2>1, <2>2, <2>3, <2>4 DEF PostedInv, ReleaseInv
  <2> QED
    BY <2>5, <2>6, <2>7 DEF LoopInv
<1>6. CASE PumpShutdown
  <2>1. /\ loopAt = "teardown" /\ loopAt' = "cef_shutdown"
        /\ source' = [source EXCEPT !.installed = FALSE, !.signalled = FALSE, !.shutdown = TRUE]
        /\ timer' = [valid |-> FALSE, armed |-> FALSE]
        /\ UNCHANGED <<nsapp, pump, posters, releasing>>
    BY <1>6 DEF PumpShutdown
  <2>2. source' \in SourceRecords
    BY <1>0, <2>1 DEF LoopTyped, SourceRecords
  <2>3. LoopTyped'
    BY <1>0, <2>1, <2>2 DEF LoopTyped
  <2>4. PumpInv' /\ PostedInv' /\ ReleaseInv'
    BY <1>0, <2>1 DEF PumpInv, PostedInv, ReleaseInv
  <2> QED
    BY <2>3, <2>4 DEF LoopInv
<1>7. CASE CefDown
  <2>1. /\ loopAt = "cef_shutdown" /\ loopAt' = "down"
        /\ pump' = [pump EXCEPT !.tasks = 0, !.delayed = FALSE, !.dedup = "down"]
        /\ UNCHANGED <<nsapp, source, timer, posters, releasing>>
    BY <1>7 DEF CefDown
  <2>2. pump' \in PumpRecords /\ pump'.tasks = 0 /\ pump'.posted = pump.posted
    <3>1. 0 \in 0..(MaxTasks + 2)
      BY <1>a
    <3> QED
      BY <1>0, <2>1, <3>1 DEF LoopTyped, PumpRecords
  <2>3. LoopTyped'
    BY <1>0, <2>1, <2>2 DEF LoopTyped
  <2>4. PostedInv'
    BY <1>0, <1>a, <2>1, <2>2 DEF PostedInv
  <2>5. PumpInv' /\ ReleaseInv'
    BY <1>0, <2>1 DEF PumpInv, ReleaseInv
  <2> QED
    BY <2>3, <2>4, <2>5 DEF LoopInv
<1> QED
  BY <1>1, <1>2, <1>3, <1>4, <1>5, <1>6, <1>7 DEF MainLoopStep

(* The steps of the threads that give CEF work, and of those that end the   *)
(* loop.                                                                    *)
LEMMA OthersInv ==
  ASSUME LoopInv,
         \/ \E p \in Posters : PostWork(p) \/ ScheduleStep(p)
         \/ PostDelayed \/ AskQuit \/ WakeMainLoop
  PROVE  LoopInv'
<1>0. LoopTyped /\ PumpInv /\ PostedInv /\ ReleaseInv
  BY DEF LoopInv
<1>a. pump.tasks \in Nat /\ pump.posted \in Nat /\ pump.posted <= MaxTasks /\ MaxTasks \in Nat
  BY <1>0, LoopAssumption DEF LoopTyped, PumpRecords
<1>b. pump \in PumpRecords /\ posters \in PosterSteps /\ source \in SourceRecords
  BY <1>0 DEF LoopTyped
<1>1. ASSUME NEW p \in Posters, PostWork(p) PROVE LoopInv'
  <2>1. /\ CefUp /\ posters[p] = "idle" /\ pump.posted < MaxTasks
        /\ pump' = [pump EXCEPT !.tasks = @ + 1, !.posted = @ + 1,
                              !.dedup = IF @ = "idle" THEN "pending" ELSE @]
        /\ posters' = [posters EXCEPT ![p] = IF pump.dedup = "idle" THEN "check" ELSE "idle"]
        /\ UNCHANGED <<loopAt, nsapp, source, timer, releasing>>
    BY <1>1 DEF PostWork
  <2>2. loopAt # "boot"
    BY <1>0, <2>1 DEF PumpInv
  <2>3. pump.tasks <= pump.posted + 2
    BY <1>0, <1>a DEF PostedInv
  <2>4. pump.tasks + 1 \in 0..(MaxTasks + 2) /\ pump.posted + 1 \in 0..MaxTasks
    BY <1>a, <2>1, <2>3
  <2>5. /\ pump' \in PumpRecords
        /\ pump'.tasks = pump.tasks + 1 /\ pump'.posted = pump.posted + 1
        /\ pump'.dedup = IF pump.dedup = "idle" THEN "pending" ELSE pump.dedup
    BY <1>b, <2>1, <2>4 DEF PumpRecords
  <2>6. /\ posters' \in PosterSteps
        /\ pump.dedup = "idle" => posters'[p] = "check"
        /\ \A q \in Posters : posters[q] # "idle" => posters'[q] = posters[q]
    BY <1>b, <2>1 DEF PosterSteps
  <2>7. (Signalling => Signalling') /\ (Underway => Underway')
        /\ (pump.dedup = "idle" => Underway')
    BY <2>6 DEF Signalling, Underway
  <2>8. LoopTyped'
    BY <1>0, <2>1, <2>5, <2>6 DEF LoopTyped
  <2>9. PumpInv'
    BY <1>0, <2>1, <2>2, <2>5, <2>7 DEF PumpInv
  <2>10. PostedInv'
    BY <1>0, <1>a, <2>1, <2>5 DEF PostedInv
  <2>11. ReleaseInv'
    BY <1>0, <2>1 DEF ReleaseInv
  <2> QED
    BY <2>8, <2>9, <2>10, <2>11 DEF LoopInv
<1>2. ASSUME NEW p \in Posters, ScheduleStep(p) PROVE LoopInv'
  <2>1. UNCHANGED <<loopAt, nsapp, timer, pump, releasing>>
    BY <1>2 DEF ScheduleStep
  <2>2. posters[p] # "idle"
    BY <1>2 DEF ScheduleStep
  <2>3. loopAt # "boot"
    BY <1>0, <2>2 DEF PumpInv
  <2>4. /\ posters' \in PosterSteps /\ source' \in SourceRecords
        /\ source'.installed = source.installed /\ source'.shutdown = source.shutdown
        /\ source.signalled => source'.signalled
    BY <1>b, <1>2 DEF ScheduleStep, PosterSteps, SourceRecords
  <2>5. loopAt \in {"run", "drain"} /\ source'.pending => source'.signalled \/ Signalling'
    <3> SUFFICES ASSUME loopAt \in {"run", "drain"}, source'.pending
                 PROVE  source'.signalled \/ Signalling'
      OBVIOUS
    <3>i. source.installed /\ ~source.shutdown
      BY <1>0 DEF PumpInv
    <3>1. CASE posters[p] = "check"
      <4>1. source' = source /\ posters' = [posters EXCEPT ![p] = "mark"]
        BY <1>2, <3>1, <3>i DEF ScheduleStep
      <4>2. source.signalled \/ Signalling
        BY <1>0, <4>1 DEF PumpInv
      <4>3. Signalling => Signalling'
        BY <1>b, <3>1, <4>1 DEF Signalling, PosterSteps
      <4> QED
        BY <4>1, <4>2, <4>3
    <3>2. CASE posters[p] = "mark"
      <4>1. posters' = [posters EXCEPT ![p] = "signal"]
        BY <1>2, <3>2 DEF ScheduleStep
      <4> QED
        BY <1>b, <4>1 DEF Signalling, PosterSteps
    <3>3. CASE posters[p] = "signal"
      <4>1. source' = [source EXCEPT !.signalled = TRUE]
        BY <1>2, <3>3, <3>i DEF ScheduleStep
      <4> QED
        BY <1>b, <4>1 DEF SourceRecords
    <3> QED
      BY <1>2, <3>1, <3>2, <3>3 DEF ScheduleStep
  <2>6. loopAt = "run" /\ Underway => source'.signalled \/ Underway'
    <3> SUFFICES ASSUME loopAt = "run", Underway PROVE source'.signalled \/ Underway'
      OBVIOUS
    <3>i. source.installed /\ ~source.shutdown
      BY <1>0 DEF PumpInv
    <3>1. CASE posters[p] = "signal"
      <4>1. source' = [source EXCEPT !.signalled = TRUE]
        BY <1>2, <3>1, <3>i DEF ScheduleStep
      <4> QED
        BY <1>b, <4>1 DEF SourceRecords
    <3>2. CASE posters[p] # "signal"
      <4>1. \/ posters' = [posters EXCEPT ![p] = "mark"]
            \/ posters' = [posters EXCEPT ![p] = "signal"]
        BY <1>2, <3>i, <3>2 DEF ScheduleStep
      <4>2. posters'[p] # "idle"
        BY <1>b, <4>1 DEF PosterSteps
      <4> QED
        BY <4>2 DEF Underway
    <3> QED
      BY <3>1, <3>2
  <2>7. LoopTyped'
    BY <1>0, <2>1, <2>4 DEF LoopTyped
  <2>8. PumpInv'
    BY <1>0, <2>1, <2>3, <2>4, <2>5, <2>6 DEF PumpInv
  <2>9. PostedInv' /\ ReleaseInv'
    BY <1>0, <2>1 DEF PostedInv, ReleaseInv
  <2> QED
    BY <2>7, <2>8, <2>9 DEF LoopInv
<1>3. CASE PostDelayed
  <2>1. /\ CefUp /\ pump.posted < MaxTasks
        /\ pump' = [pump EXCEPT !.delayed = TRUE, !.posted = @ + 1]
        /\ timer' = [timer EXCEPT !.armed = timer.valid]
        /\ UNCHANGED <<loopAt, nsapp, source, posters, releasing>>
    BY <1>3 DEF PostDelayed
  <2>2. pump.posted + 1 \in 0..MaxTasks
    BY <1>a, <2>1
  <2>3. /\ pump' \in PumpRecords /\ pump'.tasks = pump.tasks
        /\ pump'.posted = pump.posted + 1 /\ pump'.dedup = pump.dedup
    BY <1>b, <2>1, <2>2 DEF PumpRecords
  <2>4. timer' \in [valid : BOOLEAN, armed : BOOLEAN]
    BY <1>0, <2>1 DEF LoopTyped
  <2>5. LoopTyped'
    BY <1>0, <2>1, <2>3, <2>4 DEF LoopTyped
  <2>6. PumpInv'
    BY <1>0, <2>1, <2>3 DEF PumpInv, Underway, Signalling, CefUp
  <2>7. PostedInv'
    BY <1>0, <1>a, <2>1, <2>3 DEF PostedInv
  <2>8. ReleaseInv'
    BY <1>0, <2>1 DEF ReleaseInv
  <2> QED
    BY <2>5, <2>6, <2>7, <2>8 DEF LoopInv
<1>4. CASE AskQuit
  <2>1. /\ loopAt \in {"run", "drain"} /\ ~releasing.asked
        /\ releasing' = [releasing EXCEPT !.asked = TRUE]
        /\ pump' = [pump EXCEPT !.tasks = @ + 1, !.dedup = IF @ = "idle" THEN "pending" ELSE @]
        /\ source' = IF pump.dedup = "idle" THEN Signalled(source) ELSE source
        /\ UNCHANGED <<loopAt, nsapp, timer, posters>>
    BY <1>4 DEF AskQuit
  <2>2. pump.tasks <= pump.posted + 1
    BY <1>0, <1>a, <2>1 DEF PostedInv
  <2>3. pump.tasks + 1 \in 0..(MaxTasks + 2)
    BY <1>a, <2>2
  <2>4. /\ pump' \in PumpRecords
        /\ pump'.tasks = pump.tasks + 1 /\ pump'.posted = pump.posted
        /\ pump'.dedup = IF pump.dedup = "idle" THEN "pending" ELSE pump.dedup
    BY <1>b, <2>1, <2>3 DEF PumpRecords
  <2>5. source.installed /\ ~source.shutdown
    BY <1>0, <2>1 DEF PumpInv
  <2>6. /\ source' \in SourceRecords /\ source'.installed /\ ~source'.shutdown
        /\ pump.dedup = "idle" => source'.signalled
        /\ pump.dedup # "idle" => source' = source
    BY <1>b, <2>1, <2>5, SourceSignalled
  <2>7. /\ releasing' \in ReleaseRecords /\ releasing'.asked
        /\ releasing'.woken = releasing.woken /\ releasing'.block = releasing.block
    BY <1>0, <2>1 DEF LoopTyped, ReleaseRecords
  <2>8. LoopTyped'
    BY <1>0, <2>1, <2>4, <2>6, <2>7 DEF LoopTyped
  <2>9. PumpInv'
    <3>1. (Signalling' <=> Signalling) /\ (Underway' <=> Underway)
      BY <2>1 DEF Signalling, Underway
    <3> QED
      BY <1>0, <2>1, <2>4, <2>6, <3>1 DEF PumpInv
  <2>10. PostedInv'
    BY <1>0, <1>a, <2>1, <2>4, <2>7 DEF PostedInv
  <2>11. ReleaseInv'
    BY <1>0, <2>1, <2>7 DEF ReleaseInv
  <2> QED
    BY <2>8, <2>9, <2>10, <2>11 DEF LoopInv
<1>5. CASE WakeMainLoop
  <2>1. /\ releasing.asked /\ ~releasing.woken /\ loopAt = "run"
        /\ releasing' = [releasing EXCEPT !.woken = TRUE, !.block = TRUE]
        /\ UNCHANGED <<loopAt, nsapp, source, timer, pump, posters>>
    BY <1>5 DEF WakeMainLoop, pumpVars
  <2>2. /\ releasing' \in ReleaseRecords /\ releasing'.woken /\ releasing'.block
        /\ releasing'.asked = releasing.asked
    BY <1>0, <2>1 DEF LoopTyped, ReleaseRecords
  <2>3. LoopTyped'
    BY <1>0, <2>1, <2>2 DEF LoopTyped
  <2>4. PumpInv'
    BY <1>0, <2>1, <2>2 DEF PumpInv, Underway, Signalling
  <2>5. PostedInv' /\ ReleaseInv'
    BY <1>0, <2>1, <2>2 DEF PostedInv, ReleaseInv
  <2> QED
    BY <2>3, <2>4, <2>5 DEF LoopInv
<1> QED
  BY <1>1, <1>2, <1>3, <1>4, <1>5

(* Every step of the main loop keeps its invariant.                         *)
LEMMA LoopStep == LoopInv /\ [LoopNext]_loopVars => LoopInv'
<1> SUFFICES ASSUME LoopInv, [LoopNext]_loopVars PROVE LoopInv'
  OBVIOUS
<1>1. CASE MainLoopStep
  BY <1>1, MainLoopInv
<1>2. CASE \/ \E p \in Posters : PostWork(p) \/ ScheduleStep(p)
           \/ PostDelayed \/ AskQuit \/ WakeMainLoop
  BY <1>2, OthersInv
<1>3. CASE UNCHANGED loopVars
  <2>1. UNCHANGED <<loopAt, nsapp, source, timer, pump, posters, releasing>>
    BY <1>3 DEF loopVars
  <2> QED
    BY <2>1 DEF LoopInv, LoopTyped, PumpInv, PostedInv, ReleaseInv, Underway, Signalling, CefUp
<1> QED
  BY <1>1, <1>2, <1>3 DEF LoopNext

LEMMA LoopTypes == LoopInv => LoopTypeOK
BY DEF LoopInv, LoopTyped, LoopTypeOK, NsappRecords, SourceRecords, PumpRecords,
       PosterSteps, ReleaseRecords

LEMMA LinkTypes == LinkInv => LinkTypeOK
BY DEF LinkInv, LinkTypeOK

(* The main thread of macOS loses neither a task of CEF nor the end of its  *)
(* loop: whenever it is about to sleep with tasks waiting, a signal is set  *)
(* or on its way, and the wake-up of the manager is a block, or the stop    *)
(* with its sentinel event, until the loop has returned (cef_pump.rs,       *)
(* wake_trampoline).  The heart is PumpInv, that CEF's belief of having     *)
(* asked for its pump is true, through the shadow bit, the check of         *)
(* shutdown and the rescue after a slow turn.                               *)
THEOREM LoopCorrect == LoopSpec => [](LoopTypeOK /\ NothingStranded)
<1>1. LoopInv => NothingStranded
  BY DEF LoopInv, PumpInv, ReleaseInv, NothingStranded, Underway
<1> QED
  BY LoopInvInit, LoopStep, LoopTypes, <1>1, PTL DEF LoopSpec

-----------------------------------------------------------------------------
(* The six machines of the runtime together. *)

(* One machine moves, by a step of its own, and the others rest; the state  *)
(* machine moves with the session or with the coordinator.                  *)
LEMMA RuntimeSteps ==
  ASSUME Next
  PROVE  /\ machine = "session" => SessionNext /\ UNCHANGED coordVars
         /\ machine = "coordinator" => CoordNext /\ UNCHANGED playerVars
         /\ machine \notin {"session", "coordinator"} => UNCHANGED <<sessionVars, coordVars>>
         /\ machine = "process" => AppNext
         /\ machine = "boot" => BootNext
         /\ machine = "mac_loop" => LoopNext \/ UNCHANGED loopVars
         /\ machine = "mac_link" => LinkNext \/ UNCHANGED linkVars
         /\ machine # "process" => UNCHANGED appVars
         /\ machine # "boot" => UNCHANGED bootVars
         /\ machine # "mac_loop" => UNCHANGED loopVars
         /\ machine # "mac_link" => UNCHANGED linkVars
<1>1. MacEnded => UNCHANGED loopVars /\ UNCHANGED linkVars
  BY DEF MacEnded, macVars
<1>2. /\ \/ machine = "session" /\ SessionNext /\ UNCHANGED coordVars
         \/ machine = "coordinator" /\ CoordNext /\ UNCHANGED playerVars
         \/ machine = "process" /\ AppNext
         \/ machine = "boot" /\ BootNext
         \/ machine = "mac_loop" /\ LoopNext
         \/ machine = "mac_link" /\ LinkNext
         \/ machine \in {"mac_loop", "mac_link"} /\ MacEnded
      /\ machine \notin {"session", "coordinator"} => UNCHANGED <<sessionVars, coordVars>>
      /\ machine # "process" => UNCHANGED appVars
      /\ machine # "boot" => UNCHANGED bootVars
      /\ machine # "mac_loop" => UNCHANGED loopVars
      /\ machine # "mac_link" => UNCHANGED linkVars
  BY Zenon DEF Next, Rest
<1> QED
  BY <1>1, <1>2, Zenon

(* What rests is of its type.                                               *)
LEMMA CoordRests == SMInit /\ CoordAtRest => CoordTypeOK
<1> SUFFICES ASSUME SMInit, CoordAtRest PROVE CoordTypeOK
  OBVIOUS
<1>1. SMTypeOK
  BY FreshType, ShortSeqType DEF SMInit, SMTypeOK
<1>2. <<>> \in Seq(Input) /\ <<>> \in Seq(PlaybackAction) /\ <<>> \in Seq(PlaybackEvent)
  OBVIOUS
<1> QED
  BY <1>1, <1>2, FreshType DEF CoordAtRest, CoordTypeOK, WorkerStep, InhibitLevel

LEMMA AppRests == AppAtRest => AppTypeOK
<1> SUFFICES ASSUME AppAtRest PROVE AppTypeOK
  OBVIOUS
<1>1. inner \in [Layer -> Inner]
  BY DEF AppAtRest, LayersInit, NewInner, Inner
<1>2. /\ shutting_down = FALSE /\ up = FALSE /\ layers = {} /\ active_stack = <<>>
      /\ browser = [l \in Layer |-> "none"] /\ hidden = [l \in Layer |-> FALSE]
      /\ tasks = <<>> /\ collected = NotSent /\ asked = [resets |-> 0, abouts |-> 0, urls |-> 0]
  BY DEF AppAtRest, LayersInit
<1>3. /\ active_stack \in Seq(Layer) /\ tasks \in Seq(Task)
      /\ browser \in [Layer -> {"none", "creating", "live", "closing"}]
      /\ hidden \in [Layer -> BOOLEAN]
  BY <1>2
<1>4. asked \in [resets: 0..MaxResets, abouts: 0..MaxAbouts, urls: 0..MaxUrls]
  BY <1>2, LayerBoundsAssumption
<1>5. LayersTypeOK
  BY <1>1, <1>2, <1>3, <1>4 DEF LayersTypeOK
<1>6. <<>> \in Seq(ManagerMsg) /\ 0 \in 0..MaxMessages
  BY MessagesAssumption
<1> QED
  BY <1>5, <1>6 DEF AppAtRest, AppTypeOK, MainStep, ManagerStep, LifecycleState

LEMMA LoopRests == LoopAtRest => LoopTypeOK
BY LoopAssumption DEF LoopAtRest, LoopTypeOK

LEMMA LinkRests == LinkAtRest => LinkTypeOK
<1> SUFFICES ASSUME LinkAtRest PROVE LinkTypeOK
  OBVIOUS
<1>1. /\ linkAt = "down" /\ link = [display |-> NoDisplay, ticks |-> FALSE] /\ missed = FALSE
      /\ displays = [lit |-> {}, window |-> NoDisplay, notes |-> 0, changes |-> 0]
  BY DEF LinkAtRest, NoLink
<1>2. {} \in SUBSET Displays /\ 0 \in 0..MaxLit
  BY LinkAssumption
<1> QED
  BY <1>1, <1>2 DEF LinkTypeOK

(* The types of the machines, each with the invariant it needs while it     *)
(* runs.                                                                    *)
RuntimeTypes ==
  /\ CoordTypeOK
  /\ machine = "coordinator" => ApplyInv
  /\ machine = "session" => SessionTypes
  /\ AppTypeOK /\ (machine = "process" => AppInv)
  /\ LoopTypeOK /\ (machine = "mac_loop" => LoopInv)
  /\ LinkTypeOK /\ (machine = "mac_link" => LinkInv)

LEMMA RuntimeStart == Init => RuntimeTypes
<1> SUFFICES ASSUME Init PROVE RuntimeTypes
  OBVIOUS
<1>1. /\ SessionInit
      /\ IF machine = "coordinator" THEN CoordInit ELSE CoordAtRest
      /\ IF machine = "process" THEN AppInit ELSE AppAtRest
      /\ IF machine = "mac_loop" THEN LoopInit ELSE LoopAtRest
      /\ IF machine = "mac_link" THEN LinkInit ELSE LinkAtRest
  BY DEF Init
<1>2. SessionTypes /\ SMInit
  BY <1>1, SessionStart DEF SessionInit
<1>3. CoordTypeOK /\ (machine = "coordinator" => ApplyInv)
  BY <1>1, <1>2, CoordTypeInit, CoordRests
<1>4. AppTypeOK /\ (machine = "process" => AppInv)
  BY <1>1, AppInvInit, TypesNamed, AppRests
<1>5. LoopTypeOK /\ (machine = "mac_loop" => LoopInv)
  BY <1>1, LoopInvInit, LoopTypes, LoopRests
<1>6. LinkTypeOK /\ (machine = "mac_link" => LinkInv)
  BY <1>1, LinkInvInit, LinkTypes, LinkRests
<1> QED
  BY <1>2, <1>3, <1>4, <1>5, <1>6 DEF RuntimeTypes

LEMMA RuntimeKept == RuntimeTypes /\ [Next]_allVars => RuntimeTypes'
<1> SUFFICES ASSUME RuntimeTypes, [Next]_allVars PROVE RuntimeTypes'
  OBVIOUS
<1>1. machine' = machine
  BY DEF Next, allVars
<1>2. CoordTypeOK' /\ (machine = "coordinator" => ApplyInv')
  <2>1. CASE machine = "coordinator"
    <3>1. [CoordNext]_vars
      BY <2>1, RuntimeSteps DEF allVars, sessionVars, coordVars, vars
    <3> QED
      BY <2>1, <3>1, CoordTypeStep, ApplyStep DEF RuntimeTypes
  <2>2. CASE machine # "coordinator"
    <3>1. UNCHANGED coordVars
      BY <2>2, RuntimeSteps DEF allVars
    <3>2. SMTypeOK'
      <4>1. CASE machine = "session"
        <5>1. [SessionNext]_sessionVars
          BY <4>1, RuntimeSteps DEF allVars
        <5> QED
          BY <4>1, <5>1, SessionTypesStep DEF RuntimeTypes, SessionTypes
      <4>2. CASE machine # "session"
        <5>1. UNCHANGED smVars
          BY <2>2, <4>2, RuntimeSteps DEF allVars, sessionVars
        <5>2. SMTypeOK
          BY DEF RuntimeTypes, CoordTypeOK
        <5> QED
          BY <5>1, <5>2 DEF SMTypeOK, smVars, private
      <4> QED
        BY <4>1, <4>2
    <3> QED
      BY <2>2, <3>1, <3>2 DEF RuntimeTypes, CoordTypeOK, coordVars, ctlVars, sinkVars
  <2> QED
    BY <2>1, <2>2
<1>3. machine = "session" => SessionTypes'
  <2> SUFFICES ASSUME machine = "session" PROVE SessionTypes'
    OBVIOUS
  <2>1. [SessionNext]_sessionVars
    BY RuntimeSteps DEF allVars
  <2> QED
    BY <2>1, SessionTypesStep DEF RuntimeTypes
<1>4. AppTypeOK' /\ (machine = "process" => AppInv')
  <2>1. CASE machine = "process"
    <3>1. [AppNext]_appVars
      BY <2>1, RuntimeSteps DEF allVars
    <3>2. AppInv'
      BY <2>1, <3>1, AppStep DEF RuntimeTypes
    <3>3. AppInv' => AppTypeOK'
      BY <3>2 DEF AppInv, LayersTyped, ThreadsTyped, AppTypeOK, LayersTypeOK, Stacks, Inners,
         Browsers, Marks, Tasks, Asks, Messages
    <3> QED
      BY <3>2, <3>3
  <2>2. CASE machine # "process"
    <3>1. UNCHANGED appVars
      BY <2>2, RuntimeSteps DEF allVars
    <3>2. AppTypeOK
      BY DEF RuntimeTypes
    <3> QED
      BY <2>2, <3>1, <3>2 DEF appVars, layerVars, mainVars, signalVars, sendVars, managerVars,
         AppTypeOK, LayersTypeOK
  <2> QED
    BY <2>1, <2>2
<1>5. LoopTypeOK' /\ (machine = "mac_loop" => LoopInv')
  <2>1. CASE machine = "mac_loop"
    <3>1. [LoopNext]_loopVars
      BY <2>1, RuntimeSteps DEF allVars, macVars
    <3>2. LoopInv'
      BY <2>1, <3>1, LoopStep DEF RuntimeTypes
    <3>3. LoopTypeOK'
      BY <3>2 DEF LoopInv, LoopTyped, LoopTypeOK, NsappRecords, SourceRecords, PumpRecords,
         PosterSteps, ReleaseRecords
    <3> QED
      BY <3>2, <3>3
  <2>2. CASE machine # "mac_loop"
    <3>1. UNCHANGED loopVars
      BY <2>2, RuntimeSteps DEF allVars, macVars
    <3> QED
      BY <2>2, <3>1 DEF RuntimeTypes, loopVars, LoopTypeOK
  <2> QED
    BY <2>1, <2>2
<1>6. LinkTypeOK' /\ (machine = "mac_link" => LinkInv')
  <2>1. CASE machine = "mac_link"
    <3>1. [LinkNext]_linkVars
      BY <2>1, RuntimeSteps DEF allVars, macVars
    <3>2. LinkInv'
      BY <2>1, <3>1, LinkInvStep DEF RuntimeTypes
    <3>3. LinkTypeOK'
      BY <3>2 DEF LinkInv, LinkTypeOK
    <3> QED
      BY <3>2, <3>3
  <2>2. CASE machine # "mac_link"
    <3>1. UNCHANGED linkVars
      BY <2>2, RuntimeSteps DEF allVars, macVars
    <3> QED
      BY <2>2, <3>1 DEF RuntimeTypes, linkVars, LinkTypeOK
  <2> QED
    BY <2>1, <2>2
<1> QED
  BY <1>1, <1>2, <1>3, <1>4, <1>5, <1>6 DEF RuntimeTypes

(* The coordinator, the process, the main loop and the display link hold    *)
(* the values of their types, whichever of the machines runs and while the  *)
(* session drives the state machine they share.                             *)
THEOREM RuntimeTypesCorrect == SafeSpec => []TypesOK
<1>1. RuntimeTypes => TypesOK
  BY DEF RuntimeTypes, TypesOK
<1> QED
  BY <1>1, RuntimeStart, RuntimeKept, PTL DEF SafeSpec

(* What TLC explores in one run is what the modules specify: a behaviour of *)
(* the machines is one of the machine that was chosen, with its fairness,   *)
(* so that what is proved of a machine alone holds of it there.             *)
THEOREM RuntimeMachines ==
  LiveSpec => /\ machine = "session" => SessionSpec
              /\ machine = "coordinator" => CoordSpec
              /\ machine = "process" => AppSpec
              /\ machine = "boot" => BootSpec
              /\ machine = "mac_loop" => LoopSpec /\ LoopFairness
              /\ machine = "mac_link" => LinkSpec
<1> DEFINE S == machine = "session"
           C == machine = "coordinator"
<1>1. Init => /\ SessionInit
              /\ C => CoordInit
              /\ machine = "process" => AppInit
              /\ machine = "boot" => BootInit
              /\ machine = "mac_loop" => LoopInit
              /\ machine = "mac_link" => LinkInit
  BY Zenon DEF Init
<1>2. S /\ [Next]_allVars => S' /\ [SessionNext]_sessionVars
  BY RuntimeSteps DEF allVars, Next
<1>3. C /\ [Next]_allVars => C' /\ [CoordNext]_vars
  BY RuntimeSteps DEF allVars, Next, sessionVars, coordVars, vars
<1>4. [Next]_allVars => [AppNext]_appVars
  BY RuntimeSteps DEF allVars
<1>5. [Next]_allVars => [BootNext]_bootVars
  BY RuntimeSteps DEF allVars
<1>6. [Next]_allVars => [LoopNext]_loopVars
  BY RuntimeSteps DEF allVars, macVars
<1>7. [Next]_allVars => [LinkNext]_linkVars
  BY RuntimeSteps DEF allVars, macVars
<1>8. /\ S <=> machine = "session"
      /\ C <=> machine = "coordinator"
  OBVIOUS
<1> HIDE DEF S, C
<1> QED
  BY <1>1, <1>2, <1>3, <1>4, <1>5, <1>6, <1>7, <1>8, PTL
  DEF LiveSpec, SafeSpec, SessionSpec, CoordSpec, AppSpec, BootSpec, LoopSpec, LinkSpec
=============================================================================
