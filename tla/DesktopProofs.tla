---------------------------- MODULE DesktopProofs ----------------------------
(***************************************************************************)
(* Proofs about the Wayland window, the workers that draw into it, and     *)
(* choosing the server, for any layers, sizes, addresses and bounds.       *)
(***************************************************************************)
EXTENDS MCDesktop, CefPaintProofs, SettingsStoreProofs, TLAPS

-----------------------------------------------------------------------------
(* WaylandWindow. *)

LayerSurface == [alive : BOOLEAN, pw : Sizes \cup {0}, null : BOOLEAN, shown : BOOLEAN]
LayerSurfaces == [Layers -> LayerSurface]
PresenterState == [made : BOOLEAN, pending : BOOLEAN, visible : BOOLEAN, shutdown : BOOLEAN,
                   frame : BOOLEAN]
PresenterStates == [Layers -> PresenterState]
WlStates == [inited : BOOLEAN, wasFs : BOOLEAN, transitioning : BOOLEAN, mode : {"Attach", "Drop"}]
UiStates == [pc : {"idle", "push", "restack", "paint", "join", "dead"},
             layer : Layers \cup {Absent}, frame : Sizes \cup {Absent}, request : BOOLEAN \cup {Absent}]
ProxyStates == [pc : {"idle", "callback"}, ev : Configure \cup {Absent}]

(* The types, by name.                                                      *)
SurfTyped ==
  /\ kind \in {"dmabuf", "shm", "gpu"} /\ stack \in Seq(Layers)
  /\ surf \in LayerSurfaces /\ presenters \in PresenterStates
WlTyped == wl \in WlStates /\ lock \in {"free", "ui", "orphan"}
UiTyped == uiAt \in UiStates
OutsideTyped ==
  /\ windowFs \in BOOLEAN /\ callbacks \in BOOLEAN /\ compFs \in BOOLEAN /\ mpvFs \in BOOLEAN
  /\ proxy \in ProxyStates /\ (proxy.pc = "callback" => proxy.ev \in Configure)
  /\ commands \in Seq(BOOLEAN) /\ events \in Seq(Configure)
  /\ echo \in BOOLEAN \cup {Absent}
  /\ mainAt \in {"boot", "seeded", "run", "detached", "cef_down", "done"}
  /\ sent \in [configures : Nat, requests : Nat]

(* The stack names the surfaces there are, each once; a surface that is not *)
(* in it yet has no worker and shows nothing; dmabufs need no worker.       *)
StackInv ==
  /\ IsInjective(stack)
  /\ \A l \in Stacked : surf[l].alive
  /\ \A l \in Layers : l \notin Stacked => ~presenters[l].made /\ ~surf[l].shown
  /\ \A l \in Layers : surf[l].alive /\ l \notin Stacked =>
       (uiAt.pc = "restack" /\ uiAt.layer = l) \/ uiAt.pc = "dead"
  /\ kind = "dmabuf" => \A l \in Layers : ~presenters[l].made

(* What the UI thread is in the middle of.                                  *)
UiInv ==
  /\ uiAt.pc = "push" => uiAt.request \in BOOLEAN
  /\ uiAt.pc = "restack" => uiAt.layer \in Layers /\ uiAt.layer \notin Stacked /\ surf[uiAt.layer].alive
  /\ uiAt.pc = "paint" => uiAt.layer \in Stacked
  /\ uiAt.pc = "join" => uiAt.layer \in Layers

WindowInv ==
  /\ SurfTyped /\ WlTyped /\ UiTyped /\ OutsideTyped
  /\ StackInv /\ UiInv /\ TransitionKept

(* What one surface and its worker keep of what the stack relies on.        *)
Alike(l) ==
  /\ surf'[l].alive = surf[l].alive /\ presenters'[l].made = presenters[l].made
  /\ ~surf[l].shown => ~surf'[l].shown

LEMMA StackKept ==
  ASSUME WindowInv, UNCHANGED <<kind, stack>>, \A l \in Layers : Alike(l),
         uiAt' = uiAt \/ uiAt.pc \notin {"restack", "dead"} \/ uiAt'.pc = "dead"
  PROVE  StackInv' /\ Stacked' = Stacked /\ Stacked \subseteq Layers
<1>1. Stacked' = Stacked
  BY DEF Stacked
<1>2. Stacked \subseteq Layers
  <2>1. stack \in Seq(Layers)
    BY DEF WindowInv, SurfTyped
  <2> QED
    BY <2>1 DEF Stacked, ToSet
<1> QED
  BY <1>1, <1>2 DEF WindowInv, StackInv, Alike

LEMMA StackedLayers == WindowInv => Stacked \subseteq Layers
<1> SUFFICES ASSUME WindowInv PROVE Stacked \subseteq Layers
  OBVIOUS
<1>1. stack \in Seq(Layers)
  BY DEF WindowInv, SurfTyped
<1> QED
  BY <1>1 DEF Stacked, ToSet

(* begin_transition.                                                        *)
LEMMA BeginTyped ==
  ASSUME WindowInv
  PROVE  /\ UnmappedAll \in LayerSurfaces /\ GatedAll \in PresenterStates
         /\ \A l \in Layers :
              /\ UnmappedAll[l].alive = surf[l].alive /\ GatedAll[l].made = presenters[l].made
              /\ ~surf[l].shown => ~UnmappedAll[l].shown
              /\ kind = "dmabuf" => ~UnmappedAll[l].shown
<1>1. surf \in LayerSurfaces /\ presenters \in PresenterStates
  BY DEF WindowInv, SurfTyped
<1>2. ASSUME NEW l \in Layers
      PROVE  /\ UnmappedAll[l] \in LayerSurface /\ GatedAll[l] \in PresenterState
             /\ UnmappedAll[l].alive = surf[l].alive /\ GatedAll[l].made = presenters[l].made
             /\ ~surf[l].shown => ~UnmappedAll[l].shown
             /\ kind = "dmabuf" => ~UnmappedAll[l].shown
  <2>1. surf[l] \in LayerSurface /\ presenters[l] \in PresenterState
    BY <1>1 DEF LayerSurfaces, PresenterStates
  <2>2. /\ Unmapped(surf[l]) \in LayerSurface /\ Unmapped(surf[l]).alive = surf[l].alive
        /\ ~Unmapped(surf[l]).shown
    BY <2>1 DEF Unmapped, LayerSurface
  <2>3. Gated(presenters[l]) \in PresenterState /\ Gated(presenters[l]).made = presenters[l].made
    <3>1. (presenters[l].pending /\ kind # "shm") \in BOOLEAN
      OBVIOUS
    <3>2. Gated(presenters[l])
            = [presenters[l] EXCEPT !.visible = FALSE, !.pending = (presenters[l].pending /\ kind # "shm")]
      BY DEF Gated
    <3> QED
      BY <2>1, <3>1, <3>2 DEF PresenterState
  <2>4. /\ UnmappedAll[l] = IF l \in Stacked /\ kind # "gpu" THEN Unmapped(surf[l]) ELSE surf[l]
        /\ GatedAll[l] = IF l \in Stacked /\ presenters[l].made THEN Gated(presenters[l]) ELSE presenters[l]
    BY DEF UnmappedAll, GatedAll
  <2>5. l \notin Stacked => ~surf[l].shown
    BY DEF WindowInv, StackInv
  <2> QED
    BY <2>1, <2>2, <2>3, <2>4, <2>5
<1>3. UnmappedAll \in LayerSurfaces /\ GatedAll \in PresenterStates
  <2>1. /\ UnmappedAll = [l \in Layers |-> UnmappedAll[l]]
        /\ GatedAll = [l \in Layers |-> GatedAll[l]]
    BY DEF UnmappedAll, GatedAll
  <2> QED
    BY <1>2, <2>1 DEF LayerSurfaces, PresenterStates
<1> QED
  BY <1>2, <1>3

(* end_transition.                                                          *)
LEMMA EndTyped ==
  ASSUME WindowInv, EndTransition
  PROVE  /\ presenters' \in PresenterStates
         /\ \A l \in Layers : presenters'[l].made = presenters[l].made
         /\ \A l \in Stacked : presenters'[l].made => presenters'[l].visible
<1>1. presenters \in PresenterStates /\ Stacked \subseteq Layers
  BY StackedLayers DEF WindowInv, SurfTyped
<1>2. ASSUME NEW l \in Layers
      PROVE  /\ presenters'[l] \in PresenterState /\ presenters'[l].made = presenters[l].made
             /\ l \in Stacked /\ presenters[l].made => presenters'[l].visible
  <2>1. presenters[l] \in PresenterState
    BY <1>1 DEF PresenterStates
  <2>2. presenters'[l] = IF l \in Stacked /\ presenters[l].made
                         THEN [presenters[l] EXCEPT !.visible = TRUE] ELSE presenters[l]
    BY DEF EndTransition
  <2> QED
    BY <2>1, <2>2 DEF PresenterState
<1>3. presenters' \in PresenterStates
  <2>1. presenters' = [l \in Layers |-> presenters'[l]]
    BY DEF EndTransition
  <2> QED
    BY <1>2, <2>1 DEF PresenterStates
<1> QED
  BY <1>1, <1>2, <1>3

(* A request for fullscreen, from mpv or from the UI, under the mutex.      *)
LEMMA ViaKeeps ==
  ASSUME WindowInv, NEW v \in BOOLEAN, NEW request, SetFullscreenVia(v, request),
         UNCHANGED <<kind, stack>>
  PROVE  /\ request = Absent \/ request = v
         /\ SurfTyped' /\ wl' \in WlStates
         /\ \A l \in Layers : Alike(l)
         /\ TransitionKept'
<1>1. /\ kind \in {"dmabuf", "shm", "gpu"} /\ stack \in Seq(Layers)
      /\ surf \in LayerSurfaces /\ presenters \in PresenterStates /\ wl \in WlStates
  BY DEF WindowInv, SurfTyped, WlTyped
<1>2. Stacked' = Stacked /\ Stacked \subseteq Layers
  BY StackedLayers DEF Stacked
<1>3. CASE wl.wasFs = v /\ wl.transitioning
  <2>1. /\ EndTransition /\ wl' = [wl EXCEPT !.transitioning = FALSE, !.mode = "Attach"]
        /\ UNCHANGED surf /\ request = Absent
    BY <1>3 DEF SetFullscreenVia
  <2>2. wl' \in WlStates /\ ~wl'.transitioning /\ wl'.mode = "Attach"
    BY <1>1, <2>1 DEF WlStates
  <2>3. /\ presenters' \in PresenterStates
        /\ \A l \in Layers : presenters'[l].made = presenters[l].made
        /\ \A l \in Stacked : presenters'[l].made => presenters'[l].visible
    BY <2>1, EndTyped
  <2>4. TransitionKept'
    BY <1>2, <2>2, <2>3 DEF TransitionKept, TransitionShowsNothing, GatesOnlyInTransition
  <2> QED
    BY <1>1, <2>1, <2>2, <2>3, <2>4 DEF SurfTyped, Alike
<1>4. CASE wl.wasFs = v /\ ~wl.transitioning
  <2>1. UNCHANGED <<presenters, wl, surf>> /\ request = Absent
    BY <1>4 DEF SetFullscreenVia
  <2>2. TransitionKept'
    BY <1>2, <2>1 DEF WindowInv, TransitionKept, TransitionShowsNothing, GatesOnlyInTransition
  <2> QED
    BY <1>1, <2>1, <2>2 DEF SurfTyped, Alike
<1>5. CASE wl.wasFs # v
  <2>1. /\ surf' = UnmappedAll /\ presenters' = GatedAll /\ request = v
        /\ wl' = [wl EXCEPT !.transitioning = TRUE, !.mode = "Drop"]
    BY <1>5 DEF SetFullscreenVia, BeginTransition
  <2>2. wl' \in WlStates /\ wl'.transitioning
    BY <1>1, <2>1 DEF WlStates
  <2>3. /\ surf' \in LayerSurfaces /\ presenters' \in PresenterStates
        /\ \A l \in Layers : Alike(l) /\ (kind = "dmabuf" => ~surf'[l].shown)
    BY <2>1, BeginTyped DEF Alike
  <2>4. TransitionKept'
    BY <2>2, <2>3 DEF TransitionKept, TransitionShowsNothing, GatesOnlyInTransition
  <2> QED
    BY <1>1, <2>1, <2>2, <2>3, <2>4 DEF SurfTyped
<1> QED
  BY <1>3, <1>4, <1>5

(* The surfaces, their workers and the gate stay as they are.               *)
LEMMA PictureStays ==
  ASSUME WindowInv, UNCHANGED <<kind, stack, surf, presenters>>,
         wl'.transitioning = wl.transitioning, wl'.mode = wl.mode,
         uiAt' = uiAt \/ uiAt.pc \notin {"restack", "dead"} \/ uiAt'.pc = "dead"
  PROVE  SurfTyped' /\ StackInv' /\ TransitionKept' /\ Stacked' = Stacked
<1>1. \A l \in Layers : Alike(l)
  BY DEF Alike
<1>2. StackInv' /\ Stacked' = Stacked
  BY <1>1, StackKept
<1>3. SurfTyped'
  BY DEF WindowInv, SurfTyped
<1>4. TransitionKept'
  BY <1>2 DEF WindowInv, TransitionKept, TransitionShowsNothing, GatesOnlyInTransition
<1> QED
  BY <1>2, <1>3, <1>4

(* The compositor, the proxy's queues, mpv's property.                      *)
LEMMA QueuesKeep ==
  ASSUME WindowInv, CompositorConfigure \/ DrainCommand \/ ProxyConfigure \/ MpvFetch
  PROVE  WindowInv'
<1>1. UNCHANGED <<kind, stack, surf, presenters, wl, lock, uiAt>>
  BY DEF CompositorConfigure, DrainCommand, ProxyConfigure, MpvFetch
<1>2. SurfTyped' /\ StackInv' /\ TransitionKept' /\ Stacked' = Stacked
  BY <1>1, PictureStays
<1>3. WlTyped' /\ UiTyped' /\ UiInv'
  BY <1>1, <1>2 DEF WindowInv, WlTyped, UiTyped, UiInv
<1>4. TellingSizes \subseteq Sizes
  BY WindowAssumption DEF TellingSizes, AnySize
<1>5. /\ windowFs \in BOOLEAN /\ callbacks \in BOOLEAN /\ compFs \in BOOLEAN /\ mpvFs \in BOOLEAN
      /\ proxy \in ProxyStates /\ (proxy.pc = "callback" => proxy.ev \in Configure)
      /\ commands \in Seq(BOOLEAN) /\ events \in Seq(Configure)
      /\ echo \in BOOLEAN \cup {Absent}
      /\ mainAt \in {"boot", "seeded", "run", "detached", "cef_down", "done"}
      /\ sent \in [configures : Nat, requests : Nat]
  BY DEF WindowInv, OutsideTyped
<1>6. ASSUME NEW ev \in Configure PROVE Append(events, ev) \in Seq(Configure)
  BY <1>5, <1>6
<1>7. CASE CompositorConfigure
  <2>1. PICK ev \in [size : TellingSizes, fs : BOOLEAN] : events' = Append(events, ev) /\ compFs' = ev.fs
    BY <1>7 DEF CompositorConfigure
  <2>2. ev \in Configure
    BY <1>4, <2>1 DEF Configure
  <2>3. events' \in Seq(Configure) /\ compFs' \in BOOLEAN
    BY <1>6, <2>1, <2>2 DEF Configure
  <2>4. sent' \in [configures : Nat, requests : Nat]
    <3>1. sent.configures + 1 \in Nat /\ sent' = [sent EXCEPT !.configures = @ + 1]
      BY <1>5, <1>7 DEF CompositorConfigure
    <3> QED
      BY <1>5, <3>1
  <2>5. OutsideTyped'
    BY <1>5, <1>7, <2>3, <2>4 DEF OutsideTyped, CompositorConfigure
  <2> QED
    BY <1>2, <1>3, <2>5 DEF WindowInv
<1>8. CASE DrainCommand
  <2>1. commands # <<>> /\ commands' = Tail(commands) /\ Head(commands) \in BOOLEAN
        /\ commands' \in Seq(BOOLEAN)
    BY <1>5, <1>8 DEF DrainCommand
  <2>2. compFs' \in BOOLEAN /\ events' \in Seq(Configure)
    <3>1. CASE UNCHANGED <<compFs, events>>
      BY <1>5, <3>1
    <3>2. CASE compFs' = Head(commands)
               /\ \E n \in TellingSizes : events' = Append(events, [size |-> n, fs |-> compFs'])
      <4>1. PICK n \in TellingSizes : events' = Append(events, [size |-> n, fs |-> compFs'])
        BY <3>2
      <4>2. [size |-> n, fs |-> compFs'] \in Configure
        BY <1>4, <2>1, <3>2, <4>1 DEF Configure
      <4> QED
        BY <1>6, <2>1, <3>2, <4>1, <4>2
    <3> QED
      BY <1>8, <3>1, <3>2 DEF DrainCommand
  <2>3. OutsideTyped'
    BY <1>5, <1>8, <2>1, <2>2 DEF OutsideTyped, DrainCommand
  <2> QED
    BY <1>2, <1>3, <2>3 DEF WindowInv
<1>9. CASE ProxyConfigure
  <2>1. Head(events) \in Configure /\ events' \in Seq(Configure) /\ mpvFs' = Head(events).fs
    BY <1>5, <1>9 DEF ProxyConfigure
  <2>2. proxy' \in ProxyStates /\ (proxy'.pc = "callback" => proxy'.ev \in Configure)
    <3>1. proxy' = IF callbacks THEN [pc |-> "callback", ev |-> Head(events)] ELSE ProxyIdle
      BY <1>9 DEF ProxyConfigure
    <3> QED
      BY <2>1, <3>1 DEF ProxyStates, ProxyIdle
  <2>3. mpvFs' \in BOOLEAN
    BY <2>1 DEF Configure
  <2>4. OutsideTyped'
    BY <1>5, <1>9, <2>1, <2>2, <2>3 DEF OutsideTyped, ProxyConfigure
  <2> QED
    BY <1>2, <1>3, <2>4 DEF WindowInv
<1>10. CASE MpvFetch
  <2>1. OutsideTyped'
    BY <1>5, <1>10 DEF OutsideTyped, MpvFetch
  <2> QED
    BY <1>2, <1>3, <2>1 DEF WindowInv
<1> QED
  BY <1>7, <1>8, <1>9, <1>10

(* The configure callback.                                                  *)
LEMMA OnConfigureKeeps ==
  ASSUME WindowInv, OnConfigure
  PROVE  WindowInv'
<1>1. /\ UNCHANGED <<kind, stack, lock, uiAt, callbacks, commands, compFs, events, mpvFs, echo, mainAt, sent>>
      /\ proxy.pc = "callback" /\ windowFs' = proxy.ev.fs /\ proxy' = ProxyIdle
  BY DEF OnConfigure
<1>2. proxy.ev \in Configure /\ proxy.ev.size \in Sizes /\ proxy.ev.fs \in BOOLEAN
  BY <1>1 DEF WindowInv, OutsideTyped, Configure
<1>3. OutsideTyped'
  <2>1. proxy' \in ProxyStates /\ proxy'.pc = "idle"
    BY <1>1 DEF ProxyIdle, ProxyStates
  <2> QED
    BY <1>1, <1>2, <2>1 DEF WindowInv, OutsideTyped
<1>4. CASE ~wl.inited
  <2>1. UNCHANGED <<surf, presenters, wl>>
    BY <1>4 DEF OnConfigure
  <2>2. SurfTyped' /\ StackInv' /\ TransitionKept' /\ Stacked' = Stacked
    BY <1>1, <2>1, PictureStays
  <2>3. WlTyped' /\ UiTyped' /\ UiInv'
    BY <1>1, <2>1, <2>2 DEF WindowInv, WlTyped, UiTyped, UiInv
  <2> QED
    BY <1>3, <2>2, <2>3 DEF WindowInv
<1>5. CASE wl.inited
  <2> DEFINE begins == proxy.ev.fs # wl.wasFs /\ ~wl.transitioning
             s == IF begins THEN UnmappedAll ELSE surf
             trans == wl.transitioning \/ begins
             mode == IF wl.transitioning \/ begins THEN "Attach" ELSE wl.mode
  <2>1. /\ wl' = [wl EXCEPT !.wasFs = proxy.ev.fs, !.transitioning = trans, !.mode = mode]
        /\ surf' = [l \in Layers |-> IF l \in Stacked THEN Sized(s[l], proxy.ev.size) ELSE s[l]]
        /\ presenters' = IF begins THEN GatedAll ELSE presenters
    BY <1>5 DEF OnConfigure
  <2>2. wl \in WlStates /\ surf \in LayerSurfaces /\ presenters \in PresenterStates
        /\ kind \in {"dmabuf", "shm", "gpu"} /\ stack \in Seq(Layers) /\ lock \in {"free", "ui", "orphan"}
    BY DEF WindowInv, WlTyped, SurfTyped
  <2>3. trans \in BOOLEAN /\ mode \in {"Attach", "Drop"}
    BY <2>2 DEF WlStates
  <2>4. /\ s \in LayerSurfaces
        /\ \A l \in Layers : /\ s[l].alive = surf[l].alive
                             /\ ~surf[l].shown => ~s[l].shown
                             /\ begins /\ kind = "dmabuf" => ~s[l].shown
    BY <2>2, BeginTyped
  <2>5. /\ presenters' \in PresenterStates
        /\ \A l \in Layers : presenters'[l].made = presenters[l].made
    BY <2>1, <2>2, BeginTyped
  <2>6. wl'.transitioning = trans /\ wl'.mode = mode /\ wl' \in WlStates
    <3> HIDE DEF trans, mode
    <3> QED
      BY <1>2, <2>1, <2>2, <2>3 DEF WlStates
  <2> HIDE DEF s
  <2>7. ASSUME NEW l \in Layers
        PROVE  /\ surf'[l] \in LayerSurface /\ surf'[l].alive = s[l].alive /\ surf'[l].shown = s[l].shown
    <3>1. s[l] \in LayerSurface
      BY <2>4 DEF LayerSurfaces
    <3>2. /\ Sized(s[l], proxy.ev.size) \in LayerSurface
          /\ Sized(s[l], proxy.ev.size).alive = s[l].alive
          /\ Sized(s[l], proxy.ev.size).shown = s[l].shown
      BY <1>2, <3>1 DEF Sized, LayerSurface
    <3>3. surf'[l] = IF l \in Stacked THEN Sized(s[l], proxy.ev.size) ELSE s[l]
      BY <2>1
    <3> QED
      BY <3>1, <3>2, <3>3
  <2>8. surf' \in LayerSurfaces
    <3>1. surf' = [l \in Layers |-> surf'[l]]
      BY <2>1
    <3> QED
      BY <2>7, <3>1 DEF LayerSurfaces
  <2>9. \A l \in Layers : Alike(l)
    BY <2>4, <2>5, <2>7 DEF Alike
  <2>10. StackInv' /\ Stacked' = Stacked /\ Stacked \subseteq Layers
    BY <1>1, <2>9, StackKept
  <2>11. SurfTyped' /\ WlTyped' /\ UiTyped' /\ UiInv'
    <3>1. SurfTyped' /\ WlTyped'
      BY <1>1, <2>2, <2>5, <2>6, <2>8 DEF SurfTyped, WlTyped
    <3>2. uiAt.pc = "restack" => surf[uiAt.layer].alive /\ uiAt.layer \in Layers
      BY DEF WindowInv, UiInv
    <3>3. UiTyped' /\ UiInv'
      BY <1>1, <2>9, <2>10, <3>2 DEF WindowInv, UiTyped, UiInv, Alike
    <3> QED
      BY <3>1, <3>3
  <2>12. TransitionKept'
    <3>1. TransitionShowsNothing'
      <4> SUFFICES ASSUME kind = "dmabuf", trans, NEW l \in Layers PROVE ~surf'[l].shown
        BY <1>1, <2>6 DEF TransitionShowsNothing
      <4>1. CASE begins
        BY <2>4, <2>7, <4>1
      <4>2. CASE ~begins
        <5>1. wl.transitioning
          BY <4>2
        <5>2. ~surf[l].shown
          BY <5>1 DEF WindowInv, TransitionKept, TransitionShowsNothing
        <5> QED
          BY <2>4, <2>7, <5>2
      <4> QED
        BY <4>1, <4>2
    <3>2. GatesOnlyInTransition'
      <4> SUFFICES ASSUME ~trans
                   PROVE  mode = "Attach" /\ \A l \in Stacked : presenters'[l].made => presenters'[l].visible
        BY <2>6, <2>10 DEF GatesOnlyInTransition
      <4>1. ~wl.transitioning /\ ~begins /\ presenters' = presenters
        BY <2>1
      <4> QED
        BY <4>1 DEF WindowInv, TransitionKept, GatesOnlyInTransition
    <3> QED
      BY <3>1, <3>2 DEF TransitionKept
  <2> QED
    BY <1>3, <2>10, <2>11, <2>12 DEF WindowInv
<1> QED
  BY <1>4, <1>5

(* mpv's property reaches the platform.                                     *)
LEMMA MpvHandleKeeps ==
  ASSUME WindowInv, MpvHandle
  PROVE  WindowInv'
<1>1. /\ UNCHANGED <<kind, stack, lock, uiAt, windowFs, callbacks, proxy, compFs, events, mpvFs, mainAt>>
      /\ echo # Absent /\ echo' = Absent
  BY DEF MpvHandle
<1>2. PICK request \in BOOLEAN \cup {Absent} :
        /\ SetFullscreenVia(echo, request)
        /\ IF request = Absent
           THEN UNCHANGED <<commands, sent>>
           ELSE /\ commands' = Append(commands, request)
                /\ sent' = [sent EXCEPT !.requests = @ + 1]
  BY DEF MpvHandle
<1>3. echo \in BOOLEAN /\ commands \in Seq(BOOLEAN) /\ sent \in [configures : Nat, requests : Nat]
  BY <1>1 DEF WindowInv, OutsideTyped
<1>4. /\ request = Absent \/ request = echo
      /\ SurfTyped' /\ wl' \in WlStates
      /\ \A l \in Layers : Alike(l)
      /\ TransitionKept'
  BY <1>1, <1>2, <1>3, ViaKeeps
<1>5. StackInv' /\ Stacked' = Stacked
  BY <1>1, <1>4, StackKept
<1>6. WlTyped' /\ UiTyped' /\ UiInv'
  <2>1. uiAt.pc = "restack" => surf[uiAt.layer].alive /\ uiAt.layer \in Layers
    BY DEF WindowInv, UiInv
  <2> QED
    BY <1>1, <1>4, <1>5, <2>1 DEF WindowInv, WlTyped, UiTyped, UiInv, Alike
<1>7. commands' \in Seq(BOOLEAN) /\ sent' \in [configures : Nat, requests : Nat]
  <2>1. CASE request = Absent
    BY <1>2, <1>3, <2>1
  <2>2. CASE request # Absent
    <3>1. request \in BOOLEAN
      BY <1>3, <1>4, <2>2
    <3>2. Append(commands, request) \in Seq(BOOLEAN)
      BY <1>3, <3>1
    <3>3. sent.requests + 1 \in Nat
      BY <1>3
    <3> QED
      BY <1>2, <1>3, <2>2, <3>2, <3>3
  <2> QED
    BY <2>1, <2>2
<1>8. OutsideTyped'
  BY <1>1, <1>7 DEF WindowInv, OutsideTyped
<1> QED
  BY <1>4, <1>5, <1>6, <1>8 DEF WindowInv

(* What the UI thread leaves alone keeps its types.                         *)
LEMMA OutsideStays ==
  ASSUME WindowInv, UNCHANGED UiOthers, commands' \in Seq(BOOLEAN),
         sent' \in [configures : Nat, requests : Nat]
  PROVE  OutsideTyped'
BY DEF WindowInv, OutsideTyped, UiOthers

(* The page, a key or the menu asks for fullscreen.                         *)
LEMMA FullscreenKeeps ==
  ASSUME WindowInv, ToggleFullscreen \/ \E v \in BOOLEAN : SetFullscreen(v)
  PROVE  WindowInv'
<1>1. /\ UNCHANGED <<stack, lock, commands>> /\ UNCHANGED UiOthers /\ UNCHANGED kind /\ uiAt.pc = "idle"
  BY DEF ToggleFullscreen, SetFullscreen, UiOthers, UiReady
<1>2. /\ uiAt \in UiStates /\ wl \in WlStates /\ lock \in {"free", "ui", "orphan"}
      /\ commands \in Seq(BOOLEAN) /\ sent \in [configures : Nat, requests : Nat]
  BY DEF WindowInv, WlTyped, UiTyped, OutsideTyped
<1>3. sent.requests + 1 \in Nat
  BY <1>2
<1>4. [sent EXCEPT !.requests = @ + 1] \in [configures : Nat, requests : Nat]
  BY <1>2, <1>3
<1>5. /\ SurfTyped' /\ wl' \in WlStates
      /\ \A l \in Layers : Alike(l)
      /\ TransitionKept'
      /\ sent' \in [configures : Nat, requests : Nat]
      /\ uiAt' \in UiStates
      /\ uiAt'.pc = "push" => uiAt'.request \in BOOLEAN
      /\ uiAt'.pc \in {"idle", "push"}
  <2>1. CASE ToggleFullscreen
    <3>1. /\ surf' = UnmappedAll /\ presenters' = GatedAll
          /\ wl' = [wl EXCEPT !.transitioning = TRUE, !.mode = "Drop"]
          /\ uiAt' = [uiAt EXCEPT !.pc = "push", !.request = ~wl.wasFs]
          /\ sent' = [sent EXCEPT !.requests = @ + 1]
      BY <2>1 DEF ToggleFullscreen, BeginTransition
    <3>2. wl' \in WlStates /\ wl'.transitioning
      BY <1>2, <3>1 DEF WlStates
    <3>3. /\ surf' \in LayerSurfaces /\ presenters' \in PresenterStates
          /\ \A l \in Layers : Alike(l) /\ (kind = "dmabuf" => ~surf'[l].shown)
      BY <3>1, BeginTyped DEF Alike
    <3>4. TransitionKept'
      BY <1>1, <3>2, <3>3 DEF TransitionKept, TransitionShowsNothing, GatesOnlyInTransition
    <3>5. SurfTyped'
      BY <1>1, <3>3 DEF WindowInv, SurfTyped
    <3>6. (~wl.wasFs) \in BOOLEAN
      OBVIOUS
    <3>7. uiAt' \in UiStates /\ uiAt'.pc = "push" /\ uiAt'.request = (~wl.wasFs)
      BY <1>2, <3>1, <3>6 DEF UiStates
    <3> QED
      BY <1>4, <3>1, <3>2, <3>3, <3>4, <3>5, <3>6, <3>7
  <2>2. ASSUME NEW v \in BOOLEAN, SetFullscreen(v)
        PROVE  /\ SurfTyped' /\ wl' \in WlStates
               /\ \A l \in Layers : Alike(l)
               /\ TransitionKept'
               /\ sent' \in [configures : Nat, requests : Nat]
               /\ uiAt' \in UiStates
               /\ uiAt'.pc = "push" => uiAt'.request \in BOOLEAN
               /\ uiAt'.pc \in {"idle", "push"}
    <3>1. PICK request \in BOOLEAN \cup {Absent} :
            /\ SetFullscreenVia(v, request)
            /\ uiAt' = IF request = Absent THEN uiAt ELSE [uiAt EXCEPT !.pc = "push", !.request = request]
            /\ sent' = IF request = Absent THEN sent ELSE [sent EXCEPT !.requests = @ + 1]
      BY <2>2 DEF SetFullscreen
    <3>2. /\ request = Absent \/ request = v
          /\ SurfTyped' /\ wl' \in WlStates
          /\ \A l \in Layers : Alike(l)
          /\ TransitionKept'
      BY <1>1, <3>1, ViaKeeps
    <3>3. sent' \in [configures : Nat, requests : Nat]
      BY <1>2, <1>4, <3>1
    <3>4. /\ uiAt' \in UiStates /\ (uiAt'.pc = "push" => uiAt'.request \in BOOLEAN)
          /\ uiAt'.pc \in {"idle", "push"}
      BY <1>1, <1>2, <3>1, <3>2 DEF UiStates
    <3> QED
      BY <3>2, <3>3, <3>4
  <2> QED
    BY <2>1, <2>2
<1>6. StackInv'
  BY <1>1, <1>5, StackKept
<1>7. WlTyped' /\ UiTyped' /\ UiInv'
  BY <1>1, <1>2, <1>5 DEF WlTyped, UiTyped, UiInv
<1>8. OutsideTyped'
  BY <1>1, <1>2, <1>5, OutsideStays
<1> QED
  BY <1>5, <1>6, <1>7, <1>8 DEF WindowInv

(* The request is pushed to the proxy.                                      *)
LEMMA PushRequestKeeps ==
  ASSUME WindowInv, PushRequest
  PROVE  WindowInv'
<1>1. /\ commands' = Append(commands, uiAt.request) /\ uiAt.pc = "push" /\ uiAt' = UiIdle
      /\ UNCHANGED <<kind, stack, surf, presenters, wl, lock, sent>> /\ UNCHANGED UiOthers
  BY DEF PushRequest, UiOthers
<1>2. uiAt.request \in BOOLEAN /\ commands \in Seq(BOOLEAN) /\ sent \in [configures : Nat, requests : Nat]
  BY <1>1 DEF WindowInv, UiInv, OutsideTyped
<1>3. commands' \in Seq(BOOLEAN)
  BY <1>1, <1>2
<1>4. OutsideTyped'
  BY <1>1, <1>2, <1>3, OutsideStays
<1>5. SurfTyped' /\ StackInv' /\ TransitionKept'
  BY <1>1, PictureStays
<1>6. WlTyped' /\ UiTyped' /\ UiInv'
  BY <1>1 DEF WindowInv, WlTyped, UiTyped, UiInv, UiIdle, UiStates
<1> QED
  BY <1>4, <1>5, <1>6 DEF WindowInv

(* A layer gets its surface, which joins the stack.                         *)
LEMMA AllocKeeps ==
  ASSUME WindowInv, NEW l \in Layers, AllocSurface(l)
  PROVE  WindowInv'
<1>1. /\ surf' = [surf EXCEPT ![l] = [NoSurface EXCEPT !.alive = TRUE]]
      /\ uiAt' = [UiIdle EXCEPT !.pc = "restack", !.layer = l]
      /\ UNCHANGED <<kind, stack, presenters, wl, lock, commands, sent>> /\ UNCHANGED UiOthers
      /\ ~surf[l].alive /\ uiAt.pc = "idle"
  BY DEF AllocSurface, UiReady, UiOthers
<1>2. /\ surf \in LayerSurfaces /\ presenters \in PresenterStates
      /\ commands \in Seq(BOOLEAN) /\ sent \in [configures : Nat, requests : Nat]
  BY DEF WindowInv, SurfTyped, OutsideTyped
<1>3. surf'[l] \in LayerSurface /\ surf'[l].alive /\ ~surf'[l].shown
  BY <1>1, <1>2 DEF LayerSurfaces, LayerSurface, NoSurface
<1>4. \A k \in Layers : k # l => surf'[k] = surf[k]
  BY <1>1, <1>2 DEF LayerSurfaces
<1>5. surf' \in LayerSurfaces
  <2>1. [NoSurface EXCEPT !.alive = TRUE] \in LayerSurface
    BY DEF NoSurface, LayerSurface
  <2> QED
    BY <1>1, <1>2, <2>1 DEF LayerSurfaces
<1>6. /\ uiAt' \in UiStates /\ uiAt'.pc = "restack" /\ uiAt'.layer = l
  BY <1>1 DEF UiIdle, UiStates
<1>7. l \notin Stacked /\ Stacked' = Stacked /\ Stacked \subseteq Layers
  BY <1>1, StackedLayers DEF WindowInv, StackInv, Stacked
<1>8. StackInv'
  <2>1. \A k \in Layers : surf[k].alive /\ k \notin Stacked => FALSE
    BY <1>1 DEF WindowInv, StackInv
  <2>2. /\ IsInjective(stack)
        /\ \A k \in Stacked : surf[k].alive
        /\ \A k \in Layers : k \notin Stacked => ~presenters[k].made /\ ~surf[k].shown
        /\ kind = "dmabuf" => \A k \in Layers : ~presenters[k].made
    BY DEF WindowInv, StackInv
  <2> QED
    BY <1>1, <1>3, <1>4, <1>6, <1>7, <2>1, <2>2 DEF StackInv
<1>9. TransitionKept'
  BY <1>1, <1>3, <1>4, <1>7 DEF WindowInv, TransitionKept, TransitionShowsNothing, GatesOnlyInTransition
<1>10. SurfTyped' /\ WlTyped' /\ UiTyped' /\ UiInv'
  BY <1>1, <1>3, <1>5, <1>6, <1>7 DEF WindowInv, SurfTyped, WlTyped, UiTyped, UiInv
<1>11. OutsideTyped'
  BY <1>1, <1>2, OutsideStays
<1> QED
  BY <1>8, <1>9, <1>10, <1>11 DEF WindowInv

(* What a stack is after one more layer.                                    *)
LEMMA StackedOneMore ==
  ASSUME NEW s \in Seq(Layers), NEW l \in Layers, IsInjective(s), l \notin ToSet(s)
  PROVE  /\ Append(s, l) \in Seq(Layers) /\ IsInjective(Append(s, l))
         /\ ToSet(Append(s, l)) = ToSet(s) \cup {l}
<1>1. /\ Append(s, l) \in Seq(Layers) /\ DOMAIN s = 1..Len(s) /\ Len(s) \in Nat
      /\ DOMAIN Append(s, l) = 1..(Len(s) + 1) /\ Append(s, l)[Len(s) + 1] = l
      /\ \A i \in 1..Len(s) : Append(s, l)[i] = s[i]
  OBVIOUS
<1>2. \A i \in 1..Len(s) : s[i] # l
  BY <1>1 DEF ToSet
<1>3. \A i \in 1..(Len(s) + 1) : i \in 1..Len(s) \/ i = Len(s) + 1
  BY <1>1
<1>4. IsInjective(Append(s, l))
  BY <1>1, <1>2, <1>3 DEF IsInjective
<1>5. ToSet(Append(s, l)) = ToSet(s) \cup {l}
  <2>1. ASSUME NEW x \in ToSet(Append(s, l)) PROVE x \in ToSet(s) \cup {l}
    BY <1>1, <1>3 DEF ToSet
  <2>2. ASSUME NEW x \in ToSet(s) PROVE x \in ToSet(Append(s, l))
    BY <1>1 DEF ToSet
  <2>3. l \in ToSet(Append(s, l))
    <3>1. Len(s) + 1 \in 1..(Len(s) + 1)
      BY <1>1
    <3> QED
      BY <1>1, <3>1 DEF ToSet
  <2> QED
    BY <2>1, <2>2, <2>3
<1> QED
  BY <1>1, <1>4, <1>5

LEMMA RestackKeeps ==
  ASSUME WindowInv, Restack
  PROVE  WindowInv'
<1> DEFINE l == uiAt.layer
<1>1. /\ stack' = Append(stack, l) /\ uiAt' = UiIdle /\ uiAt.pc = "restack"
      /\ UNCHANGED <<kind, surf, presenters, wl, lock, commands, sent>> /\ UNCHANGED UiOthers
  BY DEF Restack, UiOthers
<1>2. /\ stack \in Seq(Layers) /\ IsInjective(stack)
      /\ commands \in Seq(BOOLEAN) /\ sent \in [configures : Nat, requests : Nat]
  BY DEF WindowInv, SurfTyped, OutsideTyped, StackInv
<1>3. l \in Layers /\ l \notin Stacked /\ surf[l].alive /\ ~presenters[l].made
  BY <1>1 DEF WindowInv, UiInv, StackInv
<1>4. stack' \in Seq(Layers) /\ IsInjective(stack') /\ Stacked' = Stacked \cup {l}
  BY <1>1, <1>2, <1>3, StackedOneMore DEF Stacked
<1>5. uiAt' \in UiStates /\ uiAt'.pc = "idle"
  BY <1>1 DEF UiIdle, UiStates
<1>6. StackInv'
  <2>1. \A k \in Layers : surf[k].alive /\ k \notin Stacked => k = l
    BY <1>1 DEF WindowInv, StackInv
  <2>2. /\ \A k \in Stacked : surf[k].alive
        /\ \A k \in Layers : k \notin Stacked => ~presenters[k].made /\ ~surf[k].shown
        /\ kind = "dmabuf" => \A k \in Layers : ~presenters[k].made
    BY DEF WindowInv, StackInv
  <2> QED
    BY <1>1, <1>3, <1>4, <2>1, <2>2 DEF StackInv
<1>7. TransitionKept'
  BY <1>1, <1>3, <1>4 DEF WindowInv, TransitionKept, TransitionShowsNothing, GatesOnlyInTransition
<1>8. SurfTyped' /\ WlTyped' /\ UiTyped' /\ UiInv'
  BY <1>1, <1>4, <1>5 DEF WindowInv, SurfTyped, WlTyped, UiTyped, UiInv
<1>9. OutsideTyped'
  BY <1>1, <1>2, OutsideStays
<1> QED
  BY <1>6, <1>7, <1>8, <1>9 DEF WindowInv

(* A surface is resized, or a paint takes the mutex.                        *)
LEMMA ResizeKeeps ==
  ASSUME WindowInv, NEW l \in Layers, NEW n \in TellingSizes, SurfaceResize(l, n)
  PROVE  WindowInv'
<1>1. /\ surf' = [surf EXCEPT ![l] = Sized(surf[l], n)]
      /\ UNCHANGED <<kind, stack, presenters, wl, lock, uiAt, commands, sent>> /\ UNCHANGED UiOthers
  BY DEF SurfaceResize, UiOthers
<1>2. /\ surf \in LayerSurfaces /\ n \in Sizes
      /\ commands \in Seq(BOOLEAN) /\ sent \in [configures : Nat, requests : Nat]
  BY WindowAssumption DEF WindowInv, SurfTyped, OutsideTyped, TellingSizes, AnySize
<1>3. /\ Sized(surf[l], n) \in LayerSurface
      /\ Sized(surf[l], n).alive = surf[l].alive /\ Sized(surf[l], n).shown = surf[l].shown
  <2>1. surf[l] \in LayerSurface
    BY <1>2 DEF LayerSurfaces
  <2> QED
    BY <1>2, <2>1 DEF Sized, LayerSurface
<1>4. surf' \in LayerSurfaces /\ \A k \in Layers : surf'[k].alive = surf[k].alive /\ surf'[k].shown = surf[k].shown
  BY <1>1, <1>2, <1>3 DEF LayerSurfaces
<1>5. \A k \in Layers : Alike(k)
  BY <1>1, <1>4 DEF Alike
<1>6. StackInv' /\ Stacked' = Stacked
  BY <1>1, <1>5, StackKept
<1>7. TransitionKept'
  BY <1>1, <1>4, <1>6 DEF WindowInv, TransitionKept, TransitionShowsNothing, GatesOnlyInTransition
<1>8. SurfTyped' /\ WlTyped' /\ UiTyped' /\ UiInv'
  BY <1>1, <1>4, <1>6 DEF WindowInv, SurfTyped, WlTyped, UiTyped, UiInv
<1>9. OutsideTyped'
  BY <1>1, <1>2, OutsideStays
<1> QED
  BY <1>6, <1>7, <1>8, <1>9 DEF WindowInv

LEMMA LockKeeps ==
  ASSUME WindowInv, NEW l \in Layers, NEW n \in TellingSizes, LockForPaint(l, n)
  PROVE  WindowInv'
<1>1. /\ lock' = "ui" /\ uiAt' = [UiIdle EXCEPT !.pc = "paint", !.layer = l, !.frame = n]
      /\ UNCHANGED <<kind, stack, surf, presenters, wl, commands, sent>> /\ UNCHANGED UiOthers
      /\ surf[l].alive /\ uiAt.pc = "idle"
  BY DEF LockForPaint, UiOthers, UiReady
<1>2. /\ n \in Sizes /\ commands \in Seq(BOOLEAN) /\ sent \in [configures : Nat, requests : Nat]
  BY WindowAssumption DEF WindowInv, OutsideTyped, TellingSizes, AnySize
<1>3. SurfTyped' /\ StackInv' /\ TransitionKept' /\ Stacked' = Stacked
  BY <1>1, PictureStays
<1>4. l \in Stacked
  BY <1>1 DEF WindowInv, StackInv
<1>5. uiAt' \in UiStates /\ uiAt'.pc = "paint" /\ uiAt'.layer = l
  BY <1>1, <1>2 DEF UiStates, UiIdle
<1>6. WlTyped' /\ UiTyped' /\ UiInv'
  BY <1>1, <1>3, <1>4, <1>5 DEF WindowInv, WlTyped, UiTyped, UiInv
<1>7. OutsideTyped'
  BY <1>1, <1>2, OutsideStays
<1> QED
  BY <1>3, <1>6, <1>7 DEF WindowInv

(* A frame is put on the surface, or queued to its worker.                  *)
LEMMA PresentKeeps ==
  ASSUME WindowInv, Present
  PROVE  WindowInv'
<1> DEFINE l == uiAt.layer
<1>1. /\ uiAt.pc = "paint" /\ lock' = "free" /\ uiAt' = UiIdle
      /\ UNCHANGED <<kind, stack, commands, sent>> /\ UNCHANGED UiOthers
  BY DEF Present, UiOthers
<1>2. /\ surf \in LayerSurfaces /\ presenters \in PresenterStates /\ wl \in WlStates
      /\ kind \in {"dmabuf", "shm", "gpu"} /\ stack \in Seq(Layers)
      /\ commands \in Seq(BOOLEAN) /\ sent \in [configures : Nat, requests : Nat]
  BY DEF WindowInv, SurfTyped, WlTyped, OutsideTyped
<1>3. l \in Stacked /\ l \in Layers /\ surf[l] \in LayerSurface /\ presenters[l] \in PresenterState
      /\ Stacked' = Stacked /\ Stacked \subseteq Layers
  BY <1>1, <1>2, StackedLayers DEF WindowInv, UiInv, LayerSurfaces, PresenterStates, Stacked
<1> HIDE DEF l
<1>4. /\ IsInjective(stack)
      /\ \A k \in Stacked : surf[k].alive
      /\ \A k \in Layers : k \notin Stacked => ~presenters[k].made /\ ~surf[k].shown
      /\ \A k \in Layers : surf[k].alive => k \in Stacked
      /\ kind = "dmabuf" => \A k \in Layers : ~presenters[k].made
  BY <1>1 DEF WindowInv, StackInv
<1>5. uiAt' \in UiStates /\ uiAt'.pc = "idle" /\ UiTyped' /\ UiInv'
  BY <1>1 DEF UiIdle, UiStates, UiTyped, UiInv
<1>6. OutsideTyped'
  BY <1>1, <1>2, OutsideStays
<1>7. CASE kind = "dmabuf"
  <2>1. presenters' = presenters
    BY <1>7 DEF Present
  <2>2. \/ UNCHANGED <<surf, wl>>
        \/ surf' = [surf EXCEPT ![l] = Unmapped(surf[l])] /\ UNCHANGED wl
        \/ /\ surf' = [surf EXCEPT ![l].shown = TRUE, ![l].null = FALSE]
           /\ wl' = [wl EXCEPT !.transitioning = FALSE] /\ wl.mode # "Drop"
    BY <1>7 DEF Present, PresentDmabuf, l
  <2>3. CASE UNCHANGED <<surf, wl>>
    <3>1. SurfTyped' /\ StackInv' /\ TransitionKept'
      BY <1>1, <2>1, <2>3, PictureStays
    <3> QED
      BY <1>1, <1>2, <1>5, <1>6, <2>3, <3>1 DEF WindowInv, WlTyped
  <2>4. CASE surf' = [surf EXCEPT ![l] = Unmapped(surf[l])] /\ UNCHANGED wl
    <3>1. Unmapped(surf[l]) \in LayerSurface /\ Unmapped(surf[l]).alive = surf[l].alive
          /\ ~Unmapped(surf[l]).shown
      BY <1>3 DEF Unmapped, LayerSurface
    <3>2. /\ surf' \in LayerSurfaces
          /\ \A k \in Layers : surf'[k].alive = surf[k].alive /\ (~surf[k].shown => ~surf'[k].shown)
      BY <1>2, <1>3, <2>4, <3>1 DEF LayerSurfaces
    <3>3. SurfTyped' /\ WlTyped'
      BY <1>1, <1>2, <2>1, <2>4, <3>2 DEF SurfTyped, WlTyped
    <3>4. StackInv'
      BY <1>1, <1>3, <1>4, <2>1, <3>2 DEF StackInv
    <3>5. TransitionKept'
      BY <1>1, <1>3, <2>1, <2>4, <3>2
         DEF WindowInv, TransitionKept, TransitionShowsNothing, GatesOnlyInTransition
    <3> QED
      BY <1>5, <1>6, <3>3, <3>4, <3>5 DEF WindowInv
  <2>5. CASE /\ surf' = [surf EXCEPT ![l].shown = TRUE, ![l].null = FALSE]
             /\ wl' = [wl EXCEPT !.transitioning = FALSE] /\ wl.mode # "Drop"
    <3>1. wl' \in WlStates /\ ~wl'.transitioning /\ wl'.mode = "Attach"
      BY <1>2, <2>5 DEF WlStates
    <3>2. surf' = [surf EXCEPT ![l] = [surf[l] EXCEPT !.shown = TRUE, !.null = FALSE]]
      BY <1>2, <1>3, <2>5 DEF LayerSurfaces
    <3>3. [surf[l] EXCEPT !.shown = TRUE, !.null = FALSE] \in LayerSurface
          /\ [surf[l] EXCEPT !.shown = TRUE, !.null = FALSE].alive = surf[l].alive
      BY <1>3 DEF LayerSurface
    <3>4. /\ surf' \in LayerSurfaces
          /\ \A k \in Layers : surf'[k].alive = surf[k].alive /\ (k # l => surf'[k] = surf[k])
      BY <1>2, <1>3, <3>2, <3>3 DEF LayerSurfaces
    <3>5. SurfTyped' /\ WlTyped'
      BY <1>1, <1>2, <2>1, <3>1, <3>4 DEF SurfTyped, WlTyped
    <3>6. StackInv'
      BY <1>1, <1>3, <1>4, <2>1, <3>4 DEF StackInv
    <3>7. TransitionKept'
      BY <1>1, <1>3, <1>4, <1>7, <2>1, <3>1
         DEF TransitionKept, TransitionShowsNothing, GatesOnlyInTransition
    <3> QED
      BY <1>5, <1>6, <3>5, <3>6, <3>7 DEF WindowInv
  <2> QED
    BY <2>2, <2>3, <2>4, <2>5
<1>8. CASE kind # "dmabuf"
  <2>1. /\ wl' = wl
        /\ presenters' = presenters \/ presenters' =
             [presenters EXCEPT ![l] = [presenters[l] EXCEPT !.made = TRUE, !.visible = TRUE, !.pending = TRUE]]
        /\ surf' = surf \/ surf' = [surf EXCEPT ![l].null = FALSE]
    BY <1>8 DEF Present, PresentSoftware, l
  <2>2. /\ presenters' \in PresenterStates
        /\ \A k \in Layers : k # l => presenters'[k] = presenters[k]
        /\ presenters'[l] = presenters[l] \/ presenters'[l].visible
    <3>1. CASE presenters' = presenters
      BY <1>2, <3>1
    <3>2. CASE presenters' =
                 [presenters EXCEPT ![l] = [presenters[l] EXCEPT !.made = TRUE, !.visible = TRUE, !.pending = TRUE]]
      <4>1. [presenters[l] EXCEPT !.made = TRUE, !.visible = TRUE, !.pending = TRUE] \in PresenterState
            /\ [presenters[l] EXCEPT !.made = TRUE, !.visible = TRUE, !.pending = TRUE].visible
        BY <1>3 DEF PresenterState
      <4> QED
        BY <1>2, <1>3, <3>2, <4>1 DEF PresenterStates
    <3> QED
      BY <2>1, <3>1, <3>2
  <2>3. /\ surf' \in LayerSurfaces
        /\ \A k \in Layers : surf'[k].alive = surf[k].alive /\ surf'[k].shown = surf[k].shown
    <3>1. CASE surf' = surf
      BY <1>2, <3>1
    <3>2. CASE surf' = [surf EXCEPT ![l].null = FALSE]
      <4>1. [surf[l] EXCEPT !.null = FALSE] \in LayerSurface
            /\ [surf[l] EXCEPT !.null = FALSE].alive = surf[l].alive
            /\ [surf[l] EXCEPT !.null = FALSE].shown = surf[l].shown
        BY <1>3 DEF LayerSurface
      <4>2. surf' = [surf EXCEPT ![l] = [surf[l] EXCEPT !.null = FALSE]]
        BY <1>2, <1>3, <3>2 DEF LayerSurfaces
      <4> QED
        BY <1>2, <1>3, <4>1, <4>2 DEF LayerSurfaces
    <3> QED
      BY <2>1, <3>1, <3>2
  <2>4. SurfTyped' /\ WlTyped'
    BY <1>1, <1>2, <2>1, <2>2, <2>3 DEF SurfTyped, WlTyped
  <2>5. StackInv'
    BY <1>1, <1>3, <1>4, <1>8, <2>2, <2>3 DEF StackInv
  <2>6. TransitionKept'
    <3>1. TransitionShowsNothing'
      BY <1>1, <1>8 DEF TransitionShowsNothing
    <3>2. GatesOnlyInTransition'
      BY <1>3, <2>1, <2>2 DEF WindowInv, TransitionKept, GatesOnlyInTransition
    <3> QED
      BY <3>1, <3>2 DEF TransitionKept
  <2> QED
    BY <1>5, <1>6, <2>4, <2>5, <2>6 DEF WindowInv
<1> QED
  BY <1>7, <1>8

WindowStacks == Seq(Layers)

(* What is in a queue that follows another.                                 *)
LEMMA ConcatItems ==
  ASSUME NEW S, NEW s \in Seq(S), NEW t \in Seq(S)
  PROVE  /\ s \o t \in Seq(S) /\ Len(s \o t) = Len(s) + Len(t)
         /\ \A i \in 1..Len(s \o t) : (s \o t)[i] = IF i <= Len(s) THEN s[i] ELSE t[i - Len(s)]
OBVIOUS

(* A stack without one of its layers, which it names once.                  *)
LEMMA WithoutIts ==
  ASSUME NEW S, NEW s \in Seq(S), NEW i \in 1..Len(s), IsInjective(s)
  PROVE  RemoveFirst(s, s[i]) = SubSeq(s, 1, i - 1) \o SubSeq(s, i + 1, Len(s))
<1> DEFINE at == {j \in 1..Len(s) : s[j] = s[i]}
<1>1. at = {i}
  BY DEF IsInjective
<1>2. SelectInSeq(s, LAMBDA v : v = s[i]) = i
  <2>1. (CHOOSE x \in at : \A y \in at : x <= y) = i
    BY <1>1
  <2> QED
    BY <1>1, <2>1 DEF SelectInSeq, Min
<1> QED
  BY <1>1, <1>2 DEF RemoveFirst, RemoveAt

(* RemoveFirst takes a layer out of the stack, and leaves the others.       *)
LEMMA WithoutOne ==
  ASSUME NEW s \in WindowStacks, NEW l \in Layers, IsInjective(s)
  PROVE  /\ RemoveFirst(s, l) \in WindowStacks /\ IsInjective(RemoveFirst(s, l))
         /\ ToSet(RemoveFirst(s, l)) = ToSet(s) \ {l}
<1>1. CASE \E i \in 1..Len(s) : s[i] = l
  <2>1. PICK i \in 1..Len(s) : s[i] = l
    BY <1>1
  <2> DEFINE r == RemoveFirst(s, l)
  <2>2. r = SubSeq(s, 1, i - 1) \o SubSeq(s, i + 1, Len(s))
    BY <2>1, WithoutIts DEF WindowStacks
  <2>3. /\ r \in Seq(Layers) /\ Len(r) = Len(s) - 1
        /\ \A j \in 1..Len(r) : r[j] = IF j < i THEN s[j] ELSE s[j + 1]
    <3> DEFINE a == SubSeq(s, 1, i - 1)
               b == SubSeq(s, i + 1, Len(s))
    <3>1. /\ a \in Seq(Layers) /\ Len(a) = i - 1 /\ \A j \in 1..(i - 1) : a[j] = s[j]
      BY DEF WindowStacks
    <3>2. /\ b \in Seq(Layers) /\ Len(b) = Len(s) - i
          /\ \A j \in 1..(Len(s) - i) : b[j] = s[i + j]
      BY DEF WindowStacks
    <3>3. r = a \o b
      BY <2>2
    <3> HIDE DEF a, b, r
    <3>4. /\ r \in Seq(Layers) /\ Len(r) = Len(a) + Len(b)
          /\ \A j \in 1..Len(r) : r[j] = IF j <= Len(a) THEN a[j] ELSE b[j - Len(a)]
      BY <3>1, <3>2, <3>3, ConcatItems
    <3>5. Len(s) \in Nat /\ Len(r) = Len(s) - 1
      BY <3>1, <3>2, <3>4 DEF WindowStacks
    <3>6. ASSUME NEW j \in 1..Len(r) PROVE r[j] = IF j < i THEN s[j] ELSE s[j + 1]
      <4>1. CASE j < i
        BY <3>1, <3>4, <3>5, <4>1
      <4>2. CASE ~(j < i)
        <5>1. /\ j - (i - 1) \in 1..(Len(s) - i) /\ i + (j - (i - 1)) = j + 1
              /\ ~(j <= i - 1)
          BY <3>5, <4>2
        <5> QED
          BY <3>1, <3>2, <3>4, <4>2, <5>1
      <4> QED
        BY <4>1, <4>2
    <3> QED
      BY <3>4, <3>5, <3>6
  <2> HIDE DEF r
  <2>4. DOMAIN r = 1..Len(r) /\ DOMAIN s = 1..Len(s)
    BY <2>3 DEF WindowStacks
  <2>5. IsInjective(r)
    <3>1. SUFFICES ASSUME NEW j \in 1..Len(r), NEW k \in 1..Len(r), r[j] = r[k] PROVE j = k
      BY <2>4 DEF IsInjective
    <3> DEFINE at(n) == IF n < i THEN n ELSE n + 1
    <3>2. Len(s) \in Nat
      BY DEF WindowStacks
    <3>3. at(j) \in 1..Len(s) /\ at(k) \in 1..Len(s)
      BY <2>3, <3>2
    <3>4. s[at(j)] = s[at(k)]
      BY <2>3, <3>1
    <3>5. at(j) = at(k)
      BY <2>4, <3>3, <3>4 DEF IsInjective
    <3> QED
      BY <3>5
  <2>6. ASSUME NEW m \in ToSet(r) PROVE m \in ToSet(s) \ {l}
    <3>1. PICK j \in 1..Len(r) : r[j] = m
      BY <2>4 DEF ToSet
    <3>2. PICK k \in 1..Len(s) : s[k] = m /\ k # i
      BY <2>3, <3>1 DEF WindowStacks
    <3>3. m # l
      BY <2>1, <2>4, <3>2 DEF IsInjective
    <3> QED
      BY <2>4, <3>2, <3>3 DEF ToSet
  <2>7. ASSUME NEW m \in ToSet(s) \ {l} PROVE m \in ToSet(r)
    <3>1. PICK k \in 1..Len(s) : s[k] = m
      BY <2>4, <2>7 DEF ToSet
    <3>2. k # i
      BY <2>1, <2>7, <3>1
    <3>3. PICK j \in 1..Len(r) : r[j] = m
      <4>1. CASE k < i
        BY <2>3, <3>1, <4>1 DEF WindowStacks
      <4>2. CASE k > i
        <5>1. k - 1 \in 1..Len(r) /\ ~(k - 1 < i) /\ (k - 1) + 1 = k
          BY <2>3, <4>2 DEF WindowStacks
        <5>2. r[k - 1] = m
          BY <2>3, <3>1, <5>1
        <5> QED
          BY <5>1, <5>2
      <4> QED
        BY <3>2, <4>1, <4>2
    <3> QED
      BY <2>4, <3>3 DEF ToSet
  <2> QED
    BY <2>3, <2>5, <2>6, <2>7 DEF WindowStacks, r
<1>2. CASE ~ \E i \in 1..Len(s) : s[i] = l
  <2>1. RemoveFirst(s, l) = s
    BY <1>2 DEF RemoveFirst
  <2>2. l \notin ToSet(s)
    BY <1>2 DEF ToSet, WindowStacks
  <2> QED
    BY <2>1, <2>2
<1> QED
  BY <1>1, <1>2

(* A surface is freed: its worker first, then the surface.                  *)
LEMMA FreeTakeKeeps ==
  ASSUME WindowInv, NEW l \in Layers, FreeTakeWorker(l)
  PROVE  WindowInv'
<1>1. /\ presenters' = [presenters EXCEPT ![l].shutdown = TRUE, ![l].pending = FALSE]
      /\ uiAt' = [UiIdle EXCEPT !.pc = "join", !.layer = l]
      /\ UNCHANGED <<kind, stack, surf, wl, lock, commands, sent>> /\ UNCHANGED UiOthers
      /\ uiAt.pc = "idle"
  BY DEF FreeTakeWorker, UiReady, UiOthers
<1>2. /\ surf \in LayerSurfaces /\ presenters \in PresenterStates
      /\ commands \in Seq(BOOLEAN) /\ sent \in [configures : Nat, requests : Nat]
  BY DEF WindowInv, SurfTyped, OutsideTyped
<1>3. presenters' = [presenters EXCEPT ![l] = [presenters[l] EXCEPT !.shutdown = TRUE, !.pending = FALSE]]
  BY <1>1, <1>2 DEF PresenterStates
<1>4. presenters' \in PresenterStates
      /\ \A k \in Layers : /\ presenters'[k].made = presenters[k].made
                           /\ presenters'[k].visible = presenters[k].visible
  <2> DEFINE p == [presenters[l] EXCEPT !.shutdown = TRUE, !.pending = FALSE]
  <2>1. presenters[l] \in PresenterState
    BY <1>2 DEF PresenterStates
  <2>2. p \in PresenterState /\ p.made = presenters[l].made /\ p.visible = presenters[l].visible
    BY <2>1 DEF PresenterState
  <2> HIDE DEF p
  <2>3. presenters' = [presenters EXCEPT ![l] = p]
    BY <1>3 DEF p
  <2> QED
    BY <1>2, <2>2, <2>3 DEF PresenterStates
<1>5. \A k \in Layers : Alike(k)
  BY <1>1, <1>4 DEF Alike
<1>6. StackInv' /\ Stacked' = Stacked /\ Stacked \subseteq Layers
  BY <1>1, <1>5, StackKept
<1>7. TransitionKept'
  BY <1>1, <1>4, <1>6 DEF WindowInv, TransitionKept, TransitionShowsNothing, GatesOnlyInTransition
<1>8. uiAt' \in UiStates /\ uiAt'.pc = "join" /\ uiAt'.layer = l
  BY <1>1 DEF UiIdle, UiStates
<1>9. SurfTyped' /\ WlTyped' /\ UiTyped' /\ UiInv'
  BY <1>1, <1>4, <1>8 DEF WindowInv, SurfTyped, WlTyped, UiTyped, UiInv
<1>10. OutsideTyped'
  BY <1>1, <1>2, OutsideStays
<1> QED
  BY <1>6, <1>7, <1>9, <1>10 DEF WindowInv

LEMMA FreeSurfaceKeeps ==
  ASSUME WindowInv, FreeSurface
  PROVE  WindowInv'
<1> DEFINE l == uiAt.layer
<1>1. /\ stack' = RemoveFirst(stack, l) /\ surf' = [surf EXCEPT ![l] = NoSurface]
      /\ presenters' = [presenters EXCEPT ![l] = NoWorker]
      /\ uiAt' = UiIdle /\ uiAt.pc = "join"
      /\ UNCHANGED <<kind, wl, lock, commands, sent>> /\ UNCHANGED UiOthers
  BY DEF FreeSurface, UiOthers
<1>2. /\ surf \in LayerSurfaces /\ presenters \in PresenterStates /\ stack \in WindowStacks
      /\ commands \in Seq(BOOLEAN) /\ sent \in [configures : Nat, requests : Nat]
      /\ IsInjective(stack) /\ l \in Layers
  BY <1>1 DEF WindowInv, SurfTyped, OutsideTyped, StackInv, UiInv, WindowStacks
<1> HIDE DEF l
<1>3. stack' \in Seq(Layers) /\ IsInjective(stack') /\ Stacked' = Stacked \ {l} /\ Stacked \subseteq Layers
  BY <1>1, <1>2, WithoutOne, StackedLayers DEF Stacked, WindowStacks
<1>4. /\ surf' \in LayerSurfaces /\ ~surf'[l].alive /\ ~surf'[l].shown
      /\ \A k \in Layers : k # l => surf'[k] = surf[k]
  BY <1>1, <1>2 DEF LayerSurfaces, LayerSurface, NoSurface
<1>5. /\ presenters' \in PresenterStates /\ ~presenters'[l].made
      /\ \A k \in Layers : k # l => presenters'[k] = presenters[k]
  BY <1>1, <1>2 DEF PresenterStates, PresenterState, NoWorker
<1>6. uiAt' \in UiStates /\ uiAt'.pc = "idle"
  BY <1>1 DEF UiIdle, UiStates
<1>7. StackInv'
  <2>1. /\ \A k \in Stacked : surf[k].alive
        /\ \A k \in Layers : k \notin Stacked => ~presenters[k].made /\ ~surf[k].shown /\ ~surf[k].alive
        /\ kind = "dmabuf" => \A k \in Layers : ~presenters[k].made
    BY <1>1 DEF WindowInv, StackInv
  <2> QED
    BY <1>1, <1>3, <1>4, <1>5, <2>1 DEF StackInv
<1>8. TransitionKept'
  BY <1>1, <1>3, <1>4, <1>5 DEF WindowInv, TransitionKept, TransitionShowsNothing, GatesOnlyInTransition
<1>9. SurfTyped' /\ WlTyped' /\ UiTyped' /\ UiInv'
  BY <1>1, <1>3, <1>4, <1>5, <1>6 DEF WindowInv, SurfTyped, WlTyped, UiTyped, UiInv
<1>10. OutsideTyped'
  BY <1>1, <1>2, OutsideStays
<1> QED
  BY <1>7, <1>8, <1>9, <1>10 DEF WindowInv

(* The presenter workers.                                                   *)
LEMMA WorkerKeeps ==
  ASSUME WindowInv, WorkerAction
  PROVE  WindowInv'
<1>1. PICK l \in Layers : PresenterTake(l) \/ WorkerCommit(l)
  BY DEF WorkerAction
<1>2. /\ UNCHANGED <<kind, stack, wl, lock, uiAt, commands, sent>> /\ UNCHANGED UiOthers
      /\ presenters[l].made
  BY <1>1 DEF PresenterTake, WorkerCommit, WorkerOthers, UiOthers
<1>3. /\ surf \in LayerSurfaces /\ presenters \in PresenterStates /\ stack \in Seq(Layers)
      /\ presenters[l] \in PresenterState /\ surf[l] \in LayerSurface
      /\ commands \in Seq(BOOLEAN) /\ sent \in [configures : Nat, requests : Nat]
  BY DEF WindowInv, SurfTyped, OutsideTyped, PresenterStates, LayerSurfaces
<1>4. l \in Stacked /\ kind # "dmabuf" /\ Stacked' = Stacked /\ Stacked \subseteq Layers
  BY <1>2, StackedLayers DEF WindowInv, StackInv, Stacked
<1>5. PICK p \in PresenterState : /\ presenters' = [presenters EXCEPT ![l] = p]
                                  /\ p.visible = presenters[l].visible
  <2>1. CASE PresenterTake(l) /\ presenters[l].shutdown
    <3>1. presenters' = [presenters EXCEPT ![l] = [presenters[l] EXCEPT !.made = FALSE]]
      BY <1>3, <2>1 DEF PresenterTake, PresenterStates
    <3>2. [presenters[l] EXCEPT !.made = FALSE] \in PresenterState
          /\ [presenters[l] EXCEPT !.made = FALSE].visible = presenters[l].visible
      BY <1>3 DEF PresenterState
    <3> QED
      BY <3>1, <3>2
  <2>2. CASE PresenterTake(l) /\ ~presenters[l].shutdown
    <3>1. presenters' = [presenters EXCEPT ![l] = [presenters[l] EXCEPT
                             !.pending = FALSE, !.frame = presenters[l].visible]]
      BY <1>3, <2>2 DEF PresenterTake, PresenterStates
    <3>2. [presenters[l] EXCEPT !.pending = FALSE, !.frame = presenters[l].visible] \in PresenterState
          /\ [presenters[l] EXCEPT !.pending = FALSE, !.frame = presenters[l].visible].visible = presenters[l].visible
      BY <1>3 DEF PresenterState
    <3> QED
      BY <3>1, <3>2
  <2>3. CASE WorkerCommit(l)
    <3>1. presenters' = [presenters EXCEPT ![l] = [presenters[l] EXCEPT !.frame = FALSE]]
      BY <1>3, <2>3 DEF WorkerCommit, PresenterStates
    <3>2. [presenters[l] EXCEPT !.frame = FALSE] \in PresenterState
          /\ [presenters[l] EXCEPT !.frame = FALSE].visible = presenters[l].visible
      BY <1>3 DEF PresenterState
    <3> QED
      BY <3>1, <3>2
  <2> QED
    BY <1>1, <2>1, <2>2, <2>3
<1>6. /\ surf' \in LayerSurfaces
      /\ \A k \in Layers : surf'[k].alive = surf[k].alive /\ (k # l => surf'[k] = surf[k])
  <2>1. CASE PresenterTake(l)
    BY <1>3, <2>1 DEF PresenterTake
  <2>2. CASE WorkerCommit(l)
    <3>1. surf' = [surf EXCEPT ![l] = [surf[l] EXCEPT !.shown = TRUE]]
      BY <1>3, <2>2 DEF WorkerCommit, LayerSurfaces
    <3>2. [surf[l] EXCEPT !.shown = TRUE] \in LayerSurface
          /\ [surf[l] EXCEPT !.shown = TRUE].alive = surf[l].alive
      BY <1>3 DEF LayerSurface
    <3> QED
      BY <1>3, <3>1, <3>2 DEF LayerSurfaces
  <2> QED
    BY <1>1, <2>1, <2>2
<1>7. /\ presenters' \in PresenterStates
      /\ \A k \in Layers : /\ k # l => presenters'[k] = presenters[k]
                           /\ presenters'[k].visible = presenters[k].visible
  BY <1>3, <1>5 DEF PresenterStates
<1>8. StackInv'
  BY <1>2, <1>4, <1>6, <1>7 DEF WindowInv, StackInv
<1>9. TransitionKept'
  <2>1. GatesOnlyInTransition
    BY DEF WindowInv, TransitionKept
  <2>2. presenters[l].made
    BY <1>2
  <2>3. GatesOnlyInTransition'
    BY <1>2, <1>4, <1>7, <2>1, <2>2 DEF GatesOnlyInTransition
  <2> QED
    BY <1>2, <1>4, <2>3 DEF TransitionKept, TransitionShowsNothing
<1>10. SurfTyped' /\ WlTyped' /\ UiTyped' /\ UiInv'
  BY <1>2, <1>4, <1>6, <1>7 DEF WindowInv, SurfTyped, WlTyped, UiTyped, UiInv
<1>11. OutsideTyped'
  BY <1>2, <1>3, OutsideStays
<1> QED
  BY <1>8, <1>9, <1>10, <1>11 DEF WindowInv

(* The main thread boots and tears down.                                    *)
LEMMA WindowMainKeeps ==
  ASSUME WindowInv, MainAction
  PROVE  WindowInv'
<1>1. /\ UNCHANGED <<kind, stack, surf, presenters, windowFs, proxy, commands, compFs, events,
                     mpvFs, echo, sent>>
      /\ mainAt' \in {"boot", "seeded", "run", "detached", "cef_down", "done"}
  BY DEF MainAction, SeedWasFullscreen, CoreInit, Detach, CefShutdown, MpvTeardown, WindowMainStep
<1>2. wl \in WlStates /\ lock \in {"free", "ui", "orphan"} /\ uiAt \in UiStates
      /\ callbacks \in BOOLEAN /\ mpvFs \in BOOLEAN
  BY DEF WindowInv, WlTyped, UiTyped, OutsideTyped
<1>3. /\ wl' \in WlStates /\ wl'.transitioning = wl.transitioning /\ wl'.mode = wl.mode
      /\ lock' \in {"free", "ui", "orphan"} /\ callbacks' \in BOOLEAN
      /\ uiAt' = uiAt \/ uiAt' = [UiIdle EXCEPT !.pc = "dead"]
  <2>1. CASE SeedWasFullscreen
    <3>1. wl' = wl \/ wl' = [wl EXCEPT !.wasFs = mpvFs]
      BY <2>1 DEF SeedWasFullscreen
    <3>2. [wl EXCEPT !.wasFs = mpvFs] \in WlStates
          /\ [wl EXCEPT !.wasFs = mpvFs].transitioning = wl.transitioning
          /\ [wl EXCEPT !.wasFs = mpvFs].mode = wl.mode
      BY <1>2 DEF WlStates
    <3> QED
      BY <1>2, <2>1, <3>1, <3>2 DEF SeedWasFullscreen
  <2>2. CASE CoreInit
    <3>1. wl' = [wl EXCEPT !.inited = TRUE]
      BY <2>2 DEF CoreInit
    <3>2. [wl EXCEPT !.inited = TRUE] \in WlStates
          /\ [wl EXCEPT !.inited = TRUE].transitioning = wl.transitioning
          /\ [wl EXCEPT !.inited = TRUE].mode = wl.mode
      BY <1>2 DEF WlStates
    <3> QED
      BY <1>2, <2>2, <3>1, <3>2 DEF CoreInit
  <2>3. CASE Detach \/ CefShutdown \/ MpvTeardown
    BY <1>2, <2>3 DEF Detach, CefShutdown, MpvTeardown
  <2> QED
    BY <2>1, <2>2, <2>3 DEF MainAction
<1>4. uiAt' \in UiStates /\ (uiAt' = uiAt \/ uiAt'.pc = "dead")
  BY <1>2, <1>3 DEF UiStates, UiIdle
<1>5. SurfTyped' /\ StackInv' /\ TransitionKept' /\ Stacked' = Stacked
  BY <1>1, <1>3, <1>4, PictureStays
<1>6. WlTyped' /\ UiTyped' /\ UiInv'
  BY <1>1, <1>3, <1>4, <1>5 DEF WindowInv, WlTyped, UiTyped, UiInv
<1>7. OutsideTyped'
  BY <1>1, <1>3 DEF WindowInv, OutsideTyped
<1> QED
  BY <1>5, <1>6, <1>7 DEF WindowInv

LEMMA WindowStart == WindowInit => WindowInv
<1> SUFFICES ASSUME WindowInit PROVE WindowInv
  OBVIOUS
<1>1. /\ kind \in {"dmabuf", "shm", "gpu"} /\ stack = <<>>
      /\ surf = [l \in Layers |-> NoSurface] /\ presenters = [l \in Layers |-> NoWorker]
      /\ wl = [inited |-> FALSE, wasFs |-> FALSE, transitioning |-> FALSE, mode |-> "Attach"]
      /\ lock = "free" /\ uiAt = UiIdle /\ windowFs = FALSE /\ callbacks = TRUE
      /\ proxy = ProxyIdle /\ commands = <<>> /\ compFs \in BOOLEAN
      /\ mpvFs = FALSE /\ echo = Absent /\ mainAt = "boot" /\ sent = [configures |-> 0, requests |-> 0]
  BY DEF WindowInit
<1>2. PICK n \in TellingSizes : events = <<[size |-> n, fs |-> compFs]>>
  BY DEF WindowInit
<1>3. n \in Sizes
  BY WindowAssumption DEF TellingSizes, AnySize
<1>4. [size |-> n, fs |-> compFs] \in Configure
  BY <1>1, <1>3 DEF Configure
<1>5. events \in Seq(Configure) /\ commands \in Seq(BOOLEAN) /\ stack \in Seq(Layers)
  BY <1>1, <1>2, <1>4
<1>6. NoSurface \in LayerSurface /\ NoWorker \in PresenterState
  BY DEF NoSurface, LayerSurface, NoWorker, PresenterState
<1>7. SurfTyped
  BY <1>1, <1>5, <1>6 DEF SurfTyped, LayerSurfaces, PresenterStates
<1>8. WlTyped /\ UiTyped /\ UiInv
  BY <1>1 DEF WlTyped, UiTyped, UiInv, WlStates, UiStates, UiIdle
<1>9. OutsideTyped
  <2>1. sent \in [configures : Nat, requests : Nat]
    BY <1>1
  <2> QED
    BY <1>1, <1>5, <2>1 DEF OutsideTyped, ProxyIdle, ProxyStates
<1>10. StackInv
  BY <1>1 DEF StackInv, Stacked, ToSet, IsInjective, NoSurface, NoWorker
<1>11. TransitionKept
  BY <1>1 DEF TransitionKept, TransitionShowsNothing, GatesOnlyInTransition, Stacked, ToSet
<1> QED
  BY <1>7, <1>8, <1>9, <1>10, <1>11 DEF WindowInv

LEMMA WindowSteps == WindowInv /\ [WindowNext]_windowVars => WindowInv'
<1> SUFFICES ASSUME WindowInv, [WindowNext]_windowVars PROVE WindowInv'
  OBVIOUS
<1>1. CASE CompositorConfigure \/ DrainCommand \/ ProxyConfigure \/ MpvFetch
  BY <1>1, QueuesKeep
<1>2. CASE OnConfigure
  BY <1>2, OnConfigureKeeps
<1>3. CASE MpvHandle
  BY <1>3, MpvHandleKeeps
<1>4. CASE UiStart
  <2>1. CASE ToggleFullscreen \/ \E v \in BOOLEAN : SetFullscreen(v)
    BY <2>1, FullscreenKeeps
  <2>2. ASSUME NEW l \in Layers, AllocSurface(l) PROVE WindowInv'
    BY <2>2, AllocKeeps
  <2>3. ASSUME NEW l \in Layers, FreeTakeWorker(l) PROVE WindowInv'
    BY <2>3, FreeTakeKeeps
  <2>4. ASSUME NEW l \in Layers, NEW n \in TellingSizes, SurfaceResize(l, n) PROVE WindowInv'
    BY <2>4, ResizeKeeps
  <2>5. ASSUME NEW l \in Layers, NEW n \in TellingSizes, LockForPaint(l, n) PROVE WindowInv'
    BY <2>5, LockKeeps
  <2> QED
    BY <1>4, <2>1, <2>2, <2>3, <2>4, <2>5 DEF UiStart
<1>5. CASE UiFinish
  BY <1>5, PushRequestKeeps, RestackKeeps, PresentKeeps, FreeSurfaceKeeps DEF UiFinish
<1>6. CASE WorkerAction
  BY <1>6, WorkerKeeps
<1>7. CASE MainAction
  BY <1>7, WindowMainKeeps
<1>8. CASE UNCHANGED windowVars
  <2>1. UNCHANGED <<kind, stack, surf, presenters, wl, lock, uiAt>>
    BY <1>8 DEF windowVars
  <2>2. SurfTyped' /\ StackInv' /\ TransitionKept' /\ Stacked' = Stacked
    BY <2>1, PictureStays
  <2>3. WlTyped' /\ UiTyped' /\ UiInv'
    BY <2>1, <2>2 DEF WindowInv, WlTyped, UiTyped, UiInv
  <2>4. OutsideTyped'
    BY <1>8 DEF windowVars, WindowInv, OutsideTyped
  <2> QED
    BY <2>2, <2>3, <2>4 DEF WindowInv
<1> QED
  BY <1>1, <1>2, <1>3, <1>4, <1>5, <1>6, <1>7, <1>8 DEF WindowNext, ProxyAction

LEMMA WindowAlways == WindowSpec => []WindowInv
<1>1. WindowSpec => WindowInit /\ [][WindowNext]_windowVars
  BY DEF WindowSpec
<1> QED
  BY <1>1, WindowStart, WindowSteps, PTL

(* The types of the window's state.                                         *)
THEOREM WindowTypeCorrect == WindowSpec => []WindowTypeOK
<1>1. WindowInv => WindowTypeOK
  BY DEF WindowInv, SurfTyped, WlTyped, UiTyped, OutsideTyped, LayerSurfaces, LayerSurface,
         PresenterStates, PresenterState, WlStates, UiStates, ProxyStates, WindowTypeOK
<1> QED
  BY <1>1, WindowAlways, PTL

(* Whatever the order of fullscreen requests, configures and paints: while  *)
(* a transition is on no dmabuf frame is on any layer, and what ends it     *)
(* opens every gate (wl_state.rs and wl_ops.rs: begin_transition,           *)
(* end_transition, on_configure, surface_present).                          *)
THEOREM TransitionCorrect == WindowSpec => []TransitionKept
<1>1. WindowInv => TransitionKept
  BY DEF WindowInv
<1> QED
  BY <1>1, WindowAlways, PTL

-----------------------------------------------------------------------------
(* PaintWorkers. *)

WorkerQueue == [pending : Frame \cup {NoFrame}, frameSize : FrameSizes \cup {0},
                visible : BOOLEAN, shutdown : BOOLEAN]
WorkerThread == [pc : {"none", "check", "wait", "present", "ended"},
                 hand : Frame \cup {NoFrame}, image : Image]
Queues == [Workers -> WorkerQueue]
Threads == [Workers -> WorkerThread]

(* The types, by name.                                                      *)
PageTyped == presenter \in Presenters /\ page \in Image /\ submit \in Frame \cup {NoFrame}
WorkersTyped == queue \in Queues /\ thread \in Threads
ScreenTyped ==
  /\ screen \in Image /\ gpuFailed \in BOOLEAN
  /\ surface \in {"alive", "freeing", "gone"} /\ gated \in BOOLEAN
  /\ paintUsed \in [paints : Nat, gates : Nat, dropped : BOOLEAN]

(* Pixels not newer than others, on every tile.                             *)
Under(a, b) == \A t \in Tiles : a.tiles[t] <= b.tiles[t]
Positive(a) == \A t \in Tiles : a.tiles[t] > 0

(* Who works: the target, and nobody beside it.                             *)
TargetInv ==
  /\ gpuFailed => presenter = "x11_gpu"
  /\ \A w \in Workers : w # Target => thread[w].pc \in {"none", "ended"}
  /\ \A w \in Workers : thread[w].pc = "present" <=> thread[w].hand # NoFrame
  /\ submit # NoFrame /\ ~gpuFailed => submit.to = Target
  /\ submit # NoFrame => submit.tiles = page.tiles
  /\ presenter = "x11_gpu" /\ ~gpuFailed =>
       queue["shm"].pending = NoFrame /\ thread["shm"].hand = NoFrame

(* The screen, the image, the frame in hand, the frame queued and the page  *)
(* are each at least as new as the one before.                              *)
PagesAge == \A t \in Tiles : page.tiles[t] <= paintUsed.paints
Chain(w) ==
  /\ Under(screen, page)
  /\ queue[w].pending # NoFrame =>
       Under(queue[w].pending, page) /\ Under(screen, queue[w].pending)
  /\ thread[w].hand # NoFrame =>
       Under(thread[w].hand, page) /\ Under(screen, thread[w].hand)
  /\ queue[w].pending # NoFrame /\ thread[w].hand # NoFrame =>
       Under(thread[w].hand, queue[w].pending)
AgeInv == PagesAge /\ Chain(Target)

(* The image a worker builds on is what the screen shows; the texture of    *)
(* the Wayland GPU worker may be new, or ahead of it.                       *)
ImageInv ==
  /\ presenter = "wl_shm" => thread["shm"].image = screen
  /\ presenter = "x11_gpu" /\ ~gpuFailed => thread["gpu"].image = screen
  /\ presenter = "wl_gpu" =>
       /\ Under(thread["gpu"].image, page)
       /\ queue["gpu"].pending # NoFrame => Under(thread["gpu"].image, queue["gpu"].pending)
       /\ thread["gpu"].hand # NoFrame => Under(thread["gpu"].image, thread["gpu"].hand)
       /\ \A t \in Tiles : \/ thread["gpu"].image.tiles[t] = 0
                           \/ thread["gpu"].image.tiles[t] >= screen.tiles[t]

PaintedInv ==
  /\ page.size # 0 => Positive(page)
  /\ submit # NoFrame => submit.size = page.size
  /\ \A w \in Workers : queue[w].pending # NoFrame => Positive(queue[w].pending)
  /\ \A w \in Workers : thread[w].hand # NoFrame => Positive(thread[w].hand)

(* The size the shadow will have when the frame in hand is drawn, and what  *)
(* the queue of the Wayland SHM worker builds on it.                        *)
ShadowSize == IF thread["shm"].hand # NoFrame THEN thread["shm"].hand.size ELSE thread["shm"].image.size
QueuedBuilds ==
  LET q == queue["shm"]
  IN  /\ q.pending # NoFrame => /\ q.pending.size = q.frameSize
                                /\ q.pending.full \/ q.pending.size = ShadowSize
      /\ surface = "alive" /\ q.pending = NoFrame => q.frameSize = ShadowSize
      /\ submit # NoFrame => submit.full \/ /\ submit.size = q.frameSize
                                            /\ q.pending = NoFrame \/ ~q.pending.full
HandBuilds ==
  LET th == thread["shm"]
  IN  /\ th.hand # NoFrame => th.hand.full \/ th.hand.size = th.image.size
      /\ th.image.size # 0 => Positive(th.image)
ShadowInv ==
  presenter = "wl_shm" /\ ~paintUsed.dropped =>
    ~gated /\ queue["shm"].visible /\ QueuedBuilds /\ HandBuilds

AliveInv ==
  /\ submit # NoFrame => surface = "alive"
  /\ surface = "alive" => \A w \in Workers : ~queue[w].shutdown

PaintInv ==
  /\ PageTyped /\ WorkersTyped /\ ScreenTyped
  /\ TargetInv /\ AgeInv /\ ImageInv /\ PaintedInv /\ ShadowInv /\ AliveInv

(* What is drawn, and into what.                                            *)
LEMMA DrawIs ==
  ASSUME NEW image \in Image, NEW f \in Frame, NEW ts \in SUBSET Tiles
  PROVE  /\ Draw(image, f, ts) \in Image /\ Draw(image, f, ts).size = image.size
         /\ \A t \in Tiles : Draw(image, f, ts).tiles[t] = IF t \in ts THEN f.tiles[t] ELSE image.tiles[t]
<1> DEFINE drawn == [t \in Tiles |-> IF t \in ts THEN f.tiles[t] ELSE image.tiles[t]]
<1>1. image.tiles \in [Tiles -> Nat] /\ f.tiles \in [Tiles -> Nat]
  BY DEF Image, Frame
<1>2. drawn \in [Tiles -> Nat] /\ \A t \in Tiles : drawn[t] = IF t \in ts THEN f.tiles[t] ELSE image.tiles[t]
  BY <1>1
<1>3. Draw(image, f, ts) = [image EXCEPT !.tiles = drawn]
  BY DEF Draw
<1> HIDE DEF drawn
<1> QED
  BY <1>2, <1>3 DEF Image

LEMMA FittedIs ==
  ASSUME NEW image \in Image, NEW n \in FrameSizes
  PROVE  /\ Fitted(image, n) \in Image /\ Fitted(image, n).size = n
         /\ image.size = n => Fitted(image, n) = image
         /\ \A t \in Tiles : Fitted(image, n).tiles[t] = image.tiles[t] \/ Fitted(image, n).tiles[t] = 0
BY DEF Fitted, Blank, Image

(* A worker that is woken keeps what it has.                                *)
LEMMA WakeIs ==
  ASSUME NEW w \in Workers, thread \in Threads
  PROVE  /\ WakeWorker(thread, w) \in Threads
         /\ \A v \in Workers : /\ WakeWorker(thread, w)[v].hand = thread[v].hand
                               /\ WakeWorker(thread, w)[v].image = thread[v].image
                               /\ \/ WakeWorker(thread, w)[v].pc = thread[v].pc
                                  \/ /\ thread[v].pc = "wait" /\ WakeWorker(thread, w)[v].pc = "check"
<1>1. CASE thread[w].pc = "wait"
  <2> DEFINE new == [thread[w] EXCEPT !.pc = "check"]
  <2>1. new \in WorkerThread /\ new.pc = "check" /\ new.hand = thread[w].hand /\ new.image = thread[w].image
    BY DEF Threads, WorkerThread
  <2>2. WakeWorker(thread, w) = [thread EXCEPT ![w] = new]
    BY <1>1 DEF WakeWorker, Threads
  <2> HIDE DEF new
  <2> QED
    BY <1>1, <2>1, <2>2 DEF Threads
<1>2. CASE thread[w].pc # "wait"
  BY <1>2 DEF WakeWorker
<1> QED
  BY <1>1, <1>2

LEMMA TargetIs == Target \in Workers
BY DEF Target, Workers

ThreadAlike(w) ==
  /\ thread'[w].hand = thread[w].hand /\ thread'[w].image = thread[w].image
  /\ thread'[w].pc = "present" <=> thread[w].pc = "present"
  /\ w # Target /\ thread[w].pc \in {"none", "ended"} => thread'[w].pc \in {"none", "ended"}

(* Neither the page nor the screen changes, and no frame comes.             *)
LEMMA PaintQuiet ==
  ASSUME PaintInv, UNCHANGED <<presenter, page, submit, gpuFailed, screen>>,
         paintUsed'.paints = paintUsed.paints,
         \A w \in Workers : /\ ThreadAlike(w)
                            /\ queue'[w].pending \in {queue[w].pending, NoFrame}
  PROVE  PageTyped' /\ TargetInv' /\ AgeInv' /\ ImageInv' /\ PaintedInv'
<1>1. Target' = Target /\ Target \in Workers
  BY TargetIs DEF Target
<1>2. PageTyped'
  BY DEF PaintInv, PageTyped
<1>3. TargetInv'
  <2>1. "shm" \in Workers
    BY DEF Workers
  <2> QED
    BY <1>1, <2>1 DEF PaintInv, TargetInv, ThreadAlike
<1>4. AgeInv'
  <2>1. Chain(Target)
    BY DEF PaintInv, AgeInv
  <2> DEFINE w == Target
  <2>2. Chain(w)'
    <3>1. /\ queue'[w].pending = queue[w].pending \/ queue'[w].pending = NoFrame
          /\ thread'[w].hand = thread[w].hand
      BY <1>1 DEF ThreadAlike
    <3>2. w' = w
      BY <1>1
    <3> QED
      BY <2>1, <3>1, <3>2 DEF Chain, Under
  <2>3. PagesAge'
    BY DEF PaintInv, AgeInv, PagesAge
  <2> QED
    BY <1>1, <2>2, <2>3 DEF AgeInv
<1>5. ImageInv'
  <2>1. /\ thread'["shm"].image = thread["shm"].image /\ thread'["gpu"].image = thread["gpu"].image
        /\ thread'["gpu"].hand = thread["gpu"].hand
        /\ queue'["gpu"].pending = queue["gpu"].pending \/ queue'["gpu"].pending = NoFrame
    BY DEF Workers, ThreadAlike
  <2> QED
    BY <2>1 DEF PaintInv, ImageInv, Under
<1>6. PaintedInv'
  <2>1. \A w \in Workers : /\ queue'[w].pending # NoFrame => queue'[w].pending = queue[w].pending
                           /\ thread'[w].hand = thread[w].hand
    BY DEF ThreadAlike
  <2> QED
    BY <2>1 DEF PaintInv, PaintedInv, Positive
<1> QED
  BY <1>2, <1>3, <1>4, <1>5, <1>6

LEMMA PaintStutter ==
  ASSUME PaintInv, UNCHANGED paintVars
  PROVE  PaintInv'
<1>1. \A w \in Workers : ThreadAlike(w) /\ queue'[w].pending \in {queue[w].pending, NoFrame}
  BY DEF paintVars, ThreadAlike
<1>2. PageTyped' /\ TargetInv' /\ AgeInv' /\ ImageInv' /\ PaintedInv'
  BY <1>1, PaintQuiet DEF paintVars
<1> QED
  BY <1>2 DEF PaintInv, paintVars, WorkersTyped, ScreenTyped, ShadowInv, QueuedBuilds, HandBuilds,
              ShadowSize, AliveInv

(* A transition closes the worker of the surface, and opens it.             *)
LEMMA GateKeeps ==
  ASSUME PaintInv, Gate
  PROVE  PaintInv'
<1>1. /\ queue' = [w \in Workers |-> IF thread[w].pc = "none" THEN queue[w]
                                     ELSE [queue[w] EXCEPT !.visible = FALSE,
                                             !.pending = IF w = "shm" THEN NoFrame ELSE queue[w].pending]]
      /\ thread' = WakeWorker(thread, Target) /\ gated' = TRUE
      /\ paintUsed' = [paintUsed EXCEPT !.gates = @ + 1, !.dropped = TRUE]
      /\ UNCHANGED <<presenter, page, submit, gpuFailed, screen, surface>> /\ surface = "alive"
  BY DEF Gate
<1>2. queue \in Queues /\ thread \in Threads /\ paintUsed \in [paints : Nat, gates : Nat, dropped : BOOLEAN]
  BY DEF PaintInv, WorkersTyped, ScreenTyped
<1>3. /\ paintUsed' \in [paints : Nat, gates : Nat, dropped : BOOLEAN]
      /\ paintUsed'.paints = paintUsed.paints /\ paintUsed'.dropped
  <2>1. paintUsed.gates + 1 \in Nat
    BY <1>2
  <2> QED
    BY <1>1, <1>2, <2>1
<1>4. thread' \in Threads /\ \A w \in Workers : ThreadAlike(w)
  <2>1. PaintInv /\ Target \in Workers
    BY TargetIs
  <2> QED
    BY <1>1, <1>2, <2>1, WakeIs DEF ThreadAlike
<1>5. ASSUME NEW w \in Workers
      PROVE  /\ queue'[w] \in WorkerQueue /\ queue'[w].pending \in {queue[w].pending, NoFrame}
             /\ queue'[w].shutdown = queue[w].shutdown
  <2>1. queue[w] \in WorkerQueue
    BY <1>2 DEF Queues
  <2>2. (IF w = "shm" THEN NoFrame ELSE queue[w].pending) \in {queue[w].pending, NoFrame}
        /\ {queue[w].pending, NoFrame} \subseteq Frame \cup {NoFrame}
    BY <2>1 DEF WorkerQueue
  <2> DEFINE left == IF w = "shm" THEN NoFrame ELSE queue[w].pending
             closed == [queue[w] EXCEPT !.visible = FALSE, !.pending = left]
  <2>3. left \in {queue[w].pending, NoFrame} /\ left \in Frame \cup {NoFrame}
    BY <2>2
  <2>4. queue'[w] = IF thread[w].pc = "none" THEN queue[w] ELSE closed
    BY <1>1
  <2> HIDE DEF left
  <2>5. closed \in WorkerQueue /\ closed.pending = left /\ closed.shutdown = queue[w].shutdown
    BY <2>1, <2>3 DEF WorkerQueue
  <2> HIDE DEF closed
  <2> QED
    BY <2>1, <2>3, <2>4, <2>5
<1>6. queue' \in Queues
  <2>1. queue' = [w \in Workers |-> queue'[w]]
    BY <1>1
  <2> QED
    BY <1>5, <2>1 DEF Queues
<1>7. PageTyped' /\ TargetInv' /\ AgeInv' /\ ImageInv' /\ PaintedInv'
  BY <1>1, <1>3, <1>4, <1>5, PaintQuiet
<1>8. WorkersTyped' /\ ScreenTyped'
  BY <1>1, <1>3, <1>4, <1>6 DEF PaintInv, WorkersTyped, ScreenTyped
<1>9. ShadowInv' /\ AliveInv'
  BY <1>1, <1>3, <1>5 DEF PaintInv, ShadowInv, AliveInv
<1> QED
  BY <1>7, <1>8, <1>9 DEF PaintInv

LEMMA UngateKeeps ==
  ASSUME PaintInv, Ungate
  PROVE  PaintInv'
<1>1. /\ \/ queue' = [queue EXCEPT ![Target].visible = TRUE] /\ thread' = WakeWorker(thread, Target)
         \/ UNCHANGED <<queue, thread>>
      /\ gated /\ gated' = FALSE /\ UNCHANGED <<presenter, page, submit, gpuFailed, screen, surface, paintUsed>>
  BY DEF Ungate
<1>2. queue \in Queues /\ thread \in Threads /\ Target \in Workers
  BY TargetIs DEF PaintInv, WorkersTyped
<1>3. thread' \in Threads /\ \A w \in Workers : ThreadAlike(w)
  <2>1. CASE thread' = WakeWorker(thread, Target)
    BY <1>2, <2>1, WakeIs DEF ThreadAlike
  <2>2. CASE thread' = thread
    BY <1>2, <2>2 DEF ThreadAlike
  <2> QED
    BY <1>1, <2>1, <2>2
<1>4. /\ queue' \in Queues
      /\ \A w \in Workers : queue'[w].pending = queue[w].pending /\ queue'[w].shutdown = queue[w].shutdown
  <2>1. CASE queue' = [queue EXCEPT ![Target].visible = TRUE]
    <3> DEFINE w == Target
               open == [queue[w] EXCEPT !.visible = TRUE]
    <3>1. open \in WorkerQueue /\ open.pending = queue[w].pending /\ open.shutdown = queue[w].shutdown
      BY <1>2 DEF Queues, WorkerQueue
    <3>2. queue' = [queue EXCEPT ![w] = open] /\ w \in Workers
      BY <1>2, <2>1 DEF Queues
    <3> HIDE DEF open, w
    <3> QED
      BY <1>2, <3>1, <3>2 DEF Queues
  <2>2. CASE queue' = queue
    BY <1>2, <2>2
  <2> QED
    BY <1>1, <2>1, <2>2
<1>5. PageTyped' /\ TargetInv' /\ AgeInv' /\ ImageInv' /\ PaintedInv'
  BY <1>1, <1>3, <1>4, PaintQuiet
<1>6. WorkersTyped' /\ ScreenTyped' /\ AliveInv'
  BY <1>1, <1>3, <1>4 DEF PaintInv, WorkersTyped, ScreenTyped, AliveInv
<1>7. ShadowInv'
  BY <1>1 DEF PaintInv, ShadowInv
<1> QED
  BY <1>5, <1>6, <1>7 DEF PaintInv

(* The surface is freed.                                                    *)
LEMMA StopKeeps ==
  ASSUME PaintInv, StopWorkers
  PROVE  PaintInv'
<1>1. /\ queue' = [w \in Workers |-> [queue[w] EXCEPT !.shutdown = TRUE, !.pending = NoFrame]]
      /\ thread' = [w \in Workers |-> WakeWorker(thread, w)[w]]
      /\ submit = NoFrame /\ surface' = "freeing"
      /\ UNCHANGED <<presenter, page, submit, gpuFailed, screen, gated, paintUsed>>
  BY DEF StopWorkers
<1>2. queue \in Queues /\ thread \in Threads
  BY DEF PaintInv, WorkersTyped
<1>3. ASSUME NEW w \in Workers
      PROVE  /\ thread'[w] \in WorkerThread /\ ThreadAlike(w)
             /\ queue'[w] \in WorkerQueue /\ queue'[w].pending = NoFrame
             /\ queue'[w].visible = queue[w].visible
  <2>1. WakeWorker(thread, w)[w] \in WorkerThread
    BY <1>2, WakeIs DEF Threads
  <2>2. thread'[w] = WakeWorker(thread, w)[w]
    BY <1>1
  <2>3. queue'[w] = [queue[w] EXCEPT !.shutdown = TRUE, !.pending = NoFrame] /\ queue[w] \in WorkerQueue
    BY <1>1, <1>2 DEF Queues
  <2>4. ThreadAlike(w)
    BY <1>2, <2>2, WakeIs DEF ThreadAlike
  <2>5. /\ queue'[w] \in WorkerQueue /\ queue'[w].pending = NoFrame
        /\ queue'[w].visible = queue[w].visible
    BY <2>3 DEF WorkerQueue
  <2> QED
    BY <2>1, <2>2, <2>4, <2>5
<1>4. WorkersTyped'
  <2>1. queue' = [w \in Workers |-> queue'[w]] /\ thread' = [w \in Workers |-> thread'[w]]
    BY <1>1
  <2> QED
    BY <1>3, <2>1 DEF WorkersTyped, Queues, Threads
<1>5. PageTyped' /\ TargetInv' /\ AgeInv' /\ ImageInv' /\ PaintedInv'
  BY <1>1, <1>3, PaintQuiet
<1>6. ScreenTyped' /\ AliveInv'
  BY <1>1 DEF PaintInv, ScreenTyped, AliveInv
<1>7. ShadowInv'
  <2> SUFFICES ASSUME presenter = "wl_shm", ~paintUsed.dropped
               PROVE  ~gated' /\ queue'["shm"].visible /\ QueuedBuilds' /\ HandBuilds'
    BY <1>1 DEF ShadowInv
  <2>1. ~gated /\ queue["shm"].visible /\ HandBuilds
    BY DEF PaintInv, ShadowInv
  <2>2. /\ thread'["shm"].hand = thread["shm"].hand /\ thread'["shm"].image = thread["shm"].image
        /\ queue'["shm"].pending = NoFrame /\ queue'["shm"].visible
    BY <1>3, <2>1 DEF Workers, ThreadAlike
  <2>3. QueuedBuilds'
    BY <1>1, <2>2 DEF QueuedBuilds
  <2> QED
    BY <1>1, <2>1, <2>2, <2>3 DEF HandBuilds, Positive
<1> QED
  BY <1>4, <1>5, <1>6, <1>7 DEF PaintInv

LEMMA JoinKeeps ==
  ASSUME PaintInv, JoinWorker
  PROVE  PaintInv'
<1>1. /\ surface = "freeing" /\ surface' = "gone"
      /\ UNCHANGED <<presenter, page, submit, queue, thread, gpuFailed, screen, gated, paintUsed>>
  BY DEF JoinWorker
<1>2. \A w \in Workers : ThreadAlike(w) /\ queue'[w].pending \in {queue[w].pending, NoFrame}
  BY <1>1 DEF ThreadAlike
<1>3. PageTyped' /\ TargetInv' /\ AgeInv' /\ ImageInv' /\ PaintedInv'
  BY <1>1, <1>2, PaintQuiet
<1> QED
  BY <1>1, <1>3 DEF PaintInv, WorkersTyped, ScreenTyped, ShadowInv, QueuedBuilds, HandBuilds,
                    ShadowSize, AliveInv

(* The painter: the page is painted, and the frame prepared.                *)
LEMMA PaintKeeps ==
  ASSUME PaintInv, NEW n \in FrameSizes, NEW dirty \in SUBSET Tiles, Paint(n, dirty)
  PROVE  PaintInv'
<1> DEFINE now == paintUsed.paints + 1
           drawn == [t \in Tiles |-> IF t \in dirty THEN now ELSE page.tiles[t]]
           f == [to |-> Target, size |-> n, dirty |-> dirty, full |-> NeedsFull(n), tiles |-> drawn]
<1>1. /\ surface = "alive" /\ submit = NoFrame /\ (n # page.size => dirty = Tiles)
      /\ page' = [size |-> n, tiles |-> drawn]
      /\ submit' = IF gated THEN NoFrame ELSE f
      /\ paintUsed' = [paintUsed EXCEPT !.paints = now, !.dropped = paintUsed.dropped \/ gated]
      /\ UNCHANGED <<presenter, gpuFailed, screen, surface, gated>>
  BY DEF Paint
<1>2. IF gated THEN UNCHANGED <<queue, thread>>
      ELSE /\ thread' = [WakeWorker(thread, Target) EXCEPT
                           ![Target].pc = IF @ = "none" THEN "check" ELSE @]
           /\ queue' = [queue EXCEPT ![Target].visible = TRUE]
  BY DEF Paint
<1>3. /\ queue \in Queues /\ thread \in Threads /\ page \in Image
      /\ paintUsed \in [paints : Nat, gates : Nat, dropped : BOOLEAN]
      /\ gated \in BOOLEAN
      /\ Target \in Workers /\ Target' = Target /\ n \in Nat /\ n # 0
  BY <1>1, TargetIs, PaintAssumption DEF PaintInv, WorkersTyped, ScreenTyped, PageTyped, Target
<1>4. /\ now \in Nat /\ page.tiles \in [Tiles -> Nat] /\ \A t \in Tiles : page.tiles[t] <= paintUsed.paints
  BY <1>3 DEF PaintInv, AgeInv, PagesAge, Image
<1>5. /\ drawn \in [Tiles -> Nat]
      /\ \A t \in Tiles : drawn[t] <= now /\ page.tiles[t] <= drawn[t]
      /\ \A t \in Tiles : drawn[t] = IF t \in dirty THEN now ELSE page.tiles[t]
  <2>1. ASSUME NEW t \in Tiles PROVE page.tiles[t] \in Nat /\ page.tiles[t] <= now /\ now <= now
    BY <1>3, <1>4
  <2> HIDE DEF now
  <2> QED
    BY <1>4, <2>1
<1>6. page' \in Image /\ page'.size = n /\ page'.tiles = drawn /\ Under(page, page')
  BY <1>1, <1>5 DEF Image, Under
<1>7. f \in Frame /\ f.tiles = drawn /\ f.to = Target /\ f.size = n
  <2>1. NeedsFull(n) \in BOOLEAN
    BY <1>3 DEF NeedsFull, Queues, WorkerQueue, Frame, Workers
  <2> QED
    BY <1>3, <1>5, <2>1 DEF Frame
<1>8. /\ paintUsed' \in [paints : Nat, gates : Nat, dropped : BOOLEAN]
      /\ paintUsed'.paints = now /\ paintUsed'.dropped = (paintUsed.dropped \/ gated)
  <2>1. (paintUsed.dropped \/ gated) \in BOOLEAN
    BY <1>3
  <2> HIDE DEF now
  <2> QED
    BY <1>1, <1>3, <1>4, <2>1
<1> HIDE DEF now, drawn, f
<1>9. /\ thread' \in Threads
      /\ \A w \in Workers : /\ thread'[w].hand = thread[w].hand /\ thread'[w].image = thread[w].image
                            /\ thread'[w].pc = "present" <=> thread[w].pc = "present"
                            /\ w # Target => \/ thread'[w].pc = thread[w].pc
                                             \/ thread[w].pc = "wait"
  <2>1. CASE gated
    BY <1>2, <1>3, <2>1
  <2>2. CASE ~gated
    <3> DEFINE woken == WakeWorker(thread, Target)
               w == Target
               new == [woken[w] EXCEPT !.pc = IF woken[w].pc = "none" THEN "check" ELSE woken[w].pc]
    <3>1. /\ woken \in Threads
          /\ \A v \in Workers : /\ woken[v].hand = thread[v].hand /\ woken[v].image = thread[v].image
                                /\ \/ woken[v].pc = thread[v].pc
                                   \/ thread[v].pc = "wait" /\ woken[v].pc = "check"
      BY <1>3, WakeIs
    <3>2. /\ thread' = [woken EXCEPT ![w].pc = IF @ = "none" THEN "check" ELSE @] /\ w \in Workers
      BY <1>2, <1>3, <2>2
    <3> HIDE DEF woken, w
    <3>3. thread' = [woken EXCEPT ![w] = new]
      BY <3>1, <3>2 DEF Threads
    <3>4. new \in WorkerThread /\ new.hand = woken[w].hand /\ new.image = woken[w].image
          /\ (new.pc = "present" <=> woken[w].pc = "present")
      BY <3>1, <3>2 DEF Threads, WorkerThread
    <3> HIDE DEF new
    <3>5. /\ thread' \in Threads /\ thread'[w] = new
          /\ \A v \in Workers : v # w => thread'[v] = woken[v]
      BY <3>1, <3>2, <3>3, <3>4 DEF Threads
    <3> QED
      BY <3>1, <3>2, <3>4, <3>5 DEF w
  <2> QED
    BY <2>1, <2>2
<1>10. /\ queue' \in Queues
       /\ \A w \in Workers : /\ queue'[w].pending = queue[w].pending
                             /\ queue'[w].frameSize = queue[w].frameSize
                             /\ queue'[w].shutdown = queue[w].shutdown
                             /\ queue[w].visible => queue'[w].visible
  <2>1. CASE gated
    BY <1>2, <1>3, <2>1
  <2>2. CASE ~gated
    <3> DEFINE w == Target
               open == [queue[w] EXCEPT !.visible = TRUE]
    <3>1. open \in WorkerQueue /\ open.pending = queue[w].pending /\ open.shutdown = queue[w].shutdown
          /\ open.frameSize = queue[w].frameSize /\ open.visible
      BY <1>3 DEF Queues, WorkerQueue
    <3>2. queue' = [queue EXCEPT ![w] = open] /\ w \in Workers
      BY <1>2, <1>3, <2>2 DEF Queues
    <3> HIDE DEF open, w
    <3> QED
      BY <1>3, <3>1, <3>2 DEF Queues
  <2> QED
    BY <2>1, <2>2
<1>11. PageTyped' /\ WorkersTyped' /\ ScreenTyped'
  BY <1>1, <1>6, <1>7, <1>8, <1>9, <1>10 DEF PaintInv, PageTyped, WorkersTyped, ScreenTyped
<1>12. TargetInv'
  <2>1. "shm" \in Workers
    BY DEF Workers
  <2>2. \A w \in Workers : w # Target => thread'[w].pc \in {"none", "ended"}
    BY <1>9 DEF PaintInv, TargetInv
  <2> QED
    BY <1>1, <1>3, <1>6, <1>7, <1>9, <1>10, <2>1, <2>2 DEF PaintInv, TargetInv
<1>13. AgeInv'
  <2> DEFINE w == Target
  <2>1. Chain(w) /\ w \in Workers /\ w' = w
    BY <1>3 DEF PaintInv, AgeInv
  <2>2. queue'[w].pending = queue[w].pending /\ thread'[w].hand = thread[w].hand
    BY <1>9, <1>10, <2>1
  <2> HIDE DEF w
  <2>3. queue[w].pending \in Frame \cup {NoFrame} /\ thread[w].hand \in Frame \cup {NoFrame}
    BY <1>3, <2>1 DEF Queues, Threads, WorkerQueue, WorkerThread
  <2>4. ASSUME NEW a, a.tiles \in [Tiles -> Nat], Under(a, page) PROVE Under(a, page')
    <3>1. ASSUME NEW t \in Tiles PROVE a.tiles[t] <= page'.tiles[t]
      <4>1. /\ a.tiles[t] \in Nat /\ page.tiles[t] \in Nat /\ page'.tiles[t] \in Nat
            /\ a.tiles[t] <= page.tiles[t] /\ page.tiles[t] <= page'.tiles[t]
        BY <1>4, <1>6, <1>5, <2>4 DEF Under
      <4> QED
        BY <4>1
    <3> QED
      BY <3>1 DEF Under
  <2>5. screen.tiles \in [Tiles -> Nat] /\ \A g \in Frame : g.tiles \in [Tiles -> Nat]
    BY DEF PaintInv, ScreenTyped, Image, Frame
  <2>6. Under(screen, page')
    BY <2>1, <2>4, <2>5 DEF Chain
  <2>7. queue[w].pending # NoFrame => Under(queue[w].pending, page')
    BY <2>1, <2>3, <2>4, <2>5 DEF Chain
  <2>8. thread[w].hand # NoFrame => Under(thread[w].hand, page')
    BY <2>1, <2>3, <2>4, <2>5 DEF Chain
  <2>9. Chain(w)'
    <3>1. screen' = screen
      BY <1>1
    <3>2. /\ Under(screen, page)'
      BY <2>6, <3>1 DEF Under
    <3>3. queue'[w].pending # NoFrame => Under(queue[w].pending, page)' /\ Under(screen, queue[w].pending)'
      BY <2>1, <2>2, <2>7, <3>1 DEF Chain, Under
    <3>4. thread'[w].hand # NoFrame => Under(thread[w].hand, page)' /\ Under(screen, thread[w].hand)'
      BY <2>1, <2>2, <2>8, <3>1 DEF Chain, Under
    <3>5. queue'[w].pending # NoFrame /\ thread'[w].hand # NoFrame => Under(thread[w].hand, queue[w].pending)'
      BY <2>1, <2>2 DEF Chain, Under
    <3> QED
      BY <2>1, <3>2, <3>3, <3>4, <3>5 DEF Chain
  <2>10. PagesAge'
    BY <1>5, <1>6, <1>8 DEF PagesAge
  <2> QED
    BY <2>1, <2>9, <2>10 DEF AgeInv, w
<1>14. ImageInv'
  <2>1. /\ thread'["shm"].image = thread["shm"].image /\ thread'["gpu"].image = thread["gpu"].image
        /\ thread'["gpu"].hand = thread["gpu"].hand
        /\ queue'["gpu"].pending = queue["gpu"].pending
    BY <1>9, <1>10 DEF Workers
  <2>2. presenter = "wl_gpu" => Under(thread["gpu"].image, page')
    <3> SUFFICES ASSUME presenter = "wl_gpu", NEW t \in Tiles
                 PROVE  thread["gpu"].image.tiles[t] <= page'.tiles[t]
      BY DEF Under
    <3>1. thread["gpu"].image.tiles[t] <= page.tiles[t] /\ thread["gpu"].image.tiles[t] \in Nat
      BY <1>3 DEF PaintInv, ImageInv, Under, Threads, WorkerThread, Image, Workers
    <3>2. page.tiles[t] <= page'.tiles[t] /\ page.tiles[t] \in Nat /\ page'.tiles[t] \in Nat
      BY <1>4, <1>5, <1>6
    <3> QED
      BY <3>1, <3>2
  <2> QED
    BY <1>1, <2>1, <2>2 DEF PaintInv, ImageInv, Under
<1>15. PaintedInv'
  <2>1. Positive(page')
    <3> SUFFICES ASSUME NEW t \in Tiles PROVE page'.tiles[t] > 0
      BY DEF Positive
    <3>1. CASE t \in dirty
      BY <1>3, <1>5, <1>6, <3>1 DEF now
    <3>2. CASE t \notin dirty
      BY <1>1, <1>3, <1>5, <1>6, <3>2 DEF PaintInv, PaintedInv, Positive
    <3> QED
      BY <3>1, <3>2
  <2>2. submit' # NoFrame => submit'.size = page'.size
    BY <1>1, <1>6, <1>7
  <2> QED
    BY <1>9, <1>10, <2>1, <2>2 DEF PaintInv, PaintedInv, Positive
<1>16. AliveInv'
  BY <1>1, <1>10 DEF PaintInv, AliveInv
<1>17. ShadowInv'
  <2> SUFFICES ASSUME presenter = "wl_shm", ~paintUsed.dropped, ~gated
               PROVE  queue'["shm"].visible /\ QueuedBuilds' /\ HandBuilds'
    BY <1>1, <1>8 DEF ShadowInv
  <2>1. queue["shm"].visible /\ QueuedBuilds /\ HandBuilds
    BY DEF PaintInv, ShadowInv
  <2>2. /\ thread'["shm"].hand = thread["shm"].hand /\ thread'["shm"].image = thread["shm"].image
        /\ queue'["shm"].pending = queue["shm"].pending /\ queue'["shm"].frameSize = queue["shm"].frameSize
        /\ queue'["shm"].visible
    BY <1>9, <1>10, <2>1 DEF Workers
  <2>3. submit' # NoFrame =>
          submit'.full \/ /\ submit'.size = queue["shm"].frameSize
                          /\ queue["shm"].pending = NoFrame \/ ~queue["shm"].pending.full
    BY <1>1 DEF f, NeedsFull
  <2>4. QueuedBuilds'
    BY <1>1, <2>1, <2>2, <2>3 DEF QueuedBuilds, ShadowSize
  <2> QED
    BY <2>1, <2>2, <2>4 DEF HandBuilds, Positive
<1> QED
  BY <1>11, <1>12, <1>13, <1>14, <1>15, <1>16, <1>17 DEF PaintInv

(* The painter: the frame is put into the queue.                            *)
LEMMA SubmitKeeps ==
  ASSUME PaintInv, Submit
  PROVE  PaintInv'
<1> DEFINE v == submit.to
<1>1. /\ submit # NoFrame /\ submit' = NoFrame
      /\ queue' = [queue EXCEPT ![v].pending = submit, ![v].frameSize = submit.size]
      /\ thread' = WakeWorker(thread, v)
      /\ UNCHANGED <<presenter, page, gpuFailed, screen, surface, gated, paintUsed>>
  BY DEF Submit
<1>2. /\ queue \in Queues /\ thread \in Threads /\ submit \in Frame /\ v \in Workers
      /\ Target \in Workers /\ Target' = Target
  BY <1>1, TargetIs DEF PaintInv, WorkersTyped, PageTyped, Frame, Target
<1> DEFINE full == [queue[v] EXCEPT !.pending = submit, !.frameSize = submit.size]
<1>3. full \in WorkerQueue /\ full.pending = submit /\ full.frameSize = submit.size
      /\ full.visible = queue[v].visible /\ full.shutdown = queue[v].shutdown
  BY <1>2, ZenonT(60) DEF Queues, WorkerQueue, Frame
<1>4. queue' = [queue EXCEPT ![v] = full]
  BY <1>1, <1>2 DEF Queues
<1> HIDE DEF full, v
<1>5. /\ queue' \in Queues /\ queue'[v] = full
      /\ \A w \in Workers : w # v => queue'[w] = queue[w]
  BY <1>2, <1>3, <1>4 DEF Queues
<1>6. /\ thread' \in Threads
      /\ \A w \in Workers : ThreadAlike(w)
  BY <1>1, <1>2, WakeIs DEF ThreadAlike
<1>7. submit.tiles = page.tiles /\ submit.size = page.size /\ (~gpuFailed => v = Target)
  BY <1>1 DEF PaintInv, TargetInv, PaintedInv, v
<1>8. PageTyped' /\ WorkersTyped' /\ ScreenTyped' /\ AliveInv'
  BY <1>1, <1>2, <1>3, <1>5, <1>6 DEF PaintInv, PageTyped, WorkersTyped, ScreenTyped, AliveInv
<1>9. TargetInv'
  <2>1. presenter = "x11_gpu" /\ ~gpuFailed => v # "shm"
    BY <1>7 DEF Target
  <2>2. "shm" \in Workers
    BY DEF Workers
  <2>3. presenter = "x11_gpu" /\ ~gpuFailed =>
          queue'["shm"].pending = NoFrame /\ thread'["shm"].hand = NoFrame
    <3>1. presenter = "x11_gpu" /\ ~gpuFailed => queue'["shm"] = queue["shm"]
      BY <1>5, <2>1, <2>2
    <3>2. thread'["shm"].hand = thread["shm"].hand
      BY <1>6, <2>2 DEF ThreadAlike
    <3> QED
      BY <3>1, <3>2 DEF PaintInv, TargetInv
  <2>4. \A w \in Workers : /\ w # Target => thread'[w].pc \in {"none", "ended"}
                           /\ thread'[w].pc = "present" <=> thread'[w].hand # NoFrame
    BY <1>6 DEF PaintInv, TargetInv, ThreadAlike
  <2> QED
    BY <1>1, <1>2, <2>3, <2>4 DEF PaintInv, TargetInv
<1>10. Under(screen, page) /\ screen' = screen /\ page' = page
  BY <1>1 DEF PaintInv, AgeInv, Chain
<1>11. \A t \in Tiles : page.tiles[t] \in Nat
  BY DEF PaintInv, PageTyped, Image
<1>12. AgeInv'
  <2> DEFINE w == Target
  <2>1. Chain(w) /\ w \in Workers /\ w' = w
    BY <1>2 DEF PaintInv, AgeInv
  <2>2. thread'[w].hand = thread[w].hand
    BY <1>6, <2>1 DEF ThreadAlike
  <2> HIDE DEF w
  <2>3. CASE w # v
    <3>1. queue'[w].pending = queue[w].pending
      BY <1>5, <2>1, <2>3
    <3> QED
      BY <1>1, <2>1, <2>2, <3>1 DEF PaintInv, AgeInv, PagesAge, Chain, Under, w
  <2>4. CASE w = v
    <3>1. queue'[w].pending = submit
      BY <1>3, <1>5, <2>4
    <3>2. Under(submit, page) /\ Under(screen, submit)
      BY <1>7, <1>10, <1>11 DEF Under
    <3>3. thread[w].hand # NoFrame => Under(thread[w].hand, submit)
      BY <1>7, <2>1 DEF Chain, Under
    <3>4. Chain(w)'
      BY <1>10, <2>1, <2>2, <3>1, <3>2, <3>3 DEF Chain, Under
    <3> QED
      BY <1>1, <2>1, <3>4 DEF PaintInv, AgeInv, PagesAge, w
  <2> QED
    BY <2>3, <2>4
<1>13. ImageInv'
  <2>1. /\ thread'["shm"].image = thread["shm"].image /\ thread'["gpu"].image = thread["gpu"].image
        /\ thread'["gpu"].hand = thread["gpu"].hand
        /\ queue'["gpu"].pending = queue["gpu"].pending \/ queue'["gpu"].pending = submit
    BY <1>3, <1>5, <1>6 DEF Workers, ThreadAlike
  <2>2. presenter = "wl_gpu" => Under(thread["gpu"].image, submit)
    BY <1>7 DEF PaintInv, ImageInv, Under
  <2> QED
    BY <1>1, <2>1, <2>2 DEF PaintInv, ImageInv, Under
<1>14. PaintedInv'
  <2>1. Positive(submit)
    <3>1. submit.size # 0
      BY <1>2, PaintAssumption DEF Frame
    <3> QED
      BY <1>7, <3>1 DEF PaintInv, PaintedInv, Positive
  <2>2. \A w \in Workers : /\ queue'[w].pending = queue[w].pending \/ queue'[w].pending = submit
                           /\ thread'[w].hand = thread[w].hand
    BY <1>3, <1>5, <1>6 DEF ThreadAlike
  <2> QED
    BY <1>1, <2>1, <2>2 DEF PaintInv, PaintedInv, Positive
<1>15. ShadowInv'
  <2> SUFFICES ASSUME presenter = "wl_shm", ~paintUsed.dropped
               PROVE  ~gated' /\ queue'["shm"].visible /\ QueuedBuilds' /\ HandBuilds'
    BY <1>1 DEF ShadowInv
  <2>1. ~gated /\ queue["shm"].visible /\ QueuedBuilds /\ HandBuilds
    BY DEF PaintInv, ShadowInv
  <2>2. v = "shm"
    BY <1>7 DEF PaintInv, TargetInv, Target
  <2>3. /\ thread'["shm"].hand = thread["shm"].hand /\ thread'["shm"].image = thread["shm"].image
        /\ queue'["shm"].pending = submit /\ queue'["shm"].frameSize = submit.size
        /\ queue'["shm"].visible
    BY <1>3, <1>5, <1>6, <2>1, <2>2 DEF Workers, ThreadAlike
  <2>4. submit.full \/ submit.size = ShadowSize
    BY <1>1, <2>1 DEF PaintInv, AliveInv, QueuedBuilds
  <2>5. ShadowSize' = ShadowSize
    BY <2>3 DEF ShadowSize
  <2>6. QueuedBuilds'
    BY <1>1, <2>3, <2>4, <2>5 DEF QueuedBuilds
  <2> QED
    BY <1>1, <2>1, <2>3, <2>6 DEF HandBuilds, Positive
<1> QED
  BY <1>8, <1>9, <1>12, <1>13, <1>14, <1>15 DEF PaintInv

LEMMA UnderOver ==
  ASSUME NEW a, NEW b, NEW c, Under(a, b), Under(b, c),
         a.tiles \in [Tiles -> Nat], b.tiles \in [Tiles -> Nat], c.tiles \in [Tiles -> Nat]
  PROVE  Under(a, c)
<1> SUFFICES ASSUME NEW t \in Tiles PROVE a.tiles[t] <= c.tiles[t]
  BY DEF Under
<1>1. /\ a.tiles[t] \in Nat /\ b.tiles[t] \in Nat /\ c.tiles[t] \in Nat
      /\ a.tiles[t] <= b.tiles[t] /\ b.tiles[t] <= c.tiles[t]
  BY DEF Under
<1> QED
  BY <1>1

(* One pass of a worker over its condition.                                 *)
LEMMA CheckKeeps ==
  ASSUME PaintInv, NEW w \in Workers, Check(w)
  PROVE  PaintInv'
<1> DEFINE q == queue[w]
           new == IF q.shutdown THEN [thread[w] EXCEPT !.pc = "ended"]
                  ELSE IF q.pending = NoFrame THEN [thread[w] EXCEPT !.pc = "wait"]
                  ELSE IF q.visible THEN [thread[w] EXCEPT !.pc = "present", !.hand = q.pending]
                  ELSE thread[w]
           taken == ~q.shutdown /\ q.pending # NoFrame /\ q.visible
           left == [q EXCEPT !.pending = NoFrame]
<1>1. /\ thread[w].pc = "check"
      /\ thread' = [thread EXCEPT ![w] = new]
      /\ queue' = [queue EXCEPT ![w].pending = NoFrame]
      /\ UNCHANGED <<gpuFailed, screen, presenter, page, submit, surface, gated, paintUsed>>
  BY DEF Check, PresentOthers
<1>2. /\ queue \in Queues /\ thread \in Threads
      /\ q \in WorkerQueue /\ thread[w] \in WorkerThread
      /\ Target \in Workers /\ Target' = Target
  BY <1>1, TargetIs DEF PaintInv, WorkersTyped, Target, Queues, Threads
<1>3. w = Target /\ thread[w].hand = NoFrame
  BY <1>1, <1>2 DEF PaintInv, TargetInv
<1>4. /\ left \in WorkerQueue /\ left.pending = NoFrame /\ left.frameSize = q.frameSize
      /\ left.visible = q.visible /\ left.shutdown = q.shutdown
  BY <1>2 DEF WorkerQueue
<1>5. queue' = [queue EXCEPT ![w] = left]
  BY <1>1, <1>2 DEF Queues
<1>6. /\ new \in WorkerThread /\ new.image = thread[w].image
      /\ IF taken THEN new.pc = "present" /\ new.hand = q.pending
         ELSE new.pc # "present" /\ new.hand = NoFrame
  BY <1>1, <1>2, <1>3 DEF WorkerThread, WorkerQueue
<1>7. taken => q.pending \in Frame /\ q.pending # NoFrame
  BY <1>2 DEF WorkerQueue
<1> HIDE DEF new, left
<1>8. /\ queue' \in Queues /\ queue'[w] = left
      /\ \A v \in Workers : v # w => queue'[v] = queue[v]
  BY <1>2, <1>4, <1>5 DEF Queues
<1>9. /\ thread' \in Threads /\ thread'[w] = new
      /\ \A v \in Workers : v # w => thread'[v] = thread[v]
  BY <1>1, <1>2, <1>6 DEF Threads
<1>10. WorkersTyped' /\ ScreenTyped' /\ AliveInv'
  BY <1>1, <1>4, <1>8, <1>9 DEF PaintInv, WorkersTyped, ScreenTyped, AliveInv
<1>11. PageTyped' /\ TargetInv' /\ AgeInv' /\ ImageInv' /\ PaintedInv'
  <2>1. CASE ~taken
    <3>1. \A v \in Workers : ThreadAlike(v) /\ queue'[v].pending \in {queue[v].pending, NoFrame}
      BY <1>1, <1>3, <1>4, <1>6, <1>8, <1>9, <2>1 DEF ThreadAlike
    <3> QED
      BY <1>1, <3>1, PaintQuiet
  <2>2. CASE taken
    <3>1. new.pc = "present" /\ new.hand = q.pending /\ q.pending # NoFrame /\ q.pending \in Frame
      BY <1>6, <1>7, <2>2
    <3>2. PageTyped'
      BY <1>1 DEF PaintInv, PageTyped
    <3>3. TargetInv'
      <4>1. presenter = "x11_gpu" /\ ~gpuFailed =>
              queue'["shm"].pending = NoFrame /\ thread'["shm"].hand = NoFrame
        <5> SUFFICES ASSUME presenter = "x11_gpu", ~gpuFailed
                     PROVE  queue'["shm"].pending = NoFrame /\ thread'["shm"].hand = NoFrame
          OBVIOUS
        <5>1. "shm" # w /\ "shm" \in Workers
          BY <1>3 DEF Target, Workers
        <5> QED
          BY <1>8, <1>9, <5>1 DEF PaintInv, TargetInv
      <4>2. \A v \in Workers : /\ v # Target => thread'[v].pc \in {"none", "ended"}
                               /\ thread'[v].pc = "present" <=> thread'[v].hand # NoFrame
        BY <1>3, <1>9, <3>1 DEF PaintInv, TargetInv
      <4> QED
        BY <1>1, <1>2, <4>1, <4>2 DEF PaintInv, TargetInv
    <3>4. AgeInv'
      <4>1. /\ Chain(w) /\ PagesAge
        BY <1>3 DEF PaintInv, AgeInv
      <4>2. /\ queue'[w].pending = NoFrame /\ thread'[w].hand = q.pending
        BY <1>4, <1>8, <1>9, <3>1
      <4>3. Under(q.pending, page) /\ Under(screen, q.pending) /\ Under(screen, page)
        BY <3>1, <4>1 DEF Chain
      <4> HIDE DEF q
      <4>4. Chain(w)'
        BY <1>1, <4>2, <4>3 DEF Chain, Under
      <4> QED
        BY <1>1, <1>2, <1>3, <4>1, <4>4 DEF AgeInv, PagesAge
    <3>5. ImageInv'
      <4>1. /\ thread'["shm"].image = thread["shm"].image /\ thread'["gpu"].image = thread["gpu"].image
            /\ \/ /\ thread'["gpu"].hand = thread["gpu"].hand
                  /\ queue'["gpu"].pending = queue["gpu"].pending
               \/ /\ thread'["gpu"].hand = queue["gpu"].pending /\ queue["gpu"].pending # NoFrame
                  /\ queue'["gpu"].pending = NoFrame
        BY <1>4, <1>6, <1>8, <1>9, <3>1 DEF Workers
      <4> QED
        BY <1>1, <4>1 DEF PaintInv, ImageInv, Under
    <3>6. PaintedInv'
      <4>1. \A v \in Workers : /\ queue'[v].pending = queue[v].pending \/ queue'[v].pending = NoFrame
                               /\ thread'[v].hand = thread[v].hand \/ thread'[v].hand = queue[v].pending
        BY <1>4, <1>8, <1>9, <3>1
      <4> QED
        BY <1>1, <4>1 DEF PaintInv, PaintedInv, Positive
    <3> QED
      BY <3>2, <3>3, <3>4, <3>5, <3>6
  <2> QED
    BY <2>1, <2>2
<1>12. ShadowInv'
  <2> SUFFICES ASSUME presenter = "wl_shm", ~paintUsed.dropped
               PROVE  ~gated' /\ queue'["shm"].visible /\ QueuedBuilds' /\ HandBuilds'
    BY <1>1 DEF ShadowInv
  <2>1. ~gated /\ queue["shm"].visible /\ QueuedBuilds /\ HandBuilds
    BY DEF PaintInv, ShadowInv
  <2>2. w = "shm"
    BY <1>3 DEF Target
  <2>3. /\ queue'["shm"].pending = NoFrame /\ queue'["shm"].frameSize = queue["shm"].frameSize
        /\ queue'["shm"].visible /\ thread'["shm"].image = thread["shm"].image
    BY <1>4, <1>6, <1>8, <1>9, <2>1, <2>2
  <2>4. CASE ~taken
    <3>1. thread'["shm"].hand = thread["shm"].hand
      BY <1>3, <1>6, <1>9, <2>2, <2>4
    <3>2. surface = "alive" => queue["shm"].pending = NoFrame
      BY <2>1, <2>2, <2>4 DEF PaintInv, AliveInv
    <3>3. QueuedBuilds'
      BY <1>1, <2>1, <2>3, <3>1, <3>2 DEF PaintInv, AliveInv, QueuedBuilds, ShadowSize
    <3> QED
      BY <1>1, <2>1, <2>3, <3>1, <3>3 DEF HandBuilds, Positive
  <2>5. CASE taken
    <3>1. /\ thread'["shm"].hand = queue["shm"].pending /\ queue["shm"].pending # NoFrame
      BY <1>6, <1>7, <1>9, <2>2, <2>5
    <3>2. /\ queue["shm"].pending.size = queue["shm"].frameSize
          /\ queue["shm"].pending.full \/ queue["shm"].pending.size = thread["shm"].image.size
      BY <1>3, <2>1, <2>2, <3>1 DEF QueuedBuilds, ShadowSize
    <3>3. ShadowSize' = queue["shm"].pending.size
      BY <3>1 DEF ShadowSize
    <3>4. QueuedBuilds'
      BY <1>1, <2>1, <2>3, <3>2, <3>3 DEF QueuedBuilds
    <3>5. HandBuilds'
      BY <2>1, <2>3, <3>1, <3>2 DEF HandBuilds, Positive
    <3> QED
      BY <1>1, <2>1, <2>3, <3>4, <3>5
  <2> QED
    BY <2>4, <2>5
<1> QED
  BY <1>10, <1>11, <1>12 DEF PaintInv

(* What is drawn of a frame over an older image.                            *)
DrawnFrom(d, f, ts, image) ==
  \A t \in Tiles : \/ d.tiles[t] = f.tiles[t]
                   \/ /\ t \notin ts
                      /\ d.tiles[t] = image.tiles[t] \/ (image.size # f.size /\ d.tiles[t] = 0)

LEMMA DrawnOver ==
  ASSUME NEW image \in Image, NEW f \in Frame, NEW ts \in SUBSET Tiles, Under(image, f),
         NEW d, d = Draw(Fitted(image, f.size), f, ts)
  PROVE  d \in Image /\ d.size = f.size /\ Under(d, f) /\ DrawnFrom(d, f, ts, image)
<1> DEFINE g == Fitted(image, f.size)
<1>1. f.size \in FrameSizes /\ f.tiles \in [Tiles -> Nat] /\ image.tiles \in [Tiles -> Nat]
  BY DEF Frame, Image
<1>2. /\ g \in Image /\ g.size = f.size /\ (image.size = f.size => g = image)
      /\ \A t \in Tiles : g.tiles[t] = image.tiles[t] \/ g.tiles[t] = 0
  BY <1>1, FittedIs
<1>3. /\ d \in Image /\ d.size = g.size
      /\ \A t \in Tiles : d.tiles[t] = IF t \in ts THEN f.tiles[t] ELSE g.tiles[t]
  BY <1>2, DrawIs
<1> HIDE DEF g
<1>4. ASSUME NEW t \in Tiles
      PROVE  /\ d.tiles[t] <= f.tiles[t]
             /\ \/ d.tiles[t] = f.tiles[t]
                \/ /\ t \notin ts
                   /\ d.tiles[t] = image.tiles[t] \/ (image.size # f.size /\ d.tiles[t] = 0)
  <2>1. f.tiles[t] \in Nat /\ image.tiles[t] \in Nat /\ image.tiles[t] <= f.tiles[t]
    BY <1>1 DEF Under
  <2>2. CASE t \in ts
    BY <1>3, <2>1, <2>2
  <2>3. CASE t \notin ts
    BY <1>2, <1>3, <2>1, <2>3
  <2> QED
    BY <2>2, <2>3
<1> QED
  BY <1>2, <1>3, <1>4 DEF Under, DrawnFrom

NotBack ==
  screen'.size = screen.size =>
    \A t \in Tiles : screen'.tiles[t] >= screen.tiles[t]
                     \/ (presenter = "wl_gpu" /\ screen'.tiles[t] = 0)

(* A worker is done with the frame it had in hand.                          *)
LEMMA DoneKeeps ==
  ASSUME PaintInv, NEW w \in Workers, thread[w].pc = "present", NEW image \in Image,
         Done(w, image), UNCHANGED <<queue, gpuFailed>>, UNCHANGED PresentOthers,
         screen' \in Image, Under(screen', thread[w].hand)
  PROVE  /\ PageTyped' /\ WorkersTyped' /\ ScreenTyped'
         /\ TargetInv' /\ AgeInv' /\ PaintedInv' /\ AliveInv'
<1> DEFINE new == [pc |-> "check", hand |-> NoFrame, image |-> image]
<1>1. /\ thread' = [thread EXCEPT ![w] = new]
      /\ UNCHANGED <<queue, gpuFailed, presenter, page, submit, surface, gated, paintUsed>>
  BY DEF Done, PresentOthers
<1>2. /\ queue \in Queues /\ thread \in Threads /\ screen \in Image /\ page \in Image
      /\ Target \in Workers /\ Target' = Target
  BY <1>1, TargetIs DEF PaintInv, WorkersTyped, ScreenTyped, PageTyped, Target
<1>3. w = Target /\ thread[w].hand # NoFrame /\ thread[w].hand \in Frame
  BY <1>2 DEF PaintInv, TargetInv, Threads, WorkerThread
<1>4. new \in WorkerThread /\ new.pc = "check" /\ new.hand = NoFrame
  BY DEF WorkerThread
<1> HIDE DEF new
<1>5. /\ thread' \in Threads /\ thread'[w] = new
      /\ \A v \in Workers : v # w => thread'[v] = thread[v]
  BY <1>1, <1>2, <1>4 DEF Threads
<1>6. PageTyped' /\ WorkersTyped' /\ ScreenTyped' /\ AliveInv'
  BY <1>1, <1>2, <1>5 DEF PaintInv, PageTyped, WorkersTyped, ScreenTyped, AliveInv
<1>7. TargetInv'
  <2>1. \A v \in Workers : /\ v # Target => thread'[v].pc \in {"none", "ended"}
                           /\ thread'[v].pc = "present" <=> thread'[v].hand # NoFrame
    BY <1>3, <1>4, <1>5 DEF PaintInv, TargetInv
  <2>2. presenter = "x11_gpu" /\ ~gpuFailed => thread'["shm"].hand = NoFrame
    BY <1>4, <1>5 DEF PaintInv, TargetInv, Workers
  <2> QED
    BY <1>1, <1>2, <2>1, <2>2 DEF PaintInv, TargetInv
<1>8. AgeInv'
  <2>1. Chain(w) /\ PagesAge
    BY <1>3 DEF PaintInv, AgeInv
  <2> DEFINE f == thread[w].hand
             p == queue[w].pending
  <2>2. f.tiles \in [Tiles -> Nat] /\ page.tiles \in [Tiles -> Nat] /\ screen'.tiles \in [Tiles -> Nat]
        /\ (p # NoFrame => p.tiles \in [Tiles -> Nat])
    BY <1>2, <1>3 DEF Frame, Image, Queues, WorkerQueue
  <2>3. Under(f, page) /\ Under(screen', f) /\ (p # NoFrame => Under(f, p) /\ Under(p, page))
    BY <1>3, <2>1 DEF Chain
  <2> HIDE DEF f, p
  <2>4. Under(screen', page) /\ (p # NoFrame => Under(screen', p))
    BY <2>2, <2>3, UnderOver
  <2>5. Chain(w)'
    BY <1>1, <1>4, <1>5, <2>3, <2>4 DEF Chain, Under, p
  <2> QED
    BY <1>1, <1>2, <1>3, <2>1, <2>5 DEF AgeInv, PagesAge
<1>9. PaintedInv'
  BY <1>1, <1>4, <1>5 DEF PaintInv, PaintedInv, Positive
<1> QED
  BY <1>6, <1>7, <1>8, <1>9

(* The frame in hand, of the worker that serves the surface.                *)
LEMMA HandIs ==
  ASSUME PaintInv, NEW w \in Workers, thread[w].pc = "present"
  PROVE  /\ w = Target /\ thread[w].hand \in Frame /\ thread[w].hand # NoFrame
         /\ thread[w].hand.dirty \in SUBSET Tiles /\ thread[w].hand.size \in FrameSizes
         /\ thread[w].image \in Image /\ screen \in Image
         /\ Under(screen, thread[w].hand) /\ Under(thread[w].hand, page)
         /\ Positive(thread[w].hand)
<1>1. thread \in Threads /\ screen \in Image
  BY DEF PaintInv, WorkersTyped, ScreenTyped
<1>2. w = Target /\ thread[w].hand # NoFrame /\ thread[w].hand \in Frame /\ thread[w].image \in Image
  BY <1>1 DEF PaintInv, TargetInv, Threads, WorkerThread
<1>3. Under(screen, thread[w].hand) /\ Under(thread[w].hand, page) /\ Positive(thread[w].hand)
  BY <1>2 DEF PaintInv, AgeInv, Chain, PaintedInv
<1> QED
  BY <1>1, <1>2, <1>3 DEF Frame

(* The SHM worker of Wayland.                                               *)
LEMMA ShadowKeeps ==
  ASSUME PaintInv, PresentShadow
  PROVE  PaintInv' /\ NotBack
<1> DEFINE f == thread["shm"].hand
           ts == IF f.full THEN Tiles ELSE f.dirty
           image == Draw(Fitted(thread["shm"].image, f.size), f, ts)
<1>1. /\ presenter = "wl_shm" /\ thread["shm"].pc = "present" /\ "shm" \in Workers
      /\ screen' = image /\ Done("shm", image)
      /\ UNCHANGED <<queue, gpuFailed>> /\ UNCHANGED PresentOthers
  BY DEF PresentShadow, Workers
<1>2. /\ f \in Frame /\ f # NoFrame /\ f.dirty \in SUBSET Tiles /\ screen \in Image /\ Under(screen, f)
      /\ Positive(f) /\ thread["shm"].image = screen /\ f.size \in FrameSizes
  BY <1>1, HandIs DEF PaintInv, ImageInv
<1>3. ts \in SUBSET Tiles /\ (f.full => ts = Tiles)
  BY <1>2
<1> HIDE DEF ts
<1>4. /\ image \in Image /\ image.size = f.size /\ Under(image, f)
      /\ \A t \in Tiles : \/ image.tiles[t] = f.tiles[t]
                          \/ /\ t \notin ts
                             /\ image.tiles[t] = screen.tiles[t] \/ (screen.size # f.size /\ image.tiles[t] = 0)
  <2>1. image = Draw(Fitted(screen, f.size), f, ts)
    BY <1>2
  <2>2. screen \in Image /\ f \in Frame /\ ts \in SUBSET Tiles /\ Under(screen, f)
    BY <1>2, <1>3
  <2> HIDE DEF f, image
  <2>3. image \in Image /\ image.size = f.size /\ Under(image, f) /\ DrawnFrom(image, f, ts, screen)
    BY <2>1, <2>2, DrawnOver
  <2> QED
    BY <2>3 DEF DrawnFrom
<1> HIDE DEF image
<1>5. /\ PageTyped' /\ WorkersTyped' /\ ScreenTyped'
      /\ TargetInv' /\ AgeInv' /\ PaintedInv' /\ AliveInv'
  <2>1. screen' \in Image /\ Under(screen', thread["shm"].hand)
    BY <1>1, <1>4 DEF Under
  <2> HIDE DEF f
  <2> QED
    BY <1>1, <1>4, <2>1, DoneKeeps
<1>6. thread \in Threads
  BY DEF PaintInv, WorkersTyped
<1>7. /\ thread'["shm"].hand = NoFrame /\ thread'["shm"].image = image
      /\ thread'["gpu"] = thread["gpu"]
      /\ UNCHANGED <<queue, gpuFailed, presenter, page, submit, surface, gated, paintUsed>>
  <2>1. thread' = [thread EXCEPT !["shm"] = [pc |-> "check", hand |-> NoFrame, image |-> image]]
    BY <1>1 DEF Done
  <2> QED
    BY <1>1, <1>6, <2>1 DEF Threads, Workers, PresentOthers
<1>8. ImageInv'
  BY <1>1, <1>7 DEF ImageInv
<1>9. ShadowInv'
  <2> SUFFICES ASSUME ~paintUsed.dropped
               PROVE  ~gated' /\ queue'["shm"].visible /\ QueuedBuilds' /\ HandBuilds'
    BY <1>7 DEF ShadowInv
  <2>1. ~gated /\ queue["shm"].visible /\ QueuedBuilds /\ HandBuilds
    BY <1>1 DEF PaintInv, ShadowInv
  <2>2. ShadowSize' = ShadowSize
    BY <1>2, <1>4, <1>7 DEF ShadowSize
  <2>3. QueuedBuilds'
    BY <1>7, <2>1, <2>2 DEF QueuedBuilds
  <2>4. Positive(image)
    <3> SUFFICES ASSUME NEW t \in Tiles PROVE image.tiles[t] > 0
      BY DEF Positive
    <3>1. f.tiles[t] > 0
      BY <1>2 DEF Positive
    <3>2. CASE image.tiles[t] = f.tiles[t]
      BY <3>1, <3>2
    <3>3. CASE image.tiles[t] # f.tiles[t]
      <4>1. t \notin ts /\ (image.tiles[t] = screen.tiles[t] \/ screen.size # f.size)
        BY <1>4, <3>3
      <4>2. screen.size = f.size
        BY <1>2, <1>3, <2>1, <4>1 DEF HandBuilds
      <4>3. screen.size # 0
        BY <1>2, <4>2, PaintAssumption
      <4>4. screen.tiles[t] > 0
        BY <1>2, <2>1, <4>3 DEF HandBuilds, Positive
      <4> QED
        BY <4>1, <4>2, <4>4
    <3> QED
      BY <3>2, <3>3
  <2>5. HandBuilds'
    BY <1>7, <2>4 DEF HandBuilds, Positive
  <2> QED
    BY <1>7, <2>1, <2>3, <2>5
<1>10. NotBack
  <2> SUFFICES ASSUME screen'.size = screen.size, NEW t \in Tiles
               PROVE  screen'.tiles[t] >= screen.tiles[t]
    BY DEF NotBack
  <2>1. f.tiles[t] >= screen.tiles[t] /\ screen.tiles[t] >= screen.tiles[t]
    BY <1>2 DEF Under, Image, Frame
  <2>2. image.tiles[t] = f.tiles[t] \/ image.tiles[t] = screen.tiles[t]
    BY <1>1, <1>4
  <2> QED
    BY <1>1, <2>1, <2>2
<1> QED
  BY <1>5, <1>8, <1>9, <1>10 DEF PaintInv

(* The SHM worker of X11.                                                   *)
LEMMA RectanglesKeep ==
  ASSUME PaintInv, PutRectangles
  PROVE  PaintInv' /\ NotBack
<1> DEFINE f == thread["shm"].hand
           image == Draw(Fitted(screen, f.size), f, f.dirty)
<1>1. /\ presenter \in {"x11_shm", "x11_gpu"} /\ thread["shm"].pc = "present" /\ "shm" \in Workers
      /\ screen' = image /\ Done("shm", Blank(0))
      /\ UNCHANGED <<queue, gpuFailed>> /\ UNCHANGED PresentOthers
  BY DEF PutRectangles, Workers
<1>2. /\ f \in Frame /\ f # NoFrame /\ f.dirty \in SUBSET Tiles /\ screen \in Image /\ Under(screen, f)
      /\ Target = "shm" /\ f.size \in FrameSizes
  BY <1>1, HandIs
<1>3. Blank(0) \in Image
  BY DEF Blank, Image
<1>4. /\ image \in Image /\ image.size = f.size /\ Under(image, f)
      /\ \A t \in Tiles : \/ image.tiles[t] = f.tiles[t]
                          \/ image.tiles[t] = screen.tiles[t]
                          \/ screen.size # f.size
  <2>1. image = Draw(Fitted(screen, f.size), f, f.dirty)
    OBVIOUS
  <2>2. screen \in Image /\ f \in Frame /\ f.dirty \in SUBSET Tiles /\ Under(screen, f)
    BY <1>2
  <2> HIDE DEF f, image
  <2>3. image \in Image /\ image.size = f.size /\ Under(image, f) /\ DrawnFrom(image, f, f.dirty, screen)
    BY <2>1, <2>2, DrawnOver
  <2> QED
    BY <2>3 DEF DrawnFrom
<1> HIDE DEF image
<1>5. /\ PageTyped' /\ WorkersTyped' /\ ScreenTyped'
      /\ TargetInv' /\ AgeInv' /\ PaintedInv' /\ AliveInv'
  <2>1. screen' \in Image /\ Under(screen', thread["shm"].hand)
    BY <1>1, <1>4 DEF Under
  <2> HIDE DEF f
  <2> QED
    BY <1>1, <1>3, <2>1, DoneKeeps
<1>6. UNCHANGED <<queue, gpuFailed, presenter, page, submit, surface, gated, paintUsed>>
  BY <1>1 DEF PresentOthers
<1>7. ImageInv'
  <2>1. presenter = "x11_gpu" => gpuFailed
    BY <1>2 DEF Target
  <2> QED
    BY <1>1, <1>6, <2>1 DEF ImageInv
<1>8. ShadowInv'
  BY <1>1, <1>6 DEF ShadowInv
<1>9. NotBack
  <2> SUFFICES ASSUME screen'.size = screen.size, NEW t \in Tiles
               PROVE  screen'.tiles[t] >= screen.tiles[t]
    BY DEF NotBack
  <2>1. f.tiles[t] >= screen.tiles[t] /\ screen.tiles[t] >= screen.tiles[t]
    BY <1>2 DEF Under, Image, Frame
  <2>2. image.tiles[t] = f.tiles[t] \/ image.tiles[t] = screen.tiles[t]
    BY <1>1, <1>4
  <2> QED
    BY <1>1, <2>1, <2>2
<1> QED
  BY <1>5, <1>7, <1>8, <1>9 DEF PaintInv

(* The GPU worker.                                                          *)
LEMMA PixelsKeep ==
  ASSUME PaintInv, PushPixels
  PROVE  PaintInv' /\ NotBack
<1> DEFINE f == thread["gpu"].hand
           old == thread["gpu"].image
           image == Draw(Fitted(old, f.size), f, f.dirty)
<1>1. /\ thread["gpu"].pc = "present" /\ "gpu" \in Workers
      /\ screen' = image \/ (screen' = screen /\ presenter = "wl_gpu")
      /\ Done("gpu", image)
      /\ UNCHANGED <<queue, gpuFailed>> /\ UNCHANGED PresentOthers
  BY DEF PushPixels, Workers
<1>2. /\ f \in Frame /\ f # NoFrame /\ f.dirty \in SUBSET Tiles /\ screen \in Image /\ Under(screen, f)
      /\ Target = "gpu" /\ f.size \in FrameSizes /\ Under(f, page) /\ old \in Image
  BY <1>1, HandIs
<1>3. presenter = "wl_gpu" \/ (presenter = "x11_gpu" /\ ~gpuFailed)
  BY <1>2 DEF Target
<1>4. /\ Under(old, f)
      /\ \A t \in Tiles : \/ old.tiles[t] = screen.tiles[t] /\ (presenter = "x11_gpu" => old.size = screen.size)
                          \/ presenter = "wl_gpu" /\ (old.tiles[t] = 0 \/ old.tiles[t] >= screen.tiles[t])
  BY <1>2, <1>3 DEF PaintInv, ImageInv
<1> HIDE DEF old
<1>5. /\ image \in Image /\ image.size = f.size /\ Under(image, f)
      /\ \A t \in Tiles : \/ image.tiles[t] = f.tiles[t]
                          \/ image.tiles[t] = old.tiles[t]
                          \/ old.size # f.size /\ image.tiles[t] = 0
  <2>1. image = Draw(Fitted(old, f.size), f, f.dirty)
    OBVIOUS
  <2>2. old \in Image /\ f \in Frame /\ f.dirty \in SUBSET Tiles /\ Under(old, f)
    BY <1>2, <1>4
  <2> HIDE DEF f, image
  <2>3. image \in Image /\ image.size = f.size /\ Under(image, f) /\ DrawnFrom(image, f, f.dirty, old)
    BY <2>1, <2>2, DrawnOver
  <2> QED
    BY <2>3 DEF DrawnFrom
<1> HIDE DEF image
<1>6. /\ PageTyped' /\ WorkersTyped' /\ ScreenTyped'
      /\ TargetInv' /\ AgeInv' /\ PaintedInv' /\ AliveInv'
  <2>1. screen' \in Image /\ Under(screen', thread["gpu"].hand)
    BY <1>1, <1>2, <1>5 DEF Under
  <2> HIDE DEF f
  <2> QED
    BY <1>1, <1>5, <2>1, DoneKeeps
<1>7. UNCHANGED <<queue, gpuFailed, presenter, page, submit, surface, gated, paintUsed>>
  BY <1>1 DEF PresentOthers
<1>8. /\ thread'["gpu"].hand = NoFrame /\ thread'["gpu"].image = image
  <2>1. thread' = [thread EXCEPT !["gpu"] = [pc |-> "check", hand |-> NoFrame, image |-> image]]
    BY <1>1 DEF Done
  <2>2. thread \in Threads
    BY DEF PaintInv, WorkersTyped
  <2> QED
    BY <1>1, <2>1, <2>2 DEF Threads
<1>9. \A t \in Tiles : /\ image.tiles[t] = f.tiles[t] \/ image.tiles[t] = old.tiles[t] \/ image.tiles[t] = 0
                       /\ f.tiles[t] >= screen.tiles[t] /\ screen.tiles[t] >= screen.tiles[t]
  BY <1>2, <1>5 DEF Under, Image, Frame
<1>10. ImageInv'
  <2>1. presenter = "x11_gpu" => thread'["gpu"].image = screen'
    BY <1>1, <1>8
  <2>2. ASSUME presenter = "wl_gpu"
        PROVE  /\ Under(image, page)
               /\ queue["gpu"].pending # NoFrame => Under(image, queue["gpu"].pending)
               /\ \A t \in Tiles : image.tiles[t] = 0 \/ image.tiles[t] >= screen'.tiles[t]
    <3> DEFINE p == queue["gpu"].pending
    <3>1. f.tiles \in [Tiles -> Nat] /\ page.tiles \in [Tiles -> Nat] /\ image.tiles \in [Tiles -> Nat]
          /\ p \in Frame \cup {NoFrame} /\ \A g \in Frame : g.tiles \in [Tiles -> Nat]
      BY <1>1, <1>2, <1>5 DEF Frame, Image, PaintInv, PageTyped, WorkersTyped, Queues, WorkerQueue
    <3>2. p # NoFrame => Under(f, p)
      BY <1>2 DEF PaintInv, AgeInv, Chain
    <3>3. Under(image, page) /\ (p # NoFrame => Under(image, p))
      <4> HIDE DEF p, f
      <4>1. Under(image, page)
        BY <1>2, <1>5, <3>1, UnderOver
      <4>2. ASSUME p # NoFrame PROVE Under(image, p)
        BY <1>5, <3>1, <3>2, <4>2, UnderOver
      <4> QED
        BY <4>1, <4>2
    <3>4. ASSUME NEW t \in Tiles PROVE image.tiles[t] = 0 \/ image.tiles[t] >= screen'.tiles[t]
      <4>1. image.tiles[t] \in Nat
        BY <3>1
      <4>2. CASE screen' = image
        BY <4>1, <4>2
      <4>3. CASE screen' = screen
        BY <1>4, <1>9, <2>2, <4>1, <4>3
      <4> QED
        BY <1>1, <4>2, <4>3
    <3> QED
      BY <3>3, <3>4
  <2>3. presenter # "wl_shm"
    BY <1>3
  <2> QED
    BY <1>7, <1>8, <2>1, <2>2, <2>3 DEF ImageInv, Under
<1>11. ShadowInv'
  BY <1>3, <1>7 DEF ShadowInv
<1>12. NotBack
  <2> SUFFICES ASSUME screen'.size = screen.size, NEW t \in Tiles
               PROVE  screen'.tiles[t] >= screen.tiles[t] \/ (presenter = "wl_gpu" /\ screen'.tiles[t] = 0)
    BY DEF NotBack
  <2>1. CASE screen' = screen
    BY <1>9, <2>1
  <2>2. CASE screen' = image
    <3>1. presenter = "x11_gpu" => image.tiles[t] = f.tiles[t] \/ image.tiles[t] = screen.tiles[t]
      BY <1>3, <1>4, <1>5, <2>2
    <3>2. presenter = "wl_gpu" =>
            image.tiles[t] = f.tiles[t] \/ image.tiles[t] = 0 \/ image.tiles[t] >= screen.tiles[t]
      BY <1>4, <1>9
    <3> QED
      BY <1>3, <1>9, <2>2, <3>1, <3>2
  <2> QED
    BY <1>1, <2>1, <2>2
<1> QED
  BY <1>6, <1>10, <1>11, <1>12 DEF PaintInv

LEMMA FailsKeep ==
  ASSUME PaintInv, GpuFails
  PROVE  PaintInv' /\ NotBack
<1>1. /\ thread["gpu"].pc = "present" /\ "gpu" \in Workers /\ "shm" \in Workers
      /\ UNCHANGED <<queue, screen>> /\ UNCHANGED PresentOthers
      /\ IF presenter = "x11_gpu"
         THEN gpuFailed' = TRUE /\ thread' = [thread EXCEPT !["gpu"].pc = "ended", !["gpu"].hand = NoFrame]
         ELSE gpuFailed' = gpuFailed /\ Done("gpu", Blank(0))
  BY DEF GpuFails, Workers
<1>2. /\ Target = "gpu" /\ thread["gpu"].hand \in Frame /\ screen \in Image
      /\ Under(screen, thread["gpu"].hand)
  BY <1>1, HandIs
<1>3. UNCHANGED <<queue, screen, presenter, page, submit, surface, gated, paintUsed>>
  BY <1>1 DEF PresentOthers
<1>4. thread \in Threads /\ presenter # "wl_shm"
  BY <1>2 DEF PaintInv, WorkersTyped, Target
<1>5. NotBack
  BY <1>2, <1>3 DEF NotBack, Image
<1>6. ShadowInv'
  BY <1>3, <1>4 DEF ShadowInv
<1>7. CASE presenter # "x11_gpu"
  <2>1. Blank(0) \in Image /\ \A t \in Tiles : Blank(0).tiles[t] = 0
    BY DEF Blank, Image
  <2>2. /\ PageTyped' /\ WorkersTyped' /\ ScreenTyped'
        /\ TargetInv' /\ AgeInv' /\ PaintedInv' /\ AliveInv'
    <3>1. screen' \in Image /\ Under(screen', thread["gpu"].hand)
      BY <1>2, <1>3
    <3> QED
      BY <1>1, <1>7, <2>1, <3>1, DoneKeeps
  <2>3. thread'["gpu"].hand = NoFrame /\ thread'["gpu"].image = Blank(0)
    BY <1>1, <1>4, <1>7 DEF Done, Threads
  <2>4. ASSUME NEW a, a.tiles \in [Tiles -> Nat] PROVE Under(Blank(0), a)
    <3>1. \A t \in Tiles : a.tiles[t] \in Nat
      BY <2>4
    <3> QED
      BY <2>1, <3>1 DEF Under
  <2>5. Under(Blank(0), page) /\ (queue["gpu"].pending # NoFrame => Under(Blank(0), queue["gpu"].pending))
    <3>1. page.tiles \in [Tiles -> Nat]
          /\ (queue["gpu"].pending # NoFrame => queue["gpu"].pending.tiles \in [Tiles -> Nat])
      BY DEF PaintInv, PageTyped, WorkersTyped, Image, Queues, WorkerQueue, Frame, Workers
    <3> QED
      BY <2>4, <3>1
  <2>6. ImageInv'
    BY <1>3, <1>4, <1>7, <2>1, <2>3, <2>5 DEF ImageInv, Under
  <2> QED
    BY <1>5, <1>6, <2>2, <2>6 DEF PaintInv
<1>8. CASE presenter = "x11_gpu"
  <2> DEFINE new == [thread["gpu"] EXCEPT !.pc = "ended", !.hand = NoFrame]
  <2>1. new \in WorkerThread /\ new.pc = "ended" /\ new.hand = NoFrame
    BY <1>1, <1>4 DEF Threads, WorkerThread
  <2>2. thread' = [thread EXCEPT !["gpu"] = new] /\ gpuFailed' = TRUE
    BY <1>1, <1>4, <1>8 DEF Threads
  <2> HIDE DEF new
  <2>3. /\ thread' \in Threads /\ thread'["gpu"] = new /\ thread'["shm"] = thread["shm"]
    BY <1>1, <1>4, <2>1, <2>2 DEF Threads
  <2>4. Target' = "shm" /\ ~gpuFailed
    BY <1>2, <1>3, <1>8, <2>2 DEF Target
  <2>5. queue["shm"].pending = NoFrame /\ thread["shm"].hand = NoFrame
        /\ (thread["shm"].pc = "present" <=> thread["shm"].hand # NoFrame)
    BY <1>1, <1>8, <2>4 DEF PaintInv, TargetInv
  <2>6. PageTyped' /\ WorkersTyped' /\ ScreenTyped' /\ AliveInv'
    BY <1>3, <2>2, <2>3 DEF PaintInv, PageTyped, WorkersTyped, ScreenTyped, AliveInv
  <2>7. TargetInv'
    <3>1. \A w \in Workers : w = "gpu" \/ w = "shm"
      BY DEF Workers
    <3> QED
      BY <1>3, <1>8, <2>1, <2>2, <2>3, <2>4, <2>5, <3>1 DEF PaintInv, TargetInv
  <2>8. AgeInv'
    <3>1. Under(screen, page) /\ PagesAge
      BY DEF PaintInv, AgeInv, Chain
    <3>2. queue'["shm"].pending = NoFrame /\ thread'["shm"].hand = NoFrame
      BY <1>3, <2>3, <2>5
    <3> QED
      BY <1>3, <2>4, <3>1, <3>2 DEF AgeInv, PagesAge, Chain, Under
  <2>9. ImageInv'
    BY <1>3, <1>8, <2>2 DEF ImageInv
  <2>10. PaintedInv'
    <3>1. \A w \in Workers : thread'[w].hand = thread[w].hand \/ thread'[w].hand = NoFrame
      BY <2>1, <2>3 DEF Workers
    <3> QED
      BY <1>3, <3>1 DEF PaintInv, PaintedInv, Positive
  <2> QED
    BY <1>5, <1>6, <2>6, <2>7, <2>8, <2>9, <2>10 DEF PaintInv
<1> QED
  BY <1>7, <1>8

LEMMA PaintStart == PaintInit => PaintInv
<1> SUFFICES ASSUME PaintInit PROVE PaintInv
  OBVIOUS
<1>1. /\ presenter \in Presenters /\ page = Blank(0) /\ submit = NoFrame
      /\ queue = [w \in Workers |-> [pending |-> NoFrame, frameSize |-> 0, visible |-> TRUE,
                                     shutdown |-> FALSE]]
      /\ thread = [w \in Workers |-> [pc |-> "none", hand |-> NoFrame, image |-> Blank(0)]]
      /\ gpuFailed = FALSE /\ screen = Blank(0) /\ surface = "alive" /\ gated = FALSE
      /\ paintUsed = [paints |-> 0, gates |-> 0, dropped |-> FALSE]
  BY DEF PaintInit
<1>2. Blank(0) \in Image /\ Blank(0).size = 0 /\ \A t \in Tiles : Blank(0).tiles[t] = 0
  BY DEF Blank, Image
<1>3. \A w \in Workers : /\ queue[w] = [pending |-> NoFrame, frameSize |-> 0, visible |-> TRUE, shutdown |-> FALSE]
                         /\ thread[w] = [pc |-> "none", hand |-> NoFrame, image |-> Blank(0)]
  BY <1>1
<1>4. "shm" \in Workers /\ "gpu" \in Workers /\ Target \in Workers
  BY TargetIs DEF Workers
<1>5. PageTyped /\ ScreenTyped /\ WorkersTyped
  <2>1. paintUsed \in [paints : Nat, gates : Nat, dropped : BOOLEAN]
    BY <1>1
  <2>2. queue \in Queues
    BY <1>1 DEF Queues, WorkerQueue
  <2>3. thread \in Threads
    BY <1>1, <1>2 DEF Threads, WorkerThread
  <2> QED
    BY <1>1, <1>2, <2>1, <2>2, <2>3 DEF PageTyped, ScreenTyped, WorkersTyped
<1>6. TargetInv /\ AliveInv
  BY <1>1, <1>3, <1>4 DEF TargetInv, AliveInv
<1>7. AgeInv
  BY <1>1, <1>2, <1>3, <1>4 DEF AgeInv, PagesAge, Chain, Under
<1>8. ImageInv
  BY <1>1, <1>2, <1>3, <1>4 DEF ImageInv, Under
<1>9. PaintedInv
  BY <1>1, <1>2, <1>3 DEF PaintedInv
<1>10. ShadowInv
  BY <1>1, <1>2, <1>3, <1>4 DEF ShadowInv, QueuedBuilds, HandBuilds, ShadowSize
<1> QED
  BY <1>5, <1>6, <1>7, <1>8, <1>9, <1>10 DEF PaintInv

LEMMA PaintSteps == PaintInv /\ [PaintNext]_paintVars => PaintInv' /\ (NotBack \/ UNCHANGED paintVars)
<1> SUFFICES ASSUME PaintInv, [PaintNext]_paintVars PROVE PaintInv' /\ (NotBack \/ UNCHANGED paintVars)
  OBVIOUS
<1>1. ASSUME UNCHANGED screen PROVE NotBack
  <2>1. \A t \in Tiles : screen.tiles[t] >= screen.tiles[t]
    BY DEF PaintInv, ScreenTyped, Image
  <2> QED
    BY <1>1, <2>1 DEF NotBack
<1>2. ASSUME NEW n \in FrameSizes, NEW dirty \in SUBSET Tiles, Paint(n, dirty) PROVE PaintInv' /\ UNCHANGED screen
  BY <1>2, PaintKeeps DEF Paint
<1>3. CASE Submit
  BY <1>1, <1>3, SubmitKeeps DEF Submit
<1>4. CASE Gate \/ Ungate \/ StopWorkers \/ JoinWorker
  BY <1>1, <1>4, GateKeeps, UngateKeeps, StopKeeps, JoinKeeps DEF Gate, Ungate, StopWorkers, JoinWorker
<1>5. ASSUME NEW w \in Workers, PainterStep(w) PROVE PaintInv' /\ NotBack
  <2>1. CASE Check(w)
    BY <1>1, <2>1, CheckKeeps DEF Check
  <2> QED
    BY <1>5, <2>1, ShadowKeeps, RectanglesKeep, PixelsKeep, FailsKeep DEF PainterStep
<1>6. CASE UNCHANGED paintVars
  BY <1>6, PaintStutter
<1> QED
  BY <1>1, <1>2, <1>3, <1>4, <1>5, <1>6 DEF PaintNext

LEMMA PaintAlways == PaintSpec => []PaintInv
<1>1. PaintSpec => PaintInit /\ [][PaintNext]_paintVars
  BY DEF PaintSpec
<1>2. PaintInv /\ [PaintNext]_paintVars => PaintInv'
  BY PaintSteps
<1> QED
  BY <1>1, <1>2, PaintStart, PTL

(* The types of the workers' state.                                         *)
THEOREM PaintTypeCorrect == PaintSpec => []PaintTypeOK
<1>1. PaintInv => PaintTypeOK
  BY DEF PaintInv, PageTyped, WorkersTyped, ScreenTyped, Queues, Threads, WorkerQueue, WorkerThread,
         PaintTypeOK
<1> QED
  BY <1>1, PaintAlways, PTL

(* Without a transition in between, the screen of the Wayland SHM worker    *)
(* has no blank tile, whatever dirty frames replace each other in the queue *)
(* and however often the size changes (shm_paint_worker.rs, submit_frame    *)
(* and present).                                                            *)
THEOREM NoBlankCorrect == PaintSpec => []NoBlankTiles
<1>1. PaintInv => NoBlankTiles
  BY DEF PaintInv, ImageInv, ShadowInv, HandBuilds, Positive, NoBlankTiles
<1> QED
  BY <1>1, PaintAlways, PTL

(* No presenter puts an older picture over a newer one, across the change   *)
(* from the GPU worker to the SHM worker of X11 too.                        *)
THEOREM NeverBackCorrect == PaintSpec => ScreenNeverGoesBack
<1>1. PaintSpec => PaintInit /\ [][PaintNext]_paintVars
  BY DEF PaintSpec
<1>2. PaintInv /\ [PaintNext]_paintVars
        => [screen'.size = screen.size =>
              \A t \in Tiles : screen'.tiles[t] >= screen.tiles[t]
                               \/ (presenter = "wl_gpu" /\ screen'.tiles[t] = 0)]_paintVars
  BY PaintSteps DEF NotBack
<1> QED
  BY <1>1, <1>2, PaintAlways, PTL DEF ScreenNeverGoesBack

-----------------------------------------------------------------------------
(* ServerConnect. *)

Saves == {"navigateMain", "saveServerUrl"}
Moves == {"navigateMain", "saveServerUrl", "cancelServerConnectivity"}
Request == [op : {"getSavedServerUrl", "cancelServerConnectivity", "dismissOverlay"}, url : {NoUrl}]
             \cup [op : {"checkServerConnectivity", "navigateMain", "saveServerUrl"}, url : Addresses]
Requests == Seq(Request)
Replies == Seq(Message)
OverlayStates == [at : {"boot", "idle", "leaving", "gone"} \cup Connecting,
              server : Url, mainLoaded : BOOLEAN, pendingUrl : Url]
Webs == [url : Url, pending : Url, state : {"normal", "recreating"}, layer_ptr : BOOLEAN]
Probes == [made : Seq(Probe), active : Nat]
Histories == [verified : SUBSET Addresses, stale : BOOLEAN, late : BOOLEAN, escapes : 0..MaxEscapes]

(* The types, by name.                                                      *)
QueuesTyped == toNative \in Requests /\ toPage \in Replies
StateTyped ==
  /\ overlay \in OverlayStates /\ web \in Webs /\ history \in Histories
  /\ focus \in {"overlay", "main", "none"} /\ server_url \in Url
ProbesTyped ==
  /\ probes \in Probes /\ probes.active \in 0..Len(probes.made)
  /\ \A i \in 1..Len(probes.made) : probes.made[i].phase # "Head" => probes.made[i].base \in Addresses

(* No message of these kinds.                                               *)
NoOp(q, ops) == \A i \in 1..Len(q) : q[i].op \notin ops

(* The saved address is told once, and the page is at its start till then.  *)
OneSaved(q) ==
  \E i \in 1..Len(q) : /\ q[i].op = "savedServerUrl"
                       /\ \A j \in 1..Len(q) : q[j].op = "savedServerUrl" => j = i
StartInv ==
  /\ overlay.at = "boot" =>
       \/ toNative = <<[op |-> "getSavedServerUrl", url |-> NoUrl]>> /\ NoOp(toPage, {"savedServerUrl"})
       \/ toNative = <<>> /\ OneSaved(toPage)
  /\ overlay.at # "boot" => NoOp(toNative, {"getSavedServerUrl"}) /\ NoOp(toPage, {"savedServerUrl"})

(* An answer that says yes is of an address that has answered.              *)
AnswersInv ==
  /\ \A i \in 1..Len(toPage) :
       toPage[i].op = "serverConnectivityResult" =>
         (toPage[i].ok => toPage[i].base \in history.verified)
  /\ overlay.pendingUrl # NoUrl => overlay.at = "probe"
  /\ web.state = "normal" => web.pending = NoUrl

(* While main is taken for loading and no attempt has succeeded, nothing    *)
(* has touched the main browser.                                            *)
LoadedInv ==
  overlay.at \in {"boot", "idle", "probe"} /\ (overlay.mainLoaded \/ overlay.at = "boot")
    => NoOp(toNative, Moves) /\ web.state = "normal"

(* What will be saved, and what the main browser will show, when the page   *)
(* is on its way out after a success.                                       *)
SavedOk ==
  \/ NoOp(toNative, Saves) /\ server_url \in history.verified
  \/ \E i \in 1..Len(toNative) :
       /\ toNative[i].op \in Saves /\ toNative[i].url \in history.verified
       /\ \A j \in 1..Len(toNative) : j > i => toNative[j].op \notin Saves
NavigatesLast ==
  \E i \in 1..Len(toNative) :
    /\ toNative[i].op = "navigateMain"
    /\ \A j \in 1..Len(toNative) : j > i => toNative[j].op \notin Moves
HeadsThere ==
  /\ NoOp(toNative, {"navigateMain", "cancelServerConnectivity"})
  /\ web.state = "recreating" => web.pending # NoUrl
  /\ Heading = overlay.server \/ (NoOp(toNative, {"saveServerUrl"}) /\ Heading = server_url)
SuccessInv ==
  overlay.at \in {"delay", "fading", "gone"} /\ ~history.late =>
    SavedOk /\ (history.stale \/ NavigatesLast \/ HeadsThere)
EndInv ==
  /\ overlay.at = "leaving" => history.late
  /\ overlay.at = "gone" => toNative = <<>>

ConnectInv ==
  /\ QueuesTyped /\ StateTyped /\ ProbesTyped
  /\ StartInv /\ AnswersInv /\ LoadedInv /\ SuccessInv /\ EndInv

(* The two queues: what is in them after a message is added or taken.       *)
LEMMA RequestAppend ==
  ASSUME NEW q \in Requests, NEW e \in Request
  PROVE  /\ Append(q, e) \in Requests /\ Len(Append(q, e)) = Len(q) + 1 /\ Len(q) \in Nat
         /\ Append(q, e)[Len(q) + 1] = e
         /\ \A i \in 1..Len(q) : Append(q, e)[i] = q[i]
BY DEF Requests

LEMMA RequestsAdded ==
  ASSUME NEW q \in Requests, NEW a \in Request, NEW b \in Request
  PROVE  /\ q \o <<a>> \o <<>> = Append(q, a)
         /\ q \o <<a>> \o <<b>> = Append(Append(q, a), b)
BY DEF Requests

LEMMA RequestTail ==
  ASSUME NEW q \in Requests, q # <<>>
  PROVE  /\ Head(q) = q[1] /\ Head(q) \in Request /\ Tail(q) \in Requests
         /\ Len(q) \in Nat /\ Len(q) > 0 /\ Len(Tail(q)) = Len(q) - 1
         /\ \A i \in 1..Len(Tail(q)) : Tail(q)[i] = q[i + 1]
BY DEF Requests

LEMMA ReplyAppend ==
  ASSUME NEW q \in Replies, NEW e \in Message
  PROVE  /\ Append(q, e) \in Replies /\ Len(Append(q, e)) = Len(q) + 1 /\ Len(q) \in Nat
         /\ Append(q, e)[Len(q) + 1] = e
         /\ \A i \in 1..Len(q) : Append(q, e)[i] = q[i]
BY DEF Replies

LEMMA ReplyTail ==
  ASSUME NEW q \in Replies, q # <<>>
  PROVE  /\ Head(q) = q[1] /\ Head(q) \in Message /\ Tail(q) \in Replies
         /\ Len(q) \in Nat /\ Len(q) > 0 /\ Len(Tail(q)) = Len(q) - 1
         /\ \A i \in 1..Len(Tail(q)) : Tail(q)[i] = q[i + 1]
BY DEF Replies

LEMMA NoOpAppend ==
  ASSUME NEW q \in Requests, NEW e \in Request, NEW ops, NoOp(q, ops), e.op \notin ops
  PROVE  NoOp(Append(q, e), ops)
<1> SUFFICES ASSUME NEW i \in 1..Len(Append(q, e)) PROVE Append(q, e)[i].op \notin ops
  BY DEF NoOp
<1>1. i \in 1..Len(q) \/ i = Len(q) + 1
  BY RequestAppend
<1> QED
  BY <1>1, RequestAppend DEF NoOp

LEMMA NoOpTail ==
  ASSUME NEW q \in Requests, q # <<>>, NEW ops, NoOp(q, ops)
  PROVE  NoOp(Tail(q), ops) /\ Head(q).op \notin ops
<1>1. ASSUME NEW i \in 1..Len(Tail(q)) PROVE Tail(q)[i].op \notin ops
  <2>1. i + 1 \in 1..Len(q) /\ Tail(q)[i] = q[i + 1]
    BY RequestTail
  <2> QED
    BY <2>1 DEF NoOp
<1>2. 1 \in 1..Len(q) /\ Head(q) = q[1]
  BY RequestTail
<1> QED
  BY <1>1, <1>2 DEF NoOp

(* The answer with the saved address, in the queue to the page.             *)
LEMMA SavedAppend ==
  ASSUME NEW q \in Replies, NEW e \in Message
  PROVE  /\ e.op # "savedServerUrl" /\ NoOp(q, {"savedServerUrl"}) => NoOp(Append(q, e), {"savedServerUrl"})
         /\ e.op # "savedServerUrl" /\ OneSaved(q) => OneSaved(Append(q, e))
         /\ e.op = "savedServerUrl" /\ NoOp(q, {"savedServerUrl"}) => OneSaved(Append(q, e))
<1> DEFINE r == Append(q, e)
<1>1. /\ Len(r) = Len(q) + 1 /\ Len(q) \in Nat /\ r[Len(q) + 1] = e
      /\ \A i \in 1..Len(q) : r[i] = q[i]
  BY ReplyAppend
<1> HIDE DEF r
<1>2. \A i \in 1..Len(r) : i \in 1..Len(q) \/ i = Len(q) + 1
  BY <1>1
<1>3. ASSUME e.op # "savedServerUrl", NoOp(q, {"savedServerUrl"}) PROVE NoOp(r, {"savedServerUrl"})
  BY <1>1, <1>2, <1>3 DEF NoOp
<1>4. ASSUME e.op # "savedServerUrl", OneSaved(q) PROVE OneSaved(r)
  <2>1. PICK i \in 1..Len(q) : /\ q[i].op = "savedServerUrl"
                               /\ \A j \in 1..Len(q) : q[j].op = "savedServerUrl" => j = i
    BY <1>4 DEF OneSaved
  <2>2. i \in 1..Len(r) /\ r[i].op = "savedServerUrl"
    BY <1>1, <2>1
  <2>3. \A j \in 1..Len(r) : r[j].op = "savedServerUrl" => j = i
    BY <1>1, <1>2, <1>4, <2>1
  <2> QED
    BY <2>2, <2>3 DEF OneSaved
<1>5. ASSUME e.op = "savedServerUrl", NoOp(q, {"savedServerUrl"}) PROVE OneSaved(r)
  <2>1. Len(q) + 1 \in 1..Len(r) /\ r[Len(q) + 1].op = "savedServerUrl"
    BY <1>1, <1>5
  <2>2. \A j \in 1..Len(r) : r[j].op = "savedServerUrl" => j = Len(q) + 1
    BY <1>1, <1>2, <1>5 DEF NoOp
  <2> QED
    BY <2>1, <2>2 DEF OneSaved
<1> QED
  BY <1>3, <1>4, <1>5 DEF r

LEMMA SavedTail ==
  ASSUME NEW q \in Replies, q # <<>>
  PROVE  /\ NoOp(q, {"savedServerUrl"}) =>
              NoOp(Tail(q), {"savedServerUrl"}) /\ Head(q).op # "savedServerUrl"
         /\ OneSaved(q) => IF Head(q).op = "savedServerUrl" THEN NoOp(Tail(q), {"savedServerUrl"})
                           ELSE OneSaved(Tail(q))
<1> DEFINE r == Tail(q)
<1>1. /\ Len(r) = Len(q) - 1 /\ Len(q) \in Nat /\ Len(q) > 0 /\ Head(q) = q[1]
      /\ \A i \in 1..Len(r) : r[i] = q[i + 1]
  BY ReplyTail
<1> HIDE DEF r
<1>2. \A i \in 1..Len(r) : i + 1 \in 1..Len(q) /\ i + 1 # 1
  BY <1>1
<1>3. 1 \in 1..Len(q)
  BY <1>1
<1>4. ASSUME NoOp(q, {"savedServerUrl"}) PROVE NoOp(r, {"savedServerUrl"}) /\ Head(q).op # "savedServerUrl"
  BY <1>1, <1>2, <1>3, <1>4 DEF NoOp
<1>5. ASSUME OneSaved(q), Head(q).op = "savedServerUrl" PROVE NoOp(r, {"savedServerUrl"})
  <2>1. PICK i \in 1..Len(q) : /\ q[i].op = "savedServerUrl"
                               /\ \A j \in 1..Len(q) : q[j].op = "savedServerUrl" => j = i
    BY <1>5 DEF OneSaved
  <2>2. i = 1
    BY <1>1, <1>3, <1>5, <2>1
  <2> QED
    BY <1>1, <1>2, <2>1, <2>2 DEF NoOp
<1>6. ASSUME OneSaved(q), Head(q).op # "savedServerUrl" PROVE OneSaved(r)
  <2>1. PICK i \in 1..Len(q) : /\ q[i].op = "savedServerUrl"
                               /\ \A j \in 1..Len(q) : q[j].op = "savedServerUrl" => j = i
    BY <1>6 DEF OneSaved
  <2>2. i # 1
    BY <1>1, <1>6, <2>1
  <2>3. i - 1 \in 1..Len(r) /\ (i - 1) + 1 = i
    BY <1>1, <2>1, <2>2
  <2>4. r[i - 1].op = "savedServerUrl"
    BY <1>1, <2>1, <2>3
  <2>5. ASSUME NEW j \in 1..Len(r), r[j].op = "savedServerUrl" PROVE j = i - 1
    <3>1. j + 1 \in 1..Len(q) /\ q[j + 1].op = "savedServerUrl"
      BY <1>1, <1>2, <2>5
    <3>2. j + 1 = i
      BY <2>1, <3>1
    <3> QED
      BY <3>2, <2>3
  <2> QED
    BY <2>3, <2>4, <2>5 DEF OneSaved
<1> QED
  BY <1>4, <1>5, <1>6 DEF r

(* What the page and the process have on the way to each other stays: only  *)
(* more addresses may have answered.                                        *)
LEMMA SuccessStays ==
  ASSUME ConnectInv, UNCHANGED <<overlay, toNative, web, server_url>>,
         history'.late = history.late, history'.stale = history.stale,
         history.verified \subseteq history'.verified
  PROVE  LoadedInv' /\ SuccessInv' /\ EndInv'
<1>1. LoadedInv'
  BY DEF ConnectInv, LoadedInv, NoOp
<1>2. SavedOk => SavedOk'
  BY DEF SavedOk, NoOp
<1>3. (NavigatesLast => NavigatesLast') /\ (HeadsThere => HeadsThere')
  BY DEF NavigatesLast, HeadsThere, NoOp, Heading
<1>4. SuccessInv'
  BY <1>2, <1>3 DEF ConnectInv, SuccessInv
<1>5. EndInv'
  BY DEF ConnectInv, EndInv
<1> QED
  BY <1>1, <1>4, <1>5

(* The page connects.                                                       *)
LEMMA ConnectKeeps ==
  ASSUME ConnectInv, NEW u \in Addresses, Connect(u)
  PROVE  ConnectInv'
<1> DEFINE e == Ask("checkServerConnectivity", u)
<1>1. /\ overlay' = [overlay EXCEPT !.at = "probe", !.server = u, !.pendingUrl = u]
      /\ toNative' = Append(toNative, e) /\ overlay.at = "idle"
      /\ UNCHANGED <<toPage, probes, web, focus, server_url, history>>
  BY DEF Connect, StartOn
<1>2. /\ overlay \in OverlayStates /\ toNative \in Requests
  BY DEF ConnectInv, StateTyped, QueuesTyped
<1>3. e \in Request /\ e.op = "checkServerConnectivity"
  BY DEF Ask, Request
<1> HIDE DEF e
<1>4. /\ overlay' \in OverlayStates /\ overlay'.at = "probe" /\ overlay'.mainLoaded = overlay.mainLoaded
  BY <1>1, <1>2 DEF OverlayStates, Url, Connecting
<1>5. QueuesTyped' /\ StateTyped' /\ ProbesTyped'
  BY <1>1, <1>2, <1>3, <1>4, RequestAppend DEF ConnectInv, QueuesTyped, StateTyped, ProbesTyped
<1>6. StartInv'
  <2>1. NoOp(toNative, {"getSavedServerUrl"}) /\ NoOp(toPage, {"savedServerUrl"})
    BY <1>1 DEF ConnectInv, StartInv
  <2>2. NoOp(toNative', {"getSavedServerUrl"})
    BY <1>1, <1>2, <1>3, <2>1, NoOpAppend
  <2> QED
    BY <1>1, <1>4, <2>1, <2>2 DEF StartInv
<1>7. AnswersInv'
  BY <1>1, <1>4 DEF ConnectInv, AnswersInv
<1>8. LoadedInv'
  <2>1. ASSUME NoOp(toNative, Moves) PROVE NoOp(toNative', Moves)
    BY <1>1, <1>2, <1>3, <2>1, NoOpAppend DEF Moves
  <2> QED
    BY <1>1, <1>4, <2>1 DEF ConnectInv, LoadedInv
<1> QED
  BY <1>4, <1>5, <1>6, <1>7, <1>8 DEF ConnectInv, SuccessInv, EndInv

(* The page takes a message that changes nothing.                           *)
LEMMA TakenQuiet ==
  ASSUME ConnectInv, toPage # <<>>, Head(toPage).op # "savedServerUrl", toPage' = Tail(toPage),
         UNCHANGED <<overlay, toNative, probes, web, focus, server_url, history>>
  PROVE  ConnectInv'
<1>1. LoadedInv' /\ SuccessInv' /\ EndInv'
  BY SuccessStays
<1>2. toPage \in Replies
  BY DEF ConnectInv, QueuesTyped
<1>3. QueuesTyped' /\ StateTyped' /\ ProbesTyped'
  BY <1>2, ReplyTail DEF ConnectInv, QueuesTyped, StateTyped, ProbesTyped
<1>4. StartInv'
  BY <1>2, SavedTail DEF ConnectInv, StartInv, NoOp
<1>5. AnswersInv'
  <2>1. ASSUME NEW i \in 1..Len(toPage'), toPage'[i].op = "serverConnectivityResult", toPage'[i].ok
        PROVE  toPage'[i].base \in history.verified
    <3>1. i + 1 \in 1..Len(toPage) /\ toPage'[i] = toPage[i + 1]
      BY <1>2, ReplyTail
    <3> QED
      BY <2>1, <3>1 DEF ConnectInv, AnswersInv
  <2> QED
    BY <2>1 DEF ConnectInv, AnswersInv
<1> QED
  BY <1>1, <1>3, <1>4, <1>5 DEF ConnectInv

(* What holds of the queue to the page after any message is taken.          *)
LEMMA AnswersTail ==
  ASSUME ConnectInv, toPage # <<>>, toPage' = Tail(toPage), UNCHANGED web,
         history'.verified = history.verified, overlay'.pendingUrl # NoUrl => overlay'.at = "probe"
  PROVE  toPage' \in Replies /\ AnswersInv'
<1>1. toPage \in Replies
  BY DEF ConnectInv, QueuesTyped
<1>2. ASSUME NEW i \in 1..Len(toPage'), toPage'[i].op = "serverConnectivityResult", toPage'[i].ok
      PROVE  toPage'[i].base \in history.verified
  <2>1. i + 1 \in 1..Len(toPage) /\ toPage'[i] = toPage[i + 1]
    BY <1>1, ReplyTail
  <2> QED
    BY <1>2, <2>1 DEF ConnectInv, AnswersInv
<1> QED
  BY <1>1, <1>2, ReplyTail DEF ConnectInv, AnswersInv

(* The page learns the saved address, once, and connects to it.             *)
LEMMA SavedKeeps ==
  ASSUME ConnectInv, PageTakes, Head(toPage).op = "savedServerUrl"
  PROVE  ConnectInv'
<1> DEFINE u == Head(toPage).url
           e == Ask("checkServerConnectivity", u)
<1>1. /\ toPage # <<>> /\ toPage' = Tail(toPage) /\ SavedServerUrl(u)
      /\ UNCHANGED <<probes, web, focus, server_url, history>>
  BY DEF PageTakes, SavedServerUrl
<1>2. toPage \in Replies /\ toNative \in Requests /\ overlay \in OverlayStates
  BY DEF ConnectInv, QueuesTyped, StateTyped
<1>3. u \in Url
  <2>1. Head(toPage) \in Message
    BY <1>1, <1>2, ReplyTail
  <2> QED
    BY <2>1 DEF Message
<1>4. overlay.at = "boot" /\ toNative = <<>> /\ NoOp(toPage', {"savedServerUrl"})
  BY <1>1, <1>2, SavedTail DEF ConnectInv, StartInv
<1>5. NoOp(toNative, {"getSavedServerUrl"}) /\ NoOp(toNative, Moves) /\ web.state = "normal"
      /\ overlay.pendingUrl = NoUrl
  BY <1>4 DEF NoOp, ConnectInv, LoadedInv, AnswersInv
<1>6. CASE u = NoUrl
  <2>1. overlay' = [overlay EXCEPT !.at = "idle"] /\ toNative' = toNative
    BY <1>1, <1>6 DEF SavedServerUrl
  <2>2. overlay' \in OverlayStates /\ overlay'.at = "idle" /\ overlay'.pendingUrl = NoUrl
    BY <1>2, <1>5, <2>1 DEF OverlayStates
  <2>3. toPage' \in Replies /\ AnswersInv'
    BY <1>1, <2>2, AnswersTail
  <2>4. QueuesTyped' /\ StateTyped' /\ ProbesTyped'
    BY <1>1, <1>2, <2>1, <2>2, <2>3 DEF ConnectInv, QueuesTyped, StateTyped, ProbesTyped
  <2>5. StartInv' /\ LoadedInv'
    BY <1>1, <1>4, <1>5, <2>1, <2>2 DEF StartInv, LoadedInv
  <2> QED
    BY <2>2, <2>3, <2>4, <2>5 DEF ConnectInv, SuccessInv, EndInv
<1>7. CASE u # NoUrl
  <2>1. /\ overlay' = [overlay EXCEPT !.at = "probe", !.server = u, !.pendingUrl = u, !.mainLoaded = TRUE]
        /\ toNative' = Append(toNative, e)
    BY <1>1, <1>2, <1>7 DEF SavedServerUrl, StartOn, OverlayStates
  <2>2. e \in Request /\ e.op = "checkServerConnectivity"
    BY <1>3, <1>7 DEF Ask, Request, Url
  <2> HIDE DEF e
  <2>3. overlay' \in OverlayStates /\ overlay'.at = "probe"
    BY <1>2, <1>3, <2>1 DEF OverlayStates, Connecting
  <2>4. toPage' \in Replies /\ AnswersInv'
    BY <1>1, <2>3, AnswersTail
  <2>5. QueuesTyped' /\ StateTyped' /\ ProbesTyped'
    BY <1>1, <1>2, <2>1, <2>2, <2>3, <2>4, RequestAppend DEF ConnectInv, QueuesTyped, StateTyped, ProbesTyped
  <2>6. NoOp(toNative', {"getSavedServerUrl"}) /\ NoOp(toNative', Moves)
    <3>1. e.op \notin {"getSavedServerUrl"} /\ e.op \notin Moves
      BY <2>2 DEF Moves
    <3> QED
      BY <1>2, <1>5, <2>1, <2>2, <3>1, NoOpAppend
  <2>7. StartInv' /\ LoadedInv'
    BY <1>1, <1>4, <1>5, <2>3, <2>6 DEF StartInv, LoadedInv
  <2> QED
    BY <2>3, <2>4, <2>5, <2>7 DEF ConnectInv, SuccessInv, EndInv
<1> QED
  BY <1>6, <1>7

(* An attempt succeeds: the address is saved, and main sent to it unless it *)
(* is taken for loading there.                                              *)
LEMMA SucceedsKeeps ==
  ASSUME ConnectInv, PageTakes, NEW m, m = Head(toPage), m.op = "serverConnectivityResult",
         Answers(m), m.ok
  PROVE  ConnectInv'
<1> DEFINE save == Ask("saveServerUrl", m.base)
           nav == Ask("navigateMain", m.base)
<1>1. /\ toPage # <<>> /\ toPage' = Tail(toPage)
      /\ overlay' = [overlay EXCEPT !.at = "delay", !.pendingUrl = NoUrl, !.mainLoaded = TRUE]
      /\ toNative' = toNative \o <<save>> \o (IF overlay.mainLoaded THEN <<>> ELSE <<nav>>)
      /\ history' = [history EXCEPT !.stale = overlay.mainLoaded /\ Heading # overlay.server]
      /\ UNCHANGED <<probes, web, focus, server_url>>
  BY DEF PageTakes, ServerConnectivityResult
<1>2. /\ toPage \in Replies /\ toNative \in Requests /\ overlay \in OverlayStates /\ history \in Histories
      /\ web \in Webs
  BY DEF ConnectInv, QueuesTyped, StateTyped
<1>3. m \in Message
  BY <1>1, <1>2, ReplyTail
<1>4. m.base \in Addresses /\ m.url \in Addresses
  BY <1>3 DEF Message
<1>5. m.base \in history.verified
  <2>1. 1 \in 1..Len(toPage) /\ m = toPage[1]
    BY <1>1, <1>2, ReplyTail
  <2> QED
    BY <2>1 DEF ConnectInv, AnswersInv
<1>6. overlay.at = "probe"
  BY <1>4, ConnectAssumption DEF ConnectInv, AnswersInv, Answers
<1>7. /\ save \in Request /\ save.op = "saveServerUrl" /\ save.url = m.base
      /\ nav \in Request /\ nav.op = "navigateMain" /\ nav.url = m.base
  BY <1>4 DEF Ask, Request
<1> HIDE DEF save, nav
<1> DEFINE one == Append(toNative, save)
           two == Append(one, nav)
<1>8. toNative' = IF overlay.mainLoaded THEN one ELSE two
  BY <1>1, <1>2, <1>7, RequestsAdded
<1>9. /\ overlay' \in OverlayStates /\ overlay'.at = "delay" /\ overlay'.pendingUrl = NoUrl
      /\ overlay'.server = overlay.server
  BY <1>1, <1>2 DEF OverlayStates, Connecting, Url
<1>10. /\ history' \in Histories /\ history'.verified = history.verified
       /\ history'.stale = (overlay.mainLoaded /\ Heading # overlay.server)
  <2>1. overlay.mainLoaded \in BOOLEAN /\ (Heading # overlay.server) \in BOOLEAN
    BY <1>2 DEF OverlayStates
  <2>2. (overlay.mainLoaded /\ Heading # overlay.server) \in BOOLEAN
    BY <2>1
  <2> QED
    BY <1>1, <1>2, <2>2 DEF Histories
<1>11. one \in Requests /\ two \in Requests
  BY <1>2, <1>7, RequestAppend
<1>12. toPage' \in Replies /\ AnswersInv'
  BY <1>1, <1>9, <1>10, AnswersTail
<1>13. QueuesTyped' /\ StateTyped' /\ ProbesTyped'
  <2>1. toNative' \in Requests
    BY <1>8, <1>11
  <2> QED
    BY <1>1, <1>9, <1>10, <1>12, <2>1 DEF ConnectInv, QueuesTyped, StateTyped, ProbesTyped
<1>14. StartInv'
  <2>1. NoOp(toNative, {"getSavedServerUrl"}) /\ NoOp(toPage, {"savedServerUrl"})
    BY <1>6 DEF ConnectInv, StartInv
  <2>2. NoOp(one, {"getSavedServerUrl"})
    BY <1>2, <1>7, <2>1, NoOpAppend
  <2>3. NoOp(two, {"getSavedServerUrl"})
    BY <1>7, <1>11, <2>2, NoOpAppend
  <2>4. NoOp(toPage', {"savedServerUrl"})
    BY <1>1, <1>2, <2>1, SavedTail
  <2> QED
    BY <1>8, <1>9, <2>2, <2>3, <2>4 DEF StartInv
<1>15. SavedOk'
  <2>1. CASE overlay.mainLoaded
    <3>1. /\ Len(one) \in 1..Len(one) /\ one[Len(one)] = save /\ Len(one) \in Nat
      BY <1>2, <1>7, RequestAppend, SMTT(30)
    <3>2. \A j \in 1..Len(one) : ~(j > Len(one))
      BY <3>1
    <3> QED
      BY <1>5, <1>7, <1>8, <1>10, <2>1, <3>1, <3>2 DEF SavedOk, Saves
  <2>2. CASE ~overlay.mainLoaded
    <3>1. /\ Len(two) \in 1..Len(two) /\ two[Len(two)] = nav /\ Len(two) \in Nat
      <4> HIDE DEF one
      <4>1. Len(two) = Len(one) + 1 /\ Len(one) \in Nat /\ two[Len(one) + 1] = nav
        BY <1>7, <1>11, RequestAppend
      <4> HIDE DEF two
      <4> QED
        BY <4>1
    <3>2. \A j \in 1..Len(two) : ~(j > Len(two))
      BY <3>1
    <3> QED
      BY <1>5, <1>7, <1>8, <1>10, <2>2, <3>1, <3>2 DEF SavedOk, Saves
  <2> QED
    BY <2>1, <2>2
<1>16. history'.stale \/ NavigatesLast' \/ HeadsThere'
  <2>1. CASE ~overlay.mainLoaded
    <3>1. /\ Len(two) \in 1..Len(two) /\ two[Len(two)] = nav /\ Len(two) \in Nat
      <4> HIDE DEF one
      <4>1. Len(two) = Len(one) + 1 /\ Len(one) \in Nat /\ two[Len(one) + 1] = nav
        BY <1>7, <1>11, RequestAppend
      <4> HIDE DEF two
      <4> QED
        BY <4>1
    <3>2. \A j \in 1..Len(two) : ~(j > Len(two))
      BY <3>1
    <3> QED
      BY <1>7, <1>8, <2>1, <3>1, <3>2 DEF NavigatesLast
  <2>2. CASE overlay.mainLoaded /\ Heading = overlay.server
    <3>1. NoOp(toNative, Moves) /\ web.state = "normal"
      BY <1>6, <2>2 DEF ConnectInv, LoadedInv
    <3>2. NoOp(toNative, {"navigateMain", "cancelServerConnectivity"})
      BY <3>1 DEF NoOp, Moves
    <3>3. NoOp(one, {"navigateMain", "cancelServerConnectivity"})
      <4>1. save.op \notin {"navigateMain", "cancelServerConnectivity"}
        BY <1>7
      <4> QED
        BY <1>2, <1>7, <3>2, <4>1, NoOpAppend
    <3>4. Heading' = overlay'.server
      BY <1>1, <1>9, <2>2 DEF Heading
    <3> QED
      BY <1>1, <1>8, <2>2, <3>1, <3>3, <3>4 DEF HeadsThere
  <2>3. CASE overlay.mainLoaded /\ Heading # overlay.server
    BY <1>10, <2>3
  <2> QED
    BY <2>1, <2>2, <2>3
<1>17. LoadedInv' /\ SuccessInv' /\ EndInv'
  BY <1>9, <1>15, <1>16 DEF LoadedInv, SuccessInv, EndInv
<1> QED
  BY <1>12, <1>13, <1>14, <1>17 DEF ConnectInv

(* An answer that changes nothing, or says no.                              *)
LEMMA FailureKeeps ==
  ASSUME ConnectInv, PageTakes, NEW m, m = Head(toPage), m.op = "serverConnectivityResult",
         ~Answers(m) \/ ~m.ok
  PROVE  ConnectInv'
<1>1. /\ toPage # <<>> /\ toPage' = Tail(toPage) /\ ServerConnectivityResult(m)
      /\ UNCHANGED <<probes, web, focus, server_url>>
  BY DEF PageTakes, ServerConnectivityResult
<1>2. CASE ~Answers(m)
  <2>1. UNCHANGED <<overlay, toNative, history>>
    BY <1>1, <1>2 DEF ServerConnectivityResult
  <2> QED
    BY <1>1, <2>1, TakenQuiet
<1>3. CASE Answers(m) /\ ~m.ok
  <2>1. /\ overlay' = [overlay EXCEPT !.at = "idle", !.pendingUrl = NoUrl]
        /\ UNCHANGED <<toNative, history>>
    BY <1>1, <1>3 DEF ServerConnectivityResult
  <2>2. toPage \in Replies /\ toNative \in Requests /\ overlay \in OverlayStates
    BY DEF ConnectInv, QueuesTyped, StateTyped
  <2>3. m \in Message
    BY <1>1, <2>2, ReplyTail
  <2>4. overlay.at = "probe"
    <3>1. m.url \in Addresses
      BY <2>3 DEF Message
    <3> QED
      BY <1>3, <3>1, ConnectAssumption DEF ConnectInv, AnswersInv, Answers
  <2>5. /\ overlay' \in OverlayStates /\ overlay'.at = "idle" /\ overlay'.pendingUrl = NoUrl
        /\ overlay'.mainLoaded = overlay.mainLoaded
    BY <2>1, <2>2 DEF OverlayStates, Url
  <2>6. toPage' \in Replies /\ AnswersInv'
    BY <1>1, <2>1, <2>5, AnswersTail
  <2>7. QueuesTyped' /\ StateTyped' /\ ProbesTyped'
    BY <1>1, <2>1, <2>2, <2>5, <2>6 DEF ConnectInv, QueuesTyped, StateTyped, ProbesTyped
  <2>8. StartInv'
    BY <1>1, <2>1, <2>2, <2>4, <2>5, SavedTail DEF ConnectInv, StartInv, NoOp
  <2>9. LoadedInv'
    BY <1>1, <2>1, <2>4, <2>5 DEF ConnectInv, LoadedInv, NoOp
  <2> QED
    BY <2>5, <2>6, <2>7, <2>8, <2>9 DEF ConnectInv, SuccessInv, EndInv
<1> QED
  BY <1>2, <1>3

(* Escape.                                                                  *)
LEMMA CancelKeeps ==
  ASSUME ConnectInv, PageTakes, Head(toPage).op = "escape"
  PROVE  ConnectInv'
<1> DEFINE e == Ask("cancelServerConnectivity", NoUrl)
<1>1. /\ toPage # <<>> /\ toPage' = Tail(toPage) /\ CancelConnection
      /\ UNCHANGED <<probes, web, focus, server_url>>
  BY DEF PageTakes, CancelConnection
<1>2. CASE overlay.at \notin Connecting
  <2>1. UNCHANGED <<overlay, toNative, history>>
    BY <1>1, <1>2 DEF CancelConnection
  <2> QED
    BY <1>1, <2>1, TakenQuiet
<1>3. CASE overlay.at \in Connecting
  <2> DEFINE at == IF overlay.at = "fading" THEN "leaving" ELSE "idle"
             late == history.late \/ overlay.at = "fading"
  <2>1. /\ overlay' = [overlay EXCEPT !.mainLoaded = FALSE, !.pendingUrl = NoUrl, !.at = at]
        /\ toNative' = Append(toNative, e)
        /\ history' = [history EXCEPT !.late = late]
    BY <1>1, <1>3 DEF CancelConnection
  <2>2. /\ toPage \in Replies /\ toNative \in Requests /\ overlay \in OverlayStates
        /\ history \in Histories
    BY DEF ConnectInv, QueuesTyped, StateTyped
  <2>3. at \in {"idle", "leaving"} /\ late \in BOOLEAN /\ (at = "leaving" => late)
    BY <2>2 DEF Histories
  <2> HIDE DEF at, late
  <2>4. e \in Request /\ e.op = "cancelServerConnectivity"
    BY DEF Ask, Request
  <2> HIDE DEF e
  <2>5. /\ overlay' \in OverlayStates /\ overlay'.at = at /\ overlay'.pendingUrl = NoUrl
        /\ overlay'.mainLoaded = FALSE
    BY <2>1, <2>2, <2>3 DEF OverlayStates, Url
  <2>6. history' \in Histories /\ history'.verified = history.verified /\ history'.late = late
    BY <2>1, <2>2, <2>3 DEF Histories
  <2>7. toPage' \in Replies /\ AnswersInv'
    BY <1>1, <2>5, <2>6, AnswersTail
  <2>8. QueuesTyped' /\ StateTyped' /\ ProbesTyped'
    BY <1>1, <2>1, <2>2, <2>4, <2>5, <2>6, <2>7, RequestAppend
       DEF ConnectInv, QueuesTyped, StateTyped, ProbesTyped
  <2>9. StartInv'
    <3>1. overlay.at # "boot"
      BY <1>3 DEF Connecting
    <3>2. NoOp(toNative, {"getSavedServerUrl"}) /\ NoOp(toPage, {"savedServerUrl"})
      BY <3>1 DEF ConnectInv, StartInv
    <3>3. NoOp(toNative', {"getSavedServerUrl"})
      BY <2>1, <2>2, <2>4, <3>2, NoOpAppend
    <3>4. NoOp(toPage', {"savedServerUrl"})
      BY <1>1, <2>2, <3>2, SavedTail
    <3> QED
      BY <2>3, <2>5, <3>3, <3>4 DEF StartInv
  <2>10. LoadedInv' /\ SuccessInv' /\ EndInv'
    BY <2>3, <2>5, <2>6 DEF LoadedInv, SuccessInv, EndInv
  <2> QED
    BY <2>7, <2>8, <2>9, <2>10 DEF ConnectInv
<1> QED
  BY <1>2, <1>3

LEMMA PageTakesKeeps ==
  ASSUME ConnectInv, PageTakes
  PROVE  ConnectInv'
<1>1. toPage # <<>> /\ toPage \in Replies
  BY DEF PageTakes, ConnectInv, QueuesTyped
<1>2. Head(toPage) \in Message
  BY <1>1, ReplyTail
<1>3. Head(toPage).op \in {"savedServerUrl", "serverConnectivityResult", "escape"}
  BY <1>2 DEF Message
<1> QED
  BY <1>3, SavedKeeps, SucceedsKeeps, FailureKeeps, CancelKeeps

(* The page begins to fade out, and lets go of the input.                   *)
LEMMA PreFadeKeeps ==
  ASSUME ConnectInv, PreFadeOver
  PROVE  ConnectInv'
<1> DEFINE e == Ask("dismissOverlay", NoUrl)
<1>1. /\ overlay.at = "delay" /\ overlay' = [overlay EXCEPT !.at = "fading"]
      /\ toNative' = Append(toNative, e)
      /\ UNCHANGED <<toPage, probes, web, focus, server_url, history>>
  BY DEF PreFadeOver
<1>2. toNative \in Requests /\ overlay \in OverlayStates
  BY DEF ConnectInv, QueuesTyped, StateTyped
<1>3. e \in Request /\ e.op = "dismissOverlay"
  BY DEF Ask, Request
<1> HIDE DEF e
<1>4. /\ overlay' \in OverlayStates /\ overlay'.at = "fading" /\ overlay'.pendingUrl = overlay.pendingUrl
      /\ overlay'.server = overlay.server
  BY <1>1, <1>2 DEF OverlayStates, Connecting
<1>5. /\ toNative' \in Requests /\ Len(toNative') = Len(toNative) + 1 /\ Len(toNative) \in Nat
      /\ toNative'[Len(toNative) + 1] = e
      /\ \A i \in 1..Len(toNative) : toNative'[i] = toNative[i]
  BY <1>1, <1>2, <1>3, RequestAppend
<1>6. \A i \in 1..Len(toNative') : i \in 1..Len(toNative) \/ i = Len(toNative) + 1
  BY <1>5
<1>7. ASSUME NEW ops, NoOp(toNative, ops), "dismissOverlay" \notin ops PROVE NoOp(toNative', ops)
  BY <1>3, <1>5, <1>6, <1>7 DEF NoOp
<1>8. QueuesTyped' /\ StateTyped' /\ ProbesTyped'
  BY <1>1, <1>4, <1>5 DEF ConnectInv, QueuesTyped, StateTyped, ProbesTyped
<1>9. StartInv'
  <2>1. NoOp(toNative, {"getSavedServerUrl"}) /\ NoOp(toPage, {"savedServerUrl"})
    BY <1>1 DEF ConnectInv, StartInv
  <2>2. NoOp(toNative', {"getSavedServerUrl"})
    BY <1>7, <2>1
  <2> QED
    BY <1>1, <1>4, <2>1, <2>2 DEF StartInv
<1>10. AnswersInv'
  <2>1. overlay.pendingUrl = NoUrl
    BY <1>1 DEF ConnectInv, AnswersInv
  <2> QED
    BY <1>1, <1>4, <2>1 DEF ConnectInv, AnswersInv
<1>11. SavedOk => SavedOk'
  <2>1. CASE NoOp(toNative, Saves) /\ server_url \in history.verified
    <3>1. NoOp(toNative', Saves)
      BY <1>7, <2>1 DEF Saves
    <3> QED
      BY <1>1, <2>1, <3>1 DEF SavedOk
  <2>2. ASSUME NEW i \in 1..Len(toNative),
               toNative[i].op \in Saves, toNative[i].url \in history.verified,
               \A j \in 1..Len(toNative) : j > i => toNative[j].op \notin Saves
        PROVE  SavedOk'
    <3>1. i \in 1..Len(toNative') /\ toNative'[i] = toNative[i]
      BY <1>5
    <3>2. \A j \in 1..Len(toNative') : j > i => toNative'[j].op \notin Saves
      BY <1>3, <1>5, <1>6, <2>2 DEF Saves
    <3> QED
      BY <1>1, <2>2, <3>1, <3>2 DEF SavedOk
  <2> QED
    BY <2>1, <2>2 DEF SavedOk
<1>12. NavigatesLast => NavigatesLast'
  <2> SUFFICES ASSUME NEW i \in 1..Len(toNative), toNative[i].op = "navigateMain",
                      \A j \in 1..Len(toNative) : j > i => toNative[j].op \notin Moves
               PROVE  NavigatesLast'
    BY DEF NavigatesLast
  <2>1. i \in 1..Len(toNative') /\ toNative'[i] = toNative[i]
    BY <1>5
  <2>2. \A j \in 1..Len(toNative') : j > i => toNative'[j].op \notin Moves
    BY <1>3, <1>5, <1>6 DEF Moves
  <2> QED
    BY <2>1, <2>2 DEF NavigatesLast
<1>13. HeadsThere => HeadsThere'
  <2> SUFFICES ASSUME HeadsThere PROVE HeadsThere'
    OBVIOUS
  <2>1. NoOp(toNative', {"navigateMain", "cancelServerConnectivity"})
    BY <1>7 DEF HeadsThere
  <2>2. NoOp(toNative, {"saveServerUrl"}) => NoOp(toNative', {"saveServerUrl"})
    BY <1>7
  <2>3. Heading' = Heading
    BY <1>1 DEF Heading
  <2> QED
    BY <1>1, <1>4, <2>1, <2>2, <2>3 DEF HeadsThere
<1>14. LoadedInv' /\ SuccessInv' /\ EndInv'
  BY <1>1, <1>4, <1>11, <1>12, <1>13 DEF ConnectInv, LoadedInv, SuccessInv, EndInv
<1> QED
  BY <1>8, <1>9, <1>10, <1>14 DEF ConnectInv

(* The page is told something: an answer that says yes is of an address     *)
(* that has answered by then.                                               *)
LEMMA ToldKeeps ==
  ASSUME ConnectInv, UNCHANGED <<overlay, toNative, web, server_url>>,
         history'.late = history.late, history'.stale = history.stale,
         history.verified \subseteq history'.verified, StateTyped', ProbesTyped',
         NEW e \in Message, e.op # "savedServerUrl", toPage' = Append(toPage, e),
         e.op = "serverConnectivityResult" => (e.ok => e.base \in history'.verified)
  PROVE  ConnectInv'
<1>1. LoadedInv' /\ SuccessInv' /\ EndInv'
  BY SuccessStays
<1>2. toPage \in Replies
  BY DEF ConnectInv, QueuesTyped
<1>3. QueuesTyped'
  BY <1>2, ReplyAppend DEF ConnectInv, QueuesTyped
<1>4. StartInv'
  <2>1. NoOp(toPage, {"savedServerUrl"}) => NoOp(toPage', {"savedServerUrl"})
    BY <1>2, SavedAppend
  <2>2. OneSaved(toPage) => OneSaved(toPage')
    BY <1>2, SavedAppend
  <2>3. NoOp(toNative, {"getSavedServerUrl"}) => NoOp(toNative', {"getSavedServerUrl"})
    BY DEF NoOp
  <2> QED
    BY <2>1, <2>2, <2>3 DEF ConnectInv, StartInv
<1>5. AnswersInv'
  <2>1. ASSUME NEW i \in 1..Len(toPage'), toPage'[i].op = "serverConnectivityResult", toPage'[i].ok
        PROVE  toPage'[i].base \in history'.verified
    <3>1. i \in 1..Len(toPage) \/ i = Len(toPage) + 1
      BY <1>2, ReplyAppend
    <3>2. CASE i = Len(toPage) + 1
      <4>1. toPage'[i] = e
        BY <1>2, <3>2, ReplyAppend
      <4> QED
        BY <4>1, <2>1
    <3>3. CASE i \in 1..Len(toPage)
      <4>1. toPage'[i] = toPage[i]
        BY <1>2, <3>3, ReplyAppend
      <4> QED
        BY <4>1, <2>1, <3>3 DEF ConnectInv, AnswersInv
    <3> QED
      BY <3>1, <3>2, <3>3
  <2> QED
    BY <2>1 DEF ConnectInv, AnswersInv
<1> QED
  BY <1>1, <1>3, <1>4, <1>5 DEF ConnectInv

(* Nothing but the probes changes.                                          *)
LEMMA ProbingKeeps ==
  ASSUME ConnectInv, UNCHANGED <<overlay, toNative, toPage, web, focus, server_url>>,
         history'.late = history.late, history'.stale = history.stale,
         history.verified \subseteq history'.verified, StateTyped', ProbesTyped'
  PROVE  ConnectInv'
<1>1. LoadedInv' /\ SuccessInv' /\ EndInv'
  BY SuccessStays
<1>2. StartInv'
  BY DEF ConnectInv, StartInv, NoOp, OneSaved
<1>3. AnswersInv'
  BY DEF ConnectInv, AnswersInv
<1> QED
  BY <1>1, <1>2, <1>3 DEF ConnectInv, QueuesTyped

(* A step of one probe that knows its base keeps them typed.                *)
LEMMA ProbeTyped ==
  ASSUME ProbesTyped, NEW i \in DOMAIN probes.made, NEW p \in Probe, p.base \in Addresses,
         probes' = [made |-> [probes.made EXCEPT ![i] = p], active |-> probes'.active],
         probes'.active \in {0, probes.active}
  PROVE  ProbesTyped'
<1> DEFINE m == probes.made
           n == [m EXCEPT ![i] = p]
<1>1. m \in Seq(Probe) /\ probes.active \in 0..Len(m)
  BY DEF ProbesTyped, Probes
<1>2. i \in 1..Len(m)
  BY <1>1
<1>3. n \in Seq(Probe) /\ Len(n) = Len(m) /\ n[i] = p /\ \A j \in 1..Len(m) : j # i => n[j] = m[j]
  BY <1>1, <1>2
<1>4. probes'.made = n
  OBVIOUS
<1> HIDE DEF n
<1>5. probes'.active \in 0..Len(n) /\ probes'.active \in Nat
  BY <1>1, <1>3
<1>6. probes' \in Probes
  BY <1>3, <1>4, <1>5 DEF Probes, n
<1>7. \A j \in 1..Len(n) : n[j].phase # "Head" => n[j].base \in Addresses
  BY <1>3 DEF ProbesTyped
<1> QED
  BY <1>4, <1>5, <1>6, <1>7 DEF ProbesTyped

(* The user presses Escape.                                                 *)
LEMMA EscapeKeeps == ConnectInv /\ PressEscape => ConnectInv'
<1> SUFFICES ASSUME ConnectInv, PressEscape PROVE ConnectInv'
  OBVIOUS
<1> DEFINE e == [op |-> "escape"]
<1>1. e \in Message /\ e.op = "escape"
  BY DEF Message
<1>2. history \in Histories /\ history.escapes \in Nat /\ history.escapes < MaxEscapes /\ MaxEscapes \in Nat
  BY ConnectAssumption DEF PressEscape, ConnectInv, StateTyped, Histories
<1>3. history.escapes + 1 \in 0..MaxEscapes
  BY <1>2
<1>4. /\ history' \in Histories /\ history'.late = history.late /\ history'.stale = history.stale
      /\ history'.verified = history.verified
  BY <1>2, <1>3 DEF PressEscape, Histories
<1>5. StateTyped' /\ ProbesTyped'
  BY <1>4 DEF PressEscape, ConnectInv, StateTyped, ProbesTyped
<1>6. toPage' = Append(toPage, e) /\ UNCHANGED <<overlay, toNative, web, server_url>>
  BY DEF PressEscape
<1> HIDE DEF e
<1> QED
  BY <1>1, <1>4, <1>5, <1>6, ToldKeeps

(* The HEAD request of a probe is over.                                     *)
LEMMA HeadKeeps ==
  ASSUME ConnectInv, NEW i \in DOMAIN probes.made, HeadCompletes(i)
  PROVE  ConnectInv'
<1>1. PICK b \in Addresses : probes' = [probes EXCEPT !.made[i].phase = "Get", !.made[i].base = b]
  BY DEF HeadCompletes
<1> DEFINE p == [probes.made[i] EXCEPT !.phase = "Get", !.base = b]
<1>2. probes \in Probes /\ probes.made \in Seq(Probe)
  BY DEF ConnectInv, ProbesTyped, Probes
<1>3. probes.made[i] \in Probe
  BY <1>2
<1>4. p \in Probe /\ p.base = b
  BY <1>3 DEF Probe, Url
<1>5. probes' = [made |-> [probes.made EXCEPT ![i] = p], active |-> probes.active]
  BY <1>1, <1>2, <1>3 DEF Probes, Probe
<1> HIDE DEF p
<1>6. probes'.active = probes.active
  BY <1>5
<1>7. ProbesTyped'
  BY <1>4, <1>5, <1>6, ProbeTyped DEF ConnectInv
<1>8. StateTyped' /\ UNCHANGED <<overlay, toNative, toPage, web, focus, server_url, history>>
  BY DEF HeadCompletes, ConnectInv, StateTyped
<1> QED
  BY <1>7, <1>8, ProbingKeeps

(* The GET request of a probe is over.                                      *)
LEMMA GetKeeps ==
  ASSUME ConnectInv, NEW i \in DOMAIN probes.made, NEW ok \in BOOLEAN, GetCompletes(i, ok)
  PROVE  ConnectInv'
<1> DEFINE q == probes.made[i]
           p == [q EXCEPT !.phase = "Done"]
           e == Reply(q, ok)
<1>1. /\ q.phase = "Get"
      /\ probes' = [made |-> [probes.made EXCEPT ![i].phase = "Done"],
                    active |-> IF overlay.at = "gone" THEN probes.active ELSE 0]
      /\ toPage' = IF overlay.at = "gone" THEN toPage ELSE Append(toPage, e)
      /\ history' = IF ok THEN [history EXCEPT !.verified = @ \cup {q.base}] ELSE history
      /\ UNCHANGED <<overlay, toNative, web, focus, server_url>>
  BY DEF GetCompletes
<1>2. probes \in Probes /\ probes.made \in Seq(Probe) /\ i \in 1..Len(probes.made)
  BY DEF ConnectInv, ProbesTyped, Probes
<1>3. q \in Probe
  BY <1>2
<1>4. q.base \in Addresses /\ q.asked \in Addresses
  BY <1>1, <1>2, <1>3 DEF ConnectInv, ProbesTyped, Probe
<1>5. p \in Probe /\ p.base \in Addresses
  BY <1>3, <1>4 DEF Probe
<1>6. [probes.made EXCEPT ![i].phase = "Done"] = [probes.made EXCEPT ![i] = p]
  OBVIOUS
<1>7. ProbesTyped'
  <2>1. probes'.active \in {0, probes.active}
    BY <1>1
  <2>2. probes' = [made |-> [probes.made EXCEPT ![i] = p], active |-> probes'.active]
    BY <1>1, <1>6
  <2> HIDE DEF p
  <2> QED
    BY <1>5, <2>1, <2>2, ProbeTyped DEF ConnectInv
<1>8. e \in Message /\ e.op = "serverConnectivityResult" /\ (e.ok => ok /\ e.base = q.base)
  BY <1>4 DEF Reply, Message
<1>9. /\ history' \in Histories /\ history'.late = history.late /\ history'.stale = history.stale
      /\ history.verified \subseteq history'.verified /\ (ok => q.base \in history'.verified)
  <2>1. history \in Histories
    BY DEF ConnectInv, StateTyped
  <2>2. CASE ok
    <3>1. history' = [history EXCEPT !.verified = @ \cup {q.base}]
      BY <1>1, <2>2
    <3> HIDE DEF q
    <3> QED
      BY <1>4, <2>1, <3>1 DEF Histories
  <2>3. CASE ~ok
    BY <1>1, <2>1, <2>3
  <2> QED
    BY <2>2, <2>3
<1>10. StateTyped'
  BY <1>1, <1>9 DEF ConnectInv, StateTyped
<1> HIDE DEF e, p, q
<1>11. CASE overlay.at = "gone"
  BY <1>1, <1>7, <1>9, <1>10, <1>11, ProbingKeeps
<1>12. CASE overlay.at # "gone"
  BY <1>1, <1>7, <1>8, <1>9, <1>10, <1>12, ToldKeeps
<1> QED
  BY <1>11, <1>12

(* The overlay is gone.                                                     *)
LEMMA ClosesKeeps == ConnectInv /\ OverlayCloses => ConnectInv'
<1> SUFFICES ASSUME ConnectInv, OverlayCloses PROVE ConnectInv'
  OBVIOUS
<1>1. /\ overlay.at \in {"fading", "leaving"} /\ toNative = <<>>
      /\ overlay' = [overlay EXCEPT !.at = "gone"] /\ probes' = [probes EXCEPT !.active = 0]
      /\ focus' = IF web.layer_ptr THEN "main" ELSE "none"
      /\ UNCHANGED <<toNative, toPage, web, server_url, history>>
  BY DEF OverlayCloses
<1>2. overlay \in OverlayStates /\ probes \in Probes
  BY DEF ConnectInv, StateTyped, ProbesTyped
<1>3. /\ overlay' \in OverlayStates /\ overlay'.at = "gone" /\ overlay'.mainLoaded = overlay.mainLoaded
      /\ overlay'.server = overlay.server /\ overlay'.pendingUrl = overlay.pendingUrl
  BY <1>1, <1>2 DEF OverlayStates
<1>4. probes' \in Probes /\ probes'.made = probes.made /\ probes'.active = 0
  BY <1>1, <1>2 DEF Probes
<1>5. QueuesTyped' /\ StateTyped'
  BY <1>1, <1>3 DEF ConnectInv, QueuesTyped, StateTyped
<1>6. ProbesTyped'
  <2>1. probes.made \in Seq(Probe)
    BY <1>2 DEF Probes
  <2>2. 0 \in 0..Len(probes.made)
    BY <2>1
  <2> QED
    BY <1>4, <2>2 DEF ConnectInv, ProbesTyped
<1>7. StartInv'
  BY <1>1, <1>3 DEF ConnectInv, StartInv, NoOp
<1>8. AnswersInv'
  BY <1>1, <1>3 DEF ConnectInv, AnswersInv
<1>9. SuccessInv'
  <2>1. SavedOk => SavedOk'
    BY <1>1 DEF SavedOk, NoOp
  <2>2. (NavigatesLast => NavigatesLast') /\ (HeadsThere => HeadsThere')
    BY <1>1, <1>3 DEF NavigatesLast, HeadsThere, NoOp, Heading
  <2> QED
    BY <1>1, <1>3, <2>1, <2>2 DEF ConnectInv, SuccessInv, EndInv
<1> QED
  BY <1>1, <1>3, <1>5, <1>6, <1>7, <1>8, <1>9 DEF ConnectInv, LoadedInv, EndInv

(* A new main browser takes the place of the closed one.                    *)
LEMMA RecreatedKeeps == ConnectInv /\ Recreated => ConnectInv'
<1> SUFFICES ASSUME ConnectInv, Recreated PROVE ConnectInv'
  OBVIOUS
<1>1. /\ web.state = "recreating"
      /\ web' = [url |-> web.pending, pending |-> NoUrl, state |-> "normal", layer_ptr |-> FALSE]
      /\ focus' \in {"none", "overlay", focus}
      /\ UNCHANGED <<overlay, toNative, toPage, probes, server_url, history>>
  BY DEF Recreated
<1>2. web \in Webs
  BY DEF ConnectInv, StateTyped
<1>3. /\ web' \in Webs /\ web'.url = web.pending /\ web'.pending = NoUrl /\ web'.state = "normal"
  BY <1>1, <1>2 DEF Webs, Url
<1>4. QueuesTyped' /\ StateTyped' /\ ProbesTyped'
  BY <1>1, <1>3 DEF ConnectInv, QueuesTyped, StateTyped, ProbesTyped
<1>5. StartInv' /\ AnswersInv'
  BY <1>1, <1>3 DEF ConnectInv, StartInv, NoOp, OneSaved, AnswersInv
<1>6. LoadedInv'
  BY <1>1, <1>3 DEF ConnectInv, LoadedInv, NoOp
<1>7. SuccessInv'
  <2>1. SavedOk => SavedOk'
    BY <1>1 DEF SavedOk, NoOp
  <2>2. NavigatesLast => NavigatesLast'
    BY <1>1 DEF NavigatesLast
  <2>3. HeadsThere => HeadsThere'
    BY <1>1, <1>3 DEF HeadsThere, NoOp, Heading
  <2> QED
    BY <1>1, <2>1, <2>2, <2>3 DEF ConnectInv, SuccessInv
<1> QED
  BY <1>1, <1>4, <1>5, <1>6, <1>7 DEF ConnectInv, EndInv

(* What the process takes from the page, and what it leaves of it.          *)
Taking(m) ==
  /\ m = toNative[1] /\ m \in Request /\ toNative' \in Requests
  /\ 1 \in 1..Len(toNative) /\ Len(toNative) \in Nat
  /\ \A i \in 1..Len(toNative') : i + 1 \in 1..Len(toNative) /\ toNative'[i] = toNative[i + 1]
  /\ \A i \in 1..Len(toNative) : i # 1 => /\ i - 1 \in 1..Len(toNative') /\ (i - 1) + 1 = i
                                           /\ toNative'[i - 1] = toNative[i]

LEMMA TakesOne ==
  ASSUME ConnectInv, HandleMessage
  PROVE  /\ Taking(Head(toNative))
         /\ \A ops : NoOp(toNative, ops) => NoOp(toNative', ops) /\ Head(toNative).op \notin ops
<1>1. toNative # <<>> /\ toNative' = Tail(toNative) /\ toNative \in Requests
  BY DEF HandleMessage, ConnectInv, QueuesTyped
<1>2. /\ Head(toNative) = toNative[1] /\ Head(toNative) \in Request /\ Tail(toNative) \in Requests
      /\ Len(toNative) \in Nat /\ Len(toNative) > 0 /\ Len(Tail(toNative)) = Len(toNative) - 1
      /\ \A i \in 1..Len(Tail(toNative)) : Tail(toNative)[i] = toNative[i + 1]
  BY <1>1, RequestTail
<1>3. Taking(Head(toNative))
  BY <1>1, <1>2 DEF Taking
<1> QED
  BY <1>1, <1>3, NoOpTail

(* The process answers for the saved address: the page is still at its      *)
(* start, and has no other answer.                                          *)
LEMMA GetSavedKeeps ==
  ASSUME ConnectInv, HandleMessage, NEW m, m = Head(toNative), m.op = "getSavedServerUrl"
  PROVE  ConnectInv'
<1> DEFINE e == [op |-> "savedServerUrl", url |-> server_url]
<1>1. /\ toNative # <<>> /\ toNative' = Tail(toNative) /\ toPage' = Append(toPage, e)
      /\ UNCHANGED <<overlay, history, server_url, web, focus, probes>>
  BY DEF HandleMessage
<1>2. toPage \in Replies /\ toNative \in Requests /\ server_url \in Url
  BY DEF ConnectInv, QueuesTyped, StateTyped
<1>3. e \in Message /\ e.op = "savedServerUrl"
  BY <1>2 DEF Message
<1>4. ~NoOp(toNative, {"getSavedServerUrl"})
  <2>1. Taking(m)
    BY TakesOne
  <2> QED
    BY <2>1 DEF Taking, NoOp
<1> HIDE DEF e
<1>5. /\ overlay.at = "boot" /\ NoOp(toPage, {"savedServerUrl"})
      /\ toNative = <<[op |-> "getSavedServerUrl", url |-> NoUrl]>>
  BY <1>1, <1>4 DEF ConnectInv, StartInv
<1>6. toNative' = <<>>
  BY <1>1, <1>5
<1>7. QueuesTyped' /\ StateTyped' /\ ProbesTyped'
  <2>1. toNative' \in Requests
    BY <1>6 DEF Requests
  <2> QED
    BY <1>1, <1>2, <1>3, <2>1, ReplyAppend DEF ConnectInv, QueuesTyped, StateTyped, ProbesTyped
<1>8. StartInv'
  <2>1. OneSaved(toPage')
    BY <1>1, <1>2, <1>3, <1>5, SavedAppend
  <2> QED
    BY <1>1, <1>5, <1>6, <2>1 DEF StartInv
<1>9. AnswersInv'
  <2>1. ASSUME NEW i \in 1..Len(toPage'), toPage'[i].op = "serverConnectivityResult", toPage'[i].ok
        PROVE  toPage'[i].base \in history.verified
    <3>1. i \in 1..Len(toPage) /\ toPage'[i] = toPage[i]
      BY <1>1, <1>2, <1>3, <2>1, ReplyAppend
    <3> QED
      BY <2>1, <3>1 DEF ConnectInv, AnswersInv
  <2> QED
    BY <1>1, <2>1 DEF ConnectInv, AnswersInv
<1>10. LoadedInv'
  BY <1>1, <1>6, <1>5 DEF ConnectInv, LoadedInv, NoOp
<1> QED
  BY <1>1, <1>5, <1>7, <1>8, <1>9, <1>10 DEF ConnectInv, SuccessInv, EndInv

(* The types stay, whatever else the process is asked.                      *)
LEMMA HandledTyped ==
  ASSUME ConnectInv, HandleMessage, NEW m, m = Head(toNative), m.op # "getSavedServerUrl"
  PROVE  QueuesTyped' /\ StateTyped' /\ ProbesTyped'
<1>1. /\ toNative # <<>> /\ toPage' = toPage /\ overlay' = overlay /\ history' = history
      /\ server_url' = IF m.op \in {"navigateMain", "saveServerUrl"} THEN m.url ELSE server_url
      /\ web' = CASE m.op = "navigateMain" -> LoadUrl(web, m.url)
                  [] m.op = "cancelServerConnectivity" -> Reset(web)
                  [] OTHER -> web
      /\ focus' \in {"main", focus}
      /\ CASE m.op = "checkServerConnectivity" -> StartProbe(m.url)
           [] m.op = "cancelServerConnectivity" -> probes' = [probes EXCEPT !.active = 0]
           [] OTHER -> UNCHANGED probes
  BY DEF HandleMessage
<1>2. Taking(m)
  BY TakesOne
<1>3. m \in Request /\ toNative' \in Requests
  BY <1>2 DEF Taking
<1>4. m.op \in {"checkServerConnectivity", "navigateMain", "saveServerUrl"} => m.url \in Addresses
  BY <1>3 DEF Request
<1>5. /\ web \in Webs /\ server_url \in Url /\ probes \in Probes /\ probes.made \in Seq(Probe)
      /\ probes.active \in 0..Len(probes.made)
  BY DEF ConnectInv, StateTyped, ProbesTyped, Probes
<1>6. web' \in Webs
  <2>1. CASE m.op = "navigateMain"
    <3>1. web' = LoadUrl(web, m.url) /\ m.url \in Addresses
      BY <1>1, <1>4, <2>1
    <3> QED
      BY <1>5, <3>1 DEF LoadUrl, Webs, Url
  <2>2. CASE m.op = "cancelServerConnectivity"
    <3>1. web' = Reset(web)
      BY <1>1, <2>2
    <3> QED
      BY <1>5, <3>1 DEF Reset, Webs
  <2>3. CASE m.op \notin {"navigateMain", "cancelServerConnectivity"}
    <3>1. web' = web
      BY <1>1, <2>3
    <3> QED
      BY <1>5, <3>1
  <2> QED
    BY <2>1, <2>2, <2>3
<1>7. server_url' \in Url
  BY <1>1, <1>4, <1>5 DEF Url
<1>8. QueuesTyped' /\ StateTyped'
  BY <1>1, <1>3, <1>6, <1>7 DEF ConnectInv, QueuesTyped, StateTyped
<1>9. ProbesTyped'
  <2>1. CASE m.op = "checkServerConnectivity"
    <3> DEFINE p == [asked |-> m.url, phase |-> "Head", base |-> NoUrl]
               q == probes.made
               r == Append(q, p)
    <3>1. probes' = [made |-> r, active |-> Len(q) + 1]
      BY <1>1, <2>1 DEF StartProbe
    <3>2. p \in Probe /\ p.phase = "Head"
      BY <1>4, <2>1 DEF Probe, Url
    <3> HIDE DEF p
    <3>3. /\ r \in Seq(Probe) /\ Len(r) = Len(q) + 1 /\ Len(q) \in Nat /\ r[Len(q) + 1] = p
          /\ \A i \in 1..Len(q) : r[i] = q[i]
      BY <1>5, <3>2
    <3> HIDE DEF r
    <3>4. probes' \in Probes /\ probes'.active \in 0..Len(probes'.made)
      BY <3>1, <3>3 DEF Probes
    <3>5. ASSUME NEW i \in 1..Len(r), r[i].phase # "Head" PROVE r[i].base \in Addresses
      <4>1. i \in 1..Len(q) /\ r[i] = q[i]
        BY <3>2, <3>3, <3>5
      <4> QED
        BY <3>5, <4>1 DEF ConnectInv, ProbesTyped
    <3> QED
      BY <3>1, <3>4, <3>5 DEF ProbesTyped
  <2>2. CASE m.op = "cancelServerConnectivity"
    <3>1. probes' = [probes EXCEPT !.active = 0]
      BY <1>1, <2>2
    <3>2. probes' \in Probes /\ probes'.made = probes.made /\ probes'.active = 0
      BY <1>5, <3>1 DEF Probes
    <3>3. 0 \in 0..Len(probes.made)
      BY <1>5
    <3> QED
      BY <3>2, <3>3 DEF ConnectInv, ProbesTyped
  <2>3. CASE m.op \notin {"checkServerConnectivity", "cancelServerConnectivity"}
    <3>1. UNCHANGED probes
      BY <1>1, <2>3
    <3> QED
      BY <3>1 DEF ConnectInv, ProbesTyped
  <2> QED
    BY <2>1, <2>2, <2>3
<1> QED
  BY <1>8, <1>9

(* What the process is asked of main and of the setting, in the order the   *)
(* page sent it, ends where the page meant it to.                           *)
LEMMA HandledSuccess ==
  ASSUME ConnectInv, HandleMessage, NEW m, m = Head(toNative), m.op # "getSavedServerUrl"
  PROVE  /\ SavedOk => SavedOk'
         /\ NavigatesLast => NavigatesLast' \/ HeadsThere'
         /\ HeadsThere => HeadsThere'
<1>1. /\ overlay' = overlay /\ history' = history
      /\ m.op \in Saves => server_url' = m.url
      /\ m.op \notin Saves => server_url' = server_url
      /\ m.op = "navigateMain" => web' = LoadUrl(web, m.url)
      /\ m.op \notin {"navigateMain", "cancelServerConnectivity"} => web' = web
  BY DEF HandleMessage, Saves
<1>2. Taking(m)
  BY TakesOne
<1>3. \A ops : NoOp(toNative, ops) => NoOp(toNative', ops) /\ m.op \notin ops
  BY TakesOne
<1>4. m \in Request /\ web \in Webs
  BY <1>2 DEF Taking, ConnectInv, StateTyped
<1>5. ASSUME SavedOk PROVE SavedOk'
  <2>1. CASE NoOp(toNative, Saves) /\ server_url \in history.verified
    BY <1>1, <1>3, <2>1 DEF SavedOk
  <2>2. ASSUME NEW i \in 1..Len(toNative),
               toNative[i].op \in Saves, toNative[i].url \in history.verified,
               \A j \in 1..Len(toNative) : j > i => toNative[j].op \notin Saves
        PROVE  SavedOk'
    <3>1. CASE i = 1
      <4>1. server_url' \in history'.verified
        BY <1>1, <1>2, <2>2, <3>1 DEF Taking
      <4>2. ASSUME NEW j \in 1..Len(toNative') PROVE toNative'[j].op \notin Saves
        <5>1. j + 1 \in 1..Len(toNative) /\ toNative'[j] = toNative[j + 1] /\ j + 1 > i
          BY <1>2, <3>1 DEF Taking
        <5> QED
          BY <2>2, <5>1
      <4> QED
        BY <4>1, <4>2 DEF SavedOk, NoOp
    <3>2. CASE i # 1
      <4>1. i - 1 \in 1..Len(toNative') /\ toNative'[i - 1] = toNative[i]
        BY <1>2, <3>2 DEF Taking
      <4>2. ASSUME NEW j \in 1..Len(toNative'), j > i - 1 PROVE toNative'[j].op \notin Saves
        <5>1. j + 1 \in 1..Len(toNative) /\ toNative'[j] = toNative[j + 1]
          BY <1>2 DEF Taking
        <5>2. j + 1 > i
          BY <4>2
        <5> QED
          BY <2>2, <5>1, <5>2
      <4> QED
        BY <1>1, <2>2, <4>1, <4>2 DEF SavedOk
    <3> QED
      BY <3>1, <3>2
  <2> QED
    BY <1>5, <2>1, <2>2 DEF SavedOk
<1>6. ASSUME NavigatesLast PROVE NavigatesLast' \/ HeadsThere'
  <2>1. PICK i \in 1..Len(toNative) : /\ toNative[i].op = "navigateMain"
                                      /\ \A j \in 1..Len(toNative) : j > i => toNative[j].op \notin Moves
    BY <1>6 DEF NavigatesLast
  <2>2. CASE i = 1
    <3>1. m.op = "navigateMain" /\ m.url \in Addresses
      <4>1. m.op = "navigateMain"
        BY <1>2, <2>1, <2>2 DEF Taking
      <4> QED
        BY <1>4, <4>1 DEF Request
    <3>2. ASSUME NEW j \in 1..Len(toNative') PROVE toNative'[j].op \notin Moves
      <4>1. j + 1 \in 1..Len(toNative) /\ toNative'[j] = toNative[j + 1] /\ j + 1 > i
        BY <1>2, <2>2 DEF Taking
      <4> QED
        BY <2>1, <4>1
    <3>3. NoOp(toNative', {"navigateMain", "cancelServerConnectivity"}) /\ NoOp(toNative', {"saveServerUrl"})
      BY <3>2 DEF NoOp, Moves
    <3>4. web' = LoadUrl(web, m.url) /\ server_url' = m.url /\ m.url # NoUrl
      BY <1>1, <3>1, ConnectAssumption DEF Saves
    <3>5. CASE web.state = "normal"
      <4>1. web.pending = NoUrl
        BY <3>5 DEF ConnectInv, AnswersInv
      <4>2. web' = [web EXCEPT !.url = m.url]
        BY <3>4, <3>5 DEF LoadUrl
      <4>3. web'.url = m.url /\ web'.pending = NoUrl /\ web'.state = "normal"
        BY <1>4, <3>5, <4>1, <4>2 DEF Webs
      <4> QED
        BY <3>3, <3>4, <4>3 DEF HeadsThere, Heading
    <3>6. CASE web.state # "normal"
      <4>1. web' = [web EXCEPT !.pending = m.url]
        BY <3>4, <3>6 DEF LoadUrl
      <4>2. web'.pending = m.url
        BY <1>4, <4>1 DEF Webs
      <4> QED
        BY <3>3, <3>4, <4>2 DEF HeadsThere, Heading
    <3> QED
      BY <3>5, <3>6
  <2>3. CASE i # 1
    <3>1. i - 1 \in 1..Len(toNative') /\ toNative'[i - 1] = toNative[i]
      BY <1>2, <2>3 DEF Taking
    <3>2. ASSUME NEW j \in 1..Len(toNative'), j > i - 1 PROVE toNative'[j].op \notin Moves
      <4>1. j + 1 \in 1..Len(toNative) /\ toNative'[j] = toNative[j + 1]
        BY <1>2 DEF Taking
      <4>2. j + 1 > i
        BY <3>2
      <4> QED
        BY <2>1, <4>1, <4>2
    <3> QED
      BY <2>1, <3>1, <3>2 DEF NavigatesLast
  <2> QED
    BY <2>2, <2>3
<1>7. ASSUME HeadsThere PROVE HeadsThere'
  <2>1. /\ NoOp(toNative', {"navigateMain", "cancelServerConnectivity"})
        /\ m.op \notin {"navigateMain", "cancelServerConnectivity"}
    BY <1>3, <1>7 DEF HeadsThere
  <2>2. web' = web /\ Heading' = Heading
    BY <1>1, <2>1 DEF Heading
  <2>3. CASE Heading = overlay.server
    BY <1>1, <1>7, <2>1, <2>2, <2>3 DEF HeadsThere
  <2>4. CASE NoOp(toNative, {"saveServerUrl"}) /\ Heading = server_url
    <3>1. NoOp(toNative', {"saveServerUrl"}) /\ m.op \notin {"saveServerUrl"}
      BY <1>3, <2>4
    <3>2. server_url' = server_url
      BY <1>1, <2>1, <3>1 DEF Saves
    <3> QED
      BY <1>7, <2>1, <2>2, <2>4, <3>1, <3>2 DEF HeadsThere
  <2> QED
    BY <1>7, <2>3, <2>4 DEF HeadsThere
<1> QED
  BY <1>5, <1>6, <1>7

(* The process takes a message of the page.                                 *)
LEMMA HandleKeeps == ConnectInv /\ HandleMessage => ConnectInv'
<1> SUFFICES ASSUME ConnectInv, HandleMessage PROVE ConnectInv'
  OBVIOUS
<1> DEFINE m == Head(toNative)
<1>1. CASE m.op = "getSavedServerUrl"
  BY <1>1, GetSavedKeeps
<1>2. CASE m.op # "getSavedServerUrl"
  <2>1. /\ toPage' = toPage /\ overlay' = overlay /\ history' = history /\ overlay.at # "gone"
        /\ m.op = "navigateMain" => web' = LoadUrl(web, m.url)
        /\ m.op = "cancelServerConnectivity" => web' = Reset(web)
        /\ m.op \notin {"navigateMain", "cancelServerConnectivity"} => web' = web
    BY <1>2 DEF HandleMessage
  <2>2. Taking(m) /\ \A ops : NoOp(toNative, ops) => NoOp(toNative', ops) /\ m.op \notin ops
    BY TakesOne
  <2>3. QueuesTyped' /\ StateTyped' /\ ProbesTyped'
    BY <1>2, HandledTyped
  <2>4. web \in Webs /\ toNative # <<>>
    BY DEF HandleMessage, ConnectInv, StateTyped
  <2> HIDE DEF m
  <2>5. StartInv'
    <3>1. toNative # <<[op |-> "getSavedServerUrl", url |-> NoUrl]>>
      BY <1>2, <2>2 DEF Taking
    <3>2. overlay.at # "boot"
      BY <2>4, <3>1 DEF ConnectInv, StartInv
    <3> QED
      BY <2>1, <2>2, <3>2 DEF ConnectInv, StartInv
  <2>6. AnswersInv'
    <3>1. web'.state = "normal" => web'.pending = NoUrl
      <4>1. CASE m.op = "navigateMain"
        BY <2>1, <2>4, <4>1 DEF LoadUrl, Webs, ConnectInv, AnswersInv
      <4>2. CASE m.op = "cancelServerConnectivity"
        BY <2>1, <2>4, <4>2 DEF Reset, Webs, ConnectInv, AnswersInv
      <4>3. CASE m.op \notin {"navigateMain", "cancelServerConnectivity"}
        BY <2>1, <4>3 DEF ConnectInv, AnswersInv
      <4> QED
        BY <4>1, <4>2, <4>3
    <3> QED
      BY <2>1, <3>1 DEF ConnectInv, AnswersInv
  <2>7. LoadedInv'
    <3>1. NoOp(toNative, Moves) => NoOp(toNative', Moves) /\ web' = web
      BY <2>1, <2>2 DEF Moves
    <3> QED
      BY <2>1, <3>1 DEF ConnectInv, LoadedInv
  <2>8. SuccessInv'
    <3>1. /\ SavedOk => SavedOk'
          /\ NavigatesLast => NavigatesLast' \/ HeadsThere'
          /\ HeadsThere => HeadsThere'
      BY <1>2, HandledSuccess DEF m
    <3> QED
      BY <2>1, <3>1 DEF ConnectInv, SuccessInv
  <2> QED
    BY <2>1, <2>3, <2>5, <2>6, <2>7, <2>8 DEF ConnectInv, EndInv
<1> QED
  BY <1>1, <1>2

-----------------------------------------------------------------------------
LEMMA ConnectStart == ConnectInit => ConnectInv
<1> SUFFICES ASSUME ConnectInit PROVE ConnectInv
  OBVIOUS
<1> DEFINE e == [op |-> "getSavedServerUrl", url |-> NoUrl]
<1>1. /\ server_url \in Url /\ toNative = <<e>> /\ toPage = <<>>
      /\ overlay = [at |-> "boot", server |-> NoUrl, mainLoaded |-> FALSE, pendingUrl |-> NoUrl]
      /\ probes = [made |-> <<>>, active |-> 0] /\ focus = "overlay"
      /\ web = [url |-> server_url, pending |-> NoUrl, state |-> "normal", layer_ptr |-> TRUE]
      /\ history = [verified |-> {}, stale |-> FALSE, late |-> FALSE, escapes |-> 0]
  BY DEF ConnectInit
<1>2. e \in Request /\ e.op \notin Moves
  BY DEF Request, Moves
<1>3. QueuesTyped
  BY <1>1, <1>2 DEF QueuesTyped, Requests, Replies
<1>4. overlay \in OverlayStates /\ web \in Webs
  BY <1>1 DEF OverlayStates, Webs, Url, Connecting
<1>5. history \in Histories
  BY <1>1, ConnectAssumption DEF Histories
<1>6. StateTyped
  BY <1>1, <1>4, <1>5 DEF StateTyped
<1>7. ProbesTyped
  <2>1. Len(probes.made) = 0 /\ probes.made \in Seq(Probe)
    BY <1>1
  <2> QED
    BY <1>1, <2>1 DEF ProbesTyped, Probes
<1>8. StartInv
  BY <1>1 DEF StartInv, NoOp
<1>9. AnswersInv
  BY <1>1 DEF AnswersInv
<1>10. LoadedInv
  <2>1. Len(toNative) = 1 /\ toNative[1] = e
    BY <1>1
  <2> HIDE DEF e
  <2> QED
    BY <1>1, <1>2, <2>1 DEF LoadedInv, NoOp
<1>11. SuccessInv /\ EndInv
  BY <1>1 DEF SuccessInv, EndInv
<1> QED
  BY <1>3, <1>6, <1>7, <1>8, <1>9, <1>10, <1>11 DEF ConnectInv

LEMMA ConnectSteps == ConnectInv /\ [ConnectNext]_connectVars => ConnectInv'
<1> SUFFICES ASSUME ConnectInv, [ConnectNext]_connectVars PROVE ConnectInv'
  OBVIOUS
<1>1. CASE \E u \in Addresses : Connect(u)
  BY <1>1, ConnectKeeps
<1>2. CASE PageTakes
  BY <1>2, PageTakesKeeps
<1>3. CASE PreFadeOver
  BY <1>3, PreFadeKeeps
<1>4. CASE PressEscape
  BY <1>4, EscapeKeeps
<1>5. CASE OverlayCloses
  BY <1>5, ClosesKeeps
<1>6. CASE HandleMessage
  BY <1>6, HandleKeeps
<1>7. CASE Recreated
  BY <1>7, RecreatedKeeps
<1>8. ASSUME NEW i \in DOMAIN probes.made, Completes(i) PROVE ConnectInv'
  <2>1. CASE HeadCompletes(i)
    BY <2>1, HeadKeeps
  <2>2. ASSUME NEW ok \in BOOLEAN, GetCompletes(i, ok) PROVE ConnectInv'
    BY <2>2, GetKeeps
  <2> QED
    BY <1>8, <2>1, <2>2 DEF Completes
<1>9. CASE UNCHANGED connectVars
  BY <1>9 DEF connectVars, ConnectInv, QueuesTyped, StateTyped, ProbesTyped, StartInv, NoOp, OneSaved,
     AnswersInv, LoadedInv, SuccessInv, SavedOk, NavigatesLast, HeadsThere, Heading, EndInv
<1> QED
  BY <1>1, <1>2, <1>3, <1>4, <1>5, <1>6, <1>7, <1>8, <1>9 DEF ConnectNext

LEMMA ConnectAlways == ConnectSpec => []ConnectInv
BY ConnectStart, ConnectSteps, PTL DEF ConnectSpec

(* The page, the two queues, the probes and the main browser keep their     *)
(* types, for any addresses and bounds.                                     *)
THEOREM ConnectTypeCorrect == ConnectSpec => []ConnectTypeOK
<1>1. ConnectInv => ConnectTypeOK
  <2> SUFFICES ASSUME ConnectInv PROVE ConnectTypeOK
    OBVIOUS
  <2>1. toNative \in Seq([op : {"getSavedServerUrl", "checkServerConnectivity",
                                "cancelServerConnectivity", "navigateMain", "saveServerUrl",
                                "dismissOverlay"}, url : Url])
    <3> DEFINE S == [op : {"getSavedServerUrl", "checkServerConnectivity",
                           "cancelServerConnectivity", "navigateMain", "saveServerUrl",
                           "dismissOverlay"}, url : Url]
    <3>1. Request \subseteq S
      BY DEF Request, Url
    <3>2. toNative \in Seq(Request)
      BY DEF ConnectInv, QueuesTyped, Requests
    <3> HIDE DEF S
    <3>3. toNative \in Seq(S)
      BY <3>1, <3>2
    <3> QED
      BY <3>3 DEF S
  <2>2. toPage \in Seq(Message) /\ probes.made \in Seq(Probe)
    BY DEF ConnectInv, QueuesTyped, Replies, ProbesTyped, Probes
  <2> QED
    BY <2>1, <2>2 DEF ConnectInv, StateTyped, ProbesTyped, OverlayStates, Webs, Histories, ConnectTypeOK
<1> QED
  BY <1>1, ConnectAlways, PTL

(* However attempts, Escapes and answers interleave, the overlay leaves     *)
(* behind a main browser on a server that has answered and that is saved,   *)
(* with the two exceptions the property names.                              *)
THEOREM ServerShownCorrect == ConnectSpec => []ConnectedServerShown
<1>1. ConnectInv => ConnectedServerShown
  <2> SUFFICES ASSUME ConnectInv, overlay.at = "gone", web.state = "normal", ~history.late
               PROVE  /\ server_url \in history.verified
                      /\ history.stale \/ web.url \in {server_url, overlay.server}
    BY DEF ConnectedServerShown
  <2>1. toNative = <<>> /\ web.pending = NoUrl
    BY DEF ConnectInv, EndInv, AnswersInv
  <2>2. SavedOk /\ (history.stale \/ NavigatesLast \/ HeadsThere)
    BY DEF ConnectInv, SuccessInv
  <2>3. server_url \in history.verified
    BY <2>1, <2>2 DEF SavedOk
  <2>4. ~NavigatesLast
    BY <2>1 DEF NavigatesLast
  <2>5. HeadsThere => web.url \in {server_url, overlay.server}
    BY <2>1 DEF HeadsThere, Heading
  <2> QED
    BY <2>2, <2>3, <2>4, <2>5
<1> QED
  BY <1>1, ConnectAlways, PTL

-----------------------------------------------------------------------------
(* The five machines together. *)

(* One machine moves, by a step of its own, and the others rest.            *)
LEMMA DesktopSteps ==
  ASSUME Next
  PROVE  /\ machine = "window" => WindowNext
         /\ machine = "workers" => PaintNext
         /\ machine = "layer" => CefPaintNext
         /\ machine = "store" => StoreNext
         /\ machine = "connect" => ConnectNext
         /\ machine # "window" => UNCHANGED windowVars
         /\ machine # "workers" => UNCHANGED paintVars
         /\ machine # "layer" => UNCHANGED cefVars
         /\ machine # "store" => UNCHANGED vars
         /\ machine # "connect" => UNCHANGED connectVars
BY Zenon DEF Next, Rest

(* What TLC explores in one run is what the modules specify: a behaviour of *)
(* the five machines is one of the machine that was chosen, with its own    *)
(* fairness, so that what is proved of a machine alone holds of it there.   *)
THEOREM DesktopMachines ==
  Spec => /\ machine = "window" => WindowSpec
          /\ machine = "store" => StoreSpec
          /\ machine = "connect" => ConnectSpec
          /\ PaintSpec /\ CefPaintSpec
<1>1. Init => /\ machine = "window" => WindowInit
              /\ machine = "store" => StoreInit
              /\ machine = "connect" => ConnectInit
              /\ PaintInit /\ CefPaintInit
  BY Zenon DEF Init
<1>2. [Next]_allVars => [WindowNext]_windowVars
  BY DesktopSteps, Zenon DEF allVars
<1>3. [Next]_allVars => [StoreNext]_vars
  BY DesktopSteps DEF allVars
<1>4. [Next]_allVars => [ConnectNext]_connectVars
  BY DesktopSteps DEF allVars
<1>5. [Next]_allVars => [PaintNext]_paintVars
  BY DesktopSteps DEF allVars
<1>6. [Next]_allVars => [CefPaintNext]_cefVars
  BY DesktopSteps DEF allVars
<1> QED
  BY <1>1, <1>2, <1>3, <1>4, <1>5, <1>6, PTL
  DEF Spec, WindowSpec, StoreSpec, ConnectSpec, PaintSpec, CefPaintSpec

(* What rests is of its type.                                               *)
LEMMA WindowRests == WindowAtRest => WindowTypeOK
<1> SUFFICES ASSUME WindowAtRest PROVE WindowTypeOK
  OBVIOUS
<1>1. /\ surf = [l \in Layers |-> NoSurface] /\ presenters = [l \in Layers |-> NoWorker]
  BY DEF WindowAtRest
<1>2. /\ surf \in [Layers -> [alive : BOOLEAN, pw : Sizes \cup {0}, null : BOOLEAN, shown : BOOLEAN]]
      /\ presenters \in [Layers -> [made : BOOLEAN, pending : BOOLEAN, visible : BOOLEAN,
                                    shutdown : BOOLEAN, frame : BOOLEAN]]
  BY <1>1 DEF NoSurface, NoWorker
<1>3. /\ uiAt = [pc |-> "dead", layer |-> Absent, frame |-> Absent, request |-> Absent]
      /\ proxy = ProxyIdle
  BY DEF WindowAtRest, UiIdle
<1>4. /\ uiAt \in [pc : {"idle", "push", "restack", "paint", "join", "dead"},
                 layer : Layers \cup {Absent}, frame : Sizes \cup {Absent}, request : BOOLEAN \cup {Absent}]
      /\ proxy \in [pc : {"idle", "callback"}, ev : Configure \cup {Absent}]
  BY <1>3 DEF ProxyIdle
<1>5. stack = <<>> /\ commands = <<>> /\ events = <<>>
  BY DEF WindowAtRest
<1>6. stack \in Seq(Layers) /\ commands \in Seq(BOOLEAN) /\ events \in Seq(Configure)
  BY <1>5
<1>7. /\ wl = [inited |-> TRUE, wasFs |-> FALSE, transitioning |-> FALSE, mode |-> "Attach"]
      /\ sent = [configures |-> 0, requests |-> 0]
  BY DEF WindowAtRest
<1>8. /\ wl \in [inited : BOOLEAN, wasFs : BOOLEAN, transitioning : BOOLEAN, mode : {"Attach", "Drop"}]
      /\ sent \in [configures : Nat, requests : Nat]
  BY <1>7
<1>9. /\ kind \in {"dmabuf", "shm", "gpu"} /\ lock \in {"free", "ui", "orphan"}
      /\ windowFs \in BOOLEAN /\ callbacks \in BOOLEAN /\ compFs \in BOOLEAN /\ mpvFs \in BOOLEAN
      /\ echo = Absent /\ mainAt = "done"
  BY Zenon DEF WindowAtRest
<1> QED
  BY <1>2, <1>4, <1>6, <1>8, <1>9 DEF WindowTypeOK

LEMMA StoreRests == StoreAtRest => StoreTypeOK
<1>1. Default \in SettingsData /\ Written \in SettingsData
  BY DEF Default, Written, SettingsData
<1> SUFFICES ASSUME StoreAtRest PROVE StoreTypeOK
  OBVIOUS
<1> USE DEF StoreAtRest
<1>2. data \in SettingsData /\ disk \in SettingsData /\ ui_snap \in SettingsData /\ main_snap \in SettingsData
  BY <1>1
<1>3. pending = None /\ held = None
  OBVIOUS
<1>4. created = FALSE /\ stop = FALSE /\ started = FALSE /\ joinable = FALSE /\ remains = FALSE /\ failed = FALSE
  OBVIOUS
<1>5. worker \in WorkerStep /\ ui \in UiStep /\ main \in MainStep
  BY DEF WorkerStep, UiStep, MainStep
<1>6. accepted \in Nat
  OBVIOUS
<1> HIDE DEF StoreAtRest
<1> QED
  BY <1>1, <1>2, <1>3, <1>4, <1>5, <1>6, Zenon DEF StoreTypeOK

LEMMA ConnectRests == ConnectAtRest => ConnectTypeOK
<1> SUFFICES ASSUME ConnectAtRest PROVE ConnectTypeOK
  OBVIOUS
<1>1. server_url \in Addresses
  BY AddressesAssumption DEF ConnectAtRest
<1> QED
  BY <1>1, ConnectAssumption DEF ConnectAtRest, ConnectTypeOK, Url, Connecting, Probe, Message

(* The variables of all five hold the values of their types, those of a     *)
(* machine at rest included.                                                *)
THEOREM DesktopTypesCorrect == Spec => []TypesOK
<1> DEFINE W == machine = "window"
           S == machine = "store"
           C == machine = "connect"
<1>1. Init => (~W => WindowTypeOK) /\ (~S => StoreTypeOK) /\ (~C => ConnectTypeOK)
  BY WindowRests, StoreRests, ConnectRests, Zenon DEF Init
<1>2. /\ W /\ [Next]_allVars => W'
      /\ S /\ [Next]_allVars => S'
      /\ C /\ [Next]_allVars => C'
  BY DEF Next, allVars
<1>3. /\ ~W /\ [Next]_allVars => ~W'
      /\ ~S /\ [Next]_allVars => ~S'
      /\ ~C /\ [Next]_allVars => ~C'
  BY DEF Next, allVars
<1>4. ~W /\ WindowTypeOK /\ [Next]_allVars => WindowTypeOK'
  <2> SUFFICES ASSUME machine # "window", WindowTypeOK, [Next]_allVars PROVE WindowTypeOK'
    OBVIOUS
  <2>1. UNCHANGED windowVars
    BY DesktopSteps DEF allVars
  <2> QED
    BY <2>1 DEF windowVars, WindowTypeOK
<1>5. ~S /\ StoreTypeOK /\ [Next]_allVars => StoreTypeOK'
  <2> SUFFICES ASSUME machine # "store", StoreTypeOK, [Next]_allVars PROVE StoreTypeOK'
    OBVIOUS
  <2>1. UNCHANGED vars
    BY DesktopSteps DEF allVars
  <2> QED
    BY <2>1 DEF vars, storeVars, workVars, workerVars, uiVars, mainVars, StoreTypeOK
<1>6. ~C /\ ConnectTypeOK /\ [Next]_allVars => ConnectTypeOK'
  <2> SUFFICES ASSUME machine # "connect", ConnectTypeOK, [Next]_allVars PROVE ConnectTypeOK'
    OBVIOUS
  <2>1. UNCHANGED connectVars
    BY DesktopSteps DEF allVars
  <2> QED
    BY <2>1 DEF connectVars, ConnectTypeOK, Probe, Message, Url, Connecting
<1>7. Spec => (W => WindowSpec) /\ (S => StoreSpec) /\ (C => ConnectSpec)
  BY DesktopMachines
<1> HIDE DEF W, S, C
<1>8. Spec => []WindowTypeOK
  BY <1>1, <1>2, <1>3, <1>4, <1>7, WindowTypeCorrect, PTL DEF Spec
<1>9. Spec => []StoreTypeOK
  BY <1>1, <1>2, <1>3, <1>5, <1>7, StoreTypeCorrect, PTL DEF Spec
<1>10. Spec => []ConnectTypeOK
  BY <1>1, <1>2, <1>3, <1>6, <1>7, ConnectTypeCorrect, PTL DEF Spec
<1> QED
  BY <1>8, <1>9, <1>10, DesktopMachines, PaintTypeCorrect, CefPaintTypeCorrect, PTL DEF TypesOK
=============================================================================
