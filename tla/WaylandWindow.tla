---------------------------- MODULE WaylandWindow ----------------------------
(***************************************************************************)
(* The Wayland window: the surface of each CEF layer, the fullscreen       *)
(* transition that gates painting, the proxy thread between mpv and the    *)
(* compositor that delivers configures, and the order of the teardown.     *)
(*                                                                         *)
(* Threads: CEF's UI thread ("ui"), the proxy's client thread ("proxy"),   *)
(* mpv's event thread ("mpv"), one presenter worker per layer, and the     *)
(* main thread, which boots and tears down.  wl_ops and wl_state hold one  *)
(* mutex around every operation; the presenter workers do not take it.     *)
(* A buffer is the width of its frame.                                     *)
(***************************************************************************)
EXTENDS Integers, Sequences, SequencesExt, FiniteSets

CONSTANTS
    Layers,        \* the CEF layers that may have a surface
    Sizes,         \* widths in texels a window or a frame may have
    Tolerance,     \* TRANSITION_TOLERANCE_TEXELS
    MaxConfigures, \* bound: configures the compositor sends unasked
    MaxRequests,   \* bound: fullscreen requests pushed to the proxy
    Absent         \* no buffer, no frame

ASSUME WindowAssumption ==
    /\ Sizes \subseteq Nat \ {0} /\ Sizes # {}
    /\ Tolerance \in Nat
    /\ MaxConfigures \in Nat /\ MaxRequests \in Nat
    /\ Absent \notin Sizes

VARIABLES
    kind,       \* how frames arrive: "dmabuf", "shm" or "gpu" (worker with a swapchain)
    stack,      \* WlState.stack, bottom first
    surf,       \* per layer: alive, pw, null_attached, and the buffer on screen
    presenters, \* per layer: the presenter worker's shared state and its frame in hand
    wl,         \* WlState: initialised, was_fullscreen, transitioning, present_mode
    lock,       \* who holds the WlState mutex: "free", "ui" or "orphan"
    uiAt,       \* the UI thread: what it is in the middle of
    windowFs,   \* WINDOW_STATE.fullscreen
    callbacks,  \* CONFIGURE_CB is registered
    proxy,      \* the proxy thread: "idle", or inside the configure callback
    commands,   \* COMMANDS: fullscreen requests not yet drained
    compFs,     \* the compositor: is the window fullscreen
    events,     \* configures sent and not yet read by the proxy
    mpvFs,      \* mpv's fullscreen property, as its synthesized configures set it
    echo,       \* the value mpv's event thread took and has not handled, or Absent
    mainAt,     \* the main thread: boot, run, teardown
    sent        \* history: [configures, requests] used up, for the bounds

windowVars == <<kind, stack, surf, presenters, wl, lock, uiAt, windowFs, callbacks, proxy,
                commands, compFs, events, mpvFs, echo, mainAt, sent>>

Configure == [size : Sizes, fs : BOOLEAN]
Stacked == ToSet(stack)

NoSurface == [alive |-> FALSE, pw |-> 0, null |-> FALSE, shown |-> FALSE]
NoWorker == [made |-> FALSE, pending |-> FALSE, visible |-> TRUE, shutdown |-> FALSE, frame |-> FALSE]
UiIdle == [pc |-> "idle", layer |-> Absent, frame |-> Absent, request |-> Absent]
ProxyIdle == [pc |-> "idle", ev |-> Absent]

Abs(n) == IF n < 0 THEN -n ELSE n

(* size_in_tolerance: a surface without a size takes every frame. *)
Fits(l, w) == surf[l].pw = 0 \/ Abs(w - surf[l].pw) <= Tolerance

(* unmap_locked: a null attach. *)
Unmapped(s) == [s EXCEPT !.null = TRUE, !.shown = FALSE]

(* lw, lh, pw and ph: a size is compared by the dmabuf path alone, and the *)
(* other kinds make do with one.                                           *)
Sized(s, n) == IF kind = "dmabuf" THEN [s EXCEPT !.pw = n] ELSE s
AnySize == CHOOSE n \in Sizes : TRUE
TellingSizes == IF kind = "dmabuf" THEN Sizes ELSE {AnySize}

(* set_visible of a worker: only the wl_shm worker drops the queued frame. *)
Gated(k) == [k EXCEPT !.visible = FALSE, !.pending = @ /\ kind # "shm"]

-----------------------------------------------------------------------------
(* The three helpers every fullscreen path is made of; each is run with the *)
(* mutex held.                                                              *)

GatedAll ==
    [l \in Layers |-> IF l \in Stacked /\ presenters[l].made THEN Gated(presenters[l]) ELSE presenters[l]]
UnmappedAll ==
    [l \in Layers |-> IF l \in Stacked /\ kind # "gpu" THEN Unmapped(surf[l]) ELSE surf[l]]

(* Mutant of BeginTransition: the surfaces stay mapped. *)
BeginTransitionMapped ==
    /\ surf' = surf
    /\ presenters' = GatedAll

BeginTransition ==
    /\ surf' = UnmappedAll
    /\ presenters' = GatedAll

(* Mutant of EndTransition: the workers are not opened again. *)
EndTransitionGated == presenters' = presenters

EndTransition ==
    presenters' = [l \in Layers |-> IF l \in Stacked /\ presenters[l].made
                                    THEN [presenters[l] EXCEPT !.visible = TRUE]
                                    ELSE presenters[l]]

(* set_fullscreen_via(v): what it does under the mutex, and the request it *)
(* is left to push, if any.                                                *)
SetFullscreenVia(v, request) ==
    IF wl.wasFs = v
    THEN /\ request = Absent
         /\ IF wl.transitioning
            THEN EndTransition /\ wl' = [wl EXCEPT !.transitioning = FALSE, !.mode = "Attach"]
            ELSE UNCHANGED <<presenters, wl>>
         /\ UNCHANGED surf
    ELSE /\ request = v
         /\ BeginTransition
         /\ wl' = [wl EXCEPT !.transitioning = TRUE, !.mode = "Drop"]

-----------------------------------------------------------------------------
WindowInit ==
    /\ kind \in {"dmabuf", "shm", "gpu"}
    /\ stack = <<>>
    /\ surf = [l \in Layers |-> NoSurface]
    /\ presenters = [l \in Layers |-> NoWorker]
    /\ wl = [inited |-> FALSE, wasFs |-> FALSE, transitioning |-> FALSE, mode |-> "Attach"]
    /\ lock = "free"
    /\ uiAt = UiIdle
    /\ windowFs = FALSE
    /\ callbacks = TRUE
    /\ proxy = ProxyIdle
    /\ commands = <<>>
    /\ compFs \in BOOLEAN
    /\ \E n \in TellingSizes : events = <<[size |-> n, fs |-> compFs]>>
    /\ mpvFs = FALSE
    /\ echo = Absent
    /\ mainAt = "boot"
    /\ sent = [configures |-> 0, requests |-> 0]

-----------------------------------------------------------------------------
(* The compositor and the proxy thread. *)

(* The window is resized, or its fullscreen state changed, unasked. *)
CompositorConfigure ==
    /\ sent.configures < MaxConfigures
    /\ sent' = [sent EXCEPT !.configures = @ + 1]
    /\ \E ev \in [size : TellingSizes, fs : BOOLEAN] :
        /\ events' = Append(events, ev)
        /\ compFs' = ev.fs
    /\ UNCHANGED <<kind, stack, surf, presenters, wl, lock, uiAt, windowFs, callbacks, proxy,
                   commands, mpvFs, echo, mainAt>>

(* drain_host_commands: the compositor obeys, or rejects without a word. *)
DrainCommand ==
    /\ proxy.pc = "idle" /\ mainAt # "done"
    /\ commands # <<>>
    /\ commands' = Tail(commands)
    /\ \/ /\ compFs' = Head(commands)
          /\ \E n \in TellingSizes : events' = Append(events, [size |-> n, fs |-> compFs'])
       \/ UNCHANGED <<compFs, events>>
    /\ UNCHANGED <<kind, stack, surf, presenters, wl, lock, uiAt, windowFs, callbacks, proxy,
                   mpvFs, echo, mainAt, sent>>

(* A configure reaches the proxy: the callback is entered with CONFIGURE_CB *)
(* locked, and mpv is handed the same state.                                *)
ProxyConfigure ==
    /\ proxy.pc = "idle" /\ mainAt # "done"
    /\ events # <<>>
    /\ events' = Tail(events)
    /\ mpvFs' = Head(events).fs
    /\ proxy' = IF callbacks THEN [pc |-> "callback", ev |-> Head(events)] ELSE ProxyIdle
    /\ UNCHANGED <<kind, stack, surf, presenters, wl, lock, uiAt, windowFs, callbacks,
                   commands, compFs, echo, mainAt, sent>>

(* wl_ops::on_configure under the mutex, then the callback returns.  Before *)
(* the state exists it only caches the window's state.                      *)
OnConfigure ==
    /\ proxy.pc = "callback"
    /\ windowFs' = proxy.ev.fs
    /\ proxy' = ProxyIdle
    /\ IF ~wl.inited
       THEN UNCHANGED <<surf, presenters, wl>>
       ELSE LET changed == proxy.ev.fs # wl.wasFs
                begins  == changed /\ ~wl.transitioning
                resized(s) ==
                    [l \in Layers |-> IF l \in Stacked THEN Sized(s[l], proxy.ev.size) ELSE s[l]]
            IN  /\ lock = "free"
                /\ wl' = [wl EXCEPT !.wasFs = proxy.ev.fs,
                                    !.transitioning = @ \/ begins,
                                    !.mode = IF wl.transitioning \/ begins THEN "Attach" ELSE @]
                /\ surf' = resized(IF begins THEN UnmappedAll ELSE surf)
                /\ presenters' = IF begins THEN GatedAll ELSE presenters
    /\ UNCHANGED <<kind, stack, lock, uiAt, callbacks, commands, compFs, events, mpvFs, echo, mainAt, sent>>

-----------------------------------------------------------------------------
(* mpv's event thread: the fullscreen property, observed and handed to the *)
(* platform.                                                               *)

MpvFetch ==
    /\ mainAt \in {"run", "detached"}
    /\ echo = Absent
    /\ mpvFs # windowFs \/ wl.transitioning
    /\ echo' = mpvFs
    /\ UNCHANGED <<kind, stack, surf, presenters, wl, lock, uiAt, windowFs, callbacks, proxy,
                   commands, compFs, events, mpvFs, mainAt, sent>>

MpvHandle ==
    /\ mainAt \in {"run", "detached"} /\ lock = "free"
    /\ echo # Absent
    /\ echo' = Absent
    /\ \E request \in BOOLEAN \cup {Absent} :
        /\ SetFullscreenVia(echo, request)
        /\ request # Absent => sent.requests < MaxRequests
        /\ IF request = Absent
           THEN UNCHANGED <<commands, sent>>
           ELSE /\ commands' = Append(commands, request)
                /\ sent' = [sent EXCEPT !.requests = @ + 1]
    /\ UNCHANGED <<kind, stack, lock, uiAt, windowFs, callbacks, proxy, compFs, events, mpvFs, mainAt>>

-----------------------------------------------------------------------------
(* CEF's UI thread. *)

UiReady == mainAt \in {"run", "detached"} /\ uiAt.pc = "idle"
UiOthers == <<kind, windowFs, callbacks, proxy, compFs, events, mpvFs, echo, mainAt>>

(* The page, a key or the menu asks for fullscreen; the request is pushed  *)
(* after the mutex is released.                                            *)
SetFullscreen(v) ==
    /\ UiReady /\ lock = "free"
    /\ sent.requests < MaxRequests
    /\ \E request \in BOOLEAN \cup {Absent} :
        /\ SetFullscreenVia(v, request)
        /\ uiAt' = IF request = Absent THEN uiAt ELSE [uiAt EXCEPT !.pc = "push", !.request = request]
        /\ sent' = IF request = Absent THEN sent ELSE [sent EXCEPT !.requests = @ + 1]
    /\ UNCHANGED <<stack, lock, commands>> /\ UNCHANGED UiOthers

ToggleFullscreen ==
    /\ UiReady /\ lock = "free"
    /\ sent.requests < MaxRequests
    /\ BeginTransition
    /\ wl' = [wl EXCEPT !.transitioning = TRUE, !.mode = "Drop"]
    /\ uiAt' = [uiAt EXCEPT !.pc = "push", !.request = ~wl.wasFs]
    /\ sent' = [sent EXCEPT !.requests = @ + 1]
    /\ UNCHANGED <<stack, lock, commands>> /\ UNCHANGED UiOthers

PushRequest ==
    /\ uiAt.pc = "push"
    /\ commands' = Append(commands, uiAt.request)
    /\ uiAt' = UiIdle
    /\ UNCHANGED <<stack, surf, presenters, wl, lock, sent>> /\ UNCHANGED UiOthers

(* alloc_surface; the registry restacks next, before the layer can paint. *)
AllocSurface(l) ==
    /\ UiReady /\ lock = "free"
    /\ ~surf[l].alive
    /\ surf' = [surf EXCEPT ![l] = [NoSurface EXCEPT !.alive = TRUE]]
    /\ uiAt' = [UiIdle EXCEPT !.pc = "restack", !.layer = l]
    /\ UNCHANGED <<stack, presenters, wl, lock, commands, sent>> /\ UNCHANGED UiOthers

Restack ==
    /\ uiAt.pc = "restack" /\ lock = "free"
    /\ stack' = Append(stack, uiAt.layer)
    /\ uiAt' = UiIdle
    /\ UNCHANGED <<surf, presenters, wl, lock, commands, sent>> /\ UNCHANGED UiOthers

(* surface_resize: the size CEF's view was last given. *)
SurfaceResize(l, n) ==
    /\ UiReady /\ lock = "free"
    /\ surf[l].alive
    /\ surf' = [surf EXCEPT ![l] = Sized(@, n)]
    /\ UNCHANGED <<stack, presenters, wl, lock, uiAt, commands, sent>> /\ UNCHANGED UiOthers

(* A paint of CEF takes the mutex ... *)
LockForPaint(l, n) ==
    /\ UiReady /\ lock = "free"
    /\ surf[l].alive
    /\ lock' = "ui"
    /\ uiAt' = [UiIdle EXCEPT !.pc = "paint", !.layer = l, !.frame = n]
    /\ UNCHANGED <<stack, surf, presenters, wl, commands, sent>> /\ UNCHANGED UiOthers

(* ... surface_present: a dmabuf is attached here, and ends the transition; *)
PresentDmabuf ==
    LET l == uiAt.layer
        w == uiAt.frame
    IN  IF wl.mode = "Drop" \/ (~wl.transitioning /\ ~Fits(l, w) /\ ~surf[l].null)
        THEN UNCHANGED <<surf, wl>>
        ELSE IF wl.transitioning /\ ~Fits(l, w)
        THEN surf' = [surf EXCEPT ![l] = Unmapped(@)] /\ UNCHANGED wl
        ELSE /\ surf' = [surf EXCEPT ![l].shown = TRUE, ![l].null = FALSE]
             /\ wl' = [wl EXCEPT !.transitioning = FALSE]

(* surface_present_software: pixels are queued to the worker, made here. *)
PresentSoftware ==
    LET l == uiAt.layer
    IN  /\ presenters' =
               IF wl.mode = "Drop" THEN presenters
               ELSE [presenters EXCEPT ![l] = [@ EXCEPT !.made = TRUE, !.visible = TRUE,
                                                        !.pending = TRUE]]
        /\ surf' = IF wl.mode = "Drop" \/ kind = "gpu" THEN surf ELSE [surf EXCEPT ![l].null = FALSE]

Present ==
    /\ uiAt.pc = "paint"
    /\ IF kind = "dmabuf"
       THEN PresentDmabuf /\ UNCHANGED presenters
       ELSE PresentSoftware /\ UNCHANGED wl
    /\ lock' = "free"
    /\ uiAt' = UiIdle
    /\ UNCHANGED <<stack, commands, sent>> /\ UNCHANGED UiOthers

(* free_surface: the worker is taken, told to stop and joined without the  *)
(* mutex ...                                                               *)
FreeTakeWorker(l) ==
    /\ UiReady
    /\ surf[l].alive
    /\ presenters' = [presenters EXCEPT ![l].shutdown = TRUE, ![l].pending = FALSE]
    /\ uiAt' = [UiIdle EXCEPT !.pc = "join", !.layer = l]
    /\ UNCHANGED <<stack, surf, wl, lock, commands, sent>> /\ UNCHANGED UiOthers

WorkerGone(l) == ~presenters[l].made

(* ... and only then the surface goes, which is in the stack once. *)
FreeSurface ==
    /\ uiAt.pc = "join" /\ WorkerGone(uiAt.layer)
    /\ lock = "free"
    /\ stack' = RemoveFirst(stack, uiAt.layer)
    /\ surf' = [surf EXCEPT ![uiAt.layer] = NoSurface]
    /\ presenters' = [presenters EXCEPT ![uiAt.layer] = NoWorker]
    /\ uiAt' = UiIdle
    /\ UNCHANGED <<wl, lock, commands, sent>> /\ UNCHANGED UiOthers

-----------------------------------------------------------------------------
(* The presenter workers. *)

WorkerOthers == <<kind, stack, wl, lock, uiAt, windowFs, callbacks, proxy, commands, compFs, events,
                  mpvFs, echo, mainAt, sent>>

PresenterTake(l) ==
    /\ presenters[l].made /\ ~presenters[l].frame
    /\ presenters[l].pending \/ presenters[l].shutdown
    /\ presenters' = IF presenters[l].shutdown THEN [presenters EXCEPT ![l].made = FALSE]
                     ELSE [presenters EXCEPT ![l].pending = FALSE,
                                             ![l].frame = presenters[l].visible]
    /\ UNCHANGED surf /\ UNCHANGED WorkerOthers

(* The frame in hand is committed; a swapchain may need an answer of the   *)
(* display, which only an idle proxy forwards.                             *)
WorkerCommit(l) ==
    /\ presenters[l].made /\ presenters[l].frame
    /\ kind = "gpu" => proxy.pc = "idle"
    /\ presenters' = [presenters EXCEPT ![l].frame = FALSE]
    /\ surf' = [surf EXCEPT ![l].shown = TRUE]
    /\ UNCHANGED WorkerOthers

-----------------------------------------------------------------------------
(* The main thread. *)

WindowMainStep(from, to) ==
    /\ mainAt = from /\ mainAt' = to
    /\ UNCHANGED <<kind, stack, surf, presenters, windowFs, proxy, commands, compFs, events,
                   mpvFs, echo, sent>>

(* jfn_wl_core_set_was_fullscreen: the state does not exist yet, so nothing *)
(* is stored.                                                               *)
SeedWasFullscreen ==
    /\ WindowMainStep("boot", "seeded")
    /\ wl' = IF wl.inited THEN [wl EXCEPT !.wasFs = mpvFs] ELSE wl
    /\ UNCHANGED <<lock, uiAt, callbacks>>

CoreInit ==
    /\ WindowMainStep("seeded", "run")
    /\ wl' = [wl EXCEPT !.inited = TRUE]
    /\ UNCHANGED <<lock, uiAt, callbacks>>

(* jfn_wlproxy_clear_callbacks waits for the lock a running callback holds. *)
Detach ==
    /\ WindowMainStep("run", "detached")
    /\ proxy.pc = "idle"
    /\ callbacks' = FALSE
    /\ UNCHANGED <<wl, lock, uiAt>>

(* jfn_cef_shutdown ends CEF's threads, one that holds the mutex included. *)
CefShutdown ==
    /\ WindowMainStep("detached", "cef_down")
    /\ lock' = IF lock = "ui" THEN "orphan" ELSE lock
    /\ uiAt' = [UiIdle EXCEPT !.pc = "dead"]
    /\ UNCHANGED <<wl, callbacks>>

(* mpv's teardown of its window is a roundtrip through the proxy. *)
MpvTeardown ==
    /\ WindowMainStep("cef_down", "done")
    /\ proxy.pc = "idle"
    /\ UNCHANGED <<wl, lock, uiAt, callbacks>>

MainAction == SeedWasFullscreen \/ CoreInit \/ Detach \/ CefShutdown \/ MpvTeardown

-----------------------------------------------------------------------------
UiStart ==
    \/ ToggleFullscreen
    \/ \E v \in BOOLEAN : SetFullscreen(v)
    \/ \E l \in Layers :
        \/ AllocSurface(l) \/ FreeTakeWorker(l)
        \/ \E n \in TellingSizes : SurfaceResize(l, n) \/ LockForPaint(l, n)
UiFinish == PushRequest \/ Restack \/ Present \/ FreeSurface
WorkerAction == \E l \in Layers : PresenterTake(l) \/ WorkerCommit(l)
ProxyAction == DrainCommand \/ ProxyConfigure \/ OnConfigure

WindowNext ==
    \/ CompositorConfigure \/ ProxyAction
    \/ MpvFetch \/ MpvHandle
    \/ UiStart \/ UiFinish
    \/ WorkerAction
    \/ MainAction

(* Threads that can move do; what the user and the compositor do is free,  *)
(* and so is the moment the teardown starts.                               *)
WindowFairness ==
    /\ WF_windowVars(ProxyAction) /\ WF_windowVars(UiFinish)
    /\ \A l \in Layers : WF_windowVars(PresenterTake(l) \/ WorkerCommit(l))
    /\ WF_windowVars(SeedWasFullscreen \/ CoreInit \/ CefShutdown \/ MpvTeardown)

WindowSpec == WindowInit /\ [][WindowNext]_windowVars /\ WindowFairness

-----------------------------------------------------------------------------
WindowTypeOK ==
    /\ kind \in {"dmabuf", "shm", "gpu"}
    /\ stack \in Seq(Layers)
    /\ surf \in [Layers -> [alive : BOOLEAN, pw : Sizes \cup {0}, null : BOOLEAN, shown : BOOLEAN]]
    /\ presenters \in [Layers -> [made : BOOLEAN, pending : BOOLEAN, visible : BOOLEAN,
                                  shutdown : BOOLEAN, frame : BOOLEAN]]
    /\ wl \in [inited : BOOLEAN, wasFs : BOOLEAN, transitioning : BOOLEAN, mode : {"Attach", "Drop"}]
    /\ lock \in {"free", "ui", "orphan"}
    /\ uiAt \in [pc : {"idle", "push", "restack", "paint", "join", "dead"},
                 layer : Layers \cup {Absent}, frame : Sizes \cup {Absent}, request : BOOLEAN \cup {Absent}]
    /\ windowFs \in BOOLEAN /\ callbacks \in BOOLEAN /\ compFs \in BOOLEAN /\ mpvFs \in BOOLEAN
    /\ proxy \in [pc : {"idle", "callback"}, ev : Configure \cup {Absent}]
    /\ commands \in Seq(BOOLEAN) /\ events \in Seq(Configure)
    /\ echo \in BOOLEAN \cup {Absent}
    /\ mainAt \in {"boot", "seeded", "run", "detached", "cef_down", "done"}
    /\ sent \in [configures : Nat, requests : Nat]

(* While a fullscreen transition is in progress no layer shows a dmabuf     *)
(* frame: the surfaces are unmapped when it begins, and the frame that ends *)
(* it is the first one shown.                                               *)
TransitionShowsNothing ==
    kind = "dmabuf" /\ wl.transitioning => \A l \in Layers : ~surf[l].shown

(* Painting is gated only during a transition, and whatever ends it opens    *)
(* every gate: frames are not dropped afterwards, and no worker of a stacked *)
(* surface is left invisible.                                                *)
GatesOnlyInTransition ==
    ~wl.transitioning =>
        /\ wl.mode = "Attach"
        /\ \A l \in Stacked : presenters[l].made => presenters[l].visible

(* A transition shows no stale frame, and its end leaves nothing gated.     *)
TransitionKept == TransitionShowsNothing /\ GatesOnlyInTransition
=============================================================================
