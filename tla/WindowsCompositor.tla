-------------------------- MODULE WindowsCompositor --------------------------
(***************************************************************************)
(* The window on Windows: the DirectComposition surfaces of the CEF layers *)
(* (windows/compositor.rs over compositor_core), the transition gate that  *)
(* hides the main surface while the window changes its size, and the       *)
(* fullscreen requests, window messages and property echoes that begin and *)
(* end a transition (windows/platform.rs, playback/ingest_driver.rs).      *)
(*                                                                         *)
(* Threads: CEF's UI thread, mpv's event thread, which hands every change  *)
(* of the fullscreen property to the platform, and the thread of mpv's     *)
(* window, which runs the hook.  The compositor's STATE lock makes each of *)
(* its functions one step; the platform's functions call several.          *)
(***************************************************************************)
EXTENDS Naturals, Sequences, SequencesExt

CONSTANTS
    WinLayers, \* the CEF layers that may have a surface
    Normal,    \* client sizes of the window when neither full nor maximized
    MaxWishes, \* bound: what the user and mpv do to the window unasked
    Nobody     \* no surface, no value

(* Client sizes, in the order of the window's area. *)
FullSize == 9
MaximizedSize == 8

ASSUME WinAssumption == Normal \subseteq 1..7 /\ MaxWishes \in Nat /\ Nobody \notin WinLayers

VARIABLES
    gate,     \* TransitionGate: in_transition and the captured size
    known,    \* mpv_pw, mpv_ph: the size of the last WM_SIZE, 0 before it
    live,     \* SurfaceStack.live
    order,    \* SurfaceStack.stack, bottom first
    bottom,   \* SurfaceStack.main
    wsurf,    \* per layer: whether it is in the tree, and what of it shows a frame
    win,      \* the window: full, maximized, minimized, and its normal size
    was,      \* WinState: was_fullscreen, was_minimized, restore_maximized
    hook,     \* the window's thread inside the hook
    mpvFull,  \* mpv's fullscreen option
    asked,    \* what mpv was asked to do to its window and has not done
    ingested, \* IngestState.fullscreen
    seen,     \* the value the event thread last took of the property
    setter,   \* per thread: where it is in win_set_fullscreen
    wishes    \* history: unasked changes so far

winVars == <<gate, known, live, order, bottom, wsurf, win, was, hook, mpvFull, asked,
             ingested, seen, setter, wishes>>
registry == <<live, order, bottom, wsurf>>
fullscreen == <<mpvFull, asked, ingested, seen, setter>>

Setters == {"ui", "events"}
WinSizes == Normal \cup {FullSize, MaximizedSize}
NoSurfaceWin == [alive |-> FALSE, inTree |-> FALSE, content |-> FALSE, popup |-> FALSE,
                 popupContent |-> FALSE]
SetterIdle == [pc |-> "idle", value |-> FALSE, cycles |-> FALSE, restore |-> FALSE]

ClientSize(w) == IF w.full THEN FullSize ELSE IF w.max THEN MaximizedSize ELSE w.normal

(* Mutant of BeginWin: the main surface keeps its content. *)
BeginWinShown ==
    /\ gate' = IF gate.on THEN gate ELSE [on |-> TRUE, captured |-> known]
    /\ wsurf' = wsurf

(* begin_transition_locked: begins once, and takes the main surface's      *)
(* content away.                                                           *)
BeginWin ==
    /\ gate' = IF gate.on THEN gate ELSE [on |-> TRUE, captured |-> known]
    /\ wsurf' = IF gate.on \/ bottom = Nobody THEN wsurf ELSE [wsurf EXCEPT ![bottom].content = FALSE]

Ended == [on |-> FALSE, captured |-> Nobody]

WinInit ==
    /\ gate = Ended /\ known = 0
    /\ live = <<>> /\ order = <<>> /\ bottom = Nobody
    /\ wsurf = [l \in WinLayers |-> NoSurfaceWin]
    /\ \E full \in BOOLEAN, n \in Normal :
        /\ win = [full |-> full, max |-> FALSE, min |-> FALSE, normal |-> n]
        /\ was = [full |-> full, min |-> FALSE, restore |-> FALSE]
        /\ mpvFull = full /\ ingested = full /\ seen = full
    /\ hook = Nobody
    /\ asked = {}
    /\ setter = [t \in Setters |-> SetterIdle]
    /\ wishes = 0

-----------------------------------------------------------------------------
(* The surfaces, on CEF's UI thread. *)

OutsideRegistry == <<known, win, was, hook, wishes>>

AllocWin(l) ==
    /\ ~wsurf[l].alive
    /\ wsurf' = [wsurf EXCEPT ![l] = [NoSurfaceWin EXCEPT !.alive = TRUE, !.inTree = TRUE]]
    /\ live' = Append(live, l)
    /\ bottom' = IF bottom = Nobody THEN l ELSE bottom
    /\ UNCHANGED <<gate, order>> /\ UNCHANGED OutsideRegistry /\ UNCHANGED fullscreen

(* Vec::retain: no surface is in a list twice. *)
Retained(s, l) ==
    IF l \in ToSet(s) THEN RemoveAt(s, CHOOSE i \in DOMAIN s : s[i] = l) ELSE s

(* Mutant of FreeWin: nobody becomes the main surface in its place. *)
FreeWinUnpromoted(l) ==
    /\ wsurf[l].alive
    /\ wsurf' = [wsurf EXCEPT ![l] = NoSurfaceWin]
    /\ live' = Retained(live, l)
    /\ order' = Retained(order, l)
    /\ bottom' = IF bottom # l THEN bottom ELSE Nobody
    /\ UNCHANGED gate /\ UNCHANGED OutsideRegistry /\ UNCHANGED fullscreen

FreeWin(l) ==
    /\ wsurf[l].alive
    /\ wsurf' = [wsurf EXCEPT ![l] = NoSurfaceWin]
    /\ live' = Retained(live, l)
    /\ order' = Retained(order, l)
    /\ bottom' = IF bottom # l THEN bottom
                 ELSE IF order' # <<>> THEN Head(order')
                 ELSE IF live' # <<>> THEN Head(live') ELSE Nobody
    /\ UNCHANGED gate /\ UNCHANGED OutsideRegistry /\ UNCHANGED fullscreen

(* win_restack: the visuals of every live surface leave the tree, those of *)
(* the new order enter it, one by one, but for those adding of which fails. *)
RestackWin(entered) ==
    /\ IsInjective(entered) /\ ToSet(entered) \subseteq ToSet(live)
    /\ order' = entered
    /\ bottom' = IF entered = <<>> THEN bottom ELSE Head(entered)
    /\ wsurf' = [l \in WinLayers |-> [wsurf[l] EXCEPT !.inTree = l \in ToSet(entered)]]
    /\ UNCHANGED <<gate, live>> /\ UNCHANGED OutsideRegistry /\ UNCHANGED fullscreen

(* win_surface_present: main_present_decision, the frame larger than the   *)
(* window, and only then the swap chain.  No layer is ever hidden:         *)
(* jfn_cef_layer_set_visible is called with TRUE only, for a new layer.    *)
PresentWin(l, n) ==
    LET rejected == l = bottom /\ gate.on /\ gate.captured = n
        oversized == l = bottom /\ known > 0 /\ n > known
    IN  /\ wsurf[l].alive /\ ~rejected
        /\ gate' = IF l = bottom /\ gate.on THEN Ended ELSE gate
        /\ wsurf' = IF oversized THEN wsurf ELSE [wsurf EXCEPT ![l].content = TRUE]
        /\ UNCHANGED <<live, order, bottom>> /\ UNCHANGED OutsideRegistry /\ UNCHANGED fullscreen

(* win_surface_resize adjusts a swap chain that exists, or loses it. *)
ResizeFailsWin(l) ==
    /\ wsurf[l].content
    /\ wsurf' = [wsurf EXCEPT ![l].content = FALSE]
    /\ UNCHANGED <<gate, live, order, bottom>> /\ UNCHANGED OutsideRegistry /\ UNCHANGED fullscreen

PopupShowWin(l) ==
    /\ wsurf[l].alive
    /\ wsurf' = [wsurf EXCEPT ![l].popup = TRUE]
    /\ UNCHANGED <<gate, live, order, bottom>> /\ UNCHANGED OutsideRegistry /\ UNCHANGED fullscreen

PopupHideWin(l) ==
    /\ wsurf[l].alive
    /\ wsurf' = [wsurf EXCEPT ![l].popup = FALSE, ![l].popupContent = FALSE]
    /\ UNCHANGED <<gate, live, order, bottom>> /\ UNCHANGED OutsideRegistry /\ UNCHANGED fullscreen

(* win_popup_present and win_popup_present_software. *)
PopupPresentWin(l) ==
    /\ wsurf[l].alive /\ wsurf[l].popup
    /\ wsurf' = [wsurf EXCEPT ![l].popupContent = TRUE]
    /\ UNCHANGED <<gate, live, order, bottom>> /\ UNCHANGED OutsideRegistry /\ UNCHANGED fullscreen

-----------------------------------------------------------------------------
(* win_set_fullscreen(v), which the UI thread calls for a request and the   *)
(* event thread for each change of the property, before it is ingested, and *)
(* win_toggle_fullscreen, which only the UI thread calls.                   *)

SetterAt(t, from, to) == setter[t].pc = from /\ setter' = [setter EXCEPT ![t].pc = to]
SetterDone(t) == IF t = "events" THEN "ingest" ELSE "idle"

(* A change remembers or takes back that the window was maximized. *)
ChangeFullscreen(t, v, cycles) ==
    /\ setter' = [setter EXCEPT ![t] = [pc |-> "begin", value |-> v, cycles |-> cycles,
                                        restore |-> ~v /\ was.restore]]
    /\ was' = [was EXCEPT !.restore = v /\ win.max]
    /\ UNCHANGED gate

(* What is compared is IngestState.fullscreen.  A request for what it says *)
(* already only ends a transition that has settled.                        *)
CheckFullscreen(t, v) ==
    /\ setter[t].pc = "idle"
    /\ IF v = ingested
       THEN /\ gate' = IF gate.on /\ was.full = v THEN Ended ELSE gate
            /\ setter' = [setter EXCEPT ![t].pc = SetterDone(t), ![t].value = v]
            /\ UNCHANGED was
       ELSE ChangeFullscreen(t, v, FALSE)

RequestFullscreen ==
    /\ wishes < MaxWishes /\ wishes' = wishes + 1
    /\ \/ \E v \in BOOLEAN : CheckFullscreen("ui", v)
       \/ setter["ui"].pc = "idle" /\ ChangeFullscreen("ui", ~ingested, TRUE)
    /\ UNCHANGED <<known, win, hook, mpvFull, asked, ingested, seen>> /\ UNCHANGED registry

SetterBegins(t) ==
    /\ SetterAt(t, "begin", "send")
    /\ IF win.min THEN UNCHANGED <<gate, wsurf>> ELSE BeginWin
    /\ UNCHANGED <<live, order, bottom, mpvFull, asked, ingested, seen, was>>
    /\ UNCHANGED <<known, win, hook, wishes>>

(* jfn_mpv_set_window_minimized, jfn_mpv_set_fullscreen or                 *)
(* jfn_mpv_toggle_fullscreen, and jfn_mpv_set_window_maximized.            *)
SetterSends(t) ==
    /\ setter[t].pc = "send"
    /\ mpvFull' = IF setter[t].cycles THEN ~mpvFull ELSE setter[t].value
    /\ asked' = asked \cup (IF setter[t].value THEN {"unminimize"} ELSE {})
                      \cup (IF setter[t].restore THEN {"maximize"} ELSE {})
    /\ setter' = [setter EXCEPT ![t] = [SetterIdle EXCEPT !.pc = SetterDone(t), !.value = setter[t].value]]
    /\ UNCHANGED <<ingested, seen, gate>> /\ UNCHANGED registry /\ UNCHANGED OutsideRegistry

(* The event thread takes a changed property and calls the handler ... *)
TakeProperty ==
    /\ seen # mpvFull
    /\ seen' = mpvFull
    /\ CheckFullscreen("events", mpvFull)
    /\ UNCHANGED <<known, win, hook, mpvFull, asked, ingested, wishes>> /\ UNCHANGED registry

(* ... and ingests the value after it. *)
IngestProperty ==
    /\ SetterAt("events", "ingest", "idle")
    /\ ingested' = setter["events"].value
    /\ UNCHANGED <<mpvFull, asked, seen, gate>> /\ UNCHANGED registry /\ UNCHANGED OutsideRegistry

-----------------------------------------------------------------------------
(* The thread of mpv's window. *)

(* The window changes and WM_SIZE follows; one of a minimized window only  *)
(* notes it.                                                               *)
WindowBecomes(w) ==
    /\ hook = Nobody /\ w # win
    /\ win' = w
    /\ IF w.min
       THEN hook' = Nobody /\ was' = [was EXCEPT !.min = TRUE]
       ELSE hook' = [at |-> "edge", size |-> ClientSize(w), full |-> w.full, force |-> FALSE] /\ UNCHANGED was

(* mpv carries out what it was asked for. *)
MpvMovesWindow ==
    /\ \/ WindowBecomes([win EXCEPT !.full = mpvFull]) /\ UNCHANGED asked
       \/ /\ "unminimize" \in asked /\ asked' = asked \ {"unminimize"}
          /\ IF win.min THEN WindowBecomes([win EXCEPT !.min = FALSE]) ELSE UNCHANGED <<win, hook, was>>
       \/ /\ "maximize" \in asked /\ asked' = asked \ {"maximize"}
          /\ IF win.max THEN UNCHANGED <<win, hook, was>> ELSE WindowBecomes([win EXCEPT !.max = TRUE])
    /\ UNCHANGED <<gate, known, mpvFull, ingested, seen, setter, wishes>> /\ UNCHANGED registry

(* The user resizes, maximizes, minimizes or restores the window, or mpv   *)
(* changes its fullscreen option by itself.                                *)
WindowChanges ==
    /\ wishes < MaxWishes /\ wishes' = wishes + 1
    /\ \/ /\ \E n \in Normal, max, min \in BOOLEAN :
                WindowBecomes([full |-> win.full, max |-> max, min |-> min, normal |-> n])
          /\ UNCHANGED mpvFull
       \/ mpvFull' = ~mpvFull /\ UNCHANGED <<win, hook, was>>
    /\ UNCHANGED <<gate, known, asked, ingested, seen, setter>> /\ UNCHANGED registry

(* mpv_wndproc_hook: an edge of the fullscreen style not driven by a       *)
(* request begins a transition of its own.                                 *)
HookEdge ==
    /\ hook # Nobody /\ hook.at = "edge"
    /\ LET changed == hook.full # was.full
       IN  /\ hook' = [hook EXCEPT !.at = "size", !.force = changed \/ was.min]
           /\ was' = [was EXCEPT !.min = FALSE, !.full = hook.full]
           /\ IF changed /\ ~was.min THEN BeginWin ELSE UNCHANGED <<gate, wsurf>>
    /\ UNCHANGED <<known, live, order, bottom, win, wishes>> /\ UNCHANGED fullscreen

(* jfn_win_update_surface_size: a new size, or a forced one, ends it. *)
HookSize ==
    /\ hook # Nobody /\ hook.at = "size"
    /\ gate' = IF gate.on /\ (hook.force \/ gate.captured # hook.size) THEN Ended ELSE gate
    /\ known' = hook.size
    /\ hook' = Nobody
    /\ UNCHANGED <<win, was, wishes>> /\ UNCHANGED registry /\ UNCHANGED fullscreen

-----------------------------------------------------------------------------
SurfaceAction ==
    \/ \E l \in WinLayers :
        \/ AllocWin(l) \/ FreeWin(l) \/ ResizeFailsWin(l)
        \/ PopupShowWin(l) \/ PopupHideWin(l) \/ PopupPresentWin(l)
        \/ \E n \in WinSizes : PresentWin(l, n)
    \/ \E entered \in SeqOf(WinLayers, Len(live)) : RestackWin(entered)

SetterAction == \E t \in Setters : SetterBegins(t) \/ SetterSends(t)
EventAction == TakeProperty \/ IngestProperty
WindowThread == MpvMovesWindow \/ HookEdge \/ HookSize

WinNext ==
    \/ SurfaceAction \/ RequestFullscreen \/ SetterAction \/ EventAction
    \/ WindowThread \/ WindowChanges

WinSpec == WinInit /\ [][WinNext]_winVars

-----------------------------------------------------------------------------
WinTypeOK ==
    /\ gate \in [on : BOOLEAN, captured : WinSizes \cup {0, Nobody}]
    /\ known \in WinSizes \cup {0}
    /\ live \in Seq(WinLayers) /\ order \in Seq(WinLayers) /\ bottom \in WinLayers \cup {Nobody}
    /\ wsurf \in [WinLayers -> [alive : BOOLEAN, inTree : BOOLEAN, content : BOOLEAN, popup : BOOLEAN,
                                popupContent : BOOLEAN]]
    /\ win \in [full : BOOLEAN, max : BOOLEAN, min : BOOLEAN, normal : Normal]
    /\ was \in [full : BOOLEAN, min : BOOLEAN, restore : BOOLEAN]
    /\ hook \in [at : {"edge", "size"}, size : WinSizes, full : BOOLEAN, force : BOOLEAN] \cup {Nobody}
    /\ mpvFull \in BOOLEAN /\ asked \subseteq {"unminimize", "maximize"}
    /\ ingested \in BOOLEAN /\ seen \in BOOLEAN
    /\ setter \in [Setters -> [pc : {"idle", "begin", "send", "ingest"}, value : BOOLEAN,
                          cycles : BOOLEAN, restore : BOOLEAN]]
    /\ wishes \in 0..MaxWishes

(* The surface the gate hides is the bottom-most one that is in the tree,   *)
(* and as long as a surface is left there is one, whatever restacks failed. *)
BottomIsMain ==
    /\ order # <<>> => bottom = Head(order)
    /\ bottom = Nobody <=> live = <<>>
    /\ bottom # Nobody => bottom \in ToSet(live)

(* While the gate is closed the main surface gets no frame of the size it  *)
(* had: what shows one during a transition is a surface that was not the   *)
(* main one when it began.                                                 *)
MainStaysHidden ==
    [][gate'.on /\ bottom' # Nobody /\ wsurf'[bottom'].content
       => gate.on /\ wsurf[bottom'].content]_winVars

(* Once the window is what mpv wants it to be, and everybody was told, no  *)
(* transition is left open: an open one would reject every frame of the    *)
(* size the window has.                                                    *)
Settled ==
    /\ \A t \in Setters : setter[t].pc = "idle"
    /\ hook = Nobody /\ asked = {} /\ ~win.min
    /\ win.full = mpvFull /\ seen = mpvFull
SettledIsOpen == Settled => ~gate.on
=============================================================================
