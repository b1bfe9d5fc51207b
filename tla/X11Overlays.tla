----------------------------- MODULE X11Overlays -----------------------------
(***************************************************************************)
(* The windows of the CEF layers on X11 and the geometry thread that keeps *)
(* them over mpv's window (x11/geometry.rs, overlay_fsm.rs, surface.rs,    *)
(* lifecycle.rs), for the tiers whose windows the thread sizes.            *)
(*                                                                         *)
(* The geometry thread has no timer: it sleeps until its socket is         *)
(* readable or a wake arrives and then derives the placement of every      *)
(* overlay from one look at the parent.  The look, the snapshot of the     *)
(* overlays, the looks at each overlay, the requests and the note of what  *)
(* was done are steps of their own: CEF's UI thread allocates, resizes and *)
(* frees overlays, and the window manager acts, between any two of them.   *)
(* Whoever waits for a reply takes the events before it off the socket:    *)
(* they are kept in the connection, and wake nobody.                       *)
(***************************************************************************)
EXTENDS Naturals, Sequences, FiniteSets

CONSTANTS
    Overlays,   \* the windows of CEF layers, each created at most once
    Windowed,   \* places of mpv's window, its position and size, but for the screen
    MaxChanges  \* bound: what the user, mpv and the window manager do unasked

(* The place of a window that covers the screen. *)
Screen == 9
Places == Windowed \cup {Screen}

ASSUME OverlayAssumption ==
    /\ Windowed \subseteq 1..8 /\ Windowed # {} /\ MaxChanges \in Nat

VARIABLES
    parent,   \* mpv's window: mapped, at, and full, _NET_WM_STATE_FULLSCREEN
    cache,    \* Mutable: parent_x .. parent_y, pw and ph, parent_fullscreen
    stage,    \* per overlay: not created, in m.live, taken out of it, destroyed
    window,   \* per overlay: what the server knows of its window
    belief,   \* per overlay: fsm_state
    withdraw, \* the overlays the window manager has yet to withdraw
    events,   \* what the geometry thread has not read: on its socket or kept by x11rb
    readable, \* whether there is anything on the socket, which is what it sleeps on
    resync,   \* x11_geometry_resync_waker is signalled
    closing,  \* x11_shutdown_waker is signalled
    dims,     \* per overlay: sizes it is yet to be resized to
    thread,   \* the geometry thread
    told,     \* the visibility the thread last sent to the life cycle
    changes   \* history: unasked changes so far

overlayVars == <<parent, cache, stage, window, belief, withdraw, events, readable, resync,
                 closing, dims, thread, told, changes>>

NoWindow == [mapped |-> FALSE, override |-> FALSE, at |-> Screen, size |-> Screen,
             above |-> TRUE, watched |-> FALSE]

(* Of an overlay that the thread does not look at it knows no place.        *)
Unseen == [at |-> Screen, size |-> Screen, mapped |-> FALSE]

Live == {o \in Overlays : stage[o] = "live"}
Exists(o) == stage[o] \in {"live", "unlisted"}

(* read_parent_fullscreen: the property of the window, or a place that     *)
(* covers the screen.                                                      *)
Covers(full, at) == full \/ at = Screen
ParentFull == Covers(parent.full, parent.at)

(* An event on an overlay, which the thread gets once it selected them. *)
Notice(o) == IF window[o].watched THEN {"Overlay"} ELSE {}

(* Events are written to the socket ... *)
Arrive(new) ==
    /\ events' = events \cup new
    /\ readable' = (readable \/ new # {})

(* ... and all of them are off it once a later reply was read. *)
ReadReply == readable' = FALSE /\ UNCHANGED events

OverlaysInit ==
    /\ \E full \in BOOLEAN, at \in Places : parent = [mapped |-> TRUE, at |-> at, full |-> full]
    /\ cache = [at |-> parent.at, size |-> parent.at, full |-> FALSE]
    /\ stage = [o \in Overlays |-> "new"]
    /\ window = [o \in Overlays |-> NoWindow]
    /\ belief = [o \in Overlays |-> [mapped |-> TRUE, unmanaged |-> FALSE]]
    /\ withdraw = {} /\ events = {} /\ readable = FALSE
    /\ resync = FALSE /\ closing = FALSE
    /\ dims = [o \in Overlays |-> <<>>]
    /\ thread = [pc |-> "look", up |-> TRUE, reassert |-> TRUE, at |-> Screen, full |-> FALSE,
                 todo |-> {}, it |-> {}, seen |-> Unseen, done |-> {}]
    /\ told = TRUE /\ changes = 0

-----------------------------------------------------------------------------
(* overlay_fsm::step, with want_visible, and what the window is like after *)
(* its effects.                                                            *)

(* What the machine believes before it decides: the server knows better. *)
Corrected(state, mapped, full) ==
    [mapped |-> state.mapped /\ mapped /\ state.unmanaged = full, unmanaged |-> full]

(* The requests a step makes, in their order. *)
Effects(state, full, wanted, at, seen) ==
    LET now == Corrected(state, seen.mapped, full)
        raise == wanted /\ ~now.mapped
    IN  [flip |-> state.unmanaged # full,
         unmap |-> ~wanted /\ now.mapped,
         map |-> raise,
         poke |-> wanted /\ (raise \/ seen.at # at),
         resize |-> wanted /\ seen.size # at]

(* The state a step leaves: an overlay is mapped exactly when it is wanted. *)
Stepped(full, wanted) == [mapped |-> wanted, unmanaged |-> full]

(* apply_effects, and the raise of an unmanaged overlay over mpv. *)
Applied(w, e, state, at, reassert) ==
    [w EXCEPT !.override = IF e.flip THEN ~@ ELSE @,
              !.mapped = IF e.map THEN TRUE ELSE IF e.flip \/ e.unmap THEN FALSE ELSE @,
              !.above = @ \/ e.map \/ (reassert /\ state.unmanaged /\ state.mapped),
              !.at = IF e.poke THEN at ELSE @,
              !.size = IF e.resize THEN at ELSE @]

-----------------------------------------------------------------------------
(* CEF's UI thread. *)

Outside == <<parent, withdraw, thread, told, changes, closing>>

(* Mutant of Alloc: it is believed to be managed. *)
AllocManaged(o) ==
    /\ stage[o] = "new" /\ ~closing
    /\ stage' = [stage EXCEPT ![o] = "live"]
    /\ window' = [window EXCEPT ![o] =
         [mapped |-> TRUE, override |-> cache.full, at |-> cache.at, size |-> cache.size,
          above |-> TRUE, watched |-> FALSE]]
    /\ belief' = [belief EXCEPT ![o] = [mapped |-> TRUE, unmanaged |-> FALSE]]
    /\ resync' = TRUE
    /\ UNCHANGED <<cache, events, readable, dims>> /\ UNCHANGED Outside

(* jfn_x11_alloc_surface: placed by the cache, and managed by the window    *)
(* manager unless it is born into fullscreen.                               *)
Alloc(o) ==
    /\ stage[o] = "new" /\ ~closing
    /\ stage' = [stage EXCEPT ![o] = "live"]
    /\ window' = [window EXCEPT ![o] =
         [mapped |-> TRUE, override |-> cache.full, at |-> cache.at, size |-> cache.size,
          above |-> TRUE, watched |-> FALSE]]
    /\ belief' = [belief EXCEPT ![o] = [mapped |-> TRUE, unmanaged |-> cache.full]]
    /\ resync' = TRUE
    /\ UNCHANGED <<cache, events, readable, dims>> /\ UNCHANGED Outside

(* jfn_x11_free_surface: out of the list, and once the workers ended the    *)
(* window is destroyed: news of that wakes the thread and is ignored, but   *)
(* that it was unmapped first is not.                                       *)
Unlist(o) ==
    /\ stage[o] = "live"
    /\ stage' = [stage EXCEPT ![o] = "unlisted"]
    /\ dims' = [dims EXCEPT ![o] = <<>>]
    /\ UNCHANGED <<cache, window, belief, events, readable, resync>> /\ UNCHANGED Outside

Destroy(o) ==
    /\ stage[o] = "unlisted"
    /\ stage' = [stage EXCEPT ![o] = "gone"]
    /\ window' = [window EXCEPT ![o] = NoWindow]
    /\ events' = events \cup IF window[o].mapped THEN Notice(o) ELSE {}
    /\ readable' = (readable \/ window[o].watched)
    /\ UNCHANGED <<cache, belief, resync, dims>> /\ UNCHANGED Outside

(* jfn_x11_surface_resize: the size of the overlay, never its position, and *)
(* the cached size of the parent.                                           *)
ResizeOverlay(o) ==
    /\ stage[o] = "live" /\ dims[o] # <<>>
    /\ dims' = [dims EXCEPT ![o] = Tail(@)]
    /\ cache' = [cache EXCEPT !.size = Head(dims[o])]
    /\ window' = [window EXCEPT ![o].size = Head(dims[o])]
    /\ Arrive(IF window[o].size # Head(dims[o]) THEN Notice(o) ELSE {})
    /\ UNCHANGED <<stage, belief, resync>> /\ UNCHANGED Outside

(* jfn_x11_restack stacks the overlays above mpv's window. *)
Restack ==
    /\ Live # {}
    /\ window' = [o \in Overlays |-> [window[o] EXCEPT !.above = @ \/ o \in Live]]
    /\ Arrive(UNION {IF window[o].above THEN {} ELSE Notice(o) : o \in Live})
    /\ UNCHANGED <<cache, stage, belief, resync, dims>> /\ UNCHANGED Outside

CefCalls == \/ \E o \in Overlays : Alloc(o) \/ Unlist(o) \/ Destroy(o) \/ ResizeOverlay(o)
            \/ Restack

-----------------------------------------------------------------------------
(* The user, mpv and the window manager. *)

Change == ~closing /\ changes < MaxChanges /\ changes' = changes + 1

(* mpv's window moves or changes its size, of which the layers are told ... *)
ParentMoves(at) ==
    /\ Change /\ at # parent.at
    /\ parent' = [parent EXCEPT !.at = at]
    /\ Arrive({"External"})
    /\ dims' = [o \in Overlays |-> IF o \in Live THEN Append(dims[o], at) ELSE <<>>]
    /\ UNCHANGED <<cache, stage, window, belief, withdraw, resync, closing, thread, told>>

(* ... the window manager publishes that it is full, or no longer is, ...    *)
ParentState ==
    /\ Change
    /\ parent' = [parent EXCEPT !.full = ~@]
    /\ Arrive({"External"})
    /\ UNCHANGED <<cache, stage, window, belief, withdraw, resync, closing, dims, thread, told>>

(* ... or hides it or shows it again.                                       *)
ParentMapped ==
    /\ Change
    /\ parent' = [parent EXCEPT !.mapped = ~@]
    /\ events' = (events \ {"Map", "Unmap"}) \cup {IF parent.mapped THEN "Unmap" ELSE "Map"}
    /\ readable' = TRUE
    /\ UNCHANGED <<cache, stage, window, belief, withdraw, resync, closing, dims, thread, told>>

(* A raise of mpv's window leaves what is not managed below it. *)
ParentRaised ==
    /\ Change
    /\ window' = [o \in Overlays |-> [window[o] EXCEPT !.above = @ /\ ~window[o].override]]
    /\ Arrive({"External"})
    /\ UNCHANGED <<parent, cache, stage, belief, withdraw, resync, closing, dims, thread, told>>

(* set_parent_fullscreen: mpv's flag may lag behind the window manager. *)
FullscreenCallback(full) ==
    /\ Change
    /\ cache' = [cache EXCEPT !.full = full]
    /\ resync' = TRUE
    /\ UNCHANGED <<parent, stage, window, belief, withdraw, events, readable, closing, dims, thread,
                   told>>

(* The window manager places an overlay it manages elsewhere.  It is taken  *)
(* not to do so between the thread's first look at the overlay and the      *)
(* selection of its events, two requests apart, which nothing would notice. *)
Clamp(o, at) ==
    /\ Change /\ Exists(o) /\ window[o].mapped /\ ~window[o].override /\ at # window[o].at
    /\ window[o].watched \/ thread.it # {o}
    /\ window' = [window EXCEPT ![o].at = at]
    /\ Arrive(Notice(o))
    /\ UNCHANGED <<parent, cache, stage, belief, withdraw, resync, closing, dims, thread, told>>

(* It withdraws, once, a window that was unmapped to leave its hands. *)
Withdraw(o) ==
    /\ o \in withdraw
    /\ withdraw' = withdraw \ {o}
    /\ window' = [window EXCEPT ![o].mapped = FALSE]
    /\ Arrive(IF window[o].mapped THEN Notice(o) ELSE {})
    /\ UNCHANGED <<parent, cache, stage, belief, resync, closing, dims, thread, told, changes>>

Shutdown ==
    /\ ~closing
    /\ closing' = TRUE
    /\ UNCHANGED <<parent, cache, stage, window, belief, withdraw, events, readable, resync, dims,
                   thread, told, changes>>

Outsiders ==
    \/ \E at \in Places : ParentMoves(at) \/ \E o \in Overlays : Clamp(o, at)
    \/ ParentState \/ ParentMapped \/ ParentRaised
    \/ \E full \in BOOLEAN : FullscreenCallback(full)
    \/ \E o \in Overlays : Withdraw(o)
    \/ Shutdown

-----------------------------------------------------------------------------
(* The geometry thread. *)

Others == <<parent, stage, dims, changes, closing>>

(* geometry_thread_body: woken, it takes everything there is to read, what  *)
(* the connection kept included, and only news makes it look; hide_overlays *)
(* ends it.  A parent that was hidden or shown is noted and told.           *)
Poll ==
    /\ thread.pc = "poll" /\ ~closing /\ (resync \/ readable)
    /\ resync' = FALSE /\ events' = {} /\ readable' = FALSE
    /\ LET up == IF "Map" \in events THEN TRUE ELSE IF "Unmap" \in events THEN FALSE ELSE thread.up
       IN  /\ thread' = [thread EXCEPT !.pc = IF resync \/ events # {} THEN "look" ELSE "poll",
                                       !.up = up,
                                       !.reassert = resync \/ events \cap {"External", "Map"} # {}]
           /\ told' = up
    /\ UNCHANGED <<cache, window, belief, withdraw>> /\ UNCHANGED Others

HideOverlays ==
    /\ thread.pc = "poll" /\ closing
    /\ thread' = [thread EXCEPT !.pc = "ended"]
    /\ window' = [o \in Overlays |-> [window[o] EXCEPT !.mapped = @ /\ o \notin Live]]
    /\ told' = FALSE
    /\ UNCHANGED <<cache, belief, withdraw, events, readable, resync>> /\ UNCHANGED Others

(* reconcile: the place of the parent, ... *)
LookAtParent ==
    /\ thread.pc = "look"
    /\ thread' = [thread EXCEPT !.pc = "state", !.at = parent.at]
    /\ ReadReply
    /\ UNCHANGED <<cache, window, belief, withdraw, resync, told>> /\ UNCHANGED Others

(* ... its state, ... *)
LookAtState ==
    /\ thread.pc = "state"
    /\ thread' = [thread EXCEPT !.pc = "snapshot", !.full = Covers(parent.full, thread.at)]
    /\ ReadReply
    /\ UNCHANGED <<cache, window, belief, withdraw, resync, told>> /\ UNCHANGED Others

(* ... and, under the lock, the overlays: all of them see the same parent.  *)
Snapshot ==
    /\ thread.pc = "snapshot"
    /\ cache' = [at |-> thread.at, size |-> thread.at, full |-> thread.full]
    /\ thread' = [thread EXCEPT !.pc = IF Live = {} THEN "poll" ELSE "overlay", !.todo = Live]
    /\ UNCHANGED <<window, belief, withdraw, events, readable, resync, told>> /\ UNCHANGED Others

(* What is found of an overlay, of which nothing is left once it is gone. *)
Found(o) == [at |-> window[o].at, size |-> window[o].size, mapped |-> window[o].mapped]

(* Mutant of LookAtOverlay: its events are not selected. *)
LookAtOverlayDeaf(o) ==
    /\ thread.pc = "overlay" /\ o \in thread.todo
    /\ thread' = [thread EXCEPT !.pc = "apply", !.it = {o}, !.todo = @ \ {o}, !.seen = Found(o)]
    /\ ReadReply
    /\ UNCHANGED <<cache, window, belief, withdraw, resync, told>> /\ UNCHANGED Others

(* Where an overlay is, and its size ... *)
LookAtOverlay(o) ==
    /\ thread.pc = "overlay" /\ o \in thread.todo
    /\ thread' = [thread EXCEPT !.pc = "watch", !.it = {o}, !.todo = @ \ {o}, !.seen = Found(o)]
    /\ ReadReply
    /\ UNCHANGED <<cache, window, belief, withdraw, resync, told>> /\ UNCHANGED Others

(* ... its events from now on, and whether it is mapped ... *)
Watch(o) ==
    /\ thread.pc = "watch" /\ thread.it = {o}
    /\ thread' = [thread EXCEPT !.pc = "apply", !.seen.mapped = window[o].mapped]
    /\ window' = [window EXCEPT ![o].watched = Exists(o)]
    /\ ReadReply
    /\ UNCHANGED <<cache, belief, withdraw, resync, told>> /\ UNCHANGED Others

(* ... and what it is asked for.  A window unmapped to leave the window     *)
(* manager's hands is withdrawn by it later.  That one was only mapped is   *)
(* no news, though it wakes the thread, and so may the errors that requests *)
(* for a destroyed one come to.                                             *)
ApplyEffects(o) ==
    /\ thread.pc = "apply" /\ thread.it = {o}
    /\ LET wanted == thread.up
           e == Effects(belief[o], thread.full, wanted, thread.at, thread.seen)
           state == Stepped(thread.full, wanted)
           after == Applied(window[o], e, state, thread.at, thread.reassert)
       IN  /\ thread' = [thread EXCEPT !.pc = IF thread.todo = {} THEN "store" ELSE "overlay",
                                       !.it = {}, !.seen = Unseen,
                                       !.done = @ \cup {<<o, state>>}]
           /\ IF Exists(o)
              THEN /\ window' = [window EXCEPT ![o] = after]
                   /\ withdraw' = IF e.flip /\ window[o].mapped /\ ~window[o].override
                                  THEN withdraw \cup {o} ELSE withdraw
                   /\ events' = events \cup IF after \in {window[o], [window[o] EXCEPT !.mapped = TRUE]}
                                            THEN {} ELSE Notice(o)
                   /\ readable' = (readable \/ after # window[o])
              ELSE readable' \in {readable, TRUE} /\ UNCHANGED <<window, withdraw, events>>
    /\ UNCHANGED <<cache, belief, resync, told>> /\ UNCHANGED Others

(* store_overlay_state_locked, for the overlays that still are in the list. *)
Store ==
    /\ thread.pc = "store"
    /\ belief' = [o \in Overlays |->
         IF o \in Live /\ \E s \in thread.done : s[1] = o
         THEN (CHOOSE s \in thread.done : s[1] = o)[2] ELSE belief[o]]
    /\ thread' = [thread EXCEPT !.pc = "poll", !.done = {}]
    /\ UNCHANGED <<cache, window, withdraw, events, readable, resync, told>> /\ UNCHANGED Others

(* x11rb reads on to the end of what there is when it waits for a reply, or *)
(* for room to write: later events may be off the socket with the others.   *)
ReadAhead ==
    /\ thread.pc \notin {"poll", "ended"} /\ readable
    /\ ReadReply
    /\ UNCHANGED <<cache, window, belief, withdraw, resync, thread, told>> /\ UNCHANGED Others

GeometryThread ==
    \/ Poll \/ HideOverlays \/ LookAtParent \/ LookAtState \/ Snapshot \/ Store \/ ReadAhead
    \/ \E o \in Overlays : LookAtOverlay(o) \/ Watch(o) \/ ApplyEffects(o)

OverlaysNext == CefCalls \/ Outsiders \/ GeometryThread

OverlaysSpec == OverlaysInit /\ [][OverlaysNext]_overlayVars

-----------------------------------------------------------------------------
OverlaysTypeOK ==
    /\ parent \in [mapped : BOOLEAN, at : Places, full : BOOLEAN]
    /\ cache \in [at : Places, size : Places, full : BOOLEAN]
    /\ stage \in [Overlays -> {"new", "live", "unlisted", "gone"}]
    /\ window \in [Overlays -> [mapped : BOOLEAN, override : BOOLEAN, at : Places, size : Places,
                                above : BOOLEAN, watched : BOOLEAN]]
    /\ belief \in [Overlays -> [mapped : BOOLEAN, unmanaged : BOOLEAN]]
    /\ withdraw \subseteq Overlays /\ events \subseteq {"External", "Overlay", "Map", "Unmap"}
    /\ readable \in BOOLEAN /\ resync \in BOOLEAN /\ closing \in BOOLEAN /\ told \in BOOLEAN
    /\ dims \in [Overlays -> Seq(Places)]
    /\ thread \in [pc : {"poll", "look", "state", "snapshot", "overlay", "watch", "apply", "store",
                         "ended"},
                   up : BOOLEAN, reassert : BOOLEAN, at : Places, full : BOOLEAN,
                   todo : SUBSET Overlays, it : SUBSET Overlays,
                   seen : [at : Places, size : Places, mapped : BOOLEAN],
                   done : SUBSET (Overlays \X [mapped : BOOLEAN, unmanaged : BOOLEAN])]
    /\ changes \in 0..MaxChanges

(* Nobody has anything left to do: no event, wake or resize is on its way, *)
(* and none is kept by the connection, which nobody would have to read.    *)
AtRest ==
    /\ thread.pc = "poll" /\ events = {} /\ ~resync /\ ~closing /\ withdraw = {}
    /\ \A o \in Overlays : dims[o] = <<>> /\ stage[o] # "unlisted"

(* With everything read, nothing is out of place: every overlay shows when  *)
(* mpv's window does, at its place, unmanaged just when it is full, and     *)
(* then above it; and the life cycle knows of it.                           *)
RestInPlace ==
    AtRest =>
      /\ told = parent.mapped
      /\ \A o \in Live :
           /\ window[o].mapped = parent.mapped
           /\ window[o].override = ParentFull
           /\ parent.mapped => window[o].at = parent.at /\ window[o].size = parent.at
           /\ parent.mapped /\ ParentFull => window[o].above

(* The thread may sleep on while the connection keeps news of the parent.   *)
(* Even then the overlays are not torn: all of them are where one look at   *)
(* the parent puts them, and of the size of that look or of the parent.     *)
NotTorn ==
    thread.pc = "poll" /\ ~resync /\ ~closing /\ "Overlay" \notin events =>
      \A o \in Live :
        /\ window[o].mapped = thread.up /\ window[o].override = thread.full
        /\ thread.up => window[o].at = thread.at
        /\ thread.up /\ dims[o] = <<>> => window[o].size \in {thread.at, parent.at}

(* What the thread believes of an overlay's management is what the server   *)
(* has, unless it is about to store that it changed it: the UI thread and   *)
(* the window manager never take it by surprise.                            *)
BeliefHolds ==
    \A o \in Live :
        (\A s \in thread.done : s[1] # o) => belief[o].unmanaged = window[o].override

(* The overlays keep up with mpv's window as far as the thread read of it.  *)
OverlaysKeepUp == RestInPlace /\ NotTorn /\ BeliefHolds
=============================================================================
