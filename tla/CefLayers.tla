------------------------------ MODULE CefLayers ------------------------------
(***************************************************************************)
(* The CEF layers of src/jfn_cef: the life of a layer's browser            *)
(* (client/lifecycle.rs, client/tasks.rs), the process-wide registry and   *)
(* focus stack (browsers.rs) and what the pages ask of them                *)
(* (business_overlay.rs, business_web.rs, business_about.rs).  Everything  *)
(* here runs on CEF's UI thread, one task at a time, but the creation of   *)
(* the web and overlay layers, which the main thread does at boot.         *)
(*                                                                         *)
(* CEF itself is external: a browser asked for is created later, a browser *)
(* asked to close closes later, and a closing one asks for nothing.        *)
(***************************************************************************)
EXTENDS Naturals, SequencesExt

CONSTANTS
  MaxResets,   \* bound on the pre-loads the overlay cancels
  MaxAbouts,   \* bound on the times the about panel is opened
  MaxUrls      \* bound on the server addresses the overlay navigates to

ASSUME LayerBoundsAssumption ==
  MaxResets \in Nat /\ MaxAbouts \in Nat /\ MaxUrls \in Nat

Layer == {"web", "overlay", "about"}

VARIABLES
  shutting_down,  \* SHUTTING_DOWN of playback/src/shutdown.rs
  up,             \* the registry exists: between its init and its shutdown
  layers,         \* the registered layers
  active_stack,   \* the focus history, its last element having the focus
  inner,          \* each layer's state
  browser,        \* where CEF is with each layer's browser
  hidden,         \* what WasHidden last told each live browser
  tasks,          \* tasks posted to CEF's UI thread
  collected,      \* the wait set sent to the manager, NotSent before
  asked           \* how often each bounded request was made

layerVars == <<up, layers, active_stack, inner, browser, hidden, tasks,
               collected, asked>>

NotSent == {"not sent"}

Inner ==
  [state: {"normal", "pending_reset", "recreating"}, has_browser: BOOLEAN,
   pending_internal_reset: BOOLEAN, layer_ptr: BOOLEAN, closed: BOOLEAN,
   loaded: BOOLEAN, pending_url: BOOLEAN]

NewInner ==
  [state |-> "normal", has_browser |-> FALSE, pending_internal_reset |-> FALSE,
   layer_ptr |-> TRUE, closed |-> FALSE, loaded |-> FALSE, pending_url |-> FALSE]

Task ==
  [op: {"CloseAndCollect"}] \cup [op: {"SetHiddenAll"}, hidden: BOOLEAN]
  \cup [op: {"ResetCreate"}, layer: Layer]

LayersInit ==
  /\ up = FALSE
  /\ layers = {}
  /\ active_stack = <<>>
  /\ inner = [l \in Layer |-> [NewInner EXCEPT !.layer_ptr = FALSE]]
  /\ browser = [l \in Layer |-> "none"]
  /\ hidden = [l \in Layer |-> FALSE]
  /\ tasks = <<>>
  /\ collected = NotSent
  /\ asked = [resets |-> 0, abouts |-> 0, urls |-> 0]

-----------------------------------------------------------------------------
(* The registry.                                                            *)

(* Mutant of Without: a closed layer stays in the focus history.            *)
WithoutNothing(stack, l) == stack

(* The history names a layer at most once (HandlesRegistered).              *)
Without(stack, l) == RemoveFirst(stack, l)
Promoted(stack, l) == Append(Without(stack, l), l)

(* jfn_browsers_create, then jfn_cef_layer_create.                          *)
CreateLayer(l) ==
  /\ up
  /\ layers' = layers \cup {l}
  /\ inner' = [inner EXCEPT ![l] = NewInner]
  /\ browser' = [browser EXCEPT ![l] = "creating"]
  /\ UNCHANGED <<up, active_stack, hidden, tasks, collected>>

Live(l) == browser[l] = "live"
Closing(l) == [browser EXCEPT ![l] = IF @ = "live" THEN "closing" ELSE @]

-----------------------------------------------------------------------------
(* CEF's callbacks.                                                         *)

ClosedAtBirth == shutting_down

(* The web layer takes the focus if nobody has it, the others always; a     *)
(* layer that lost its registry handle takes none.                          *)
FocusAtBirth(l) ==
  IF up /\ inner[l].layer_ptr /\ (l = "web" => active_stack = <<>>)
  THEN Promoted(active_stack, l) ELSE active_stack

OnAfterCreated(l) ==
  LET born == [inner[l] EXCEPT !.closed = FALSE, !.loaded = FALSE]
  IN /\ browser[l] = "creating"
     /\ hidden' = [hidden EXCEPT ![l] = FALSE]
     /\ \/ /\ ClosedAtBirth
           /\ browser' = [browser EXCEPT ![l] = "closing"]
           /\ inner' = [inner EXCEPT ![l] = born]
           /\ UNCHANGED active_stack
        \/ /\ ~ClosedAtBirth
           /\ inner[l].state = "pending_reset"
           /\ browser' = [browser EXCEPT ![l] = "closing"]
           /\ inner' = [inner EXCEPT ![l] =
                [born EXCEPT !.has_browser = TRUE, !.state = "recreating"]]
           /\ UNCHANGED active_stack
        \/ /\ ~ClosedAtBirth
           /\ inner[l].state # "pending_reset"
           /\ browser' = [browser EXCEPT ![l] = "live"]
           /\ inner' = [inner EXCEPT ![l] =
                [born EXCEPT !.has_browser = TRUE, !.state = "normal",
                             !.pending_url = FALSE]]
           /\ active_stack' = FocusAtBirth(l)
     /\ UNCHANGED <<up, layers, tasks, collected, asked>>

(* Only the web layer's load is ever waited for.                            *)
OnLoadEnd ==
  /\ Live("web") /\ ~inner["web"].loaded
  /\ inner' = [inner EXCEPT !["web"].loaded = TRUE]
  /\ UNCHANGED <<up, layers, active_stack, browser, hidden, tasks, collected,
                 asked>>

(* The browser is gone: a pending reset posts its recreation, and the layer *)
(* leaves the registry, whoever closed it.                                  *)
OnBeforeClose(l) ==
  /\ browser[l] = "closing"
  /\ browser' = [browser EXCEPT ![l] = "none"]
  /\ inner' = [inner EXCEPT ![l] =
       [@ EXCEPT !.closed = TRUE, !.loaded = TRUE, !.has_browser = FALSE,
                 !.pending_internal_reset = FALSE, !.layer_ptr = FALSE]]
  /\ tasks' = IF inner[l].pending_internal_reset
              THEN Append(tasks, [op |-> "ResetCreate", layer |-> l])
              ELSE tasks
  /\ IF up /\ inner[l].layer_ptr
     THEN /\ layers' = layers \ {l}
          /\ active_stack' = Without(active_stack, l)
     ELSE UNCHANGED <<layers, active_stack>>
  /\ UNCHANGED <<up, hidden, collected, asked>>

-----------------------------------------------------------------------------
(* What the pages ask for.                                                  *)

Ask(request, bound) ==
  /\ asked[request] < bound
  /\ asked' = [asked EXCEPT ![request] = @ + 1]

ResetPending(i) == TRUE

(* cancelServerConnectivity: Inner.reset of the web layer.                  *)
Reset ==
  /\ Live("overlay")
  /\ Ask("resets", MaxResets)
  /\ LET i == inner["web"] IN
     IF i.state # "normal"
     THEN UNCHANGED <<inner, browser>>
     ELSE /\ inner' = [inner EXCEPT !["web"] =
               [i EXCEPT !.pending_internal_reset = ResetPending(i),
                         !.state = IF i.has_browser THEN "recreating"
                                   ELSE "pending_reset"]]
          /\ browser' = IF i.has_browser THEN Closing("web") ELSE browser
  /\ UNCHANGED <<up, layers, active_stack, hidden, tasks, collected>>

(* navigateMain: Inner.load_url of the web layer.                           *)
LoadUrl ==
  /\ Live("overlay")
  /\ Ask("urls", MaxUrls)
  /\ inner' = [inner EXCEPT !["web"].pending_url =
       @ \/ inner["web"].state # "normal" \/ ~inner["web"].has_browser]
  /\ UNCHANGED <<up, layers, active_stack, browser, hidden, tasks, collected>>

DismissOverlay ==
  /\ Live("overlay")
  /\ up /\ inner["web"].layer_ptr
  /\ Last(active_stack) # "web"
  /\ active_stack' = Promoted(active_stack, "web")
  /\ UNCHANGED <<up, layers, inner, browser, hidden, tasks, collected, asked>>

(* The menu of any page; a second panel is refused.                         *)
OpenAbout ==
  /\ \E l \in Layer : Live(l)
  /\ browser["about"] = "none"
  /\ Ask("abouts", MaxAbouts)
  /\ CreateLayer("about")

DismissAbout ==
  /\ Live("about")
  /\ browser' = Closing("about")
  /\ UNCHANGED <<up, layers, active_stack, inner, hidden, tasks, collected,
                 asked>>

-----------------------------------------------------------------------------
(* Tasks posted to the UI thread.                                           *)

(* Mutant of CloseSet: a browser still being created is not waited for.     *)
CloseSetLive == {l \in layers : Live(l)}

CloseSet == layers

CloseAndCollect ==
  /\ collected' = IF up THEN CloseSet ELSE {}
  /\ browser' = [l \in Layer |->
       IF up /\ l \in CloseSet /\ Live(l) THEN "closing" ELSE browser[l]]
  /\ UNCHANGED <<inner, hidden>>

SetHiddenAll(is_hidden) ==
  /\ hidden' = [l \in Layer |->
       IF up /\ l \in layers /\ Live(l) THEN is_hidden ELSE hidden[l]]
  /\ UNCHANGED <<inner, browser, collected>>

ResetCreate(l) ==
  /\ browser' = IF shutting_down THEN browser
                ELSE [browser EXCEPT ![l] = "creating"]
  /\ UNCHANGED <<inner, hidden, collected>>

RunTask ==
  /\ tasks # <<>>
  /\ tasks' = Tail(tasks)
  /\ LET task == Head(tasks) IN
     \/ task.op = "CloseAndCollect" /\ CloseAndCollect
     \/ task.op = "SetHiddenAll"    /\ SetHiddenAll(task.hidden)
     \/ task.op = "ResetCreate"     /\ ResetCreate(task.layer)
  /\ UNCHANGED <<up, layers, active_stack, asked>>

UiThread ==
  \/ \E l \in Layer : OnAfterCreated(l) \/ OnBeforeClose(l)
  \/ OnLoadEnd
  \/ Reset \/ LoadUrl \/ DismissOverlay \/ OpenAbout \/ DismissAbout
  \/ RunTask

LayersTypeOK ==
  /\ shutting_down \in BOOLEAN /\ up \in BOOLEAN
  /\ layers \subseteq Layer
  /\ active_stack \in Seq(Layer)
  /\ inner \in [Layer -> Inner]
  /\ browser \in [Layer -> {"none", "creating", "live", "closing"}]
  /\ hidden \in [Layer -> BOOLEAN]
  /\ tasks \in Seq(Task)
  /\ collected = NotSent \/ collected \subseteq Layer
  /\ asked \in [resets: 0..MaxResets, abouts: 0..MaxAbouts, urls: 0..MaxUrls]
=============================================================================
