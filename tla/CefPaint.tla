------------------------------ MODULE CefPaint ------------------------------
(***************************************************************************)
(* How one CEF layer follows the window: the debounced resize, the         *)
(* invalidate loop that keeps CEF painting after a resize, the doubled     *)
(* frame rate while the loop runs, and the paints that end it.  This is    *)
(* the active scheduler, the one of the shared-texture mode.               *)
(*                                                                         *)
(* Resizes come from the playback coordinator's worker and from mpv's      *)
(* event thread; ticks, debounced resizes, rate changes and paints run on  *)
(* CEF's UI thread.  What both sides touch is atomic field by field: an    *)
(* operation is split wherever it reads such a field and acts on it later. *)
(***************************************************************************)
EXTENDS Naturals, FiniteSets

CONSTANTS
    Resizers,    \* the threads that resize the layer
    WindowSizes, \* sizes of the window
    Rates,       \* refresh rates of the display, in Hz
    TickLimit,   \* INVALIDATE_TICK_LIMIT
    PumpCount    \* paints after a resize that end the loop

ASSUME CefPaintAssumption ==
    /\ WindowSizes \subseteq Nat /\ 0 \in WindowSizes
    /\ Rates \subseteq Nat \ {0}
    /\ TickLimit \in Nat /\ PumpCount \in Nat \ {0}

VARIABLES
    browser,   \* "none", "creating" or "alive"
    size,      \* Inner.width, height, physical_w and physical_h
    delivered, \* the size CEF was last told to read
    scheduled, \* resize_scheduled
    resizer,   \* per thread: where it is in resize
    loop,      \* PaintState: running, stop, ticks
    paints,    \* PaintState: fresh (resize_gen # last_paint_gen) and the count, capped
    rate,      \* frame_rate, the browser's rate, saved_frame_rate, and missed (history)
    tasks,     \* tasks posted to the UI thread: kick, tick, apply
    uiStep     \* the UI thread between two steps of an operation

cefVars == <<browser, size, delivered, scheduled, resizer, loop, paints, rate, tasks, uiStep>>

CefPaintInit ==
    /\ browser = "none"
    /\ size = 0 /\ delivered = 0
    /\ scheduled = FALSE
    /\ resizer = [r \in Resizers |-> "idle"]
    /\ loop = [running |-> FALSE, stop |-> FALSE, ticks |-> 0]
    /\ paints = [fresh |-> FALSE, count |-> 1]
    /\ rate = [frame |-> 0, current |-> 0, boosted |-> FALSE, saved |-> 0, missed |-> FALSE]
    /\ tasks = [kick |-> 0, tick |-> 0, apply |-> 0]
    /\ uiStep = "idle"

Alive == browser = "alive"
Least(m, n) == IF m < n THEN m ELSE n

(* start_invalidate_loop once stop is cleared: only one loop at a time. *)
Started(l) == IF l.running THEN l ELSE [l EXCEPT !.running = TRUE, !.ticks = 0]
(* Mutant of KickPosted: a running loop is started again. *)
KickPostedAlways(t) == [t EXCEPT !.kick = @ + 1]

KickPosted(t) == IF loop.running THEN t ELSE [t EXCEPT !.kick = @ + 1]

-----------------------------------------------------------------------------
(* resize, on either resizing thread. *)

ResizeStep(r, from, to) == resizer[r] = from /\ resizer' = [resizer EXCEPT ![r] = to]

ResizeStore(r, n) ==
    /\ ResizeStep(r, "idle", "stored")
    /\ size' = n
    /\ UNCHANGED <<browser, delivered, scheduled, loop, paints, rate, tasks, uiStep>>

ResizeBegin(r) ==
    /\ IF Alive
       THEN ResizeStep(r, "stored", "begun") /\ paints' = [paints EXCEPT !.fresh = TRUE]
       ELSE ResizeStep(r, "stored", "idle") /\ UNCHANGED paints
    /\ UNCHANGED <<browser, size, delivered, scheduled, loop, rate, tasks, uiStep>>

(* The first resize of a refresh period is told to CEF at once, the others *)
(* are left to one delayed task.                                           *)
ResizeNotify(r) ==
    /\ ResizeStep(r, "begun", "notified")
    /\ \/ /\ delivered' = IF Alive THEN size ELSE delivered
          /\ UNCHANGED <<scheduled, tasks>>
       \/ /\ scheduled' = TRUE
          /\ tasks' = IF scheduled THEN tasks ELSE [tasks EXCEPT !.apply = @ + 1]
          /\ UNCHANGED delivered
    /\ UNCHANGED <<browser, size, loop, paints, rate, uiStep>>

ResizeUnstop(r) ==
    /\ ResizeStep(r, "notified", "unstopped")
    /\ loop' = [loop EXCEPT !.stop = FALSE]
    /\ UNCHANGED <<browser, size, delivered, scheduled, paints, rate, tasks, uiStep>>

ResizeStart(r) ==
    /\ ResizeStep(r, "unstopped", "idle")
    /\ loop' = Started(loop)
    /\ tasks' = KickPosted(tasks)
    /\ UNCHANGED <<browser, size, delivered, scheduled, paints, rate, uiStep>>

-----------------------------------------------------------------------------
(* CEF's UI thread. *)

LayerUiStep(from, to) == uiStep = from /\ uiStep' = to

(* Mutant of ApplyResize: the flag stays set. *)
ApplyResizeKept ==
    /\ LayerUiStep("idle", IF Alive THEN "applying" ELSE "idle")
    /\ tasks.apply > 0
    /\ tasks' = [tasks EXCEPT !.apply = @ - 1]
    /\ UNCHANGED <<browser, size, delivered, scheduled, resizer, loop, paints, rate>>

(* apply_pending_resize clears the flag, and tells CEF afterwards. *)
ApplyResize ==
    /\ LayerUiStep("idle", IF Alive THEN "applying" ELSE "idle")
    /\ tasks.apply > 0
    /\ tasks' = [tasks EXCEPT !.apply = @ - 1]
    /\ scheduled' = FALSE
    /\ UNCHANGED <<browser, size, delivered, resizer, loop, paints, rate>>

DeliverResize ==
    /\ LayerUiStep("applying", "idle")
    /\ delivered' = size
    /\ loop' = Started([loop EXCEPT !.stop = FALSE])
    /\ paints' = [paints EXCEPT !.fresh = TRUE]
    /\ tasks' = KickPosted(tasks)
    /\ UNCHANGED <<browser, size, scheduled, resizer, rate>>

(* active_invalidate_tick, with the rate in r: a tick that finds the loop  *)
(* stopped gives the rate back, and clears running in its last step.       *)
Restored(r) ==
    IF Alive /\ r.saved > 0 THEN [r EXCEPT !.saved = 0, !.current = r.saved, !.boosted = FALSE]
    ELSE [r EXCEPT !.saved = 0]

(* Mutant of TickWith: the ticks are counted and not limited. *)
TickWithUnlimited(r, left) ==
    /\ rate' = IF loop.stop THEN Restored(r) ELSE r
    /\ loop' = [loop EXCEPT !.ticks = @ + 1, !.running = @ /\ (loop.stop \/ r.frame > 0)]
    /\ tasks' = IF loop.stop \/ r.frame = 0 THEN left ELSE [left EXCEPT !.tick = @ + 1]
    /\ LayerUiStep("idle", IF loop.stop THEN "stopping" ELSE "idle")

TickWith(r, left) ==
    LET stops == loop.stop \/ loop.ticks + 1 > TickLimit
    IN  /\ rate' = IF stops THEN Restored(r) ELSE r
        /\ loop' = [loop EXCEPT !.ticks = Least(@, TickLimit) + 1, !.stop = stops,
                                !.running = @ /\ (stops \/ r.frame > 0)]
        /\ tasks' = IF stops \/ r.frame = 0 THEN left ELSE [left EXCEPT !.tick = @ + 1]
        /\ LayerUiStep("idle", IF stops THEN "stopping" ELSE "idle")

(* active_kick_apply: the first tick of a loop doubles the frame rate. *)
Kick ==
    /\ tasks.kick > 0
    /\ TickWith(IF Alive /\ rate.frame > 0 /\ rate.saved = 0
                THEN [rate EXCEPT !.saved = rate.frame, !.current = rate.frame, !.boosted = TRUE]
                ELSE rate,
                [tasks EXCEPT !.kick = @ - 1])
    /\ UNCHANGED <<browser, size, delivered, scheduled, resizer, paints>>

Tick ==
    /\ tasks.tick > 0
    /\ TickWith(rate, [tasks EXCEPT !.tick = @ - 1])
    /\ UNCHANGED <<browser, size, delivered, scheduled, resizer, paints>>

TickEnds ==
    /\ LayerUiStep("stopping", "idle")
    /\ loop' = [loop EXCEPT !.running = FALSE]
    /\ UNCHANGED <<browser, size, delivered, scheduled, resizer, paints, rate, tasks>>

(* active_should_present_paint counts the paints of a generation; whether  *)
(* the count restarts depends on the clock.                                *)
CountPaint ==
    /\ Alive
    /\ \E restarts \in {FALSE, paints.fresh} :
        LET count == IF restarts THEN 1 ELSE Least(paints.count + 1, PumpCount + 1)
        IN  /\ paints' = [fresh |-> FALSE, count |-> count]
            /\ LayerUiStep("idle", IF count = PumpCount /\ rate.frame > 0 THEN "pumped" ELSE "idle")
    /\ UNCHANGED <<browser, size, delivered, scheduled, resizer, loop, rate, tasks>>

PumpEnds ==
    /\ LayerUiStep("pumped", "idle")
    /\ loop' = [loop EXCEPT !.stop = TRUE]
    /\ UNCHANGED <<browser, size, delivered, scheduled, resizer, paints, rate, tasks>>

(* Mutant of ApplyRefresh: the rate a running loop gives back is the old one. *)
ApplyRefreshStale(hz) ==
    /\ uiStep = "idle"
    /\ rate' = [rate EXCEPT !.frame = hz,
                            !.current = IF rate.saved = 0 /\ Alive THEN hz ELSE @,
                            !.boosted = @ /\ (rate.saved # 0 \/ ~Alive),
                            !.missed = @ \/ browser = "creating"]
    /\ UNCHANGED <<browser, size, delivered, scheduled, resizer, loop, paints, tasks, uiStep>>

(* apply_set_refresh, which set_refresh_rate posts: a loop that is running *)
(* restores the new rate when it ends.                                     *)
ApplyRefresh(hz) ==
    /\ uiStep = "idle"
    /\ rate' = [rate EXCEPT !.frame = hz,
                            !.saved = IF @ # 0 THEN hz ELSE 0,
                            !.current = IF rate.saved = 0 /\ Alive THEN hz ELSE @,
                            !.boosted = @ /\ (rate.saved # 0 \/ ~Alive),
                            !.missed = @ \/ browser = "creating"]
    /\ UNCHANGED <<browser, size, delivered, scheduled, resizer, loop, paints, tasks, uiStep>>

(* create reads the rate; the browser appears later, and is told its size. *)
CreateBrowser ==
    /\ uiStep = "idle" /\ browser = "none"
    /\ browser' = "creating"
    /\ rate' = [rate EXCEPT !.current = rate.frame, !.boosted = FALSE, !.missed = FALSE]
    /\ UNCHANGED <<size, delivered, scheduled, resizer, loop, paints, tasks, uiStep>>

AfterCreated ==
    /\ uiStep = "idle" /\ browser = "creating"
    /\ browser' = "alive"
    /\ delivered' = size
    /\ loop' = Started([loop EXCEPT !.stop = FALSE])
    /\ paints' = [paints EXCEPT !.fresh = TRUE]
    /\ tasks' = KickPosted(tasks)
    /\ UNCHANGED <<size, scheduled, resizer, rate, uiStep>>

BeforeClose ==
    /\ uiStep = "idle" /\ Alive
    /\ browser' = "none"
    /\ loop' = [loop EXCEPT !.stop = TRUE]
    /\ UNCHANGED <<size, delivered, scheduled, resizer, paints, rate, tasks, uiStep>>

-----------------------------------------------------------------------------
Resize(r) ==
    \/ \E n \in WindowSizes : ResizeStore(r, n)
    \/ ResizeBegin(r) \/ ResizeNotify(r) \/ ResizeUnstop(r) \/ ResizeStart(r)

CefPaintNext ==
    \/ \E r \in Resizers : Resize(r)
    \/ ApplyResize \/ DeliverResize
    \/ Kick \/ Tick \/ TickEnds \/ PumpEnds \/ CountPaint
    \/ \E hz \in Rates : ApplyRefresh(hz)
    \/ CreateBrowser \/ AfterCreated \/ BeforeClose

(* The UI thread runs what is posted to it, in turn, and finishes what it  *)
(* began.  Nobody has to resize, paint, or change the rate.                *)
CefPaintFairness ==
    /\ WF_cefVars(DeliverResize \/ TickEnds \/ PumpEnds)
    /\ SF_cefVars(Kick \/ Tick) /\ SF_cefVars(ApplyResize)

CefPaintSpec == CefPaintInit /\ [][CefPaintNext]_cefVars /\ CefPaintFairness

-----------------------------------------------------------------------------
CefPaintTypeOK ==
    /\ browser \in {"none", "creating", "alive"}
    /\ size \in WindowSizes /\ delivered \in WindowSizes
    /\ scheduled \in BOOLEAN
    /\ resizer \in [Resizers -> {"idle", "stored", "begun", "notified", "unstopped"}]
    /\ loop \in [running : BOOLEAN, stop : BOOLEAN, ticks : 0..(TickLimit + 1)]
    /\ paints \in [fresh : BOOLEAN, count : 1..(PumpCount + 1)]
    /\ rate \in [frame : Rates \cup {0}, current : Rates \cup {0}, boosted : BOOLEAN,
                 saved : Rates \cup {0}, missed : BOOLEAN]
    /\ tasks \in [kick : Nat, tick : Nat, apply : Nat]
    /\ uiStep \in {"idle", "applying", "stopping", "pumped"}

ResizersIdle == \A r \in Resizers : resizer[r] = "idle"

(* There is never more than one invalidate loop: a loop is one task, and   *)
(* nothing is queued once it was ended.                                    *)
OneLoop == tasks.kick + tasks.tick = IF loop.running /\ uiStep # "stopping" THEN 1 ELSE 0

(* Once the resizes have come to rest, CEF was told of the last size: the  *)
(* debounce loses none.                                                    *)
LastSizeDelivered ==
    Alive /\ ResizersIdle /\ uiStep = "idle" /\ tasks.apply = 0 => delivered = size

(* The boost does not outlive the loop, and the rate a loop gives back is  *)
(* the rate of the display, changed meanwhile or not.                      *)
RateGivenBack ==
    Alive /\ ~loop.running =>
        /\ ~rate.boosted /\ rate.saved = 0
        /\ ~rate.missed => rate.current = rate.frame
=============================================================================
