----------------------------- MODULE MacMainLoop -----------------------------
(***************************************************************************)
(* The main thread of macOS: AppKit's run loop, which is also the message  *)
(* pump of CEF (macos/src/cef_pump.rs), and the release of the loop by the *)
(* manager (macos/src/lib.rs).                                             *)
(*                                                                         *)
(* The run loop serves one thing at a time: the work source, the timer,    *)
(* blocks of the main queue and events.  CEF itself is external: it queues *)
(* tasks, asks for its pump through on_schedule only when it believes that *)
(* nobody was asked, and cuts its turn short after ten milliseconds.       *)
(***************************************************************************)
EXTENDS Naturals

CONSTANTS
  Posters,    \* threads that give CEF work
  MaxTasks    \* bound on the tasks CEF is given

ASSUME LoopAssumption == MaxTasks \in Nat \ {0}

VARIABLES
  loopAt,   \* what the main thread does
  nsapp,    \* NSApplication: asked to stop, sentinel events queued
  source,   \* WORK_SOURCE, its signal, WORK_SOURCE_PENDING, PUMP_SHUTDOWN
  timer,    \* DELAYED_TIMER: whether it is valid and armed
  pump,     \* of CEF: tasks, delayed work, what its WorkDeduplicator believes
  posters,  \* where each thread is in on_schedule
  releasing \* shutting_down; whether the manager woke the loop; its block is queued

loopVars == <<loopAt, nsapp, source, timer, pump, posters, releasing>>
pumpVars == <<source, timer, pump, posters>>

LoopInit ==
  /\ loopAt = "boot" /\ nsapp = [stop |-> FALSE, events |-> 0]
  /\ source = [installed |-> FALSE, signalled |-> FALSE, pending |-> FALSE, shutdown |-> FALSE]
  /\ timer = [valid |-> FALSE, armed |-> FALSE]
  /\ pump = [tasks |-> 0, delayed |-> FALSE, dedup |-> "down", posted |-> 0]
  /\ posters = [p \in Posters |-> "idle"]
  /\ releasing = [asked |-> FALSE, woken |-> FALSE, block |-> FALSE]

-----------------------------------------------------------------------------
(* The pump.                                                                *)

(* CFRunLoopSourceSignal, unless the source is gone.                        *)
Signalled(s) == IF s.installed THEN [s EXCEPT !.pending = TRUE, !.signalled = TRUE] ELSE s

(* init, and CefInitialize, which asks for the pump at once.                *)
PumpInit ==
  /\ loopAt = "boot" /\ loopAt' = "run"
  /\ source' = Signalled([source EXCEPT !.installed = TRUE])
  /\ timer' = [valid |-> TRUE, armed |-> FALSE]
  /\ pump' = [pump EXCEPT !.tasks = 1, !.dedup = "pending"]
  /\ UNCHANGED <<nsapp, posters, releasing>>

CefUp == pump.dedup # "down"

(* A thread gives CEF a task; CEF asks for its pump if it believes that it  *)
(* was not asked for.                                                       *)
PostWork(p) ==
  /\ CefUp /\ posters[p] = "idle" /\ pump.posted < MaxTasks
  /\ pump' = [pump EXCEPT !.tasks = @ + 1, !.posted = @ + 1,
                        !.dedup = IF @ = "idle" THEN "pending" ELSE @]
  /\ posters' = [posters EXCEPT ![p] = IF pump.dedup = "idle" THEN "check" ELSE "idle"]
  /\ UNCHANGED <<loopAt, nsapp, source, timer, releasing>>

(* on_schedule(0) of that thread: the flag, the shadow bit, the signal.     *)
ScheduleStep(p) ==
  /\ CASE posters[p] = "check" ->
            /\ posters' = [posters EXCEPT ![p] =
                             IF source.shutdown \/ ~source.installed THEN "idle" ELSE "mark"]
            /\ UNCHANGED source
       [] posters[p] = "mark" ->
            /\ posters' = [posters EXCEPT ![p] = "signal"]
            /\ source' = [source EXCEPT !.pending = TRUE]
       [] posters[p] = "signal" ->
            /\ posters' = [posters EXCEPT ![p] = "idle"]
            /\ source' = IF source.installed THEN [source EXCEPT !.signalled = TRUE] ELSE source
       [] OTHER -> FALSE
  /\ UNCHANGED <<loopAt, nsapp, timer, pump, releasing>>

(* on_schedule of delayed work: the timer gets its date.                    *)
PostDelayed ==
  /\ CefUp /\ ~pump.delayed /\ pump.posted < MaxTasks /\ ~source.shutdown
  /\ pump' = [pump EXCEPT !.delayed = TRUE, !.posted = @ + 1]
  /\ timer' = [timer EXCEPT !.armed = timer.valid]
  /\ UNCHANGED <<loopAt, nsapp, source, posters, releasing>>

(* pump_drain, up to do_message_loop_work.                                  *)
DrainBegins ==
  IF source.shutdown THEN UNCHANGED <<loopAt, pump>> /\ source' = [source EXCEPT !.signalled = FALSE]
  ELSE /\ loopAt' = "drain" /\ pump' = [pump EXCEPT !.dedup = "in_work"]
       /\ source' = [source EXCEPT !.signalled = FALSE, !.pending = FALSE]

ServeSource ==
  /\ loopAt = "run" /\ source.installed /\ source.signalled
  /\ DrainBegins
  /\ UNCHANGED <<nsapp, timer, posters, releasing>>

(* A timer without an interval fires once and is invalid afterwards.        *)
ServeTimer ==
  /\ loopAt = "run" /\ timer.valid /\ timer.armed
  /\ timer' = [valid |-> FALSE, armed |-> FALSE]
  /\ DrainBegins
  /\ UNCHANGED <<nsapp, posters, releasing>>

(* Mutant of Rescued: a turn that was cut short is not noticed.             *)
RescuedNever(s, slow) == s

(* A turn longer than CEF's slice may have been cut short: the source is    *)
(* signalled again, unless somebody has asked meanwhile.                    *)
Rescued(s, slow) == IF slow /\ ~s.pending THEN Signalled(s) ELSE s

(* do_message_loop_work: at least one task, not always all, and then CEF    *)
(* goes on believing that its pump was asked for.                           *)
DrainEnds ==
  /\ loopAt = "drain" /\ loopAt' = "run"
  /\ \E left \in 0..pump.tasks, slow \in BOOLEAN :
       /\ pump.tasks > 0 => left < pump.tasks
       /\ left > 0 => slow
       /\ slow => pump.tasks > 0
       /\ pump' = [pump EXCEPT !.tasks = left, !.delayed = FALSE,
                             !.dedup = IF left > 0 THEN "pending" ELSE "idle"]
       /\ source' = Rescued(source, slow)
  /\ UNCHANGED <<nsapp, timer, posters, releasing>>

-----------------------------------------------------------------------------
(* The end.                                                                 *)

(* Quit, the close button or a signal: jfn_shutdown_initiate.               *)
AskQuit ==
  /\ loopAt \in {"run", "drain"} /\ ~releasing.asked
  /\ releasing' = [releasing EXCEPT !.asked = TRUE]
  /\ pump' = [pump EXCEPT !.tasks = @ + 1, !.dedup = IF @ = "idle" THEN "pending" ELSE @]
  /\ IF pump.dedup = "idle"
     THEN source' = Signalled(source) ELSE UNCHANGED source
  /\ UNCHANGED <<loopAt, nsapp, timer, posters>>

(* The manager, once the closes it posted ran: macos_wake_main_loop.        *)
WakeMainLoop ==
  /\ releasing.asked /\ ~releasing.woken /\ pump.tasks = 0 /\ loopAt = "run"
  /\ releasing' = [releasing EXCEPT !.woken = TRUE, !.block = TRUE]
  /\ UNCHANGED <<loopAt, nsapp, pumpVars>>

(* Mutant of WakeBlock: -stop: alone.                                       *)
WakeBlockPlain(n) == [n EXCEPT !.stop = TRUE]

(* wake_trampoline: -stop: takes effect at the end of an event, and the     *)
(* sentinel is one.                                                         *)
WakeBlock(n) == [n EXCEPT !.stop = TRUE, !.events = @ + 1]

ServeBlock ==
  /\ loopAt = "run" /\ releasing.block
  /\ releasing' = [releasing EXCEPT !.block = FALSE]
  /\ nsapp' = WakeBlock(nsapp)
  /\ UNCHANGED <<loopAt, pumpVars>>

(* macos_run_main_loop returns after the event that follows -stop:.         *)
ServeEvent ==
  /\ loopAt = "run" /\ nsapp.events > 0
  /\ nsapp' = [stop |-> FALSE, events |-> nsapp.events - 1]
  /\ loopAt' = IF nsapp.stop THEN "teardown" ELSE "run"
  /\ UNCHANGED <<pumpVars, releasing>>

(* jfn_cef_shutdown: the pump is closed before CEF goes down.               *)
PumpShutdown ==
  /\ loopAt = "teardown" /\ loopAt' = "cef_shutdown"
  /\ source' = [source EXCEPT !.installed = FALSE, !.signalled = FALSE, !.shutdown = TRUE]
  /\ timer' = [valid |-> FALSE, armed |-> FALSE]
  /\ UNCHANGED <<nsapp, pump, posters, releasing>>

CefDown ==
  /\ loopAt = "cef_shutdown" /\ loopAt' = "down"
  /\ pump' = [pump EXCEPT !.tasks = 0, !.delayed = FALSE, !.dedup = "down"]
  /\ UNCHANGED <<nsapp, source, timer, posters, releasing>>

-----------------------------------------------------------------------------
MainLoopStep ==
  \/ PumpInit \/ ServeSource \/ ServeTimer \/ DrainEnds
  \/ ServeBlock \/ ServeEvent \/ PumpShutdown \/ CefDown

LoopNext ==
  \/ MainLoopStep
  \/ \E p \in Posters : PostWork(p) \/ ScheduleStep(p)
  \/ PostDelayed \/ AskQuit \/ WakeMainLoop

LoopSpec == LoopInit /\ [][LoopNext]_loopVars

(* The main thread goes on, and so do the others; what it has to serve is   *)
(* bounded, so it comes to everything.                                      *)
LoopFairness ==
  /\ WF_loopVars(MainLoopStep) /\ WF_loopVars(WakeMainLoop)
  /\ WF_loopVars(\E p \in Posters : ScheduleStep(p))

-----------------------------------------------------------------------------
(* The variables hold the values of their types.                            *)
LoopTypeOK ==
  /\ loopAt \in {"boot", "run", "drain", "teardown", "cef_shutdown", "down"}
  /\ nsapp \in [stop : BOOLEAN, events : 0..1]
  /\ source \in [installed : BOOLEAN, signalled : BOOLEAN, pending : BOOLEAN, shutdown : BOOLEAN]
  /\ timer \in [valid : BOOLEAN, armed : BOOLEAN]
  /\ pump \in [tasks : 0..(MaxTasks + 2), delayed : BOOLEAN, posted : 0..MaxTasks,
              dedup : {"down", "idle", "pending", "in_work"}]
  /\ posters \in [Posters -> {"idle", "check", "mark", "signal"}]
  /\ releasing \in [asked : BOOLEAN, woken : BOOLEAN, block : BOOLEAN]

(* The run loop never goes to sleep on work that CEF was promised its pump   *)
(* for: a signal is set or on its way (cef_pump.rs: the shadow bit, the      *)
(* rescue after a slow turn); and the wake-up of the manager, once given,    *)
(* stays a queued block or the stop with its sentinel event until the loop   *)
(* returns (lib.rs macos_wake_main_loop, wake_trampoline).                   *)
NothingStranded ==
  /\ loopAt = "run" /\ pump.tasks > 0
     => source.signalled \/ \E p \in Posters : posters[p] # "idle"
  /\ releasing.woken =>
       \/ releasing.block
       \/ nsapp.stop /\ nsapp.events > 0
       \/ loopAt \in {"teardown", "cef_shutdown", "down"}

(* CEF waits for its pump; an asked shutdown for the end of the loop.       *)
LoopWaits == IF releasing.asked THEN loopAt # "down" ELSE pump.tasks > 0
=============================================================================
