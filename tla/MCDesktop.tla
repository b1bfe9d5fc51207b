------------------------------ MODULE MCDesktop ------------------------------
(* The painting path on Wayland and X11, the settings store and the choice  *)
(* of a server, on one instance of five machines that share no variable:    *)
(* the behaviours explored are those of one machine, chosen initially,      *)
(* while the others rest in a state none of their threads can leave.        *)
EXTENDS WaylandWindow, PaintWorkers, CefPaint, SettingsStore, ServerConnect

VARIABLE machine \* which of the machines runs

allVars == <<machine, windowVars, paintVars, cefVars, vars, connectVars>>

(* A window after its teardown. *)
WindowAtRest ==
  /\ kind = "dmabuf" /\ stack = <<>>
  /\ surf = [l \in Layers |-> NoSurface] /\ presenters = [l \in Layers |-> NoWorker]
  /\ wl = [inited |-> TRUE, wasFs |-> FALSE, transitioning |-> FALSE, mode |-> "Attach"]
  /\ lock = "free" /\ uiAt = [UiIdle EXCEPT !.pc = "dead"]
  /\ windowFs = FALSE /\ callbacks = FALSE /\ proxy = ProxyIdle
  /\ commands = <<>> /\ compFs = FALSE /\ events = <<>> /\ mpvFs = FALSE
  /\ echo = Absent /\ mainAt = "done"
  /\ sent = [configures |-> 0, requests |-> 0]

(* A store whose process has exited. *)
StoreAtRest ==
  /\ data = Written /\ disk = Written /\ created = FALSE /\ pending = None
  /\ stop = FALSE /\ started = FALSE /\ joinable = FALSE
  /\ worker = "none" /\ held = None /\ ui = "idle" /\ ui_snap = Default
  /\ main = "exit" /\ main_snap = Default /\ remains = FALSE
  /\ failed = FALSE /\ accepted = 0

ASSUME AddressesAssumption == Addresses # {}

(* A page that is gone, over the server. *)
ConnectAtRest ==
  /\ overlay = [at |-> "gone", server |-> NoUrl, mainLoaded |-> TRUE, pendingUrl |-> NoUrl]
  /\ toNative = <<>> /\ toPage = <<>> /\ probes = [made |-> <<>>, active |-> 0]
  /\ server_url = CHOOSE u \in Addresses : TRUE
  /\ web = [url |-> server_url, pending |-> NoUrl, state |-> "normal", layer_ptr |-> TRUE]
  /\ focus = "main"
  /\ history = [verified |-> {server_url}, stale |-> FALSE, late |-> FALSE, escapes |-> 0]

(* The paint workers and a layer's paint loop rest in their initial states. *)
Init ==
  /\ machine \in {"window", "workers", "layer", "store", "connect"}
  /\ PaintInit /\ CefPaintInit
  /\ machine # "workers" => presenter = "wl_shm"
  /\ IF machine = "window" THEN WindowInit ELSE WindowAtRest
  /\ IF machine = "store" THEN StoreInit ELSE StoreAtRest
  /\ IF machine = "connect" THEN ConnectInit ELSE ConnectAtRest

Rest(m, its) == machine # m => UNCHANGED its

Next ==
  /\ UNCHANGED machine
  /\ \/ machine = "window" /\ WindowNext
     \/ machine = "workers" /\ PaintNext
     \/ machine = "layer" /\ CefPaintNext
     \/ machine = "store" /\ StoreNext
     \/ machine = "connect" /\ ConnectNext
  /\ Rest("window", windowVars) /\ Rest("workers", paintVars) /\ Rest("layer", cefVars)
  /\ Rest("store", vars) /\ Rest("connect", connectVars)

Spec ==
  /\ Init /\ [][Next]_allVars
  /\ WindowFairness /\ PaintFairness /\ CefPaintFairness /\ Fairness /\ ConnectFairness

-----------------------------------------------------------------------------
(* The variables hold the values of their types.                            *)
TypesOK == WindowTypeOK /\ PaintTypeOK /\ CefPaintTypeOK /\ StoreTypeOK /\ ConnectTypeOK

Lags == disk = None \/ disk.web < accepted

(* A layer's free waits for its presenter, and the teardown for the proxy;  *)
(* a frame handed over for its worker, and a free for the workers; a paint  *)
(* loop for a frame or its last tick; an accepted snapshot for the disk,    *)
(* and the stop of the save worker for its thread; an attempt to connect    *)
(* for its answer, and a reset browser for its successor.                    *)
Waiting ==
  CASE machine = "window" -> uiAt.pc = "join" \/ mainAt \in {"detached", "cef_down"}
    [] machine = "workers" ->
         \/ surface = "freeing"
         \/ ~gpuFailed /\ \E w \in Workers : queue[w].pending # NoFrame
    [] machine = "layer" -> loop.running
    [] machine = "store" ->
         \/ accepted > 0 /\ Lags /\ ~failed /\ ~remains
         \/ main \in {"stop", "notify", "take", "join"}
    [] machine = "connect" -> ConnectWaits

(* Every wait ends: nothing is freed, joined or stopped forever, and no     *)
(* frame, snapshot or attempt that was begun is left behind.                     *)
WaitsEnd == Waiting ~> ~Waiting
=============================================================================
