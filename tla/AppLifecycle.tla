----------------------------- MODULE AppLifecycle -----------------------------
(***************************************************************************)
(* The life of the process: the main thread boots, parks and tears down    *)
(* (src/jfn_rust/src/app.rs), the manager thread folds visibility, power   *)
(* and shutdown into one state and drives the browsers (manager.rs), and   *)
(* shutdown may be asked for by any thread or signal handler               *)
(* (playback/src/shutdown.rs).  The browsers are those of CefLayers.       *)
(***************************************************************************)
EXTENDS CefLayers

CONSTANTS
  MaxMessages, \* bound on the visibility and power messages of the platform
  EarlySignal  \* shutdown may be asked for before both boot layers exist

ASSUME MessagesAssumption == MaxMessages \in Nat /\ EarlySignal \in BOOLEAN

VARIABLES
  main,      \* where the main thread is
  parked,    \* MAIN_PARK has not been signalled
  handler,   \* the shutdown handler is installed
  initiator, \* where the first jfn_shutdown_initiate is
  sender,    \* a jfn_manager_send has pushed and not yet signalled
  sent,      \* messages sent so far
  mqueue,    \* the manager's queue
  mwake,     \* the manager's wake event is signalled
  manager,   \* where the manager thread is
  lifecycle, \* LifecycleState
  work       \* messages taken and not yet folded

mainVars    == <<main, parked, handler>>
signalVars  == <<shutting_down, initiator>>
sendVars    == <<sender, sent>>
managerVars == <<manager, lifecycle, work>>
appVars == <<layerVars, mainVars, signalVars, sendVars, mqueue, mwake, managerVars>>

LifecycleState == {"Running", "Hidden", "Suspended", "ShuttingDown"}
ManagerMsg == [op: {"SetVisible"}, visible: BOOLEAN]
              \cup [op: {"Suspend", "Resume", "Shutdown"}]
MainStep == {"init", "started", "create_web", "create_overlay", "load", "park",
             "join", "free", "cef", "down"}
ManagerStep == {"off", "wait", "drain", "take", "fold", "recv", "closing",
                "done"}

AppInit ==
  /\ LayersInit
  /\ shutting_down = FALSE
  /\ main = "init"
  /\ parked = TRUE
  /\ handler = FALSE
  /\ initiator = "idle"
  /\ sender = FALSE
  /\ sent = 0
  /\ mqueue = <<>>
  /\ mwake = FALSE
  /\ manager = "off"
  /\ lifecycle = "Running"
  /\ work = <<>>

MainFrom(from, to) == main = from /\ main' = to

-----------------------------------------------------------------------------
(* The main thread.                                                         *)

StartManager ==
  /\ MainFrom("init", "started")
  /\ up' = TRUE
  /\ manager' = "wait"
  /\ UNCHANGED <<layers, active_stack, inner, browser, hidden, tasks,
                 collected, asked, parked, handler, signalVars, sendVars,
                 mqueue, mwake, lifecycle, work>>

SetHandler ==
  /\ MainFrom("started", "create_web")
  /\ handler' = TRUE
  /\ UNCHANGED <<layerVars, parked, signalVars, sendVars, mqueue, mwake,
                 managerVars>>

CreateBootLayers ==
  /\ \/ MainFrom("create_web", "create_overlay") /\ CreateLayer("web")
     \/ MainFrom("create_overlay", "load") /\ CreateLayer("overlay")
  /\ UNCHANGED <<asked, parked, handler, signalVars, sendVars, mqueue, mwake,
                 managerVars>>

WaitForLoad ==
  /\ MainFrom("load", "park")
  /\ inner["web"].loaded
  /\ UNCHANGED <<layerVars, parked, handler, signalVars, sendVars, mqueue,
                 mwake, managerVars>>

RunMainLoop ==
  /\ MainFrom("park", "join")
  /\ ~parked
  /\ UNCHANGED <<layerVars, parked, handler, signalVars, sendVars, mqueue,
                 mwake, managerVars>>

JoinManager ==
  /\ MainFrom("join", "free")
  /\ manager = "done"
  /\ UNCHANGED <<layerVars, parked, handler, signalVars, sendVars, mqueue,
                 mwake, managerVars>>

BrowsersShutdown ==
  /\ MainFrom("free", "cef")
  /\ up' = FALSE
  /\ layers' = {}
  /\ active_stack' = <<>>
  /\ UNCHANGED <<inner, browser, hidden, tasks, collected, asked, parked,
                 handler, signalVars, sendVars, mqueue, mwake, managerVars>>

CefShutdown ==
  /\ MainFrom("cef", "down")
  /\ UNCHANGED <<layerVars, parked, handler, signalVars, sendVars, mqueue,
                 mwake, managerVars>>

MainThread ==
  \/ StartManager \/ SetHandler \/ CreateBootLayers \/ WaitForLoad
  \/ RunMainLoop \/ JoinManager \/ BrowsersShutdown \/ CefShutdown

-----------------------------------------------------------------------------
(* jfn_shutdown_initiate: the flag is set once, then the handler, if one is *)
(* installed by now, wakes the manager.                                     *)

Initiate ==
  /\ ~shutting_down
  /\ EarlySignal \/ main \notin {"init", "started", "create_web", "create_overlay"}
  /\ shutting_down' = TRUE
  /\ initiator' = "flagged"
  /\ UNCHANGED <<layerVars, mainVars, sendVars, mqueue, mwake, managerVars>>

CallHandler ==
  /\ initiator = "flagged"
  /\ initiator' = "done"
  /\ mwake' = (mwake \/ handler)
  /\ UNCHANGED <<layerVars, mainVars, shutting_down, sendVars, mqueue,
                 managerVars>>

(* The platform's lifecycle events; those before StartManager are dropped.  *)
Send(msg) ==
  /\ main # "init"
  /\ ~sender /\ sent < MaxMessages
  /\ sender' = TRUE
  /\ sent' = sent + 1
  /\ mqueue' = Append(mqueue, msg)
  /\ UNCHANGED <<layerVars, mainVars, signalVars, mwake, managerVars>>

SendSignal ==
  /\ sender
  /\ sender' = FALSE
  /\ mwake' = TRUE
  /\ UNCHANGED <<layerVars, mainVars, signalVars, sent, mqueue, managerVars>>

-----------------------------------------------------------------------------
(* The manager thread.                                                      *)

ManagerFrom(from, to) == manager = from /\ manager' = to

ManagerWait ==
  /\ ManagerFrom("wait", "drain")
  /\ mwake
  /\ UNCHANGED <<layerVars, mainVars, signalVars, sendVars, mqueue, mwake,
                 lifecycle, work>>

ManagerDrain ==
  /\ ManagerFrom("drain", "take")
  /\ mwake' = FALSE
  /\ UNCHANGED <<layerVars, mainVars, signalVars, sendVars, mqueue, lifecycle,
                 work>>

ManagerTake ==
  /\ ManagerFrom("take", "fold")
  /\ work' = mqueue \o IF shutting_down THEN <<[op |-> "Shutdown"]>> ELSE <<>>
  /\ mqueue' = <<>>
  /\ UNCHANGED <<layerVars, mainVars, signalVars, sendVars, mwake, lifecycle>>

(* transition: the next state and the visibility to broadcast, if any.      *)
Stay == [to |-> lifecycle, broadcast |-> {}]
Go(to, broadcast) == [to |-> to, broadcast |-> broadcast]

(* Mutant of Resumed: the browsers are not shown again.                     *)
ResumedSilently == Go("Running", {})

Resumed == Go("Running", {FALSE})

Transition(msg) ==
  CASE lifecycle = "Running" /\ msg.op = "SetVisible" /\ ~msg.visible
         -> Go("Hidden", {TRUE})
    [] lifecycle = "Hidden" /\ msg.op = "SetVisible" /\ msg.visible
         -> Go("Running", {FALSE})
    [] lifecycle \in {"Running", "Hidden"} /\ msg.op = "Suspend"
         -> Go("Suspended", IF lifecycle = "Running" THEN {TRUE} ELSE {})
    [] lifecycle = "Suspended" /\ msg.op = "Resume" -> Resumed
    [] OTHER -> Stay

ManagerFold ==
  /\ manager = "fold"
  /\ IF work = <<>>
     THEN manager' = "wait" /\ UNCHANGED <<tasks, lifecycle, work>>
     ELSE LET msg == Head(work) IN
          /\ work' = Tail(work)
          /\ IF msg.op = "Shutdown"
             THEN /\ manager' = "recv"
                  /\ tasks' = Append(tasks, [op |-> "CloseAndCollect"])
                  /\ UNCHANGED lifecycle
             ELSE /\ manager' = "fold"
                  /\ lifecycle' = Transition(msg).to
                  /\ tasks' = tasks \o SetToSeq(
                       {[op |-> "SetHiddenAll", hidden |-> h] :
                          h \in Transition(msg).broadcast})
  /\ UNCHANGED <<up, layers, active_stack, inner, browser, hidden, collected,
                 asked, mainVars, signalVars, sendVars, mqueue, mwake>>

(* close_all_blocking: the wait set arrives, each of its layers closes.     *)
ManagerRecv ==
  /\ ManagerFrom("recv", "closing")
  /\ collected # NotSent
  /\ UNCHANGED <<layerVars, mainVars, signalVars, sendVars, mqueue, mwake,
                 lifecycle, work>>

ManagerReleaseMain ==
  /\ ManagerFrom("closing", "done")
  /\ \A l \in collected : inner[l].closed
  /\ parked' = FALSE
  /\ lifecycle' = "ShuttingDown"
  /\ UNCHANGED <<layerVars, main, handler, signalVars, sendVars, mqueue, mwake,
                 work>>

Manager ==
  \/ ManagerWait \/ ManagerDrain \/ ManagerTake \/ ManagerFold
  \/ ManagerRecv \/ ManagerReleaseMain

CefUiThread ==
  /\ main # "down"
  /\ UiThread
  /\ UNCHANGED <<mainVars, signalVars, sendVars, mqueue, mwake, managerVars>>

Down == main = "down" /\ UNCHANGED appVars

AppNext ==
  \/ MainThread \/ Manager \/ CefUiThread
  \/ Initiate \/ CallHandler \/ SendSignal
  \/ \E msg \in ManagerMsg : msg.op # "Shutdown" /\ Send(msg)
  \/ Down

(* Every thread runs; the user and the platform need not do anything.       *)
AppFairness ==
  /\ WF_appVars(MainThread) /\ WF_appVars(Manager)
  /\ WF_appVars(CallHandler) /\ WF_appVars(SendSignal)
  /\ \A l \in Layer : WF_appVars(CefUiThread /\ OnAfterCreated(l))
  /\ WF_appVars(CefUiThread /\ OnLoadEnd)
  /\ \A l \in Layer : WF_appVars(CefUiThread /\ OnBeforeClose(l))
  /\ WF_appVars(CefUiThread /\ RunTask)

AppSpec == AppInit /\ [][AppNext]_appVars /\ AppFairness

-----------------------------------------------------------------------------
(* The variables hold the values of their types.                            *)
AppTypeOK ==
  /\ LayersTypeOK
  /\ main \in MainStep
  /\ parked \in BOOLEAN /\ handler \in BOOLEAN /\ sender \in BOOLEAN
  /\ initiator \in {"idle", "flagged", "done"}
  /\ sent \in 0..MaxMessages
  /\ mqueue \in Seq(ManagerMsg) /\ work \in Seq(ManagerMsg)
  /\ mwake \in BOOLEAN
  /\ manager \in ManagerStep
  /\ lifecycle \in LifecycleState

(* No dangling layer: the focus history, which names a layer once, and the *)
(* handle a layer keeps of itself, both raw pointers in the code, name     *)
(* layers still registered.                                                *)
HandlesRegistered ==
  up => /\ IsInjective(active_stack) /\ ToSet(active_stack) \subseteq layers
        /\ \A l \in Layer : inner[l].layer_ptr <=> l \in layers

(* No black window: once what it posted has run, a running (that is, shown) *)
(* app has no hidden browser, whatever hid, suspended and resumed it and    *)
(* whichever browsers were created or closed meanwhile.                     *)
ShownWhenRunning ==
  lifecycle = "Running" /\ tasks = <<>> =>
    \A l \in Layer : Live(l) => ~hidden[l]

(* browsers.rs:375: CEF is shut down with every browser closed.             *)
NoBrowserAtCefShutdown ==
  main = "cef" => \A l \in Layer : browser[l] = "none"

(* ... unless the web layer was reset: a reset takes it out of the registry *)
(* and the browser that replaces its first is known to nobody.              *)
AllClosedUnlessReset ==
  main = "cef" /\ asked.resets = 0 => \A l \in Layer : browser[l] = "none"

(* Shutdown completes: whatever the browsers are doing, the manager gets    *)
(* its wait set, each layer in it closes and the main thread comes down.    *)
ExitReached == shutting_down ~> main = "down"
=============================================================================
