------------------------------ MODULE MCRuntime ------------------------------
(* Model-checking instances of six machines: a playback session, the        *)
(* coordinator with its shutdown, the life of the process, that of the mpv  *)
(* handle, and the main loop and the display link of macOS.  They share no  *)
(* variable but the state machine, which the session and the coordinator    *)
(* both drive, and the behaviours explored are those of one machine, chosen *)
(* initially, while the others rest in a state none of their threads can    *)
(* leave.                                                                   *)
EXTENDS PlayerSession, PlaybackCoordinator, AppLifecycle, MpvBoot, MacMainLoop,
        MacDisplayLink, TLC

CONSTANTS mpv, page, Machines

VARIABLE machine \* which of the machines runs

coordVars == <<ctlVars, worker, batch, events, actions, snapshot, sinkVars>>
playerVars == <<pageVars, pending, inputq, todo, taken, cmds, mpvVars, reported, evq>>
macVars == <<loopVars, linkVars>>
allVars == <<machine, sessionVars, coordVars, appVars, bootVars, macVars>>

(* The inputs that move the phase, the media type or the variant flag: the  *)
(* page announces a load and what it is, mpv reports the rest.               *)
PhaseInputs ==
  page :> {[op |-> "LoadStarting", id |-> CHOOSE id \in Items : TRUE],
           [op |-> "Metadata", type |-> "Audio"]}
  @@ mpv :> {[op |-> "FileLoaded"],
             [op |-> "PauseChanged", flag |-> TRUE],
             [op |-> "PauseChanged", flag |-> FALSE],
             [op |-> "EndFile", reason |-> "Eof"]}

(* Enough to tell an empty batch from one that changes something.           *)
FewInputs ==
  page :> {[op |-> "LoadStarting", id |-> CHOOSE id \in Items : TRUE]}
  @@ mpv :> {[op |-> "FileLoaded"], [op |-> "EndFile", reason |-> "Eof"]}

(* A coordinator that was shut down. *)
CoordAtRest ==
  /\ slot = Free /\ present = FALSE /\ queue = <<>> /\ wake = FALSE
  /\ running = FALSE /\ worker = "done"
  /\ batch = <<>> /\ events = <<>> /\ actions = <<>> /\ snapshot = Fresh
  /\ inhibit = "None" /\ ui = NoSignal

(* A process whose main thread has come down. *)
AppAtRest ==
  /\ LayersInit
  /\ shutting_down = FALSE /\ main = "down" /\ parked = TRUE /\ handler = FALSE
  /\ initiator = "idle" /\ sender = FALSE /\ sent = 0
  /\ mqueue = <<>> /\ mwake = FALSE
  /\ manager = "off" /\ lifecycle = "Running" /\ work = <<>>

(* A process whose boot failed. *)
BootAtRest ==
  /\ host = CHOOSE h \in Hosts : TRUE
  /\ handle_slot = "none" /\ at = "down"
  /\ vo = [want |-> FALSE, mw |-> 0, need_max |-> FALSE]
  /\ ingest = [pw |-> 0, scale |-> 0, maximized |-> FALSE]
  /\ mpvWin = [size |-> 0, scale |-> 1, max |-> FALSE, quit |-> FALSE]
  /\ news = {} /\ changes = 0 /\ woken = FALSE
  /\ wlWindow = [size |-> 0, scale |-> 0] /\ pend = [w |-> 0, scale |-> 1]
  /\ proxyAt = "idle" /\ linked = FALSE
  /\ evt = [pc |-> "off", held |-> 0] /\ evtStop = FALSE
  /\ coord = "none" /\ dims = <<>> /\ setter = FALSE
  /\ reg = [on |-> FALSE, pw |-> 0] /\ lost = {}
  /\ media = FALSE /\ holding = {} /\ closing = FALSE

(* A main loop that ended, and a display link that was stopped.             *)
LoopAtRest ==
  /\ loopAt = "down" /\ nsapp = [stop |-> FALSE, events |-> 0]
  /\ source = [installed |-> FALSE, signalled |-> FALSE, pending |-> FALSE, shutdown |-> TRUE]
  /\ timer = [valid |-> FALSE, armed |-> FALSE]
  /\ pump = [tasks |-> 0, delayed |-> FALSE, dedup |-> "down", posted |-> 0]
  /\ posters = [p \in Posters |-> "idle"]
  /\ releasing = [asked |-> TRUE, woken |-> TRUE, block |-> FALSE]

LinkAtRest ==
  /\ linkAt = "down" /\ link = NoLink /\ missed = FALSE
  /\ displays = [lit |-> {}, window |-> NoDisplay, notes |-> 0, changes |-> 0]

(* A session of which nothing is asked is at rest. *)
Init ==
  /\ machine \in Machines
  /\ SessionInit
  /\ IF machine = "coordinator" THEN CoordInit ELSE CoordAtRest
  /\ IF machine = "process" THEN AppInit ELSE AppAtRest
  /\ IF machine = "boot" THEN BootInit ELSE BootAtRest
  /\ IF machine = "mac_loop" THEN LoopInit ELSE LoopAtRest
  /\ IF machine = "mac_link" THEN LinkInit ELSE LinkAtRest

(* The main thread of macOS has come down: the process ends.                *)
MacEnded == loopAt = "down" /\ linkAt = "down" /\ UNCHANGED macVars

Rest(m, its) == machine # m => UNCHANGED its

Next ==
  /\ UNCHANGED machine
  /\ \/ machine = "session" /\ SessionNext /\ UNCHANGED coordVars
     \/ machine = "coordinator" /\ CoordNext /\ UNCHANGED playerVars
     \/ machine = "process" /\ AppNext
     \/ machine = "boot" /\ BootNext
     \/ machine = "mac_loop" /\ LoopNext
     \/ machine = "mac_link" /\ LinkNext
     \/ machine \in {"mac_loop", "mac_link"} /\ MacEnded
  /\ machine \notin {"session", "coordinator"} => UNCHANGED <<sessionVars, coordVars>>
  /\ Rest("process", appVars) /\ Rest("boot", bootVars)
  /\ Rest("mac_loop", loopVars) /\ Rest("mac_link", linkVars)

SafeSpec == Init /\ [][Next]_allVars
LiveSpec == SafeSpec /\ SessionFairness /\ Fairness /\ AppFairness /\ BootFairness
            /\ LoopFairness

(* The variables hold the values of their types.                            *)
TypesOK == CoordTypeOK /\ AppTypeOK /\ LoopTypeOK /\ LinkTypeOK

(* A file that opened waits for its tracks; an input for the worker, and a  *)
(* shutdown of the coordinator for its end; an asked shutdown of the        *)
(* process for the main thread to come down, and an address the user        *)
(* connects to for a browser; the boot for its window, and the teardown for *)
(* the threads that may hold the handle; CEF on macOS for its pump, and an   *)
(* asked shutdown for the end of the loop.                                   *)
Waiting ==
  CASE machine = "session" -> opened /\ tracks # playing
    [] machine = "coordinator" -> (queue # <<>> /\ running) \/ slot \in {Stopping, Joining}
    [] machine = "process" ->
         IF shutting_down THEN main # "down" ELSE inner["web"].pending_url
    [] machine = "boot" -> BootWaits
    [] machine = "mac_loop" -> LoopWaits
    [] OTHER -> FALSE

(* Every wait ends: no file is left without its tracks, no input untaken,   *)
(* no shutdown hangs, and no address is forgotten by a reset.                *)
WaitsEnd == Waiting ~> ~Waiting
=============================================================================
