------------------------- MODULE PlaybackCoordinator -------------------------
(***************************************************************************)
(* The playback coordinator of src/playback/src/coordinator.rs and ffi.rs: *)
(* producers post inputs to a queue, one worker thread drains it in        *)
(* batches, runs the state machine, publishes the snapshot and dispatches  *)
(* the batch to the built-in sinks (idle inhibit, browser, mpv action).    *)
(* The wake event is level-triggered and drained after the wait; the slot  *)
(* lock of ffi.rs is held across a post and across the join of a shutdown. *)
(***************************************************************************)
EXTENDS PlaybackStateMachine

CONSTANTS
  Producers, \* threads that call post: mpv event thread, CEF UI thread
  Posted,    \* the inputs each of them posts
  MaxQueue   \* bound on the inputs waiting in the queue

ASSUME PostedAssumption   == Posted \in [Producers -> SUBSET Input]
ASSUME MaxQueueAssumption == MaxQueue \in Nat \ {0}

Free     == "free"      \* the slot lock is not held
Stopping == "stopping"  \* held by jfn_playback_shutdown, running cleared
Joining  == "joining"   \* ... and the worker signalled

ASSUME ProducersAssumption == {Free, Stopping, Joining} \cap Producers = {}

VARIABLES
  slot,     \* holder of the lock around the singleton coordinator
  present,  \* the singleton is Some(coordinator)
  queue,    \* posted inputs
  wake,     \* the wake event is signalled
  running,  \* cleared by stop
  worker,   \* where the worker thread is
  batch,    \* the inputs taken from the queue and not yet applied
  events,   \* the events of the batch
  actions,  \* the actions of the batch
  snapshot, \* the published snapshot, also stamped on every event
  inhibit,  \* the level last given to the platform's idle inhibitor
  ui        \* the lifecycle signal last emitted to the web page

ctlVars == <<slot, present, queue, wake, running>>
sinkVars == <<inhibit, ui>>
vars == <<smVars, ctlVars, worker, batch, events, actions, snapshot, sinkVars>>

InhibitLevel == {"None", "System", "Display"}
UiSignal == {"playing", "paused", "finished", "canceled", "error"}
NoSignal == "nothing yet"
WorkerStep == {"check", "take", "wait", "drain", "apply", "publish",
               "inhibit", "browser", "act", "done"}

CoordInit ==
  /\ SMInit
  /\ slot = Free
  /\ present = TRUE
  /\ queue = <<>>
  /\ wake = FALSE
  /\ running = TRUE
  /\ worker = "check"
  /\ batch = <<>>
  /\ events = <<>>
  /\ actions = <<>>
  /\ snapshot = Fresh
  /\ inhibit = "None"
  /\ ui = NoSignal

-----------------------------------------------------------------------------
(* Producers: ffi.rs post takes the slot lock, enqueue pushes, unlocks the *)
(* queue and signals.  A post that finds no coordinator is dropped and     *)
(* changes nothing.                                                        *)

EnqueuePush(p, in) ==
  /\ slot = Free
  /\ present
  /\ Len(queue) < MaxQueue
  /\ slot' = p
  /\ queue' = Append(queue, in)
  /\ UNCHANGED <<smVars, present, wake, running, worker, batch, events,
                 actions, snapshot, sinkVars>>

(* Mutant of EnqueueSignal: the push is not signalled.                      *)
EnqueueSilently(p) ==
  /\ slot = p
  /\ slot' = Free
  /\ UNCHANGED <<smVars, present, queue, wake, running, worker, batch, events,
                 actions, snapshot, sinkVars>>

EnqueueSignal(p) ==
  /\ slot = p
  /\ slot' = Free
  /\ wake' = TRUE
  /\ UNCHANGED <<smVars, present, queue, running, worker, batch, events,
                 actions, snapshot, sinkVars>>

(* jfn_playback_shutdown: take the singleton and stop it under the lock.    *)
StopClear ==
  /\ slot = Free
  /\ present
  /\ slot' = Stopping
  /\ present' = FALSE
  /\ running' = FALSE
  /\ UNCHANGED <<smVars, queue, wake, worker, batch, events, actions,
                 snapshot, sinkVars>>

StopSignal ==
  /\ slot = Stopping
  /\ slot' = Joining
  /\ wake' = TRUE
  /\ UNCHANGED <<smVars, present, queue, running, worker, batch, events,
                 actions, snapshot, sinkVars>>

StopJoin ==
  /\ slot = Joining
  /\ worker = "done"
  /\ slot' = Free
  /\ UNCHANGED <<smVars, present, queue, wake, running, worker, batch, events,
                 actions, snapshot, sinkVars>>

-----------------------------------------------------------------------------
(* The worker.                                                              *)

WorkerAt(from, to) == worker = from /\ worker' = to

WorkerCheck ==
  /\ worker = "check"
  /\ worker' = IF running THEN "take" ELSE "done"
  /\ UNCHANGED <<smVars, ctlVars, batch, events, actions, snapshot, sinkVars>>

WorkerTake ==
  /\ worker = "take"
  /\ worker' = IF queue = <<>> THEN "wait" ELSE "apply"
  /\ batch' = queue
  /\ queue' = <<>>
  /\ UNCHANGED <<smVars, slot, present, wake, running, events, actions,
                 snapshot, sinkVars>>

WorkerWait ==
  /\ WorkerAt("wait", "drain")
  /\ wake
  /\ UNCHANGED <<smVars, ctlVars, batch, events, actions, snapshot, sinkVars>>

WorkerDrain ==
  /\ WorkerAt("drain", "check")
  /\ wake' = FALSE
  /\ UNCHANGED <<smVars, slot, present, queue, running, batch, events, actions,
                 snapshot, sinkVars>>

WorkerApply ==
  /\ worker = "apply"
  /\ Apply(Head(batch))
  /\ batch' = Tail(batch)
  /\ events' = events \o emitted'
  /\ actions' = actions \o pending_actions'
  /\ worker' = IF Tail(batch) = <<>> THEN "publish" ELSE "apply"
  /\ UNCHANGED <<ctlVars, snapshot, sinkVars>>

(* Mutant of WorkerPublish: a batch without events is not published.        *)
WorkerPublishEvents ==
  /\ WorkerAt("publish", "inhibit")
  /\ snapshot' = IF events = <<>> THEN snapshot ELSE s
  /\ UNCHANGED <<smVars, ctlVars, batch, events, actions, sinkVars>>

(* Every event of the batch is stamped with the final state, then the same *)
(* snapshot is published: sinks read `snapshot` for the event's stamp.     *)
WorkerPublish ==
  /\ WorkerAt("publish", "inhibit")
  /\ snapshot' = s
  /\ UNCHANGED <<smVars, ctlVars, batch, events, actions, sinkVars>>

Kinds(evs) == {evs[i].kind : i \in DOMAIN evs}

(* Mutant of Level: the media type stands for the level.                    *)
LevelOfType(snap) == IF snap.phase # "Playing" THEN "None" ELSE snap.media_type

Level(snap) ==
  IF snap.phase # "Playing" THEN "None"
  ELSE IF snap.media_type = "Audio" THEN "System" ELSE "Display"

(* Mutant of InhibitTriggers: the media type is only read at a start.       *)
LifecycleTriggers == {"Started", "Paused", "Finished", "Canceled", "Error"}

InhibitTriggers ==
  {"Started", "Paused", "Finished", "Canceled", "Error", "MediaTypeChanged"}

DeliverInhibit ==
  /\ WorkerAt("inhibit", "browser")
  /\ inhibit' = IF Kinds(events) \cap InhibitTriggers # {}
                THEN Level(snapshot) ELSE inhibit
  /\ UNCHANGED <<smVars, ctlVars, batch, events, actions, snapshot, ui>>

UiSignalOf ==
  [Started |-> "playing", Paused |-> "paused", Finished |-> "finished",
   Canceled |-> "canceled", Error |-> "error"]

(* Mutant of UiEmission: a variant switch keeps the page playing.           *)
UiEmissionPlain(kind, snap) ==
  IF kind \in DOMAIN UiSignalOf THEN {UiSignalOf[kind]} ELSE {}

(* What browser_sink.rs emits to the page for an event: at most one signal. *)
UiEmission(kind, snap) ==
  IF kind \in DOMAIN UiSignalOf THEN {UiSignalOf[kind]}
  ELSE IF kind = "TrackLoaded" /\ snap.variant_switch_pending THEN {"paused"}
  ELSE {}

LastEmission(evs, snap) ==
  LET speaking == {i \in DOMAIN evs : UiEmission(evs[i].kind, snap) # {}}
      last == CHOOSE i \in speaking : \A j \in speaking : j <= i
  IN IF speaking = {} THEN ui
     ELSE CHOOSE signal \in UiEmission(evs[last].kind, snap) : TRUE

DeliverBrowser ==
  /\ WorkerAt("browser", "act")
  /\ ui' = LastEmission(events, snapshot)
  /\ UNCHANGED <<smVars, ctlVars, batch, events, actions, snapshot, inhibit>>

(* The actions go to mpv (see PlayerSession) and the iteration ends.        *)
DeliverActions ==
  /\ WorkerAt("act", "check")
  /\ events' = <<>>
  /\ actions' = <<>>
  /\ UNCHANGED <<smVars, ctlVars, batch, snapshot, sinkVars>>

Worker ==
  \/ WorkerCheck \/ WorkerTake \/ WorkerWait \/ WorkerDrain \/ WorkerApply
  \/ WorkerPublish \/ DeliverInhibit \/ DeliverBrowser \/ DeliverActions

(* After the join nothing is left to run. *)
Terminated == slot = Free /\ ~present /\ UNCHANGED vars

CoordNext ==
  \/ \E p \in Producers : \E in \in Posted[p] : EnqueuePush(p, in)
  \/ \E p \in Producers : EnqueueSignal(p)
  \/ StopClear \/ StopSignal \/ StopJoin
  \/ Worker
  \/ Terminated

(* Threads that can run do run; nobody is obliged to post or to shut down.  *)
Fairness ==
  /\ WF_vars(Worker)
  /\ WF_vars(\E p \in Producers : EnqueueSignal(p))
  /\ WF_vars(StopSignal)
  /\ WF_vars(StopJoin)

CoordSpec == CoordInit /\ [][CoordNext]_vars /\ Fairness

-----------------------------------------------------------------------------
(* The worker is between two iterations, or has left its loop.              *)
Between == worker \in {"check", "take", "wait", "drain", "done"}

(* The variables hold the values of their types.                            *)
CoordTypeOK ==
  /\ SMTypeOK
  /\ slot \in Producers \cup {Free, Stopping, Joining}
  /\ present \in BOOLEAN
  /\ queue \in Seq(Input)
  /\ wake \in BOOLEAN
  /\ running \in BOOLEAN
  /\ worker \in WorkerStep
  /\ batch \in Seq(Input)
  /\ events \in Seq(PlaybackEvent)
  /\ actions \in Seq(PlaybackAction)
  /\ snapshot \in PlaybackSnapshot
  /\ inhibit \in InhibitLevel
  /\ ui \in UiSignal \cup {NoSignal}

(* No lost wake-up: a worker asleep with the event unsignalled has nothing  *)
(* to do, or a post or a stop is between its change and its signal.  The    *)
(* push happens outside the wait and the drain clears every signal at once. *)
NoLostWakeup ==
  worker = "wait" /\ ~wake =>
    /\ queue = <<>> \/ slot \in Producers
    /\ running \/ slot = Stopping

(* Between two iterations the published snapshot is the state machine's:   *)
(* no input applied, even during a shutdown, stays unpublished.            *)
SnapshotCurrent == Between => snapshot = s /\ batch = <<>> /\ events = <<>>

(* The idle inhibitor agrees with the published playback although it is    *)
(* told only on some events and sees the last state of a batch: a playing  *)
(* track holds the level of its media type, a paused or stopped one none.  *)
(* (A Starting track keeps the level of what was before it.)               *)
InhibitMatchesPlayback ==
  Between /\ snapshot.phase # "Starting" => inhibit = Level(snapshot)

(* The page was last told what the player does, and shows a variant switch *)
(* as paused until the new variant plays.                                  *)
BrowserMirrorsPhase ==
  Between =>
    /\ snapshot.phase = "Playing" => ui = "playing"
    /\ snapshot.phase = "Paused" => ui = "paused"
    /\ snapshot.phase = "Stopped" => ui \notin {"playing", "paused"}
    /\ snapshot.variant_switch_pending => ui = "paused"

(* Between two iterations both sinks agree with the published playback.     *)
SinksAgree == InhibitMatchesPlayback /\ BrowserMirrorsPhase
=============================================================================
