---------------------------- MODULE SettingsStore ----------------------------
(***************************************************************************)
(* The settings store and its save worker, src/config/src/lib.rs.  The     *)
(* CEF UI thread changes web settings and saves them through the worker    *)
(* (business_common.rs); at exit the main thread saves the geometry of the *)
(* window itself and then stops the worker (app.rs, shutdown_runtime).     *)
(* Settings are told apart by version: the web settings and the geometry   *)
(* each count the changes made to them.                                    *)
(***************************************************************************)
EXTENDS Naturals

CONSTANT MaxWeb  \* bound on the version of the web settings

ASSUME MaxWebAssumption == MaxWeb \in Nat \ {0}

SettingsData == [web: Nat, window: Nat]
Default      == [web |-> 0, window |-> 0]
Written      == [web |-> 1, window |-> 1]  \* by an earlier session
None         == [nothing |-> TRUE]         \* no file, no pending snapshot

UiStep     == {"idle", "snapshot", "open", "store", "spawn", "notify"}
WorkerStep == {"none", "check", "waiting", "write", "returned"}
MainStep   == {"load", "running", "persist", "save", "write", "stop",
               "notify", "take", "join", "exit"}

VARIABLES
  data,      \* STATE.data
  disk,      \* the settings file
  created,   \* SAVE_WORKER is initialised
  pending,   \* Pending.data
  stop,      \* Pending.stop
  started,   \* Pending.started
  joinable,  \* the handle of the thread is stored
  worker,    \* where the save worker is
  held,      \* the snapshot it took and has not yet written
  ui,        \* where the UI thread is in a set and settings_save_async
  ui_snap,   \* ... and the snapshot it made
  main,      \* where the main thread is
  main_snap, \* the snapshot of its settings_save
  remains,   \* a browser outlives the main loop (one created by a reset)
  failed,    \* a write failed
  accepted   \* history: the web version of the last snapshot accepted

storeVars  == <<data, disk>>
workVars   == <<created, pending, stop, started, joinable>>
workerVars == <<worker, held>>
uiVars     == <<ui, ui_snap>>
mainVars   == <<main, main_snap, remains>>
vars == <<storeVars, workVars, workerVars, uiVars, mainVars, failed, accepted>>

StoreInit ==
  /\ data = Default
  /\ disk \in {None, Written}
  /\ created = FALSE
  /\ pending = None
  /\ stop = FALSE
  /\ started = FALSE
  /\ joinable = FALSE
  /\ worker = "none"
  /\ held = None
  /\ ui = "idle"
  /\ ui_snap = Default
  /\ main = "load"
  /\ main_snap = Default
  /\ remains = FALSE
  /\ failed = FALSE
  /\ accepted = 0

(* save_data: a snapshot replaces the file at once (write_atomic renames a *)
(* complete temporary file), or the old file stays.                        *)
SaveData(snap) ==
  \/ disk' = snap /\ UNCHANGED failed
  \/ disk' = disk /\ failed' = TRUE

-----------------------------------------------------------------------------
(* The UI thread.                                                           *)

PageOpen == main = "running" \/ remains

SetWeb ==
  /\ PageOpen
  /\ ui = "idle"
  /\ data.web < MaxWeb
  /\ ui' = "snapshot"
  /\ data' = [data EXCEPT !.web = @ + 1]
  /\ UNCHANGED <<disk, workVars, workerVars, ui_snap, mainVars, failed, accepted>>

AsyncSnapshot ==
  /\ ui = "snapshot"
  /\ ui' = "open"
  /\ ui_snap' = data
  /\ UNCHANGED <<storeVars, workVars, workerVars, mainVars, failed, accepted>>

(* save_worker() initialises the cell on the first call.                    *)
AsyncOpen ==
  /\ ui = "open"
  /\ ui' = "store"
  /\ created' = TRUE
  /\ UNCHANGED <<storeVars, pending, stop, started, joinable, workerVars,
                 ui_snap, mainVars, failed, accepted>>

AsyncRefused ==
  /\ ui = "store"
  /\ stop
  /\ ui' = "idle"
  /\ UNCHANGED <<storeVars, workVars, workerVars, ui_snap, mainVars, failed,
                 accepted>>

(* The handle lock is held from here to the end of AsyncSpawn.              *)
AsyncStore ==
  /\ ui = "store"
  /\ ~stop
  /\ pending' = ui_snap
  /\ accepted' = ui_snap.web
  /\ started' = TRUE
  /\ ui' = IF started THEN "notify" ELSE "spawn"
  /\ UNCHANGED <<storeVars, created, stop, joinable, workerVars, ui_snap,
                 mainVars, failed>>

AsyncSpawn ==
  /\ ui = "spawn"
  /\ ui' = "notify"
  /\ joinable' = TRUE
  /\ worker' = "check"
  /\ UNCHANGED <<storeVars, created, pending, stop, started, held, ui_snap,
                 mainVars, failed, accepted>>

(* A notification reaches a waiting worker or nobody.                       *)
Notify == worker' = IF worker = "waiting" THEN "check" ELSE worker

(* Mutant of AsyncNotify: the worker is not woken.                          *)
AsyncSilent ==
  /\ ui = "notify"
  /\ ui' = "idle"
  /\ UNCHANGED <<storeVars, workVars, workerVars, ui_snap, mainVars, failed,
                 accepted>>

AsyncNotify ==
  /\ ui = "notify"
  /\ ui' = "idle"
  /\ Notify
  /\ UNCHANGED <<storeVars, workVars, held, ui_snap, mainVars, failed, accepted>>

Async == \/ AsyncSnapshot \/ AsyncOpen \/ AsyncRefused \/ AsyncStore
         \/ AsyncSpawn \/ AsyncNotify

-----------------------------------------------------------------------------
(* The save worker.                                                         *)

WorkerWait ==
  /\ worker = "check"
  /\ pending = None
  /\ ~stop
  /\ worker' = "waiting"
  /\ UNCHANGED <<storeVars, workVars, held, uiVars, mainVars, failed, accepted>>

WorkerTake ==
  /\ worker = "check"
  /\ pending # None
  /\ worker' = "write"
  /\ held' = pending
  /\ pending' = None
  /\ UNCHANGED <<storeVars, created, stop, started, joinable, uiVars, mainVars,
                 failed, accepted>>

(* Mutant of WorkerReturn: a stop is obeyed before the pending snapshot.    *)
WorkerReturnEarly ==
  /\ worker = "check"
  /\ stop
  /\ worker' = "returned"
  /\ UNCHANGED <<storeVars, workVars, held, uiVars, mainVars, failed, accepted>>

WorkerReturn ==
  /\ worker = "check"
  /\ pending = None
  /\ stop
  /\ worker' = "returned"
  /\ UNCHANGED <<storeVars, workVars, held, uiVars, mainVars, failed, accepted>>

WorkerWrite ==
  /\ worker = "write"
  /\ worker' = "check"
  /\ held' = None
  /\ SaveData(held)
  /\ UNCHANGED <<data, workVars, uiVars, mainVars, accepted>>

Worker == WorkerWait \/ WorkerTake \/ WorkerReturn \/ WorkerWrite

-----------------------------------------------------------------------------
(* The main thread.                                                         *)

(* settings_load: a missing file keeps the defaults.                        *)
Load ==
  /\ main = "load"
  /\ main' = "running"
  /\ data' = IF disk = None THEN data ELSE disk
  /\ UNCHANGED <<disk, workVars, workerVars, uiVars, main_snap, remains, failed,
                 accepted>>

(* run_main_loop returns once the browsers are closed, except one that a   *)
(* reset created (see AppLifecycle): without one the UI thread is idle.    *)
MainLoopReturns ==
  /\ main = "running"
  /\ main' = "persist"
  /\ remains' \in BOOLEAN
  /\ ~remains' => ui = "idle"
  /\ UNCHANGED <<storeVars, workVars, workerVars, uiVars, main_snap, failed,
                 accepted>>

(* persist: the geometry is stored if the window's size is known.           *)
Persist ==
  /\ main = "persist"
  /\ main' = "save"
  /\ data' \in {data, [data EXCEPT !.window = @ + 1]}
  /\ UNCHANGED <<disk, workVars, workerVars, uiVars, main_snap, remains, failed,
                 accepted>>

SaveSnapshot ==
  /\ main = "save"
  /\ main' = "write"
  /\ main_snap' = data
  /\ UNCHANGED <<storeVars, workVars, workerVars, uiVars, remains, failed,
                 accepted>>

SaveWrite ==
  /\ main = "write"
  /\ main' = "stop"
  /\ SaveData(main_snap)
  /\ UNCHANGED <<data, workVars, workerVars, uiVars, main_snap, remains,
                 accepted>>

(* settings_shutdown_save_worker: nothing to stop if there was no worker.   *)
StopWorker ==
  /\ main = "stop"
  /\ main' = IF created THEN "notify" ELSE "exit"
  /\ stop' = created
  /\ UNCHANGED <<storeVars, created, pending, started, joinable, workerVars,
                 uiVars, main_snap, remains, failed, accepted>>

StopNotify ==
  /\ main = "notify"
  /\ main' = "take"
  /\ Notify
  /\ UNCHANGED <<storeVars, workVars, held, uiVars, main_snap, remains, failed,
                 accepted>>

(* Mutant of TakeHandle: the handle lock is not held across the spawn.      *)
TakeHandleUnlocked ==
  /\ main = "take"
  /\ main' = IF joinable THEN "join" ELSE "exit"
  /\ joinable' = FALSE
  /\ UNCHANGED <<storeVars, created, pending, stop, started, workerVars, uiVars,
                 main_snap, remains, failed, accepted>>

TakeHandle ==
  /\ main = "take"
  /\ ui # "spawn"
  /\ main' = IF joinable THEN "join" ELSE "exit"
  /\ joinable' = FALSE
  /\ UNCHANGED <<storeVars, created, pending, stop, started, workerVars, uiVars,
                 main_snap, remains, failed, accepted>>

Join ==
  /\ main = "join"
  /\ worker = "returned"
  /\ main' = "exit"
  /\ UNCHANGED <<storeVars, workVars, workerVars, uiVars, main_snap, remains,
                 failed, accepted>>

Shutdown == \/ Persist \/ SaveSnapshot \/ SaveWrite \/ StopWorker
            \/ StopNotify \/ TakeHandle \/ Join

(* The main thread has nothing more to do with the settings.                *)
Terminated == main = "exit" /\ UNCHANGED vars

StoreNext ==
  \/ SetWeb \/ Async \/ Worker
  \/ Load \/ MainLoopReturns \/ Shutdown \/ Terminated

(* The threads run; nobody is obliged to change a setting or to quit.       *)
Fairness == WF_vars(Async) /\ WF_vars(Worker) /\ WF_vars(Shutdown)

StoreSpec == StoreInit /\ [][StoreNext]_vars /\ Fairness

-----------------------------------------------------------------------------
(* The variables hold the values of their types.                            *)
StoreTypeOK ==
  /\ data \in SettingsData
  /\ disk \in SettingsData \cup {None}
  /\ created \in BOOLEAN
  /\ pending \in SettingsData \cup {None}
  /\ stop \in BOOLEAN
  /\ started \in BOOLEAN
  /\ joinable \in BOOLEAN
  /\ worker \in WorkerStep
  /\ held \in SettingsData \cup {None}
  /\ ui \in UiStep
  /\ ui_snap \in SettingsData
  /\ main \in MainStep
  /\ main_snap \in SettingsData
  /\ remains \in BOOLEAN
  /\ failed \in BOOLEAN
  /\ accepted \in Nat

(* A worker asleep has nothing to write and nobody joins it, unless the     *)
(* notification is still to come: the stores are made under the lock of the *)
(* condition, the notifications after it.                                   *)
NoSleepOnWork ==
  worker = "waiting" =>
    /\ pending # None => ui = "notify"
    /\ stop => main = "notify" \/ ui = "notify"

(* A stopped worker was drained: once the shutdown returned, no accepted   *)
(* snapshot waits and no thread is left to write one, even when the first  *)
(* asynchronous save races the shutdown with its worker not yet spawned.   *)
DrainedAtExit ==
  main = "exit" /\ stop =>
    /\ pending = None
    /\ worker \in {"none", "returned"}

(* The web settings on disk at exit are the last the page set, whatever the *)
(* order of the worker's writes and the main thread's, if every write       *)
(* succeeded and no browser was left to set more.                           *)
NewestWebOnDisk ==
  main = "exit" /\ ~remains /\ ~failed => disk # None /\ disk.web = data.web

(* app.rs:421 saves before the joins so that a hang there does not cost the *)
(* window geometry: once everything is over the geometry is on disk.        *)
GeometryOnDisk ==
  main = "exit" /\ ~remains /\ ~failed => disk # None /\ disk.window = data.window
=============================================================================
