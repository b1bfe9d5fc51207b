------------------------- MODULE SettingsStoreProofs -------------------------
(***************************************************************************)
(* Proofs about SettingsStore for any number of changes: its types, that   *)
(* the worker never sleeps on work, that a stopped worker was drained, and *)
(* that the newest web settings are on disk at exit.                       *)
(***************************************************************************)
EXTENDS SettingsStore, TLAPS

(* Absence is no snapshot.                                                  *)
LEMMA NoneIsNoSnapshot == None \notin SettingsData /\ Default \in SettingsData
BY DEF None, SettingsData, Default

-----------------------------------------------------------------------------
(* Types.                                                                   *)
LEMMA StoreTypeStep == StoreTypeOK /\ [StoreNext]_vars => StoreTypeOK'
<1> SUFFICES ASSUME StoreTypeOK, [StoreNext]_vars
             PROVE  StoreTypeOK'
  OBVIOUS
<1> USE DEF StoreTypeOK, storeVars, workVars, workerVars, uiVars, mainVars
<1>1. CASE SetWeb
  <2>1. data' \in SettingsData
    BY <1>1 DEF SetWeb, SettingsData
  <2> QED
    BY <1>1, <2>1 DEF SetWeb, UiStep
<1>2. CASE AsyncSnapshot
  BY <1>2 DEF AsyncSnapshot, UiStep
<1>3. CASE AsyncOpen
  BY <1>3 DEF AsyncOpen, UiStep
<1>4. CASE AsyncRefused
  BY <1>4 DEF AsyncRefused, UiStep
<1>5. CASE AsyncStore
  <2>1. accepted' \in Nat
    BY <1>5 DEF AsyncStore, SettingsData
  <2> QED
    BY <1>5, <2>1 DEF AsyncStore, UiStep
<1>6. CASE AsyncSpawn
  BY <1>6 DEF AsyncSpawn, UiStep, WorkerStep
<1>7. CASE AsyncNotify
  BY <1>7 DEF AsyncNotify, Notify, UiStep, WorkerStep
<1>8. CASE WorkerWait
  BY <1>8 DEF WorkerWait, WorkerStep
<1>9. CASE WorkerTake
  BY <1>9 DEF WorkerTake, WorkerStep
<1>10. CASE WorkerReturn
  BY <1>10 DEF WorkerReturn, WorkerStep
<1>11. CASE WorkerWrite
  BY <1>11 DEF WorkerWrite, SaveData, WorkerStep
<1>12. CASE Load
  BY <1>12 DEF Load, MainStep
<1>13. CASE MainLoopReturns
  BY <1>13 DEF MainLoopReturns, MainStep
<1>14. CASE Persist
  <2>1. [data EXCEPT !.window = @ + 1] \in SettingsData
    BY DEF SettingsData
  <2> QED
    BY <1>14, <2>1 DEF Persist, MainStep
<1>15. CASE SaveSnapshot
  BY <1>15 DEF SaveSnapshot, MainStep
<1>16. CASE SaveWrite
  BY <1>16 DEF SaveWrite, SaveData, MainStep
<1>17. CASE StopWorker
  BY <1>17 DEF StopWorker, MainStep
<1>18. CASE StopNotify
  BY <1>18 DEF StopNotify, Notify, MainStep, WorkerStep
<1>19. CASE TakeHandle
  BY <1>19 DEF TakeHandle, MainStep
<1>20. CASE Join
  BY <1>20 DEF Join, MainStep
<1>21. CASE Terminated \/ UNCHANGED vars
  BY <1>21 DEF Terminated, vars
<1> QED
  BY <1>1, <1>2, <1>3, <1>4, <1>5, <1>6, <1>7, <1>8, <1>9, <1>10, <1>11,
     <1>12, <1>13, <1>14, <1>15, <1>16, <1>17, <1>18, <1>19, <1>20, <1>21
     DEF StoreNext, Async, Worker, Shutdown

(* The types hold at the start.                                             *)
LEMMA StoreTypeInit == StoreInit => StoreTypeOK
<1> SUFFICES ASSUME StoreInit
             PROVE  StoreTypeOK
  OBVIOUS
<1>1. Default \in SettingsData /\ Written \in SettingsData
  BY DEF Default, Written, SettingsData
<1>2. ui \in UiStep /\ worker \in WorkerStep /\ main \in MainStep
  BY DEF StoreInit, UiStep, WorkerStep, MainStep
<1> QED
  BY <1>1, <1>2 DEF StoreInit, StoreTypeOK

(* The variables hold the values of their types.                            *)
THEOREM StoreTypeCorrect == StoreSpec => []StoreTypeOK
BY StoreTypeInit, StoreTypeStep, PTL DEF StoreSpec

-----------------------------------------------------------------------------
(* The worker's life.  A snapshot is accepted only by a cell that exists    *)
(* and is not stopped; whoever accepts the first holds the handle until the *)
(* thread exists, so the main thread finds a thread to join or there never  *)
(* was one.                                                                 *)
Ending == {"notify", "take", "join", "exit"}

LifeInv ==
  /\ started => created
  /\ worker # "none" => started
  /\ worker = "none" /\ started => ui = "spawn"
  /\ ui \in {"store", "spawn"} => created
  /\ ui = "spawn" => started /\ worker = "none"
  /\ pending # None => started
  /\ worker = "none" => held = None
  /\ worker = "write" <=> held # None
  /\ worker # "none" /\ main \notin {"join", "exit"} => joinable
  /\ joinable => worker # "none"
  /\ stop => main \in Ending
  /\ main \in {"notify", "take", "join"} => stop
  /\ main = "join" => worker # "none"
  /\ worker = "returned" => stop /\ pending = None
  /\ main = "exit" /\ stop =>
       worker = "returned" \/ (worker = "none" /\ ~started)

(* Every step keeps it.                                                     *)
LEMMA LifeStep ==
  StoreTypeOK /\ LifeInv /\ [StoreNext]_vars => LifeInv'
<1> SUFFICES ASSUME StoreTypeOK, LifeInv, [StoreNext]_vars
             PROVE  LifeInv'
  OBVIOUS
<1> USE DEF LifeInv, Ending, storeVars, workVars, workerVars, uiVars, mainVars
<1>1. CASE SetWeb \/ AsyncSnapshot \/ AsyncOpen \/ AsyncRefused
  BY <1>1 DEF SetWeb, AsyncSnapshot, AsyncOpen, AsyncRefused
<1>2. CASE AsyncStore
  BY <1>2 DEF AsyncStore, StoreTypeOK
<1>3. CASE AsyncSpawn
  BY <1>3 DEF AsyncSpawn
<1>4. CASE AsyncNotify
  BY <1>4 DEF AsyncNotify, Notify
<1>5. CASE WorkerWait \/ WorkerReturn
  BY <1>5 DEF WorkerWait, WorkerReturn
<1>6. CASE WorkerTake
  BY <1>6 DEF WorkerTake
<1>7. CASE WorkerWrite
  BY <1>7 DEF WorkerWrite
<1>8. CASE Load \/ MainLoopReturns \/ Persist \/ SaveSnapshot \/ SaveWrite
  BY <1>8 DEF Load, MainLoopReturns, Persist, SaveSnapshot, SaveWrite
<1>9. CASE StopWorker
  BY <1>9, NoneIsNoSnapshot DEF StopWorker, StoreTypeOK
<1>10. CASE StopNotify
  BY <1>10 DEF StopNotify, Notify
<1>11. CASE TakeHandle \/ Join
  BY <1>11 DEF TakeHandle, Join
<1>12. CASE Terminated \/ UNCHANGED vars
  BY <1>12 DEF Terminated, vars
<1> QED
  BY <1>1, <1>2, <1>3, <1>4, <1>5, <1>6, <1>7, <1>8, <1>9, <1>10, <1>11, <1>12
     DEF StoreNext, Async, Worker, Shutdown

(* It holds at the start.                                                   *)
LEMMA LifeInit == StoreInit => LifeInv
BY DEF StoreInit, LifeInv

(* Types and the worker's life hold in every reachable state.               *)
LEMMA LifeHolds == StoreSpec => [](StoreTypeOK /\ LifeInv)
BY StoreTypeInit, StoreTypeStep, LifeInit, LifeStep, PTL DEF StoreSpec

(* Once the shutdown returned no accepted snapshot waits to be written.     *)
THEOREM DrainedCorrect == StoreSpec => []DrainedAtExit
<1>1. LifeInv => DrainedAtExit
  BY DEF LifeInv, DrainedAtExit
<1> QED
  BY <1>1, LifeHolds, PTL

-----------------------------------------------------------------------------
(* No sleep on work.                                                        *)
LEMMA SleepStep ==
  StoreTypeOK /\ LifeInv /\ NoSleepOnWork /\ [StoreNext]_vars => NoSleepOnWork'
<1> SUFFICES ASSUME StoreTypeOK, LifeInv, NoSleepOnWork, [StoreNext]_vars
             PROVE  NoSleepOnWork'
  OBVIOUS
<1> USE DEF NoSleepOnWork, LifeInv, Ending, storeVars, workVars, workerVars,
            uiVars, mainVars
<1>1. CASE SetWeb \/ AsyncSnapshot \/ AsyncOpen \/ AsyncRefused
  BY <1>1 DEF SetWeb, AsyncSnapshot, AsyncOpen, AsyncRefused
<1>2. CASE AsyncStore
  BY <1>2 DEF AsyncStore
<1>3. CASE AsyncSpawn
  BY <1>3 DEF AsyncSpawn
<1>4. CASE AsyncNotify
  BY <1>4 DEF AsyncNotify, Notify
<1>5. CASE WorkerWait \/ WorkerReturn \/ WorkerTake \/ WorkerWrite
  BY <1>5 DEF WorkerWait, WorkerReturn, WorkerTake, WorkerWrite
<1>6. CASE Load \/ MainLoopReturns \/ Persist \/ SaveSnapshot \/ SaveWrite
  BY <1>6 DEF Load, MainLoopReturns, Persist, SaveSnapshot, SaveWrite
<1>7. CASE StopWorker
  BY <1>7 DEF StopWorker
<1>8. CASE StopNotify
  BY <1>8 DEF StopNotify, Notify
<1>9. CASE TakeHandle \/ Join
  BY <1>9 DEF TakeHandle, Join
<1>10. CASE Terminated \/ UNCHANGED vars
  BY <1>10 DEF Terminated, vars
<1> QED
  BY <1>1, <1>2, <1>3, <1>4, <1>5, <1>6, <1>7, <1>8, <1>9, <1>10
     DEF StoreNext, Async, Worker, Shutdown

(* A sleeping worker has nothing to do or is about to be notified.          *)
THEOREM SleepCorrect == StoreSpec => []NoSleepOnWork
<1>1. StoreInit => NoSleepOnWork
  BY DEF StoreInit, NoSleepOnWork
<1> QED
  BY <1>1, SleepStep, LifeHolds, PTL DEF StoreSpec

-----------------------------------------------------------------------------
(* The newest web settings.  Of the places a snapshot goes through, the     *)
(* pending cell, the worker's hand, the file, the first that is filled      *)
(* holds the newest; it is so from the moment the UI thread has handed its  *)
(* change over, and the main thread's own snapshot is as new.               *)
Saved == {"stop", "notify", "take", "join", "exit"}

NewestInv ==
  /\ main \in {"load", "running"} => ~remains
  /\ main \notin {"load", "running"} /\ ~remains => ui = "idle"
  /\ main = "load" => ui = "idle" /\ ~started
  /\ ui \in {"open", "store"} => ui_snap.web = data.web
  /\ main = "exit" /\ ~stop /\ ~remains => ~started
  /\ main = "write" /\ ~remains => main_snap.web = data.web
  /\ ~remains /\ ~failed /\ ui \in {"idle", "spawn", "notify"} =>
       /\ pending # None => pending.web = data.web
       /\ pending = None /\ held # None => held.web = data.web
       /\ pending = None /\ held = None /\ (started \/ main \in Saved) =>
            disk # None /\ disk.web = data.web

(* Every step keeps it.                                                     *)
LEMMA NewestStep ==
  StoreTypeOK /\ LifeInv /\ NewestInv /\ [StoreNext]_vars => NewestInv'
<1> SUFFICES ASSUME StoreTypeOK, LifeInv, NewestInv, [StoreNext]_vars
             PROVE  NewestInv'
  OBVIOUS
<1> USE DEF NewestInv, Saved, storeVars, workVars, workerVars, uiVars, mainVars
<1>1. CASE SetWeb
  BY <1>1 DEF SetWeb, PageOpen
<1>2. CASE AsyncSnapshot \/ AsyncOpen
  BY <1>2 DEF AsyncSnapshot, AsyncOpen
<1>3. CASE AsyncRefused
  BY <1>3 DEF AsyncRefused, LifeInv, Ending
<1>4. CASE AsyncStore
  BY <1>4, NoneIsNoSnapshot DEF AsyncStore, StoreTypeOK
<1>5. CASE AsyncSpawn \/ AsyncNotify
  BY <1>5 DEF AsyncSpawn, AsyncNotify
<1>6. CASE WorkerWait \/ WorkerReturn
  BY <1>6 DEF WorkerWait, WorkerReturn
<1>7. CASE WorkerTake
  BY <1>7 DEF WorkerTake
<1>8. CASE WorkerWrite
  BY <1>8, NoneIsNoSnapshot DEF WorkerWrite, SaveData, StoreTypeOK, LifeInv
<1>9. CASE Load
  BY <1>9 DEF Load, LifeInv
<1>10. CASE MainLoopReturns
  BY <1>10 DEF MainLoopReturns, StoreTypeOK
<1>11. CASE Persist
  <2>1. data'.web = data.web
    BY <1>11 DEF Persist, StoreTypeOK, SettingsData
  <2> QED
    BY <1>11, <2>1 DEF Persist
<1>12. CASE SaveSnapshot
  BY <1>12 DEF SaveSnapshot
<1>13. CASE SaveWrite
  BY <1>13, NoneIsNoSnapshot DEF SaveWrite, SaveData, StoreTypeOK
<1>14. CASE StopWorker \/ StopNotify \/ TakeHandle \/ Join
  BY <1>14 DEF StopWorker, StopNotify, TakeHandle, Join, LifeInv
<1>15. CASE Terminated \/ UNCHANGED vars
  BY <1>15 DEF Terminated, vars
<1> QED
  BY <1>1, <1>2, <1>3, <1>4, <1>5, <1>6, <1>7, <1>8, <1>9, <1>10, <1>11, <1>12,
     <1>13, <1>14, <1>15 DEF StoreNext, Async, Worker, Shutdown

(* At exit the newest web settings are on disk.                             *)
THEOREM NewestCorrect == StoreSpec => []NewestWebOnDisk
<1>1. StoreInit => NewestInv
  BY DEF StoreInit, NewestInv, Saved
<1>2. LifeInv /\ NewestInv => NewestWebOnDisk
  BY DEF LifeInv, NewestInv, NewestWebOnDisk, Saved, Ending
<1> QED
  BY <1>1, <1>2, NewestStep, LifeHolds, PTL DEF StoreSpec
=============================================================================
