---------------------------- MODULE CefPaintProofs ----------------------------
(***************************************************************************)
(* Proofs about CefPaint for any number of resizing threads, any sizes and *)
(* rates and any limits: its types, that there is never a second           *)
(* invalidate loop, that the debounce loses no size, and that a loop gives *)
(* the frame rate back.                                                    *)
(***************************************************************************)
EXTENDS CefPaint, TLAPS

(* The ticks are counted up to the limit, the paints up to the pump count.  *)
LEMMA LeastBounded ==
  ASSUME NEW m \in Nat, NEW n \in Nat
  PROVE  Least(m, n) \in 0..n
BY DEF Least

(* A post adds one kick, and only to a loop that is not running.            *)
LEMMA KickPostedTypes == CefPaintTypeOK => KickPosted(tasks) \in [kick : Nat, tick : Nat, apply : Nat]
BY DEF CefPaintTypeOK, KickPosted

(* A loop that is started has its types, and so has its first kick.         *)
LEMMA StartedTypes ==
  ASSUME CefPaintTypeOK, NEW l \in [running : BOOLEAN, stop : BOOLEAN, ticks : 0..(TickLimit + 1)]
  PROVE  Started(l) \in [running : BOOLEAN, stop : BOOLEAN, ticks : 0..(TickLimit + 1)]
<1>1. 0 \in 0..(TickLimit + 1)
  BY CefPaintAssumption
<1>2. [l EXCEPT !.running = TRUE, !.ticks = 0] \in [running : BOOLEAN, stop : BOOLEAN, ticks : 0..(TickLimit + 1)]
  BY <1>1
<1> QED
  BY <1>2 DEF Started

-----------------------------------------------------------------------------
(* Types.                                                                   *)

LoopRecords == [running : BOOLEAN, stop : BOOLEAN, ticks : 0..(TickLimit + 1)]
RateRecords == [frame : Rates \cup {0}, current : Rates \cup {0}, boosted : BOOLEAN,
                saved : Rates \cup {0}, missed : BOOLEAN]
TaskRecords == [kick : Nat, tick : Nat, apply : Nat]

(* A tick keeps the types, whatever rate and tasks it is given.             *)
LEMMA TickTypes ==
  ASSUME CefPaintTypeOK, NEW r \in RateRecords, NEW left \in TaskRecords, TickWith(r, left)
  PROVE  rate' \in RateRecords /\ loop' \in LoopRecords /\ tasks' \in TaskRecords
         /\ uiStep' \in {"idle", "stopping"}
<1>1. Restored(r) \in RateRecords
  BY DEF Restored, RateRecords
<1>2. Least(loop.ticks, TickLimit) + 1 \in 0..(TickLimit + 1)
  <2>1. loop.ticks \in Nat /\ TickLimit \in Nat
    BY CefPaintAssumption DEF CefPaintTypeOK
  <2>2. Least(loop.ticks, TickLimit) \in 0..TickLimit
    BY <2>1, LeastBounded
  <2> QED
    BY <2>1, <2>2
<1>3. loop' \in LoopRecords
  BY <1>2 DEF TickWith, CefPaintTypeOK, LoopRecords
<1>4. [left EXCEPT !.tick = @ + 1] \in TaskRecords
  BY DEF TaskRecords
<1> QED
  BY <1>1, <1>3, <1>4 DEF TickWith, LayerUiStep

(* A tick that goes on leaves the loop running if there is a frame rate.    *)
LEMMA TickRunning ==
  ASSUME CefPaintTypeOK, NEW r, NEW left, TickWith(r, left),
         ~(loop.stop \/ loop.ticks + 1 > TickLimit)
  PROVE  loop'.running <=> loop.running /\ r.frame > 0
<1> DEFINE stops == loop.stop \/ loop.ticks + 1 > TickLimit
           ticks == Least(loop.ticks, TickLimit) + 1
<1>1. loop' = [loop EXCEPT !.ticks = ticks, !.stop = stops,
                           !.running = loop.running /\ (stops \/ r.frame > 0)]
  BY DEF TickWith
<1> HIDE DEF stops, ticks
<1>2. loop'.running = (loop.running /\ (stops \/ r.frame > 0))
  BY <1>1 DEF CefPaintTypeOK
<1> QED
  BY <1>2 DEF stops

(* Every step keeps the types, one action after the other.                  *)
LEMMA CefPaintTypeStep == CefPaintTypeOK /\ [CefPaintNext]_cefVars => CefPaintTypeOK'
<1> SUFFICES ASSUME CefPaintTypeOK, [CefPaintNext]_cefVars
             PROVE  CefPaintTypeOK'
  OBVIOUS
<1> USE CefPaintAssumption DEF CefPaintTypeOK, cefVars
<1>1. CASE \E r \in Resizers, n \in WindowSizes : ResizeStore(r, n)
  BY <1>1 DEF ResizeStore, ResizeStep
<1>2. CASE \E r \in Resizers : ResizeBegin(r)
  <2>1. [paints EXCEPT !.fresh = TRUE] \in [fresh : BOOLEAN, count : 1..(PumpCount + 1)]
    OBVIOUS
  <2>2. paints' \in [fresh : BOOLEAN, count : 1..(PumpCount + 1)]
    BY <1>2, <2>1 DEF ResizeBegin
  <2>3. resizer' \in [Resizers -> {"idle", "stored", "begun", "notified", "unstopped"}]
    BY <1>2 DEF ResizeBegin, ResizeStep
  <2> QED
    BY <1>2, <2>2, <2>3 DEF ResizeBegin
<1>3. CASE \E r \in Resizers : ResizeNotify(r)
  <2>1. [tasks EXCEPT !.apply = @ + 1] \in [kick : Nat, tick : Nat, apply : Nat]
    OBVIOUS
  <2>2. tasks' \in [kick : Nat, tick : Nat, apply : Nat]
    BY <1>3, <2>1 DEF ResizeNotify
  <2>3. resizer' \in [Resizers -> {"idle", "stored", "begun", "notified", "unstopped"}]
    BY <1>3 DEF ResizeNotify, ResizeStep
  <2>4. scheduled' \in BOOLEAN /\ delivered' \in WindowSizes
        /\ UNCHANGED <<browser, size, loop, paints, rate, uiStep>>
    BY <1>3, ZenonT(60) DEF ResizeNotify
  <2> QED
    BY <2>2, <2>3, <2>4
<1>4. CASE \E r \in Resizers : ResizeUnstop(r)
  <2>1. [loop EXCEPT !.stop = FALSE] \in [running : BOOLEAN, stop : BOOLEAN, ticks : 0..(TickLimit + 1)]
    OBVIOUS
  <2> QED
    BY <1>4, <2>1 DEF ResizeUnstop, ResizeStep
<1>5. CASE \E r \in Resizers : ResizeStart(r)
  <2>1. loop' \in LoopRecords /\ tasks' \in TaskRecords
    BY <1>5, StartedTypes, KickPostedTypes DEF ResizeStart, LoopRecords, TaskRecords
  <2> QED
    BY <1>5, <2>1 DEF ResizeStart, ResizeStep, LoopRecords, TaskRecords
<1>6. CASE ApplyResize
  <2>1. tasks.apply > 0 => [tasks EXCEPT !.apply = @ - 1] \in [kick : Nat, tick : Nat, apply : Nat]
    OBVIOUS
  <2>2. /\ tasks' \in [kick : Nat, tick : Nat, apply : Nat]
        /\ scheduled' = FALSE /\ uiStep' \in {"idle", "applying"}
        /\ UNCHANGED <<browser, size, delivered, resizer, loop, paints, rate>>
    BY <1>6, <2>1 DEF ApplyResize, LayerUiStep
  <2> QED
    BY <2>2, ZenonT(60)
<1>7. CASE DeliverResize \/ AfterCreated
  <2>1. [loop EXCEPT !.stop = FALSE] \in LoopRecords
    BY DEF LoopRecords
  <2>2. loop' \in LoopRecords /\ tasks' \in TaskRecords
    BY <1>7, <2>1, StartedTypes, KickPostedTypes DEF DeliverResize, AfterCreated, LoopRecords, TaskRecords
  <2>3. [paints EXCEPT !.fresh = TRUE] \in [fresh : BOOLEAN, count : 1..(PumpCount + 1)]
    OBVIOUS
  <2>4. /\ browser' \in {browser, "alive"} /\ delivered' = size
        /\ paints' \in [fresh : BOOLEAN, count : 1..(PumpCount + 1)]
        /\ uiStep' \in {"idle", uiStep} /\ UNCHANGED <<size, scheduled, resizer, rate>>
    BY <1>7, <2>3 DEF DeliverResize, AfterCreated, LayerUiStep
  <2> QED
    BY <2>2, <2>4 DEF LoopRecords, TaskRecords
<1>8. CASE Kick
  <2> DEFINE r == IF Alive /\ rate.frame > 0 /\ rate.saved = 0
                  THEN [rate EXCEPT !.saved = rate.frame, !.current = rate.frame, !.boosted = TRUE]
                  ELSE rate
             left == [tasks EXCEPT !.kick = @ - 1]
  <2>1. r \in RateRecords
    BY DEF RateRecords
  <2>2. left \in TaskRecords
    BY <1>8 DEF Kick, TaskRecords
  <2>3. TickWith(r, left)
    BY <1>8 DEF Kick
  <2> HIDE DEF r, left
  <2>4. rate' \in RateRecords /\ loop' \in LoopRecords /\ tasks' \in TaskRecords
        /\ uiStep' \in {"idle", "stopping"}
    BY <2>1, <2>2, <2>3, TickTypes
  <2> QED
    BY <1>8, <2>4 DEF Kick, RateRecords, LoopRecords, TaskRecords
<1>9. CASE Tick
  <2> DEFINE left == [tasks EXCEPT !.tick = @ - 1]
  <2>1. rate \in RateRecords /\ left \in TaskRecords
    BY <1>9 DEF Tick, RateRecords, TaskRecords
  <2>2. TickWith(rate, left)
    BY <1>9 DEF Tick
  <2> HIDE DEF left
  <2>3. rate' \in RateRecords /\ loop' \in LoopRecords /\ tasks' \in TaskRecords
        /\ uiStep' \in {"idle", "stopping"}
    BY <2>1, <2>2, TickTypes
  <2> QED
    BY <1>9, <2>3 DEF Tick, RateRecords, LoopRecords, TaskRecords
<1>10. CASE TickEnds \/ PumpEnds
  <2>1. [loop EXCEPT !.running = FALSE] \in LoopRecords /\ [loop EXCEPT !.stop = TRUE] \in LoopRecords
    BY DEF LoopRecords
  <2>2. /\ loop' \in LoopRecords /\ uiStep' = "idle"
        /\ UNCHANGED <<browser, size, delivered, scheduled, resizer, paints, rate, tasks>>
    BY <1>10, <2>1, ZenonT(60) DEF TickEnds, PumpEnds, LayerUiStep
  <2> QED
    BY <2>2 DEF LoopRecords
<1>11. CASE CountPaint
  <2>1. PICK restarts \in {FALSE, paints.fresh} :
          LET count == IF restarts THEN 1 ELSE Least(paints.count + 1, PumpCount + 1)
          IN  /\ paints' = [fresh |-> FALSE, count |-> count]
              /\ LayerUiStep("idle", IF count = PumpCount /\ rate.frame > 0 THEN "pumped" ELSE "idle")
    BY <1>11 DEF CountPaint
  <2>2. Least(paints.count + 1, PumpCount + 1) \in 1..(PumpCount + 1)
    BY DEF Least
  <2>3. paints' \in [fresh : BOOLEAN, count : 1..(PumpCount + 1)]
    BY <2>1, <2>2
  <2>4. uiStep' \in {"idle", "pumped"}
    BY <2>1 DEF LayerUiStep
  <2> QED
    BY <1>11, <2>3, <2>4 DEF CountPaint
<1>12. CASE \E hz \in Rates : ApplyRefresh(hz)
  <2>1. PICK hz \in Rates : ApplyRefresh(hz)
    BY <1>12
  <2>2. rate' = [frame |-> hz,
                 saved |-> IF rate.saved # 0 THEN hz ELSE 0,
                 current |-> IF rate.saved = 0 /\ Alive THEN hz ELSE rate.current,
                 boosted |-> rate.boosted /\ (rate.saved # 0 \/ ~Alive),
                 missed |-> rate.missed \/ browser = "creating"]
    BY <2>1 DEF ApplyRefresh
  <2>3. rate' \in RateRecords
    BY <2>2 DEF RateRecords
  <2> QED
    BY <2>1, <2>3 DEF ApplyRefresh, RateRecords
<1>13. CASE CreateBrowser
  BY <1>13 DEF CreateBrowser
<1>14. CASE BeforeClose
  BY <1>14 DEF BeforeClose
<1>15. CASE UNCHANGED cefVars
  BY <1>15
<1> QED
  BY <1>1, <1>2, <1>3, <1>4, <1>5, <1>6, <1>7, <1>8, <1>9, <1>10, <1>11, <1>12,
     <1>13, <1>14, <1>15 DEF CefPaintNext, Resize

(* The layer's state has its types in every behaviour.                      *)
THEOREM CefPaintTypeCorrect == CefPaintSpec => []CefPaintTypeOK
<1>1. CefPaintInit => CefPaintTypeOK
  <2>1. 0 \in 0..(TickLimit + 1) /\ 1 \in 1..(PumpCount + 1)
    BY CefPaintAssumption
  <2> SUFFICES ASSUME CefPaintInit PROVE CefPaintTypeOK
    OBVIOUS
  <2>2. loop \in LoopRecords /\ paints \in [fresh : BOOLEAN, count : 1..(PumpCount + 1)]
    BY <2>1 DEF CefPaintInit, LoopRecords
  <2>3. rate \in RateRecords /\ tasks \in TaskRecords
    BY DEF CefPaintInit, RateRecords, TaskRecords
  <2>4. resizer \in [Resizers -> {"idle", "stored", "begun", "notified", "unstopped"}]
    BY DEF CefPaintInit
  <2> QED
    BY <2>2, <2>3, <2>4, CefPaintAssumption
    DEF CefPaintInit, CefPaintTypeOK, LoopRecords, RateRecords, TaskRecords
<1> QED
  BY <1>1, CefPaintTypeStep, PTL DEF CefPaintSpec

-----------------------------------------------------------------------------
(* One loop.  A tick that stops leaves running to its last step, so the     *)
(* loop has no task while the UI thread is between the two.                 *)
LoopInv == OneLoop /\ (uiStep = "stopping" => loop.running)

(* A tick, which is the only task of its loop, keeps the loop single.       *)
LEMMA TickLoop ==
  ASSUME CefPaintTypeOK, LoopInv, NEW r \in RateRecords, NEW left \in TaskRecords, TickWith(r, left),
         left.kick + left.tick + 1 = tasks.kick + tasks.tick
  PROVE  LoopInv'
<1>1. loop.running /\ left.kick + left.tick = 0
  BY DEF LoopInv, OneLoop, CefPaintTypeOK, TaskRecords
<1>2. left.kick = 0 /\ left.tick = 0
  BY <1>1 DEF TaskRecords
<1>3. CASE loop.stop \/ loop.ticks + 1 > TickLimit
  BY <1>1, <1>2, <1>3 DEF TickWith, LoopInv, OneLoop, LayerUiStep, CefPaintTypeOK
<1>4. CASE ~(loop.stop \/ loop.ticks + 1 > TickLimit) /\ r.frame = 0
  BY <1>1, <1>2, <1>4 DEF TickWith, LoopInv, OneLoop, LayerUiStep, CefPaintTypeOK
<1>5. CASE ~(loop.stop \/ loop.ticks + 1 > TickLimit) /\ r.frame # 0
  <2>1. tasks' = [left EXCEPT !.tick = @ + 1] /\ uiStep' = "idle"
    BY <1>5 DEF TickWith, LayerUiStep
  <2>2. tasks'.kick = 0 /\ tasks'.tick = 1
    BY <1>2, <2>1 DEF TaskRecords
  <2> QED
    <3>1. r.frame > 0
      <4>1. r.frame \in Nat
        BY CefPaintAssumption DEF RateRecords
      <4> QED
        BY <1>5, <4>1
    <3>2. loop'.running
      BY <1>1, <1>5, <3>1, TickRunning
    <3> QED
      BY <2>1, <2>2, <3>2 DEF LoopInv, OneLoop
<1> QED
  BY <1>3, <1>4, <1>5

(* Every step keeps the loop single.                                        *)
LEMMA LoopStep == CefPaintTypeOK /\ LoopInv /\ [CefPaintNext]_cefVars => LoopInv'
<1> SUFFICES ASSUME CefPaintTypeOK, LoopInv, [CefPaintNext]_cefVars
             PROVE  LoopInv'
  OBVIOUS
<1>1. CASE \E r \in Resizers : ResizeStart(r)
  BY <1>1 DEF ResizeStart, Started, KickPosted, LoopInv, OneLoop, CefPaintTypeOK
<1>2. CASE \E r \in Resizers : ResizeNotify(r)
  BY <1>2 DEF ResizeNotify, LoopInv, OneLoop, CefPaintTypeOK
<1>3. CASE \E r \in Resizers : ResizeUnstop(r)
  BY <1>3 DEF ResizeUnstop, LoopInv, OneLoop, CefPaintTypeOK
<1>4. CASE ApplyResize
  BY <1>4 DEF ApplyResize, LayerUiStep, LoopInv, OneLoop, CefPaintTypeOK
<1>5. CASE DeliverResize \/ AfterCreated
  <2> DEFINE l == [loop EXCEPT !.stop = FALSE]
  <2>1. l.running = loop.running /\ l \in LoopRecords
    BY DEF CefPaintTypeOK, LoopRecords
  <2>2. loop' = Started(l) /\ tasks' = KickPosted(tasks) /\ uiStep # "stopping" /\ uiStep' = "idle"
    BY <1>5 DEF DeliverResize, AfterCreated, LayerUiStep
  <2> HIDE DEF l
  <2>3. loop'.running
    BY <2>1, <2>2 DEF Started, LoopRecords
  <2>4. tasks'.kick + tasks'.tick = 1
    BY <2>2 DEF KickPosted, LoopInv, OneLoop, CefPaintTypeOK
  <2> QED
    BY <2>2, <2>3, <2>4 DEF LoopInv, OneLoop
<1>6. CASE Kick
  <2> DEFINE left == [tasks EXCEPT !.kick = @ - 1]
  <2>1. left \in TaskRecords /\ left.kick + left.tick + 1 = tasks.kick + tasks.tick
    BY <1>6 DEF Kick, TaskRecords, CefPaintTypeOK
  <2> DEFINE r == IF Alive /\ rate.frame > 0 /\ rate.saved = 0
                  THEN [rate EXCEPT !.saved = rate.frame, !.current = rate.frame, !.boosted = TRUE]
                  ELSE rate
  <2>2. r \in RateRecords
    BY DEF CefPaintTypeOK, RateRecords
  <2>3. TickWith(r, left)
    BY <1>6 DEF Kick
  <2> HIDE DEF r, left
  <2> QED
    BY <2>1, <2>2, <2>3, TickLoop
<1>7. CASE Tick
  <2> DEFINE left == [tasks EXCEPT !.tick = @ - 1]
  <2>1. left \in TaskRecords /\ left.kick + left.tick + 1 = tasks.kick + tasks.tick
    BY <1>7 DEF Tick, TaskRecords, CefPaintTypeOK
  <2>2. rate \in RateRecords /\ TickWith(rate, left)
    BY <1>7 DEF Tick, CefPaintTypeOK, RateRecords
  <2> HIDE DEF left
  <2> QED
    BY <2>1, <2>2, TickLoop
<1>8. CASE TickEnds
  BY <1>8 DEF TickEnds, LayerUiStep, LoopInv, OneLoop, CefPaintTypeOK
<1>9. CASE PumpEnds \/ BeforeClose
  BY <1>9 DEF PumpEnds, BeforeClose, LayerUiStep, LoopInv, OneLoop, CefPaintTypeOK
<1>10. CASE CountPaint
  <2>1. uiStep = "idle" /\ uiStep' \in {"idle", "pumped"} /\ UNCHANGED <<loop, tasks>>
    BY <1>10 DEF CountPaint, LayerUiStep
  <2> QED
    BY <2>1 DEF LoopInv, OneLoop
<1>11. CASE UNCHANGED <<loop, tasks, uiStep>>
  BY <1>11 DEF LoopInv, OneLoop
<1> QED
  BY <1>1, <1>2, <1>3, <1>4, <1>5, <1>6, <1>7, <1>8, <1>9, <1>10, <1>11
  DEF CefPaintNext, Resize, ResizeStore, ResizeBegin, ApplyRefresh, CreateBrowser, cefVars

(* There is never more than one invalidate loop.                            *)
THEOREM OneLoopCorrect == CefPaintSpec => []OneLoop
<1>1. CefPaintInit => LoopInv
  BY DEF CefPaintInit, LoopInv, OneLoop
<1>2. LoopInv => OneLoop
  BY DEF LoopInv
<1> QED
  BY <1>1, <1>2, LoopStep, CefPaintTypeCorrect, PTL DEF CefPaintSpec

-----------------------------------------------------------------------------
(* The debounce.  Its flag stands for exactly one delayed task, and a size  *)
(* CEF has not read is on its way there: with the thread that stored it,    *)
(* with the delayed task, or with the UI thread that took it.               *)
DebounceInv ==
  /\ tasks.apply = IF scheduled THEN 1 ELSE 0
  /\ Alive /\ delivered # size =>
       \/ \E r \in Resizers : resizer[r] \in {"stored", "begun"}
       \/ tasks.apply > 0
       \/ uiStep = "applying"

(* A tick leaves the delayed task alone.                                    *)
LEMMA TickApply ==
  ASSUME NEW r, NEW left \in TaskRecords, TickWith(r, left)
  PROVE  tasks'.apply = left.apply /\ uiStep = "idle"
BY DEF TickWith, LayerUiStep, TaskRecords

(* A kick leaves the delayed task alone.                                    *)
LEMMA KickPostedApply == CefPaintTypeOK => KickPosted(tasks).apply = tasks.apply
BY DEF CefPaintTypeOK, KickPosted

(* Every step keeps what a debounce relies on.                              *)
LEMMA DebounceStep == CefPaintTypeOK /\ DebounceInv /\ [CefPaintNext]_cefVars => DebounceInv'
<1> SUFFICES ASSUME CefPaintTypeOK, DebounceInv, [CefPaintNext]_cefVars
             PROVE  DebounceInv'
  OBVIOUS
<1>1. CASE \E r \in Resizers, n \in WindowSizes : ResizeStore(r, n)
  <2>1. PICK r \in Resizers : resizer' = [resizer EXCEPT ![r] = "stored"]
    BY <1>1 DEF ResizeStore, ResizeStep
  <2>2. resizer'[r] = "stored"
    BY <2>1 DEF CefPaintTypeOK
  <2> QED
    BY <1>1, <2>2 DEF ResizeStore, DebounceInv, Alive
<1>2. CASE \E r \in Resizers : ResizeBegin(r)
  <2>1. PICK r \in Resizers : ResizeBegin(r)
    BY <1>2
  <2>2. CASE Alive
    <3>1. resizer' = [resizer EXCEPT ![r] = "begun"]
      BY <2>1, <2>2 DEF ResizeBegin, ResizeStep
    <3>2. resizer'[r] = "begun"
      BY <3>1 DEF CefPaintTypeOK
    <3> QED
      BY <2>1, <3>2 DEF ResizeBegin, DebounceInv, Alive
  <2>3. CASE ~Alive
    BY <2>1, <2>3 DEF ResizeBegin, DebounceInv, Alive
  <2> QED
    BY <2>2, <2>3
<1>3. CASE \E r \in Resizers : ResizeNotify(r)
  <2>1. PICK r \in Resizers : ResizeNotify(r)
    BY <1>3
  <2>2. UNCHANGED <<browser, size, uiStep>>
    BY <2>1 DEF ResizeNotify
  <2>3. CASE /\ delivered' = IF Alive THEN size ELSE delivered
             /\ UNCHANGED <<scheduled, tasks>>
    BY <2>2, <2>3 DEF DebounceInv, Alive
  <2>4. CASE /\ scheduled' = TRUE
             /\ tasks' = IF scheduled THEN tasks ELSE [tasks EXCEPT !.apply = @ + 1]
             /\ UNCHANGED delivered
    <3>1. tasks'.apply = 1
      BY <2>4 DEF DebounceInv, CefPaintTypeOK
    <3> QED
      BY <2>2, <2>4, <3>1 DEF DebounceInv
  <2> QED
    BY <2>1, <2>3, <2>4 DEF ResizeNotify
<1>4. CASE \E r \in Resizers : ResizeUnstop(r) \/ ResizeStart(r)
  <2>1. PICK r \in Resizers : ResizeUnstop(r) \/ ResizeStart(r)
    BY <1>4
  <2>2. UNCHANGED <<browser, size, delivered, scheduled, uiStep>> /\ tasks'.apply = tasks.apply
    BY <2>1, KickPostedApply DEF ResizeUnstop, ResizeStart
  <2>3. \A q \in Resizers : resizer[q] \in {"stored", "begun"} => resizer'[q] = resizer[q]
    BY <2>1 DEF ResizeUnstop, ResizeStart, ResizeStep, CefPaintTypeOK
  <2> QED
    BY <2>2, <2>3 DEF DebounceInv, Alive
<1>5. CASE ApplyResize
  <2>1. tasks'.apply = 0 /\ ~scheduled'
    BY <1>5 DEF ApplyResize, DebounceInv, CefPaintTypeOK
  <2> QED
    BY <1>5, <2>1 DEF ApplyResize, LayerUiStep, DebounceInv, Alive
<1>6. CASE DeliverResize \/ AfterCreated
  <2>1. delivered' = size' /\ scheduled' = scheduled /\ tasks'.apply = tasks.apply
    BY <1>6, KickPostedApply DEF DeliverResize, AfterCreated
  <2> QED
    BY <2>1 DEF DebounceInv
<1>7. CASE Kick \/ Tick
  <2>1. [tasks EXCEPT !.kick = @ - 1].apply = tasks.apply /\ [tasks EXCEPT !.tick = @ - 1].apply = tasks.apply
    BY DEF CefPaintTypeOK
  <2>2. /\ tasks.kick > 0 => [tasks EXCEPT !.kick = @ - 1] \in TaskRecords
        /\ tasks.tick > 0 => [tasks EXCEPT !.tick = @ - 1] \in TaskRecords
    BY DEF CefPaintTypeOK, TaskRecords
  <2>3. tasks'.apply = tasks.apply /\ uiStep = "idle"
    BY <1>7, <2>1, <2>2, TickApply DEF Kick, Tick
  <2>4. UNCHANGED <<browser, size, delivered, scheduled, resizer>>
    BY <1>7 DEF Kick, Tick
  <2> QED
    BY <2>3, <2>4 DEF DebounceInv, Alive
<1>8. CASE TickEnds \/ PumpEnds \/ CountPaint
  <2>1. uiStep # "applying" /\ UNCHANGED <<browser, size, delivered, scheduled, resizer, tasks>>
    BY <1>8 DEF TickEnds, PumpEnds, CountPaint, LayerUiStep
  <2> QED
    BY <2>1 DEF DebounceInv, Alive
<1>9. CASE CreateBrowser \/ BeforeClose
  BY <1>9 DEF CreateBrowser, BeforeClose, DebounceInv, Alive
<1>10. CASE (\E hz \in Rates : ApplyRefresh(hz)) \/ UNCHANGED cefVars
  <2>1. UNCHANGED <<browser, size, delivered, scheduled, resizer, tasks, uiStep>>
    BY <1>10 DEF ApplyRefresh, cefVars
  <2> QED
    BY <2>1 DEF DebounceInv, Alive
<1> QED
  BY <1>1, <1>2, <1>3, <1>4, <1>5, <1>6, <1>7, <1>8, <1>9, <1>10 DEF CefPaintNext, Resize

(* Once the resizes have come to rest, CEF was told of the last size.       *)
THEOREM LastSizeCorrect == CefPaintSpec => []LastSizeDelivered
<1>1. CefPaintInit => DebounceInv
  BY DEF CefPaintInit, DebounceInv, Alive
<1>2. DebounceInv => LastSizeDelivered
  BY DEF DebounceInv, LastSizeDelivered, ResizersIdle
<1> QED
  BY <1>1, <1>2, DebounceStep, CefPaintTypeCorrect, PTL DEF CefPaintSpec

-----------------------------------------------------------------------------
(* The rate.  What a loop saved is the rate of the display, nothing is      *)
(* saved once it ended, and a browser no loop boosted runs at that rate.    *)
BornUnboosted == ~rate.boosted /\ (~rate.missed => rate.current = rate.frame)
RateInv ==
  /\ rate.saved \in {0, rate.frame}
  /\ ~loop.running \/ uiStep = "stopping" => rate.saved = 0
  /\ browser = "creating" \/ (Alive /\ rate.saved = 0) => BornUnboosted

(* A tick, with the rate it is given: one that ends the loop gives it back. *)
LEMMA TickRate ==
  ASSUME CefPaintTypeOK, NEW r \in RateRecords, NEW left, TickWith(r, left),
         loop.running, browser' = browser,
         r.saved \in {0, r.frame},
         browser = "creating" \/ (Alive /\ r.saved = 0) =>
           ~r.boosted /\ (~r.missed => r.current = r.frame)
  PROVE  RateInv'
<1>1. CASE loop.stop \/ loop.ticks + 1 > TickLimit
  <2>1. rate' = Restored(r) /\ uiStep' = "stopping"
    BY <1>1 DEF TickWith, LayerUiStep
  <2>2. rate'.saved = 0
    BY <2>1 DEF Restored, RateRecords
  <2>3. CASE Alive /\ r.saved > 0
    <3>1. rate' = [r EXCEPT !.saved = 0, !.current = r.saved, !.boosted = FALSE]
      BY <2>1, <2>3 DEF Restored
    <3>2. ~rate'.boosted /\ rate'.current = r.saved /\ rate'.frame = r.frame
      BY <3>1 DEF RateRecords
    <3> QED
      BY <2>2, <2>3, <3>2 DEF RateInv, BornUnboosted
  <2>4. CASE ~(Alive /\ r.saved > 0)
    <3>1. rate' = [r EXCEPT !.saved = 0]
      BY <2>1, <2>4 DEF Restored
    <3>2. /\ rate'.boosted = r.boosted /\ rate'.current = r.current
          /\ rate'.frame = r.frame /\ rate'.missed = r.missed
      BY <3>1 DEF RateRecords
    <3>3. Alive => r.saved = 0
      <4>1. r.saved \in Nat
        BY CefPaintAssumption DEF RateRecords
      <4> QED
        BY <2>4, <4>1
    <3> QED
      BY <2>2, <3>2, <3>3 DEF RateInv, BornUnboosted, Alive
  <2> QED
    BY <2>3, <2>4
<1>2. CASE ~(loop.stop \/ loop.ticks + 1 > TickLimit)
  <2>1. rate' = r /\ uiStep' = "idle"
    BY <1>2 DEF TickWith, LayerUiStep
  <2>2. r.frame \in Nat
    BY CefPaintAssumption DEF RateRecords
  <2>3. loop'.running <=> r.frame > 0
    BY <1>2, TickRunning
  <2>5. ~loop'.running => rate'.saved = 0
    BY <2>1, <2>2, <2>3
  <2> QED
    BY <2>1, <2>5 DEF RateInv, BornUnboosted, Alive
<1> QED
  BY <1>1, <1>2

(* Every step keeps the rates together.                                     *)
LEMMA RateStep == CefPaintTypeOK /\ LoopInv /\ RateInv /\ [CefPaintNext]_cefVars => RateInv'
<1> SUFFICES ASSUME CefPaintTypeOK, LoopInv, RateInv, [CefPaintNext]_cefVars
             PROVE  RateInv'
  OBVIOUS
<1>1. CASE Kick
  <2> DEFINE boosts == Alive /\ rate.frame > 0 /\ rate.saved = 0
             r == IF boosts
                  THEN [rate EXCEPT !.saved = rate.frame, !.current = rate.frame, !.boosted = TRUE]
                  ELSE rate
             left == [tasks EXCEPT !.kick = @ - 1]
  <2>1. TickWith(r, left) /\ browser' = browser /\ loop.running
    BY <1>1 DEF Kick, LoopInv, OneLoop, CefPaintTypeOK
  <2>2. r \in RateRecords
    BY DEF CefPaintTypeOK, RateRecords
  <2>3. /\ r.saved \in {0, r.frame}
        /\ browser = "creating" \/ (Alive /\ r.saved = 0) =>
             ~r.boosted /\ (~r.missed => r.current = r.frame)
    <3>1. CASE boosts
      <4>1. r.saved = rate.frame /\ r.frame = rate.frame /\ rate.frame > 0
        BY <3>1 DEF CefPaintTypeOK
      <4>2. r.saved # 0
        BY <4>1
      <4> QED
        BY <3>1, <4>1, <4>2 DEF Alive
    <3>2. CASE ~boosts
      BY <3>2 DEF RateInv, BornUnboosted
    <3> QED
      BY <3>1, <3>2
  <2> HIDE DEF r, left
  <2> QED
    BY <2>1, <2>2, <2>3, TickRate
<1>2. CASE Tick
  <2> DEFINE left == [tasks EXCEPT !.tick = @ - 1]
  <2>1. TickWith(rate, left) /\ browser' = browser /\ loop.running
    BY <1>2 DEF Tick, LoopInv, OneLoop, CefPaintTypeOK
  <2>2. rate \in RateRecords
    BY DEF CefPaintTypeOK, RateRecords
  <2> HIDE DEF left
  <2> QED
    BY <2>1, <2>2, TickRate DEF RateInv, BornUnboosted
<1>3. CASE TickEnds
  BY <1>3 DEF TickEnds, LayerUiStep, RateInv, BornUnboosted, Alive
<1>4. CASE \E hz \in Rates : ApplyRefresh(hz)
  <2>1. PICK hz \in Rates : ApplyRefresh(hz)
    BY <1>4
  <2>2. /\ rate'.frame = hz
        /\ rate'.saved = IF rate.saved # 0 THEN hz ELSE 0
        /\ rate'.current = IF rate.saved = 0 /\ Alive THEN hz ELSE rate.current
        /\ rate'.boosted <=> rate.boosted /\ (rate.saved # 0 \/ ~Alive)
        /\ rate'.missed <=> rate.missed \/ browser = "creating"
    BY <2>1 DEF ApplyRefresh, CefPaintTypeOK
  <2>3. UNCHANGED <<browser, loop, uiStep>>
    BY <2>1 DEF ApplyRefresh
  <2>4. hz # 0
    BY CefPaintAssumption
  <2> QED
    BY <2>2, <2>3, <2>4 DEF RateInv, BornUnboosted, Alive
<1>5. CASE CreateBrowser
  <2>1. /\ ~rate'.boosted /\ ~rate'.missed /\ rate'.current = rate.frame
        /\ rate'.frame = rate.frame /\ rate'.saved = rate.saved
    BY <1>5 DEF CreateBrowser, CefPaintTypeOK
  <2> QED
    BY <1>5, <2>1 DEF CreateBrowser, RateInv, BornUnboosted
<1>6. CASE DeliverResize \/ AfterCreated \/ \E r \in Resizers : ResizeStart(r)
  <2>1. loop'.running
    BY <1>6 DEF DeliverResize, AfterCreated, ResizeStart, Started, CefPaintTypeOK
  <2>2. uiStep' \in {uiStep, "idle"} /\ rate' = rate
    BY <1>6 DEF DeliverResize, AfterCreated, ResizeStart, LayerUiStep
  <2>3. browser' = browser \/ browser = "creating"
    BY <1>6 DEF DeliverResize, AfterCreated, ResizeStart
  <2> QED
    BY <2>1, <2>2, <2>3 DEF RateInv, BornUnboosted, Alive
<1>7. CASE PumpEnds \/ BeforeClose \/ \E r \in Resizers : ResizeUnstop(r)
  <2>1. loop'.running = loop.running
    BY <1>7 DEF PumpEnds, BeforeClose, ResizeUnstop, CefPaintTypeOK
  <2>2. uiStep' \in {uiStep, "idle"} /\ rate' = rate /\ browser' \in {browser, "none"}
    BY <1>7 DEF PumpEnds, BeforeClose, ResizeUnstop, LayerUiStep
  <2> QED
    BY <2>1, <2>2 DEF RateInv, BornUnboosted, Alive
<1>8. CASE ApplyResize \/ CountPaint
  <2>1. uiStep = "idle" /\ uiStep' # "stopping" /\ UNCHANGED <<browser, loop, rate>>
    BY <1>8 DEF ApplyResize, CountPaint, LayerUiStep
  <2> QED
    BY <2>1 DEF RateInv, BornUnboosted, Alive
<1>9. CASE UNCHANGED <<browser, loop, rate, uiStep>>
  BY <1>9 DEF RateInv, BornUnboosted, Alive
<1> QED
  BY <1>1, <1>2, <1>3, <1>4, <1>5, <1>6, <1>7, <1>8, <1>9
  DEF CefPaintNext, Resize, ResizeStore, ResizeBegin, ResizeNotify, cefVars

(* The boost ends with the loop, and the rate given back is the display's.  *)
THEOREM RateCorrect == CefPaintSpec => []RateGivenBack
<1>1. CefPaintInit => RateInv /\ LoopInv
  BY DEF CefPaintInit, RateInv, LoopInv, OneLoop, Alive
<1>2. RateInv => RateGivenBack
  BY DEF RateInv, RateGivenBack, BornUnboosted
<1> QED
  BY <1>1, <1>2, RateStep, LoopStep, CefPaintTypeCorrect, PTL DEF CefPaintSpec
=============================================================================
