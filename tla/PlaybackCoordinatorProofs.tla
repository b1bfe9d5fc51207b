---------------------- MODULE PlaybackCoordinatorProofs ----------------------
(***************************************************************************)
(* Proofs about PlaybackCoordinator for any number of producers, any       *)
(* posted inputs and any queue bound: its types, that no wake-up is lost,  *)
(* that the published snapshot is current, and that the idle inhibitor and *)
(* the page follow the playback.  And about PlayerSession for any number of *)
(* loads and stops: that tracks go to their own file, that an open file    *)
(* plays, and that a replaced track's end is not told.                     *)
(***************************************************************************)
EXTENDS PlaybackCoordinator, PlayerSession, PlaybackStateMachineProofs, WellFoundedInduction

-----------------------------------------------------------------------------
(* No lost wake-up.  The worker may be between its look at the queue and    *)
(* its wait when a stop arrives: the first conjunct spans both.             *)
WakeInv ==
  /\ worker \in {"take", "wait"} /\ ~wake => running \/ slot = Stopping
  /\ worker = "wait" /\ ~wake => queue = <<>> \/ slot \in Producers

(* Every step keeps it: only a push or a stop sets the worker work to do.   *)
LEMMA WakeStep == WakeInv /\ [CoordNext]_vars => WakeInv'
<1> SUFFICES ASSUME WakeInv, [CoordNext]_vars
             PROVE  WakeInv'
  OBVIOUS
<1> USE DEF WakeInv
<1>1. CASE \E p \in Producers : \E in \in Posted[p] : EnqueuePush(p, in)
  BY <1>1, ProducersAssumption DEF EnqueuePush, Free, Stopping, Joining
<1>2. CASE \E p \in Producers : EnqueueSignal(p)
  BY <1>2 DEF EnqueueSignal
<1>3. CASE StopClear
  BY <1>3, ProducersAssumption DEF StopClear, Free, Stopping, Joining
<1>4. CASE StopSignal
  BY <1>4 DEF StopSignal
<1>5. CASE StopJoin
  BY <1>5 DEF StopJoin
<1>6. CASE WorkerCheck
  BY <1>6 DEF WorkerCheck, ctlVars
<1>7. CASE WorkerTake
  BY <1>7 DEF WorkerTake
<1>8. CASE WorkerWait \/ WorkerDrain
  BY <1>8 DEF WorkerWait, WorkerDrain, WorkerAt
<1>9. CASE WorkerApply
  BY <1>9 DEF WorkerApply
<1>10. CASE WorkerPublish \/ DeliverInhibit \/ DeliverBrowser \/ DeliverActions
  BY <1>10 DEF WorkerPublish, DeliverInhibit, DeliverBrowser, DeliverActions,
               WorkerAt
<1>11. CASE Terminated \/ UNCHANGED vars
  BY <1>11 DEF Terminated, vars, ctlVars
<1> QED
  BY <1>1, <1>2, <1>3, <1>4, <1>5, <1>6, <1>7, <1>8, <1>9, <1>10, <1>11
     DEF CoordNext, Worker

(* A worker asleep with the event unsignalled has nothing to do, or a post  *)
(* or a stop is between its change and its signal.                          *)
THEOREM WakeCorrect == CoordSpec => []NoLostWakeup
<1>1. CoordInit => WakeInv
  BY DEF CoordInit, WakeInv
<1>2. WakeInv => NoLostWakeup
  BY DEF WakeInv, NoLostWakeup
<1> QED
  BY <1>1, <1>2, WakeStep, PTL DEF CoordSpec

-----------------------------------------------------------------------------
(* The published snapshot.  The invariant follows a batch through an        *)
(* iteration: applied until empty, then published, then delivered.          *)
SnapInv ==
  /\ Between => snapshot = s /\ batch = <<>> /\ events = <<>>
  /\ worker = "publish" => batch = <<>>
  /\ worker \in {"inhibit", "browser", "act"} => snapshot = s /\ batch = <<>>

(* Every step keeps it, the worker's one by one.                            *)
LEMMA SnapStep == SnapInv /\ [CoordNext]_vars => SnapInv'
<1> SUFFICES ASSUME SnapInv, [CoordNext]_vars
             PROVE  SnapInv'
  OBVIOUS
<1> USE DEF SnapInv, Between, smVars
<1>1. CASE \/ \E p \in Producers : \E in \in Posted[p] : EnqueuePush(p, in)
           \/ \E p \in Producers : EnqueueSignal(p)
  BY <1>1 DEF EnqueuePush, EnqueueSignal
<1>2. CASE StopClear \/ StopSignal \/ StopJoin
  BY <1>2 DEF StopClear, StopSignal, StopJoin
<1>3. CASE WorkerCheck
  BY <1>3 DEF WorkerCheck
<1>4. CASE WorkerTake
  BY <1>4 DEF WorkerTake
<1>5. CASE WorkerWait \/ WorkerDrain
  BY <1>5 DEF WorkerWait, WorkerDrain, WorkerAt
<1>6. CASE WorkerApply
  BY <1>6 DEF WorkerApply
<1>7. CASE WorkerPublish
  BY <1>7 DEF WorkerPublish, WorkerAt
<1>8. CASE DeliverInhibit \/ DeliverBrowser
  BY <1>8 DEF DeliverInhibit, DeliverBrowser, WorkerAt
<1>9. CASE DeliverActions
  BY <1>9 DEF DeliverActions, WorkerAt, sinkVars
<1>10. CASE Terminated \/ UNCHANGED vars
  BY <1>10 DEF Terminated, vars
<1> QED
  BY <1>1, <1>2, <1>3, <1>4, <1>5, <1>6, <1>7, <1>8, <1>9, <1>10
     DEF CoordNext, Worker

(* It holds at the start.                                                   *)
LEMMA SnapInit == CoordInit => SnapInv
BY DEF CoordInit, SMInit, SnapInv, Between

(* No input applied stays unpublished, even during a shutdown.              *)
THEOREM SnapshotCorrect == CoordSpec => []SnapshotCurrent
<1>1. SnapInv => SnapshotCurrent
  BY DEF SnapInv, SnapshotCurrent
<1> QED
  BY <1>1, SnapInit, SnapStep, PTL DEF CoordSpec

-----------------------------------------------------------------------------
(* Types, and the machine inside the coordinator.                           *)

(* A batch is not applied past its end.                                     *)
ApplyInv == worker = "apply" => batch # <<>>

(* Taking a batch apart.                                                    *)
LEMMA BatchParts ==
  ASSUME NEW b \in Seq(Input), b # <<>>
  PROVE  Head(b) \in Input /\ Tail(b) \in Seq(Input)
OBVIOUS

(* One step of the coordinator is at most one step of the machine: what is  *)
(* proved of PlaybackStateMachine holds of it under the coordinator.        *)
LEMMA MachineStep ==
  ASSUME CoordTypeOK, ApplyInv, [CoordNext]_vars
  PROVE  [SMNext]_smVars
<1>1. CASE \/ \E p \in Producers : \E in \in Posted[p] : EnqueuePush(p, in)
           \/ \E p \in Producers : EnqueueSignal(p)
           \/ StopClear \/ StopSignal \/ StopJoin
  BY <1>1 DEF EnqueuePush, EnqueueSignal, StopClear, StopSignal, StopJoin
<1>2. CASE WorkerCheck \/ WorkerTake \/ WorkerWait \/ WorkerDrain
  BY <1>2 DEF WorkerCheck, WorkerTake, WorkerWait, WorkerDrain
<1>3. CASE WorkerApply
  <2>1. Head(batch) \in Input
    BY <1>3, BatchParts DEF WorkerApply, ApplyInv, CoordTypeOK
  <2> QED
    BY <1>3, <2>1 DEF WorkerApply, SMNext
<1>4. CASE WorkerPublish \/ DeliverInhibit \/ DeliverBrowser \/ DeliverActions
  BY <1>4 DEF WorkerPublish, DeliverInhibit, DeliverBrowser, DeliverActions
<1>5. CASE Terminated \/ UNCHANGED vars
  BY <1>5 DEF Terminated, vars
<1> QED
  BY <1>1, <1>2, <1>3, <1>4, <1>5 DEF CoordNext, Worker

(* The worker applies only what it took.                                    *)
LEMMA ApplyStep == ApplyInv /\ [CoordNext]_vars => ApplyInv'
<1> SUFFICES ASSUME ApplyInv, [CoordNext]_vars
             PROVE  ApplyInv'
  OBVIOUS
<1> USE DEF ApplyInv
<1>1. CASE \/ \E p \in Producers : \E in \in Posted[p] : EnqueuePush(p, in)
           \/ \E p \in Producers : EnqueueSignal(p)
           \/ StopClear \/ StopSignal \/ StopJoin
  BY <1>1 DEF EnqueuePush, EnqueueSignal, StopClear, StopSignal, StopJoin
<1>2. CASE WorkerCheck \/ WorkerTake \/ WorkerWait \/ WorkerDrain
  BY <1>2 DEF WorkerCheck, WorkerTake, WorkerWait, WorkerDrain, WorkerAt
<1>3. CASE WorkerApply
  BY <1>3 DEF WorkerApply
<1>4. CASE WorkerPublish \/ DeliverInhibit \/ DeliverBrowser \/ DeliverActions
  BY <1>4 DEF WorkerPublish, DeliverInhibit, DeliverBrowser, DeliverActions,
              WorkerAt
<1>5. CASE Terminated \/ UNCHANGED vars
  BY <1>5 DEF Terminated, vars
<1> QED
  BY <1>1, <1>2, <1>3, <1>4, <1>5 DEF CoordNext, Worker

(* The level and the signal the sinks compute.                              *)
LEMMA LevelType == \A snap : Level(snap) \in InhibitLevel
BY DEF Level, InhibitLevel

(* What an event says to the page is a signal.                              *)
LEMMA UiEmissionType ==
  \A kind, snap : UiEmission(kind, snap) \subseteq UiSignal
BY DEF UiEmission, UiSignalOf, UiSignal

-----------------------------------------------------------------------------
(* The last emission of a batch: the definition of LastEmission in parts,   *)
(* with the signal already on the page as a parameter.                      *)
Speaking(evs, snap) == {i \in DOMAIN evs : UiEmission(evs[i].kind, snap) # {}}
LastOf(S)           == CHOOSE i \in S : \A j \in S : j <= i
SignalOf(kind, snap) == CHOOSE signal \in UiEmission(kind, snap) : TRUE

Emission(evs, snap, u) ==
  IF Speaking(evs, snap) = {} THEN u
  ELSE SignalOf(evs[LastOf(Speaking(evs, snap))].kind, snap)

(* The parts make up the definition.                                        *)
LEMMA LastEmissionParts ==
  \A evs, snap : LastEmission(evs, snap) = Emission(evs, snap, ui)
BY DEF LastEmission, Emission, Speaking, LastOf, SignalOf

(* A set of naturals has a least element, one below a bound a greatest.     *)
LEMMA NatMin ==
  ASSUME NEW T \in SUBSET Nat, T # {}
  PROVE  \E x \in T : \A y \in T : x <= y
<1> DEFINE R == OpToRel(<, Nat)
<1>1. IsWellFoundedOn(R, Nat)
  BY NatLessThanWellFounded
<1>2. \A x, y \in Nat : <<x, y>> \in R <=> x < y
  BY DEF OpToRel
<1> HIDE DEF R
<1>3. PICK x \in T : \A y \in T : ~(<<y, x>> \in R)
  BY <1>1, WFMin
<1>4. \A y \in T : ~(y < x)
  BY <1>2, <1>3
<1>5. \A y \in T : x <= y
  BY <1>4
<1> QED
  BY <1>5

(* The greatest element, by reflection of the least.                        *)
LEMMA NatMax ==
  ASSUME NEW n \in Nat, NEW T \in SUBSET (1..n), T # {}
  PROVE  \E x \in T : \A y \in T : y <= x
<1> DEFINE U == {n - x : x \in T}
<1>1. U \in SUBSET Nat /\ U # {}
  <2>1. \A x \in T : x \in 1..n /\ n - x \in Nat
    OBVIOUS
  <2> QED
    BY <2>1
<1>2. PICK u \in U : \A v \in U : u <= v
  BY <1>1, NatMin
<1>3. PICK x \in T : u = n - x
  BY <1>2
<1>4. \A y \in T : n - x <= n - y
  BY <1>2, <1>3
<1> QED
  BY <1>3, <1>4

(* The last speaking event is one, and none after it speaks.                *)
LEMMA LastSpeaks ==
  ASSUME NEW evs \in Seq(PlaybackEvent), NEW snap, Speaking(evs, snap) # {}
  PROVE  /\ LastOf(Speaking(evs, snap)) \in Speaking(evs, snap)
         /\ \A j \in Speaking(evs, snap) : j <= LastOf(Speaking(evs, snap))
<1>1. Speaking(evs, snap) \in SUBSET (1..Len(evs)) /\ Len(evs) \in Nat
  BY DEF Speaking
<1>2. \E i \in Speaking(evs, snap) : \A j \in Speaking(evs, snap) : j <= i
  BY <1>1, NatMax
<1> QED
  BY <1>2 DEF LastOf

(* Whatever signal a batch ends on is one of an event that speaks.          *)
LEMMA SignalOfSpeaks ==
  \A kind, snap : UiEmission(kind, snap) # {} =>
                    SignalOf(kind, snap) \in UiEmission(kind, snap)
BY DEF SignalOf

(* The page has heard a signal or nothing yet.                              *)
LEMMA EmissionType ==
  ASSUME NEW evs \in Seq(PlaybackEvent), NEW snap,
         NEW u \in UiSignal \cup {NoSignal}
  PROVE  Emission(evs, snap, u) \in UiSignal \cup {NoSignal}
<1>1. CASE Speaking(evs, snap) = {}
  BY <1>1 DEF Emission
<1>2. CASE Speaking(evs, snap) # {}
  <2>1. UiEmission(evs[LastOf(Speaking(evs, snap))].kind, snap) # {}
    BY <1>2, LastSpeaks DEF Speaking
  <2> QED
    BY <1>2, <2>1, SignalOfSpeaks, UiEmissionType DEF Emission
<1> QED
  BY <1>1, <1>2

(* Events that say nothing to the page leave the emission alone.            *)
LEMMA EmissionSilent ==
  ASSUME NEW a \in Seq(PlaybackEvent), NEW b \in Seq(PlaybackEvent),
         NEW snap, NEW u, \A kind \in Kinds(b) : UiEmission(kind, snap) = {}
  PROVE  Emission(a \o b, snap, u) = Emission(a, snap, u)
<1>1. /\ DOMAIN a \subseteq DOMAIN (a \o b)
      /\ \A i \in DOMAIN a : (a \o b)[i] = a[i]
      /\ \A i \in DOMAIN (a \o b) \ DOMAIN a :
            /\ i - Len(a) \in DOMAIN b
            /\ (a \o b)[i] = b[i - Len(a)]
  OBVIOUS
<1>2. \A i \in DOMAIN b : UiEmission(b[i].kind, snap) = {}
  BY DEF Kinds
<1>3. \A i \in DOMAIN (a \o b) \ DOMAIN a :
        UiEmission((a \o b)[i].kind, snap) = {}
  BY <1>1, <1>2
<1>4. Speaking(a \o b, snap) = Speaking(a, snap)
  BY <1>1, <1>3 DEF Speaking
<1>5. CASE Speaking(a, snap) = {}
  BY <1>4, <1>5 DEF Emission
<1>6. CASE Speaking(a, snap) # {}
  <2>1. LastOf(Speaking(a, snap)) \in DOMAIN a
    BY <1>6, LastSpeaks DEF Speaking
  <2>2. (a \o b)[LastOf(Speaking(a, snap))] = a[LastOf(Speaking(a, snap))]
    BY <1>1, <2>1
  <2> QED
    BY <1>4, <1>6, <2>2 DEF Emission
<1> QED
  BY <1>5, <1>6

(* Events that speak have the last word.                                    *)
LEMMA EmissionSpoken ==
  ASSUME NEW a \in Seq(PlaybackEvent), NEW b \in Seq(PlaybackEvent),
         NEW snap, NEW u, \E kind \in Kinds(b) : UiEmission(kind, snap) # {}
  PROVE  \E kind \in Kinds(b) : Emission(a \o b, snap, u) \in UiEmission(kind, snap)
<1>1. PICK i \in DOMAIN b : UiEmission(b[i].kind, snap) # {}
  BY DEF Kinds
<1>2. /\ Len(a) + i \in DOMAIN (a \o b)
      /\ (a \o b)[Len(a) + i] = b[i]
      /\ a \o b \in Seq(PlaybackEvent)
  OBVIOUS
<1>3. Len(a) + i \in Speaking(a \o b, snap)
  BY <1>1, <1>2 DEF Speaking
<1> DEFINE last == LastOf(Speaking(a \o b, snap))
<1>4. /\ last \in Speaking(a \o b, snap)
      /\ Len(a) + i <= last
  BY <1>2, <1>3, LastSpeaks
<1>5. /\ last \in DOMAIN (a \o b)
      /\ UiEmission((a \o b)[last].kind, snap) # {}
  BY <1>4 DEF Speaking
<1>6. Emission(a \o b, snap, u) = SignalOf((a \o b)[last].kind, snap)
  BY <1>3 DEF Emission
<1> HIDE DEF last
<1>7. /\ last - Len(a) \in DOMAIN b
      /\ (a \o b)[last] = b[last - Len(a)]
  BY <1>4, <1>5
<1>8. (a \o b)[last].kind \in Kinds(b)
  BY <1>7 DEF Kinds
<1> QED
  BY <1>5, <1>6, <1>8, SignalOfSpeaks

-----------------------------------------------------------------------------
(* Type correctness.                                                        *)
LEMMA CoordTypeStep ==
  ASSUME CoordTypeOK, ApplyInv, [CoordNext]_vars
  PROVE  CoordTypeOK'
<1>1. SMTypeOK'
  BY MachineStep, TypeStep DEF CoordTypeOK
<1> USE DEF CoordTypeOK, WorkerStep
<1>2. CASE \E p \in Producers : \E in \in Posted[p] : EnqueuePush(p, in)
  <2>1. PICK p \in Producers : \E in \in Posted[p] : EnqueuePush(p, in)
    BY <1>2
  <2>2. PICK in \in Posted[p] : EnqueuePush(p, in)
    BY <2>1
  <2>3. in \in Input
    BY PostedAssumption
  <2>4. Append(queue, in) \in Seq(Input)
    BY <2>3
  <2> QED
    BY <1>1, <2>2, <2>4 DEF EnqueuePush, sinkVars
<1>3. CASE \E p \in Producers : EnqueueSignal(p)
  BY <1>1, <1>3 DEF EnqueueSignal, sinkVars
<1>4. CASE StopClear \/ StopSignal \/ StopJoin
  BY <1>1, <1>4 DEF StopClear, StopSignal, StopJoin, sinkVars
<1>5. CASE WorkerCheck
  BY <1>1, <1>5 DEF WorkerCheck, ctlVars, sinkVars
<1>6. CASE WorkerTake
  <2>1. <<>> \in Seq(Input)
    OBVIOUS
  <2> QED
    BY <1>1, <1>6, <2>1 DEF WorkerTake, sinkVars
<1>7. CASE WorkerWait \/ WorkerDrain
  BY <1>1, <1>7 DEF WorkerWait, WorkerDrain, WorkerAt, ctlVars, sinkVars
<1>8. CASE WorkerApply
  <2>1. Tail(batch) \in Seq(Input)
    BY <1>8, BatchParts DEF WorkerApply, ApplyInv
  <2>2. /\ emitted' \in Seq(PlaybackEvent)
        /\ pending_actions' \in Seq(PlaybackAction)
    BY <1>1 DEF SMTypeOK
  <2>3. /\ events \o emitted' \in Seq(PlaybackEvent)
        /\ actions \o pending_actions' \in Seq(PlaybackAction)
    BY <2>2, ConcatType
  <2> QED
    BY <1>1, <1>8, <2>1, <2>3 DEF WorkerApply, ctlVars, sinkVars
<1>9. CASE WorkerPublish
  BY <1>1, <1>9 DEF WorkerPublish, WorkerAt, ctlVars, sinkVars, SMTypeOK
<1>10. CASE DeliverInhibit
  <2>1. inhibit' \in InhibitLevel
    BY <1>10, LevelType DEF DeliverInhibit
  <2> QED
    BY <1>1, <1>10, <2>1 DEF DeliverInhibit, WorkerAt, ctlVars
<1>11. CASE DeliverBrowser
  <2>1. ui' \in UiSignal \cup {NoSignal}
    BY <1>11, LastEmissionParts, EmissionType DEF DeliverBrowser
  <2> QED
    BY <1>1, <1>11, <2>1 DEF DeliverBrowser, WorkerAt, ctlVars
<1>12. CASE DeliverActions
  <2>1. <<>> \in Seq(PlaybackEvent) /\ <<>> \in Seq(PlaybackAction)
    OBVIOUS
  <2> QED
    BY <1>1, <1>12, <2>1 DEF DeliverActions, WorkerAt, ctlVars, sinkVars
<1>13. CASE Terminated \/ UNCHANGED vars
  BY <1>1, <1>13 DEF Terminated, vars, ctlVars, sinkVars
<1> QED
  BY <1>2, <1>3, <1>4, <1>5, <1>6, <1>7, <1>8, <1>9, <1>10, <1>11, <1>12, <1>13
     DEF CoordNext, Worker

(* The types hold at the start.                                             *)
LEMMA CoordTypeInit == CoordInit => CoordTypeOK /\ ApplyInv
<1> SUFFICES ASSUME CoordInit
             PROVE  CoordTypeOK /\ ApplyInv
  OBVIOUS
<1>1. SMTypeOK
  BY FreshType, ShortSeqType DEF CoordInit, SMInit, SMTypeOK
<1>2. <<>> \in Seq(Input) /\ <<>> \in Seq(PlaybackAction)
  OBVIOUS
<1>3. <<>> \in Seq(PlaybackEvent)
  OBVIOUS
<1> QED
  BY <1>1, <1>2, <1>3, FreshType
     DEF CoordInit, CoordTypeOK, ApplyInv, WorkerStep, InhibitLevel

(* The variables hold the values of their types.                            *)
THEOREM CoordTypeCorrect == CoordSpec => []CoordTypeOK
<1>1. CoordTypeOK /\ ApplyInv /\ [CoordNext]_vars => CoordTypeOK' /\ ApplyInv'
  BY CoordTypeStep, ApplyStep
<1> QED
  BY <1>1, CoordTypeInit, PTL DEF CoordSpec

(* What is proved of the machine holds of it under the coordinator.         *)
CoordInv == CoordTypeOK /\ ApplyInv /\ SafeInv /\ SnapInv

(* Every step keeps the conjunction.                                        *)
LEMMA CoordInvStep == CoordInv /\ [CoordNext]_vars => CoordInv'
BY CoordTypeStep, ApplyStep, SnapStep, MachineStep, InvStep
   DEF CoordInv, CoordTypeOK

(* It holds at the start.                                                   *)
LEMMA CoordInvInit == CoordInit => CoordInv
<1>1. CoordInit => SafeInv
  BY DEF CoordInit, SMInit, Fresh, SafeInv, StoppedIsClean,
         VariantFlagSpansLoad, BufferingHasCause
<1> QED
  BY <1>1, CoordTypeInit, SnapInit DEF CoordInv

-----------------------------------------------------------------------------
(* What a step of the machine tells the sinks, from the source it           *)
(* implements and the changes it announces.                                 *)
Lifecycles(evs) == Kinds(evs) \cap LifecycleKind

Told(phase, kinds) == s'.phase = phase /\ Lifecycles(emitted') = kinds

Unheard ==
  /\ Lifecycles(emitted') = {}
  /\ s'.phase = s.phase \/ s'.phase = "Starting"
  /\ s'.variant_switch_pending = s.variant_switch_pending
  /\ s'.media_type = s.media_type \/ "MediaTypeChanged" \in Kinds(emitted')

(* The kinds of a concatenation are those of its parts.                     *)
LEMMA KindsConcat ==
  ASSUME NEW a \in Seq(PlaybackEvent), NEW b \in Seq(PlaybackEvent)
  PROVE  Kinds(a \o b) = Kinds(a) \cup Kinds(b)
<1>1. /\ DOMAIN a \subseteq DOMAIN (a \o b)
      /\ \A i \in DOMAIN a : (a \o b)[i] = a[i]
      /\ \A i \in DOMAIN (a \o b) \ DOMAIN a :
            /\ i - Len(a) \in DOMAIN b
            /\ (a \o b)[i] = b[i - Len(a)]
      /\ \A i \in DOMAIN b : /\ Len(a) + i \in DOMAIN (a \o b)
                            /\ (a \o b)[Len(a) + i] = b[i]
  OBVIOUS
<1>2. Kinds(a \o b) \subseteq Kinds(a) \cup Kinds(b)
  <2> SUFFICES ASSUME NEW i \in DOMAIN (a \o b)
               PROVE  (a \o b)[i].kind \in Kinds(a) \cup Kinds(b)
    BY DEF Kinds
  <2>1. CASE i \in DOMAIN a
    BY <1>1, <2>1 DEF Kinds
  <2>2. CASE i \notin DOMAIN a
    BY <1>1, <2>2 DEF Kinds
  <2> QED
    BY <2>1, <2>2
<1>3. Kinds(a) \subseteq Kinds(a \o b)
  BY <1>1 DEF Kinds
<1>4. Kinds(b) \subseteq Kinds(a \o b)
  <2> SUFFICES ASSUME NEW i \in DOMAIN b
               PROVE  b[i].kind \in Kinds(a \o b)
    BY DEF Kinds
  <2>1. /\ Len(a) + i \in DOMAIN (a \o b)
        /\ (a \o b)[Len(a) + i].kind = b[i].kind
    BY <1>1
  <2> QED
    BY <2>1 DEF Kinds
<1> QED
  BY <1>2, <1>3, <1>4

(* Nothing has no kind.                                                     *)
LEMMA KindsNone == Kinds(<<>>) = {}
BY DEF Kinds

(* A step tells one lifecycle event with its phase, or is quiet.            *)
LEMMA MachineTells ==
  ASSUME SMTypeOK, SafeInv, SMNext
  PROVE  \/ Told("Starting", {"TrackLoaded"})
         \/ Told("Playing", {"Started"})
         \/ Told("Paused", {"Paused"})
         \/ \E ending \in {"Finished", "Canceled", "Error"} :
              Told("Stopped", {ending})
         \/ Unheard
<1>1. Promise!Next /\ Announcement
  BY NextIsHandlerStep, SourceStep, AnnounceStep
     DEF SafeInv, Promise!SourceNext, Promise!Next
<1>2. \A kind : Emits(kind)' <=> kind \in Kinds(emitted')
  BY DEF Emits, Kinds
<1>3. Announced' = Lifecycles(emitted')
  BY <1>2 DEF Announced, Lifecycles
<1>4. CASE Promise!Load \/ Promise!Start \/ Promise!Pause \/ Promise!End
  BY <1>3, <1>4 DEF Promise!Load, Promise!Start, Promise!Pause,
     Promise!End, Promise!Ending, Told
<1>5. CASE Promise!Switch \/ Promise!Other
  <2>1. /\ Lifecycles(emitted') = {}
        /\ s'.phase = s.phase \/ s'.phase = "Starting"
    BY <1>3, <1>5 DEF Promise!Switch, Promise!Other
  <2>2. /\ ~Emits("TrackLoaded")' /\ ~Emits("Started")'
        /\ ~EmitsTerminal'
    BY <1>2, <2>1 DEF Lifecycles, LifecycleKind, EmitsTerminal
  <2> QED
    BY <1>1, <1>2, <2>1, <2>2 DEF Announcement, Unheard
<1> QED
  BY <1>1, <1>4, <1>5 DEF Promise!Next

-----------------------------------------------------------------------------
(* The idle inhibitor.  It may only disagree with the machine while the     *)
(* batch holds an event that will make it look.                             *)
InhibitInv ==
  \/ s.phase = "Starting"
  \/ inhibit = Level(s)
  \/ /\ worker \notin {"browser", "act"}
     /\ Kinds(events) \cap InhibitTriggers # {}

(* Every step keeps it; the inhibitor looks once a triggering event came.   *)
LEMMA InhibitStep == CoordInv /\ InhibitInv /\ [CoordNext]_vars => InhibitInv'
<1> SUFFICES ASSUME CoordInv, InhibitInv, [CoordNext]_vars
             PROVE  InhibitInv'
  OBVIOUS
<1> USE DEF InhibitInv, smVars
<1>1. CASE \/ \E p \in Producers : \E in \in Posted[p] : EnqueuePush(p, in)
           \/ \E p \in Producers : EnqueueSignal(p)
           \/ StopClear \/ StopSignal \/ StopJoin
  BY <1>1 DEF EnqueuePush, EnqueueSignal, StopClear, StopSignal, StopJoin,
              sinkVars
<1>2. CASE WorkerCheck \/ WorkerTake \/ WorkerWait \/ WorkerDrain
  BY <1>2 DEF WorkerCheck, WorkerTake, WorkerWait, WorkerDrain, WorkerAt,
              sinkVars
<1>3. CASE WorkerApply
  <2>1. SMTypeOK /\ SMNext /\ SafeInv
    <3>1. Head(batch) \in Input
      BY <1>3, BatchParts DEF WorkerApply, CoordInv, ApplyInv, CoordTypeOK
    <3> QED
      BY <1>3, <3>1 DEF WorkerApply, SMNext, CoordInv, CoordTypeOK
  <2>2. /\ worker = "apply" /\ worker' \in {"publish", "apply"}
        /\ inhibit' = inhibit
    BY <1>3 DEF WorkerApply, sinkVars
  <2>3. Kinds(events') = Kinds(events) \cup Kinds(emitted')
    <3>1. SMTypeOK'
      BY <2>1, TypeStep
    <3> QED
      BY <1>3, <3>1, KindsConcat DEF WorkerApply, CoordInv, CoordTypeOK, SMTypeOK
  <2>4. CASE Kinds(emitted') \cap InhibitTriggers # {}
    BY <2>2, <2>3, <2>4
  <2>5. CASE s'.phase = "Starting"
    BY <2>5
  <2>6. CASE Unheard /\ s'.media_type = s.media_type /\ s'.phase = s.phase
    <3>1. Level(s') = Level(s)
      BY <2>6 DEF Level
    <3> QED
      BY <2>2, <2>3, <2>6, <3>1
  <2> QED
    BY <2>1, <2>4, <2>5, <2>6, MachineTells
       DEF Told, Unheard, Lifecycles, InhibitTriggers
<1>4. CASE WorkerPublish
  BY <1>4 DEF WorkerPublish, WorkerAt, sinkVars
<1>5. CASE DeliverInhibit
  <2>1. snapshot = s
    BY <1>5 DEF DeliverInhibit, WorkerAt, CoordInv, SnapInv
  <2> QED
    BY <1>5, <2>1 DEF DeliverInhibit, WorkerAt
<1>6. CASE DeliverBrowser
  BY <1>6 DEF DeliverBrowser, WorkerAt
<1>7. CASE DeliverActions
  BY <1>7 DEF DeliverActions, WorkerAt, sinkVars
<1>8. CASE Terminated \/ UNCHANGED vars
  BY <1>8 DEF Terminated, vars, sinkVars
<1> QED
  BY <1>1, <1>2, <1>3, <1>4, <1>5, <1>6, <1>7, <1>8 DEF CoordNext, Worker

(* Between two iterations the idle inhibitor holds the level of what plays. *)
THEOREM InhibitCorrect == CoordSpec => []InhibitMatchesPlayback
<1>1. CoordInit => InhibitInv
  BY DEF CoordInit, SMInit, Fresh, InhibitInv, Level
<1>2. CoordInv /\ InhibitInv => InhibitMatchesPlayback
  BY KindsNone DEF CoordInv, SnapInv, InhibitInv, InhibitMatchesPlayback
<1> QED
  BY <1>1, <1>2, InhibitStep, CoordInvInit, CoordInvStep, PTL DEF CoordSpec

-----------------------------------------------------------------------------
(* The page.  In the middle of an iteration it is what the browser sink is  *)
(* about to say that agrees with the machine.                               *)
Heard(snap, u) ==
  /\ snap.phase = "Playing" => u = "playing"
  /\ snap.phase = "Paused" => u = "paused"
  /\ snap.phase = "Stopped" => u \notin {"playing", "paused"}
  /\ snap.variant_switch_pending => u = "paused"

ToHear == IF worker = "act" THEN ui ELSE Emission(events, s, ui)

MirrorInv == Heard(s, ToHear)

(* An empty batch says nothing new.                                         *)
LEMMA EmissionNothing == \A snap, u : Emission(<<>>, snap, u) = u
BY DEF Emission, Speaking

(* A snapshot matters to what is said by its variant flag alone.            *)
LEMMA EmissionOfVariant ==
  ASSUME NEW evs, NEW snap1, NEW snap2, NEW u,
         snap1.variant_switch_pending = snap2.variant_switch_pending
  PROVE  Emission(evs, snap1, u) = Emission(evs, snap2, u)
<1>1. \A kind : UiEmission(kind, snap1) = UiEmission(kind, snap2)
  BY DEF UiEmission
<1>2. Speaking(evs, snap1) = Speaking(evs, snap2)
  BY <1>1 DEF Speaking
<1>3. \A kind : SignalOf(kind, snap1) = SignalOf(kind, snap2)
  BY <1>1 DEF SignalOf
<1> QED
  BY <1>2, <1>3 DEF Emission

(* What a step of the machine makes the page hear.                          *)
LEMMA ApplyHeard ==
  ASSUME SMTypeOK, SafeInv, SMNext, NEW evs \in Seq(PlaybackEvent), NEW u,
         Heard(s, Emission(evs, s, u))
  PROVE  Heard(s', Emission(evs \o emitted', s', u))
<1> DEFINE said == Emission(evs \o emitted', s', u)
<1>1. /\ SMTypeOK' /\ SafeInv'
      /\ emitted' \in Seq(PlaybackEvent)
  BY TypeStep, InvStep DEF SMTypeOK
<1>2. s'.variant_switch_pending => s'.phase \in {"Starting", "Paused"}
  BY <1>1 DEF SafeInv, VariantFlagSpansLoad
<1>3. \A kind : UiEmission(kind, s') # {} => kind \in LifecycleKind
  BY DEF UiEmission, UiSignalOf, LifecycleKind
<1>4. ASSUME NEW kind \in LifecycleKind, Lifecycles(emitted') = {kind},
             UiEmission(kind, s') # {}
      PROVE  said \in UiEmission(kind, s')
  <2>1. kind \in Kinds(emitted')
    BY <1>4 DEF Lifecycles
  <2>2. \E k \in Kinds(emitted') : said \in UiEmission(k, s')
    BY <1>1, <1>4, <2>1, EmissionSpoken
  <2>3. PICK k \in Kinds(emitted') : said \in UiEmission(k, s')
    BY <2>2
  <2>4. k = kind
    BY <1>3, <1>4, <2>3 DEF Lifecycles
  <2> QED
    BY <2>3, <2>4
<1> HIDE DEF said
<1>5. CASE Told("Starting", {"TrackLoaded"})
  <2>1. CASE s'.variant_switch_pending
    <3>1. UiEmission("TrackLoaded", s') = {"paused"}
      BY <2>1 DEF UiEmission, UiSignalOf
    <3>2. said = "paused"
      BY <1>4, <1>5, <3>1 DEF Told, LifecycleKind
    <3> QED
      BY <1>5, <3>2 DEF Told, Heard, said
  <2>2. CASE ~s'.variant_switch_pending
    BY <1>5, <2>2 DEF Told, Heard
  <2> QED
    BY <2>1, <2>2
<1>6. CASE Told("Playing", {"Started"})
  <2>1. UiEmission("Started", s') = {"playing"}
    BY DEF UiEmission, UiSignalOf
  <2>2. said = "playing"
    BY <1>4, <1>6, <2>1 DEF Told, LifecycleKind
  <2> QED
    BY <1>2, <1>6, <2>2 DEF Told, Heard, said
<1>7. CASE Told("Paused", {"Paused"})
  <2>1. UiEmission("Paused", s') = {"paused"}
    BY DEF UiEmission, UiSignalOf
  <2>2. said = "paused"
    BY <1>4, <1>7, <2>1 DEF Told, LifecycleKind
  <2> QED
    BY <1>7, <2>2 DEF Told, Heard, said
<1>8. ASSUME NEW ending \in {"Finished", "Canceled", "Error"},
             Told("Stopped", {ending})
      PROVE  Heard(s', said)
  <2>1. UiEmission(ending, s') \subseteq {"finished", "canceled", "error"}
        /\ UiEmission(ending, s') # {}
    BY DEF UiEmission, UiSignalOf
  <2>2. said \in {"finished", "canceled", "error"}
    BY <1>4, <1>8, <2>1 DEF Told, LifecycleKind
  <2> QED
    BY <1>2, <1>8, <2>2 DEF Told, Heard
<1>9. CASE Unheard
  <2>1. \A kind \in Kinds(emitted') : UiEmission(kind, s') = {}
    BY <1>3, <1>9 DEF Unheard, Lifecycles
  <2>2. said = Emission(evs, s', u)
    BY <1>1, <2>1, EmissionSilent DEF said
  <2>3. said = Emission(evs, s, u)
    BY <1>9, <2>2, EmissionOfVariant DEF Unheard
  <2> QED
    BY <1>9, <2>3 DEF Unheard, Heard, said
<1> QED
  BY <1>5, <1>6, <1>7, <1>8, <1>9, MachineTells DEF said

(* Every step keeps it.                                                     *)
LEMMA MirrorStep == CoordInv /\ MirrorInv /\ [CoordNext]_vars => MirrorInv'
<1> SUFFICES ASSUME CoordInv, MirrorInv, [CoordNext]_vars
             PROVE  MirrorInv'
  OBVIOUS
<1> USE DEF MirrorInv, ToHear, smVars
<1>1. CASE \/ \E p \in Producers : \E in \in Posted[p] : EnqueuePush(p, in)
           \/ \E p \in Producers : EnqueueSignal(p)
           \/ StopClear \/ StopSignal \/ StopJoin
  BY <1>1 DEF EnqueuePush, EnqueueSignal, StopClear, StopSignal, StopJoin,
              sinkVars
<1>2. CASE WorkerCheck \/ WorkerTake \/ WorkerWait \/ WorkerDrain
  BY <1>2 DEF WorkerCheck, WorkerTake, WorkerWait, WorkerDrain, WorkerAt,
              sinkVars
<1>3. CASE WorkerApply
  <2>1. SMTypeOK /\ SMNext /\ SafeInv
    <3>1. Head(batch) \in Input
      BY <1>3, BatchParts DEF WorkerApply, CoordInv, ApplyInv, CoordTypeOK
    <3> QED
      BY <1>3, <3>1 DEF WorkerApply, SMNext, CoordInv, CoordTypeOK
  <2>2. /\ worker # "act" /\ worker' # "act"
        /\ events' = events \o emitted' /\ ui' = ui
        /\ events \in Seq(PlaybackEvent)
    BY <1>3 DEF WorkerApply, sinkVars, CoordInv, CoordTypeOK
  <2>3. Heard(s', Emission(events \o emitted', s', ui))
    BY <2>1, <2>2, ApplyHeard
  <2> QED
    BY <2>2, <2>3
<1>4. CASE WorkerPublish
  BY <1>4 DEF WorkerPublish, WorkerAt, sinkVars
<1>5. CASE DeliverInhibit
  BY <1>5 DEF DeliverInhibit, WorkerAt
<1>6. CASE DeliverBrowser
  <2>1. snapshot = s
    BY <1>6 DEF DeliverBrowser, WorkerAt, CoordInv, SnapInv
  <2>2. ui' = Emission(events, s, ui)
    BY <1>6, <2>1, LastEmissionParts DEF DeliverBrowser
  <2> QED
    BY <1>6, <2>2 DEF DeliverBrowser, WorkerAt
<1>7. CASE DeliverActions
  BY <1>7, EmissionNothing DEF DeliverActions, WorkerAt, sinkVars
<1>8. CASE Terminated \/ UNCHANGED vars
  BY <1>8 DEF Terminated, vars, sinkVars
<1> QED
  BY <1>1, <1>2, <1>3, <1>4, <1>5, <1>6, <1>7, <1>8 DEF CoordNext, Worker

(* Between two iterations the page was last told what the player does.      *)
THEOREM MirrorCorrect == CoordSpec => []BrowserMirrorsPhase
<1>1. CoordInit => MirrorInv
  <2> SUFFICES ASSUME CoordInit
               PROVE  MirrorInv
    OBVIOUS
  <2>1. worker # "act" /\ events = <<>> /\ ui = NoSignal
    BY DEF CoordInit
  <2>2. ToHear = NoSignal
    BY <2>1, EmissionNothing DEF ToHear
  <2>3. s.phase = "Stopped" /\ s.variant_switch_pending = FALSE
    BY DEF CoordInit, SMInit, Fresh
  <2> QED
    BY <2>2, <2>3 DEF MirrorInv, Heard, NoSignal
<1>2. CoordInv /\ MirrorInv => BrowserMirrorsPhase
  BY EmissionNothing
     DEF CoordInv, SnapInv, Between, MirrorInv, ToHear, Heard,
         BrowserMirrorsPhase
<1> QED
  BY <1>1, <1>2, MirrorStep, CoordInvInit, CoordInvStep, PTL DEF CoordSpec

(* Both sinks agree with the published playback.                            *)
THEOREM SinksCorrect == CoordSpec => []SinksAgree
BY InhibitCorrect, MirrorCorrect, PTL DEF SinksAgree

-----------------------------------------------------------------------------
(* A session whose page waits for a load to settle before the next.         *)

(* What the worker has not applied, in the order in which it will, but for  *)
(* what the page may post in between.                                       *)
Stream == inputq \o evq
Has(q, op) == \E i \in 1..Len(q) : q[i].op = op
Tells(x, op) == x.in.op = op
IsFile(x) == Tells(x, "FileLoaded") \/ Tells(x, "EndFile")

(* Where the tracks of the last load are between FILE_LOADED and mpv.       *)
Loaded == \E i \in 1..Len(Stream) : Tells(Stream[i], "FileLoaded")
Selecting == Has(cmds, "select")
Working == Loaded \/ todo # <<>> \/ taken # None \/ Selecting

(* The last load is still to be opened by mpv.                              *)
Asked == cef # "idle" \/ next # None \/ Has(cmds, "loadfile")
Kept == pending = [valid |-> TRUE, load |-> loads]

CmdInv ==
  /\ \A i \in 1..Len(cmds) :
       /\ cmds[i].op = "loadfile" => i = 1 /\ cmds[i].load = loads
       /\ cmds[i].op = "select" =>
            /\ cmds[i].load = loads
            /\ \E j \in 1..Len(cmds) : j > i /\ cmds[j].op = "unpause"
  /\ \A i, j \in 1..Len(cmds) : cmds[i].op = "select" /\ cmds[j].op = "select" => i = j

AskedInv ==
  /\ Asked => /\ ~Working /\ playing # loads /\ loads # None
              /\ playing # None => tracks = playing
  /\ cef # "idle" => cmds = <<>> /\ next = None
  /\ next # None => next = loads /\ ~Has(cmds, "loadfile")
  /\ cef = "stashed" \/ next # None \/ Has(cmds, "loadfile") => Kept

WorkingInv ==
  /\ Working => tracks = None /\ playing \in {None, loads} /\ loads # None
  /\ Loaded => todo = <<>> /\ taken = None /\ ~Selecting /\ Kept
  /\ todo # <<>> => Len(todo) = 1 /\ taken = None /\ ~Selecting /\ Kept
  /\ taken # None => taken = loads /\ ~Selecting

FileInv ==
  /\ playing # None /\ ~opened => /\ playing = loads /\ ~Working
                                  /\ tracks = None /\ Kept
  /\ opened => playing # None /\ (tracks = playing \/ Working)
  /\ tracks # None => opened /\ tracks = playing
  /\ playing # None /\ playing # loads => tracks = playing
  /\ playing <= loads
  /\ opened /\ paused => Loaded \/ todo # <<>> \/ taken # None \/ Has(cmds, "unpause")

OrderInv ==
  \A i, j \in 1..Len(Stream) :
    i < j /\ IsFile(Stream[i]) /\ IsFile(Stream[j]) =>
      /\ Tells(Stream[j], "EndFile") => Stream[j].load = loads
      /\ Tells(Stream[i], "FileLoaded") => Tells(Stream[j], "EndFile") /\ playing = None
      /\ Tells(Stream[i], "EndFile") /\ Tells(Stream[j], "EndFile") =>
           Stream[i].load # Stream[j].load

EventInv ==
  \A i \in 1..Len(Stream) :
    IsFile(Stream[i]) =>
      /\ Stream[i].load \in 1..loads
      /\ Tells(Stream[i], "FileLoaded") => Stream[i].load = loads
      /\ Tells(Stream[i], "EndFile") =>
           Stream[i].load # playing /\ (Asked => Stream[i].load # loads)

PresentInv ==
  opened /\ ~Loaded =>
    /\ s.presence = "Present"
    /\ \A i \in 1..Len(Stream) : ~IsFile(Stream[i])

Starts(load) == \E i \in 1..Len(inputq) : Tells(inputq[i], "LoadStarting") /\ inputq[i].load = load

Replaced(load) ==
  /\ load < loads
  /\ \/ playing = load /\ load # None
     \/ \E i \in 1..Len(Stream) : Tells(Stream[i], "EndFile") /\ Stream[i].load = load

SwitchInv ==
  \A old \in 1..loads : Replaced(old) =>
    \A new \in 1..loads : old < new => pending_load \/ Starts(new)

SessionInv ==
  /\ CmdInv /\ AskedInv /\ WorkingInv /\ FileInv
  /\ OrderInv /\ EventInv /\ PresentInv /\ SwitchInv
-----------------------------------------------------------------------------
(* Player session: types.                                                   *)

SentInput == [in : Input, load : Nat]
MpvCommandType == [op : {"loadfile", "stop", "select", "unpause"}, load : Nat]

SessionTypes ==
  /\ SMTypeOK
  /\ loads \in 0..MaxLoads /\ stops \in 0..MaxStops
  /\ cef \in {"idle", "started", "seeded", "announced", "stashed"}
  /\ pending \in [valid : BOOLEAN, load : Nat]
  /\ inputq \in Seq(SentInput) /\ evq \in Seq(SentInput)
  /\ todo \in Seq(PlaybackAction)
  /\ cmds \in Seq(MpvCommandType)
  /\ taken \in Nat /\ next \in Nat /\ tracks \in Nat
  /\ playing \in Nat
  /\ opened \in BOOLEAN /\ paused \in BOOLEAN /\ reported \in BOOLEAN

(* What an input does to the machine, as far as the session tells it apart. *)
LEMMA MachineDoes ==
  ASSUME SMTypeOK, NEW in \in Input, Apply(in)
  PROVE  /\ SMTypeOK'
         /\ pending_actions' = IF in.op = "FileLoaded"
                               THEN <<"ApplyPendingTrackSelectionAndPlay">> ELSE <<>>
         /\ in.op = "LoadStarting" => pending_load'
         /\ in.op \notin {"LoadStarting", "EndFile", "FileLoaded"} => pending_load' = pending_load
         /\ in.op = "FileLoaded" => s'.presence = "Present"
         /\ in.op # "EndFile" /\ s.presence = "Present" => s'.presence = "Present"
<1>1. SMTypeOK'
  BY TypeStep DEF SMNext
<1> USE DEF NoAction, Ignored, TransitionToPlaying, private
<1>2. s \in PlaybackSnapshot
  BY DEF SMTypeOK
<1>3. CASE in.op = "FileLoaded" /\ OnFileLoaded
  BY <1>1, <1>2, <1>3 DEF OnFileLoaded, PlaybackSnapshot
<1>4. CASE in.op = "LoadStarting" /\ OnLoadStarting(in.id)
  BY <1>1, <1>2, <1>4 DEF OnLoadStarting, PlaybackSnapshot
<1>5. CASE in.op = "PauseChanged" /\ OnPauseChanged(in.flag)
  BY <1>1, <1>2, <1>5 DEF OnPauseChanged, Pausing, Unpausing, PlaybackSnapshot
<1>6. CASE in.op = "EndFile" /\ OnEndFile(in.reason)
  BY <1>1, <1>6 DEF OnEndFile
<1>7. CASE in.op = "SeekingChanged" /\ OnSeekingChanged(in.flag)
  BY <1>1, <1>2, <1>7 DEF OnSeekingChanged, PlaybackSnapshot
<1>8. CASE in.op = "PausedForCache" /\ OnPausedForCache(in.flag)
  BY <1>1, <1>2, <1>8 DEF OnPausedForCache, ApplyBufferingChange, PlaybackSnapshot
<1>9. CASE in.op = "CoreIdle" /\ OnCoreIdle(in.flag)
  BY <1>1, <1>2, <1>9 DEF OnCoreIdle, ApplyBufferingChange, PlaybackSnapshot
<1>10. ASSUME in.op \in {"Position", "Seeked"}, NEW more, OnPosition(in.position, more)
       PROVE  s'.presence = s.presence /\ pending_load' = pending_load /\ pending_actions' = <<>>
  BY <1>2, <1>10 DEF OnPosition, PlaybackSnapshot
<1>11. ASSUME in.op \in {"MediaType", "Metadata"}, NEW more, OnMediaType(in.type, more)
       PROVE  s'.presence = s.presence /\ pending_load' = pending_load /\ pending_actions' = <<>>
  BY <1>2, <1>11 DEF OnMediaType, PlaybackSnapshot
<1>12. CASE in.op = "VideoFrameAvailable" /\ OnVideoFrameAvailable(in.flag)
  BY <1>1, <1>2, <1>12 DEF OnVideoFrameAvailable, PlaybackSnapshot
<1>13. CASE in.op = "Fullscreen" /\ OnFullscreen(in.flag, in.was_maximized)
  BY <1>1, <1>2, <1>13 DEF OnFullscreen, PlaybackSnapshot
<1>14. CASE in.op = "Setting" /\ OnSetting(in.setting, in.value)
  BY <1>1, <1>2, <1>14 DEF OnSetting, PlaybackSnapshot
<1>15. CASE \/ in.op = "Artwork" /\ PassThrough("ArtworkChanged")
            \/ in.op = "QueueCaps" /\ PassThrough("QueueCapsChanged")
  BY <1>1, <1>15 DEF PassThrough
<1>16. CASE in.op = "Position" /\ OnPosition(in.position, <<>>)
  BY <1>1, <1>10, <1>16
<1>17. CASE in.op = "Seeked" /\ OnPosition(in.position, <<Event("Seeked")>>)
  BY <1>1, <1>10, <1>17
<1>18. CASE in.op = "MediaType" /\ OnMediaType(in.type, <<>>)
  BY <1>1, <1>11, <1>18
<1>19. CASE in.op = "Metadata" /\ OnMediaType(in.type, <<Event("MetadataChanged")>>)
  BY <1>1, <1>11, <1>19
<1> QED
  BY <1>3, <1>4, <1>5, <1>6, <1>7, <1>8, <1>9, <1>12, <1>13, <1>14, <1>15, <1>16, <1>17,
     <1>18, <1>19 DEF Apply

(* The end of a track while a load is pending is not told.                  *)
LEMMA EndSwallowed ==
  ASSUME SMTypeOK, NEW reason \in {"Eof", "Canceled"}, pending_load, OnEndFile(reason)
  PROVE  ~EmitsTerminal'
<1>1. emitted' = If(s.seeking, FlagEvent("SeekingChanged", FALSE))
                 \o If(s.buffering, FlagEvent("BufferingChanged", FALSE))
  BY DEF OnEndFile, Swallows
<1> DEFINE a == If(s.seeking, FlagEvent("SeekingChanged", FALSE))
           b == If(s.buffering, FlagEvent("BufferingChanged", FALSE))
<1>2. a \in Seq(PlaybackEvent) /\ b \in Seq(PlaybackEvent)
  <2>1. s.seeking \in BOOLEAN /\ s.buffering \in BOOLEAN
    BY DEF SMTypeOK, PlaybackSnapshot
  <2>2. /\ FlagEvent("SeekingChanged", FALSE) \in PlaybackEvent
        /\ FlagEvent("BufferingChanged", FALSE) \in PlaybackEvent
    BY EventType DEF EventKind
  <2> QED
    BY <2>1, <2>2, IfType
<1>3. /\ \A i \in 1..Len(a) : a[i].kind = "SeekingChanged"
      /\ \A i \in 1..Len(b) : b[i].kind = "BufferingChanged"
  BY DEF If, FlagEvent
<1> HIDE DEF a, b
<1>4. \A i \in 1..Len(a \o b) : (a \o b)[i].kind \in {"SeekingChanged", "BufferingChanged"}
  <2>1. SUFFICES ASSUME NEW i \in 1..Len(a \o b)
                 PROVE  (a \o b)[i].kind \in {"SeekingChanged", "BufferingChanged"}
    OBVIOUS
  <2>2. \/ i \in 1..Len(a) /\ (a \o b)[i] = a[i]
        \/ i - Len(a) \in 1..Len(b) /\ (a \o b)[i] = b[i - Len(a)]
    BY <1>2
  <2> QED
    BY <1>3, <2>2
<1>5. emitted' = a \o b /\ DOMAIN emitted' = 1..Len(a \o b)
  BY <1>1, <1>2 DEF a, b
<1> QED
  BY <1>4, <1>5 DEF EmitsTerminal, Emits

(* The inputs the session's threads post are inputs.                        *)
LEMMA InputsAre ==
  ASSUME NEW load \in Nat
  PROVE  /\ \A id \in Items \cup {NoItem} : Sent([op |-> "LoadStarting", id |-> id], load) \in SentInput
         /\ Sent([op |-> "Position", position |-> 0], load) \in SentInput
         /\ Sent([op |-> "Metadata", type |-> "Audio"], load) \in SentInput
         /\ \A flag \in BOOLEAN : Sent([op |-> "PauseChanged", flag |-> flag], load) \in SentInput
         /\ FileEvent("FileLoaded", load) \in SentInput
         /\ \A reason \in EndReason : EndEvent(reason, load) \in SentInput
<1>1. ASSUME NEW in \in Input PROVE Sent(in, load) \in SentInput
  BY <1>1 DEF Sent, SentInput
<1>2. ASSUME NEW id \in Items \cup {NoItem} PROVE [op |-> "LoadStarting", id |-> id] \in Input
  BY <1>2 DEF Input
<1>3. [op |-> "Position", position |-> 0] \in Input
  BY PositionsAssumption DEF Input
<1>4. [op |-> "Metadata", type |-> "Audio"] \in Input
  BY DEF Input, MediaType
<1>5. ASSUME NEW flag \in BOOLEAN PROVE [op |-> "PauseChanged", flag |-> flag] \in Input
  BY <1>5 DEF Input
<1>6. [op |-> "FileLoaded"] \in Input
  BY DEF Input
<1>7. ASSUME NEW reason \in EndReason PROVE [op |-> "EndFile", reason |-> reason] \in Input
  BY <1>7 DEF Input
<1> QED
  BY <1>1, <1>2, <1>3, <1>4, <1>5, <1>6, <1>7 DEF FileEvent, EndEvent

(* Queues that grow or lose their head.                                     *)
LEMMA QueueTypes ==
  ASSUME NEW S, NEW q \in Seq(S)
  PROVE  /\ \A e \in S : Append(q, e) \in Seq(S)
         /\ q # <<>> => Head(q) \in S /\ Tail(q) \in Seq(S) /\ Len(Tail(q)) = Len(q) - 1
         /\ \A p \in Seq(S) : q \o p \in Seq(S)
OBVIOUS

(* Every step keeps the types.                                              *)
LEMMA SessionTypesStep == SessionTypes /\ [SessionNext]_sessionVars => SessionTypes'
<1> SUFFICES ASSUME SessionTypes, [SessionNext]_sessionVars
             PROVE  SessionTypes'
  OBVIOUS
<1> USE DEF SessionTypes
<1>0. MaxLoads \in Nat /\ MaxStops \in Nat
  BY BoundsAssumption
<1>1. ASSUME NEW id \in Items \cup {NoItem}, PlayerLoad(id) PROVE SessionTypes'
  <2>1. loads' \in 0..MaxLoads /\ playing' \in Nat
    BY <1>0, <1>1 DEF PlayerLoad, mpvVars
  <2>2. inputq' \in Seq(SentInput)
    BY <1>1, <2>1, InputsAre, QueueTypes DEF PlayerLoad
  <2> QED
    BY <1>1, <2>1, <2>2 DEF PlayerLoad, mpvVars, smVars, private, SMTypeOK
<1>2. CASE PlayerStop
  BY <1>0, <1>2 DEF PlayerStop, Command, MpvCommandType, None, mpvVars, smVars, private, SMTypeOK
<1>3. ASSUME NEW from, NEW to \in {"idle", "seeded", "announced"}, NEW inputs \in Seq(SentInput), Post(from, to, inputs)
      PROVE  SessionTypes'
  BY <1>3, QueueTypes DEF Post, mpvVars, smVars, private, SMTypeOK
<1>4. CASE PostPosition \/ PostMetadata \/ RejectUrl
  <2>1. /\ <<Sent([op |-> "Position", position |-> 0], loads)>> \in Seq(SentInput)
        /\ <<Sent([op |-> "Metadata", type |-> "Audio"], loads)>> \in Seq(SentInput)
        /\ <<>> \in Seq(SentInput)
    BY <1>0, InputsAre, SMTT(30)
  <2> QED
    BY <1>3, <1>4, <2>1 DEF PostPosition, PostMetadata, RejectUrl
<1>5. CASE StashTracks
  BY <1>0, <1>5 DEF StashTracks, Stashed, mpvVars, smVars, private, SMTypeOK
<1>6. CASE SendLoadfile
  <2>1. Command("loadfile", loads) \in MpvCommandType
    BY <1>0 DEF Command, MpvCommandType
  <2> QED
    BY <1>6, <2>1, QueueTypes DEF SendLoadfile, mpvVars, smVars, private, SMTypeOK
<1>7. CASE ApplyNext
  <2>0. Head(inputq) \in SentInput /\ inputq' \in Seq(SentInput)
    BY <1>7, QueueTypes DEF ApplyNext
  <2>1. Head(inputq).in \in Input /\ inputq' \in Seq(SentInput)
    BY <2>0 DEF SentInput
  <2>2. SMTypeOK'
    BY <1>7, <2>1, MachineDoes DEF ApplyNext
  <2>3. todo' \in Seq(PlaybackAction)
    BY <1>7, <2>2, QueueTypes DEF ApplyNext, SMTypeOK
  <2> QED
    BY <1>7, <2>1, <2>2, <2>3 DEF ApplyNext, mpvVars, pageVars
<1>8. CASE TakeTracks
  <2>1. todo' \in Seq(PlaybackAction) /\ taken' \in Nat /\ pending' \in [valid : BOOLEAN, load : Nat]
    BY <1>8, QueueTypes DEF TakeTracks, None
  <2> QED
    BY <1>8, <2>1 DEF TakeTracks, mpvVars, pageVars, smVars, private, SMTypeOK
<1>9. CASE WriteTracks
  <2>1. <<Command("select", taken), Command("unpause", taken)>> \in Seq(MpvCommandType)
    BY DEF Command, MpvCommandType
  <2> QED
    BY <1>9, <2>1, QueueTypes DEF WriteTracks, None, mpvVars, pageVars, smVars, private, SMTypeOK
<1>10. CASE MpvCommand
  <2>1. /\ cmds' \in Seq(MpvCommandType) /\ Head(cmds) \in MpvCommandType
    BY <1>10, QueueTypes DEF MpvCommand
  <2>2. evq' = evq \/ evq' = Append(evq, EndEvent("Canceled", playing))
    BY <1>10 DEF MpvCommand, MpvEnd
  <2>3. EndEvent("Canceled", playing) \in SentInput
    BY InputsAre DEF EndReason
  <2>4. evq' \in Seq(SentInput)
    <3>1. evq \in Seq(SentInput)
      OBVIOUS
    <3>2. Append(evq, EndEvent("Canceled", playing)) \in Seq(SentInput)
      BY <2>3, <3>1, QueueTypes
    <3> QED
      BY <2>2, <3>1, <3>2
  <2>5. Head(cmds).load \in Nat
    BY <2>1 DEF MpvCommandType
  <2>6. next' \in Nat /\ tracks' \in Nat /\ playing' \in Nat /\ opened' \in BOOLEAN /\ paused' \in BOOLEAN
    <3>1. CASE Head(cmds).op = "stop"
      <4>1. CASE playing = None
        <5>1. next' = 0 /\ UNCHANGED <<playing, opened, tracks, paused>>
          BY <1>10, <3>1, <4>1 DEF MpvCommand, None
        <5> QED
          BY <5>1
      <4>2. CASE playing # None
        <5>1. next' = 0 /\ playing' = 0 /\ opened' = FALSE /\ tracks' = 0 /\ paused' = FALSE
          BY <1>10, <3>1, <4>2 DEF MpvCommand, MpvEnd, None
        <5> QED
          BY <5>1
      <4> QED
        BY <4>1, <4>2
    <3>2. CASE Head(cmds).op # "stop"
      BY <1>10, <2>5, <3>2 DEF MpvCommand
    <3> QED
      BY <3>1, <3>2
  <2> QED
    BY <1>10, <2>1, <2>4, <2>6 DEF MpvCommand, pageVars, smVars, private, SMTypeOK
<1>11. CASE MpvSwitch
  <2>1. EndEvent("Canceled", playing) \in SentInput
    BY InputsAre DEF EndReason
  <2>2. evq' \in Seq(SentInput)
    BY <1>11, <2>1, QueueTypes DEF MpvSwitch
  <2> QED
    BY <1>11, <2>2, ZenonT(60) DEF MpvSwitch, None, pageVars, smVars, private, SMTypeOK
<1>12. CASE MpvOpened \/ MpvFailed \/ MpvFinished
  <2>1. /\ \A reason \in EndReason : EndEvent(reason, playing) \in SentInput
        /\ FileEvent("FileLoaded", playing) \in SentInput
    BY InputsAre
  <2>2. \/ \E reason \in EndReason : evq' = Append(evq, EndEvent(reason, playing))
        \/ evq' = Append(evq, FileEvent("FileLoaded", playing))
    BY <1>12 DEF MpvOpened, MpvFailed, MpvFinished, MpvEnd, EndReason
  <2>3. evq' \in Seq(SentInput)
    <3>1. evq \in Seq(SentInput)
      OBVIOUS
    <3>2. \A e \in SentInput : Append(evq, e) \in Seq(SentInput)
      BY <3>1, QueueTypes
    <3> QED
      BY <2>1, <2>2, <3>2
  <2>4. CASE MpvOpened
    BY <2>3, <2>4 DEF MpvOpened, pageVars, smVars, private, SMTypeOK
  <2>5. CASE MpvFailed \/ MpvFinished
    <3>1. playing' = 0 /\ opened' = FALSE /\ tracks' = 0 /\ paused' = FALSE
      BY <2>5 DEF MpvFailed, MpvFinished, MpvEnd, None
    <3> QED
      BY <3>1, <2>3, <2>5, ZenonT(60) DEF MpvFailed, MpvFinished, MpvEnd, None, pageVars, smVars, private, SMTypeOK
  <2> QED
    BY <1>12, <2>4, <2>5
<1>13. CASE DeliverEvent
  BY <1>13, QueueTypes DEF DeliverEvent, mpvVars, pageVars, smVars, private, SMTypeOK
<1>14. CASE ReportPause
  <2>1. inputq' \in Seq(SentInput)
    <3>1. Sent([op |-> "PauseChanged", flag |-> paused], playing) \in SentInput
      BY InputsAre
    <3> QED
      BY <1>14, <3>1, QueueTypes DEF ReportPause
  <2> QED
    BY <1>14, <2>1 DEF ReportPause, mpvVars, pageVars, smVars, private, SMTypeOK
<1>15. CASE UNCHANGED sessionVars
  BY <1>15 DEF sessionVars, mpvVars, pageVars, smVars, private, SMTypeOK
<1> QED
  BY <1>1, <1>2, <1>4, <1>5, <1>6, <1>7, <1>8, <1>9, <1>10, <1>11, <1>12, <1>13, <1>14, <1>15
     DEF SessionNext, Threads

-----------------------------------------------------------------------------
(* The stream of inputs: what happens to the files it tells of.             *)

(* The parts of a stream.                                                   *)
Joined(q, p) ==
  /\ q \o p \in Seq(SentInput) /\ Len(q \o p) = Len(q) + Len(p)
  /\ Len(q) \in Nat /\ Len(p) \in Nat
  /\ \A i \in 1..Len(q) : (q \o p)[i] = q[i]
  /\ \A i \in 1..Len(p) : (q \o p)[Len(q) + i] = p[i]

LEMMA StreamParts ==
  ASSUME NEW q \in Seq(SentInput), NEW p \in Seq(SentInput)
  PROVE  Joined(q, p)
BY DEF Joined

(* The file events of q are among those of p, in their order.               *)
Within(q, p) ==
  /\ \A i \in 1..Len(q) : IsFile(q[i]) => \E k \in 1..Len(p) : p[k] = q[i]
  /\ \A i, j \in 1..Len(q) : i < j /\ IsFile(q[i]) /\ IsFile(q[j]) =>
       \E k, m \in 1..Len(p) : k < m /\ p[k] = q[i] /\ p[m] = q[j]

(* A stream whose file events are found at places that keep their order.    *)
LEMMA WithinBy ==
  ASSUME NEW q \in Seq(SentInput), NEW p \in Seq(SentInput), NEW f,
         \A i \in 1..Len(q) : IsFile(q[i]) => f[i] \in 1..Len(p) /\ p[f[i]] = q[i],
         \A i, j \in 1..Len(q) : i < j /\ IsFile(q[i]) /\ IsFile(q[j]) => f[i] < f[j]
  PROVE  Within(q, p)
BY DEF Within

(* An input that tells of no file, posted in the middle.                    *)
LEMMA PostedWithin ==
  ASSUME NEW q \in Seq(SentInput), NEW p \in Seq(SentInput), NEW x \in SentInput, ~IsFile(x)
  PROVE  /\ Within(Append(q, x) \o p, q \o p)
         /\ Within(q \o p, Append(q, x) \o p)
<1> DEFINE a == Append(q, x)
<1>1. a \in Seq(SentInput) /\ Len(a) = Len(q) + 1 /\ a[Len(q) + 1] = x
      /\ \A i \in 1..Len(q) : a[i] = q[i]
  OBVIOUS
<1> HIDE DEF a
<1>0. Joined(q, p) /\ Joined(a, p)
  BY <1>1, StreamParts
<1>2. /\ Len(q) \in Nat /\ Len(p) \in Nat
      /\ q \o p \in Seq(SentInput) /\ Len(q \o p) = Len(q) + Len(p)
      /\ a \o p \in Seq(SentInput) /\ Len(a \o p) = Len(q) + 1 + Len(p)
  BY <1>0, <1>1 DEF Joined
<1>3. \A i \in 1..Len(q) : (a \o p)[i] = q[i] /\ (q \o p)[i] = q[i]
  BY <1>0, <1>1 DEF Joined
<1>4. \A i \in 1..Len(p) : (a \o p)[Len(q) + 1 + i] = p[i] /\ (q \o p)[Len(q) + i] = p[i]
  BY <1>0, <1>1 DEF Joined
<1>5. (a \o p)[Len(q) + 1] = x
  <2>1. Len(q) + 1 \in 1..Len(a)
    BY <1>1, <1>2
  <2> QED
    BY <1>0, <1>1, <2>1 DEF Joined
<1>6. \A i \in 1..Len(a \o p) : i > Len(q) + 1 => (a \o p)[i] = (q \o p)[i - 1]
  <2>1. ASSUME NEW i \in 1..Len(a \o p), i > Len(q) + 1 PROVE (a \o p)[i] = (q \o p)[i - 1]
    <3>1. /\ i - Len(q) - 1 \in 1..Len(p)
          /\ Len(q) + 1 + (i - Len(q) - 1) = i /\ Len(q) + (i - Len(q) - 1) = i - 1
      BY <1>2, <2>1
    <3> QED
      BY <1>4, <3>1
  <2> QED
    BY <2>1
<1>7. \A i \in 1..Len(q \o p) : i > Len(q) => (q \o p)[i] = (a \o p)[i + 1]
  <2>1. ASSUME NEW i \in 1..Len(q \o p), i > Len(q) PROVE (q \o p)[i] = (a \o p)[i + 1]
    <3>1. i + 1 \in 1..Len(a \o p) /\ i + 1 > Len(q) + 1 /\ (i + 1) - 1 = i
      BY <1>2, <2>1
    <3> QED
      BY <1>6, <3>1
  <2> QED
    BY <2>1
<1>8. Within(a \o p, q \o p)
  <2> DEFINE f == [i \in 1..Len(a \o p) |-> IF i <= Len(q) THEN i ELSE i - 1]
  <2>1. \A i \in 1..Len(a \o p) : IsFile((a \o p)[i]) =>
          f[i] \in 1..Len(q \o p) /\ (q \o p)[f[i]] = (a \o p)[i]
    <3> SUFFICES ASSUME NEW i \in 1..Len(a \o p), IsFile((a \o p)[i])
                 PROVE  f[i] \in 1..Len(q \o p) /\ (q \o p)[f[i]] = (a \o p)[i]
      OBVIOUS
    <3>1. CASE i <= Len(q)
      BY <1>2, <1>3, <3>1
    <3>2. CASE i = Len(q) + 1
      BY <1>5, <3>2
    <3>3. CASE i > Len(q) + 1
      BY <1>2, <1>6, <3>3
    <3> QED
      BY <1>2, <3>1, <3>2, <3>3
  <2>2. \A i, j \in 1..Len(a \o p) :
          i < j /\ IsFile((a \o p)[i]) /\ IsFile((a \o p)[j]) => f[i] < f[j]
    <3> SUFFICES ASSUME NEW i \in 1..Len(a \o p), NEW j \in 1..Len(a \o p), i < j,
                        IsFile((a \o p)[j]), IsFile((a \o p)[i])
                 PROVE  f[i] < f[j]
      OBVIOUS
    <3>1. j # Len(q) + 1 /\ i # Len(q) + 1
      BY <1>5
    <3> QED
      BY <1>2, <3>1
  <2> HIDE DEF f
  <2> QED
    BY <1>2, <2>1, <2>2, WithinBy
<1>9. Within(q \o p, a \o p)
  <2> DEFINE f == [i \in 1..Len(q \o p) |-> IF i <= Len(q) THEN i ELSE i + 1]
  <2>1. \A i \in 1..Len(q \o p) : f[i] \in 1..Len(a \o p) /\ (a \o p)[f[i]] = (q \o p)[i]
    <3> SUFFICES ASSUME NEW i \in 1..Len(q \o p)
                 PROVE  f[i] \in 1..Len(a \o p) /\ (a \o p)[f[i]] = (q \o p)[i]
      OBVIOUS
    <3>1. CASE i <= Len(q)
      BY <1>2, <1>3, <3>1
    <3>2. CASE i > Len(q)
      BY <1>2, <1>7, <3>2
    <3> QED
      BY <1>2, <3>1, <3>2
  <2>2. \A i, j \in 1..Len(q \o p) : i < j => f[i] < f[j]
    BY <1>2
  <2> HIDE DEF f
  <2> QED
    BY <1>2, <2>1, <2>2, WithinBy
<1> QED
  BY <1>8, <1>9 DEF a

(* The delivery of an event changes nothing.                                *)
LEMMA DeliveredWithin ==
  ASSUME NEW q \in Seq(SentInput), NEW p \in Seq(SentInput), p # <<>>
  PROVE  /\ Within(Append(q, Head(p)) \o Tail(p), q \o p)
         /\ Within(q \o p, Append(q, Head(p)) \o Tail(p))
<1> DEFINE a == Append(q, Head(p))
           b == Tail(p)
<1>1. /\ Head(p) = p[1] /\ Len(p) \in Nat /\ Len(p) > 0 /\ Len(q) \in Nat /\ Head(p) \in SentInput
      /\ b \in Seq(SentInput) /\ Len(b) = Len(p) - 1 /\ \A i \in 1..Len(b) : b[i] = p[i + 1]
  OBVIOUS
<1>2. /\ a \in Seq(SentInput) /\ Len(a) = Len(q) + 1 /\ a[Len(q) + 1] = p[1]
      /\ \A i \in 1..Len(q) : a[i] = q[i]
  BY <1>1
<1> HIDE DEF a, b
<1>0. Joined(q, p) /\ Joined(a, b)
  BY <1>1, <1>2, StreamParts
<1>3. /\ q \o p \in Seq(SentInput) /\ Len(q \o p) = Len(q) + Len(p)
      /\ a \o b \in Seq(SentInput) /\ Len(a \o b) = Len(q) + Len(p)
  BY <1>0, <1>1, <1>2 DEF Joined
<1>4. ASSUME NEW i \in 1..Len(q \o p) PROVE (a \o b)[i] = (q \o p)[i]
  <2>1. CASE i <= Len(q)
    <3>1. i \in 1..Len(q) /\ i \in 1..Len(a)
      BY <1>1, <1>2, <1>3, <2>1
    <3> QED
      BY <1>0, <1>1, <1>2, <3>1 DEF Joined
  <2>2. CASE i = Len(q) + 1
    <3>1. 1 \in 1..Len(p) /\ i \in 1..Len(a) /\ i = Len(q) + 1
      BY <1>1, <1>2, <2>2
    <3> QED
      BY <1>0, <1>1, <1>2, <3>1 DEF Joined
  <2>3. CASE i > Len(q) + 1
    <3>1. /\ i - Len(q) - 1 \in 1..Len(b) /\ i - Len(q) \in 1..Len(p)
          /\ Len(a) + (i - Len(q) - 1) = i /\ Len(q) + (i - Len(q)) = i
          /\ (i - Len(q) - 1) + 1 = i - Len(q)
      BY <1>1, <1>2, <1>3, <2>3
    <3>2. (a \o b)[i] = b[i - Len(q) - 1]
      BY <1>0, <1>1, <1>2, <3>1 DEF Joined
    <3>3. (q \o p)[i] = p[i - Len(q)]
      BY <1>0, <3>1 DEF Joined
    <3> QED
      BY <1>1, <3>1, <3>2, <3>3
  <2> QED
    BY <1>1, <1>3, <2>1, <2>2, <2>3
<1>5. Within(a \o b, q \o p) /\ Within(q \o p, a \o b)
  BY <1>3, <1>4 DEF Within
<1> QED
  BY <1>5 DEF a, b

(* The first input applied.                                                 *)
LEMMA AppliedWithin ==
  ASSUME NEW q \in Seq(SentInput), NEW p \in Seq(SentInput), q # <<>>
  PROVE  /\ Within(Tail(q) \o p, q \o p)
         /\ ~IsFile(Head(q)) => Within(q \o p, Tail(q) \o p)
         /\ 1 \in 1..Len(q \o p) /\ (q \o p)[1] = Head(q)
         /\ Len(q \o p) \in Nat /\ Len(Tail(q) \o p) = Len(q \o p) - 1
         /\ \A i \in 1..Len(Tail(q) \o p) :
              i + 1 \in 1..Len(q \o p) /\ (q \o p)[i + 1] = (Tail(q) \o p)[i]
<1> DEFINE t == Tail(q)
<1>1. /\ Head(q) = q[1] /\ Len(q) \in Nat /\ Len(q) > 0 /\ Len(p) \in Nat
      /\ t \in Seq(SentInput) /\ Len(t) = Len(q) - 1 /\ \A i \in 1..Len(t) : t[i] = q[i + 1]
  OBVIOUS
<1> HIDE DEF t
<1>0. Joined(q, p) /\ Joined(t, p)
  BY <1>1, StreamParts
<1>2. /\ q \o p \in Seq(SentInput) /\ Len(q \o p) = Len(q) + Len(p)
      /\ t \o p \in Seq(SentInput) /\ Len(t \o p) = Len(q) - 1 + Len(p)
  BY <1>0, <1>1 DEF Joined
<1>3. ASSUME NEW i \in 1..Len(t \o p)
      PROVE  i + 1 \in 1..Len(q \o p) /\ (q \o p)[i + 1] = (t \o p)[i]
  <2>1. i + 1 \in 1..Len(q \o p)
    BY <1>1, <1>2
  <2>2. CASE i <= Len(t)
    <3>1. i \in 1..Len(t) /\ i + 1 \in 1..Len(q)
      BY <1>1, <1>2, <2>2
    <3> QED
      BY <1>0, <1>1, <2>1, <3>1 DEF Joined
  <2>3. CASE i > Len(t)
    <3>1. i - Len(t) \in 1..Len(p) /\ Len(t) + (i - Len(t)) = i /\ Len(q) + (i - Len(t)) = i + 1
      BY <1>1, <1>2, <2>3
    <3>2. (t \o p)[i] = p[i - Len(t)]
      BY <1>0, <1>1, <3>1 DEF Joined
    <3>3. (q \o p)[i + 1] = p[i - Len(t)]
      BY <1>0, <3>1 DEF Joined
    <3> QED
      BY <2>1, <3>2, <3>3
  <2> QED
    BY <1>1, <1>2, <2>2, <2>3
<1>4. 1 \in 1..Len(q \o p) /\ (q \o p)[1] = Head(q)
  <2>1. 1 \in 1..Len(q) /\ 1 \in 1..Len(q \o p)
    BY <1>1, <1>2
  <2> QED
    BY <1>0, <1>1, <2>1 DEF Joined
<1>5. Within(t \o p, q \o p)
  <2> DEFINE f == [i \in 1..Len(t \o p) |-> i + 1]
  <2>1. \A i \in 1..Len(t \o p) : f[i] \in 1..Len(q \o p) /\ (q \o p)[f[i]] = (t \o p)[i]
    BY <1>3
  <2>2. \A i, j \in 1..Len(t \o p) : i < j => f[i] < f[j]
    BY <1>2
  <2> HIDE DEF f
  <2> QED
    BY <1>2, <2>1, <2>2, WithinBy
<1>6. ASSUME ~IsFile(Head(q)) PROVE Within(q \o p, t \o p)
  <2> DEFINE f == [i \in 1..Len(q \o p) |-> i - 1]
  <2>1. \A i \in 1..Len(q \o p) : IsFile((q \o p)[i]) =>
          f[i] \in 1..Len(t \o p) /\ (t \o p)[f[i]] = (q \o p)[i]
    <3> SUFFICES ASSUME NEW i \in 1..Len(q \o p), IsFile((q \o p)[i])
                 PROVE  f[i] \in 1..Len(t \o p) /\ (t \o p)[f[i]] = (q \o p)[i]
      OBVIOUS
    <3>1. i # 1
      BY <1>4, <1>6
    <3>2. i - 1 \in 1..Len(t \o p) /\ (i - 1) + 1 = i
      BY <1>1, <1>2, <3>1
    <3> QED
      BY <1>3, <3>2
  <2>2. \A i, j \in 1..Len(q \o p) : i < j => f[i] < f[j]
    BY <1>2
  <2> HIDE DEF f
  <2> QED
    BY <1>2, <2>1, <2>2, WithinBy
<1>7. Len(q \o p) \in Nat /\ Len(t \o p) = Len(q \o p) - 1
  BY <1>1, <1>2
<1> QED
  BY <1>3, <1>4, <1>5, <1>6, <1>7 DEF t

(* An event at the end of the stream.                                       *)
LEMMA EventLast ==
  ASSUME NEW q \in Seq(SentInput), NEW p \in Seq(SentInput), NEW e \in SentInput
  PROVE  LET n == Len(q \o p) + 1 IN
         /\ n \in Nat /\ Len(q \o Append(p, e)) = n /\ (q \o Append(p, e))[n] = e
         /\ \A i \in 1..Len(q \o p) : (q \o Append(p, e))[i] = (q \o p)[i]
<1> DEFINE a == Append(p, e)
<1>1. /\ a \in Seq(SentInput) /\ Len(a) = Len(p) + 1 /\ a[Len(p) + 1] = e /\ Len(p) \in Nat /\ Len(q) \in Nat
      /\ \A i \in 1..Len(p) : a[i] = p[i]
  OBVIOUS
<1> HIDE DEF a
<1>0. Joined(q, p) /\ Joined(q, a)
  BY <1>1, StreamParts
<1>2. Len(q \o p) = Len(q) + Len(p) /\ Len(q \o a) = Len(q) + Len(p) + 1
  BY <1>0, <1>1 DEF Joined
<1>3. (q \o a)[Len(q) + (Len(p) + 1)] = e
  <2>1. Len(p) + 1 \in 1..Len(a)
    BY <1>1
  <2> QED
    BY <1>0, <1>1, <2>1 DEF Joined
<1>4. ASSUME NEW i \in 1..Len(q \o p) PROVE (q \o a)[i] = (q \o p)[i]
  <2>1. CASE i \in 1..Len(q)
    BY <1>0, <1>1, <2>1 DEF Joined
  <2>2. CASE i \notin 1..Len(q)
    <3>1. i - Len(q) \in 1..Len(p) /\ i - Len(q) \in 1..Len(a) /\ Len(q) + (i - Len(q)) = i
      BY <1>1, <1>2, <2>2
    <3>2. (q \o a)[i] = a[i - Len(q)]
      BY <1>0, <1>1, <3>1 DEF Joined
    <3>3. (q \o p)[i] = p[i - Len(q)]
      BY <1>0, <3>1 DEF Joined
    <3> QED
      BY <1>1, <3>1, <3>2, <3>3
  <2> QED
    BY <2>1, <2>2
<1>5. Len(q) + (Len(p) + 1) = Len(q \o p) + 1 /\ Len(q \o a) = Len(q \o p) + 1 /\ Len(q \o p) + 1 \in Nat
  BY <1>1, <1>2
<1> QED
  BY <1>3, <1>4, <1>5 DEF a

-----------------------------------------------------------------------------
(* What keeps each part of the invariant.                                   *)
SameFiles == Within(Stream', Stream) /\ Within(Stream, Stream')

(* The same files, told of in the same order: a load is among them or not.  *)
LEMMA SameLoaded ==
  ASSUME SameFiles
  PROVE  Loaded' = Loaded
BY DEF SameFiles, Within, Loaded, IsFile

LEMMA OrderKept ==
  ASSUME OrderInv, Within(Stream', Stream), loads' = loads, playing = None => playing' = None
  PROVE  OrderInv'
<1> SUFFICES ASSUME NEW i \in 1..Len(Stream'), NEW j \in 1..Len(Stream'), i < j,
                    IsFile(Stream'[i]), IsFile(Stream'[j])
             PROVE  /\ Tells(Stream'[j], "EndFile") => Stream'[j].load = loads'
                    /\ Tells(Stream'[i], "FileLoaded") => Tells(Stream'[j], "EndFile") /\ playing' = None
                    /\ Tells(Stream'[i], "EndFile") /\ Tells(Stream'[j], "EndFile") =>
                         Stream'[i].load # Stream'[j].load
  BY DEF OrderInv
<1>1. PICK k \in 1..Len(Stream), m \in 1..Len(Stream) :
        k < m /\ Stream[k] = Stream'[i] /\ Stream[m] = Stream'[j]
  BY DEF Within
<1> QED
  BY <1>1 DEF OrderInv

LEMMA EventKept ==
  ASSUME EventInv, Within(Stream', Stream), loads' = loads, playing' \in {playing, None}, Asked' => Asked
  PROVE  EventInv'
<1> SUFFICES ASSUME NEW i \in 1..Len(Stream'), IsFile(Stream'[i])
             PROVE  /\ Stream'[i].load \in 1..loads'
                    /\ Tells(Stream'[i], "FileLoaded") => Stream'[i].load = loads'
                    /\ Tells(Stream'[i], "EndFile") =>
                         Stream'[i].load # playing' /\ (Asked' => Stream'[i].load # loads')
  BY DEF EventInv
<1>1. PICK k \in 1..Len(Stream) : Stream[k] = Stream'[i]
  BY DEF Within
<1>2. /\ Stream[k].load \in 1..loads
      /\ Tells(Stream[k], "FileLoaded") => Stream[k].load = loads
      /\ Tells(Stream[k], "EndFile") => Stream[k].load # playing /\ (Asked => Stream[k].load # loads)
  BY <1>1 DEF EventInv
<1> QED
  BY <1>1, <1>2 DEF None

LEMMA SwitchKept ==
  ASSUME SwitchInv, Within(Stream', Stream), loads' = loads, playing' \in {playing, None},
         \A load : pending_load \/ Starts(load) => pending_load' \/ Starts(load)'
  PROVE  SwitchInv'
<1> SUFFICES ASSUME NEW old \in 1..loads, Replaced(old)', NEW new \in 1..loads, old < new
             PROVE  pending_load' \/ Starts(new)'
  BY DEF SwitchInv
<1>1. Replaced(old)
  BY DEF Replaced, Within, IsFile, None
<1> QED
  BY <1>1 DEF SwitchInv

(* A queue that grows at its end starts the loads it started.               *)
LEMMA StartsKept ==
  ASSUME inputq \in Seq(SentInput), NEW more \in Seq(SentInput), inputq' = inputq \o more
  PROVE  \A load : Starts(load) => Starts(load)'
<1>1. Len(inputq') \in Nat /\ Len(inputq) <= Len(inputq') /\ \A i \in 1..Len(inputq) : inputq'[i] = inputq[i]
  BY StreamParts DEF Joined
<1>2. Len(inputq) \in Nat
  OBVIOUS
<1> QED
  BY <1>1, <1>2 DEF Starts

(* A step that leaves the commands, the player and the worker alone, and    *)
(* tells of no file.                                                        *)
LEMMA PostKeeps ==
  ASSUME SessionInv, SameFiles, loads' = loads,
         UNCHANGED <<smVars, pending, todo, taken, cmds, mpvVars>>,
         \A load : Starts(load) => Starts(load)',
         cef' # "idle" => cef # "idle", cef' = "stashed" => cef = "stashed"
  PROVE  SessionInv'
<1> USE DEF mpvVars, smVars, private
<1>1. Loaded' = Loaded /\ Selecting' = Selecting /\ Working' = Working
  BY SameLoaded DEF Working, Selecting, Has
<1>2. Asked' => Asked
  BY DEF Asked, Has
<1>3. CmdInv'
  BY DEF SessionInv, CmdInv
<1>4. AskedInv'
  BY <1>1, <1>2 DEF SessionInv, AskedInv, Kept, Has
<1>5. WorkingInv'
  BY <1>1 DEF SessionInv, WorkingInv, Kept
<1>6. FileInv'
  BY <1>1 DEF SessionInv, FileInv, Kept, Has
<1>7. OrderInv' /\ EventInv' /\ SwitchInv'
  BY <1>2, OrderKept, EventKept, SwitchKept DEF SessionInv, SameFiles
<1>8. PresentInv'
  BY <1>1 DEF SessionInv, PresentInv, SameFiles, Within
<1> QED
  BY <1>3, <1>4, <1>5, <1>6, <1>7, <1>8 DEF SessionInv

(* What the page posts and mpv reports of its pause.                        *)
LEMMA PostStep ==
  ASSUME SessionTypes, SessionInv,
         PostPosition \/ PostMetadata \/ RejectUrl \/ ReportPause \/ DeliverEvent
  PROVE  SessionInv'
<1>0. inputq \in Seq(SentInput) /\ evq \in Seq(SentInput) /\ loads \in Nat /\ playing \in Nat /\ paused \in BOOLEAN
  BY BoundsAssumption DEF SessionTypes
<1>1. ASSUME NEW x \in SentInput, ~IsFile(x), inputq' = Append(inputq, x), evq' = evq
      PROVE  SameFiles /\ \A load : Starts(load) => Starts(load)'
  <2>1. SameFiles
    BY <1>0, <1>1, PostedWithin DEF SameFiles, Stream
  <2>2. inputq' = inputq \o <<x>> /\ <<x>> \in Seq(SentInput)
    BY <1>0, <1>1
  <2> QED
    BY <1>0, <2>1, <2>2, StartsKept
<1>2. ASSUME inputq' = inputq, evq' = evq
      PROVE  SameFiles /\ \A load : Starts(load) => Starts(load)'
  <2>2. Stream' = Stream
    BY <1>2 DEF Stream
  <2> QED
    BY <1>2, <2>2 DEF SameFiles, Within, Starts
<1>3. CASE PostPosition
  <2> DEFINE x == Sent([op |-> "Position", position |-> 0], loads)
  <2>1. x \in SentInput /\ ~IsFile(x)
    BY <1>0, InputsAre DEF IsFile, Tells, Sent
  <2>2. inputq' = Append(inputq, x)
    BY <1>0, <1>3 DEF PostPosition, Post
  <2> QED
    BY <1>1, <1>3, <2>1, <2>2, PostKeeps DEF PostPosition, Post
<1>4. CASE PostMetadata
  <2> DEFINE x == Sent([op |-> "Metadata", type |-> "Audio"], loads)
  <2>1. x \in SentInput /\ ~IsFile(x)
    BY <1>0, InputsAre DEF IsFile, Tells, Sent
  <2>2. inputq' = Append(inputq, x) \/ inputq' = inputq
    BY <1>0, <1>4 DEF PostMetadata, Post
  <2> QED
    BY <1>1, <1>2, <1>4, <2>1, <2>2, PostKeeps DEF PostMetadata, Post
<1>5. CASE RejectUrl
  <2>1. inputq' = inputq
    BY <1>0, <1>5 DEF RejectUrl, Post
  <2> QED
    BY <1>2, <1>5, <2>1, PostKeeps DEF RejectUrl, Post
<1>6. CASE ReportPause
  <2> DEFINE x == Sent([op |-> "PauseChanged", flag |-> paused], playing)
  <2>1. x \in SentInput /\ ~IsFile(x)
    BY <1>0, InputsAre DEF IsFile, Tells, Sent
  <2>2. inputq' = Append(inputq, x) /\ evq' = evq
    BY <1>6 DEF ReportPause
  <2>3. SameFiles /\ \A load : Starts(load) => Starts(load)'
    BY <1>1, <2>1, <2>2
  <2> QED
    BY <1>6, <2>3, PostKeeps DEF ReportPause, pageVars
<1>7. CASE DeliverEvent
  <2>1. SameFiles
    BY <1>0, <1>7, DeliveredWithin DEF DeliverEvent, SameFiles, Stream
  <2>2. inputq' = inputq \o <<Head(evq)>> /\ <<Head(evq)>> \in Seq(SentInput)
    <3>1. Head(evq) \in SentInput /\ inputq' = Append(inputq, Head(evq))
      BY <1>0, <1>7, QueueTypes DEF DeliverEvent
    <3> QED
      BY <1>0, <3>1
  <2>3. \A load : Starts(load) => Starts(load)'
    BY <1>0, <2>2, StartsKept
  <2> QED
    BY <1>7, <2>1, <2>3, PostKeeps DEF DeliverEvent, pageVars
<1> QED
  BY <1>3, <1>4, <1>5, <1>6, <1>7

(* Queues that stay as they are.                                            *)
LEMMA StillFiles ==
  ASSUME inputq' = inputq, evq' = evq
  PROVE  /\ Stream' = Stream /\ SameFiles /\ Loaded' = Loaded
         /\ \A load : Starts(load)' = Starts(load)
BY DEF Stream, SameFiles, Within, Loaded, Starts

(* A load is asked for when the last is settled: no file is told of but one *)
(* that ended.                                                              *)
LEMMA LoadStep ==
  ASSUME SessionTypes, SessionInv, NEW id \in Items \cup {NoItem}, PlayerLoad(id), RapidLoads = FALSE
  PROVE  SessionInv'
<1> DEFINE x == Sent([op |-> "LoadStarting", id |-> id], loads')
<1> USE DEF mpvVars, smVars, private
<1>0. /\ inputq \in Seq(SentInput) /\ evq \in Seq(SentInput) /\ loads \in Nat /\ playing \in Nat
      /\ loads' = loads + 1 /\ loads' \in Nat
  BY BoundsAssumption DEF SessionTypes, PlayerLoad
<1>1. x \in SentInput /\ ~IsFile(x) /\ Tells(x, "LoadStarting") /\ x.load = loads'
  BY <1>0, InputsAre DEF IsFile, Tells, Sent
<1>2. inputq' = Append(inputq, x) /\ evq' = evq /\ inputq' = inputq \o <<x>> /\ <<x>> \in Seq(SentInput)
  <2>1. inputq' = Append(inputq, x) /\ evq' = evq
    BY DEF PlayerLoad
  <2> HIDE DEF x
  <2> QED
    BY <1>0, <1>1, <2>1
<1>3. SameFiles
  BY <1>0, <1>1, <1>2, PostedWithin DEF SameFiles, Stream
<1>4. /\ \A load : Starts(load) => Starts(load)'
      /\ \A load : load = loads' => Starts(load)'
  <2>1. Len(inputq') = Len(inputq) + 1 /\ inputq'[Len(inputq) + 1] = x /\ Len(inputq) \in Nat
    <3> HIDE DEF x
    <3> QED
      BY <1>0, <1>1, <1>2
  <2>2. Len(inputq) + 1 \in 1..Len(inputq')
    BY <2>1
  <2>3. \A load : Starts(load) => Starts(load)'
    BY <1>0, <1>2, StartsKept
  <2> QED
    BY <1>1, <2>1, <2>2, <2>3 DEF Starts
<1>5. Settled /\ cmds = <<>> /\ next = None /\ todo = <<>> /\ taken = None /\ (playing # None => tracks = playing)
  BY DEF PlayerLoad, Settled
<1>6. \A i \in 1..Len(Stream) : IsFile(Stream[i]) => Stream[i] \in InFlight
  <2> SUFFICES ASSUME NEW i \in 1..Len(Stream), IsFile(Stream[i])
               PROVE  Stream[i] \in InFlight
    OBVIOUS
  <2> DEFINE sent == evq \o inputq
  <2>1. Joined(inputq, evq) /\ Joined(evq, inputq)
    BY <1>0, StreamParts
  <2>2. \E j \in DOMAIN sent : sent[j] = Stream[i]
    <3>1. CASE i <= Len(inputq)
      <4>1. i \in 1..Len(inputq) /\ Len(evq) + i \in DOMAIN sent
        BY <2>1, <3>1 DEF Joined
      <4>2. sent[Len(evq) + i] = inputq[i] /\ Stream[i] = inputq[i]
        BY <2>1, <4>1 DEF Joined, Stream
      <4> QED
        BY <4>1, <4>2
    <3>2. CASE i > Len(inputq)
      <4>1. /\ i - Len(inputq) \in 1..Len(evq) /\ i - Len(inputq) \in DOMAIN sent
            /\ Len(inputq) + (i - Len(inputq)) = i
        BY <2>1, <3>2 DEF Joined, Stream
      <4>2. sent[i - Len(inputq)] = evq[i - Len(inputq)] /\ Stream[i] = evq[i - Len(inputq)]
        BY <2>1, <4>1 DEF Joined, Stream
      <4> QED
        BY <4>1, <4>2
    <3> QED
      BY <2>1, <3>1, <3>2 DEF Joined
  <2> QED
    BY <2>2 DEF InFlight, IsFile, Tells
<1>7. /\ \A i \in 1..Len(Stream) : IsFile(Stream[i]) => Tells(Stream[i], "EndFile") /\ ~Tells(Stream[i], "FileLoaded")
      /\ \A i, j \in 1..Len(Stream) : IsFile(Stream[i]) /\ IsFile(Stream[j]) => Stream[i] = Stream[j]
  BY <1>5, <1>6 DEF Settled, Tells
<1>8. ~Loaded /\ ~Loaded' /\ ~Selecting' /\ ~Working'
  <2>1. ~Loaded
    BY <1>7 DEF Loaded, IsFile
  <2>2. ~Loaded'
    BY <1>3, <2>1, SameLoaded
  <2>3. ~Selecting'
    BY <1>5 DEF PlayerLoad, Selecting, Has
  <2> QED
    BY <1>5, <2>1, <2>2, <2>3 DEF PlayerLoad, Working
<1>9. \A i, j \in 1..Len(Stream') : i < j => ~IsFile(Stream'[i]) \/ ~IsFile(Stream'[j])
  <2>1. ASSUME NEW i \in 1..Len(Stream'), NEW j \in 1..Len(Stream'), i < j, IsFile(Stream'[i]), IsFile(Stream'[j])
        PROVE  FALSE
    <3>1. PICK k \in 1..Len(Stream), m \in 1..Len(Stream) :
            k < m /\ Stream[k] = Stream'[i] /\ Stream[m] = Stream'[j]
      BY <1>3, <2>1 DEF SameFiles, Within
    <3>2. IsFile(Stream[k]) /\ IsFile(Stream[m])
      BY <2>1, <3>1
    <3> QED
      BY <1>7, <3>1, <3>2 DEF SessionInv, OrderInv
  <2> QED
    BY <2>1
<1>10. CmdInv'
  BY <1>5 DEF PlayerLoad, CmdInv
<1>11. AskedInv'
  BY <1>0, <1>5, <1>8 DEF PlayerLoad, AskedInv, SessionInv, FileInv, Has, None
<1>12. WorkingInv'
  BY <1>5, <1>8 DEF PlayerLoad, WorkingInv
<1>13. FileInv'
  BY <1>0, <1>5, <1>8 DEF PlayerLoad, SessionInv, FileInv, None
<1>14. OrderInv'
  BY <1>9 DEF OrderInv
<1>15. EventInv'
  <2> SUFFICES ASSUME NEW i \in 1..Len(Stream'), IsFile(Stream'[i])
               PROVE  /\ Stream'[i].load \in 1..loads'
                      /\ Tells(Stream'[i], "FileLoaded") => Stream'[i].load = loads'
                      /\ Tells(Stream'[i], "EndFile") =>
                           Stream'[i].load # playing' /\ (Asked' => Stream'[i].load # loads')
    BY DEF EventInv
  <2>1. PICK k \in 1..Len(Stream) : Stream[k] = Stream'[i]
    BY <1>3 DEF SameFiles, Within
  <2>2. Stream[k].load \in 1..loads /\ Tells(Stream[k], "EndFile") /\ ~Tells(Stream[k], "FileLoaded")
        /\ Stream[k].load # playing
    BY <1>7, <2>1 DEF SessionInv, EventInv
  <2> QED
    BY <1>0, <2>1, <2>2 DEF PlayerLoad
<1>16. PresentInv'
  BY <1>3, <1>8 DEF SessionInv, PresentInv, SameFiles, Within, PlayerLoad
<1>17. SwitchInv'
  <2> SUFFICES ASSUME NEW old \in 1..loads', Replaced(old)', NEW new \in 1..loads', old < new
               PROVE  pending_load' \/ Starts(new)'
    BY DEF SwitchInv
  <2>1. CASE new = loads'
    BY <1>4, <2>1
  <2>2. CASE new # loads'
    <3>1. old \in 1..loads /\ new \in 1..loads /\ old < loads
      BY <1>0, <2>2
    <3>2. Replaced(old)
      <4>1. playing' = playing
        BY DEF PlayerLoad
      <4>2. CASE \E i \in 1..Len(Stream') : Tells(Stream'[i], "EndFile") /\ Stream'[i].load = old
        <5>1. PICK i \in 1..Len(Stream') : Tells(Stream'[i], "EndFile") /\ Stream'[i].load = old
          BY <4>2
        <5>2. PICK k \in 1..Len(Stream) : Stream[k] = Stream'[i]
          BY <1>3, <5>1 DEF SameFiles, Within, IsFile
        <5> QED
          BY <3>1, <5>1, <5>2 DEF Replaced
      <4> QED
        BY <3>1, <4>1, <4>2 DEF Replaced
    <3>3. pending_load \/ Starts(new)
      BY <3>1, <3>2 DEF SessionInv, SwitchInv
    <3> QED
      BY <1>4, <3>3 DEF PlayerLoad
  <2> QED
    BY <2>1, <2>2
<1> QED
  BY <1>10, <1>11, <1>12, <1>13, <1>14, <1>15, <1>16, <1>17 DEF SessionInv

(* The tracks are stashed before the command that opens the file is sent.   *)
LEMMA StashStep ==
  ASSUME SessionTypes, SessionInv, StashTracks \/ SendLoadfile
  PROVE  SessionInv'
<1> USE DEF mpvVars, smVars, private
<1>1. /\ inputq' = inputq /\ evq' = evq /\ loads' = loads /\ playing' = playing /\ pending_load' = pending_load
      /\ Asked /\ ~Working /\ playing # loads /\ (playing # None => tracks = playing)
      /\ cmds = <<>> /\ next = None /\ loads # None
  BY DEF StashTracks, SendLoadfile, SessionInv, AskedInv, Asked
<1>2. Stream' = Stream /\ SameFiles /\ Loaded' = Loaded /\ \A load : Starts(load)' = Starts(load)
  BY <1>1, StillFiles
<1>3. ~Loaded' /\ ~Selecting' /\ ~Working'
  <2>1. CASE StashTracks
    BY <1>1, <1>2, <2>1 DEF StashTracks, Working, Selecting, Has
  <2>2. CASE SendLoadfile
    <3>1. Len(cmds') = 1 /\ cmds'[1] = Command("loadfile", loads)
      BY <1>1, <2>2 DEF SendLoadfile
    <3> QED
      BY <1>1, <1>2, <2>2, <3>1 DEF SendLoadfile, Working, Selecting, Has, Command
  <2> QED
    BY <2>1, <2>2
<1>4. CmdInv' /\ AskedInv'
  <2>1. CASE StashTracks
    BY <1>1, <1>3, <2>1 DEF StashTracks, CmdInv, AskedInv, Kept, Has, Stashed
  <2>2. CASE SendLoadfile
    <3>1. Len(cmds') = 1 /\ cmds'[1].op = "loadfile" /\ cmds'[1].load = loads
      BY <1>1, <2>2 DEF SendLoadfile, Command
    <3> QED
      BY <1>1, <1>3, <2>2, <3>1 DEF SendLoadfile, CmdInv, SessionInv, AskedInv, Kept, Has
  <2> QED
    BY <2>1, <2>2
<1>5. WorkingInv' /\ FileInv'
  <2>1. /\ todo = <<>> /\ taken = None /\ ~Loaded /\ todo' = todo /\ taken' = taken
        /\ UNCHANGED <<playing, opened, tracks, paused, loads>>
    BY <1>1 DEF StashTracks, SendLoadfile, Working
  <2>2. playing # None => opened /\ tracks = playing /\ ~paused
    <3>1. ~Has(cmds, "unpause")
      BY <1>1 DEF Has
    <3> QED
      BY <1>1, <2>1, <3>1 DEF SessionInv, FileInv
  <2>3. WorkingInv'
    BY <1>2, <1>3, <2>1 DEF WorkingInv
  <2>4. FileInv'
    BY <1>3, <2>1, <2>2 DEF SessionInv, FileInv, None
  <2> QED
    BY <2>3, <2>4
<1>6. OrderInv' /\ EventInv' /\ SwitchInv'
  BY <1>1, <1>2, OrderKept, EventKept, SwitchKept DEF SessionInv, SameFiles
<1>7. PresentInv'
  BY <1>2 DEF SessionInv, PresentInv, StashTracks, SendLoadfile
<1> QED
  BY <1>4, <1>5, <1>6, <1>7 DEF SessionInv

(* A stop is one more command.                                              *)
LEMMA StopStep ==
  ASSUME SessionTypes, SessionInv, PlayerStop
  PROVE  SessionInv'
<1> USE DEF mpvVars, smVars, private
<1>1. Stream' = Stream /\ SameFiles /\ Loaded' = Loaded /\ \A load : Starts(load)' = Starts(load)
  BY StillFiles DEF PlayerStop
<1>2. /\ Len(cmds) \in Nat /\ Len(cmds') = Len(cmds) + 1 /\ cmds'[Len(cmds) + 1].op = "stop"
      /\ \A i \in 1..Len(cmds) : cmds'[i] = cmds[i]
  <2>1. cmds \in Seq(MpvCommandType) /\ cmds' = Append(cmds, Command("stop", None))
    BY DEF PlayerStop, SessionTypes
  <2>2. /\ Len(cmds) \in Nat /\ Len(cmds') = Len(cmds) + 1 /\ cmds'[Len(cmds) + 1] = Command("stop", None)
        /\ \A i \in 1..Len(cmds) : cmds'[i] = cmds[i]
    BY <2>1
  <2> QED
    BY <2>2 DEF Command
<1>3. \A i \in 1..Len(cmds') : (i \in 1..Len(cmds) /\ cmds'[i] = cmds[i]) \/ cmds'[i].op = "stop"
  BY <1>2
<1>4. \A op \in {"loadfile", "select", "unpause"} : Has(cmds', op) = Has(cmds, op)
  BY <1>2, <1>3 DEF Has
<1>5. CmdInv'
  BY <1>2, <1>3 DEF PlayerStop, SessionInv, CmdInv
<1>6. Asked' = Asked /\ Selecting' = Selecting /\ Working' = Working
  BY <1>1, <1>4 DEF PlayerStop, Asked, Selecting, Working
<1>7. AskedInv'
  BY <1>4, <1>6 DEF PlayerStop, SessionInv, AskedInv, Kept
<1>8. WorkingInv' /\ FileInv'
  BY <1>1, <1>4, <1>6 DEF PlayerStop, SessionInv, WorkingInv, FileInv, Kept
<1>9. OrderInv' /\ EventInv' /\ SwitchInv'
  BY <1>1, <1>6, OrderKept, EventKept, SwitchKept DEF SessionInv, SameFiles, PlayerStop
<1>10. PresentInv'
  BY <1>1 DEF SessionInv, PresentInv, PlayerStop
<1> QED
  BY <1>5, <1>7, <1>8, <1>9, <1>10 DEF SessionInv

(* The worker applies the next input.                                       *)
LEMMA ApplyNextStep ==
  ASSUME SessionTypes, SessionInv, ApplyNext
  PROVE  SessionInv'
<1> DEFINE x == Head(inputq)
<1> USE DEF mpvVars, pageVars
<1>0. /\ inputq \in Seq(SentInput) /\ evq \in Seq(SentInput) /\ loads \in Nat /\ inputq # <<>>
      /\ x \in SentInput /\ inputq' = Tail(inputq) /\ evq' = evq /\ taken = None
      /\ todo \in Seq(PlaybackAction) /\ SMTypeOK /\ Apply(x.in)
      /\ UNCHANGED <<loads, cef, pending, taken, cmds, playing, opened, next, tracks, paused>>
      /\ todo' = todo \o pending_actions'
  BY BoundsAssumption, QueueTypes DEF SessionTypes, ApplyNext
<1>1. x.in \in Input
  BY <1>0 DEF SentInput
<1>2. /\ Within(Stream', Stream)
      /\ ~IsFile(x) => Within(Stream, Stream')
      /\ 1 \in 1..Len(Stream) /\ Stream[1] = x
      /\ Len(Stream) \in Nat /\ Len(Stream') = Len(Stream) - 1
      /\ \A i \in 1..Len(Stream') : i + 1 \in 1..Len(Stream) /\ Stream[i + 1] = Stream'[i]
  BY <1>0, AppliedWithin DEF Stream
<1>3. \A load : Starts(load) => Starts(load)' \/ (Tells(x, "LoadStarting") /\ x.load = load)
  <2>1. /\ Len(inputq) \in Nat /\ Len(Tail(inputq)) = Len(inputq) - 1 /\ Head(inputq) = inputq[1]
        /\ \A i \in 1..Len(Tail(inputq)) : Tail(inputq)[i] = inputq[i + 1]
    BY <1>0
  <2> SUFFICES ASSUME NEW load, NEW i \in 1..Len(inputq),
                      Tells(inputq[i], "LoadStarting") /\ inputq[i].load = load, i # 1
               PROVE  Starts(load)'
    BY <2>1 DEF Starts
  <2>2. i - 1 \in 1..Len(inputq') /\ inputq'[i - 1] = inputq[i]
    <3>1. i - 1 \in 1..Len(Tail(inputq)) /\ (i - 1) + 1 = i
      BY <2>1
    <3> QED
      BY <1>0, <2>1, <3>1
  <2> QED
    BY <2>2 DEF Starts
<1>4. Asked' = Asked /\ Selecting' = Selecting /\ CmdInv'
  BY <1>0 DEF Asked, Selecting, Has, SessionInv, CmdInv
<1>5. /\ pending_actions' = IF x.in.op = "FileLoaded"
                            THEN <<"ApplyPendingTrackSelectionAndPlay">> ELSE <<>>
      /\ x.in.op = "LoadStarting" => pending_load'
      /\ x.in.op \notin {"LoadStarting", "EndFile", "FileLoaded"} => pending_load' = pending_load
      /\ x.in.op = "FileLoaded" => s'.presence = "Present"
      /\ x.in.op # "EndFile" /\ s.presence = "Present" => s'.presence = "Present"
  BY <1>0, <1>1, MachineDoes
<1> HIDE DEF x
<1>6. OrderInv' /\ EventInv'
  BY <1>0, <1>2, <1>4, OrderKept, EventKept DEF SessionInv
<1>7. CASE ~IsFile(x)
  <2>1. todo' = todo
    BY <1>0, <1>5, <1>7 DEF IsFile, Tells
  <2>2. SameFiles /\ Loaded' = Loaded /\ Working' = Working
    BY <1>0, <1>2, <1>4, <1>7, <2>1, SameLoaded DEF SameFiles, Working
  <2>3. AskedInv' /\ WorkingInv' /\ FileInv'
    BY <1>0, <1>4, <2>1, <2>2 DEF SessionInv, AskedInv, WorkingInv, FileInv, Kept
  <2>4. PresentInv'
    <3>1. x.in.op # "EndFile"
      BY <1>7 DEF IsFile, Tells
    <3> QED
      BY <1>0, <1>2, <1>5, <2>2, <3>1 DEF SessionInv, PresentInv, Within
  <2>5. SwitchInv'
    <3>1. \A load : pending_load \/ Starts(load) => pending_load' \/ Starts(load)'
      BY <1>3, <1>5, <1>7 DEF IsFile, Tells
    <3> QED
      BY <1>0, <1>2, <3>1, SwitchKept DEF SessionInv
  <2> QED
    BY <1>4, <1>6, <2>3, <2>4, <2>5 DEF SessionInv
<1>8. ASSUME IsFile(x) PROVE SwitchInv'
  <2> SUFFICES ASSUME NEW old \in 1..loads, Replaced(old)' PROVE FALSE
    BY <1>0 DEF SwitchInv
  <2>1. CASE \E i \in 1..Len(Stream') : Tells(Stream'[i], "EndFile") /\ Stream'[i].load = old
    <3>1. PICK i \in 1..Len(Stream') : Tells(Stream'[i], "EndFile") /\ Stream'[i].load = old
      BY <2>1
    <3>2. i + 1 \in 1..Len(Stream) /\ 1 < i + 1 /\ Stream[i + 1] = Stream'[i]
      BY <1>2
    <3>3. Stream[i + 1].load = loads
      BY <1>2, <1>8, <3>1, <3>2 DEF SessionInv, OrderInv, IsFile
    <3> QED
      BY <1>0, <3>1, <3>2, <3>3 DEF Replaced
  <2>2. CASE playing' = old /\ old # None
    <3>1. playing # None /\ playing # loads
      BY <1>0, <2>2 DEF Replaced
    <3>2. opened /\ tracks = playing /\ ~Working
      BY <3>1 DEF SessionInv, FileInv, WorkingInv
    <3> QED
      BY <1>2, <1>8, <3>2 DEF SessionInv, PresentInv, Working
  <2> QED
    BY <2>1, <2>2 DEF Replaced
<1>9. CASE Tells(x, "FileLoaded")
  <2>1. Loaded /\ Working /\ todo = <<>> /\ taken = None /\ ~Selecting /\ Kept /\ tracks = None
        /\ loads # None /\ playing \in {None, loads} /\ ~Asked
    <3>1. Loaded
      BY <1>2, <1>9 DEF Loaded
    <3> QED
      BY <3>1 DEF SessionInv, WorkingInv, AskedInv, Working
  <2>2. \A i \in 1..Len(Stream') : IsFile(Stream'[i]) => Tells(Stream'[i], "EndFile") /\ playing = None
    <3> SUFFICES ASSUME NEW i \in 1..Len(Stream'), IsFile(Stream'[i])
                 PROVE  Tells(Stream'[i], "EndFile") /\ playing = None
      OBVIOUS
    <3>1. i + 1 \in 1..Len(Stream) /\ 1 < i + 1 /\ Stream[i + 1] = Stream'[i]
      BY <1>2
    <3> QED
      BY <1>2, <1>9, <3>1 DEF SessionInv, OrderInv, IsFile
  <2>3. ~Loaded'
    BY <2>2 DEF Loaded, IsFile, Tells
  <2>4. todo' = <<"ApplyPendingTrackSelectionAndPlay">>
    <3>1. pending_actions' = <<"ApplyPendingTrackSelectionAndPlay">>
      BY <1>5, <1>9 DEF Tells
    <3> QED
      BY <1>0, <2>1, <3>1
  <2>5. todo' # <<>> /\ Len(todo') = 1 /\ Working'
    BY <2>4 DEF Working
  <2>6. AskedInv' /\ WorkingInv' /\ FileInv'
    <3>1. AskedInv'
      BY <1>0, <1>4, <2>1 DEF AskedInv, Kept, SessionInv
    <3>2. WorkingInv'
      BY <1>0, <1>4, <2>1, <2>3, <2>5 DEF WorkingInv, Kept
    <3>3. FileInv'
      BY <1>0, <1>4, <2>1, <2>5 DEF SessionInv, FileInv, None
    <3> QED
      BY <3>1, <3>2, <3>3
  <2>7. PresentInv'
    <3>1. s'.presence = "Present"
      BY <1>5, <1>9 DEF Tells
    <3>2. opened => playing # None
      BY DEF SessionInv, FileInv
    <3> QED
      BY <1>0, <2>2, <3>1, <3>2 DEF PresentInv
  <2> QED
    BY <1>4, <1>6, <1>8, <1>9, <2>6, <2>7 DEF SessionInv, IsFile
<1>10. CASE Tells(x, "EndFile")
  <2>1. todo' = todo
    BY <1>0, <1>5, <1>10 DEF Tells
  <2>2. Loaded' <=> Loaded
    <3>1. ASSUME Loaded PROVE Loaded'
      <4>1. PICK k \in 1..Len(Stream) : Tells(Stream[k], "FileLoaded")
        BY <3>1 DEF Loaded
      <4>2. k # 1
        BY <1>2, <1>10, <4>1 DEF Tells
      <4>3. k - 1 \in 1..Len(Stream') /\ (k - 1) + 1 = k
        BY <1>2, <4>2
      <4> QED
        BY <1>2, <4>1, <4>3 DEF Loaded
    <3>2. Loaded' => Loaded
      BY <1>2 DEF Loaded
    <3> QED
      BY <3>1, <3>2
  <2>3. Working' <=> Working
    BY <1>0, <1>4, <2>1, <2>2 DEF Working
  <2>4. AskedInv' /\ WorkingInv' /\ FileInv'
    BY <1>0, <1>4, <2>1, <2>2, <2>3 DEF SessionInv, AskedInv, WorkingInv, FileInv, Kept
  <2>5. PresentInv'
    BY <1>0, <1>2, <1>10, <2>2 DEF SessionInv, PresentInv, IsFile
  <2> QED
    BY <1>4, <1>6, <1>8, <1>10, <2>4, <2>5 DEF SessionInv, IsFile
<1> QED
  BY <1>7, <1>9, <1>10 DEF IsFile

(* The worker takes the tracks out of the slot and writes them.             *)
LEMMA TracksStep ==
  ASSUME SessionTypes, SessionInv, TakeTracks \/ WriteTracks
  PROVE  SessionInv'
<1> USE DEF mpvVars, pageVars, smVars, private
<1>1. Stream' = Stream /\ SameFiles /\ Loaded' = Loaded /\ \A load : Starts(load)' = Starts(load)
  BY StillFiles DEF TakeTracks, WriteTracks
<1>2. /\ Working /\ ~Asked /\ tracks = None /\ ~Selecting /\ ~Loaded
      /\ UNCHANGED <<loads, cef, playing, opened, next, tracks, paused, pending_load, s>>
  BY DEF TakeTracks, WriteTracks, SessionInv, WorkingInv, AskedInv, Working
<1>3. ASSUME TakeTracks
      PROVE  ~Asked' /\ CmdInv' /\ AskedInv' /\ WorkingInv' /\ FileInv'
  <2>1. todo' = <<>> /\ taken' = loads /\ taken = None /\ loads \in Nat /\ loads # None /\ cmds' = cmds
    <3>1. Len(todo) = 1 /\ todo \in Seq(PlaybackAction) /\ Kept /\ taken = None
      BY <1>3 DEF TakeTracks, SessionInv, WorkingInv, SessionTypes
    <3>2. todo' = <<>>
      BY <1>3, <3>1 DEF TakeTracks
    <3>3. taken' = loads
      BY <1>3, <3>1 DEF TakeTracks, Kept
    <3>4. loads # None
      BY <1>2 DEF SessionInv, WorkingInv
    <3> QED
      BY <1>3, <3>1, <3>2, <3>3, <3>4, BoundsAssumption DEF TakeTracks, SessionTypes
  <2>2. Working' /\ ~Asked' /\ Selecting' = Selecting
    BY <1>2, <2>1 DEF Working, Asked, Selecting, Has
  <2>3. CmdInv' /\ AskedInv'
    BY <1>2, <2>1, <2>2 DEF SessionInv, CmdInv, AskedInv, Asked
  <2>4. WorkingInv' /\ FileInv'
    BY <1>1, <1>2, <2>1, <2>2 DEF SessionInv, WorkingInv, FileInv, None
  <2> QED
    BY <2>2, <2>3, <2>4
<1>4. ASSUME WriteTracks
      PROVE  ~Asked' /\ CmdInv' /\ AskedInv' /\ WorkingInv' /\ FileInv'
  <2>1. taken = loads /\ taken' = None /\ todo' = todo /\ todo = <<>> /\ pending' = pending
    BY <1>4 DEF WriteTracks, SessionInv, WorkingInv
  <2>2. /\ Len(cmds) \in Nat /\ Len(cmds') = Len(cmds) + 2
        /\ cmds'[Len(cmds) + 1] = Command("select", loads) /\ cmds'[Len(cmds) + 2] = Command("unpause", loads)
        /\ \A i \in 1..Len(cmds) : cmds'[i] = cmds[i]
    <3> DEFINE more == <<Command("select", taken), Command("unpause", taken)>>
    <3>1. cmds \in Seq(MpvCommandType) /\ cmds' = cmds \o more /\ more \in Seq(MpvCommandType)
      BY <1>4 DEF WriteTracks, SessionTypes, MpvCommandType, Command
    <3>2. Len(more) = 2 /\ more[1] = Command("select", loads) /\ more[2] = Command("unpause", loads)
      BY <2>1
    <3> HIDE DEF more
    <3>3. /\ Len(cmds) \in Nat /\ Len(cmds') = Len(cmds) + Len(more)
          /\ \A i \in 1..Len(cmds) : cmds'[i] = cmds[i]
          /\ \A i \in 1..Len(more) : cmds'[Len(cmds) + i] = more[i]
      BY <3>1
    <3>4. 1 \in 1..Len(more) /\ 2 \in 1..Len(more)
      BY <3>2
    <3> QED
      BY <3>2, <3>3, <3>4
  <2>3. \A i \in 1..Len(cmds') :
          \/ i \in 1..Len(cmds) /\ cmds'[i] = cmds[i] /\ cmds[i].op \notin {"select", "loadfile"}
          \/ i = Len(cmds) + 1 /\ cmds'[i].op = "select" /\ cmds'[i].load = loads
          \/ i = Len(cmds) + 2 /\ cmds'[i].op = "unpause"
    BY <1>2, <2>2 DEF Command, Selecting, Asked, Has
  <2>4. Len(cmds) + 1 \in 1..Len(cmds') /\ Len(cmds) + 2 \in 1..Len(cmds')
    BY <2>2
  <2>5. Has(cmds', "select") /\ Has(cmds', "unpause") /\ ~Has(cmds', "loadfile")
    BY <2>2, <2>3, <2>4 DEF Has, Command
  <2>6. CmdInv'
    <3>1. ASSUME NEW i \in 1..Len(cmds')
          PROVE  /\ cmds'[i].op = "loadfile" => i = 1 /\ cmds'[i].load = loads'
                 /\ cmds'[i].op = "select" =>
                      /\ cmds'[i].load = loads'
                      /\ \E j \in 1..Len(cmds') : j > i /\ cmds'[j].op = "unpause"
      <4>1. cmds'[i].op # "loadfile"
        BY <2>3
      <4>2. CASE cmds'[i].op = "select"
        <5>1. i = Len(cmds) + 1 /\ cmds'[i].load = loads
          BY <2>3, <4>2
        <5>2. Len(cmds) + 2 > i /\ cmds'[Len(cmds) + 2].op = "unpause"
          BY <2>2, <5>1 DEF Command
        <5> QED
          BY <1>2, <2>4, <5>1, <5>2, <4>1
      <4> QED
        BY <4>1, <4>2
    <3>2. ASSUME NEW i \in 1..Len(cmds'), NEW j \in 1..Len(cmds'), cmds'[i].op = "select", cmds'[j].op = "select"
          PROVE  i = j
      BY <2>3, <3>2
    <3> QED
      BY <3>1, <3>2 DEF CmdInv
  <2>7. Working' /\ ~Asked' /\ Selecting'
    BY <1>2, <2>5 DEF Working, Asked, Selecting
  <2>8. AskedInv' /\ WorkingInv' /\ FileInv'
    BY <1>1, <1>2, <2>1, <2>5, <2>7 DEF SessionInv, AskedInv, WorkingInv, FileInv, Asked
  <2> QED
    BY <2>6, <2>7, <2>8
<1>5. ~Asked' /\ CmdInv' /\ AskedInv' /\ WorkingInv' /\ FileInv'
  BY <1>3, <1>4
<1>6. OrderInv' /\ EventInv' /\ SwitchInv'
  BY <1>1, <1>2, <1>5, OrderKept, EventKept, SwitchKept DEF SessionInv, SameFiles
<1>7. PresentInv'
  BY <1>1, <1>2 DEF SessionInv, PresentInv
<1> QED
  BY <1>5, <1>6, <1>7 DEF SessionInv

-----------------------------------------------------------------------------
(* mpv carries out a command, or its file opens or ends.                    *)

(* The commands but the first.                                              *)
LEMMA CmdTail ==
  ASSUME cmds \in Seq(MpvCommandType), cmds # <<>>, cmds' = Tail(cmds)
  PROVE  /\ Head(cmds) = cmds[1] /\ 1 \in 1..Len(cmds) /\ Len(cmds) \in Nat /\ Len(cmds') = Len(cmds) - 1
         /\ \A i \in 1..Len(cmds') : i + 1 \in 1..Len(cmds) /\ cmds'[i] = cmds[i + 1]
         /\ \A i \in 1..Len(cmds) : i > 1 => i - 1 \in 1..Len(cmds') /\ cmds'[i - 1] = cmds[i]
<1>1. /\ Head(cmds) = cmds[1] /\ 1 \in 1..Len(cmds) /\ Len(cmds) \in Nat /\ Len(cmds') = Len(cmds) - 1
      /\ \A i \in 1..Len(cmds') : cmds'[i] = cmds[i + 1]
  OBVIOUS
<1>2. ASSUME NEW i \in 1..Len(cmds), i > 1 PROVE i - 1 \in 1..Len(cmds') /\ cmds'[i - 1] = cmds[i]
  <2>1. i - 1 \in 1..Len(cmds') /\ (i - 1) + 1 = i
    BY <1>1, <1>2
  <2> QED
    BY <1>1, <2>1
<1> QED
  BY <1>1, <1>2

(* What is still to be carried out.                                         *)
LEMMA CmdRest ==
  ASSUME SessionTypes, CmdInv, cmds # <<>>, cmds' = Tail(cmds), loads' = loads
  PROVE  /\ CmdInv'
         /\ ~Has(cmds', "loadfile") /\ (Has(cmds, "loadfile") => Head(cmds).op = "loadfile")
         /\ \A op \in {"select", "unpause"} : Has(cmds', op) => Has(cmds, op)
         /\ \A op \in {"select", "unpause"} : Has(cmds, op) /\ Head(cmds).op # op => Has(cmds', op)
         /\ Head(cmds).op = "select" => ~Has(cmds', "select") /\ Has(cmds', "unpause")
<1>0. cmds \in Seq(MpvCommandType)
  BY DEF SessionTypes
<1>1. /\ Head(cmds) = cmds[1] /\ 1 \in 1..Len(cmds) /\ Len(cmds) \in Nat /\ Len(cmds') = Len(cmds) - 1
      /\ \A i \in 1..Len(cmds') : i + 1 \in 1..Len(cmds) /\ cmds'[i] = cmds[i + 1]
      /\ \A i \in 1..Len(cmds) : i > 1 => i - 1 \in 1..Len(cmds') /\ cmds'[i - 1] = cmds[i]
  BY <1>0, CmdTail
<1>2. \A i \in 1..Len(cmds') : cmds'[i].op # "loadfile"
  BY <1>1 DEF CmdInv
<1>3. ASSUME NEW i \in 1..Len(cmds'), cmds'[i].op = "select"
      PROVE  cmds'[i].load = loads /\ \E j \in 1..Len(cmds') : j > i /\ cmds'[j].op = "unpause"
  <2>1. i + 1 \in 1..Len(cmds) /\ cmds[i + 1] = cmds'[i]
    BY <1>1
  <2>2. cmds[i + 1].load = loads /\ \E j \in 1..Len(cmds) : j > i + 1 /\ cmds[j].op = "unpause"
    BY <1>3, <2>1 DEF CmdInv
  <2>3. PICK j \in 1..Len(cmds) : j > i + 1 /\ cmds[j].op = "unpause"
    BY <2>2
  <2>4. j - 1 \in 1..Len(cmds') /\ cmds'[j - 1] = cmds[j] /\ j - 1 > i
    BY <1>1, <2>3
  <2> QED
    BY <2>1, <2>2, <2>3, <2>4
<1>4. ASSUME NEW i \in 1..Len(cmds'), NEW j \in 1..Len(cmds'), cmds'[i].op = "select", cmds'[j].op = "select"
      PROVE  i = j
  <2>1. i + 1 \in 1..Len(cmds) /\ j + 1 \in 1..Len(cmds) /\ cmds[i + 1].op = "select" /\ cmds[j + 1].op = "select"
    BY <1>1, <1>4
  <2>2. i + 1 = j + 1
    BY <2>1 DEF CmdInv
  <2> QED
    BY <2>2
<1>5. CmdInv'
  BY <1>2, <1>3, <1>4 DEF CmdInv
<1>6. ~Has(cmds', "loadfile") /\ (Has(cmds, "loadfile") => Head(cmds).op = "loadfile")
  BY <1>1, <1>2 DEF Has, CmdInv
<1>7. ASSUME NEW op, Has(cmds', op) PROVE Has(cmds, op)
  BY <1>1, <1>7 DEF Has
<1>8. ASSUME NEW op, Has(cmds, op), Head(cmds).op # op PROVE Has(cmds', op)
  <2>1. PICK i \in 1..Len(cmds) : cmds[i].op = op
    BY <1>8 DEF Has
  <2>2. i > 1
    BY <1>1, <1>8, <2>1
  <2> QED
    BY <1>1, <2>1, <2>2 DEF Has
<1>9. ASSUME Head(cmds).op = "select" PROVE ~Has(cmds', "select") /\ Has(cmds', "unpause")
  <2>1. ~Has(cmds', "select")
    <3>1. ASSUME NEW i \in 1..Len(cmds'), cmds'[i].op = "select" PROVE FALSE
      <4>1. i + 1 \in 1..Len(cmds) /\ cmds[i + 1].op = "select" /\ i + 1 # 1
        BY <1>1, <3>1
      <4> QED
        BY <1>1, <1>9, <4>1 DEF CmdInv
    <3> QED
      BY <3>1 DEF Has
  <2>2. PICK j \in 1..Len(cmds) : j > 1 /\ cmds[j].op = "unpause"
    BY <1>1, <1>9 DEF CmdInv
  <2>3. j - 1 \in 1..Len(cmds') /\ cmds'[j - 1].op = "unpause"
    BY <1>1, <2>2
  <2> QED
    BY <2>1, <2>3 DEF Has
<1> QED
  BY <1>5, <1>6, <1>7, <1>8, <1>9

(* A file that ends is told of after everything else; no other that was     *)
(* replaced waits to be told of.                                            *)
LEMMA EndKeeps ==
  ASSUME SessionTypes, SessionInv, playing # None, NEW reason \in EndReason,
         inputq' = inputq, evq' = Append(evq, EndEvent(reason, playing)),
         loads' = loads, pending_load' = pending_load, opened' = FALSE, Asked' => Asked,
         playing' = None \/ (playing' = loads /\ Asked)
  PROVE  OrderInv' /\ EventInv' /\ PresentInv' /\ SwitchInv' /\ (Loaded' <=> Loaded)
<1> DEFINE e == EndEvent(reason, playing)
           n == Len(Stream) + 1
<1>0. inputq \in Seq(SentInput) /\ evq \in Seq(SentInput) /\ playing \in 1..loads /\ loads \in Nat
  BY BoundsAssumption DEF SessionTypes, SessionInv, FileInv, None
<1>1. e \in SentInput /\ Tells(e, "EndFile") /\ ~Tells(e, "FileLoaded") /\ IsFile(e) /\ e.load = playing
  <2>1. playing \in Nat
    BY <1>0
  <2>2. e \in SentInput
    BY <2>1, InputsAre
  <2>3. Tells(e, "EndFile") /\ ~Tells(e, "FileLoaded") /\ e.load = playing
    BY DEF EndEvent, Sent, Tells
  <2> QED
    BY <2>2, <2>3 DEF IsFile
<1> HIDE DEF e
<1>2. /\ n \in Nat /\ Len(Stream') = n /\ Stream'[n] = e
      /\ \A i \in 1..Len(Stream) : Stream'[i] = Stream[i]
  BY <1>0, <1>1, EventLast DEF Stream, e
<1>3. \A i \in 1..Len(Stream') : i \in 1..Len(Stream) \/ i = n
  BY <1>2
<1>4. playing # loads => \A i \in 1..Len(Stream) : ~IsFile(Stream[i])
  BY DEF SessionInv, FileInv, WorkingInv, PresentInv, Working
<1>5. Loaded' <=> Loaded
  BY <1>1, <1>2, <1>3 DEF Loaded
<1>6. OrderInv'
  <2> SUFFICES ASSUME NEW i \in 1..Len(Stream'), NEW j \in 1..Len(Stream'), i < j,
                      IsFile(Stream'[i]), IsFile(Stream'[j])
               PROVE  /\ Tells(Stream'[j], "EndFile") => Stream'[j].load = loads'
                      /\ Tells(Stream'[i], "FileLoaded") => Tells(Stream'[j], "EndFile") /\ playing' = None
                      /\ Tells(Stream'[i], "EndFile") /\ Tells(Stream'[j], "EndFile") =>
                           Stream'[i].load # Stream'[j].load
    BY DEF OrderInv
  <2>1. i \in 1..Len(Stream) /\ Stream'[i] = Stream[i]
    BY <1>2, <1>3
  <2>2. CASE j = n
    <3>1. playing = loads
      BY <1>4, <2>1
    <3>2. Stream[i].load # playing \/ ~Tells(Stream[i], "EndFile")
      BY <2>1 DEF SessionInv, EventInv, IsFile
    <3>3. Tells(Stream[i], "FileLoaded") => playing' = None
      BY <2>1 DEF SessionInv, AskedInv, Working, Loaded
    <3> QED
      BY <1>1, <1>2, <2>1, <2>2, <3>1, <3>2, <3>3
  <2>3. CASE j # n
    <3>1. j \in 1..Len(Stream) /\ Stream'[j] = Stream[j]
      BY <1>2, <1>3, <2>3
    <3> QED
      BY <2>1, <3>1 DEF SessionInv, OrderInv
  <2> QED
    BY <2>2, <2>3
<1>7. EventInv'
  <2> SUFFICES ASSUME NEW i \in 1..Len(Stream'), IsFile(Stream'[i])
               PROVE  /\ Stream'[i].load \in 1..loads'
                      /\ Tells(Stream'[i], "FileLoaded") => Stream'[i].load = loads'
                      /\ Tells(Stream'[i], "EndFile") =>
                           Stream'[i].load # playing' /\ (Asked' => Stream'[i].load # loads')
    BY DEF EventInv
  <2>1. Asked => playing # loads
    BY DEF SessionInv, AskedInv
  <2>2. CASE i = n
    BY <1>0, <1>1, <1>2, <2>1, <2>2 DEF None
  <2>3. CASE i # n
    <3>1. i \in 1..Len(Stream) /\ Stream'[i] = Stream[i]
      BY <1>2, <1>3, <2>3
    <3>2. /\ Stream[i].load \in 1..loads
          /\ Tells(Stream[i], "FileLoaded") => Stream[i].load = loads
          /\ Tells(Stream[i], "EndFile") => (Asked => Stream[i].load # loads)
      BY <3>1 DEF SessionInv, EventInv
    <3> QED
      BY <1>0, <3>1, <3>2 DEF None
  <2> QED
    BY <2>2, <2>3
<1>8. PresentInv'
  BY DEF PresentInv
<1>9. SwitchInv'
  <2> SUFFICES ASSUME NEW old \in 1..loads, Replaced(old)', NEW new \in 1..loads, old < new
               PROVE  pending_load' \/ Starts(new)'
    BY DEF SwitchInv
  <2>1. Replaced(old)
    <3>1. old < loads /\ playing' # old
      BY <1>0 DEF Replaced, None
    <3>2. PICK i \in 1..Len(Stream') : Tells(Stream'[i], "EndFile") /\ Stream'[i].load = old
      BY <3>1 DEF Replaced
    <3>3. CASE i = n
      BY <1>0, <1>1, <1>2, <3>1, <3>2, <3>3 DEF Replaced, None
    <3>4. CASE i # n
      BY <1>2, <1>3, <3>1, <3>2, <3>4 DEF Replaced
    <3> QED
      BY <3>3, <3>4
  <2> QED
    BY <2>1 DEF SessionInv, SwitchInv, Starts
<1> QED
  BY <1>5, <1>6, <1>7, <1>8, <1>9

(* The playing file ends, when it is stopped, fails or finishes.            *)
LEMMA EndStep ==
  ASSUME SessionTypes, SessionInv, playing # None, NEW reason \in EndReason, MpvEnd(reason),
         UNCHANGED <<smVars, pageVars, pending, inputq, todo, taken>>,
         next' \in {next, None}, CmdInv', cmds = <<>> => cmds' = <<>>,
         \A op \in {"loadfile", "select"} : Has(cmds', op) => Has(cmds, op)
  PROVE  SessionInv'
<1> USE DEF pageVars, smVars, private
<1>1. /\ playing' = None /\ opened' = FALSE /\ tracks' = None /\ paused' = FALSE /\ loads' = loads /\ loads \in Nat
      /\ UNCHANGED <<pending, cef, todo, taken>>
  BY BoundsAssumption DEF MpvEnd, SessionTypes
<1>2. Asked' => Asked
  BY DEF Asked
<1>3. OrderInv' /\ EventInv' /\ PresentInv' /\ SwitchInv' /\ (Loaded' <=> Loaded)
  BY <1>1, <1>2, EndKeeps DEF MpvEnd
<1>4. (Selecting' => Selecting) /\ (Working' => Working)
  BY <1>1, <1>3 DEF Selecting, Working
<1>5. AskedInv'
  BY <1>1, <1>2, <1>4 DEF SessionInv, AskedInv, Kept
<1>6. WorkingInv'
  BY <1>1, <1>3, <1>4 DEF SessionInv, WorkingInv, Kept
<1>7. FileInv'
  BY <1>1 DEF FileInv, None
<1> QED
  BY <1>3, <1>5, <1>6, <1>7 DEF SessionInv

(* mpv carries out the oldest command.                                      *)
LEMMA CommandStep ==
  ASSUME SessionTypes, SessionInv, MpvCommand
  PROVE  SessionInv'
<1> DEFINE c == Head(cmds)
<1> USE DEF pageVars, smVars, private
<1>1. /\ cmds # <<>> /\ cmds' = Tail(cmds) /\ c \in MpvCommandType
      /\ UNCHANGED <<smVars, loads, stops, cef, pending, inputq, todo, taken, reported>>
  BY QueueTypes DEF MpvCommand, SessionTypes
<1>2. /\ CmdInv'
      /\ ~Has(cmds', "loadfile") /\ (Has(cmds, "loadfile") => c.op = "loadfile")
      /\ \A op \in {"select", "unpause"} : Has(cmds', op) => Has(cmds, op)
      /\ \A op \in {"select", "unpause"} : Has(cmds, op) /\ c.op # op => Has(cmds', op)
      /\ c.op = "select" => ~Has(cmds', "select") /\ Has(cmds', "unpause")
  BY <1>1, CmdRest DEF SessionInv
<1>3. /\ c.op \in {"loadfile", "select"} => Has(cmds, c.op) /\ c.load = loads
      /\ cef = "idle"
  <2>1. 1 \in 1..Len(cmds) /\ c = cmds[1]
    BY <1>1, CmdTail DEF SessionTypes
  <2> QED
    BY <1>1, <2>1 DEF SessionInv, CmdInv, AskedInv, Has
<1> HIDE DEF c
<1>4. CASE c.op = "stop" /\ playing # None
  <2>1. MpvEnd("Canceled") /\ next' = None
    BY <1>4 DEF MpvCommand, c
  <2> QED
    BY <1>1, <1>2, <1>4, <2>1, EndStep DEF EndReason
<1>5. ASSUME UNCHANGED <<playing, opened, evq>>, Asked' => Asked, CmdInv', AskedInv', WorkingInv', FileInv'
      PROVE  SessionInv'
  <2>1. Stream' = Stream /\ SameFiles /\ Loaded' = Loaded /\ \A load : Starts(load)' = Starts(load)
    BY <1>1, <1>5, StillFiles
  <2>2. OrderInv' /\ EventInv' /\ SwitchInv'
    BY <1>1, <1>5, <2>1, OrderKept, EventKept, SwitchKept DEF SessionInv, SameFiles
  <2>3. PresentInv'
    BY <1>1, <1>5, <2>1 DEF SessionInv, PresentInv
  <2> QED
    BY <1>5, <2>2, <2>3 DEF SessionInv
<1>6. CASE c.op = "loadfile"
  <2>1. /\ next' = loads /\ UNCHANGED <<playing, opened, tracks, paused, evq>>
    BY <1>3, <1>6 DEF MpvCommand, c
  <2>2. Asked /\ ~Working /\ Kept /\ loads # None
    BY <1>3, <1>6 DEF SessionInv, AskedInv, Asked
  <2>3. Loaded' = Loaded
    BY <1>1, <2>1, StillFiles
  <2>4. ~Working' /\ ~Loaded' /\ todo' = <<>> /\ taken' = None
    BY <1>1, <1>2, <2>2, <2>3 DEF Working, Selecting
  <2>5. AskedInv' /\ WorkingInv'
    BY <1>1, <1>2, <1>3, <2>1, <2>2, <2>4 DEF SessionInv, AskedInv, WorkingInv, Kept
  <2>6. FileInv'
    BY <1>1, <1>2, <1>6, <2>1, <2>2, <2>3, <2>4 DEF SessionInv, FileInv, Kept
  <2> QED
    BY <1>2, <1>5, <2>1, <2>2, <2>5, <2>6
<1>7. CASE c.op = "stop" /\ playing = None
  <2>1. next' = None /\ UNCHANGED <<playing, opened, tracks, paused, evq>>
    BY <1>7 DEF MpvCommand, c
  <2>2. Loaded' = Loaded
    BY <1>1, <2>1, StillFiles
  <2>3. ~Asked' /\ Selecting' = Selecting /\ Working' = Working
    BY <1>1, <1>2, <1>3, <1>7, <2>1, <2>2 DEF Asked, Selecting, Working, Has
  <2>4. AskedInv' /\ WorkingInv'
    BY <1>1, <1>2, <1>3, <2>1, <2>2, <2>3 DEF SessionInv, AskedInv, WorkingInv, Kept
  <2>5. FileInv'
    BY <1>1, <1>2, <1>7, <2>1, <2>2, <2>3 DEF SessionInv, FileInv, Kept
  <2> QED
    BY <1>2, <1>5, <2>1, <2>3, <2>4, <2>5
<1>8. CASE c.op = "select"
  <2>1. /\ tracks' = IF opened THEN loads ELSE tracks
        /\ UNCHANGED <<playing, opened, next, paused, evq>>
    BY <1>3, <1>8 DEF MpvCommand, c
  <2>2. Selecting /\ Working /\ ~Asked /\ tracks = None /\ playing \in {None, loads} /\ loads # None
    BY <1>3, <1>8 DEF SessionInv, WorkingInv, AskedInv, Working, Selecting
  <2>3. ~Loaded /\ todo = <<>> /\ taken = None
    BY <2>2 DEF SessionInv, WorkingInv
  <2>4. Loaded' = Loaded
    BY <1>1, <2>1, StillFiles
  <2>5. ~Working' /\ ~Asked' /\ ~Loaded' /\ ~Selecting'
    BY <1>1, <1>2, <1>8, <2>1, <2>2, <2>3, <2>4 DEF Working, Selecting, Asked
  <2>6. AskedInv' /\ WorkingInv'
    BY <1>1, <1>2, <1>3, <2>1, <2>2, <2>3, <2>5 DEF SessionInv, AskedInv, WorkingInv, Kept, Asked
  <2>7. FileInv'
    BY <1>1, <1>2, <1>8, <2>1, <2>2, <2>5 DEF SessionInv, FileInv, Kept
  <2> QED
    BY <1>2, <1>5, <2>1, <2>5, <2>6, <2>7
<1>9. CASE c.op = "unpause"
  <2>1. /\ paused' = FALSE /\ UNCHANGED <<playing, opened, next, tracks, evq>>
    BY <1>9 DEF MpvCommand, c
  <2>2. Loaded' = Loaded
    BY <1>1, <2>1, StillFiles
  <2>3. Asked' = Asked /\ Selecting' = Selecting /\ Working' = Working
    BY <1>1, <1>2, <1>9, <2>1, <2>2 DEF Asked, Selecting, Working, Has
  <2>4. AskedInv' /\ WorkingInv'
    BY <1>1, <1>2, <1>3, <2>1, <2>2, <2>3 DEF SessionInv, AskedInv, WorkingInv, Kept
  <2>5. FileInv'
    BY <1>1, <2>1, <2>2, <2>3 DEF SessionInv, FileInv, Kept
  <2> QED
    BY <1>2, <1>5, <2>1, <2>3, <2>4, <2>5
<1> QED
  BY <1>1, <1>4, <1>6, <1>7, <1>8, <1>9 DEF MpvCommandType

(* mpv leaves the playing file for the next, the last one asked for.        *)
LEMMA SwitchStep ==
  ASSUME SessionTypes, SessionInv, MpvSwitch
  PROVE  SessionInv'
<1> USE DEF pageVars, smVars, private
<1>1. /\ next = loads /\ Asked /\ ~Working /\ Kept /\ cef = "idle" /\ ~Has(cmds, "loadfile") /\ loads # None
      /\ loads \in Nat
  BY BoundsAssumption DEF MpvSwitch, SessionInv, AskedInv, Asked, SessionTypes
<1>2. /\ playing' = loads /\ next' = None /\ opened' = FALSE /\ tracks' = None /\ paused' = TRUE
      /\ UNCHANGED <<smVars, loads, cef, pending, inputq, todo, taken, cmds>>
  BY <1>1 DEF MpvSwitch
<1>3. OrderInv' /\ EventInv' /\ PresentInv' /\ SwitchInv' /\ (Loaded' <=> Loaded) /\ ~Asked'
  <2>1. ~Asked'
    BY <1>1, <1>2 DEF Asked
  <2>2. CASE playing # None
    <3>1. evq' = Append(evq, EndEvent("Canceled", playing)) /\ "Canceled" \in EndReason
      BY <2>2 DEF MpvSwitch, EndReason
    <3> QED
      BY <1>1, <1>2, <2>1, <2>2, <3>1, EndKeeps
  <2>3. CASE playing = None
    <3>1. evq' = evq
      BY <2>3 DEF MpvSwitch
    <3>2. Stream' = Stream /\ Loaded' = Loaded /\ ~Loaded
      BY <1>1, <1>2, <3>1, StillFiles DEF Working
    <3>3. OrderInv'
      BY <1>2, <3>2 DEF SessionInv, OrderInv, Loaded
    <3>4. EventInv'
      BY <1>1, <1>2, <2>1, <3>2 DEF SessionInv, EventInv
    <3>5. PresentInv'
      BY <1>2 DEF PresentInv
    <3>6. SwitchInv'
      <4> SUFFICES ASSUME NEW old \in 1..loads, Replaced(old)', NEW new \in 1..loads, old < new
                   PROVE  pending_load' \/ Starts(new)'
        BY <1>2 DEF SwitchInv
      <4>1. Replaced(old)
        BY <1>1, <1>2, <3>2 DEF Replaced
      <4> QED
        BY <1>2, <4>1 DEF SessionInv, SwitchInv, Starts
    <3> QED
      BY <2>1, <3>2, <3>3, <3>4, <3>5, <3>6
  <2> QED
    BY <2>2, <2>3
<1>4. ~Working' /\ Kept' /\ CmdInv'
  BY <1>1, <1>2, <1>3 DEF Working, Selecting, Kept, SessionInv, CmdInv
<1>5. AskedInv' /\ WorkingInv'
  BY <1>1, <1>2, <1>3, <1>4 DEF AskedInv, WorkingInv, Working, Asked
<1>6. FileInv'
  BY <1>1, <1>2, <1>4 DEF FileInv
<1> QED
  BY <1>3, <1>4, <1>5, <1>6 DEF SessionInv

(* mpv has opened the file and tells of it.                                 *)
LEMMA OpenedStep ==
  ASSUME SessionTypes, SessionInv, MpvOpened
  PROVE  SessionInv'
<1> DEFINE e == FileEvent("FileLoaded", playing)
           n == Len(Stream) + 1
<1> USE DEF pageVars, smVars, private
<1>1. /\ playing = loads /\ ~Working /\ tracks = None /\ Kept /\ ~Asked /\ loads # None /\ loads \in Nat
      /\ inputq \in Seq(SentInput) /\ evq \in Seq(SentInput)
      /\ opened' = TRUE /\ evq' = Append(evq, e)
      /\ UNCHANGED <<smVars, loads, cef, pending, inputq, todo, taken, cmds, playing, next, tracks, paused>>
  BY BoundsAssumption DEF MpvOpened, SessionInv, FileInv, AskedInv, SessionTypes
<1>2. e \in SentInput /\ Tells(e, "FileLoaded") /\ ~Tells(e, "EndFile") /\ e.load = playing
  <2>1. e \in SentInput
    BY <1>1, InputsAre
  <2> QED
    BY <2>1 DEF FileEvent, Sent, Tells
<1> HIDE DEF e
<1>3. /\ n \in Nat /\ n > 0 /\ Len(Stream') = n /\ Stream'[n] = e
      /\ \A i \in 1..Len(Stream) : Stream'[i] = Stream[i]
      /\ \A i \in 1..Len(Stream') : i \in 1..Len(Stream) \/ i = n
  <2>1. /\ n \in Nat /\ Len(Stream') = n /\ Stream'[n] = e
        /\ \A i \in 1..Len(Stream) : Stream'[i] = Stream[i]
    BY <1>1, <1>2, EventLast DEF Stream
  <2>2. Len(Stream) \in Nat
    BY <1>1, StreamParts DEF Joined, Stream
  <2> QED
    BY <2>1, <2>2
<1> HIDE DEF n
<1>4. Loaded' /\ Working' /\ ~Asked' /\ ~Loaded /\ ~Selecting' /\ todo' = <<>> /\ taken' = None /\ Kept' /\ CmdInv'
  <2>1. n \in 1..Len(Stream')
    BY <1>3
  <2> QED
    BY <1>1, <1>2, <1>3, <2>1 DEF Loaded, Working, Asked, Selecting, Has, Kept, SessionInv, CmdInv
<1>5. AskedInv' /\ WorkingInv' /\ FileInv'
  BY <1>1, <1>4 DEF SessionInv, AskedInv, WorkingInv, FileInv, Kept
<1>6. OrderInv'
  <2> SUFFICES ASSUME NEW i \in 1..Len(Stream'), NEW j \in 1..Len(Stream'), i < j,
                      IsFile(Stream'[i]), IsFile(Stream'[j])
               PROVE  /\ Tells(Stream'[j], "EndFile") => Stream'[j].load = loads'
                      /\ Tells(Stream'[i], "FileLoaded") => Tells(Stream'[j], "EndFile") /\ playing' = None
                      /\ Tells(Stream'[i], "EndFile") /\ Tells(Stream'[j], "EndFile") =>
                           Stream'[i].load # Stream'[j].load
    BY DEF OrderInv
  <2>1. i \in 1..Len(Stream) /\ Stream'[i] = Stream[i]
    BY <1>3
  <2>2. ~Tells(Stream[i], "FileLoaded")
    BY <1>4, <2>1 DEF Loaded
  <2>3. CASE j = n
    BY <1>2, <1>3, <2>1, <2>2, <2>3
  <2>4. CASE j # n
    <3>1. j \in 1..Len(Stream) /\ Stream'[j] = Stream[j]
      BY <1>3, <2>4
    <3> QED
      BY <1>1, <2>1, <3>1 DEF SessionInv, OrderInv
  <2> QED
    BY <2>3, <2>4
<1>7. EventInv'
  <2> SUFFICES ASSUME NEW i \in 1..Len(Stream'), IsFile(Stream'[i])
               PROVE  /\ Stream'[i].load \in 1..loads'
                      /\ Tells(Stream'[i], "FileLoaded") => Stream'[i].load = loads'
                      /\ Tells(Stream'[i], "EndFile") => Stream'[i].load # playing'
    BY <1>4 DEF EventInv
  <2>1. CASE i = n
    BY <1>1, <1>2, <1>3, <2>1 DEF None
  <2>2. CASE i # n
    <3>1. i \in 1..Len(Stream) /\ Stream'[i] = Stream[i]
      BY <1>3, <2>2
    <3> QED
      BY <1>1, <3>1 DEF SessionInv, EventInv
  <2> QED
    BY <2>1, <2>2
<1>8. PresentInv'
  BY <1>4 DEF PresentInv
<1>9. SwitchInv'
  <2> SUFFICES ASSUME NEW old \in 1..loads, Replaced(old)', NEW new \in 1..loads, old < new
               PROVE  pending_load' \/ Starts(new)'
    BY <1>1 DEF SwitchInv
  <2>1. Replaced(old)
    BY <1>1, <1>2, <1>3 DEF Replaced
  <2> QED
    BY <1>1, <2>1 DEF SessionInv, SwitchInv, Starts
<1> QED
  BY <1>4, <1>5, <1>6, <1>7, <1>8, <1>9 DEF SessionInv

(* The file cannot be opened, or plays to its end.                          *)
LEMMA FinishStep ==
  ASSUME SessionTypes, SessionInv, MpvFailed \/ MpvFinished
  PROVE  SessionInv'
<1>1. playing # None
  BY DEF MpvFailed, MpvFinished, SessionInv, FileInv
<1>2. \E reason \in EndReason : MpvEnd(reason)
  BY DEF MpvFailed, MpvFinished, EndReason
<1>3. /\ UNCHANGED <<smVars, pageVars, pending, inputq, todo, taken>>
      /\ next' = next /\ cmds' = cmds
  BY DEF MpvFailed, MpvFinished
<1>4. CmdInv'
  BY <1>3 DEF SessionInv, CmdInv, pageVars
<1> QED
  BY <1>1, <1>2, <1>3, <1>4, EndStep

-----------------------------------------------------------------------------
(* Player session: the invariant and what it gives.                         *)

(* Nothing is asked for, open or told of at first.                          *)
LEMMA SessionStart == SessionInit => SessionTypes /\ SessionInv
<1> SUFFICES ASSUME SessionInit
             PROVE  SessionTypes /\ SessionInv
  OBVIOUS
<1>1. SessionTypes
  <2>1. SMTypeOK
    BY FreshType, ShortSeqType DEF SessionInit, SMInit, SMTypeOK
  <2>2. /\ <<>> \in Seq(SentInput) /\ <<>> \in Seq(PlaybackAction) /\ <<>> \in Seq(MpvCommandType)
        /\ 0 \in 0..MaxLoads /\ 0 \in 0..MaxStops
    BY BoundsAssumption
  <2>3. /\ inputq = <<>> /\ evq = <<>> /\ todo = <<>> /\ cmds = <<>> /\ loads = 0 /\ stops = 0
        /\ pending = [valid |-> FALSE, load |-> 0] /\ taken = 0 /\ next = 0 /\ tracks = 0 /\ playing = 0
        /\ opened = FALSE /\ paused = FALSE /\ reported = FALSE /\ cef = "idle"
    BY DEF SessionInit, None
  <2> QED
    BY <2>1, <2>2, <2>3 DEF SessionTypes
<1>2. Len(inputq) = 0 /\ Len(evq) = 0 /\ Len(cmds) = 0 /\ Stream = <<>> /\ Len(Stream) = 0
  BY DEF SessionInit, Stream
<1>3. ~Loaded /\ ~Working /\ ~Asked /\ ~Selecting
  BY <1>2 DEF Loaded, Working, Asked, Selecting, Has, SessionInit
<1>4. CmdInv /\ AskedInv /\ WorkingInv /\ FileInv
  BY <1>2, <1>3 DEF CmdInv, AskedInv, WorkingInv, FileInv, SessionInit, Has, None
<1>5. OrderInv /\ EventInv /\ PresentInv /\ SwitchInv
  BY <1>2 DEF OrderInv, EventInv, PresentInv, SwitchInv, SessionInit
<1> QED
  BY <1>1, <1>4, <1>5 DEF SessionInv

(* The session is well typed for any numbers of loads and stops, whether    *)
(* the page waits for its loads to settle or not.                           *)
THEOREM SessionTypeCorrect == SessionSpec => []SessionTypes
<1>1. SessionInit => SessionTypes
  BY SessionStart
<1> QED
  BY <1>1, SessionTypesStep, PTL DEF SessionSpec

(* Every step of a session whose page waits keeps the invariant.            *)
LEMMA SessionStep ==
  RapidLoads = FALSE /\ SessionTypes /\ SessionInv /\ [SessionNext]_sessionVars => SessionInv'
<1> SUFFICES ASSUME RapidLoads = FALSE, SessionTypes, SessionInv, [SessionNext]_sessionVars
             PROVE  SessionInv'
  OBVIOUS
<1>1. CASE UNCHANGED sessionVars
  <2> USE DEF sessionVars, smVars, private, pageVars, mpvVars
  <2>1. Stream' = Stream /\ SameFiles /\ Loaded' = Loaded /\ \A load : Starts(load)' = Starts(load)
    BY <1>1, StillFiles
  <2> QED
    BY <1>1, <2>1, PostKeeps
<1>2. CASE Threads
  BY <1>2, PostStep, StashStep, ApplyNextStep, TracksStep, CommandStep, SwitchStep DEF Threads
<1> QED
  BY <1>1, <1>2, LoadStep, StopStep, OpenedStep, FinishStep DEF SessionNext

(* The session's invariant, for every number of loads and stops.            *)
LEMMA SessionCorrect == RapidLoads = FALSE /\ SessionSpec => [](SessionTypes /\ SessionInv)
<1>1. RapidLoads = FALSE /\ SessionInit => RapidLoads = FALSE /\ SessionTypes /\ SessionInv
  BY SessionStart
<1> DEFINE K == RapidLoads = FALSE /\ SessionTypes /\ SessionInv
<1>2. K /\ [SessionNext]_sessionVars => K'
  BY SessionTypesStep, SessionStep
<1>3. K => SessionTypes /\ SessionInv
  OBVIOUS
<1> HIDE DEF K
<1>4. RapidLoads = FALSE /\ SessionInit => K
  BY <1>1 DEF K
<1> QED
  BY <1>2, <1>3, <1>4, PTL DEF SessionSpec

(* api.rs:422: the tracks of a load are never selected in the file of       *)
(* another, whatever the page stops and mpv ends or fails to open.          *)
THEOREM TracksCorrect == RapidLoads = FALSE /\ SessionSpec => []OwnTracks
<1>1. SessionInv => OwnTracks
  BY DEF SessionInv, FileInv, OwnTracks
<1> QED
  BY <1>1, SessionCorrect, PTL

(* When nothing is in flight, an open file has its tracks, is not paused    *)
(* and is told of as present.                                               *)
THEOREM OpenFileCorrect == RapidLoads = FALSE /\ SessionSpec => []OpenFilePlays
<1>1. SessionTypes /\ SessionInv => OpenFilePlays
  <2> SUFFICES ASSUME SessionInv, Quiet, opened
               PROVE  tracks = playing /\ ~paused /\ s.presence = "Present"
    BY DEF OpenFilePlays
  <2>1. Len(Stream) = 0 /\ Len(cmds) = 0
    BY DEF Quiet, Stream
  <2>2. ~Loaded /\ ~Working /\ ~Has(cmds, "unpause")
    BY <2>1 DEF Loaded, Working, Selecting, Has, Quiet
  <2> QED
    BY <2>2 DEF SessionInv, FileInv, PresentInv, Quiet
<1> QED
  BY <1>1, SessionCorrect, PTL

(* A step that takes the first input off the coordinator's queue applies it.*)
LEMMA OnlyApplies ==
  ASSUME SessionTypes, inputq # <<>>, inputq' = Tail(inputq), [SessionNext]_sessionVars
  PROVE  ApplyNext
<1>0. inputq \in Seq(SentInput) /\ Len(inputq') = Len(inputq) - 1 /\ Len(inputq) \in Nat
  BY DEF SessionTypes
<1>1. inputq' # inputq
  <2>1. \A n \in Nat : n - 1 # n
    OBVIOUS
  <2> QED
    BY <1>0, <2>1
<1>2. ASSUME NEW more, inputq' = Append(inputq, more) PROVE FALSE
  <2>1. Len(Append(inputq, more)) = Len(inputq) + 1
    BY <1>0
  <2> QED
    BY <1>0, <1>2, <2>1
<1>3. ~PostPosition /\ ~PostMetadata /\ ~RejectUrl
  <2>1. ASSUME NEW from, NEW to, NEW inputs \in Seq(SentInput), Post(from, to, inputs) PROVE FALSE
    <3>1. Len(inputq \o inputs) = Len(inputq) + Len(inputs) /\ Len(inputs) \in Nat
      BY <1>0
    <3> QED
      BY <1>0, <2>1, <3>1 DEF Post
  <2>2. loads \in Nat
    BY BoundsAssumption DEF SessionTypes
  <2>3. /\ <<Sent([op |-> "Position", position |-> 0], loads)>> \in Seq(SentInput)
        /\ <<Sent([op |-> "Metadata", type |-> "Audio"], loads)>> \in Seq(SentInput)
        /\ <<>> \in Seq(SentInput)
    BY <2>2, InputsAre
  <2> QED
    BY <2>1, <2>3 DEF PostPosition, PostMetadata, RejectUrl
<1>4. \A id \in Items \cup {NoItem} : ~PlayerLoad(id)
  BY <1>2 DEF PlayerLoad
<1>5. ~DeliverEvent /\ ~ReportPause
  BY <1>2 DEF DeliverEvent, ReportPause
<1> QED
  BY <1>1, <1>3, <1>4, <1>5 DEF SessionNext, Threads, sessionVars, PlayerStop, StashTracks,
     SendLoadfile, TakeTracks, WriteTracks, MpvCommand, MpvSwitch, MpvOpened, MpvFailed, MpvFinished

(* state_machine.rs:131: the end of a track that a newer load replaces is   *)
(* never told to the sinks, whatever the order of the events around it.     *)
THEOREM FlickerCorrect == RapidLoads = FALSE /\ SessionSpec => NoStoppedFlicker
<1>1. SessionTypes /\ SessionInv /\ [SessionNext]_sessionVars =>
        [\A load \in Load : AppliesEnd(load) /\ Superseded(load) => ~EmitsTerminal']_sessionVars
  <2> SUFFICES ASSUME SessionTypes, SessionInv, [SessionNext]_sessionVars,
                      NEW load \in Load, AppliesEnd(load), Superseded(load)
               PROVE  ~EmitsTerminal'
    OBVIOUS
  <2>1. PICK newer \in Load :
          /\ load < newer /\ newer <= loads
          /\ \A i \in DOMAIN inputq :
               ~(inputq[i].in.op = "LoadStarting" /\ inputq[i].load = newer)
    BY DEF Superseded
  <2>2. PICK reason \in {"Eof", "Canceled"} : Head(inputq) = EndEvent(reason, load)
    BY DEF AppliesEnd
  <2>3. ApplyNext /\ Apply(Head(inputq).in)
    BY OnlyApplies DEF AppliesEnd, ApplyNext
  <2>4. /\ inputq \in Seq(SentInput) /\ evq \in Seq(SentInput) /\ loads \in Nat /\ MaxLoads \in Nat
        /\ inputq # <<>> /\ SMTypeOK
    BY BoundsAssumption DEF SessionTypes, AppliesEnd
  <2>5. 1 \in 1..Len(Stream) /\ Stream[1] = EndEvent(reason, load)
    BY <2>2, <2>4, AppliedWithin DEF Stream
  <2>6. load \in 1..loads /\ newer \in 1..loads /\ load < loads
    BY <2>1, <2>4 DEF Load
  <2>7. Replaced(load)
    BY <2>5, <2>6 DEF Replaced, EndEvent, Sent, Tells
  <2>8. ~Starts(newer)
    <3>1. DOMAIN inputq = 1..Len(inputq)
      BY <2>4
    <3> QED
      BY <2>1, <3>1 DEF Starts, Tells
  <2>9. pending_load
    BY <2>1, <2>6, <2>7, <2>8 DEF SessionInv, SwitchInv
  <2>10. OnEndFile(reason)
    BY <2>2, <2>3 DEF Apply, EndEvent, Sent
  <2> QED
    BY <2>4, <2>9, <2>10, EndSwallowed
<1> QED
  BY <1>1, SessionCorrect, PTL DEF SessionSpec, NoStoppedFlicker

-----------------------------------------------------------------------------
(* The state machine under its threads. *)

(* What the coordinator does to the state machine, with its queue, batches, *)
(* sinks and shutdown, is what the state machine does by itself: an input   *)
(* is applied whole, by one thread, and it is one of the inputs there are.  *)
THEOREM CoordinatorRefined == CoordSpec => SMSpec
<1>1. CoordInit => SMInit
  BY DEF CoordInit
<1>2. CoordTypeOK /\ ApplyInv /\ [CoordNext]_vars => CoordTypeOK' /\ ApplyInv' /\ [SMNext]_smVars
  BY CoordTypeStep, ApplyStep, MachineStep
<1> QED
  BY <1>1, <1>2, CoordTypeInit, PTL DEF CoordSpec, SMSpec

(* The session moves the machine only by the inputs its worker takes.       *)
LEMMA SessionMoves ==
  ASSUME SessionTypes, [SessionNext]_sessionVars
  PROVE  [SMNext]_smVars
<1>1. CASE ApplyNext
  <2>1. inputq \in Seq(SentInput) /\ inputq # <<>> /\ Apply(Head(inputq).in)
    BY <1>1 DEF ApplyNext, SessionTypes
  <2>2. Head(inputq) \in SentInput
    BY <2>1
  <2>3. Head(inputq).in \in Input
    BY <2>2 DEF SentInput
  <2> QED
    BY <2>1, <2>3 DEF SMNext
<1>2. CASE UNCHANGED smVars
  BY <1>2
<1>3. ApplyNext \/ UNCHANGED smVars
  BY Zenon DEF SessionNext, sessionVars, PlayerLoad, PlayerStop, Threads, PostPosition,
     PostMetadata, RejectUrl, Post, StashTracks, SendLoadfile, TakeTracks, WriteTracks,
     MpvCommand, MpvSwitch, MpvOpened, MpvFailed, MpvFinished, DeliverEvent, ReportPause
<1> QED
  BY <1>1, <1>2, <1>3

(* So does a session of the page, the worker and mpv, for any loads and     *)
(* stops, whether the page waits for its loads to settle or not.            *)
THEOREM SessionRefined == SessionSpec => SMSpec
<1>1. SessionInit => SMInit
  BY DEF SessionInit
<1>2. SessionTypes /\ [SessionNext]_sessionVars => [SMNext]_smVars
  BY SessionMoves
<1> QED
  BY <1>1, <1>2, SessionTypeCorrect, PTL DEF SessionSpec, SMSpec

(* What the state machine promises it promises under its threads: the gate  *)
(* of the first frame, the announcement of every change, a clean stop, and  *)
(* the source of events that the media session relies on.                   *)
THEOREM PromisesKept ==
  CoordSpec \/ SessionSpec => PromotionGate /\ ChangesAnnounced /\ []NoLeftovers /\ ImplementsSource
BY CoordinatorRefined, SessionRefined, PromotionCorrect, AnnouncedCorrect, LeftoversCorrect,
   SourceRefined, PTL
=============================================================================
