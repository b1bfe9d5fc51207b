-------------------------- MODULE PlaybackLifecycle --------------------------
(***************************************************************************)
(* What the playback state machine promises the components that only hear  *)
(* its events (browser, idle inhibit, media session): which lifecycle      *)
(* event accompanies which change of phase, and which changes can happen.  *)
(* PlaybackStateMachine implements it.                                     *)
(***************************************************************************)
VARIABLES
  phase,     \* the published phase
  loading,   \* a load was announced whose predecessor has not ended yet
  announced  \* the lifecycle events of the last step

lifecycleVars == <<phase, loading, announced>>

Ending == {"Finished", "Canceled", "Error"}

Init == phase = "Stopped" /\ loading = FALSE /\ announced = {}

(* A load is announced (loading) or its file is open (no longer loading).   *)
Load ==
  /\ phase' = "Starting"
  /\ announced' = {"TrackLoaded"}
  /\ loading' \in BOOLEAN

Start ==
  /\ phase \in {"Starting", "Paused"}
  /\ phase' = "Playing"
  /\ announced' = {"Started"}
  /\ UNCHANGED loading

Pause ==
  /\ phase \in {"Starting", "Playing"}
  /\ phase' = "Paused"
  /\ announced' = {"Paused"}
  /\ UNCHANGED loading

(* The track ended: exactly one ending is announced and no load is left.    *)
End ==
  /\ phase' = "Stopped"
  /\ \E ending \in Ending : announced' = {ending}
  /\ loading' = FALSE

(* The end of the old track during a switch is not announced, and there is  *)
(* at most one such end for an announced load.                              *)
Switch ==
  /\ loading
  /\ phase' = "Starting"
  /\ announced' = {}
  /\ loading' = FALSE

(* Any other input leaves the lifecycle alone and announces nothing of it.  *)
Other == announced' = {} /\ UNCHANGED <<phase, loading>>

Next == Load \/ Start \/ Pause \/ End \/ Switch \/ Other
Spec == Init /\ [][Next]_lifecycleVars
=============================================================================
