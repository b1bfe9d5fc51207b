---------------------------- MODULE PlaybackSource ----------------------------
(***************************************************************************)
(* What the playback state machine promises a component that shows the     *)
(* player and only hears its events: PlaybackLifecycle, and what becomes   *)
(* of seeking and buffering on the way, each change with its event.        *)
(* PlaybackStateMachine implements it, MediaSession is driven by it.       *)
(***************************************************************************)
EXTENDS PlaybackLifecycle

VARIABLES
  seeking, buffering, \* the rest of the snapshot that shows
  noticed             \* the events of the last step beside the lifecycle's

sourceVars == <<lifecycleVars, seeking, buffering, noticed>>

SourceInit == Init /\ seeking = FALSE /\ buffering = FALSE /\ noticed = {}

If(change, kind) == IF change THEN {kind} ELSE {}
Changes == If(seeking' # seeking, "SeekingChanged")
           \cup If(buffering' # buffering, "BufferingChanged")

(* A load ends a seek, and TrackLoaded stands for what changes.  A start   *)
(* may come of the end of buffering; an end or a switch settles both.  Any *)
(* other input flips one of the two at most, and none while stopped.        *)
SourceNext ==
  \/ Load /\ seeking' = FALSE /\ buffering' \in BOOLEAN /\ noticed' = {}
  \/ /\ \/ Start /\ UNCHANGED seeking /\ buffering' \in {FALSE, buffering}
        \/ Pause /\ UNCHANGED <<seeking, buffering>>
        \/ End /\ seeking' = FALSE /\ buffering' = FALSE
        \/ Switch /\ seeking' = FALSE /\ buffering' = FALSE
        \/ Other /\ UNCHANGED <<seeking, buffering>>
        \/ Other /\ phase # "Stopped" /\ UNCHANGED seeking /\ buffering' = ~buffering
        \/ Other /\ phase # "Stopped" /\ UNCHANGED buffering /\ seeking' = ~seeking
     /\ noticed' = Changes

SourceSpec == SourceInit /\ [][SourceNext]_sourceVars
=============================================================================
