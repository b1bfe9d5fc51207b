----------------------------- MODULE MediaSession -----------------------------
(***************************************************************************)
(* The media session of the desktop: MPRIS on Linux (mpris/sink.rs and     *)
(* projection.rs), the system transport controls on Windows and the now-   *)
(* playing centre on macOS (windows_sink, macos_sink over the harness of   *)
(* playback/sink_core.rs).                                                 *)
(*                                                                         *)
(* The coordinator's worker publishes a batch of events, each stamped with *)
(* the final state of the batch, and hands them to the sink, whose own     *)
(* thread shows them.  The source of the events is the promise the         *)
(* playback state machine implements, PlaybackSource.                      *)
(***************************************************************************)
EXTENDS Naturals, Sequences

CONSTANTS
    Transports, \* which of "mpris", "smtc" and "now_playing" there are
    MediaItems, \* item ids of the metadata the page sends
    Untitled,   \* no metadata
    QueueCap,   \* EVENT_QUEUE_CAP of the harness
    MaxWaiting  \* bound: no input is applied while more events wait

ASSUME MediaAssumption ==
    /\ Transports \subseteq {"mpris", "smtc", "now_playing"}
    /\ Untitled \notin MediaItems
    /\ QueueCap \in Nat \ {0} /\ MaxWaiting \in Nat

VARIABLES
    phase, loading, announced, seeking, buffering, noticed, \* the playback, as PlaybackSource has it
    batch,     \* the events of the batch the coordinator's worker is applying
    transport, \* the transport of this desktop
    channel,   \* the queue between the coordinator and the sink's thread
    dropped,   \* history: the queue was full for an event
    cached,    \* the metadata the sink keeps
    shown,     \* what the desktop shows
    sink       \* the life of the sink's thread

playback == <<phase, loading, announced, seeking, buffering, noticed>>
sinkState == <<transport, channel, dropped, cached, shown, sink>>
mediaVars == <<playback, batch, sinkState>>

Promise == INSTANCE PlaybackSource

TerminalKinds == {"Finished", "Canceled", "Error"}
PhaseKinds == {"TrackLoaded", "Started", "Paused"} \cup TerminalKinds
MediaKinds == PhaseKinds \cup {"SeekingChanged", "BufferingChanged", "MetadataChanged"}
Snapshots == [phase : {"Stopped", "Starting", "Playing", "Paused"}, seeking : BOOLEAN,
              buffering : BOOLEAN]
Of(kind) == [kind |-> kind, item |-> Untitled]
Views == [status : {"Stopped", "Playing", "Paused"}, rate : {0, 1}, item : MediaItems \cup {Untitled}]

MediaInit ==
    /\ Promise!SourceInit
    /\ batch = <<>>
    /\ transport \in Transports
    /\ channel = <<>> /\ dropped = FALSE
    /\ cached = Untitled
    /\ shown = [status |-> "Stopped", rate |-> 1, item |-> Untitled]
    /\ sink = "running"

-----------------------------------------------------------------------------
(* The coordinator's worker. *)

(* What is applied once the sink was stopped reaches nobody. *)
HasRoom == sink = "running" /\ Len(batch) + Len(channel) < MaxWaiting

If(change, kind) == IF change THEN <<Of(kind)>> ELSE <<>>

(* One input: a step of the source, and its events, the lifecycle's last.   *)
ApplyInput ==
    /\ HasRoom
    /\ Promise!SourceNext
    /\ batch' = batch \o (If("SeekingChanged" \in noticed', "SeekingChanged")
                    \o If("BufferingChanged" \in noticed', "BufferingChanged")
                    \o (IF announced' = {} THEN <<>>
                        ELSE <<Of(CHOOSE kind \in announced' : TRUE)>>))
    /\ UNCHANGED sinkState

ApplyMetadata ==
    /\ HasRoom
    /\ \E item \in MediaItems : batch' = Append(batch, [kind |-> "MetadataChanged", item |-> item])
    /\ UNCHANGED <<playback, sinkState>>

Stamped == [i \in DOMAIN batch |->
              [kind |-> batch[i].kind, item |-> batch[i].item,
               snap |-> [phase |-> phase, seeking |-> seeking, buffering |-> buffering]]]

(* MPRIS: deliver takes the lock of the sink's slot, which stop holds until *)
(* the thread has been joined, and sends to an unbounded channel.           *)
PublishMpris ==
    /\ transport = "mpris" /\ batch # <<>> /\ sink # "stopping"
    /\ channel' = IF sink = "running" THEN channel \o Stamped ELSE channel
    /\ UNCHANGED dropped

(* The harness: a full queue drops the newest. *)
PublishQueued ==
    /\ transport # "mpris" /\ batch # <<>>
    /\ LET all == channel \o Stamped
       IN  IF Len(all) > QueueCap
           THEN channel' = SubSeq(all, 1, QueueCap) /\ dropped' = TRUE
           ELSE channel' = all /\ UNCHANGED dropped

Publish ==
    /\ PublishMpris \/ PublishQueued
    /\ batch' = <<>>
    /\ UNCHANGED <<playback, transport, cached, shown, sink>>

-----------------------------------------------------------------------------
(* The sink's thread. *)

(* projection.rs: project, over the snapshot of the event. *)
Active(snap) == snap.phase # "Stopped"
(* Mutant of StatusFor: a start is shown as such. *)
StatusForRaw(snap) == snap.phase

StatusFor(snap) == IF snap.phase = "Starting" THEN "Playing" ELSE snap.phase
Rolling(snap) == snap.phase = "Playing" /\ ~snap.seeking /\ ~snap.buffering
Project(snap, item) ==
    [status |-> StatusFor(snap), rate |-> IF Rolling(snap) THEN 1 ELSE 0,
     item |-> IF Active(snap) THEN item ELSE Untitled]

(* Metadata of the item already known keeps the view. *)
HandleMpris(event) ==
    /\ transport = "mpris"
    /\ IF event.kind = "MetadataChanged" /\ event.item = cached
       THEN UNCHANGED <<cached, shown>>
       ELSE /\ cached' = IF event.kind = "MetadataChanged" THEN event.item ELSE cached
            /\ shown' = Project(event.snap, cached')

(* Mutant of MapKindToPhase: a cancel is not a stop. *)
MapKindUncanceled(kind) ==
    IF kind = "Started" THEN "Playing"
    ELSE IF kind \in {"Paused", "TrackLoaded", "Canceled"} THEN "Paused" ELSE "Stopped"

(* map_kind_to_phase of the harness: the phase comes from the event's kind. *)
MapKindToPhase(kind) ==
    IF kind = "Started" THEN "Playing"
    ELSE IF kind \in {"Paused", "TrackLoaded"} THEN "Paused" ELSE "Stopped"

(* A stop forgets the metadata.  Windows shows what it keeps at the next   *)
(* start, macOS at once.                                                   *)
DeliverQueued(event) ==
    /\ transport # "mpris"
    /\ LET status == MapKindToPhase(event.kind)
           isPhase == event.kind \in PhaseKinds
           stopped == isPhase /\ status = "Stopped"
       IN  /\ cached' = IF stopped THEN Untitled
                        ELSE IF event.kind = "MetadataChanged" THEN event.item ELSE cached
           /\ shown' =
                IF stopped THEN [shown EXCEPT !.status = status, !.item = Untitled]
                ELSE IF isPhase
                THEN [shown EXCEPT !.status = status,
                                   !.item = IF transport = "smtc" /\ status = "Playing" THEN cached ELSE @]
                ELSE IF event.kind = "MetadataChanged" /\ transport = "now_playing"
                THEN [shown EXCEPT !.item = event.item] ELSE shown

Deliver ==
    /\ channel # <<>> /\ sink # "stopped"
    /\ HandleMpris(Head(channel)) \/ DeliverQueued(Head(channel))
    /\ channel' = Tail(channel)
    /\ UNCHANGED <<playback, batch, transport, dropped, sink>>

(* stop: MPRIS sends Stop behind the events and joins, the harness clears  *)
(* `running`.                                                              *)
StopSink ==
    /\ sink = "running"
    /\ sink' = "stopping"
    /\ UNCHANGED <<playback, batch, transport, channel, dropped, cached, shown>>

(* MPRIS leaves the bus once it has read up to the Stop; a thread of the   *)
(* harness finishes the events it drained, and takes down what is shown.   *)
(* What is published later is never shown.                                 *)
SinkEnds ==
    /\ sink = "stopping"
    /\ transport = "mpris" => channel = <<>>
    /\ sink' = "stopped"
    /\ batch' = <<>> /\ channel' = <<>>
    /\ shown' = [shown EXCEPT !.status = "Stopped", !.item = Untitled]
    /\ UNCHANGED <<playback, transport, dropped, cached>>

MediaNext == ApplyInput \/ ApplyMetadata \/ Publish \/ Deliver \/ StopSink \/ SinkEnds
MediaSpec == MediaInit /\ [][MediaNext]_mediaVars

-----------------------------------------------------------------------------
MediaTypeOK ==
    /\ phase \in {"Stopped", "Starting", "Playing", "Paused"}
    /\ loading \in BOOLEAN /\ announced \subseteq PhaseKinds
    /\ seeking \in BOOLEAN /\ buffering \in BOOLEAN
    /\ noticed \subseteq {"SeekingChanged", "BufferingChanged"}
    /\ batch \in Seq([kind : MediaKinds, item : MediaItems \cup {Untitled}])
    /\ transport \in Transports /\ dropped \in BOOLEAN
    /\ channel \in Seq([kind : MediaKinds, item : MediaItems \cup {Untitled}, snap : Snapshots])
    /\ cached \in MediaItems \cup {Untitled} /\ shown \in Views
    /\ sink \in {"running", "stopping", "stopped"}

(* What the desktop shows catches up: once every event was delivered and   *)
(* none was dropped, it is what the player does, although a transport of   *)
(* the harness knows the kinds of the events and not the phase.  Starting  *)
(* is left out: the end swallowed by a switch announces nothing.           *)
MediaQuiet == batch = <<>> /\ channel = <<>> /\ sink = "running" /\ ~dropped
TransportMirrors ==
    MediaQuiet /\ phase # "Starting" =>
        /\ shown.status = phase
        /\ phase = "Stopped" /\ transport # "now_playing" => shown.item = Untitled
        /\ transport = "mpris" =>
             /\ phase = "Playing" => (shown.rate = 0 <=> seeking \/ buffering)
             /\ phase # "Stopped" => shown.item = cached
=============================================================================
