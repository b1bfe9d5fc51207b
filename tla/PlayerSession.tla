---------------------------- MODULE PlayerSession ----------------------------
(***************************************************************************)
(* A playback session end to end: the web page asks for loads and stops     *)
(* (src/jfn_cef/src/business_web.rs), the mpv API stashes the wanted tracks *)
(* and sends asynchronous commands (src/mpv/src/api.rs), mpv answers with   *)
(* events, the event thread posts them and the coordinator's worker runs    *)
(* the state machine and, for each FILE_LOADED, applies the stashed tracks  *)
(* and unpauses.  mpv itself is external: it is modelled by what its API    *)
(* promises those callers.                                                  *)
(*                                                                          *)
(* A load is identified by its number.  Seeks, cache, idle and frame        *)
(* properties are left to PlaybackStateMachine and PlaybackCoordinator.     *)
(***************************************************************************)
EXTENDS PlaybackStateMachine

CONSTANTS
  MaxLoads,  \* bound on the loads the page asks for
  MaxStops,  \* bound on the stops the page asks for
  RapidLoads \* the page may ask for a load before the last one settled

ASSUME BoundsAssumption == MaxLoads \in Nat /\ MaxStops \in Nat
ASSUME RapidAssumption  == RapidLoads \in BOOLEAN

None == 0

VARIABLES
  loads,    \* loads asked for so far
  stops,    \* stops asked for so far
  cef,      \* where handle_player_load is: see PlayerLoad to SendLoadfile
  pending,  \* PendingTrack: the load whose tracks it names, and valid
  inputq,   \* the coordinator's queue
  todo,     \* actions of the batch being applied
  taken,    \* the load whose tracks the worker has taken and not yet written
  cmds,     \* mpv's FIFO of asynchronous commands
  playing,  \* the load mpv has open or is opening
  opened,   \* ... and whether it is open
  next,     \* the load mpv switches to
  tracks,   \* the load whose tracks are selected in the playing file
  paused,   \* mpv's pause property
  reported, \* its value in the last property-change event
  evq       \* mpv's event queue: events with the load they are about

pageVars == <<loads, stops, cef>>
mpvVars  == <<playing, opened, next, tracks, paused>>
sessionVars == <<smVars, pageVars, pending, inputq, todo, taken, cmds, mpvVars,
          reported, evq>>

Load == 1..MaxLoads

(* Inputs carry the load they are about: only the properties read it.       *)
Sent(in, load) == [in |-> in, load |-> load]
Command(op, load) == [op |-> op, load |-> load]

SessionInit ==
  /\ SMInit
  /\ loads = 0
  /\ stops = 0
  /\ cef = "idle"
  /\ pending = [valid |-> FALSE, load |-> None]
  /\ inputq = <<>>
  /\ todo = <<>>
  /\ taken = None
  /\ cmds = <<>>
  /\ playing = None
  /\ opened = FALSE
  /\ next = None
  /\ tracks = None
  /\ paused = FALSE
  /\ reported = FALSE
  /\ evq = <<>>

-----------------------------------------------------------------------------
(* The CEF UI thread: playerLoad and playerStop of the web page.            *)

(* The file events that mpv sent and the worker has not applied.            *)
InFlight ==
  LET sent == evq \o inputq
  IN {sent[i] : i \in {j \in DOMAIN sent : sent[j].in.op \in {"FileLoaded", "EndFile"}}}

(* Every load asked for has its tracks or has ended, and at most one       *)
(* END_FILE is on its way.                                                 *)
Settled ==
  /\ cmds = <<>> /\ next = None /\ todo = <<>> /\ taken = None
  /\ playing # None => tracks = playing
  /\ \A sent \in InFlight : sent.in.op = "EndFile"
  /\ \A one, other \in InFlight : one = other

PlayerLoad(id) ==
  /\ cef = "idle"
  /\ loads < MaxLoads
  /\ RapidLoads \/ Settled
  /\ loads' = loads + 1
  /\ cef' = "started"
  /\ inputq' = Append(inputq, Sent([op |-> "LoadStarting", id |-> id], loads'))
  /\ UNCHANGED <<smVars, stops, pending, todo, taken, cmds, mpvVars,
                 reported, evq>>

Post(from, to, inputs) ==
  /\ cef = from
  /\ cef' = to
  /\ inputq' = inputq \o inputs
  /\ UNCHANGED <<smVars, loads, stops, pending, todo, taken, cmds, mpvVars,
                 reported, evq>>

PostPosition ==
  Post("started", "seeded", <<Sent([op |-> "Position", position |-> 0], loads)>>)

(* A load may come without metadata.                                        *)
PostMetadata ==
  \E described \in BOOLEAN :
    Post("seeded", "announced",
         IF described
         THEN <<Sent([op |-> "Metadata", type |-> "Audio"], loads)>> ELSE <<>>)

(* An address that is no C string is warned of and the load goes no further. *)
RejectUrl == Post("announced", "idle", <<>>)

(* Mutants of Stashed: tracks not yet taken are kept; nothing is stashed.   *)
StashedOnce ==
  IF pending.valid THEN pending ELSE [valid |-> TRUE, load |-> loads]
StashedNothing == [valid |-> FALSE, load |-> loads]

Stashed == [valid |-> TRUE, load |-> loads]

StashTracks ==
  /\ cef = "announced"
  /\ cef' = "stashed"
  /\ pending' = Stashed
  /\ UNCHANGED <<smVars, loads, stops, inputq, todo, taken, cmds, mpvVars,
                 reported, evq>>

SendLoadfile ==
  /\ cef = "stashed"
  /\ cef' = "idle"
  /\ cmds' = Append(cmds, Command("loadfile", loads))
  /\ UNCHANGED <<smVars, loads, stops, pending, inputq, todo, taken, mpvVars,
                 reported, evq>>

PlayerStop ==
  /\ cef = "idle"
  /\ stops < MaxStops
  /\ stops' = stops + 1
  /\ cmds' = Append(cmds, Command("stop", None))
  /\ UNCHANGED <<smVars, loads, cef, pending, inputq, todo, taken, mpvVars,
                 reported, evq>>

-----------------------------------------------------------------------------
(* The coordinator's worker.  Inputs are local to the worker until a batch *)
(* is published, so a batch is any number of ApplyNext before its actions  *)
(* are dispatched.                                                         *)

ApplyNext ==
  /\ taken = None
  /\ inputq # <<>>
  /\ Apply(Head(inputq).in)
  /\ inputq' = Tail(inputq)
  /\ todo' = todo \o pending_actions'
  /\ UNCHANGED <<pageVars, pending, taken, cmds, mpvVars, reported, evq>>

(* apply_pending_track_selection_and_play: take the slot, then write.       *)
TakeTracks ==
  /\ taken = None
  /\ todo # <<>>
  /\ todo' = Tail(todo)
  /\ taken' = IF pending.valid THEN pending.load ELSE None
  /\ pending' = [pending EXCEPT !.valid = FALSE]
  /\ UNCHANGED <<smVars, pageVars, inputq, cmds, mpvVars, reported, evq>>

WriteTracks ==
  /\ taken # None
  /\ taken' = None
  /\ cmds' = cmds \o <<Command("select", taken), Command("unpause", taken)>>
  /\ UNCHANGED <<smVars, pageVars, pending, inputq, todo, mpvVars, reported,
                 evq>>

-----------------------------------------------------------------------------
(* mpv (external).                                                          *)

FileEvent(op, load) == Sent([op |-> op], load)
EndEvent(reason, load) == Sent([op |-> "EndFile", reason |-> reason], load)

(* The playing file ends; the file-local pause=yes goes with it.            *)
MpvEnd(reason) ==
  /\ evq' = Append(evq, EndEvent(reason, playing))
  /\ playing' = None
  /\ opened' = FALSE
  /\ tracks' = None
  /\ paused' = FALSE

MpvCommand ==
  /\ cmds # <<>>
  /\ cmds' = Tail(cmds)
  /\ LET c == Head(cmds) IN
     \/ /\ c.op = "loadfile"
        /\ next' = c.load
        /\ UNCHANGED <<playing, opened, tracks, paused, evq>>
     \/ /\ c.op = "stop"
        /\ next' = None
        /\ IF playing = None
           THEN UNCHANGED <<playing, opened, tracks, paused, evq>>
           ELSE MpvEnd("Canceled")
     \/ /\ c.op = "select"
        /\ tracks' = IF opened THEN c.load ELSE tracks
        /\ UNCHANGED <<playing, opened, next, paused, evq>>
     \/ /\ c.op = "unpause"
        /\ paused' = FALSE
        /\ UNCHANGED <<playing, opened, next, tracks, evq>>
  /\ UNCHANGED <<smVars, pageVars, pending, inputq, todo, taken, reported>>

(* The next file replaces the playing one and starts opening, paused.       *)
MpvSwitch ==
  /\ next # None
  /\ evq' = IF playing = None THEN evq
            ELSE Append(evq, EndEvent("Canceled", playing))
  /\ playing' = next
  /\ next' = None
  /\ opened' = FALSE
  /\ tracks' = None
  /\ paused' = TRUE
  /\ UNCHANGED <<smVars, pageVars, pending, inputq, todo, taken, cmds,
                 reported>>

MpvOpened ==
  /\ playing # None /\ ~opened /\ next = None
  /\ opened' = TRUE
  /\ evq' = Append(evq, FileEvent("FileLoaded", playing))
  /\ UNCHANGED <<smVars, pageVars, pending, inputq, todo, taken, cmds,
                 playing, next, tracks, paused, reported>>

MpvFailed ==
  /\ playing # None /\ ~opened
  /\ MpvEnd("Error")
  /\ UNCHANGED <<smVars, pageVars, pending, inputq, todo, taken, cmds, next,
                 reported>>

MpvFinished ==
  /\ opened /\ ~paused
  /\ MpvEnd("Eof")
  /\ UNCHANGED <<smVars, pageVars, pending, inputq, todo, taken, cmds, next,
                 reported>>

(* The mpv event thread: events in order, then changed properties, whose   *)
(* intermediate values mpv does not report.                                *)
DeliverEvent ==
  /\ evq # <<>>
  /\ inputq' = Append(inputq, Head(evq))
  /\ evq' = Tail(evq)
  /\ UNCHANGED <<smVars, pageVars, pending, todo, taken, cmds, mpvVars,
                 reported>>

ReportPause ==
  /\ evq = <<>>
  /\ paused # reported
  /\ reported' = paused
  /\ inputq' = Append(inputq,
                     Sent([op |-> "PauseChanged", flag |-> paused], playing))
  /\ UNCHANGED <<smVars, pageVars, pending, todo, taken, cmds, mpvVars, evq>>

Threads ==
  \/ PostPosition \/ PostMetadata \/ RejectUrl \/ StashTracks \/ SendLoadfile
  \/ ApplyNext \/ TakeTracks \/ WriteTracks
  \/ MpvCommand \/ MpvSwitch
  \/ DeliverEvent \/ ReportPause

SessionNext ==
  \/ \E id \in Items \cup {NoItem} : PlayerLoad(id)
  \/ PlayerStop
  \/ Threads
  \/ MpvOpened \/ MpvFailed \/ MpvFinished

Opening == MpvOpened \/ MpvFailed

SessionFairness ==
  /\ WF_sessionVars(PostPosition) /\ WF_sessionVars(PostMetadata)
  /\ WF_sessionVars(RejectUrl \/ StashTracks) /\ WF_sessionVars(SendLoadfile)
  /\ WF_sessionVars(ApplyNext) /\ WF_sessionVars(TakeTracks) /\ WF_sessionVars(WriteTracks)
  /\ WF_sessionVars(MpvCommand) /\ WF_sessionVars(MpvSwitch) /\ WF_sessionVars(Opening)
  /\ WF_sessionVars(DeliverEvent) /\ WF_sessionVars(ReportPause)

SessionSpec == SessionInit /\ [][SessionNext]_sessionVars /\ SessionFairness

-----------------------------------------------------------------------------
Quiet == inputq = <<>> /\ evq = <<>> /\ todo = <<>> /\ taken = None
         /\ cmds = <<>> /\ next = None /\ cef = "idle"

(* A newer load than `load` was announced to the state machine.             *)
Superseded(load) ==
  \E newer \in Load :
    /\ load < newer /\ newer <= loads
    /\ \A i \in DOMAIN inputq :
         ~(inputq[i].in.op = "LoadStarting" /\ inputq[i].load = newer)

(* The step applies the END_FILE of `load`, which did not fail.             *)
AppliesEnd(load) ==
  /\ inputq # <<>>
  /\ inputq' = Tail(inputq)
  /\ \E reason \in {"Eof", "Canceled"} : Head(inputq) = EndEvent(reason, load)

(* No Stopped flicker between tracks: the end of a track that a newer load *)
(* replaces is not announced, in whatever order its END_FILE, the new load *)
(* and mpv's own end of file arrive.                                       *)
NoStoppedFlicker ==
  [][\A load \in Load : AppliesEnd(load) /\ Superseded(load) => ~EmitsTerminal']_sessionVars

(* state_machine.rs:131 says of pending_load that a fresh load is in       *)
(* flight: an end is eaten only when a newer load replaces the track.      *)
SwallowsOnlySuperseded ==
  [][\A load \in Load : AppliesEnd(load) /\ ~EmitsTerminal' => Superseded(load)]_sessionVars

(* api.rs:422: the tracks a load asked for are applied to its own file.     *)
OwnTracks == tracks \in {None, playing}

(* When nothing is in flight, an open file has its tracks, is not paused,  *)
(* and the player is present.                                              *)
OpenFilePlays ==
  Quiet /\ opened => /\ tracks = playing
                     /\ ~paused
                     /\ s.presence = "Present"
=============================================================================
