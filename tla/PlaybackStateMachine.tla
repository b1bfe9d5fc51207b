------------------------ MODULE PlaybackStateMachine ------------------------
(***************************************************************************)
(* The pure playback state machine of src/playback/src/state_machine.rs,   *)
(* one action per handler, and the coordinator's routing of an input to    *)
(* its handlers (coordinator.rs, apply).  The environment is every order   *)
(* of inputs: they are posted by the mpv event thread, by the CEF UI       *)
(* thread and by the media-session threads, with no order between them.    *)
(***************************************************************************)
EXTENDS Naturals, Sequences

CONSTANTS
  Items,      \* the non-empty Jellyfin item ids
  NoItem,     \* the empty id of a load without metadata
  Positions,  \* the playback positions told apart, 0 among them
  Settings,   \* the plain edge-triggered fields: rate, duration, OSD size, ...
  Values      \* the values a setting takes, 0 being the one it starts with

ASSUME NoItemAssumption    == NoItem \notin Items
ASSUME PositionsAssumption == 0 \in Positions
ASSUME ValuesAssumption    == 0 \in Values

MediaType == {"Unknown", "Audio", "Video"}
Phase     == {"Starting", "Playing", "Paused", "Stopped"}
EndReason == {"Eof", "Canceled", "Error"}

VARIABLES
  s,                   \* PlaybackSnapshot, the public part of the state
  pending_load,        \* a load was announced and its END_FILE not yet eaten
  pause_requested,     \* an unpause was observed (the source's name for it)
  paused_for_cache,    \* mpv's paused-for-cache
  core_idle,           \* mpv's core-idle
  frame_available,     \* a video frame of the current file was presented
  last_known_item_id,  \* the item of the running track, NoItem after it ends
  emitted,             \* the events the last input returned
  pending_actions      \* the actions the last input pushed, consumed with it

private == <<pending_load, pause_requested, paused_for_cache, core_idle,
             frame_available, last_known_item_id>>
smVars == <<s, private, emitted, pending_actions>>

PlaybackSnapshot ==
  [presence: {"None", "Present"}, phase: Phase, seeking: BOOLEAN,
   buffering: BOOLEAN, media_type: MediaType, position_us: Positions,
   variant_switch_pending: BOOLEAN, fullscreen: BOOLEAN,
   maximized_before_fullscreen: BOOLEAN, settings: [Settings -> Values]]

Fresh ==
  [presence |-> "None", phase |-> "Stopped", seeking |-> FALSE,
   buffering |-> FALSE, media_type |-> "Unknown", position_us |-> 0,
   variant_switch_pending |-> FALSE, fullscreen |-> FALSE,
   maximized_before_fullscreen |-> FALSE, settings |-> [x \in Settings |-> 0]]

EventKind ==
  {"Started", "Paused", "Finished", "Canceled", "Error", "SeekingChanged",
   "BufferingChanged", "MediaTypeChanged", "TrackLoaded", "PositionChanged",
   "FullscreenChanged", "SettingChanged", "MetadataChanged",
   "ArtworkChanged", "QueueCapsChanged", "Seeked"}

PlaybackEvent == [kind: EventKind, flag: BOOLEAN]
PlaybackAction == {"ApplyPendingTrackSelectionAndPlay"}

Event(kind)           == [kind |-> kind, flag |-> FALSE]
FlagEvent(kind, flag) == [kind |-> kind, flag |-> flag]
If(cond, event)       == IF cond THEN <<event>> ELSE <<>>

(* Mutant of Terminal: the end reason is passed on as it is.                *)
TerminalUnmapped(reason) == reason

Terminal(reason) ==
  CASE reason = "Eof"      -> "Finished"
    [] reason = "Canceled" -> "Canceled"
    [] OTHER               -> "Error"

(* Mutant of IsActivePhase: a stopped player too.                           *)
ActiveEvenStopped(phase) == phase \in Phase

IsActivePhase(phase) == phase \in {"Starting", "Playing", "Paused"}

(* Mutant of ReadyToPlay: the first frame is not waited for.                *)
ReadyAtOnce(type, frame) == TRUE

ReadyToPlay(type, frame) == type # "Video" \/ frame

(* Mutants of TransitionToPlaying: the variant flag outlives the load; the  *)
(* buffering flag is dropped with no event.                                 *)
ToPlayingKeepingVariant(t) == [t EXCEPT !.phase = "Playing"]
ToPlayingUnbuffered(t) ==
  [t EXCEPT !.phase = "Playing", !.variant_switch_pending = FALSE,
            !.buffering = FALSE]

TransitionToPlaying(t) ==
  [t EXCEPT !.phase = "Playing", !.variant_switch_pending = FALSE]

-----------------------------------------------------------------------------
(* Handlers.  Each one determines s', the private state, emitted' and      *)
(* pending_actions'; Ignored is the early return with no event.            *)

NoAction == pending_actions' = <<>>
Ignored  == s' = s /\ emitted' = <<>>

OnFileLoaded ==
  /\ s' = [s EXCEPT !.presence = "Present", !.phase = "Starting",
                    !.seeking = FALSE,
                    !.buffering = paused_for_cache \/ core_idle]
  /\ pending_load' = FALSE
  /\ pause_requested' = FALSE
  /\ frame_available' = FALSE
  /\ emitted' = <<Event("TrackLoaded")>>
  /\ pending_actions' = <<"ApplyPendingTrackSelectionAndPlay">>
  /\ UNCHANGED <<paused_for_cache, core_idle, last_known_item_id>>

OnLoadStarting(id) ==
  /\ s' = [s EXCEPT !.presence = "Present", !.phase = "Starting",
                    !.seeking = FALSE,
                    !.buffering = paused_for_cache \/ core_idle,
                    !.variant_switch_pending =
                       id # NoItem /\ id = last_known_item_id]
  /\ pending_load' = TRUE
  /\ last_known_item_id' = IF id = NoItem THEN last_known_item_id ELSE id
  /\ pause_requested' = FALSE
  /\ frame_available' = FALSE
  /\ emitted' = <<Event("TrackLoaded")>>
  /\ NoAction
  /\ UNCHANGED <<paused_for_cache, core_idle>>

Pausing ==
  IF s.phase = "Paused"
  THEN Ignored
  ELSE s' = [s EXCEPT !.phase = "Paused"] /\ emitted' = <<Event("Paused")>>

Unpausing ==
  IF \/ s.phase = "Paused"
     \/ /\ s.phase = "Starting"
        /\ ~s.buffering
        /\ ReadyToPlay(s.media_type, frame_available)
  THEN s' = TransitionToPlaying(s) /\ emitted' = <<Event("Started")>>
  ELSE Ignored

OnPauseChanged(paused) ==
  /\ IF s.presence = "None" \/ s.phase = "Stopped"
     THEN Ignored /\ UNCHANGED pause_requested
     ELSE pause_requested' = ~paused /\ IF paused THEN Pausing ELSE Unpausing
  /\ NoAction
  /\ UNCHANGED <<pending_load, paused_for_cache, core_idle, frame_available,
                 last_known_item_id>>

(* Mutants of Swallows: every EOF or cancel is eaten; only an EOF is.       *)
SwallowsAlways(reason) == reason # "Error"
SwallowsOnlyEof(reason) == pending_load /\ reason = "Eof"

(* A track switch eats the old track's EOF or cancel: the load announced by *)
(* on_load_starting is in flight.                                           *)
Swallows(reason) == pending_load /\ reason # "Error"

OnEndFile(reason) ==
  LET settled == If(s.seeking, FlagEvent("SeekingChanged", FALSE))
                 \o If(s.buffering, FlagEvent("BufferingChanged", FALSE))
      calm == [s EXCEPT !.seeking = FALSE, !.buffering = FALSE]
  IN /\ pending_load' = FALSE
     /\ IF Swallows(reason)
        THEN /\ s' = [calm EXCEPT !.presence = "Present", !.phase = "Starting"]
             /\ emitted' = settled
             /\ UNCHANGED <<pause_requested, last_known_item_id>>
        ELSE /\ s' = [calm EXCEPT !.presence = "None", !.phase = "Stopped",
                                  !.position_us = 0,
                                  !.variant_switch_pending = FALSE]
             /\ emitted' = Append(settled, Event(Terminal(reason)))
             /\ pause_requested' = FALSE
             /\ last_known_item_id' = NoItem
     /\ NoAction
     /\ UNCHANGED <<paused_for_cache, core_idle, frame_available>>

OnSeekingChanged(seeking) ==
  /\ IF ~IsActivePhase(s.phase) \/ s.seeking = seeking
     THEN Ignored
     ELSE /\ s' = [s EXCEPT !.seeking = seeking]
          /\ emitted' = <<FlagEvent("SeekingChanged", seeking)>>
  /\ NoAction
  /\ UNCHANGED private

ApplyBufferingChange(combined) ==
  LET promoted == /\ ~combined
                  /\ s.phase = "Starting"
                  /\ pause_requested
                  /\ ReadyToPlay(s.media_type, frame_available)
      changed  == [s EXCEPT !.buffering = combined]
  IN IF s.buffering = combined
     THEN Ignored
     ELSE /\ s' = IF promoted THEN TransitionToPlaying(changed) ELSE changed
          /\ emitted' = <<FlagEvent("BufferingChanged", combined)>>
                        \o If(promoted, Event("Started"))

OnPausedForCache(pfc) ==
  /\ paused_for_cache' = pfc
  /\ IF paused_for_cache = pfc \/ ~IsActivePhase(s.phase)
     THEN Ignored
     ELSE ApplyBufferingChange(pfc \/ core_idle)
  /\ NoAction
  /\ UNCHANGED <<pending_load, pause_requested, core_idle, frame_available,
                 last_known_item_id>>

OnCoreIdle(idle) ==
  /\ core_idle' = idle
  /\ IF core_idle = idle \/ ~IsActivePhase(s.phase)
     THEN Ignored
     ELSE ApplyBufferingChange(paused_for_cache \/ idle)
  /\ NoAction
  /\ UNCHANGED <<pending_load, pause_requested, paused_for_cache,
                 frame_available, last_known_item_id>>

(* appended: what coordinator.rs pushes after the handler's own events.     *)
OnPosition(position, appended) ==
  /\ IF s.position_us = position /\ ~s.seeking
     THEN s' = s /\ emitted' = appended
     ELSE /\ s' = [s EXCEPT !.position_us = position, !.seeking = FALSE]
          /\ emitted' = If(s.seeking, FlagEvent("SeekingChanged", FALSE))
                        \o <<Event("PositionChanged")>> \o appended
  /\ NoAction
  /\ UNCHANGED private

OnMediaType(type, appended) ==
  LET promoted == /\ s.phase = "Starting"
                  /\ pause_requested
                  /\ ~s.buffering
                  /\ ReadyToPlay(type, frame_available)
      changed  == [s EXCEPT !.media_type = type]
  IN /\ IF s.media_type = type
        THEN s' = s /\ emitted' = appended
        ELSE /\ s' = IF promoted THEN TransitionToPlaying(changed) ELSE changed
             /\ emitted' = <<Event("MediaTypeChanged")>>
                           \o If(promoted, Event("Started")) \o appended
     /\ NoAction
     /\ UNCHANGED private

OnVideoFrameAvailable(available) ==
  /\ frame_available' = available
  /\ IF /\ frame_available # available
        /\ available
        /\ s.phase = "Starting"
        /\ pause_requested
        /\ ~s.buffering
     THEN s' = TransitionToPlaying(s) /\ emitted' = <<Event("Started")>>
     ELSE Ignored
  /\ NoAction
  /\ UNCHANGED <<pending_load, pause_requested, paused_for_cache, core_idle,
                 last_known_item_id>>

OnFullscreen(fullscreen, was_maximized) ==
  /\ IF s.fullscreen = fullscreen
     THEN Ignored
     ELSE /\ s' = [s EXCEPT !.fullscreen = fullscreen,
                            !.maximized_before_fullscreen =
                               fullscreen /\ was_maximized]
          /\ emitted' = <<Event("FullscreenChanged")>>
  /\ NoAction
  /\ UNCHANGED private

(* on_speed, on_duration, on_osd_dims, on_buffered_ranges, on_display_hz.   *)
OnSetting(setting, value) ==
  /\ IF s.settings[setting] = value
     THEN Ignored
     ELSE /\ s' = [s EXCEPT !.settings[setting] = value]
          /\ emitted' = <<Event("SettingChanged")>>
  /\ NoAction
  /\ UNCHANGED private

(* Artwork and queue capabilities pass through the coordinator as events.   *)
PassThrough(kind) ==
  /\ s' = s
  /\ emitted' = <<Event(kind)>>
  /\ NoAction
  /\ UNCHANGED private

-----------------------------------------------------------------------------
(* Input, the coordinator's enum, and apply, its dispatch.                  *)

Input ==
  [op: {"FileLoaded", "Artwork", "QueueCaps"}]
  \cup [op: {"LoadStarting"}, id: Items \cup {NoItem}]
  \cup [op: {"PauseChanged", "SeekingChanged", "PausedForCache", "CoreIdle",
             "VideoFrameAvailable"}, flag: BOOLEAN]
  \cup [op: {"EndFile"}, reason: EndReason]
  \cup [op: {"Position", "Seeked"}, position: Positions]
  \cup [op: {"MediaType", "Metadata"}, type: MediaType]
  \cup [op: {"Fullscreen"}, flag: BOOLEAN, was_maximized: BOOLEAN]
  \cup [op: {"Setting"}, setting: Settings, value: Values]

Apply(in) ==
  \/ in.op = "FileLoaded"     /\ OnFileLoaded
  \/ in.op = "LoadStarting"   /\ OnLoadStarting(in.id)
  \/ in.op = "PauseChanged"   /\ OnPauseChanged(in.flag)
  \/ in.op = "EndFile"        /\ OnEndFile(in.reason)
  \/ in.op = "SeekingChanged" /\ OnSeekingChanged(in.flag)
  \/ in.op = "PausedForCache" /\ OnPausedForCache(in.flag)
  \/ in.op = "CoreIdle"       /\ OnCoreIdle(in.flag)
  \/ in.op = "Position"       /\ OnPosition(in.position, <<>>)
  \/ in.op = "MediaType"      /\ OnMediaType(in.type, <<>>)
  \/ in.op = "VideoFrameAvailable" /\ OnVideoFrameAvailable(in.flag)
  \/ in.op = "Fullscreen"     /\ OnFullscreen(in.flag, in.was_maximized)
  \/ in.op = "Setting"        /\ OnSetting(in.setting, in.value)
  \/ in.op = "Metadata"       /\ OnMediaType(in.type, <<Event("MetadataChanged")>>)
  \/ in.op = "Artwork"        /\ PassThrough("ArtworkChanged")
  \/ in.op = "QueueCaps"      /\ PassThrough("QueueCapsChanged")
  \/ in.op = "Seeked"         /\ OnPosition(in.position, <<Event("Seeked")>>)

SMInit ==
  /\ s = Fresh
  /\ pending_load = FALSE
  /\ pause_requested = FALSE
  /\ paused_for_cache = FALSE
  /\ core_idle = FALSE
  /\ frame_available = FALSE
  /\ last_known_item_id = NoItem
  /\ emitted = <<>>
  /\ pending_actions = <<>>

SMNext == \E in \in Input : Apply(in)
SMSpec == SMInit /\ [][SMNext]_smVars

-----------------------------------------------------------------------------
Emits(kind) == \E i \in DOMAIN emitted : emitted[i].kind = kind
EmitsTerminal == Emits("Finished") \/ Emits("Canceled") \/ Emits("Error")

(* The variables hold the values of their Rust types.                       *)
SMTypeOK ==
  /\ s \in PlaybackSnapshot
  /\ pending_load \in BOOLEAN
  /\ pause_requested \in BOOLEAN
  /\ paused_for_cache \in BOOLEAN
  /\ core_idle \in BOOLEAN
  /\ frame_available \in BOOLEAN
  /\ last_known_item_id \in Items \cup {NoItem}
  /\ emitted \in Seq(PlaybackEvent)
  /\ pending_actions \in Seq(PlaybackAction)

(* A stopped player is clean: whatever the inputs that led there, no seek,  *)
(* buffering, variant switch, announced load, unpause request or item id of *)
(* the old track survives on_end_file to be seen by the next one, and the   *)
(* player is absent exactly when it is stopped.                             *)
StoppedIsClean ==
  /\ s.presence = "None" <=> s.phase = "Stopped"
  /\ s.phase = "Stopped" =>
       /\ ~s.seeking /\ ~s.buffering /\ ~s.variant_switch_pending
       /\ ~pending_load /\ ~pause_requested
       /\ last_known_item_id = NoItem

(* The variant-switch flag spans the load only: it is set for a track whose *)
(* item is known, and no path reaches Playing or Stopped with it still set. *)
VariantFlagSpansLoad ==
  s.variant_switch_pending =>
    /\ s.phase \in {"Starting", "Paused"}
    /\ last_known_item_id # NoItem

(* Nothing of a track outlives the load it belongs to.                      *)
NoLeftovers == StoppedIsClean /\ VariantFlagSpansLoad

(* Buffering is never invented: two separately observed mpv properties, an  *)
(* early return while stopped and a clearing at END_FILE keep the combined  *)
(* flag below its causes.                                                   *)
BufferingHasCause == s.buffering => paused_for_cache \/ core_idle

(* The gate of the first frame.  Five handlers may promote a Starting track *)
(* to Playing; whichever input comes last, the track was unpaused, is not   *)
(* buffering, and a video track has presented a frame.                      *)
PromotionGate ==
  [][s.phase = "Starting" /\ s'.phase = "Playing" =>
       /\ pause_requested'
       /\ ~s'.buffering
       /\ s'.media_type = "Video" => frame_available']_smVars

(* No field of the snapshot changes behind its listeners: every consumer    *)
(* (browser, idle inhibit, media session) mirrors the snapshot by events    *)
(* alone, so each change comes with an event that makes it look.            *)
ChangesAnnounced ==
  [][/\ s'.seeking # s.seeking =>
          Emits("SeekingChanged")' \/ Emits("TrackLoaded")'
     /\ s'.buffering # s.buffering =>
          Emits("BufferingChanged")' \/ Emits("TrackLoaded")'
     /\ s'.media_type # s.media_type => Emits("MediaTypeChanged")'
     /\ s'.position_us # s.position_us =>
          Emits("PositionChanged")' \/ EmitsTerminal'
     /\ s'.variant_switch_pending # s.variant_switch_pending =>
          Emits("TrackLoaded")' \/ Emits("Started")' \/ EmitsTerminal'
     /\ s'.fullscreen # s.fullscreen => Emits("FullscreenChanged")'
     /\ s'.settings # s.settings => Emits("SettingChanged")']_smVars

LifecycleKind ==
  {"TrackLoaded", "Started", "Paused", "Finished", "Canceled", "Error"}
ShownKind == LifecycleKind \cup {"SeekingChanged", "BufferingChanged"}

Announced == {kind \in LifecycleKind : Emits(kind)}
Noticed   == {kind \in ShownKind \ LifecycleKind : Emits(kind)}

Promise == INSTANCE PlaybackSource
            WITH phase <- s.phase,
                 loading <- pending_load,
                 announced <- Announced,
                 seeking <- s.seeking,
                 buffering <- s.buffering,
                 noticed <- Noticed

(* Of the events of an input that show, each comes once: the seek first,    *)
(* then the buffering, and the lifecycle's last.                            *)
Rank(kind) ==
  IF kind = "SeekingChanged" THEN 1 ELSE IF kind = "BufferingChanged" THEN 2 ELSE 3
EmittedInOrder ==
  \A i, j \in DOMAIN emitted :
    i < j /\ {emitted[i].kind, emitted[j].kind} \subseteq ShownKind
      => Rank(emitted[i].kind) < Rank(emitted[j].kind)

(* The state machine is the source its listeners rely on.  Each change of   *)
(* phase comes with its event and no lifecycle event comes without the      *)
(* change, except for the one swallowed END_FILE of a switch; seeking and   *)
(* buffering only change where the source lets them, each with its event,   *)
(* and the events of an input are in order.                                 *)
ImplementsSource == Promise!SourceSpec /\ []EmittedInOrder
=============================================================================
