---------------------- MODULE PlaybackStateMachineProofs ----------------------
(***************************************************************************)
(* Proofs about PlaybackStateMachine for every set of items, positions,    *)
(* settings and values: its invariants, the first-frame gate, and that it  *)
(* implements PlaybackSource.                                              *)
(***************************************************************************)
EXTENDS PlaybackStateMachine, TLAPS

-----------------------------------------------------------------------------
(* Events and snapshots.                                                    *)

(* Every event the handlers build is an event.                              *)
LEMMA EventType ==
  /\ \A kind \in EventKind : Event(kind) \in PlaybackEvent
  /\ \A kind \in EventKind, flag \in BOOLEAN :
       FlagEvent(kind, flag) \in PlaybackEvent
BY DEF Event, FlagEvent, PlaybackEvent

(* Short sequences.                                                         *)
LEMMA ShortSeqType ==
  ASSUME NEW S
  PROVE  <<>> \in Seq(S) /\ \A e \in S : <<e>> \in Seq(S)
OBVIOUS

(* A conditional event is a sequence of at most one event.                  *)
LEMMA IfType ==
  ASSUME NEW cond \in BOOLEAN, NEW event \in PlaybackEvent
  PROVE  If(cond, event) \in Seq(PlaybackEvent)
<1>1. If(cond, event) = <<event>> \/ If(cond, event) = <<>>
  BY DEF If
<1> QED
  BY <1>1, ShortSeqType

(* Events appended to events are events.                                    *)
LEMMA ConcatType ==
  ASSUME NEW S, NEW a \in Seq(S), NEW b \in Seq(S)
  PROVE  a \o b \in Seq(S)
OBVIOUS

(* The default snapshot is one.                                             *)
LEMMA FreshType == Fresh \in PlaybackSnapshot
BY PositionsAssumption, ValuesAssumption
   DEF Fresh, PlaybackSnapshot, MediaType, Phase

(* The transition to Playing yields a snapshot.                             *)
LEMMA TransitionType ==
  ASSUME NEW t \in PlaybackSnapshot
  PROVE  TransitionToPlaying(t) \in PlaybackSnapshot
BY DEF TransitionToPlaying, PlaybackSnapshot, Phase

-----------------------------------------------------------------------------
(* A step is one handler with typed arguments: what every invariance proof  *)
(* below splits on.                                                         *)
Appendix ==
  {<<>>, <<Event("Seeked")>>, <<Event("MetadataChanged")>>}

HandlerStep ==
  \/ OnFileLoaded
  \/ \E id \in Items \cup {NoItem} : OnLoadStarting(id)
  \/ \E flag \in BOOLEAN : OnPauseChanged(flag)
  \/ \E reason \in EndReason : OnEndFile(reason)
  \/ \E flag \in BOOLEAN : OnSeekingChanged(flag)
  \/ \E flag \in BOOLEAN : OnPausedForCache(flag)
  \/ \E flag \in BOOLEAN : OnCoreIdle(flag)
  \/ \E position \in Positions, appended \in Appendix :
       OnPosition(position, appended)
  \/ \E type \in MediaType, appended \in Appendix : OnMediaType(type, appended)
  \/ \E flag \in BOOLEAN : OnVideoFrameAvailable(flag)
  \/ \E flag \in BOOLEAN, max \in BOOLEAN : OnFullscreen(flag, max)
  \/ \E setting \in Settings, value \in Values : OnSetting(setting, value)
  \/ \E kind \in {"ArtworkChanged", "QueueCapsChanged"} : PassThrough(kind)

(* Every input is routed to one handler.                                    *)
LEMMA NextIsHandlerStep == SMNext => HandlerStep
<1> SUFFICES ASSUME NEW in \in Input, Apply(in)
             PROVE  HandlerStep
  BY DEF SMNext
<1>1. CASE in.op = "FileLoaded" /\ OnFileLoaded
  BY <1>1 DEF HandlerStep
<1>2. CASE in.op = "LoadStarting" /\ OnLoadStarting(in.id)
  <2>1. in.id \in Items \cup {NoItem}
    BY <1>2 DEF Input
  <2> QED
    BY <1>2, <2>1 DEF HandlerStep
<1>3. CASE in.op = "PauseChanged" /\ OnPauseChanged(in.flag)
  <2>1. in.flag \in BOOLEAN
    BY <1>3 DEF Input
  <2> QED
    BY <1>3, <2>1 DEF HandlerStep
<1>4. CASE in.op = "EndFile" /\ OnEndFile(in.reason)
  <2>1. in.reason \in EndReason
    BY <1>4 DEF Input
  <2> QED
    BY <1>4, <2>1 DEF HandlerStep
<1>5. CASE in.op = "SeekingChanged" /\ OnSeekingChanged(in.flag)
  <2>1. in.flag \in BOOLEAN
    BY <1>5 DEF Input
  <2> QED
    BY <1>5, <2>1 DEF HandlerStep
<1>6. CASE in.op = "PausedForCache" /\ OnPausedForCache(in.flag)
  <2>1. in.flag \in BOOLEAN
    BY <1>6 DEF Input
  <2> QED
    BY <1>6, <2>1 DEF HandlerStep
<1>7. CASE in.op = "CoreIdle" /\ OnCoreIdle(in.flag)
  <2>1. in.flag \in BOOLEAN
    BY <1>7 DEF Input
  <2> QED
    BY <1>7, <2>1 DEF HandlerStep
<1>8. CASE \/ in.op = "Position" /\ OnPosition(in.position, <<>>)
           \/ in.op = "Seeked" /\ OnPosition(in.position, <<Event("Seeked")>>)
  <2>1. in.position \in Positions
    BY <1>8 DEF Input
  <2> QED
    BY <1>8, <2>1 DEF HandlerStep, Appendix
<1>9. CASE \/ in.op = "MediaType" /\ OnMediaType(in.type, <<>>)
           \/ in.op = "Metadata"
              /\ OnMediaType(in.type, <<Event("MetadataChanged")>>)
  <2>1. in.type \in MediaType
    BY <1>9 DEF Input
  <2> QED
    BY <1>9, <2>1 DEF HandlerStep, Appendix
<1>10. CASE in.op = "VideoFrameAvailable" /\ OnVideoFrameAvailable(in.flag)
  <2>1. in.flag \in BOOLEAN
    BY <1>10 DEF Input
  <2> QED
    BY <1>10, <2>1 DEF HandlerStep
<1>11. CASE in.op = "Fullscreen" /\ OnFullscreen(in.flag, in.was_maximized)
  <2>1. in.flag \in BOOLEAN /\ in.was_maximized \in BOOLEAN
    BY <1>11 DEF Input
  <2> QED
    BY <1>11, <2>1 DEF HandlerStep
<1>12. CASE in.op = "Setting" /\ OnSetting(in.setting, in.value)
  <2>1. in.setting \in Settings /\ in.value \in Values
    BY <1>12 DEF Input
  <2> QED
    BY <1>12, <2>1 DEF HandlerStep
<1>13. CASE \/ in.op = "Artwork" /\ PassThrough("ArtworkChanged")
            \/ in.op = "QueueCaps" /\ PassThrough("QueueCapsChanged")
  BY <1>13 DEF HandlerStep
<1> QED
  BY <1>1, <1>2, <1>3, <1>4, <1>5, <1>6, <1>7, <1>8, <1>9, <1>10, <1>11,
     <1>12, <1>13 DEF Apply

-----------------------------------------------------------------------------
(* Type invariance.                                                         *)

(* A handler leaves the snapshot typed.                                     *)
LEMMA SnapshotStep ==
  ASSUME SMTypeOK, HandlerStep
  PROVE  s' \in PlaybackSnapshot
<1> USE DEF SMTypeOK
<1>1. CASE OnFileLoaded
  BY <1>1 DEF OnFileLoaded, PlaybackSnapshot, Phase
<1>2. ASSUME NEW id \in Items \cup {NoItem}, OnLoadStarting(id)
      PROVE  s' \in PlaybackSnapshot
  <2>1. \A buffering, variant \in BOOLEAN :
          [s EXCEPT !.presence = "Present", !.phase = "Starting", !.seeking = FALSE,
                    !.buffering = buffering, !.variant_switch_pending = variant]
            \in PlaybackSnapshot
    BY DEF PlaybackSnapshot, Phase
  <2>2. PICK buffering, variant \in BOOLEAN :
          s' = [s EXCEPT !.presence = "Present", !.phase = "Starting", !.seeking = FALSE,
                         !.buffering = buffering, !.variant_switch_pending = variant]
    BY <1>2 DEF OnLoadStarting
  <2> QED
    BY <2>1, <2>2
<1>3. ASSUME NEW flag \in BOOLEAN, OnPauseChanged(flag)
      PROVE  s' \in PlaybackSnapshot
  <2>1. [s EXCEPT !.phase = "Paused"] \in PlaybackSnapshot
    BY DEF PlaybackSnapshot, Phase
  <2> QED
    BY <1>3, <2>1, TransitionType
       DEF OnPauseChanged, Pausing, Unpausing, Ignored
<1>4. ASSUME NEW reason \in EndReason, OnEndFile(reason)
      PROVE  s' \in PlaybackSnapshot
  <2> DEFINE calm == [s EXCEPT !.seeking = FALSE, !.buffering = FALSE]
  <2>1. calm \in PlaybackSnapshot
    BY DEF PlaybackSnapshot
  <2>2. CASE s' = [calm EXCEPT !.presence = "Present", !.phase = "Starting"]
    BY <2>1, <2>2 DEF PlaybackSnapshot, Phase
  <2>3. CASE s' = [calm EXCEPT !.presence = "None", !.phase = "Stopped",
                               !.position_us = 0,
                               !.variant_switch_pending = FALSE]
    BY <2>1, <2>3, PositionsAssumption DEF PlaybackSnapshot, Phase
  <2> QED
    BY <1>4, <2>2, <2>3 DEF OnEndFile
<1>5. ASSUME NEW flag \in BOOLEAN, OnSeekingChanged(flag)
      PROVE  s' \in PlaybackSnapshot
  BY <1>5 DEF OnSeekingChanged, Ignored, PlaybackSnapshot
<1>6. ASSUME NEW combined \in BOOLEAN, ApplyBufferingChange(combined)
      PROVE  s' \in PlaybackSnapshot
  <2>1. [s EXCEPT !.buffering = combined] \in PlaybackSnapshot
    BY DEF PlaybackSnapshot
  <2> QED
    BY <1>6, <2>1, TransitionType DEF ApplyBufferingChange, Ignored
<1>7. ASSUME NEW flag \in BOOLEAN, OnPausedForCache(flag)
      PROVE  s' \in PlaybackSnapshot
  BY <1>6, <1>7 DEF OnPausedForCache, Ignored
<1>8. ASSUME NEW flag \in BOOLEAN, OnCoreIdle(flag)
      PROVE  s' \in PlaybackSnapshot
  BY <1>6, <1>8 DEF OnCoreIdle, Ignored
<1>9. ASSUME NEW position \in Positions, NEW appended \in Appendix,
             OnPosition(position, appended)
      PROVE  s' \in PlaybackSnapshot
  BY <1>9 DEF OnPosition, PlaybackSnapshot
<1>10. ASSUME NEW type \in MediaType, NEW appended \in Appendix,
              OnMediaType(type, appended)
       PROVE  s' \in PlaybackSnapshot
  <2>1. [s EXCEPT !.media_type = type] \in PlaybackSnapshot
    BY DEF PlaybackSnapshot
  <2> QED
    BY <1>10, <2>1, TransitionType DEF OnMediaType
<1>11. ASSUME NEW flag \in BOOLEAN, OnVideoFrameAvailable(flag)
       PROVE  s' \in PlaybackSnapshot
  BY <1>11, TransitionType DEF OnVideoFrameAvailable, Ignored
<1>12. ASSUME NEW flag \in BOOLEAN, NEW max \in BOOLEAN, OnFullscreen(flag, max)
       PROVE  s' \in PlaybackSnapshot
  <2>1. [s EXCEPT !.fullscreen = flag, !.maximized_before_fullscreen = flag /\ max]
          \in PlaybackSnapshot
    BY DEF PlaybackSnapshot
  <2> QED
    BY <1>12, <2>1 DEF OnFullscreen, Ignored
<1>13. ASSUME NEW setting \in Settings, NEW value \in Values,
              OnSetting(setting, value)
       PROVE  s' \in PlaybackSnapshot
  BY <1>13, SMTT(30) DEF OnSetting, Ignored, PlaybackSnapshot
<1>14. ASSUME NEW kind \in {"ArtworkChanged", "QueueCapsChanged"}, PassThrough(kind)
       PROVE  s' \in PlaybackSnapshot
  BY <1>14 DEF PassThrough
<1> QED
  BY <1>1, <1>2, <1>3, <1>4, <1>5, <1>7, <1>8, <1>9, <1>10, <1>11, <1>12,
     <1>13, <1>14 DEF HandlerStep

(* A handler returns events.                                                *)
LEMMA EventsStep ==
  ASSUME SMTypeOK, HandlerStep
  PROVE  emitted' \in Seq(PlaybackEvent)
<1> USE ShortSeqType
<1>1. CASE OnFileLoaded \/ \E id \in Items \cup {NoItem} : OnLoadStarting(id)
  <2>1. emitted' = <<Event("TrackLoaded")>>
    BY <1>1 DEF OnFileLoaded, OnLoadStarting
  <2> QED
    BY <2>1, EventType DEF EventKind
<1>2. ASSUME NEW flag \in BOOLEAN, OnPauseChanged(flag)
      PROVE  emitted' \in Seq(PlaybackEvent)
  <2>1. emitted' \in {<<>>, <<Event("Paused")>>, <<Event("Started")>>}
    BY <1>2 DEF OnPauseChanged, Pausing, Unpausing, Ignored
  <2>2. Event("Paused") \in PlaybackEvent /\ Event("Started") \in PlaybackEvent
    BY EventType DEF EventKind
  <2> QED
    BY <2>1, <2>2
<1>3. ASSUME NEW reason \in EndReason, OnEndFile(reason)
      PROVE  emitted' \in Seq(PlaybackEvent)
  <2> DEFINE settled == If(s.seeking, FlagEvent("SeekingChanged", FALSE))
                        \o If(s.buffering, FlagEvent("BufferingChanged", FALSE))
  <2>1. Event(Terminal(reason)) \in PlaybackEvent
    BY EventType DEF Terminal, EventKind
  <2>2. /\ FlagEvent("SeekingChanged", FALSE) \in PlaybackEvent
        /\ FlagEvent("BufferingChanged", FALSE) \in PlaybackEvent
    BY EventType DEF EventKind
  <2>3. s.seeking \in BOOLEAN /\ s.buffering \in BOOLEAN
    BY DEF SMTypeOK, PlaybackSnapshot
  <2>4. settled \in Seq(PlaybackEvent)
    BY <2>2, <2>3, IfType, ConcatType
  <2>5. emitted' = settled \/ emitted' = Append(settled, Event(Terminal(reason)))
    BY <1>3 DEF OnEndFile
  <2> HIDE DEF settled
  <2> QED
    BY <2>1, <2>4, <2>5
<1>4. ASSUME NEW flag \in BOOLEAN, OnSeekingChanged(flag)
      PROVE  emitted' \in Seq(PlaybackEvent)
  <2>1. emitted' \in {<<>>, <<FlagEvent("SeekingChanged", flag)>>}
    BY <1>4 DEF OnSeekingChanged, Ignored
  <2>2. FlagEvent("SeekingChanged", flag) \in PlaybackEvent
    BY EventType DEF EventKind
  <2> QED
    BY <2>1, <2>2
<1>5. ASSUME NEW combined \in BOOLEAN, ApplyBufferingChange(combined)
      PROVE  emitted' \in Seq(PlaybackEvent)
  <2>1. \/ emitted' = <<>>
        \/ \E promoted \in BOOLEAN :
             emitted' = <<FlagEvent("BufferingChanged", combined)>>
                        \o If(promoted, Event("Started"))
    BY <1>5 DEF ApplyBufferingChange, Ignored
  <2>2. /\ FlagEvent("BufferingChanged", combined) \in PlaybackEvent
        /\ Event("Started") \in PlaybackEvent
    BY EventType DEF EventKind
  <2> QED
    BY <2>1, <2>2, IfType, ConcatType
<1>6. ASSUME NEW flag \in BOOLEAN, OnPausedForCache(flag) \/ OnCoreIdle(flag)
      PROVE  emitted' \in Seq(PlaybackEvent)
  <2>1. \/ emitted' = <<>>
        \/ \E combined \in BOOLEAN : ApplyBufferingChange(combined)
    BY <1>6 DEF OnPausedForCache, OnCoreIdle, Ignored, SMTypeOK
  <2> QED
    BY <1>5, <2>1
<1>7. ASSUME NEW position \in Positions, NEW appended \in Appendix,
             OnPosition(position, appended)
      PROVE  emitted' \in Seq(PlaybackEvent)
  <2>1. appended \in Seq(PlaybackEvent)
    BY EventType DEF Appendix, EventKind
  <2>2. /\ FlagEvent("SeekingChanged", FALSE) \in PlaybackEvent
        /\ Event("PositionChanged") \in PlaybackEvent
    BY EventType DEF EventKind
  <2>3. s.seeking \in BOOLEAN
    BY DEF SMTypeOK, PlaybackSnapshot
  <2>4. \/ emitted' = appended
        \/ emitted' = If(s.seeking, FlagEvent("SeekingChanged", FALSE))
                      \o <<Event("PositionChanged")>> \o appended
    BY <1>7 DEF OnPosition
  <2>5. If(s.seeking, FlagEvent("SeekingChanged", FALSE)) \in Seq(PlaybackEvent)
    BY <2>2, <2>3, IfType
  <2>6. If(s.seeking, FlagEvent("SeekingChanged", FALSE))
        \o <<Event("PositionChanged")>> \in Seq(PlaybackEvent)
    BY <2>2, <2>5, ConcatType
  <2> QED
    BY <2>1, <2>4, <2>6, ConcatType
<1>8. ASSUME NEW type \in MediaType, NEW appended \in Appendix,
             OnMediaType(type, appended)
      PROVE  emitted' \in Seq(PlaybackEvent)
  <2>1. appended \in Seq(PlaybackEvent)
    BY EventType DEF Appendix, EventKind
  <2>2. /\ Event("MediaTypeChanged") \in PlaybackEvent
        /\ Event("Started") \in PlaybackEvent
    BY EventType DEF EventKind
  <2>3. \/ emitted' = appended
        \/ \E promoted \in BOOLEAN :
             emitted' = <<Event("MediaTypeChanged")>>
                        \o If(promoted, Event("Started")) \o appended
    BY <1>8 DEF OnMediaType
  <2>4. ASSUME NEW promoted \in BOOLEAN
        PROVE  <<Event("MediaTypeChanged")>> \o If(promoted, Event("Started"))
                 \in Seq(PlaybackEvent)
    BY <2>2, IfType, ConcatType
  <2> QED
    BY <2>1, <2>3, <2>4, ConcatType
<1>9. ASSUME NEW flag \in BOOLEAN, OnVideoFrameAvailable(flag)
      PROVE  emitted' \in Seq(PlaybackEvent)
  <2>1. emitted' \in {<<>>, <<Event("Started")>>}
    BY <1>9 DEF OnVideoFrameAvailable, Ignored
  <2> QED
    BY <2>1, EventType DEF EventKind
<1>10. ASSUME NEW flag \in BOOLEAN, NEW max \in BOOLEAN, OnFullscreen(flag, max)
       PROVE  emitted' \in Seq(PlaybackEvent)
  <2>1. emitted' \in {<<>>, <<Event("FullscreenChanged")>>}
    BY <1>10 DEF OnFullscreen, Ignored
  <2> QED
    BY <2>1, EventType DEF EventKind
<1>11. ASSUME NEW setting \in Settings, NEW value \in Values,
              OnSetting(setting, value)
       PROVE  emitted' \in Seq(PlaybackEvent)
  <2>1. emitted' \in {<<>>, <<Event("SettingChanged")>>}
    BY <1>11 DEF OnSetting, Ignored
  <2> QED
    BY <2>1, EventType DEF EventKind
<1>12. ASSUME NEW kind \in {"ArtworkChanged", "QueueCapsChanged"}, PassThrough(kind)
       PROVE  emitted' \in Seq(PlaybackEvent)
  <2>1. emitted' = <<Event(kind)>>
    BY <1>12 DEF PassThrough
  <2> QED
    BY <2>1, EventType DEF EventKind
<1> QED
  BY <1>1, <1>2, <1>3, <1>4, <1>6, <1>7, <1>8, <1>9, <1>10, <1>11, <1>12
     DEF HandlerStep

(* The type invariant is inductive.                                         *)
LEMMA TypeStep == SMTypeOK /\ [SMNext]_smVars => SMTypeOK'
<1> SUFFICES ASSUME SMTypeOK, [SMNext]_smVars
             PROVE  SMTypeOK'
  OBVIOUS
<1>1. CASE SMNext
  <2>1. HandlerStep
    BY <1>1, NextIsHandlerStep
  <2>2. s' \in PlaybackSnapshot /\ emitted' \in Seq(PlaybackEvent)
    BY <2>1, SnapshotStep, EventsStep
  <2>3. pending_actions' \in Seq(PlaybackAction)
    <3>1. pending_actions' \in {<<>>, <<"ApplyPendingTrackSelectionAndPlay">>}
      BY <2>1 DEF HandlerStep, OnFileLoaded, OnLoadStarting, OnPauseChanged,
           OnEndFile, OnSeekingChanged, OnPausedForCache, OnCoreIdle, OnPosition,
           OnMediaType, OnVideoFrameAvailable, OnFullscreen, OnSetting,
           PassThrough, NoAction
    <3> QED
      BY <3>1, ShortSeqType DEF PlaybackAction
  <2>4. /\ pending_load' \in BOOLEAN
        /\ pause_requested' \in BOOLEAN
        /\ paused_for_cache' \in BOOLEAN
        /\ core_idle' \in BOOLEAN
        /\ frame_available' \in BOOLEAN
        /\ last_known_item_id' \in Items \cup {NoItem}
    BY <2>1 DEF SMTypeOK, private, HandlerStep, OnFileLoaded, OnLoadStarting,
         OnPauseChanged, OnEndFile, OnSeekingChanged, OnPausedForCache,
         OnCoreIdle, OnPosition, OnMediaType, OnVideoFrameAvailable,
         OnFullscreen, OnSetting, PassThrough
  <2> QED
    BY <2>2, <2>3, <2>4 DEF SMTypeOK
<1>2. CASE UNCHANGED smVars
  BY <1>2 DEF smVars, private, SMTypeOK
<1> QED
  BY <1>1, <1>2

(* The variables of every execution hold the values of their Rust types.    *)
THEOREM TypeCorrect == SMSpec => []SMTypeOK
<1>1. SMInit => SMTypeOK
  BY FreshType, ShortSeqType DEF SMInit, SMTypeOK
<1> QED
  BY <1>1, TypeStep, PTL DEF SMSpec

-----------------------------------------------------------------------------
(* The safety invariants are inductive together: a cause of buffering is    *)
(* forgotten without an event only while stopped, where StoppedIsClean says *)
(* there is no buffering; and the variant flag is inherited by a file that  *)
(* opens from states where VariantFlagSpansLoad holds.                      *)
SafeInv == StoppedIsClean /\ VariantFlagSpansLoad /\ BufferingHasCause

(* ApplyBufferingChange, called with the combination of the new causes.     *)
LEMMA BufferingChangeSafe ==
  ASSUME SMTypeOK, SafeInv, NEW combined \in BOOLEAN,
         IsActivePhase(s.phase), ApplyBufferingChange(combined),
         combined = (paused_for_cache' \/ core_idle'),
         UNCHANGED <<pending_load, pause_requested, last_known_item_id>>
  PROVE  SafeInv'
<1> DEFINE changed == [s EXCEPT !.buffering = combined]
<1>1. CASE s' = s /\ s.buffering = combined
  BY <1>1 DEF SafeInv, StoppedIsClean, VariantFlagSpansLoad, BufferingHasCause,
              IsActivePhase
<1>2. CASE s' = changed
  BY <1>2 DEF SafeInv, StoppedIsClean, VariantFlagSpansLoad, BufferingHasCause,
              IsActivePhase, SMTypeOK, PlaybackSnapshot
<1>3. CASE s' = TransitionToPlaying(changed) /\ s.phase = "Starting"
  BY <1>3 DEF SafeInv, StoppedIsClean, VariantFlagSpansLoad, BufferingHasCause,
              SMTypeOK, PlaybackSnapshot, TransitionToPlaying
<1> QED
  BY <1>1, <1>2, <1>3 DEF ApplyBufferingChange, Ignored

(* Every handler keeps the three invariants together.                       *)
LEMMA SafeStep ==
  ASSUME SMTypeOK, SafeInv, HandlerStep
  PROVE  SafeInv'
<1> USE DEF SafeInv, StoppedIsClean, VariantFlagSpansLoad, BufferingHasCause,
            SMTypeOK, PlaybackSnapshot
<1>1. CASE OnFileLoaded
  BY <1>1 DEF OnFileLoaded
<1>2. ASSUME NEW id \in Items \cup {NoItem}, OnLoadStarting(id)
      PROVE  SafeInv'
  BY <1>2 DEF OnLoadStarting
<1>3. ASSUME NEW flag \in BOOLEAN, OnPauseChanged(flag)
      PROVE  SafeInv'
  BY <1>3 DEF OnPauseChanged, Pausing, Unpausing, Ignored, TransitionToPlaying
<1>4. ASSUME NEW reason \in EndReason, OnEndFile(reason)
      PROVE  SafeInv'
  <2> DEFINE calm == [s EXCEPT !.seeking = FALSE, !.buffering = FALSE]
  <2>1. calm \in PlaybackSnapshot
    OBVIOUS
  <2>2. CASE Swallows(reason)
    <3>1. /\ s' = [calm EXCEPT !.presence = "Present", !.phase = "Starting"]
          /\ UNCHANGED <<pause_requested, last_known_item_id>>
          /\ pending_load' = FALSE
      BY <1>4, <2>2 DEF OnEndFile
    <3> QED
      BY <3>1, <2>1
  <2>3. CASE ~Swallows(reason)
    <3>1. /\ s' = [calm EXCEPT !.presence = "None", !.phase = "Stopped",
                               !.position_us = 0,
                               !.variant_switch_pending = FALSE]
          /\ pause_requested' = FALSE
          /\ last_known_item_id' = NoItem
          /\ pending_load' = FALSE
      BY <1>4, <2>3 DEF OnEndFile
    <3> QED
      BY <3>1, <2>1
  <2> QED
    BY <2>2, <2>3
<1>5. ASSUME NEW flag \in BOOLEAN, OnSeekingChanged(flag)
      PROVE  SafeInv'
  BY <1>5 DEF OnSeekingChanged, Ignored, private, IsActivePhase
<1>6. ASSUME NEW flag \in BOOLEAN, OnPausedForCache(flag)
      PROVE  SafeInv'
  <2>1. CASE paused_for_cache = flag \/ ~IsActivePhase(s.phase)
    BY <1>6, <2>1 DEF OnPausedForCache, Ignored, IsActivePhase, Phase
  <2>2. CASE ~(paused_for_cache = flag \/ ~IsActivePhase(s.phase))
    <3>1. ApplyBufferingChange(flag \/ core_idle) /\ IsActivePhase(s.phase)
      BY <1>6, <2>2 DEF OnPausedForCache
    <3>2. (flag \/ core_idle) \in BOOLEAN /\ (flag \/ core_idle) = (paused_for_cache' \/ core_idle')
      BY <1>6 DEF OnPausedForCache
    <3>3. UNCHANGED <<pending_load, pause_requested, last_known_item_id>>
      BY <1>6 DEF OnPausedForCache
    <3> QED
      BY <3>1, <3>2, <3>3, BufferingChangeSafe
  <2> QED
    BY <2>1, <2>2
<1>7. ASSUME NEW flag \in BOOLEAN, OnCoreIdle(flag)
      PROVE  SafeInv'
  <2>1. CASE core_idle = flag \/ ~IsActivePhase(s.phase)
    BY <1>7, <2>1 DEF OnCoreIdle, Ignored, IsActivePhase, Phase
  <2>2. CASE ~(core_idle = flag \/ ~IsActivePhase(s.phase))
    <3>1. ApplyBufferingChange(paused_for_cache \/ flag) /\ IsActivePhase(s.phase)
      BY <1>7, <2>2 DEF OnCoreIdle
    <3>2. (paused_for_cache \/ flag) \in BOOLEAN /\ (paused_for_cache \/ flag) = (paused_for_cache' \/ core_idle')
      BY <1>7 DEF OnCoreIdle
    <3>3. UNCHANGED <<pending_load, pause_requested, last_known_item_id>>
      BY <1>7 DEF OnCoreIdle
    <3> QED
      BY <3>1, <3>2, <3>3, BufferingChangeSafe
  <2> QED
    BY <2>1, <2>2
<1>8. ASSUME NEW position \in Positions, NEW appended \in Appendix,
             OnPosition(position, appended)
      PROVE  SafeInv'
  BY <1>8 DEF OnPosition, private
<1>9. ASSUME NEW type \in MediaType, NEW appended \in Appendix,
             OnMediaType(type, appended)
      PROVE  SafeInv'
  BY <1>9 DEF OnMediaType, private, TransitionToPlaying
<1>10. ASSUME NEW flag \in BOOLEAN, OnVideoFrameAvailable(flag)
       PROVE  SafeInv'
  BY <1>10 DEF OnVideoFrameAvailable, Ignored, TransitionToPlaying
<1>11. ASSUME NEW flag \in BOOLEAN, NEW max \in BOOLEAN, OnFullscreen(flag, max)
       PROVE  SafeInv'
  BY <1>11 DEF OnFullscreen, Ignored, private
<1>12. ASSUME NEW setting \in Settings, NEW value \in Values,
              OnSetting(setting, value)
       PROVE  SafeInv'
  BY <1>12 DEF OnSetting, Ignored, private
<1>13. ASSUME NEW kind \in {"ArtworkChanged", "QueueCapsChanged"}, PassThrough(kind)
       PROVE  SafeInv'
  BY <1>13 DEF PassThrough, private
<1> QED
  BY <1>1, <1>2, <1>3, <1>4, <1>5, <1>6, <1>7, <1>8, <1>9, <1>10, <1>11,
     <1>12, <1>13 DEF HandlerStep

(* So does every step, stutters included.                                   *)
LEMMA InvStep == SMTypeOK /\ SafeInv /\ [SMNext]_smVars => SafeInv'
<1> SUFFICES ASSUME SMTypeOK, SafeInv, [SMNext]_smVars
             PROVE  SafeInv'
  OBVIOUS
<1>1. CASE SMNext
  BY <1>1, NextIsHandlerStep, SafeStep
<1>2. CASE UNCHANGED smVars
  BY <1>2 DEF smVars, private, SafeInv, StoppedIsClean, VariantFlagSpansLoad,
              BufferingHasCause
<1> QED
  BY <1>1, <1>2

(* Types and invariants hold in every reachable state.                      *)
LEMMA InvHolds == SMSpec => [](SMTypeOK /\ SafeInv)
<1>1. SMInit => SMTypeOK
  BY FreshType, ShortSeqType DEF SMInit, SMTypeOK
<1>2. SMInit => SafeInv
  BY DEF SMInit, Fresh, SafeInv, StoppedIsClean, VariantFlagSpansLoad,
         BufferingHasCause
<1> QED
  BY <1>1, <1>2, TypeStep, InvStep, PTL DEF SMSpec

(* Nothing of an ended track survives into the stopped state.               *)
THEOREM StoppedCorrect == SMSpec => []StoppedIsClean
<1>1. SafeInv => StoppedIsClean
  BY DEF SafeInv
<1> QED
  BY <1>1, InvHolds, PTL

(* The variant-switch flag never reaches Playing or Stopped.                *)
THEOREM VariantFlagCorrect == SMSpec => []VariantFlagSpansLoad
<1>1. SafeInv => VariantFlagSpansLoad
  BY DEF SafeInv
<1> QED
  BY <1>1, InvHolds, PTL

(* Nothing of a track outlives its load.                                    *)
THEOREM LeftoversCorrect == SMSpec => []NoLeftovers
<1>1. SafeInv => NoLeftovers
  BY DEF SafeInv, NoLeftovers
<1> QED
  BY <1>1, InvHolds, PTL

(* The combined buffering flag never outlives its causes.                   *)
THEOREM BufferingCorrect == SMSpec => []BufferingHasCause
<1>1. SafeInv => BufferingHasCause
  BY DEF SafeInv
<1> QED
  BY <1>1, InvHolds, PTL

-----------------------------------------------------------------------------
(* The first-frame gate.                                                    *)
Gate == s.phase = "Starting" /\ s'.phase = "Playing" =>
          /\ pause_requested'
          /\ ~s'.buffering
          /\ s'.media_type = "Video" => frame_available'

(* Every handler that promotes has the gate open.                           *)
LEMMA GateStep ==
  ASSUME SMTypeOK, HandlerStep
  PROVE  Gate
<1> SUFFICES ASSUME s.phase = "Starting", s'.phase = "Playing"
             PROVE  /\ pause_requested'
                    /\ ~s'.buffering
                    /\ s'.media_type = "Video" => frame_available'
  BY DEF Gate
<1> USE DEF SMTypeOK, PlaybackSnapshot, ReadyToPlay, TransitionToPlaying
<1>1. CASE OnFileLoaded \/ \E id \in Items \cup {NoItem} : OnLoadStarting(id)
  <2>1. s'.phase = "Starting"
    BY <1>1 DEF OnFileLoaded, OnLoadStarting
  <2> QED
    BY <2>1
<1>2. ASSUME NEW flag \in BOOLEAN, OnPauseChanged(flag)
      PROVE  /\ pause_requested'
             /\ ~s'.buffering
             /\ s'.media_type = "Video" => frame_available'
  <2>1. s' # s /\ s'.phase # "Paused"
    BY DEF Phase
  <2>2. ~flag /\ pause_requested' = ~flag /\ Unpausing
    BY <1>2, <2>1 DEF OnPauseChanged, Pausing, Ignored
  <2>3. /\ ~s.buffering
        /\ s.media_type # "Video" \/ frame_available
        /\ s' = TransitionToPlaying(s)
    BY <2>1, <2>2 DEF Unpausing, Ignored
  <2>4. frame_available' = frame_available
    BY <1>2 DEF OnPauseChanged
  <2> QED
    BY <2>2, <2>3, <2>4
<1>3. ASSUME NEW reason \in EndReason, OnEndFile(reason)
      PROVE  FALSE
  <2>1. s'.phase \in {"Starting", "Stopped"}
    BY <1>3 DEF OnEndFile
  <2> QED
    BY <2>1
<1>4. ASSUME NEW combined \in BOOLEAN, ApplyBufferingChange(combined),
             UNCHANGED <<pause_requested, frame_available>>
      PROVE  /\ pause_requested'
             /\ ~s'.buffering
             /\ s'.media_type = "Video" => frame_available'
  BY <1>4 DEF ApplyBufferingChange, Ignored
<1>5. CASE \E flag \in BOOLEAN : OnPausedForCache(flag) \/ OnCoreIdle(flag)
  <2>1. \E combined \in BOOLEAN : ApplyBufferingChange(combined) \/ Ignored
    BY <1>5 DEF OnPausedForCache, OnCoreIdle
  <2>2. UNCHANGED <<pause_requested, frame_available>>
    BY <1>5 DEF OnPausedForCache, OnCoreIdle
  <2> QED
    BY <1>4, <2>1, <2>2 DEF Ignored
<1>6. ASSUME NEW type \in MediaType, NEW appended \in Appendix,
             OnMediaType(type, appended)
      PROVE  /\ pause_requested'
             /\ ~s'.buffering
             /\ s'.media_type = "Video" => frame_available'
  <2> DEFINE changed == [s EXCEPT !.media_type = type]
  <2>1. s' # s /\ s' # changed
    OBVIOUS
  <2>2. /\ pause_requested /\ ~s.buffering
        /\ type # "Video" \/ frame_available
        /\ s' = TransitionToPlaying(changed)
    BY <1>6, <2>1 DEF OnMediaType
  <2>3. UNCHANGED <<pause_requested, frame_available>>
    BY <1>6 DEF OnMediaType, private
  <2> QED
    BY <2>2, <2>3
<1>7. ASSUME NEW flag \in BOOLEAN, OnVideoFrameAvailable(flag)
      PROVE  /\ pause_requested'
             /\ ~s'.buffering
             /\ s'.media_type = "Video" => frame_available'
  <2>1. s' # s
    OBVIOUS
  <2>2. flag /\ pause_requested /\ ~s.buffering /\ s' = TransitionToPlaying(s)
    BY <1>7, <2>1 DEF OnVideoFrameAvailable, Ignored
  <2>3. frame_available' = flag /\ pause_requested' = pause_requested
    BY <1>7 DEF OnVideoFrameAvailable
  <2> QED
    BY <2>2, <2>3
<1>8. CASE \/ \E flag \in BOOLEAN : OnSeekingChanged(flag)
           \/ \E position \in Positions, appended \in Appendix :
                OnPosition(position, appended)
           \/ \E flag \in BOOLEAN, max \in BOOLEAN : OnFullscreen(flag, max)
           \/ \E setting \in Settings, value \in Values : OnSetting(setting, value)
           \/ \E kind \in {"ArtworkChanged", "QueueCapsChanged"} :
                PassThrough(kind)
  <2>1. s'.phase = s.phase
    BY <1>8 DEF OnSeekingChanged, OnPosition, OnFullscreen, OnSetting,
                PassThrough, Ignored
  <2> QED
    BY <2>1
<1> QED
  BY <1>1, <1>2, <1>3, <1>5, <1>6, <1>7, <1>8 DEF HandlerStep

(* A Starting track is promoted to Playing only unpaused, not buffering and *)
(* with a frame if it is a video, by whichever handler.                     *)
THEOREM PromotionCorrect == SMSpec => PromotionGate
<1>1. SMTypeOK /\ [SMNext]_smVars => [Gate]_smVars
  BY NextIsHandlerStep, GateStep
<1> QED
  BY <1>1, InvHolds, PTL DEF SMSpec, PromotionGate, Gate

-----------------------------------------------------------------------------
(* Refinement of PlaybackSource.  Said is what a sequence of events says to *)
(* a listener that shows the player, Ranked that it says it in order.       *)
Said(events) == {kind \in ShownKind :
                   \E i \in DOMAIN events : events[i].kind = kind}

Ranked(events) ==
  \A i, j \in DOMAIN events :
    i < j /\ {events[i].kind, events[j].kind} \subseteq ShownKind
      => Rank(events[i].kind) < Rank(events[j].kind)

Conveys(events, kinds) ==
  events \in Seq(PlaybackEvent) /\ Said(events) = kinds /\ Ranked(events)

(* No events, nothing told.                                                 *)
LEMMA ConveysNothing == Conveys(<<>>, {})
BY ShortSeqType DEF Conveys, Said, Ranked

(* One event tells its kind, if it is one that shows.                       *)
LEMMA ConveysOne ==
  ASSUME NEW event \in PlaybackEvent
  PROVE  Conveys(<<event>>, {event.kind} \cap ShownKind)
<1>1. <<event>> \in Seq(PlaybackEvent)
  BY ShortSeqType
<1>2. Said(<<event>>) = {event.kind} \cap ShownKind
  BY DEF Said
<1>3. Ranked(<<event>>)
  BY DEF Ranked
<1> QED
  BY <1>1, <1>2, <1>3 DEF Conveys

(* A concatenation tells what its parts tell, in order where every kind of  *)
(* the first comes before every kind of the second.                         *)
LEMMA ConveysConcat ==
  ASSUME NEW a, NEW b, NEW A, NEW B, Conveys(a, A), Conveys(b, B),
         \A k \in A, l \in B : Rank(k) < Rank(l)
  PROVE  Conveys(a \o b, A \cup B)
<1>0. a \in Seq(PlaybackEvent) /\ b \in Seq(PlaybackEvent)
  BY DEF Conveys
<1>1. \A i \in DOMAIN a : i \in DOMAIN (a \o b) /\ (a \o b)[i] = a[i]
  BY <1>0
<1>2. \A i \in DOMAIN b : /\ Len(a) + i \in DOMAIN (a \o b)
                          /\ (a \o b)[Len(a) + i] = b[i]
  BY <1>0
<1>3. ASSUME NEW i \in DOMAIN (a \o b)
      PROVE  \/ i \in DOMAIN a /\ (a \o b)[i] = a[i]
             \/ /\ i - Len(a) \in DOMAIN b /\ (a \o b)[i] = b[i - Len(a)]
                /\ i > Len(a)
  <2>1. /\ Len(a) \in Nat /\ Len(b) \in Nat /\ Len(a \o b) = Len(a) + Len(b)
        /\ DOMAIN a = 1..Len(a) /\ DOMAIN b = 1..Len(b)
        /\ DOMAIN (a \o b) = 1..(Len(a) + Len(b))
    BY <1>0
  <2>2. CASE i <= Len(a)
    BY <1>0, <2>1, <2>2
  <2>3. CASE i > Len(a)
    <3>1. i - Len(a) \in 1..Len(b)
      BY <2>1, <2>3
    <3>2. (a \o b)[i] = b[i - Len(a)]
      BY <1>0, <2>1, <2>3
    <3> QED
      BY <2>1, <2>3, <3>1, <3>2
  <2> QED
    BY <2>1, <2>2, <2>3
<1>4. A \cup B \subseteq Said(a \o b)
  BY <1>1, <1>2, ZenonT(60) DEF Said, Conveys
<1>5. Said(a \o b) \subseteq A \cup B
  BY <1>3 DEF Said, Conveys
<1>6. Ranked(a \o b)
  <2> SUFFICES ASSUME NEW i \in DOMAIN (a \o b), NEW j \in DOMAIN (a \o b), i < j,
                      {(a \o b)[i].kind, (a \o b)[j].kind} \subseteq ShownKind
               PROVE  Rank((a \o b)[i].kind) < Rank((a \o b)[j].kind)
    BY DEF Ranked
  <2>1. i \in Nat /\ j \in Nat /\ DOMAIN a = 1..Len(a) /\ Len(a) \in Nat
    BY <1>0
  <2>2. CASE i \in DOMAIN a /\ j \in DOMAIN a
    <3>1. (a \o b)[i] = a[i] /\ (a \o b)[j] = a[j]
      BY <1>1, <2>2
    <3> QED
      BY <2>2, <3>1 DEF Conveys, Ranked
  <2>3. CASE i \in DOMAIN a /\ j \notin DOMAIN a
    <3>1. /\ (a \o b)[i] = a[i]
          /\ j - Len(a) \in DOMAIN b /\ (a \o b)[j] = b[j - Len(a)]
      BY <1>1, <1>3, <2>3
    <3>2. (a \o b)[i].kind \in A /\ (a \o b)[j].kind \in B
      BY <2>3, <3>1 DEF Conveys, Said
    <3> QED
      BY <3>2
  <2>4. CASE i \notin DOMAIN a
    <3>1. j \notin DOMAIN a
      BY <1>3, <2>1, <2>4
    <3>2. /\ i - Len(a) \in DOMAIN b /\ (a \o b)[i] = b[i - Len(a)]
          /\ j - Len(a) \in DOMAIN b /\ (a \o b)[j] = b[j - Len(a)]
          /\ i - Len(a) < j - Len(a)
      BY <1>3, <2>1, <2>4, <3>1
    <3> QED
      BY <3>2 DEF Conveys, Ranked
  <2> QED
    BY <2>2, <2>3, <2>4
<1> QED
  BY <1>0, <1>4, <1>5, <1>6, ConcatType DEF Conveys

(* A kind that shows, alone.                                                *)
LEMMA ConveysShown ==
  ASSUME NEW kind \in ShownKind, NEW flag \in BOOLEAN
  PROVE  Conveys(<<FlagEvent(kind, flag)>>, {kind}) /\ Conveys(<<Event(kind)>>, {kind})
<1>1. kind \in EventKind
  BY DEF ShownKind, LifecycleKind, EventKind
<1>2. FlagEvent(kind, flag) \in PlaybackEvent /\ Event(kind) \in PlaybackEvent
  BY <1>1, EventType
<1>3. FlagEvent(kind, flag).kind = kind /\ Event(kind).kind = kind
  BY DEF Event, FlagEvent
<1>4. {kind} \cap ShownKind = {kind}
  OBVIOUS
<1> QED
  BY <1>2, <1>3, <1>4, ConveysOne

(* Any other event tells nothing.                                           *)
LEMMA ConveysOther ==
  ASSUME NEW kind \in EventKind \ ShownKind
  PROVE  Conveys(<<Event(kind)>>, {})
<1>1. Event(kind) \in PlaybackEvent
  BY EventType
<1>2. Event(kind).kind = kind
  BY DEF Event
<1>3. {kind} \cap ShownKind = {}
  OBVIOUS
<1> QED
  BY <1>1, <1>2, <1>3, ConveysOne

(* What the dispatch appends tells nothing.                                 *)
LEMMA AppendixSaysNothing ==
  ASSUME NEW appended \in Appendix
  PROVE  appended \in Seq(PlaybackEvent) /\ Conveys(appended, {})
<1>1. CASE appended = <<>>
  BY <1>1, ConveysNothing DEF Conveys
<1>2. CASE \E kind \in {"MetadataChanged", "Seeked"} : appended = <<Event(kind)>>
  <2>1. PICK kind \in {"MetadataChanged", "Seeked"} : appended = <<Event(kind)>>
    BY <1>2
  <2>2. kind \in EventKind \ ShownKind
    BY DEF EventKind, ShownKind, LifecycleKind
  <2> QED
    BY <2>1, <2>2, ConveysOther DEF Conveys
<1> QED
  BY <1>1, <1>2 DEF Appendix

(* A conditional event tells its kind under the condition.                  *)
LEMMA ConveysIf ==
  ASSUME NEW cond \in BOOLEAN, NEW kind \in ShownKind
  PROVE  /\ Conveys(If(cond, FlagEvent(kind, FALSE)), Promise!If(cond, kind))
         /\ Conveys(If(cond, Event(kind)), Promise!If(cond, kind))
BY ConveysNothing, ConveysShown, Zenon DEF If, Promise!If

(* The abstract steps in terms of the state machine's variables.            *)
Moved == Promise!If(s'.seeking # s.seeking, "SeekingChanged")
         \cup Promise!If(s'.buffering # s.buffering, "BufferingChanged")

Still == s'.seeking = s.seeking /\ s'.buffering = s.buffering

(* What stays still tells nothing of itself.                                *)
LEMMA StillMoved == Still => Moved = {}
BY DEF Still, Moved, Promise!If

(* A load, a start, a pause, an end, a switch, and any other step.          *)
LEMMA AbstractSteps ==
  ASSUME NEW kinds, Conveys(emitted', kinds)
  PROVE
  /\ /\ s'.phase = "Starting" /\ pending_load' \in BOOLEAN
     /\ s'.seeking = FALSE /\ s'.buffering \in BOOLEAN
     /\ kinds = {"TrackLoaded"}
     => Promise!SourceNext
  /\ /\ s.phase \in {"Starting", "Paused"} /\ s'.phase = "Playing"
     /\ s'.seeking = s.seeking /\ s'.buffering \in {FALSE, s.buffering}
     /\ kinds = Moved \cup {"Started"} /\ pending_load' = pending_load
     => Promise!SourceNext
  /\ /\ s.phase \in {"Starting", "Playing"} /\ s'.phase = "Paused" /\ Still
     /\ kinds = {"Paused"} /\ pending_load' = pending_load
     => Promise!SourceNext
  /\ /\ s'.phase = "Stopped" /\ pending_load' = FALSE
     /\ s'.seeking = FALSE /\ s'.buffering = FALSE
     /\ \E ending \in {"Finished", "Canceled", "Error"} : kinds = Moved \cup {ending}
     => Promise!SourceNext
  /\ /\ pending_load /\ s'.phase = "Starting" /\ pending_load' = FALSE
     /\ s'.seeking = FALSE /\ s'.buffering = FALSE
     /\ kinds = Moved
     => Promise!SourceNext
  /\ /\ s'.phase = s.phase /\ pending_load' = pending_load
     /\ \/ Still
        \/ s.phase # "Stopped" /\ s'.seeking = s.seeking /\ s'.buffering = ~s.buffering
        \/ s.phase # "Stopped" /\ s'.buffering = s.buffering /\ s'.seeking = ~s.seeking
     /\ kinds = Moved
     => Promise!SourceNext
<1>1. Announced' = kinds \cap LifecycleKind /\ Noticed' = kinds \ LifecycleKind
  BY DEF Announced, Noticed, Emits, Said, Conveys, ShownKind
<1>2. Moved = Promise!Changes
  BY DEF Moved, Promise!Changes
<1>3. Moved \subseteq {"SeekingChanged", "BufferingChanged"}
  BY DEF Moved, Promise!If
<1>4. /\ Moved \cap LifecycleKind = {} /\ Moved \ LifecycleKind = Moved
      /\ \A kind \in LifecycleKind :
           /\ (Moved \cup {kind}) \cap LifecycleKind = {kind}
           /\ (Moved \cup {kind}) \ LifecycleKind = Moved
  BY <1>3 DEF LifecycleKind
<1>5. \A kind \in LifecycleKind : {kind} \cap LifecycleKind = {kind} /\ {kind} \ LifecycleKind = {}
  OBVIOUS
<1>6. {"TrackLoaded", "Started", "Paused", "Finished", "Canceled", "Error"} \subseteq LifecycleKind
  BY DEF LifecycleKind
<1> USE DEF Promise!SourceNext
<1>7. ASSUME s'.phase = "Starting", pending_load' \in BOOLEAN, s'.seeking = FALSE,
             s'.buffering \in BOOLEAN, kinds = {"TrackLoaded"}
      PROVE  Promise!SourceNext
  BY <1>1, <1>5, <1>6, <1>7 DEF Promise!Load
<1>8. ASSUME s.phase \in {"Starting", "Paused"}, s'.phase = "Playing",
             s'.seeking = s.seeking, s'.buffering \in {FALSE, s.buffering},
             kinds = Moved \cup {"Started"}, pending_load' = pending_load
      PROVE  Promise!SourceNext
  BY <1>1, <1>2, <1>4, <1>6, <1>8 DEF Promise!Start
<1>9. ASSUME s.phase \in {"Starting", "Playing"}, s'.phase = "Paused", Still,
             kinds = {"Paused"}, pending_load' = pending_load
      PROVE  Promise!SourceNext
  BY <1>1, <1>2, <1>5, <1>6, <1>9, StillMoved DEF Promise!Pause, Still
<1>10. ASSUME s'.phase = "Stopped", pending_load' = FALSE, s'.seeking = FALSE,
              s'.buffering = FALSE,
              \E ending \in {"Finished", "Canceled", "Error"} : kinds = Moved \cup {ending}
       PROVE  Promise!SourceNext
  BY <1>1, <1>2, <1>4, <1>6, <1>10 DEF Promise!End, Promise!Ending
<1>11. ASSUME pending_load, s'.phase = "Starting", pending_load' = FALSE,
              s'.seeking = FALSE, s'.buffering = FALSE, kinds = Moved
       PROVE  Promise!SourceNext
  BY <1>1, <1>2, <1>4, <1>11 DEF Promise!Switch
<1>12. ASSUME s'.phase = s.phase, pending_load' = pending_load, kinds = Moved,
              \/ Still
              \/ s.phase # "Stopped" /\ s'.seeking = s.seeking /\ s'.buffering = ~s.buffering
              \/ s.phase # "Stopped" /\ s'.buffering = s.buffering /\ s'.seeking = ~s.seeking
       PROVE  Promise!SourceNext
  <2>1. kinds \cap LifecycleKind = {} /\ kinds \ LifecycleKind = Moved
    BY <1>4, <1>12
  <2>2. Promise!Other
    BY <1>1, <1>12, <2>1 DEF Promise!Other
  <2>3. Noticed' = Promise!Changes
    BY <1>1, <1>2, <2>1
  <2> QED
    BY <1>12, <2>2, <2>3 DEF Still
<1> QED
  BY <1>7, <1>8, <1>9, <1>10, <1>11, <1>12, ZenonT(60)

(* Every handler is a step of the source, and tells in order.               *)
LEMMA SourceStep ==
  ASSUME SMTypeOK, StoppedIsClean, HandlerStep
  PROVE  Promise!SourceNext /\ Ranked(emitted')
<1>0. \A kinds : Conveys(emitted', kinds) => Ranked(emitted')
  BY DEF Conveys
<1>a. {"TrackLoaded", "Started", "Paused", "Finished", "Canceled", "Error",
       "SeekingChanged", "BufferingChanged"} \subseteq ShownKind
  BY DEF ShownKind, LifecycleKind
<1>b. s \in PlaybackSnapshot
  BY DEF SMTypeOK
<1>c. s.seeking \in BOOLEAN /\ s.buffering \in BOOLEAN /\ s.phase \in Phase
  BY <1>b DEF PlaybackSnapshot
<1>d. ASSUME s' = s, pending_load' = pending_load, Conveys(emitted', {})
      PROVE  Promise!SourceNext
  <2>1. Still
    BY <1>d DEF Still
  <2> QED
    BY <1>d, <2>1, StillMoved, AbstractSteps
<1>1. CASE OnFileLoaded \/ \E id \in Items \cup {NoItem} : OnLoadStarting(id)
  <2>1. /\ s'.phase = "Starting" /\ pending_load' \in BOOLEAN
        /\ s'.seeking = FALSE /\ s'.buffering \in BOOLEAN
    BY <1>1 DEF OnFileLoaded, OnLoadStarting, SMTypeOK, PlaybackSnapshot
  <2>2. emitted' = <<Event("TrackLoaded")>>
    BY <1>1 DEF OnFileLoaded, OnLoadStarting
  <2>3. Conveys(emitted', {"TrackLoaded"})
    BY <1>a, <2>2, ConveysShown
  <2> QED
    BY <1>0, <2>1, <2>3, AbstractSteps
<1>2. ASSUME NEW flag \in BOOLEAN, OnPauseChanged(flag)
      PROVE  Promise!SourceNext /\ Ranked(emitted')
  <2>1. pending_load' = pending_load
    BY <1>2 DEF OnPauseChanged
  <2>2. CASE Ignored
    BY <1>0, <1>d, <2>1, <2>2, ConveysNothing DEF Ignored
  <2>3. CASE /\ s.phase \in {"Starting", "Playing"}
             /\ s' = [s EXCEPT !.phase = "Paused"] /\ emitted' = <<Event("Paused")>>
    <3>1. Conveys(emitted', {"Paused"})
      BY <1>a, <2>3, ConveysShown
    <3>2. s'.phase = "Paused" /\ Still
      BY <1>b, <2>3 DEF PlaybackSnapshot, Still
    <3> QED
      BY <1>0, <2>1, <2>3, <3>1, <3>2, AbstractSteps
  <2>4. CASE /\ s.phase \in {"Starting", "Paused"}
             /\ s' = TransitionToPlaying(s) /\ emitted' = <<Event("Started")>>
    <3>1. Conveys(emitted', {"Started"})
      BY <1>a, <2>4, ConveysShown
    <3>2. s'.phase = "Playing" /\ Still
      BY <1>b, <2>4 DEF PlaybackSnapshot, TransitionToPlaying, Still
    <3>3. Moved \cup {"Started"} = {"Started"}
      BY <3>2, StillMoved
    <3> QED
      BY <1>0, <2>1, <2>4, <3>1, <3>2, <3>3, AbstractSteps DEF Still
  <2> QED
    BY <1>2, <1>c, <2>2, <2>3, <2>4 DEF OnPauseChanged, Pausing, Unpausing, Phase
<1>3. ASSUME NEW reason \in EndReason, OnEndFile(reason)
      PROVE  Promise!SourceNext /\ Ranked(emitted')
  <2> DEFINE ended == If(s.seeking, FlagEvent("SeekingChanged", FALSE))
             drained == If(s.buffering, FlagEvent("BufferingChanged", FALSE))
             calming == ended \o drained
             calm == [s EXCEPT !.seeking = FALSE, !.buffering = FALSE]
  <2>1. calm \in PlaybackSnapshot /\ calm.seeking = FALSE /\ calm.buffering = FALSE
    BY <1>b DEF PlaybackSnapshot
  <2>2. Terminal(reason) \in {"Finished", "Canceled", "Error"}
    BY DEF Terminal
  <2>3. /\ Conveys(ended, Promise!If(s.seeking, "SeekingChanged"))
        /\ Conveys(drained, Promise!If(s.buffering, "BufferingChanged"))
    BY <1>a, <1>c, ConveysIf
  <2>4. /\ Conveys(<<Event(Terminal(reason))>>, {Terminal(reason)})
        /\ <<Event(Terminal(reason))>> \in Seq(PlaybackEvent)
    BY <1>a, <2>2, ConveysShown DEF Conveys
  <2>5. Conveys(calming, Promise!If(s.seeking, "SeekingChanged")
                       \cup Promise!If(s.buffering, "BufferingChanged"))
    <3>1. \A k \in Promise!If(s.seeking, "SeekingChanged"),
             l \in Promise!If(s.buffering, "BufferingChanged") : Rank(k) < Rank(l)
      BY DEF Promise!If, Rank
    <3> HIDE DEF ended, drained
    <3> QED
      BY <2>3, <3>1, ConveysConcat
  <2>6. /\ s'.seeking = FALSE /\ s'.buffering = FALSE /\ pending_load' = FALSE
        /\ IF Swallows(reason)
           THEN s'.phase = "Starting" /\ emitted' = calming
           ELSE s'.phase = "Stopped" /\ emitted' = Append(calming, Event(Terminal(reason)))
    BY <1>3, <2>1 DEF OnEndFile, PlaybackSnapshot
  <2>7. Moved = Promise!If(s.seeking, "SeekingChanged")
                \cup Promise!If(s.buffering, "BufferingChanged")
    BY <1>c, <2>6 DEF Moved, Promise!If
  <2> HIDE DEF calming
  <2>8. CASE Swallows(reason)
    <3>1. pending_load
      BY <2>8 DEF Swallows
    <3> QED
      BY <1>0, <2>5, <2>6, <2>7, <2>8, <3>1, AbstractSteps
  <2>9. CASE ~Swallows(reason)
    <3>1. emitted' = calming \o <<Event(Terminal(reason))>>
      <4>1. calming \in Seq(PlaybackEvent)
        BY <2>5 DEF Conveys
      <4> QED
        BY <2>4, <2>6, <2>9, <4>1, SMTT(30)
    <3>2. \A k \in Moved : Rank(k) < Rank(Terminal(reason))
      BY <2>2 DEF Moved, Promise!If, Rank
    <3>3. Conveys(emitted', Moved \cup {Terminal(reason)})
      BY <2>4, <2>5, <2>7, <3>1, <3>2, ConveysConcat
    <3> QED
      BY <1>0, <2>2, <2>6, <2>9, <3>3, AbstractSteps
  <2> QED
    BY <2>8, <2>9
<1>4. ASSUME NEW combined \in BOOLEAN, ApplyBufferingChange(combined),
             s.phase # "Stopped", pending_load' = pending_load
      PROVE  Promise!SourceNext /\ Ranked(emitted')
  <2> DEFINE changed == [s EXCEPT !.buffering = combined]
             buffers == <<FlagEvent("BufferingChanged", combined)>>
  <2>1. /\ changed \in PlaybackSnapshot /\ changed.phase = s.phase
        /\ changed.seeking = s.seeking /\ changed.buffering = combined
    BY <1>b DEF PlaybackSnapshot
  <2>2. /\ Conveys(buffers, {"BufferingChanged"}) /\ Conveys(<<Event("Started")>>, {"Started"})
        /\ buffers \in Seq(PlaybackEvent)
    BY <1>a, ConveysShown DEF Conveys
  <2>3. CASE Ignored
    BY <1>0, <1>d, <1>4, <2>3, ConveysNothing DEF Ignored
  <2>4. CASE s.buffering # combined /\ s' = changed /\ emitted' = buffers \o <<>>
    <3>1. emitted' = buffers
      BY <2>2, <2>4
    <3>2. s'.phase = s.phase /\ s'.seeking = s.seeking /\ s'.buffering = ~s.buffering
      BY <1>c, <2>1, <2>4
    <3>3. Moved = {"BufferingChanged"}
      BY <1>c, <3>2 DEF Moved, Promise!If
    <3> QED
      BY <1>0, <1>4, <2>2, <3>1, <3>2, <3>3, AbstractSteps
  <2>5. CASE /\ s.buffering # combined /\ combined = FALSE
             /\ s' = TransitionToPlaying(changed) /\ s.phase = "Starting"
             /\ emitted' = buffers \o <<Event("Started")>>
    <3>1. s'.phase = "Playing" /\ s'.seeking = s.seeking /\ s'.buffering = FALSE
      BY <2>1, <2>5 DEF TransitionToPlaying, PlaybackSnapshot
    <3>2. Moved = {"BufferingChanged"}
      BY <1>c, <2>5, <3>1 DEF Moved, Promise!If
    <3>3. Rank("BufferingChanged") < Rank("Started")
      BY DEF Rank
    <3>4. Conveys(emitted', Moved \cup {"Started"})
      BY <2>2, <2>5, <3>2, <3>3, ConveysConcat
    <3> QED
      BY <1>0, <1>4, <2>5, <3>1, <3>4, AbstractSteps
  <2>6. \/ Ignored
        \/ s.buffering # combined /\ s' = changed /\ emitted' = buffers \o <<>>
        \/ /\ s.buffering # combined /\ ~combined
           /\ s' = TransitionToPlaying(changed) /\ s.phase = "Starting"
           /\ emitted' = buffers \o <<Event("Started")>>
    BY <1>4, Zenon DEF ApplyBufferingChange, If
  <2> QED
    BY <2>3, <2>4, <2>5, <2>6
<1>5. CASE \E flag \in BOOLEAN : OnPausedForCache(flag) \/ OnCoreIdle(flag)
  <2>1. Ignored \/ (s.phase # "Stopped" /\ \E combined \in BOOLEAN : ApplyBufferingChange(combined))
    BY <1>5 DEF OnPausedForCache, OnCoreIdle, IsActivePhase
  <2>2. pending_load' = pending_load
    BY <1>5 DEF OnPausedForCache, OnCoreIdle
  <2>3. CASE Ignored
    BY <1>0, <1>d, <2>2, <2>3, ConveysNothing DEF Ignored
  <2> QED
    BY <1>4, <2>1, <2>2, <2>3
<1>6. ASSUME NEW type \in MediaType, NEW appended \in Appendix,
             OnMediaType(type, appended)
      PROVE  Promise!SourceNext /\ Ranked(emitted')
  <2> DEFINE changed == [s EXCEPT !.media_type = type]
             changes == <<Event("MediaTypeChanged")>>
  <2>1. /\ changed \in PlaybackSnapshot /\ changed.phase = s.phase
        /\ changed.seeking = s.seeking /\ changed.buffering = s.buffering
    BY <1>b DEF PlaybackSnapshot
  <2>2. Conveys(changes, {}) /\ changes \in Seq(PlaybackEvent)
    BY ConveysOther DEF EventKind, ShownKind, LifecycleKind, Conveys
  <2>3. /\ Conveys(<<Event("Started")>>, {"Started"})
        /\ <<Event("Started")>> \in Seq(PlaybackEvent)
    BY <1>a, ConveysShown DEF Conveys
  <2>4. appended \in Seq(PlaybackEvent) /\ Conveys(appended, {})
    BY AppendixSaysNothing
  <2>5. pending_load' = pending_load
    BY <1>6 DEF OnMediaType, private
  <2>6. CASE s' = s /\ emitted' = appended
    BY <1>0, <1>d, <2>4, <2>5, <2>6
  <2> HIDE DEF changes
  <2>7. CASE s' = changed /\ emitted' = changes \o <<>> \o appended
    <3>1. emitted' = changes \o appended
      BY <2>2, <2>4, <2>7
    <3>2. Conveys(emitted', {})
      BY <2>2, <2>4, <3>1, ConveysConcat
    <3>3. s'.phase = s.phase /\ Still
      BY <2>1, <2>7 DEF Still
    <3> QED
      BY <1>0, <2>5, <3>2, <3>3, StillMoved, AbstractSteps
  <2>8. CASE /\ s' = TransitionToPlaying(changed) /\ s.phase = "Starting"
             /\ emitted' = changes \o <<Event("Started")>> \o appended
    <3>1. Conveys(changes \o <<Event("Started")>>, {"Started"})
      <4>1. Conveys(changes \o <<Event("Started")>>, {} \cup {"Started"})
        BY <2>2, <2>3, ConveysConcat
      <4> QED
        BY <4>1
    <3>2. Conveys(emitted', {"Started"})
      <4>1. Conveys((changes \o <<Event("Started")>>) \o appended, {"Started"} \cup {})
        BY <2>4, <3>1, ConveysConcat
      <4> QED
        BY <2>8, <4>1
    <3>3. s'.phase = "Playing" /\ Still
      BY <2>1, <2>8 DEF TransitionToPlaying, PlaybackSnapshot, Still
    <3>4. Moved \cup {"Started"} = {"Started"}
      BY <3>3, StillMoved
    <3> QED
      BY <1>0, <2>5, <2>8, <3>2, <3>3, <3>4, AbstractSteps DEF Still
  <2> QED
    BY <1>6, <2>6, <2>7, <2>8 DEF OnMediaType, If, changes
<1>7. ASSUME NEW flag \in BOOLEAN, OnVideoFrameAvailable(flag)
      PROVE  Promise!SourceNext /\ Ranked(emitted')
  <2>1. pending_load' = pending_load
    BY <1>7 DEF OnVideoFrameAvailable
  <2>2. CASE Ignored
    BY <1>0, <1>d, <2>1, <2>2, ConveysNothing DEF Ignored
  <2>3. CASE /\ s.phase = "Starting" /\ s' = TransitionToPlaying(s)
             /\ emitted' = <<Event("Started")>>
    <3>1. s'.phase = "Playing" /\ Still
      BY <1>b, <2>3 DEF TransitionToPlaying, PlaybackSnapshot, Still
    <3>2. Conveys(emitted', {"Started"})
      BY <1>a, <2>3, ConveysShown
    <3>3. Moved \cup {"Started"} = {"Started"}
      BY <3>1, StillMoved
    <3> QED
      BY <1>0, <2>1, <2>3, <3>1, <3>2, <3>3, AbstractSteps DEF Still
  <2> QED
    BY <1>7, <2>2, <2>3 DEF OnVideoFrameAvailable
<1>8. ASSUME NEW position \in Positions, NEW appended \in Appendix,
             OnPosition(position, appended)
      PROVE  Promise!SourceNext /\ Ranked(emitted')
  <2> DEFINE seeks == If(s.seeking, FlagEvent("SeekingChanged", FALSE))
             moves == <<Event("PositionChanged")>>
  <2>1. pending_load' = pending_load
    BY <1>8 DEF OnPosition, private
  <2>2. Conveys(appended, {})
    BY AppendixSaysNothing
  <2>3. Conveys(seeks, Promise!If(s.seeking, "SeekingChanged"))
    BY <1>a, <1>c, ConveysIf
  <2>4. Conveys(moves, {})
    BY ConveysOther DEF EventKind, ShownKind, LifecycleKind
  <2>5. CASE s' = s /\ emitted' = appended
    BY <1>0, <1>d, <2>1, <2>2, <2>5
  <2>6. CASE /\ s' = [s EXCEPT !.position_us = position, !.seeking = FALSE]
             /\ emitted' = seeks \o moves \o appended
    <3>1. s'.phase = s.phase /\ s'.buffering = s.buffering /\ s'.seeking = FALSE
      BY <1>b, <2>6 DEF PlaybackSnapshot
    <3>2. Moved = Promise!If(s.seeking, "SeekingChanged")
      BY <1>c, <3>1 DEF Moved, Promise!If
    <3> HIDE DEF seeks, moves
    <3>3. Conveys(seeks \o moves, Moved)
      <4>1. Conveys(seeks \o moves, Moved \cup {})
        BY <2>3, <2>4, <3>2, ConveysConcat
      <4> QED
        BY <4>1
    <3>4. Conveys(emitted', Moved)
      <4>1. Conveys((seeks \o moves) \o appended, Moved \cup {})
        BY <2>2, <3>3, ConveysConcat
      <4> QED
        BY <2>6, <4>1
    <3>5. Still \/ (s.phase # "Stopped" /\ s'.seeking = ~s.seeking)
      BY <1>c, <3>1 DEF Still, StoppedIsClean
    <3> QED
      BY <1>0, <2>1, <3>1, <3>4, <3>5, AbstractSteps
  <2> QED
    BY <1>8, <2>5, <2>6 DEF OnPosition
<1>9. ASSUME NEW flag \in BOOLEAN, OnSeekingChanged(flag)
      PROVE  Promise!SourceNext /\ Ranked(emitted')
  <2>1. pending_load' = pending_load
    BY <1>9 DEF OnSeekingChanged, private
  <2>2. CASE Ignored
    BY <1>0, <1>d, <2>1, <2>2, ConveysNothing DEF Ignored
  <2>3. CASE /\ s.phase # "Stopped" /\ s.seeking # flag /\ s' = [s EXCEPT !.seeking = flag]
             /\ emitted' = <<FlagEvent("SeekingChanged", flag)>>
    <3>1. s'.phase = s.phase /\ s'.buffering = s.buffering /\ s'.seeking = ~s.seeking
      BY <1>b, <1>c, <2>3 DEF PlaybackSnapshot
    <3>2. Moved = {"SeekingChanged"}
      BY <1>c, <3>1 DEF Moved, Promise!If
    <3>3. Conveys(emitted', Moved)
      BY <1>a, <2>3, <3>2, ConveysShown
    <3> QED
      BY <1>0, <2>1, <2>3, <3>1, <3>3, AbstractSteps
  <2> QED
    BY <1>9, <2>2, <2>3 DEF OnSeekingChanged, IsActivePhase
<1>10. CASE \/ \E flag \in BOOLEAN, max \in BOOLEAN : OnFullscreen(flag, max)
            \/ \E setting \in Settings, value \in Values : OnSetting(setting, value)
            \/ \E kind \in {"ArtworkChanged", "QueueCapsChanged"} :
                 PassThrough(kind)
  <2>1. s'.phase = s.phase /\ pending_load' = pending_load /\ Still
    BY <1>10, <1>b DEF OnFullscreen, OnSetting, PassThrough, Ignored,
                       private, PlaybackSnapshot, Still
  <2>2. \/ emitted' = <<>>
        \/ \E kind \in EventKind \ ShownKind : emitted' = <<Event(kind)>>
    BY <1>10 DEF OnFullscreen, OnSetting, PassThrough, Ignored, EventKind,
                 ShownKind, LifecycleKind
  <2>3. Conveys(emitted', {})
    BY <2>2, ConveysNothing, ConveysOther
  <2> QED
    BY <1>0, <2>1, <2>3, StillMoved, AbstractSteps
<1> QED
  BY <1>1, <1>2, <1>3, <1>5, <1>6, <1>7, <1>8, <1>9, <1>10 DEF HandlerStep

(* So is every step of the state machine, or it changes nothing.            *)
LEMMA SourceSteps ==
  SMTypeOK /\ SafeInv /\ EmittedInOrder /\ [SMNext]_smVars
    => [Promise!SourceNext]_(Promise!sourceVars) /\ EmittedInOrder'
<1> SUFFICES ASSUME SMTypeOK, SafeInv, EmittedInOrder, [SMNext]_smVars
             PROVE  [Promise!SourceNext]_(Promise!sourceVars) /\ EmittedInOrder'
  OBVIOUS
<1>1. CASE SMNext
  BY <1>1, NextIsHandlerStep, SourceStep DEF SafeInv, EmittedInOrder, Ranked
<1>2. CASE UNCHANGED smVars
  BY <1>2 DEF smVars, private, Promise!sourceVars, Promise!lifecycleVars, Announced,
              Noticed, Emits, EmittedInOrder
<1> QED
  BY <1>1, <1>2

(* It begins as the source does.                                            *)
LEMMA SourceStart == SMInit => Promise!SourceInit /\ EmittedInOrder
BY DEF SMInit, Fresh, Promise!SourceInit, Promise!Init, Announced, Noticed, Emits, EmittedInOrder

(* The state machine implements the source its listeners are promised: the  *)
(* lifecycle, where seeking and buffering may change beside it, and events  *)
(* in order for all of it.                                                  *)
THEOREM SourceRefined == SMSpec => ImplementsSource
<1>1. SMSpec => [](SMTypeOK /\ SafeInv)
  BY InvHolds
<1>2. SMSpec => []EmittedInOrder /\ [][Promise!SourceNext]_(Promise!sourceVars)
  BY <1>1, SourceStart, SourceSteps, PTL DEF SMSpec
<1> QED
  BY <1>2, SourceStart, PTL DEF SMSpec, ImplementsSource, Promise!SourceSpec

-----------------------------------------------------------------------------
(* Changes of the snapshot and the events that announce them.               *)
Says(evs, kind) == \E i \in DOMAIN evs : evs[i].kind = kind

(* What ChangesAnnounced asks of a step.                                    *)
Announcement ==
  /\ s'.seeking # s.seeking => Emits("SeekingChanged")' \/ Emits("TrackLoaded")'
  /\ s'.buffering # s.buffering =>
       Emits("BufferingChanged")' \/ Emits("TrackLoaded")'
  /\ s'.media_type # s.media_type => Emits("MediaTypeChanged")'
  /\ s'.position_us # s.position_us =>
       Emits("PositionChanged")' \/ EmitsTerminal'
  /\ s'.variant_switch_pending # s.variant_switch_pending =>
       Emits("TrackLoaded")' \/ Emits("Started")' \/ EmitsTerminal'
  /\ s'.fullscreen # s.fullscreen => Emits("FullscreenChanged")'
  /\ s'.settings # s.settings => Emits("SettingChanged")'

(* An event says its kind.                                                  *)
LEMMA SaysOne ==
  ASSUME NEW event
  PROVE  Says(<<event>>, event.kind)
BY DEF Says

(* A concatenation says what either part says.                              *)
LEMMA SaysConcat ==
  ASSUME NEW a \in Seq(PlaybackEvent), NEW b \in Seq(PlaybackEvent), NEW kind,
         Says(a, kind) \/ Says(b, kind)
  PROVE  Says(a \o b, kind)
<1>1. CASE Says(a, kind)
  <2>1. \A i \in DOMAIN a : i \in DOMAIN (a \o b) /\ (a \o b)[i] = a[i]
    OBVIOUS
  <2> QED
    BY <1>1, <2>1 DEF Says
<1>2. CASE Says(b, kind)
  <2>1. \A i \in DOMAIN b : /\ Len(a) + i \in DOMAIN (a \o b)
                            /\ (a \o b)[Len(a) + i] = b[i]
    OBVIOUS
  <2> QED
    BY <1>2, <2>1 DEF Says
<1> QED
  BY <1>1, <1>2

(* An append says what it is made of.                                       *)
LEMMA SaysAppend ==
  ASSUME NEW a \in Seq(PlaybackEvent), NEW event \in PlaybackEvent
  PROVE  /\ Says(Append(a, event), event.kind)
         /\ \A kind : Says(a, kind) => Says(Append(a, event), kind)
<1>1. \A i \in DOMAIN a : /\ i \in DOMAIN Append(a, event)
                          /\ Append(a, event)[i] = a[i]
  OBVIOUS
<1>2. /\ Len(a) + 1 \in DOMAIN Append(a, event)
      /\ Append(a, event)[Len(a) + 1] = event
  OBVIOUS
<1> QED
  BY <1>1, <1>2 DEF Says

(* What a step emits is what its events say.                                *)
LEMMA EmitsIsSays == \A kind : Emits(kind)' <=> Says(emitted', kind)
BY DEF Emits, Says

(* The kinds of events.                                                     *)
LEMMA KindOf ==
  \A kind, flag : Event(kind).kind = kind /\ FlagEvent(kind, flag).kind = kind
BY DEF Event, FlagEvent

(* A seek that ends is announced.                                           *)
LEMMA SaysEnded ==
  s.seeking => Says(If(s.seeking, FlagEvent("SeekingChanged", FALSE)),
                    "SeekingChanged")
BY DEF Says, If, FlagEvent

(* So is buffering that ends.                                               *)
LEMMA SaysDrained ==
  s.buffering => Says(If(s.buffering, FlagEvent("BufferingChanged", FALSE)),
                      "BufferingChanged")
BY DEF Says, If, FlagEvent

(* Every handler announces what it changes.                                 *)
LEMMA AnnounceStep ==
  ASSUME SMTypeOK, HandlerStep
  PROVE  Announcement
<1> USE DEF SMTypeOK, PlaybackSnapshot
<1>1. CASE OnFileLoaded \/ \E id \in Items \cup {NoItem} : OnLoadStarting(id)
  <2>1. emitted' = <<Event("TrackLoaded")>>
    BY <1>1 DEF OnFileLoaded, OnLoadStarting
  <2>2. Emits("TrackLoaded")'
    BY <2>1, SaysOne, KindOf, EmitsIsSays
  <2>3. /\ s'.media_type = s.media_type /\ s'.position_us = s.position_us
        /\ s'.fullscreen = s.fullscreen /\ s'.settings = s.settings
    BY <1>1 DEF OnFileLoaded, OnLoadStarting
  <2> QED
    BY <2>2, <2>3 DEF Announcement
<1>2. CASE s' = s
  BY <1>2 DEF Announcement
<1>3. ASSUME NEW t \in PlaybackSnapshot, s' = TransitionToPlaying(t),
             t.seeking = s.seeking, t.position_us = s.position_us,
             t.variant_switch_pending = s.variant_switch_pending,
             t.fullscreen = s.fullscreen, t.settings = s.settings,
             t.buffering # s.buffering => Emits("BufferingChanged")',
             t.media_type # s.media_type => Emits("MediaTypeChanged")',
             Emits("Started")'
      PROVE  Announcement
  BY <1>3 DEF Announcement, TransitionToPlaying
<1>4. CASE \E flag \in BOOLEAN : OnPauseChanged(flag)
  <2>1. CASE s' = s
    BY <2>1, <1>2
  <2>2. CASE s' = [s EXCEPT !.phase = "Paused"]
    BY <2>2 DEF Announcement
  <2>3. CASE s' = TransitionToPlaying(s) /\ emitted' = <<Event("Started")>>
    <3>1. Emits("Started")'
      BY <2>3, SaysOne, KindOf, EmitsIsSays
    <3> QED
      BY <2>3, <3>1, <1>3
  <2> QED
    BY <1>4, <2>1, <2>2, <2>3 DEF OnPauseChanged, Pausing, Unpausing, Ignored
<1>5. CASE \E flag \in BOOLEAN : OnVideoFrameAvailable(flag)
  <2>1. CASE s' = s
    BY <2>1, <1>2
  <2>2. CASE s' = TransitionToPlaying(s) /\ emitted' = <<Event("Started")>>
    <3>1. Emits("Started")'
      BY <2>2, SaysOne, KindOf, EmitsIsSays
    <3> QED
      BY <2>2, <3>1, <1>3
  <2> QED
    BY <1>5, <2>1, <2>2 DEF OnVideoFrameAvailable, Ignored
<1>6. ASSUME NEW combined \in BOOLEAN, ApplyBufferingChange(combined)
      PROVE  Announcement
  <2> DEFINE changed == [s EXCEPT !.buffering = combined]
             event == FlagEvent("BufferingChanged", combined)
             promoted == /\ ~combined
                         /\ s.phase = "Starting"
                         /\ pause_requested
                         /\ ReadyToPlay(s.media_type, frame_available)
  <2>1. CASE s' = s
    BY <2>1, <1>2
  <2>2. CASE /\ s' = IF promoted THEN TransitionToPlaying(changed) ELSE changed
             /\ emitted' = <<event>> \o If(promoted, Event("Started"))
    <3>1. event \in PlaybackEvent /\ Event("Started") \in PlaybackEvent
      BY EventType DEF EventKind
    <3>2. <<event>> \in Seq(PlaybackEvent)
      BY <3>1, ShortSeqType
    <3>3. If(promoted, Event("Started")) \in Seq(PlaybackEvent)
      BY <3>1, IfType
    <3>4. Says(<<event>>, "BufferingChanged")
      BY SaysOne, KindOf
    <3>5. Emits("BufferingChanged")'
      BY <2>2, <3>2, <3>3, <3>4, SaysConcat, EmitsIsSays
    <3>6. CASE promoted
      <4>1. Says(If(promoted, Event("Started")), "Started")
        BY <3>6, SaysOne, KindOf DEF If
      <4>2. Emits("Started")'
        BY <2>2, <3>2, <3>3, <4>1, SaysConcat, EmitsIsSays
      <4>3. changed \in PlaybackSnapshot
        OBVIOUS
      <4>4. s' = TransitionToPlaying(changed)
        BY <2>2, <3>6
      <4>5. /\ changed.seeking = s.seeking
            /\ changed.position_us = s.position_us
            /\ changed.variant_switch_pending = s.variant_switch_pending
            /\ changed.fullscreen = s.fullscreen
            /\ changed.settings = s.settings
            /\ changed.media_type = s.media_type
        OBVIOUS
      <4> HIDE DEF changed, promoted, event
      <4> QED
        BY <3>5, <4>2, <4>3, <4>4, <4>5, <1>3
    <3>7. CASE ~promoted
      <4>1. s' = changed
        BY <2>2, <3>7
      <4> QED
        BY <4>1, <3>5 DEF Announcement
    <3> QED
      BY <3>6, <3>7
  <2> QED
    BY <1>6, <2>1, <2>2 DEF ApplyBufferingChange, Ignored
<1>7. CASE \/ \E flag \in BOOLEAN : OnPausedForCache(flag)
           \/ \E flag \in BOOLEAN : OnCoreIdle(flag)
  <2>1. s' = s \/ \E combined \in BOOLEAN : ApplyBufferingChange(combined)
    BY <1>7 DEF OnPausedForCache, OnCoreIdle, Ignored
  <2> QED
    BY <2>1, <1>2, <1>6
<1>8. CASE \E reason \in EndReason : OnEndFile(reason)
  <2>1. PICK reason \in EndReason : OnEndFile(reason)
    BY <1>8
  <2> DEFINE ended == If(s.seeking, FlagEvent("SeekingChanged", FALSE))
             drained == If(s.buffering, FlagEvent("BufferingChanged", FALSE))
             settled == ended \o drained
  <2>2. /\ FlagEvent("SeekingChanged", FALSE) \in PlaybackEvent
        /\ FlagEvent("BufferingChanged", FALSE) \in PlaybackEvent
        /\ Terminal(reason) \in {"Finished", "Canceled", "Error"}
        /\ Event(Terminal(reason)) \in PlaybackEvent
    BY EventType DEF EventKind, Terminal
  <2>3. ended \in Seq(PlaybackEvent) /\ drained \in Seq(PlaybackEvent)
    BY <2>2, IfType
  <2>4. settled \in Seq(PlaybackEvent)
    BY <2>3, ConcatType
  <2>5. s.seeking => Says(settled, "SeekingChanged")
    <3>1. s.seeking => Says(ended, "SeekingChanged")
      BY SaysEnded
    <3> HIDE DEF ended, drained
    <3> QED
      BY <2>3, <3>1, SaysConcat
  <2>6. s.buffering => Says(settled, "BufferingChanged")
    <3>1. s.buffering => Says(drained, "BufferingChanged")
      BY SaysDrained
    <3> HIDE DEF ended, drained
    <3> QED
      BY <2>3, <3>1, SaysConcat
  <2>7. /\ s'.seeking = FALSE /\ s'.buffering = FALSE
        /\ s'.media_type = s.media_type
        /\ s'.fullscreen = s.fullscreen /\ s'.settings = s.settings
    BY <2>1, ZenonT(60) DEF OnEndFile
  <2>8. \/ /\ emitted' = settled /\ s'.position_us = s.position_us
           /\ s'.variant_switch_pending = s.variant_switch_pending
        \/ emitted' = Append(settled, Event(Terminal(reason)))
    BY <2>1 DEF OnEndFile
  <2> HIDE DEF settled
  <2>9. CASE /\ emitted' = settled /\ s'.position_us = s.position_us
             /\ s'.variant_switch_pending = s.variant_switch_pending
    BY <2>5, <2>6, <2>7, <2>9, EmitsIsSays DEF Announcement
  <2>10. CASE emitted' = Append(settled, Event(Terminal(reason)))
    <3>0. Event(Terminal(reason)).kind = Terminal(reason)
      BY <2>2, KindOf
    <3> DEFINE last == Event(Terminal(reason))
    <3>4. /\ Says(Append(settled, last), last.kind)
          /\ \A kind : Says(settled, kind) => Says(Append(settled, last), kind)
      <4>1. last \in PlaybackEvent
        BY <2>2
      <4> HIDE DEF last
      <4> QED
        BY <2>4, <4>1, SaysAppend
    <3>1. Says(emitted', Terminal(reason))
      BY <2>10, <3>0, <3>4
    <3>2. EmitsTerminal'
      BY <2>2, <3>1, EmitsIsSays DEF EmitsTerminal
    <3>3. \A kind : Says(settled, kind) => Says(emitted', kind)
      BY <2>10, <3>4
    <3> QED
      BY <2>5, <2>6, <2>7, <3>2, <3>3, EmitsIsSays DEF Announcement
  <2> QED
    BY <2>8, <2>9, <2>10
<1>9. CASE \E flag \in BOOLEAN : OnSeekingChanged(flag)
  <2>1. PICK flag \in BOOLEAN : OnSeekingChanged(flag)
    BY <1>9
  <2>2. CASE s' = s
    BY <2>2, <1>2
  <2>3. CASE /\ s' = [s EXCEPT !.seeking = flag]
             /\ emitted' = <<FlagEvent("SeekingChanged", flag)>>
    <3>1. Emits("SeekingChanged")'
      BY <2>3, SaysOne, KindOf, EmitsIsSays
    <3> QED
      BY <2>3, <3>1 DEF Announcement
  <2> QED
    BY <2>1, <2>2, <2>3 DEF OnSeekingChanged, Ignored
<1>10. ASSUME NEW position \in Positions, NEW appended \in Appendix,
              OnPosition(position, appended)
       PROVE  Announcement
  <2> DEFINE moved == <<Event("PositionChanged")>>
             ended == If(s.seeking, FlagEvent("SeekingChanged", FALSE))
  <2>1. CASE s' = s
    BY <2>1, <1>2
  <2>2. CASE /\ s' = [s EXCEPT !.position_us = position, !.seeking = FALSE]
             /\ emitted' = ended \o moved \o appended
    <3>1. /\ FlagEvent("SeekingChanged", FALSE) \in PlaybackEvent
          /\ Event("PositionChanged") \in PlaybackEvent
      BY EventType DEF EventKind
    <3>2. ended \in Seq(PlaybackEvent) /\ moved \in Seq(PlaybackEvent)
      BY <3>1, IfType, ShortSeqType
    <3>3. appended \in Seq(PlaybackEvent)
      BY AppendixSaysNothing
    <3>4. Says(moved, "PositionChanged")
      BY SaysOne, KindOf
    <3>5. s.seeking => Says(ended, "SeekingChanged")
      BY SaysEnded
    <3> HIDE DEF moved, ended
    <3>6. ended \o moved \in Seq(PlaybackEvent)
      BY <3>2, ConcatType
    <3>7. /\ Says(ended \o moved, "PositionChanged")
          /\ s.seeking => Says(ended \o moved, "SeekingChanged")
      BY <3>2, <3>4, <3>5, SaysConcat
    <3>8. /\ Emits("PositionChanged")'
          /\ s.seeking => Emits("SeekingChanged")'
      BY <2>2, <3>3, <3>6, <3>7, SaysConcat, EmitsIsSays
    <3> QED
      BY <2>2, <3>8 DEF Announcement
  <2> QED
    BY <1>10, <2>1, <2>2 DEF OnPosition
<1>11. ASSUME NEW type \in MediaType, NEW appended \in Appendix,
              OnMediaType(type, appended)
       PROVE  Announcement
  <2> DEFINE changed == [s EXCEPT !.media_type = type]
             promoted == /\ s.phase = "Starting"
                         /\ pause_requested
                         /\ ~s.buffering
                         /\ ReadyToPlay(type, frame_available)
             typed == <<Event("MediaTypeChanged")>>
             started == If(promoted, Event("Started"))
  <2>1. CASE s' = s
    BY <2>1, <1>2
  <2>2. CASE /\ s' = IF promoted THEN TransitionToPlaying(changed) ELSE changed
             /\ emitted' = typed \o started \o appended
    <3>1. /\ Event("MediaTypeChanged") \in PlaybackEvent
          /\ Event("Started") \in PlaybackEvent
      BY EventType DEF EventKind
    <3>2. typed \in Seq(PlaybackEvent) /\ started \in Seq(PlaybackEvent)
      BY <3>1, IfType, ShortSeqType
    <3>3. appended \in Seq(PlaybackEvent)
      BY AppendixSaysNothing
    <3>4. Says(typed, "MediaTypeChanged")
      BY SaysOne, KindOf
    <3>5. promoted => Says(started, "Started")
      BY SaysOne, KindOf DEF If
    <3>6. /\ changed \in PlaybackSnapshot
          /\ changed.seeking = s.seeking
          /\ changed.position_us = s.position_us
          /\ changed.variant_switch_pending = s.variant_switch_pending
          /\ changed.fullscreen = s.fullscreen
          /\ changed.settings = s.settings
          /\ changed.buffering = s.buffering
      OBVIOUS
    <3> HIDE DEF typed, started, promoted, changed
    <3>7. typed \o started \in Seq(PlaybackEvent)
      BY <3>2, ConcatType
    <3>8. /\ Says(typed \o started, "MediaTypeChanged")
          /\ promoted => Says(typed \o started, "Started")
      BY <3>2, <3>4, <3>5, SaysConcat
    <3>9. /\ Emits("MediaTypeChanged")'
          /\ promoted => Emits("Started")'
      BY <2>2, <3>3, <3>7, <3>8, SaysConcat, EmitsIsSays
    <3>10. CASE promoted
      BY <2>2, <3>6, <3>9, <3>10, <1>3
    <3>11. CASE ~promoted
      BY <2>2, <3>6, <3>9, <3>11 DEF Announcement
    <3> QED
      BY <3>10, <3>11
  <2> QED
    BY <1>11, <2>1, <2>2 DEF OnMediaType
<1>12. CASE \E flag \in BOOLEAN, max \in BOOLEAN : OnFullscreen(flag, max)
  <2>1. PICK flag \in BOOLEAN, max \in BOOLEAN : OnFullscreen(flag, max)
    BY <1>12
  <2>2. CASE s' = s
    BY <2>2, <1>2
  <2>3. CASE /\ s' = [s EXCEPT !.fullscreen = flag,
                               !.maximized_before_fullscreen = flag /\ max]
             /\ emitted' = <<Event("FullscreenChanged")>>
    <3>1. Emits("FullscreenChanged")'
      BY <2>3, SaysOne, KindOf, EmitsIsSays
    <3> QED
      BY <2>3, <3>1 DEF Announcement
  <2> QED
    BY <2>1, <2>2, <2>3 DEF OnFullscreen, Ignored
<1>13. CASE \E setting \in Settings, value \in Values : OnSetting(setting, value)
  <2>1. PICK setting \in Settings, value \in Values : OnSetting(setting, value)
    BY <1>13
  <2>2. CASE s' = s
    BY <2>2, <1>2
  <2>3. CASE /\ s' = [s EXCEPT !.settings[setting] = value]
             /\ emitted' = <<Event("SettingChanged")>>
    <3>1. Emits("SettingChanged")'
      BY <2>3, SaysOne, KindOf, EmitsIsSays
    <3> QED
      BY <2>3, <3>1 DEF Announcement
  <2> QED
    BY <2>1, <2>2, <2>3 DEF OnSetting, Ignored
<1>14. CASE \E kind \in {"ArtworkChanged", "QueueCapsChanged"} : PassThrough(kind)
  BY <1>14, <1>2 DEF PassThrough
<1> QED
  BY <1>1, <1>4, <1>5, <1>7, <1>8, <1>9, <1>10, <1>11, <1>12, <1>13, <1>14
     DEF HandlerStep

(* No field of the snapshot changes without the event its listeners need.   *)
THEOREM AnnouncedCorrect == SMSpec => ChangesAnnounced
<1>1. SMTypeOK /\ [SMNext]_smVars => [Announcement]_smVars
  BY NextIsHandlerStep, AnnounceStep
<1> QED
  BY <1>1, InvHolds, PTL DEF SMSpec, ChangesAnnounced, Announcement
=============================================================================
