--------------------------- MODULE MacDisplayLink ---------------------------
(***************************************************************************)
(* The display link of macOS, whose ticks ask CEF for its frames: its      *)
(* construction on the display of the window, and its restarts when the    *)
(* system wakes or its displays change (macos/src/init.rs).                *)
(*                                                                         *)
(* Displays are external: a link made for one stops for good when that one *)
(* goes dark or away.  Going dark tells nobody; coming back, and every     *)
(* change of the arrangement, posts a notification, which the main thread  *)
(* serves later.  The window may move to another display untold.           *)
(***************************************************************************)
EXTENDS Naturals

CONSTANTS
  Displays,  \* the displays
  NoDisplay, \* no display: none lit, or a window beyond them all
  MaxLit     \* bound on the changes of the displays

ASSUME LinkAssumption == NoDisplay \notin Displays /\ MaxLit \in Nat

VARIABLES
  linkAt,   \* the main thread: before macos_init, running, asked to end, down
  link,     \* the display link: its display, whether it ticks
  displays, \* those that are lit, the window's, notifications to come, changes
  missed    \* the last restart found the window on no display

linkVars == <<linkAt, link, displays, missed>>

NoLink == [display |-> NoDisplay, ticks |-> FALSE]

LinkInit ==
  /\ linkAt = "init" /\ link = NoLink /\ missed = FALSE
  /\ \E d \in Displays \cup {NoDisplay} :
       displays = [lit |-> Displays, window |-> d, notes |-> 0, changes |-> 0]

-----------------------------------------------------------------------------
(* build_display_link: on the display of the window.                        *)
Built == [display |-> displays.window, ticks |-> displays.window \in displays.lit]

(* macos_init: without a link the boot fails; the notifications are         *)
(* subscribed to once there is one.                                         *)
MacInit ==
  /\ linkAt = "init"
  /\ IF displays.window = NoDisplay
     THEN linkAt' = "down" /\ UNCHANGED link
     ELSE linkAt' = "run" /\ link' = Built
  /\ displays' = [displays EXCEPT !.notes = 0]
  /\ UNCHANGED missed

(* Mutant of Restarted: the old link is taken down first.                   *)
RestartedAfresh == IF displays.window = NoDisplay THEN NoLink ELSE Built

(* restart_display_link: the old link stays when there is no new one.       *)
Restarted == IF displays.window = NoDisplay THEN link ELSE Built

(* displayLinkNeedsRestart, for one notification.                           *)
ServeNotification ==
  /\ linkAt \in {"run", "asked"} /\ displays.notes > 0
  /\ displays' = [displays EXCEPT !.notes = @ - 1]
  /\ IF linkAt = "asked" THEN UNCHANGED <<link, missed>>
     ELSE link' = Restarted /\ missed' = (displays.window = NoDisplay)
  /\ UNCHANGED linkAt

AskEnd == linkAt = "run" /\ linkAt' = "asked" /\ UNCHANGED <<link, displays, missed>>

(* macos_cleanup: stop_display_link.                                        *)
MacCleanup ==
  /\ linkAt = "asked" /\ linkAt' = "down" /\ link' = NoLink
  /\ UNCHANGED <<displays, missed>>

-----------------------------------------------------------------------------
CanChange == displays.changes < MaxLit /\ linkAt # "down"

(* A display goes dark or away, or comes back; the arrangement may move the *)
(* window, to no display if it has none left.                               *)
DisplayChange ==
  /\ CanChange
  /\ \E d \in Displays, told \in BOOLEAN, w \in Displays \cup {NoDisplay} :
       LET back == d \notin displays.lit
           lit == IF back THEN displays.lit \cup {d} ELSE displays.lit \ {d}
       IN
       /\ back \/ w # displays.window => told
       /\ w \in lit \cup {displays.window, NoDisplay}
       /\ displays' = [lit |-> lit, window |-> w, changes |-> displays.changes + 1,
                       notes |-> displays.notes + (IF told THEN 1 ELSE 0)]
       /\ link' = IF link.display = d THEN [link EXCEPT !.ticks = FALSE] ELSE link
  /\ UNCHANGED <<linkAt, missed>>

(* The user moves the window; nobody is told.                               *)
WindowMoves ==
  /\ CanChange
  /\ \E d \in (displays.lit \cup {NoDisplay}) \ {displays.window} :
       displays' = [displays EXCEPT !.window = d, !.changes = @ + 1]
  /\ UNCHANGED <<linkAt, link, missed>>

LinkNext ==
  \/ MacInit \/ ServeNotification \/ AskEnd \/ MacCleanup
  \/ DisplayChange \/ WindowMoves

LinkSpec == LinkInit /\ [][LinkNext]_linkVars

-----------------------------------------------------------------------------
(* The variables hold the values of their types.                            *)
LinkTypeOK ==
  /\ linkAt \in {"init", "run", "asked", "down"}
  /\ link \in [display : Displays \cup {NoDisplay}, ticks : BOOLEAN]
  /\ displays \in [lit : SUBSET Displays, window : Displays \cup {NoDisplay},
                   notes : 0..MaxLit, changes : 0..MaxLit]
  /\ missed \in BOOLEAN

(* While the application runs it has a display link, and once it was told   *)
(* of the displays the frames go on: the link of the window's display ticks *)
(* whenever that display is lit, however displays sleep, wake, leave and    *)
(* arrive.  Excepted is a window that was on no display when the link was   *)
(* to be restarted: the old one is kept, and nothing tells when it is back. *)
FramesGoOn ==
  linkAt = "run" =>
    /\ link.display # NoDisplay
    /\ displays.notes = 0 /\ displays.window \in displays.lit
       /\ link.display = displays.window /\ ~missed
       => link.ticks
=============================================================================
