------------------------------- MODULE MpvBoot -------------------------------
(***************************************************************************)
(* The mpv handle from its creation to its end: jfn_app_main of            *)
(* jfn_rust/app.rs with the VO wait, the mpv event thread and the ingest   *)
(* layer (playback/ingest_driver.rs, ingest.rs), the proxy callbacks of    *)
(* Wayland (wayland/proxy.rs) and the teardown of shutdown_runtime.  mpv,  *)
(* the compositor and the user are external.                               *)
(*                                                                         *)
(* Of the observed properties the three the boot depends on are kept: the  *)
(* size of the window, its scale and whether it is maximized.  A size is   *)
(* one number, in device pixels.                                           *)
(***************************************************************************)
EXTENDS Integers, Sequences

CONSTANTS
  Hosts,          \* the kinds of MpvHost: "wayland", "default", "macos"
  MaxWindow,      \* bound on the changes of the window
  LogicalSizes,   \* sizes a window may have
  Scales          \* scales a display may have

ASSUME HostsAssumption == Hosts \subseteq {"wayland", "default", "macos"}
ASSUME BootAssumption ==
  /\ MaxWindow \in Nat
  /\ LogicalSizes \subseteq Nat \ {0} /\ Scales \subseteq Nat \ {0}

VARIABLES
  host,       \* the MpvHost of the platform
  handle_slot,\* the Handle: "none", "live" or "gone"
  at,         \* where the main thread is
  vo,         \* locals of wait_for_vo_window: what is wanted, mw, need_max
  ingest,     \* IngestState: window_pw, display_scale, window_maximized
  mpvWin,     \* mpvWin's own values of the observed properties; whether it quit
  news,       \* observed properties whose change was not delivered
  changes,    \* changes of the window so far
  woken,      \* mpv_wakeup was called since the last mpv_wait_event
  wlWindow,   \* WINDOW_STATE of the proxy callbacks: size and scale
  pend,       \* PENDING of wlproxy: logical width and scale
  proxyAt,    \* where the proxy thread is
  linked,     \* the proxy callbacks are registered
  evt,        \* the event thread: where it is, the size set_scale read
  evtStop,    \* its stop flag
  coord,      \* the coordinator: "none", "on" or "off"
  dims,       \* OsdDims inputs not yet delivered to the browser sink
  setter,     \* the set_size handler is installed
  reg,        \* the browser registry: whether there is one, its size
  lost,       \* how a size has been lost to the browsers (history)
  media,      \* the media session runs
  holding,    \* threads that hold the raw handle they are about to use
  closing     \* a shutdown was initiated

threadVars == <<handle_slot, at, vo>>
mpvWinVars == <<mpvWin, news, changes>>
wlVars == <<wlWindow, pend, proxyAt, linked>>
evtVars == <<evt, evtStop>>
sizeVars == <<coord, dims, setter, reg, lost>>
userVars == <<media, holding, closing>>
bootVars == <<host, threadVars, ingest, mpvWinVars, woken, wlVars, evtVars, sizeVars, userVars>>

Observed == {"size", "scale", "max"}
Users == {"cef", "media", "worker"}
VoWait == {"drain", "size", "ready", "block"}

(* Mutant of Teardown: the handle goes before the coordinator. *)
TeardownHandleFirst ==
  [detach |-> "media", media |-> "stop", stop |-> "wake", wake |-> "join",
   join |-> "cef", cef |-> "terminate", terminate |-> "coordinator",
   coordinator |-> "down"]

(* The order in which shutdown_runtime and jfn_app_main take things down.   *)
Teardown ==
  [detach |-> "media", media |-> "stop", stop |-> "wake", wake |-> "join",
   join |-> "cef", cef |-> "coordinator", coordinator |-> "terminate",
   terminate |-> "down"]

BootInit ==
  /\ host \in Hosts
  /\ handle_slot = "none" /\ at = "init"
  /\ \E want \in BOOLEAN : vo = [want |-> want, mw |-> 0, need_max |-> want]
  /\ ingest = [pw |-> 0, scale |-> 0, maximized |-> FALSE]
  /\ mpvWin = [size |-> 0, scale |-> 1, max |-> FALSE, quit |-> FALSE]
  /\ news = {} /\ changes = 0 /\ woken = FALSE
  /\ wlWindow = [size |-> 0, scale |-> 0] /\ pend = [w |-> 0, scale |-> 1]
  /\ proxyAt = "idle" /\ linked = (host = "wayland")
  /\ evt = [pc |-> "off", held |-> 0] /\ evtStop = FALSE
  /\ coord = "none" /\ dims = <<>> /\ setter = FALSE
  /\ reg = [on |-> FALSE, pw |-> 0] /\ lost = {}
  /\ media = FALSE /\ holding = {} /\ closing = FALSE

-----------------------------------------------------------------------------
(* What the change of an observed property does to the ingest layer; a size *)
(* that is not positive is not digested.                                    *)
Digested(p) ==
  CASE p = "size" -> IF mpvWin.size > 0 THEN [ingest EXCEPT !.pw = mpvWin.size] ELSE ingest
    [] p = "scale" -> [ingest EXCEPT !.scale = mpvWin.scale]
    [] p = "max" -> [ingest EXCEPT !.maximized = mpvWin.max]

Lose(how) == lost' = IF reg.on THEN lost \cup {how} ELSE lost

(* Mutant of PostDims: no more than one waits. *)
PostDimsOnce(pw) ==
  /\ dims' = IF coord = "on" /\ dims = <<>> THEN <<pw>> ELSE dims
  /\ UNCHANGED <<coord, setter, reg, lost>>

(* Post an OsdDims: without a coordinator the input is dropped.             *)
PostDims(pw) ==
  /\ IF coord = "on" THEN dims' = Append(dims, pw) /\ UNCHANGED lost
     ELSE UNCHANGED dims /\ Lose("early")
  /\ UNCHANGED <<coord, setter, reg>>

(* The size of the window as its source has it.                             *)
Source == IF host = "wayland" THEN wlWindow.size ELSE ingest.pw

HostReady == host = "wayland" => wlWindow.scale > 0

-----------------------------------------------------------------------------
(* mpv, the window manager and the user.  mpv runs once it is initialized.  *)
MpvRuns == handle_slot = "live" \/ at = "publish"

WindowChanges(p, new) ==
  /\ MpvRuns /\ changes < MaxWindow /\ new # mpvWin
  /\ changes' = changes + 1 /\ mpvWin' = new /\ news' = news \cup {p}
  /\ UNCHANGED <<threadVars, ingest, woken, wlVars, evtVars, sizeVars, userVars>>

(* On Wayland the size comes from the proxy, and is not observed.           *)
WindowResized ==
  /\ host # "wayland"
  /\ \E w \in LogicalSizes : WindowChanges("size", [mpvWin EXCEPT !.size = w])
WindowRescaled == \E sc \in Scales : WindowChanges("scale", [mpvWin EXCEPT !.scale = sc])

(* The window manager grants what the boot asked for, and the user does not *)
(* undo it before the application is there.                                  *)
WindowMaximized ==
  /\ MpvRuns /\ vo.want /\ ~mpvWin.max
  /\ mpvWin' = [mpvWin EXCEPT !.max = TRUE] /\ news' = news \cup {"max"}
  /\ UNCHANGED <<changes, threadVars, ingest, woken, wlVars, evtVars, sizeVars, userVars>>

(* The close button, bound to quit; on Wayland it is the proxy's.           *)
MpvQuits ==
  /\ handle_slot = "live" /\ ~mpvWin.quit /\ host # "wayland"
  /\ mpvWin' = [mpvWin EXCEPT !.quit = TRUE]
  /\ UNCHANGED <<news, changes, threadVars, ingest, woken, wlVars, evtVars, sizeVars, userVars>>

(* Any other initiator of a shutdown.                                       *)
AskToClose ==
  /\ at = "run" /\ ~closing /\ closing' = TRUE
  /\ UNCHANGED <<media, holding, threadVars, ingest, mpvWinVars, woken, wlVars, evtVars, sizeVars>>

-----------------------------------------------------------------------------
(* The main thread until the window is there.                               *)
HandleInit ==
  /\ at = "init" /\ at' \in {"publish", "down"}
  /\ UNCHANGED <<handle_slot, vo, ingest, mpvWinVars, woken, wlVars, evtVars, sizeVars, userVars>>

PublishHandle ==
  /\ at = "publish" /\ at' = "observe" /\ handle_slot' = "live"
  /\ UNCHANGED <<vo, ingest, mpvWinVars, woken, wlVars, evtVars, sizeVars, userVars>>

(* Every observation begins with a notification of the value.               *)
ObserveProperties ==
  /\ at = "observe" /\ at' = "drain"
  /\ news' = IF host = "wayland" THEN Observed \ {"size"} ELSE Observed
  /\ UNCHANGED <<mpvWin, changes, handle_slot, vo, ingest, woken, wlVars, evtVars, sizeVars, userVars>>

(* An event of the VO wait: quitting is fatal, a property is ingested; only *)
(* a notification of the maximized state clears need_max.                   *)
ConsumeVoEvent ==
  \/ mpvWin.quit /\ at' = "down" /\ UNCHANGED <<vo, ingest, news, sizeVars>>
  \/ \E p \in news :
       LET mw == IF host # "wayland" THEN Digested(p).pw ELSE wlWindow.size IN
       /\ news' = news \ {p} /\ ingest' = Digested(p)
       /\ vo' = [vo EXCEPT !.need_max = @ /\ ~(p = "max" /\ ingest'.maximized),
                           !.mw = IF mw > 0 THEN mw ELSE @]
       /\ at' = "drain"
       /\ UNCHANGED sizeVars

Drain ==
  /\ at = "drain" /\ woken' = FALSE
  /\ \/ ConsumeVoEvent
     \/ news = {} /\ ~mpvWin.quit /\ at' = "size" /\ UNCHANGED <<vo, ingest, news, sizeVars>>
  /\ UNCHANGED <<handle_slot, mpvWin, changes, wlVars, evtVars, userVars>>

(* Mutant of WindowReady: whatever its size. *)
WindowReadyUnsized(mw) == ~vo.need_max
WindowReady(mw) == mw > 0 /\ ~vo.need_max

(* vo_ready reads the size first, and whether the host is ready after it.   *)
CheckSize ==
  /\ at = "size"
  /\ vo' = [vo EXCEPT !.mw = IF Source > 0 THEN Source ELSE @]
  /\ at' = IF WindowReady(vo'.mw) THEN "ready" ELSE "block"
  /\ UNCHANGED <<handle_slot, ingest, mpvWinVars, woken, wlVars, evtVars, sizeVars, userVars>>

CheckHost ==
  /\ at = "ready" /\ at' = IF HostReady THEN "platform" ELSE "block"
  /\ UNCHANGED <<handle_slot, vo, ingest, mpvWinVars, woken, wlVars, evtVars, sizeVars, userVars>>

(* The generic wait blocks in mpv; that of macOS in its run loop, which a   *)
(* source or its time limit ends.                                           *)
Block ==
  /\ at = "block" /\ host # "macos" /\ woken' = FALSE
  /\ \/ ConsumeVoEvent
     \/ woken /\ news = {} /\ at' = "drain" /\ UNCHANGED <<vo, ingest, news, sizeVars>>
  /\ UNCHANGED <<handle_slot, mpvWin, changes, wlVars, evtVars, userVars>>

RunLoop ==
  /\ at = "block" /\ host = "macos" /\ at' = "drain"
  /\ UNCHANGED <<handle_slot, vo, ingest, mpvWinVars, woken, wlVars, evtVars, sizeVars, userVars>>

-----------------------------------------------------------------------------
(* The main thread from there to the main loop.                             *)
InitPlatform ==
  /\ at = "platform" /\ at' \in {"browsers", "down"}
  /\ UNCHANGED <<handle_slot, vo, ingest, mpvWinVars, woken, wlVars, evtVars, sizeVars, userVars>>

(* The browsers begin with the size of the VO wait; a newer one the proxy   *)
(* stored meanwhile is not looked at.                                       *)
InitBrowsers ==
  /\ at = "browsers" /\ at' = "coord"
  /\ ingest' = [ingest EXCEPT !.pw = vo.mw]
  /\ reg' = [on |-> TRUE, pw |-> vo.mw]
  /\ lost' = IF host = "wayland" /\ vo.mw # wlWindow.size THEN {"early"} ELSE {}
  /\ UNCHANGED <<handle_slot, vo, mpvWinVars, woken, wlVars, evtVars, coord, dims, setter, userVars>>

InitCoordinator ==
  /\ at = "coord" /\ at' = "handlers" /\ coord' = "on"
  /\ UNCHANGED <<handle_slot, vo, ingest, mpvWinVars, woken, wlVars, evtVars, dims, setter, reg, lost, userVars>>

SetHandlers ==
  /\ at = "handlers" /\ at' = "events" /\ setter' = TRUE /\ media' = TRUE
  /\ UNCHANGED <<handle_slot, vo, ingest, mpvWinVars, woken, wlVars, evtVars, coord, dims, reg, lost, holding, closing>>

StartEventThread ==
  /\ at = "events" /\ at' = "run" /\ evt' = [evt EXCEPT !.pc = "check"]
  /\ UNCHANGED <<handle_slot, vo, ingest, mpvWinVars, woken, wlVars, evtStop, sizeVars, userVars>>

(* The main loop ends once the manager has closed the browsers.             *)
EndMainLoop ==
  /\ at = "run" /\ closing /\ at' = "detach"
  /\ UNCHANGED <<handle_slot, vo, ingest, mpvWinVars, woken, wlVars, evtVars, sizeVars, userVars>>

-----------------------------------------------------------------------------
(* The teardown.  Clearing a callback waits for one that runs, and a part   *)
(* is down only when its threads are: none of them holds the handle.        *)
Passes(step) == at = step /\ at' = Teardown[step] /\ UNCHANGED vo

DetachProxy ==
  /\ Passes("detach") /\ proxyAt \in {"idle", "fire"} /\ linked' = FALSE
  /\ UNCHANGED <<handle_slot, ingest, mpvWinVars, woken, wlWindow, pend, proxyAt, evtVars, sizeVars, userVars>>

StopMedia ==
  /\ Passes("media") /\ "media" \notin holding /\ media' = FALSE
  /\ UNCHANGED <<handle_slot, ingest, mpvWinVars, woken, wlVars, evtVars, sizeVars, holding, closing>>

StopEvents ==
  /\ Passes("stop") /\ evtStop' = TRUE
  /\ UNCHANGED <<handle_slot, ingest, mpvWinVars, woken, wlVars, evt, sizeVars, userVars>>

WakeEvents ==
  /\ Passes("wake") /\ woken' = TRUE
  /\ UNCHANGED <<handle_slot, ingest, mpvWinVars, wlVars, evtVars, sizeVars, userVars>>

JoinEvents ==
  /\ Passes("join") /\ evt.pc = "done"
  /\ UNCHANGED <<handle_slot, ingest, mpvWinVars, woken, wlVars, evtVars, sizeVars, userVars>>

ShutdownCef ==
  /\ Passes("cef") /\ "cef" \notin holding /\ reg' = [reg EXCEPT !.on = FALSE]
  /\ UNCHANGED <<handle_slot, ingest, mpvWinVars, woken, wlVars, evtVars, coord, dims, setter, lost, userVars>>

ShutdownCoordinator ==
  /\ Passes("coordinator") /\ "worker" \notin holding
  /\ coord' = "off" /\ dims' = <<>>
  /\ UNCHANGED <<handle_slot, ingest, mpvWinVars, woken, wlVars, evtVars, setter, reg, lost, userVars>>

TerminateHandle ==
  /\ Passes("terminate") /\ handle_slot' = "gone"
  /\ UNCHANGED <<ingest, mpvWinVars, woken, wlVars, evtVars, sizeVars, userVars>>

-----------------------------------------------------------------------------
(* The proxy thread: a configure or a scale of the compositor, the callback *)
(* of the scale and then that of the configure.                             *)
ProxyTakes(new, next) ==
  /\ host = "wayland" /\ MpvRuns /\ proxyAt = "idle" /\ changes < MaxWindow
  /\ changes' = changes + 1 /\ pend' = new /\ proxyAt' = next
  /\ UNCHANGED <<threadVars, ingest, mpvWin, news, woken, wlWindow, linked, evtVars, sizeVars, userVars>>

CompositorConfigures == \E w \in LogicalSizes : ProxyTakes([pend EXCEPT !.w = w], "fire")
CompositorRescales ==
  \E sc \in Scales : ProxyTakes([pend EXCEPT !.scale = sc], IF linked THEN "scale" ELSE "fire")

OnScale ==
  /\ proxyAt = "scale" /\ proxyAt' = "wake_scale"
  /\ wlWindow' = [wlWindow EXCEPT !.scale = pend.scale]
  /\ UNCHANGED <<threadVars, ingest, mpvWinVars, woken, pend, linked, evtVars, sizeVars, userVars>>

(* The wake-up of on_scale and of on_configure, a no-op without a handle.   *)
ProxyWakes ==
  /\ proxyAt \in {"wake_scale", "wake"}
  /\ proxyAt' = IF proxyAt = "wake" THEN "idle" ELSE "fire"
  /\ woken' = (woken \/ handle_slot = "live")
  /\ UNCHANGED <<threadVars, ingest, mpvWinVars, wlWindow, pend, linked, evtVars, sizeVars, userVars>>

FireConfigure ==
  /\ proxyAt = "fire"
  /\ IF pend.w = 0 \/ ~linked THEN proxyAt' = "idle" /\ UNCHANGED wlWindow
     ELSE proxyAt' = "post" /\ wlWindow' = [wlWindow EXCEPT !.size = pend.w * pend.scale]
  /\ UNCHANGED <<threadVars, ingest, mpvWinVars, woken, pend, linked, evtVars, sizeVars, userVars>>

PostOsdPixels ==
  /\ proxyAt = "post" /\ proxyAt' = "wake"
  /\ ingest' = [ingest EXCEPT !.pw = wlWindow.size] /\ PostDims(wlWindow.size)
  /\ UNCHANGED <<threadVars, mpvWinVars, woken, wlWindow, pend, linked, evtVars, userVars>>

-----------------------------------------------------------------------------
(* The mpv event thread.                                                    *)
EvtCheck ==
  /\ evt.pc = "check" /\ evt' = [evt EXCEPT !.pc = IF evtStop THEN "done" ELSE "wait"]
  /\ UNCHANGED <<threadVars, ingest, mpvWinVars, woken, wlVars, evtStop, sizeVars, userVars>>

EvtNone ==
  /\ evt.pc = "wait" /\ woken /\ news = {} /\ ~mpvWin.quit
  /\ woken' = FALSE /\ evt' = [evt EXCEPT !.pc = "check"]
  /\ UNCHANGED <<threadVars, ingest, mpvWinVars, wlVars, evtStop, sizeVars, userVars>>

EvtShutdown ==
  /\ evt.pc = "wait" /\ mpvWin.quit
  /\ woken' = FALSE /\ evt' = [evt EXCEPT !.pc = "done"] /\ closing' = TRUE
  /\ UNCHANGED <<threadVars, ingest, mpvWinVars, wlVars, evtStop, sizeVars, media, holding>>

(* A property is ingested; a size is posted, a new scale goes to set_scale. *)
EvtProperty(p) ==
  /\ evt.pc = "wait" /\ p \in news
  /\ woken' = FALSE /\ news' = news \ {p} /\ ingest' = Digested(p)
  /\ evt' = [evt EXCEPT !.pc =
       IF p = "scale" /\ ingest'.scale # ingest.scale THEN "scale" ELSE "check"]
  /\ IF p = "size" THEN PostDims(mpvWin.size) ELSE UNCHANGED sizeVars
  /\ UNCHANGED <<threadVars, mpvWin, changes, wlVars, evtStop, userVars>>

(* jfn_browsers_set_scale reads the size in pixels in one critical section  *)
(* and sets it, with new logical sizes, in another.                         *)
SetScaleRead ==
  /\ evt.pc = "scale"
  /\ evt' = IF reg.on THEN [pc |-> "write", held |-> reg.pw] ELSE [evt EXCEPT !.pc = "check"]
  /\ UNCHANGED <<threadVars, ingest, mpvWinVars, woken, wlVars, evtStop, sizeVars, userVars>>

SetScaleWrite ==
  /\ evt.pc = "write" /\ evt' = [pc |-> "check", held |-> 0]
  /\ IF reg.on
     THEN /\ reg' = [reg EXCEPT !.pw = evt.held]
          /\ lost' = IF evt.held # reg.pw THEN lost \cup {"written back"} ELSE lost
     ELSE UNCHANGED <<reg, lost>>
  /\ UNCHANGED <<threadVars, ingest, mpvWinVars, woken, wlVars, evtStop, coord, dims, setter, userVars>>

-----------------------------------------------------------------------------
(* The worker of the coordinator hands the next size to the browsers, when  *)
(* the handler is there.                                                    *)
DeliverDims ==
  /\ coord = "on" /\ dims # <<>> /\ dims' = Tail(dims)
  /\ IF setter /\ reg.on THEN reg' = [reg EXCEPT !.pw = Head(dims)] /\ UNCHANGED lost
     ELSE UNCHANGED reg /\ Lose("early")
  /\ UNCHANGED <<threadVars, ingest, mpvWinVars, woken, wlVars, evtVars, coord, setter, userVars>>

(* Threads that call into mpv take the raw handle from the slot and use it  *)
(* in two steps: CEF's, the media session's, the coordinator's, until they  *)
(* are told to stop.  They do not touch each other: one at a time is enough. *)
Runs(u) ==
  \/ u = "cef" /\ reg.on /\ at # "cef"
  \/ u = "media" /\ media /\ at # "media"
  \/ u = "worker" /\ coord = "on" /\ at # "coordinator"

TakeRaw(u) ==
  /\ Runs(u) /\ holding = {} /\ handle_slot = "live"
  /\ holding' = holding \cup {u}
  /\ UNCHANGED <<threadVars, ingest, mpvWinVars, woken, wlVars, evtVars, sizeVars, media, closing>>

UseRaw(u) ==
  /\ u \in holding /\ holding' = holding \ {u}
  /\ UNCHANGED <<threadVars, ingest, mpvWinVars, woken, wlVars, evtVars, sizeVars, media, closing>>

-----------------------------------------------------------------------------
BootStep ==
  \/ HandleInit \/ PublishHandle \/ ObserveProperties \/ Drain \/ CheckSize \/ CheckHost
  \/ Block \/ RunLoop \/ InitPlatform \/ InitBrowsers \/ InitCoordinator \/ SetHandlers
  \/ StartEventThread \/ EndMainLoop \/ DetachProxy \/ StopMedia \/ StopEvents \/ WakeEvents
  \/ JoinEvents \/ ShutdownCef \/ ShutdownCoordinator \/ TerminateHandle
ProxyStep == OnScale \/ ProxyWakes \/ FireConfigure \/ PostOsdPixels
EvtStep ==
  \/ EvtCheck \/ EvtNone \/ EvtShutdown \/ (\E p \in Observed : EvtProperty(p))
  \/ SetScaleRead \/ SetScaleWrite
Environment ==
  \/ WindowResized \/ WindowRescaled \/ WindowMaximized \/ MpvQuits \/ AskToClose
  \/ CompositorConfigures \/ CompositorRescales

BootNext ==
  /\ BootStep \/ ProxyStep \/ EvtStep \/ DeliverDims \/ Environment
     \/ \E u \in Users : TakeRaw(u) \/ UseRaw(u)
  /\ UNCHANGED host

(* Threads run; a thread that took the handle uses it.                      *)
BootFairness ==
  /\ WF_bootVars(BootStep /\ UNCHANGED host) /\ WF_bootVars(ProxyStep /\ UNCHANGED host)
  /\ WF_bootVars(EvtStep /\ UNCHANGED host) /\ WF_bootVars(DeliverDims /\ UNCHANGED host)
  /\ \A u \in Users : WF_bootVars(UseRaw(u) /\ UNCHANGED host)

BootSpec == BootInit /\ [][BootNext]_bootVars /\ BootFairness

-----------------------------------------------------------------------------
(* The variables hold the values of their types; the browsers, once there,  *)
(* always have a size.                                                       *)
BootTypeOK ==
  /\ host \in Hosts
  /\ handle_slot \in {"none", "live", "gone"}
  /\ at \in {"init", "publish", "observe", "platform", "browsers", "coord", "handlers", "events", "run"}
          \cup VoWait \cup DOMAIN Teardown \cup {"down"}
  /\ vo \in [want : BOOLEAN, mw : Nat, need_max : BOOLEAN]
  /\ ingest \in [pw : Nat, scale : Nat, maximized : BOOLEAN]
  /\ mpvWin \in [size : Nat, scale : Nat, max : BOOLEAN, quit : BOOLEAN]
  /\ news \subseteq Observed /\ changes \in 0..MaxWindow /\ woken \in BOOLEAN
  /\ wlWindow \in [size : Nat, scale : Nat] /\ pend \in [w : Nat, scale : Nat]
  /\ proxyAt \in {"idle", "scale", "wake_scale", "fire", "post", "wake"} /\ linked \in BOOLEAN
  /\ evt \in [pc : {"off", "check", "wait", "scale", "write", "done"}, held : Nat]
  /\ evtStop \in BOOLEAN
  /\ coord \in {"none", "on", "off"} /\ dims \in Seq(Nat \ {0}) /\ setter \in BOOLEAN
  /\ reg \in [on : {FALSE}, pw : {0}] \cup [on : BOOLEAN, pw : Nat \ {0}]
  /\ lost \subseteq {"early", "written back"}
  /\ media \in BOOLEAN /\ holding \subseteq Users /\ closing \in BOOLEAN

(* Nobody uses the handle after mpv_terminate_destroy: not the event        *)
(* thread, which keeps the raw pointer while it runs, not the proxy in a    *)
(* callback, nor a thread that has taken the pointer from the slot.         *)
HandleOutlivesUse ==
  handle_slot = "gone" =>
    /\ evt.pc \in {"off", "done"}
    /\ proxyAt \notin {"wake_scale", "wake"}
    /\ holding = {}

(* The application runs, nothing is on its way: the browsers have the size  *)
(* of the window, although it changed while nobody listened, between the VO *)
(* wait and the event thread.  The two ways a size is lost are excluded:    *)
(* one the proxy posts before the set_size handler is there, and one that   *)
(* set_scale, which read the size before it, writes back.                   *)
BootSettled ==
  /\ at = "run" /\ ~closing /\ evt.pc = "wait" /\ news = {} /\ dims = <<>> /\ proxyAt = "idle"
BrowsersHaveSize ==
  BootSettled /\ lost = {} =>
    reg.pw = IF host = "wayland" THEN pend.w * pend.scale ELSE mpvWin.size

(* The window the VO wait is for is there.                                  *)
WindowUp ==
  /\ vo.want => mpvWin.max
  /\ IF host = "wayland" THEN wlWindow.scale > 0 /\ wlWindow.size > 0 ELSE mpvWin.size > 0

(* The VO wait ends once its window is there, and so does a teardown.       *)
BootWaits == (at \in VoWait /\ WindowUp) \/ at \in DOMAIN Teardown
=============================================================================
