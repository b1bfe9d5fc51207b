------------------------------ MODULE ProxyShell ------------------------------
(***************************************************************************)
(* The shell of the Wayland proxy (wlproxy/src/lib.rs): mpv's toplevel is  *)
(* never forwarded; the proxy builds a window of its own, the root, puts   *)
(* mpv's surface and the host's surface below it, and tells mpv, the host  *)
(* and the compositor of every size and scale.  The display mpv uses is    *)
(* found by counting connections on both ends (wl_interpose.rs,            *)
(* wl_display_registry.rs).                                                *)
(*                                                                         *)
(* Each connection has a proxy thread of its own, and a window only that   *)
(* of mpv's video output.  Its loop dispatches what has arrived, drains    *)
(* the commands of the host and builds the root.  The two configures of    *)
(* one commit arrive together.  The compositor, mpv and the host are       *)
(* external.  Popups are in Menus, fullscreen transitions in WaylandWindow,*)
(* decorations and palettes are left out.                                   *)
(***************************************************************************)
EXTENDS Integers, Sequences, SequencesExt, FiniteSets

CONSTANTS
  VO,             \* the connection of mpv's video output
  Helpers,        \* the other connections of this process
  Foreign,      \* connections of other processes
  ShellSizes,     \* logical sizes
  InitialSize,    \* INITIAL_W and INITIAL_H
  ShellScales,    \* scales, in 120ths
  Colours,        \* background colours
  MaxShellEvents, \* bound on the events of the compositor
  MaxCommands,    \* bound on the commands of the host
  Nothing         \* no colour, no connection

ASSUME ShellAssumption ==
  /\ VO \notin Helpers \cup Foreign /\ Helpers \cap Foreign = {}
  /\ ShellSizes \subseteq Nat \ {0} /\ InitialSize \in ShellSizes
  /\ ShellScales \subseteq Nat \ {0}
  /\ MaxShellEvents \in Nat /\ MaxCommands \in Nat
  /\ Nothing \notin Colours \cup Helpers \cup Foreign \cup {VO}

VARIABLES
  net,      \* connections: made, CAPTURED, index per proxy thread, VO_CONNECTION_INDEX
  loopAt,   \* the loop of the video output's proxy thread
  shell,    \* its SHELL and what the compositor knows of the root
  hostSide, \* the host's surface: created, named, arrived, adopted, its viewport
  pendingC, \* PENDING and LAST_SUSPENDED
  reported, \* what the callbacks told the host last
  hostCommands, \* COMMANDS
  theme,    \* BACKGROUND_RGBA and the thread that sets it
  compositor\* what it sent last, events not yet read, commands carried out and posted

shellVars == <<net, loopAt, shell, hostSide, pendingC, reported, hostCommands, theme, compositor>>

Connections == {VO} \cup Helpers \cup Foreign
SameProcess == {VO} \cup Helpers
WindowCommands == {"fullscreen", "unfullscreen"}

ShellInit ==
  /\ net = [made |-> {}, captured |-> <<>>, seq |-> 0, vo |-> -1, raced |-> FALSE,
            index |-> [c \in Connections |-> -1], served |-> {}]
  /\ loopAt = "dispatch"
  /\ shell = [mpv |-> "none", told |-> 0, cur |-> 0, demote |-> FALSE, roundtrip |-> "none",
              globals |-> "none", built |-> FALSE, acked |-> FALSE, mapped |-> FALSE,
              shown |-> Nothing, dest |-> 0]
  /\ hostSide = [created |-> FALSE, named |-> FALSE, arrived |-> FALSE, adopted |-> FALSE, dest |-> 0]
  /\ pendingC = [have |-> FALSE, w |-> 0, scale |-> 120, suspended |-> FALSE]
  /\ reported = [pw |-> 0, scale |-> 0, visible |-> TRUE]
  /\ hostCommands = <<>>
  /\ theme = [rgb |-> Nothing, pc |-> "idle"]
  /\ \E r \in BOOLEAN :
       compositor = [restored |-> r, events |-> <<>>, sent |-> 0, size |-> 0, suspended |-> FALSE,
                     scale |-> 120, asked |-> <<>>, posted |-> <<>>]

-----------------------------------------------------------------------------
(* Connections.  connect returns once the socket is made; the interposer    *)
(* then records the display, while the listener hands the socket to a       *)
(* thread of its own, which counts it.                                      *)
Counted(c) == net.index[c] >= 0 /\ \E i \in DOMAIN net.captured : net.captured[i] = c

Connect(c) ==
  /\ c \notin net.made
  /\ net' = [net EXCEPT !.made = @ \cup {c},
               !.raced = @ \/ (c \in SameProcess /\ \E d \in net.made \cap SameProcess : ~Counted(d))]
  /\ UNCHANGED <<loopAt, shell, hostSide, pendingC, reported, hostCommands, theme, compositor>>

RecordConnect(c) ==
  /\ c \in net.made \cap SameProcess /\ \A i \in DOMAIN net.captured : net.captured[i] # c
  /\ net' = [net EXCEPT !.captured = Append(@, c)]
  /\ UNCHANGED <<loopAt, shell, hostSide, pendingC, reported, hostCommands, theme, compositor>>

(* Mutant of RunClient: the upstream connection is recorded like any other. *)
RunClientUnguarded(c) ==
  /\ c \in net.made \ net.served
  /\ net' = [net EXCEPT !.served = @ \cup {c}, !.captured = Append(@, Nothing),
               !.index[c] = IF c \in SameProcess THEN net.seq ELSE -1,
               !.seq = IF c \in SameProcess THEN @ + 1 ELSE @]
  /\ UNCHANGED <<loopAt, shell, hostSide, pendingC, reported, hostCommands, theme, compositor>>

(* Only a client of this process is counted; the connection upstream, which *)
(* is made under a guard, is not recorded.                                  *)
RunClient(c) ==
  /\ c \in net.made \ net.served
  /\ net' = [net EXCEPT !.served = @ \cup {c},
               !.index[c] = IF c \in SameProcess THEN net.seq ELSE -1,
               !.seq = IF c \in SameProcess THEN @ + 1 ELSE @]
  /\ UNCHANGED <<loopAt, shell, hostSide, pendingC, reported, hostCommands, theme, compositor>>

-----------------------------------------------------------------------------
(* What the host is told.                                                   *)

(* To device pixels, half up. *)
Physical(w, scale) == (w * scale + 60) \div 120

(* fire_configure: nothing before the first configure.                      *)
FireConfigure(p, r) == IF p.have THEN [r EXCEPT !.pw = Physical(p.w, p.scale)] ELSE r

(* fire_suspended: edges alone.                                             *)
FireSuspended(old, new, r) == IF old = new THEN r ELSE [r EXCEPT !.visible = ~new]

-----------------------------------------------------------------------------
(* The root.                                                                *)
CanFill(s) == s.globals = "all"

(* fill_root: destination, one pixel of the newest colour, commit.          *)
FillRoot(s, w) ==
  IF CanFill(s) THEN [s EXCEPT !.dest = w, !.shown = theme.rgb] ELSE s

RefillRoot(s) == IF s.cur > 0 THEN FillRoot(s, s.cur) ELSE s

CanBuild == shell.demote /\ ~shell.built /\ shell.globals # "none"
FoundHostSurface == hostSide.named /\ hostSide.arrived
CanAdopt ==
  shell.demote /\ shell.built /\ ~hostSide.adopted /\ FoundHostSurface /\ CanFill(shell)

(* A maximized state to be restored is requested as part of the first map.  *)
MaximizeRequest == IF compositor.restored THEN <<"maximize">> ELSE <<>>

(* Mutant of BuildRoot: the root is filled at once. *)
BuildRootFilled ==
  /\ shell' = RefillRoot([shell EXCEPT !.built = TRUE])
  /\ compositor' = [compositor EXCEPT !.asked = MaximizeRequest]
  /\ UNCHANGED hostSide

(* build_root: the toplevel and a first commit without a buffer.            *)
BuildRoot ==
  /\ shell' = [shell EXCEPT !.built = TRUE]
  /\ compositor' = [compositor EXCEPT !.asked = MaximizeRequest]
  /\ UNCHANGED hostSide

(* adopt_host_surface: once, when the surface has been named and is there.  *)
AdoptHost ==
  /\ hostSide' = [hostSide EXCEPT !.adopted = TRUE, !.dest = shell.cur]
  /\ UNCHANGED <<shell, compositor>>

(* maybe_build_root, at the end of every iteration.                         *)
MaybeBuildRoot ==
  /\ loopAt = "build" /\ loopAt' = "dispatch"
  /\ IF shell.roundtrip = "done" /\ CanBuild THEN BuildRoot
     ELSE IF shell.roundtrip = "done" /\ CanAdopt THEN AdoptHost
     ELSE UNCHANGED <<shell, hostSide, compositor>>
  /\ UNCHANGED <<net, pendingC, reported, hostCommands, theme>>

(* Mutant of DrainsFor: any proxy thread drains. *)
DrainsForAny(c) == TRUE

(* drain_host_commands: the thread whose SHELL has the root.                *)
DrainsFor(c) == c = VO /\ shell.built

DrainCommands(c) ==
  /\ c \in net.served /\ (c = VO => loopAt = "drain")
  /\ loopAt' = IF c = VO THEN "build" ELSE loopAt
  /\ IF DrainsFor(c)
       THEN /\ hostCommands' = <<>>
            /\ compositor' = [compositor EXCEPT !.asked = IF c = VO /\ shell.built THEN @ \o hostCommands ELSE @]
            /\ shell' = IF "background" \in ToSet(hostCommands) /\ c = VO /\ shell.built
                          THEN RefillRoot(shell) ELSE shell
       ELSE UNCHANGED <<hostCommands, compositor, shell>>
  /\ UNCHANGED <<net, hostSide, pendingC, reported, theme>>

-----------------------------------------------------------------------------
(* Dispatch: what mpv and the compositor send.                              *)
Dispatching == loopAt = "dispatch" /\ VO \in net.served

EndDispatch ==
  /\ Dispatching /\ loopAt' = "drain"
  /\ UNCHANGED <<net, shell, hostSide, pendingC, reported, hostCommands, theme, compositor>>

(* synth_mpv_configure: mpv is told of a size.                              *)
SynthMpv(s, w) == [s EXCEPT !.told = w]

(* ensure_root: the globals are asked for once.                             *)
EnsureRoot(s) == IF s.roundtrip = "none" THEN [s EXCEPT !.roundtrip = "started"] ELSE s

(* mpv's xdg_surface stays here.                                            *)
GetXdgSurface ==
  /\ Dispatching /\ shell.mpv = "none" /\ Counted(VO)
  /\ shell' = [shell EXCEPT !.mpv = "surface"]
  /\ UNCHANGED <<net, loopAt, hostSide, pendingC, reported, hostCommands, theme, compositor>>

(* So does its toplevel: mpv is configured at once with the initial size,   *)
(* its connection is that of the video output, and the globals of the root  *)
(* are asked for.                                                           *)
GetToplevel ==
  /\ Dispatching /\ shell.mpv = "surface"
  /\ LET w == IF shell.cur = 0 THEN InitialSize ELSE shell.cur IN
       shell' = EnsureRoot(SynthMpv([shell EXCEPT !.mpv = "toplevel", !.demote = TRUE, !.cur = w], w))
  /\ net' = [net EXCEPT !.vo = net.index[VO]]
  /\ UNCHANGED <<loopAt, hostSide, pendingC, reported, hostCommands, theme, compositor>>

(* The compositor has all the globals, or no single-pixel buffers or        *)
(* viewports, or not even a shell.                                          *)
RoundtripDone ==
  /\ Dispatching /\ shell.roundtrip = "started"
  /\ \E g \in {"all", "bare", "none"} :
       shell' = [shell EXCEPT !.roundtrip = "done", !.globals = g]
  /\ UNCHANGED <<net, loopAt, hostSide, pendingC, reported, hostCommands, theme, compositor>>

(* handle_configure of the toplevel: a size of 0 is left to the client.     *)
ToplevelConfigured(ev) ==
  LET w == IF ev.w > 0 THEN ev.w ELSE InitialSize
      p == [pendingC EXCEPT !.have = TRUE, !.w = w, !.suspended = ev.suspended]
  IN /\ pendingC' = p
     /\ reported' = FireSuspended(pendingC.suspended, ev.suspended, FireConfigure(p, reported))

(* Mutant of SurfaceConfigured: the host keeps its size. *)
SurfaceConfiguredRootOnly(w) ==
  /\ shell' = SynthMpv([FillRoot([shell EXCEPT !.acked = TRUE, !.cur = w], w) EXCEPT !.mapped = TRUE], w)
  /\ UNCHANGED hostSide

(* handle_configure of the xdg_surface: acknowledge, fill, map, size the    *)
(* host's surface, configure mpv.                                           *)
SurfaceConfigured(w) ==
  /\ shell' = SynthMpv([FillRoot([shell EXCEPT !.acked = TRUE, !.cur = w], w) EXCEPT !.mapped = TRUE], w)
  /\ hostSide' = IF hostSide.adopted THEN [hostSide EXCEPT !.dest = w] ELSE hostSide

RootConfigured ==
  /\ Dispatching /\ compositor.events # <<>> /\ Head(compositor.events).kind = "configure"
  /\ ToplevelConfigured(Head(compositor.events))
  /\ SurfaceConfigured(pendingC'.w)
  /\ compositor' = [compositor EXCEPT !.events = Tail(@)]
  /\ UNCHANGED <<net, loopAt, hostCommands, theme>>

(* handle_preferred_scale.                                                  *)
PreferredScale ==
  /\ Dispatching /\ compositor.events # <<>> /\ Head(compositor.events).kind = "scale"
  /\ LET s == Head(compositor.events).scale
         p == [pendingC EXCEPT !.scale = s]
     IN pendingC' = p /\ reported' = FireConfigure(p, [reported EXCEPT !.scale = s])
  /\ compositor' = [compositor EXCEPT !.events = Tail(@)]
  /\ UNCHANGED <<net, loopAt, shell, hostSide, hostCommands, theme>>

-----------------------------------------------------------------------------
(* The compositor: configures for a root that was committed, the first of   *)
(* them unasked; scales for mpv's surface.                                  *)
SendsConfigure ==
  /\ shell.built /\ compositor.sent < MaxShellEvents
  /\ \E w \in ShellSizes \cup {0}, s \in BOOLEAN :
       compositor' = [compositor EXCEPT !.sent = @ + 1, !.size = w, !.suspended = s,
         !.events = Append(@, [kind |-> "configure", w |-> w, suspended |-> s])]
  /\ UNCHANGED <<net, loopAt, shell, hostSide, pendingC, reported, hostCommands, theme>>

SendsScale ==
  /\ shell.mpv # "none" /\ compositor.sent < MaxShellEvents
  /\ \E sc \in ShellScales \ {compositor.scale} :
       compositor' = [compositor EXCEPT !.sent = @ + 1, !.scale = sc,
         !.events = Append(@, [kind |-> "scale", scale |-> sc])]
  /\ UNCHANGED <<net, loopAt, shell, hostSide, pendingC, reported, hostCommands, theme>>

-----------------------------------------------------------------------------
(* The host, once it knows the size of its window (wait_for_vo_window):     *)
(* it makes a surface on mpv's connection and names it; the request to make *)
(* it arrives when it is flushed.                                           *)
CreateParent ==
  /\ ~hostSide.created /\ reported.pw > 0
  /\ hostSide' = [hostSide EXCEPT !.created = TRUE]
  /\ UNCHANGED <<net, loopAt, shell, pendingC, reported, hostCommands, theme, compositor>>

SetHostSurface ==
  /\ hostSide.created /\ ~hostSide.named /\ hostSide' = [hostSide EXCEPT !.named = TRUE]
  /\ UNCHANGED <<net, loopAt, shell, pendingC, reported, hostCommands, theme, compositor>>

ParentArrives ==
  /\ Dispatching /\ hostSide.created /\ ~hostSide.arrived
  /\ hostSide' = [hostSide EXCEPT !.arrived = TRUE]
  /\ UNCHANGED <<net, loopAt, shell, pendingC, reported, hostCommands, theme, compositor>>

(* set_fullscreen and its like queue a request.                             *)
PostCommand ==
  /\ hostSide.named /\ Len(compositor.posted) < MaxCommands
  /\ \E x \in WindowCommands :
       /\ hostCommands' = Append(hostCommands, x)
       /\ compositor' = [compositor EXCEPT !.posted = Append(@, x)]
  /\ UNCHANGED <<net, loopAt, shell, hostSide, pendingC, reported, theme>>

(* set_background_color: the colour is stored, then its command queued.     *)
StoreColour ==
  /\ hostSide.named /\ theme.pc = "idle"
  /\ \E rgb \in Colours \ {theme.rgb} : theme' = [rgb |-> rgb, pc |-> "push"]
  /\ UNCHANGED <<net, loopAt, shell, hostSide, pendingC, reported, hostCommands, compositor>>

PushColour ==
  /\ theme.pc = "push" /\ Len(compositor.posted) < MaxCommands
  /\ theme' = [theme EXCEPT !.pc = "idle"] /\ hostCommands' = Append(hostCommands, "background")
  /\ compositor' = [compositor EXCEPT !.posted = Append(@, "background")]
  /\ UNCHANGED <<net, loopAt, shell, hostSide, pendingC, reported>>

ShellNext ==
  \/ \E c \in Connections : Connect(c) \/ RecordConnect(c) \/ RunClient(c) \/ DrainCommands(c)
  \/ EndDispatch \/ MaybeBuildRoot
  \/ GetXdgSurface \/ GetToplevel \/ RoundtripDone \/ RootConfigured \/ PreferredScale
  \/ SendsConfigure \/ SendsScale
  \/ CreateParent \/ SetHostSurface \/ ParentArrives \/ PostCommand \/ StoreColour \/ PushColour

ShellSpec == ShellInit /\ [][ShellNext]_shellVars

-----------------------------------------------------------------------------
(* The variables hold the values of their types.                            *)
Sized == ShellSizes \cup {0}
ShellTypeOK ==
  /\ net.made \subseteq Connections /\ net.served \subseteq net.made
  /\ net.captured \in Seq(SameProcess \cup {Nothing}) /\ net.seq \in Nat /\ net.vo \in Nat \cup {-1}
  /\ net.index \in [Connections -> Nat \cup {-1}] /\ net.raced \in BOOLEAN
  /\ loopAt \in {"dispatch", "drain", "build"}
  /\ shell \in [mpv : {"none", "surface", "toplevel"}, told : Sized, cur : Sized, demote : BOOLEAN,
                roundtrip : {"none", "started", "done"}, globals : {"none", "bare", "all"},
                built : BOOLEAN, acked : BOOLEAN, mapped : BOOLEAN,
                shown : Colours \cup {Nothing}, dest : Sized]
  /\ hostSide \in [created : BOOLEAN, named : BOOLEAN, arrived : BOOLEAN, adopted : BOOLEAN, dest : Sized]
  /\ pendingC \in [have : BOOLEAN, w : Sized, scale : ShellScales \cup {120}, suspended : BOOLEAN]
  /\ reported.pw \in Nat /\ reported.scale \in ShellScales \cup {0} /\ reported.visible \in BOOLEAN
  /\ hostCommands \in Seq(WindowCommands \cup {"background"})
  /\ theme \in [rgb : Colours \cup {Nothing}, pc : {"idle", "push"}]
  /\ compositor.asked \in Seq(WindowCommands \cup {"maximize", "background"})

(* Once every event of the compositor is handled, the root, mpv, the host's *)
(* surface and the host itself have the size, scale and visibility it named *)
(* last, in whatever order root, host and events came (RootXdgSurfaceH,     *)
(* FracScaleH, adopt_host_surface).                                         *)
WantedSize == IF compositor.size > 0 THEN compositor.size ELSE InitialSize
ShellAgrees ==
  compositor.events = <<>> /\ shell.mapped =>
    /\ shell.cur = WantedSize /\ shell.told = WantedSize
    /\ CanFill(shell) => shell.dest = WantedSize
    /\ hostSide.adopted => hostSide.dest = WantedSize
    /\ reported.pw = Physical(WantedSize, compositor.scale)
    /\ reported.visible = ~compositor.suspended

(* A buffer is attached to the root only after its first configure has been *)
(* acknowledged (xdg_surface makes anything else fatal), and once no colour *)
(* is on its way the root shows the newest one (refill_root_background).    *)
RootPainted ==
  /\ shell.dest > 0 => shell.acked
  /\ shell.mapped /\ CanFill(shell) /\ theme.pc = "idle" /\ "background" \notin ToSet(hostCommands) =>
       shell.shown = theme.rgb

(* No command of the host is lost or overtaken: those carried out and those *)
(* the queue holds are exactly those posted (drain_host_commands).          *)
CommandsKept ==
  compositor.asked \o hostCommands
    = (IF shell.built THEN MaximizeRequest ELSE <<>>) \o compositor.posted

(* Unless two connections raced, the index the proxy gives to the video     *)
(* output's connection is that of its captured display (vo_captured_display *)
(* of wayland/lifecycle.rs).                                                *)
IndexNamesDisplay ==
  net.vo >= 0 /\ ~net.raced =>
    net.vo < Len(net.captured) /\ net.captured[net.vo + 1] = VO

(* The shell keeps its promises to mpv, to the host and to the compositor.  *)
ShellKept == ShellAgrees /\ RootPainted /\ CommandsKept /\ IndexNamesDisplay
=============================================================================
