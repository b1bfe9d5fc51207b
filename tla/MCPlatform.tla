------------------------------ MODULE MCPlatform ------------------------------
(* The window on Windows, the menus on Wayland, the media session, the      *)
(* overlays on X11, the shell of the Wayland proxy and the log files, on    *)
(* one instance of six machines that share no variable: the behaviours      *)
(* explored are those of one machine, chosen initially, while the others do *)
(* not move.                                                                 *)
EXTENDS WindowsCompositor, Menus, MediaSession, X11Overlays, ProxyShell, LogFiles

VARIABLE machine \* which of the machines runs

allVars == <<machine, winVars, menuVars, mediaVars, overlayVars, shellVars, logVars>>

Init ==
  /\ machine \in {"window", "menus", "media", "overlays", "shell", "log"}
  /\ WinInit /\ MenusInit /\ MediaInit /\ OverlaysInit /\ ShellInit /\ LogInit
  /\ machine # "window" => ~win.full /\ \A n \in Normal : win.normal <= n
  /\ machine # "media" => transport = "mpris"
  /\ machine # "shell" => ~compositor.restored
  /\ machine # "overlays" => parent = [mapped |-> TRUE, at |-> Screen, full |-> TRUE]
  /\ machine = "overlays" => parent.at = IF parent.full THEN Screen ELSE 1

(* Bound of the shell: the root is built when every connection is counted;  *)
(* the connections share no state with what follows.                        *)
ConnectedFirst == shell'.built => net.served = Connections

(* Bound of the shell: events of the compositor and commands of the host.    *)
ThreeShellInputs == compositor'.sent + Len(compositor'.posted) <= 3

(* Bound of the menus: presses, context menus and drop-downs together, one   *)
(* of the last, which is deactivated before it is hidden, counted as two.    *)
FourMenuEvents == used'.presses + used'.menus + 2 * used'.selects <= 4

Rest(m, its) == machine # m => UNCHANGED its

Next ==
  /\ UNCHANGED machine
  /\ \/ machine = "window" /\ WinNext
     \/ machine = "menus" /\ MenusNext /\ FourMenuEvents
     \/ machine = "media" /\ MediaNext
     \/ machine = "overlays" /\ OverlaysNext
     \/ machine = "shell" /\ ShellNext /\ ConnectedFirst /\ ThreeShellInputs
     \/ machine = "log" /\ LogNext
  /\ Rest("window", winVars) /\ Rest("menus", menuVars) /\ Rest("media", mediaVars)
  /\ Rest("overlays", overlayVars) /\ Rest("shell", shellVars) /\ Rest("log", logVars)

Spec == Init /\ [][Next]_allVars

(* The variables hold the values of their types.                            *)
TypesOK ==
  CASE machine = "window" -> WinTypeOK
    [] machine = "menus" -> MenusTypeOK
    [] machine = "media" -> MediaTypeOK
    [] machine = "overlays" -> OverlaysTypeOK
    [] machine = "shell" -> ShellTypeOK
    [] machine = "log" -> LogTypeOK
=============================================================================
