---------------------------- MODULE ServerConnect ----------------------------
(***************************************************************************)
(* Choosing the server: the page of the overlay (web/overlay.js and        *)
(* web/connectivityHelper.js), what it asks of the process                 *)
(* (jfn_cef/src/business_overlay.rs), the probe of an address with its two *)
(* requests, and the main browser that loads the server meanwhile          *)
(* (client/lifecycle.rs).                                                  *)
(*                                                                         *)
(* The page runs one task at a time, the UI thread of CEF another; two     *)
(* queues carry the messages between them.  The network is external: a     *)
(* request completes at some time, with any outcome.  Texts, the dialog    *)
(* and the form are left out; an address stands for its normalized form    *)
(* and its base.  The main browser has been created when the page speaks.  *)
(***************************************************************************)
EXTENDS Naturals, Sequences, FiniteSets

CONSTANTS
  Addresses,   \* server addresses
  NoUrl,       \* no address, and the empty page
  MaxProbes,   \* bound on the connectivity checks
  MaxEscapes   \* bound on the times Escape is pressed

ASSUME ConnectAssumption ==
  NoUrl \notin Addresses /\ MaxProbes \in Nat \ {0} /\ MaxEscapes \in Nat

VARIABLES
  overlay,  \* the page: where its connecting is, server, mainLoaded, pendingUrl
  toNative, \* its messages to the process
  toPage,   \* messages and keys to the page
  probes,   \* the ServerProbeClients so far, and active_probe
  web,      \* the main layer: what it loads, pending_url, state, layer_ptr
  focus,    \* the layer that has the input
  server_url, \* the setting
  history   \* addresses that answered; why the page may be off the server; Escapes

connectVars == <<overlay, toNative, toPage, probes, web, focus, server_url, history>>

Url == Addresses \cup {NoUrl}
Connecting == {"probe", "delay", "fading"}  \* isConnecting

ConnectInit ==
  /\ server_url \in Url
  /\ overlay = [at |-> "boot", server |-> NoUrl, mainLoaded |-> FALSE, pendingUrl |-> NoUrl]
  /\ toNative = <<[op |-> "getSavedServerUrl", url |-> NoUrl]>> /\ toPage = <<>>
  /\ probes = [made |-> <<>>, active |-> 0]
  /\ web = [url |-> server_url, pending |-> NoUrl, state |-> "normal", layer_ptr |-> TRUE]
  /\ focus = "overlay"
  /\ history = [verified |-> {}, stale |-> FALSE, late |-> FALSE, escapes |-> 0]

-----------------------------------------------------------------------------
(* The page.                                                                *)
Ask(op, u) == [op |-> op, url |-> u]

(* startConnecting, to the await of checkFunc.                              *)
StartOn(o, u) == [o EXCEPT !.at = "probe", !.server = u, !.pendingUrl = u]

Connect(u) ==
  /\ overlay.at = "idle" /\ Len(probes.made) + Len(toNative) < MaxProbes
  /\ overlay' = StartOn(overlay, u)
  /\ toNative' = Append(toNative, Ask("checkServerConnectivity", u))
  /\ UNCHANGED <<toPage, probes, web, focus, server_url, history>>

(* _onSavedServerUrl: with a saved address the page connects by itself, and *)
(* takes it for loading already.                                            *)
SavedServerUrl(u) ==
  /\ IF u = NoUrl
     THEN overlay' = [overlay EXCEPT !.at = "idle"] /\ UNCHANGED toNative
     ELSE /\ overlay' = [StartOn(overlay, u) EXCEPT !.mainLoaded = TRUE]
          /\ toNative' = Append(toNative, Ask("checkServerConnectivity", u))
  /\ UNCHANGED history

(* _onServerConnectivityResult: only an answer for the pending address.     *)
Answers(m) == overlay.pendingUrl = m.url

(* What the main browser will load, whatever is on its way to it.           *)
Heading == IF web.pending # NoUrl THEN web.pending ELSE web.url

(* tryConnect after its await.                                              *)
ServerConnectivityResult(m) ==
  IF ~Answers(m) THEN UNCHANGED <<overlay, toNative, history>>
  ELSE IF ~m.ok
  THEN /\ overlay' = [overlay EXCEPT !.at = "idle", !.pendingUrl = NoUrl]
       /\ UNCHANGED <<toNative, history>>
  ELSE /\ overlay' = [overlay EXCEPT !.at = "delay", !.pendingUrl = NoUrl, !.mainLoaded = TRUE]
       /\ toNative' = toNative \o <<Ask("saveServerUrl", m.base)>>
                      \o (IF overlay.mainLoaded THEN <<>> ELSE <<Ask("navigateMain", m.base)>>)
       /\ history' = [history EXCEPT !.stale = overlay.mainLoaded /\ Heading # overlay.server]

(* cancelConnection: also while the page fades out, for isConnecting stays  *)
(* set after a success.                                                     *)
CancelConnection ==
  IF overlay.at \notin Connecting THEN UNCHANGED <<overlay, toNative, history>>
  ELSE /\ overlay' = [overlay EXCEPT !.mainLoaded = FALSE, !.pendingUrl = NoUrl,
                        !.at = IF @ = "fading" THEN "leaving" ELSE "idle"]
       /\ toNative' = Append(toNative, Ask("cancelServerConnectivity", NoUrl))
       /\ history' = [history EXCEPT !.late = @ \/ overlay.at = "fading"]

PageTakes ==
  /\ toPage # <<>> /\ overlay.at # "gone" /\ toPage' = Tail(toPage)
  /\ LET m == Head(toPage) IN
       CASE m.op = "savedServerUrl" -> SavedServerUrl(m.url)
         [] m.op = "serverConnectivityResult" -> ServerConnectivityResult(m)
         [] m.op = "escape" -> CancelConnection
  /\ UNCHANGED <<probes, web, focus, server_url>>

(* The delay before the fade is over.                                       *)
PreFadeOver ==
  /\ overlay.at = "delay" /\ overlay' = [overlay EXCEPT !.at = "fading"]
  /\ toNative' = Append(toNative, Ask("dismissOverlay", NoUrl))
  /\ UNCHANGED <<toPage, probes, web, focus, server_url, history>>

(* The user presses Escape: a key for the layer that has the input.         *)
PressEscape ==
  /\ focus = "overlay" /\ overlay.at # "gone" /\ history.escapes < MaxEscapes
  /\ toPage' = Append(toPage, [op |-> "escape"])
  /\ history' = [history EXCEPT !.escapes = @ + 1]
  /\ UNCHANGED <<overlay, toNative, probes, web, focus, server_url>>

(* The animation is over: window.close, and the overlay's before-close      *)
(* callback.  The fade lasts longer than a message is under way.            *)
OverlayCloses ==
  /\ overlay.at \in {"fading", "leaving"} /\ toNative = <<>>
  /\ overlay' = [overlay EXCEPT !.at = "gone"]
  /\ probes' = [probes EXCEPT !.active = 0]
  /\ focus' = IF web.layer_ptr THEN "main" ELSE "none"
  /\ UNCHANGED <<toNative, toPage, web, server_url, history>>

-----------------------------------------------------------------------------
(* The process: handle_message, on the UI thread.                           *)

(* Mutant of LoadUrl: straight into the browser, which may be closing.      *)
LoadUrlNow(w, u) == IF w.state = "normal" THEN [w EXCEPT !.url = u] ELSE w

(* load_url: kept for the next browser while there is none.                 *)
LoadUrl(w, u) ==
  IF w.state = "normal" THEN [w EXCEPT !.url = u] ELSE [w EXCEPT !.pending = u]

(* reset: nothing while one is under way.                                   *)
Reset(w) == IF w.state = "normal" THEN [w EXCEPT !.state = "recreating"] ELSE w

(* check: cancel_active_probe cancels a HEAD request alone, the GET that    *)
(* follows is kept nowhere; then a probe of its own.                        *)
StartProbe(u) ==
  probes' = [made |-> Append(probes.made, [asked |-> u, phase |-> "Head", base |-> NoUrl]),
             active |-> Len(probes.made) + 1]

HandleMessage ==
  /\ toNative # <<>> /\ overlay.at # "gone" /\ toNative' = Tail(toNative)
  /\ LET m == Head(toNative) IN
       /\ toPage' = IF m.op = "getSavedServerUrl"
                    THEN Append(toPage, [op |-> "savedServerUrl", url |-> server_url]) ELSE toPage
       /\ server_url' = IF m.op \in {"navigateMain", "saveServerUrl"} THEN m.url ELSE server_url
       /\ web' = CASE m.op = "navigateMain" -> LoadUrl(web, m.url)
                   [] m.op = "cancelServerConnectivity" -> Reset(web)
                   [] OTHER -> web
       /\ focus' = IF m.op = "dismissOverlay" /\ web.layer_ptr THEN "main" ELSE focus
       /\ CASE m.op = "checkServerConnectivity" -> StartProbe(m.url)
            [] m.op = "cancelServerConnectivity" -> probes' = [probes EXCEPT !.active = 0]
            [] OTHER -> UNCHANGED probes
  /\ UNCHANGED <<overlay, history>>

(* The closed main browser is replaced by an empty one, which loads what    *)
(* was kept; the layer is no longer registered.                             *)
Recreated ==
  /\ web.state = "recreating"
  /\ web' = [url |-> web.pending, pending |-> NoUrl, state |-> "normal", layer_ptr |-> FALSE]
  /\ focus' = IF focus = "main" THEN IF overlay.at = "gone" THEN "none" ELSE "overlay" ELSE focus
  /\ UNCHANGED <<overlay, toNative, toPage, probes, server_url, history>>

-----------------------------------------------------------------------------
(* The probe: on_complete.                                                  *)

(* The HEAD request is over, answered, failed or cancelled: the GET follows *)
(* in each case, on the address the answer came from.                       *)
HeadCompletes(i) ==
  /\ probes.made[i].phase = "Head"
  /\ \E b \in Addresses :
       probes' = [probes EXCEPT !.made[i].phase = "Get", !.made[i].base = b]
  /\ UNCHANGED <<overlay, toNative, toPage, web, focus, server_url, history>>

(* The answer names the address the user typed.                             *)
Reply(p, ok) ==
  [op |-> "serverConnectivityResult", url |-> p.asked, ok |-> ok,
   base |-> IF ok THEN p.base ELSE p.asked]

(* The GET is over: the page is answered, and whatever probe is active is   *)
(* forgotten.                                                               *)
GetCompletes(i, ok) ==
  /\ probes.made[i].phase = "Get"
  /\ probes' = [made |-> [probes.made EXCEPT ![i].phase = "Done"],
                active |-> IF overlay.at = "gone" THEN probes.active ELSE 0]
  /\ toPage' = IF overlay.at = "gone" THEN toPage ELSE Append(toPage, Reply(probes.made[i], ok))
  /\ history' = IF ok THEN [history EXCEPT !.verified = @ \cup {probes.made[i].base}] ELSE history
  /\ UNCHANGED <<overlay, toNative, web, focus, server_url>>

Completes(i) == HeadCompletes(i) \/ \E ok \in BOOLEAN : GetCompletes(i, ok)

ConnectNext ==
  \/ \E u \in Addresses : Connect(u)
  \/ PageTakes \/ PreFadeOver \/ PressEscape \/ OverlayCloses
  \/ HandleMessage \/ Recreated
  \/ \E i \in DOMAIN probes.made : Completes(i)

ConnectSpec == ConnectInit /\ [][ConnectNext]_connectVars

(* Both event loops run, a request ends, a browser that closes is replaced. *)
ConnectFairness ==
  /\ WF_connectVars(PageTakes) /\ WF_connectVars(HandleMessage) /\ WF_connectVars(Recreated)
  /\ \A i \in 1..MaxProbes : WF_connectVars(i \in DOMAIN probes.made /\ Completes(i))

-----------------------------------------------------------------------------
Probe == [asked : Addresses, phase : {"Head", "Get", "Done"}, base : Url]
Message ==
  [op : {"savedServerUrl"}, url : Url] \cup [op : {"escape"}]
  \cup [op : {"serverConnectivityResult"}, url : Addresses, ok : BOOLEAN, base : Addresses]

(* The variables hold the values of their types.                            *)
ConnectTypeOK ==
  /\ overlay \in [at : {"boot", "idle", "leaving", "gone"} \cup Connecting,
                  server : Url, mainLoaded : BOOLEAN, pendingUrl : Url]
  /\ toNative \in Seq([op : {"getSavedServerUrl", "checkServerConnectivity",
                             "cancelServerConnectivity", "navigateMain", "saveServerUrl",
                             "dismissOverlay"}, url : Url])
  /\ toPage \in Seq(Message)
  /\ probes.made \in Seq(Probe) /\ probes.active \in 0..Len(probes.made)
  /\ web \in [url : Url, pending : Url, state : {"normal", "recreating"}, layer_ptr : BOOLEAN]
  /\ focus \in {"overlay", "main", "none"} /\ server_url \in Url
  /\ history \in [verified : SUBSET Addresses, stale : BOOLEAN, late : BOOLEAN,
                  escapes : 0..MaxEscapes]

(* When the overlay is gone the main browser shows the server the user      *)
(* connected to (the address, or the one it led to), which has answered a   *)
(* probe and is saved, whatever was tried and cancelled before.  Excepted   *)
(* are a success for which main was taken for loading while it loads the    *)
(* address of an attempt that failed, and an Escape that arrives while the  *)
(* page fades out.                                                          *)
ConnectedServerShown ==
  overlay.at = "gone" /\ web.state = "normal" /\ ~history.late =>
    /\ server_url \in history.verified
    /\ history.stale \/ web.url \in {server_url, overlay.server}

(* An attempt waits for its answer, whose address is the pending one.       *)
ConnectWaits == overlay.at = "probe" \/ web.state = "recreating"
=============================================================================
