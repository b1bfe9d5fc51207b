-------------------------------- MODULE Menus --------------------------------
(* Context menus and <select> drop-downs on Wayland.  Four parties share one
   menu surface:

     the input thread      arms a popup at a press (wayland/src/input.rs), feeds
                           the menu, and drops the popup if no menu came of it;
     CEF's UI thread       asks for a menu (run_context_menu), shows and hides
                           drop-downs, and runs the results posted to it;
     the proxy's thread    applies the queued popup commands and reports the
                           compositor's configure and done events back;
     the compositor        configures the popup, and may dismiss it.

   The menu state (MenuIo, popup.rs) is behind the WlState lock, but the popup
   commands are queued after the lock is dropped, so a critical section and its
   command are two steps here.  One browser layer: the slot of MenuOwnership is
   global anyway.  A row picked, a row ignored and a dismissal are told apart;
   painting, scrolling and the highlighted row are not.                       *)
EXTENDS Naturals, Sequences, FiniteSets

CONSTANTS
    MenuButtons, \* buttons that arm a popup (BTN_LEFT, BTN_RIGHT)
    MaxPresses,  \* bound: presses of a button
    MaxMenus,    \* bound: context menus CEF asks for
    MaxSelects,  \* bound: times a drop-down is shown
    NoMenu       \* the None of every Option below

ASSUME MenusAssumption ==
    /\ IsFiniteSet(MenuButtons)
    /\ MaxPresses \in Nat /\ MaxMenus \in Nat /\ MaxSelects \in Nat
    /\ NoMenu \notin Nat /\ NoMenu \notin MenuButtons

VARIABLES
    pointer,    \* [down, mods, swallowed, seen] : the input thread's button state
    handler,    \* [at, button, gen] : where its button handler is
    io,         \* MenuIo: [phase, gen, menu]
    active,     \* MENU_ACTIVE
    commands,   \* the popup commands queued for the proxy
    popup,      \* the proxy's popup: NoMenu or [gen, due]
    caller,     \* the command CEF's UI thread still has to queue, or NoMenu
    owner,      \* MenuOwnership.current
    pendingCb,  \* pending_menu_callback: the request whose CEF callback is held
    results,    \* DispatchMenuResultTask's posted to the UI thread
    answer,     \* [how, by] : what became of each request's CEF callback
    select,     \* the layer's drop-down: "open" when PopupState.visible, "deactivated" when
                \* only CEF still has it, or "closed"
    generation, \* NEXT_GENERATION: the generations given out
    used        \* [presses, menus, selects, closes] : counters of the bounds

menuVars == <<pointer, handler, io, active, commands, popup, caller, owner,
              pendingCb, results, answer, select, generation, used>>

Requests == 1..MaxMenus
Generations == 1..(MaxPresses + MaxMenus + MaxSelects)
Phases == {"Idle", "AwaitPlaceholder", "Placeholder", "AwaitMenu", "Shown"}

\* A menu carries its selection callback: of a context menu, by its request;
\* a drop-down's only sends keys to its popup.
MenuOf(kind, r, isMapped) == [kind |-> kind, request |-> r, mapped |-> isMapped]
NoMenuIo == [phase |-> "Idle", gen |-> 0, menu |-> NoMenu]
Answer(how, r) == [how |-> how, by |-> r]
Command(op, g) == [op |-> op, gen |-> g]
HandlerIdle == [at |-> "idle", button |-> NoMenu, gen |-> 0]

MenusInit ==
    /\ pointer = [down |-> {}, mods |-> {}, swallowed |-> {}, seen |-> {}]
    /\ handler = HandlerIdle
    /\ io = NoMenuIo /\ active = FALSE
    /\ commands = <<>> /\ popup = NoMenu /\ caller = NoMenu
    /\ owner = NoMenu /\ pendingCb = NoMenu /\ results = <<>>
    /\ answer = [r \in Requests |-> Answer("none", 0)]
    /\ select = "closed"
    /\ used = [presses |-> 0, menus |-> 0, selects |-> 0, closes |-> 0]
    /\ generation = 0

-----------------------------------------------------------------------------
(* Helpers of popup.rs *)

\* clear_menu_locked: drops the menu with its callback, fired or not.
ClearMenu == io' = NoMenuIo /\ active' = FALSE

\* fire_locked: a context menu's callback posts its result; the UI thread gets
\* it later.
Fire ==
    results' = IF io.menu # NoMenu /\ io.menu.kind = "context"
               THEN Append(results, io.menu.request) ELSE results

Enqueue(c) == commands' = Append(commands, c)

\* step_locked on Close: the result, the teardown, and the command in one hold.
CloseMenu == Fire /\ ClearMenu /\ Enqueue(Command("hide", 0))

\* begin_menu_locked once a menu is there: the popup is mapped and will be
\* repositioned by the caller.
Begun(m) == [io EXCEPT !.phase = "AwaitMenu", !.menu = m]

-----------------------------------------------------------------------------
(* The input thread *)

ToCef(b) == {b} \ {NoMenu}

\* A press while a menu is active is swallowed; a mapped menu takes it: a row
\* picked or a press outside closes it, a press on a separator does not.
PressOnMenu(b) ==
    /\ handler.at = "idle" /\ b \notin pointer.down
    /\ used.presses < MaxPresses
    /\ active
    /\ used' = [used EXCEPT !.presses = @ + 1]
    /\ pointer' = [pointer EXCEPT !.down = @ \cup {b}, !.swallowed = @ \cup {b}]
    /\ \/ io.menu # NoMenu /\ io.menu.mapped /\ CloseMenu
       \/ UNCHANGED <<io, active, commands, results>>
    /\ UNCHANGED <<handler, popup, caller, owner, pendingCb, answer, select, generation>>

\* A press while none is active will arm a popup.  arm takes its generation
\* before the lock.
Press(b) ==
    /\ handler.at = "idle" /\ b \notin pointer.down
    /\ used.presses < MaxPresses
    /\ ~active
    /\ used' = [used EXCEPT !.presses = @ + 1]
    /\ generation' = generation + 1
    /\ pointer' = [pointer EXCEPT !.down = @ \cup {b}]
    /\ handler' = [at |-> "pressed", button |-> b, gen |-> generation + 1]
    /\ UNCHANGED <<io, active, commands, popup, caller, owner, pendingCb, results, answer, select>>

\* The context-menu key arms one in the same way; no release follows it.
PressMenuKey ==
    /\ handler.at = "idle"
    /\ used.presses < MaxPresses
    /\ ~active
    /\ used' = [used EXCEPT !.presses = @ + 1]
    /\ generation' = generation + 1
    /\ handler' = [at |-> "pressed", button |-> NoMenu, gen |-> generation + 1]
    /\ UNCHANGED <<pointer, io, active, commands, popup, caller, owner, pendingCb,
                   results, answer, select>>

\* arm, under the lock: whatever menu there was goes, its callback unfired.
Arm ==
    /\ handler.at = "pressed"
    /\ io' = [phase |-> "AwaitPlaceholder", gen |-> handler.gen, menu |-> NoMenu]
    /\ active' = FALSE
    /\ handler' = [handler EXCEPT !.at = "armed"]
    /\ UNCHANGED <<pointer, commands, popup, caller, owner, pendingCb, results, answer, select, generation, used>>

\* ... the show command, and the press goes on to CEF.
ArmShow ==
    /\ handler.at = "armed"
    /\ Enqueue(Command("show", handler.gen))
    /\ pointer' = [pointer EXCEPT !.mods = @ \cup ToCef(handler.button),
                                  !.seen = @ \cup ToCef(handler.button)]
    /\ handler' = HandlerIdle
    /\ UNCHANGED <<io, active, popup, caller, owner, pendingCb, results, answer, select, generation, used>>

\* Mutant of ReleaseOnMenu: the release of the press that opened the menu is
\* swallowed like the others.
ReleaseOnMenuSwallowed(b) ==
    /\ handler.at = "idle" /\ b \in pointer.down
    /\ active
    /\ pointer' = [pointer EXCEPT !.down = @ \ {b}, !.mods = @ \ {b}, !.swallowed = @ \ {b}]
    /\ UNCHANGED <<handler, io, active, commands, popup, caller, owner, pendingCb,
                   results, answer, select, generation, used>>

\* A release while a menu is active: CEF gets it if it saw the press.
ReleaseOnMenu(b) ==
    /\ handler.at = "idle" /\ b \in pointer.down
    /\ active
    /\ pointer' = [pointer EXCEPT
           !.down = @ \ {b},
           !.mods = @ \ {b},
           !.seen = IF b \in pointer.mods THEN @ \ {b} ELSE @,
           !.swallowed = IF b \in pointer.mods THEN @ ELSE @ \ {b}]
    /\ UNCHANGED <<handler, io, active, commands, popup, caller, owner, pendingCb,
                   results, answer, select, generation, used>>

\* The release of a swallowed press, after the menu closed, is swallowed too.
ReleaseSwallowed(b) ==
    /\ handler.at = "idle" /\ b \in pointer.down
    /\ ~active /\ b \in pointer.swallowed
    /\ pointer' = [pointer EXCEPT !.down = @ \ {b}, !.swallowed = @ \ {b}]
    /\ UNCHANGED <<handler, io, active, commands, popup, caller, owner, pendingCb,
                   results, answer, select, generation, used>>

\* Any other release goes to CEF, and the popup armed by its press is then
\* dropped if no menu has come for it.
Release(b) ==
    /\ handler.at = "idle" /\ b \in pointer.down
    /\ ~active /\ b \notin pointer.swallowed
    /\ pointer' = [pointer EXCEPT !.down = @ \ {b}, !.mods = @ \ {b}, !.seen = @ \ {b}]
    /\ handler' = [handler EXCEPT !.at = "released"]
    /\ UNCHANGED <<io, active, commands, popup, caller, owner, pendingCb, results,
                   answer, select, generation, used>>

\* dismiss_if_speculative
DismissIfSpeculative ==
    /\ handler.at = "released"
    /\ IF io.menu # NoMenu \/ io.phase = "Idle"
       THEN handler' = HandlerIdle /\ UNCHANGED <<io, active>>
       ELSE ClearMenu /\ handler' = [handler EXCEPT !.at = "dismissed"]
    /\ UNCHANGED <<pointer, commands, popup, caller, owner, pendingCb, results,
                   answer, select, generation, used>>

DismissHide ==
    /\ handler.at = "dismissed"
    /\ Enqueue(Command("hide", 0))
    /\ handler' = HandlerIdle
    /\ UNCHANGED <<pointer, io, active, popup, caller, owner, pendingCb, results,
                   answer, select, generation, used>>

\* handle_key on a mapped menu: Escape or Tab, or Return on the active row.
KeyClosesMenu ==
    /\ handler.at = "idle"
    /\ active /\ io.menu # NoMenu /\ io.menu.mapped
    /\ CloseMenu
    /\ UNCHANGED <<pointer, handler, popup, caller, owner, pendingCb, answer, select, generation, used>>

-----------------------------------------------------------------------------
(* CEF's UI thread *)

\* show_highlighted, by the phase it finds; its command is queued by QueueCall.
ShowMenu(kind, r) ==
    LET m == MenuOf(kind, r, FALSE)
    IN  CASE io.phase = "Placeholder" ->
               /\ io' = Begun(m) /\ active' = TRUE
               /\ caller' = Command("reposition", 0)
               /\ UNCHANGED generation
          [] io.phase \in {"AwaitPlaceholder", "AwaitMenu"} ->
               /\ io' = [io EXCEPT !.menu = m]
               /\ UNCHANGED <<active, caller, generation>>
          [] io.phase = "Idle" ->
               /\ generation' = generation + 1
               /\ io' = [phase |-> "AwaitMenu", gen |-> generation + 1, menu |-> m]
               /\ caller' = Command("show", generation + 1)
               /\ UNCHANGED active
          [] io.phase = "Shown" ->
               /\ io' = [io EXCEPT !.menu = MenuOf(kind, r, TRUE)]
               /\ caller' = Command("reposition", 0)
               /\ UNCHANGED <<active, generation>>

\* store_pending_menu_callback
StorePending(r) ==
    /\ pendingCb' = r
    /\ answer' = [q \in Requests |-> CASE q = r -> Answer("held", 0)
                                       [] q = pendingCb -> Answer("cancelled", 0)
                                       [] OTHER -> answer[q]]

NextRequest ==
    /\ caller = NoMenu
    /\ used.menus < MaxMenus

\* run_context_menu when MenuOwnership grants the slot.
RunContextMenu ==
    LET r == used.menus + 1 IN
    /\ NextRequest
    /\ owner = NoMenu
    /\ owner' = r
    /\ StorePending(r)
    /\ used' = [used EXCEPT !.menus = r]
    /\ ShowMenu("context", r)
    /\ UNCHANGED <<pointer, handler, commands, popup, results, select>>

\* ... and when a menu is open already: this one is cancelled.
RefuseContextMenu ==
    LET r == used.menus + 1 IN
    /\ NextRequest
    /\ owner # NoMenu
    /\ answer' = [answer EXCEPT ![r] = Answer("cancelled", 0)]
    /\ used' = [used EXCEPT !.menus = r]
    /\ UNCHANGED <<pointer, handler, io, active, commands, popup, caller, owner,
                   pendingCb, results, select, generation>>

\* try_show_popup, once Blink's drop-down has its rectangle and its options.
ShowSelect ==
    /\ caller = NoMenu
    /\ used.selects < MaxSelects
    /\ used' = [used EXCEPT !.selects = @ + 1]
    /\ select' = "open"
    /\ ShowMenu("select", 0)
    /\ UNCHANGED <<pointer, handler, commands, popup, owner, pendingCb, results, answer>>

\* hide tears down whatever menu there is, unfired; an armed popup without a
\* menu survives.
HideDropDown ==
    /\ caller = NoMenu
    /\ IF io.menu = NoMenu THEN UNCHANGED <<io, active, caller>>
       ELSE ClearMenu /\ caller' = Command("hide", 0)
    /\ UNCHANGED <<pointer, handler, commands, popup, owner, pendingCb, results,
                   answer, generation, used>>

\* on_popup_show(false): CEF closes the drop-down it opened, of whose state in
\* the layer nothing is asked first.
HideSelect ==
    /\ select # "closed"
    /\ select' = "closed"
    /\ HideDropDown

\* on_deactivated: another layer becomes active, and a visible drop-down goes.
DeactivateSelect ==
    /\ select = "open"
    /\ select' = "deactivated"
    /\ HideDropDown

\* The command of the call above, queued after the lock was dropped.
QueueCall ==
    /\ caller # NoMenu
    /\ Enqueue(caller)
    /\ caller' = NoMenu
    /\ UNCHANGED <<pointer, handler, io, active, popup, owner, pendingCb, results,
                   answer, select, generation, used>>

\* Mutant of Resolves: any result resolves the open menu.
ResolvesAny(r) == owner # NoMenu

\* MenuOwnership::resolve
Resolves(r) == owner = r

\* dispatch_menu_result: a stale result does nothing; otherwise the slot is free
\* and the CEF callback that was held is answered, by cont or by cancel.
DispatchMenuResult ==
    LET r == Head(results) IN
    /\ caller = NoMenu
    /\ results # <<>>
    /\ results' = Tail(results)
    /\ IF Resolves(r)
       THEN /\ owner' = NoMenu
            /\ pendingCb' = NoMenu
            /\ answer' = IF pendingCb = NoMenu THEN answer
                         ELSE [answer EXCEPT ![pendingCb] = Answer("result", r)]
       ELSE UNCHANGED <<owner, pendingCb, answer>>
    /\ UNCHANGED <<pointer, handler, io, active, commands, popup, caller, select,
                   generation, used>>

\* jfn_browsers_close_and_snapshot resets the slot; menu callbacks may still
\* come while the browsers close.
CloseAllMenus ==
    /\ caller = NoMenu
    /\ used.closes = 0
    /\ used' = [used EXCEPT !.closes = 1]
    /\ owner' = NoMenu
    /\ UNCHANGED <<pointer, handler, io, active, commands, popup, caller, pendingCb,
                   results, answer, select, generation>>

-----------------------------------------------------------------------------
(* The proxy's thread and the compositor *)

\* drain_commands: create_popup replaces the popup there is; a reposition needs
\* one; destroy_popup.  Each new role and each reposition is configured.
ApplyCommand ==
    LET c == Head(commands) IN
    /\ commands # <<>>
    /\ commands' = Tail(commands)
    /\ popup' = CASE c.op = "show" -> [gen |-> c.gen, due |-> 1]
                  [] c.op = "reposition" ->
                        IF popup = NoMenu THEN NoMenu ELSE [popup EXCEPT !.due = @ + 1]
                  [] c.op = "hide" -> NoMenu
    /\ UNCHANGED <<pointer, handler, io, active, caller, owner, pendingCb, results,
                   answer, select, generation, used>>

\* A configure reaches on_ready, which ignores another generation's: without a
\* menu the popup stays unmapped, with one it is mapped as a placeholder and
\* repositioned, and at its full size the menu is painted.
OnReady ==
    /\ popup # NoMenu /\ popup.due > 0
    /\ LET heard == io.gen = popup.gen
           fed == [popup EXCEPT !.due = @ - 1]
       IN  CASE heard /\ io.phase = "AwaitPlaceholder" /\ io.menu # NoMenu ->
                  /\ io' = Begun(io.menu) /\ active' = TRUE
                  /\ Enqueue(Command("reposition", 0))
                  /\ popup' = fed
             [] heard /\ io.phase = "AwaitPlaceholder" /\ io.menu = NoMenu ->
                  /\ io' = [io EXCEPT !.phase = "Placeholder"]
                  /\ popup' = fed
                  /\ UNCHANGED <<active, commands>>
             [] heard /\ io.phase = "AwaitMenu" ->
                  /\ io' = [io EXCEPT !.phase = "Shown", !.menu.mapped = TRUE]
                  /\ popup' = fed
                  /\ UNCHANGED <<active, commands>>
             [] OTHER -> popup' = fed /\ UNCHANGED <<io, active, commands>>
    /\ UNCHANGED <<pointer, handler, caller, owner, pendingCb, results, answer,
                   select, generation, used>>

\* popup_done: on_done dismisses the menu of that generation, and the proxy
\* destroys the popup either way.
OnDone ==
    /\ popup # NoMenu
    /\ popup' = NoMenu
    /\ IF io.gen = popup.gen THEN Fire /\ ClearMenu
       ELSE UNCHANGED <<results, io, active>>
    /\ UNCHANGED <<pointer, handler, commands, caller, owner, pendingCb, answer,
                   select, generation, used>>

InputThread ==
    \/ \E b \in MenuButtons : PressOnMenu(b) \/ Press(b) \/ ReleaseOnMenu(b)
                              \/ ReleaseSwallowed(b) \/ Release(b)
    \/ PressMenuKey \/ Arm \/ ArmShow \/ DismissIfSpeculative \/ DismissHide \/ KeyClosesMenu

UiThread ==
    \/ RunContextMenu \/ RefuseContextMenu \/ ShowSelect \/ HideSelect \/ DeactivateSelect
    \/ QueueCall \/ DispatchMenuResult \/ CloseAllMenus

ProxyThread == ApplyCommand \/ OnReady \/ OnDone

MenusNext == InputThread \/ UiThread \/ ProxyThread

MenusSpec == MenusInit /\ [][MenusNext]_menuVars

-----------------------------------------------------------------------------
(* Properties *)

\* Type invariant.
MenusTypeOK ==
    /\ pointer \in [down : SUBSET MenuButtons, mods : SUBSET MenuButtons,
                    swallowed : SUBSET MenuButtons, seen : SUBSET MenuButtons]
    /\ handler \in [at : {"idle", "pressed", "armed", "released", "dismissed"},
                    button : MenuButtons \cup {NoMenu}, gen : Generations \cup {0}]
    /\ io \in [phase : Phases, gen : Generations \cup {0},
               menu : [kind : {"context", "select"}, request : Requests \cup {0},
                       mapped : BOOLEAN] \cup {NoMenu}]
    /\ active \in BOOLEAN /\ select \in {"closed", "open", "deactivated"}
    /\ commands \in Seq([op : {"show", "reposition", "hide"}, gen : Generations \cup {0}])
    /\ popup \in [gen : Generations, due : Nat] \cup {NoMenu}
    /\ caller \in [op : {"show", "reposition", "hide"}, gen : Generations \cup {0}]
                  \cup {NoMenu}
    /\ owner \in Requests \cup {NoMenu} /\ pendingCb \in Requests \cup {NoMenu}
    /\ results \in Seq(Requests)
    /\ answer \in [Requests -> [how : {"none", "held", "cancelled", "result"},
                            by : Requests \cup {0}]]
    /\ generation \in Generations \cup {0}
    /\ used \in [presses : 0..MaxPresses, menus : 0..MaxMenus,
                 selects : 0..MaxSelects, closes : 0..1]

\* Every callback CEF hands over with a context menu is either the one held, or
\* was answered: cancelled when refused or displaced, or by the result of its
\* own menu, never by a stale result of an earlier one (menu_ownership.rs,
\* callbacks.rs).  A close-all in between resets the slot but not the rest.
AnswersMatch ==
    \A r \in Requests : /\ answer[r].how = "held" => pendingCb = r
                        /\ answer[r].how = "result" => answer[r].by = r

\* Between two events the input thread owes CEF exactly the releases of the
\* presses CEF saw: every button down was either forwarded or swallowed, and
\* no button that is up is left latched in either (input.rs: "otherwise Blink
\* keeps the button latched").
ReleasesMatch ==
    handler.at = "idle" =>
        /\ pointer.seen \cap pointer.swallowed = {}
        /\ pointer.seen \cup pointer.swallowed = pointer.down

\* The claim of browsers.rs ("must not strand the slot") and of the selection
\* callback ("receives the chosen item id, or -1 for dismissed"): while a
\* request owns the slot, its menu is there to report a result, or the result
\* is on its way.
SlotNotStranded ==
    owner # NoMenu =>
        \/ io.menu # NoMenu /\ io.menu.kind = "context" /\ io.menu.request = owner
        \/ \E i \in 1..Len(results) : results[i] = owner

(* CEF gets the answers and the releases it waits for, and no others.       *)
MenuPromises == AnswersMatch /\ ReleasesMatch
=============================================================================
