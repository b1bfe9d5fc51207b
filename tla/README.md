# Verification of jellyfin-desktop

TLA+ models of the concurrent core of jellyfin-desktop (the Rust crates under
`src/src/`), the TLC configurations that check them on small instances, and
TLAPS proofs of most of what the runs check, for every value of the constants.
Paths below are relative to `src/src/`; `PROJECT.json` maps every definition to
the lines it translates, lists the hazards of the code, each at its line, and
says for every property which bug in the code would break it (the mutants).

1. The system   2. The modules   3. What the runs check   4. What is proved
5. What is only model-checked   6. Disagreements and observations
7. What is not modelled   8. Plan

## 1. The system

The desktop client is one process: a window of mpv for the video, browsers of
CEF on top of it for the web client, and threads that connect the two.

```
 web page --IPC--> CEF UI thread --- commands ---> mpv core
 (player, overlay,     |   ^                          |
  about)        inputs |   | JavaScript               | events
                       v   |                          v
                 playback coordinator <-- inputs -- mpv event thread
                 (worker thread) --> idle inhibit, media session, theme, page
 platform (window, power, signals) --> manager thread --> CEF UI thread
 CEF frames --> paint workers --> surfaces <-- window (Wayland, X11, Windows, macOS)
 main thread: boot, park (macOS: run loop and CEF pump), teardown
```

| component | state | operations | what is hard | what makes it correct |
|---|---|---|---|---|
| Playback state machine `playback/state_machine.rs` | published snapshot, pending load, observed unpause, cache/idle/frame flags, last item id | one handler per input | three producers in any order; five handlers can promote a track | snapshot consistent, each change announced, promotion only when the gate is open |
| Playback coordinator `playback/coordinator.rs`, `ffi.rs`, its sinks | queue, wake event, running flag, snapshot, the singleton and its lock | post, worker iteration, stop/join | lost wake-ups, batch-final stamps, stop racing the worker, join under a lock | nothing posted is forgotten, sinks agree with the snapshot, shutdown returns |
| Player session `jfn_cef/business_web.rs`, `mpv/api.rs`, `playback/ingest.rs` | pending track slot, command and event queues, the open file | playerLoad, playerStop, loadfile, apply tracks, mpv events | page, worker, event thread and mpv are asynchronous; one slot and one boolean for any number of loads | each file gets its own tracks and plays, switches show no flicker |
| Media session `playback/sink_core.rs`, `mpris`, `windows_sink`, `macos_sink` | bounded queue or channel, projected transport state | publish, project, stop and join | drops at 256, kinds without phases, metadata apart from the snapshot | the transport shows what the player does |
| CEF layers `jfn_cef/browsers.rs`, `client/lifecycle.rs`, `client/tasks.rs` | registry, focus stack, life cycle of each layer, UI tasks | create, close, reset, navigate, show/hide, panels | browsers are born and die later than asked for; a reset is a close and a create | registry and focus name live layers, none is lost |
| Process life cycle `jfn_rust/manager.rs`, `app.rs`, `playback/shutdown.rs` | manager queue, wake event and state, shutdown flag and handler | boot, fold a message, initiate shutdown, close all, tear down | signals at any moment, visibility and power crossing a shutdown | shutdown completes with no browser left, a running app is visible |
| mpv handle and boot `mpv/`, `jfn_rust/app.rs`, `playback/ingest_driver.rs` | the handle slot, the VO wait, ingested sizes and scale | boot, wait, deliver events and sizes, terminate | the raw handle outlives the slot; sizes change while nobody listens | the handle outlives its uses, browsers get the size of the window |
| Settings store `config/lib.rs` | settings, pending snapshot, worker and its handle | load, change, save, save_async, drain | a synchronous save races the worker, a shutdown the first spawn | the last write is the newest state, the shutdown drains |
| Painting `paint_scheduler.rs`, `client/resize.rs` | debounce, loop flags, tick count, frame rate | resize, kick, tick, paint, rate | field-wise atomics written by three threads | one loop, no size lost, the rate given back |
| Paint workers `wayland`, `x11`, `gpu_paint` | a one-frame queue, shadow image or texture | submit, take, present, gate, fail, stop | dirty-only frames build on frames that may be dropped or replaced | no blank or older pixels on the screen, no frame left behind |
| Wayland window `wayland/`, `wlproxy/` | surfaces, transition, proxy callbacks, the root window of the proxy | alloc, free, present, configure, fullscreen, commands | four threads and a compositor; a lock held by a thread that ends | no stale frame, no gate left closed, the shell agrees with the compositor |
| Windows compositor `compositor_core/`, `windows/` | surface stack, gate, window messages | push, remove, present, begin and end a transition | the echo of a property crosses window messages | the main surface is the right one and stays hidden |
| X11 overlays `x11/` | overlay windows, the geometry thread's belief | alloc, free, resize, one pass over all | a look at the server is stale when it is used; no timer; events kept by the connection wake nobody | overlays are over the window once its events are read, and never torn from each other |
| Menus `jfn_cef/menu_ownership.rs`, `client/popup.rs`, `wayland/popup.rs`, `input.rs` | owner slot, popup with its grab, result queue, pointer | arm, map, pick, dismiss, cancel | results arrive after their menu; presses and releases on both sides of a menu | each request answered once by its own menu, no button latched |
| macOS main loop and display link `macos/` | run loop, pump source and timer, display link | pump, wake, release, restart | a pump turn cut short; links that stop without telling | nothing stranded, frames go on |
| Server connect `web/overlay.js`, `business_overlay.rs` | the page's attempt, probes, pending URL | connect, answer, cancel, reset, dismiss | old probes, cancels and resets cross | the server chosen is shown and saved |
| Log files `logging/lib.rs` | channel, file, backups, capture pipe | write, rotate, capture, init | a rotation half done, its own output captured | newest lines in order, backups kept |
| Input and cursor routing, window geometry, theme colour, updater, tables, paths, CLI | values | pure or I/O | little | conversions |

All but the last row are modelled, most of them in part: `PROJECT.json` gives
each component's status and what is left out.

## 2. The modules

| module | models | composes |
|---|---|---|
| `PlaybackLifecycle` | abstract: which lifecycle event comes with which change of phase | |
| `PlaybackSource` | abstract: the same with seeking and buffering, as a listener hears it | extends `PlaybackLifecycle` |
| `PlaybackStateMachine` | `state_machine.rs`, `types.rs`, `coordinator.rs` `apply` | implements `PlaybackSource` |
| `PlaybackCoordinator` | `coordinator.rs`, `ffi.rs`, idle-inhibit and browser sinks | extends the state machine |
| `PlayerSession` | playerLoad/playerStop, `mpv/api.rs`, `ingest.rs`; mpv external | extends the state machine |
| `MediaSession` | `sink_core.rs`, MPRIS, Windows and macOS transports | driven by `PlaybackSource`'s steps |
| `CefLayers` | `browsers.rs`, `client/lifecycle.rs`, `client/tasks.rs`, overlay and about panel; CEF external | |
| `AppLifecycle` | `manager.rs`, `app.rs`, `shutdown.rs` | extends `CefLayers` |
| `MpvBoot` | `app.rs` boot and VO wait, `ingest_driver.rs`, `wayland/proxy.rs`, teardown | |
| `SettingsStore` | `config/lib.rs` and its callers | |
| `CefPaint` | `paint_scheduler.rs`, `client/resize.rs` | |
| `PaintWorkers` | the four presenters: shm and GPU, Wayland and X11 | |
| `WaylandWindow` | `wl_state.rs`, `wl_ops.rs`, proxy callbacks, transition, teardown | |
| `ProxyShell` | `wlproxy/lib.rs`: connections, root window, commands | |
| `WindowsCompositor` | `compositor_core`, `windows/compositor.rs`, `platform.rs` | |
| `X11Overlays` | `geometry.rs`, `overlay_fsm.rs`, `surface.rs` | |
| `Menus` | menu ownership, Wayland popup and input | |
| `MacMainLoop`, `MacDisplayLink` | `cef_pump.rs`, `init.rs`, `lib.rs` of macOS | |
| `ServerConnect` | `overlay.js`, `connectivityHelper.js`, `business_overlay.rs` | |
| `LogFiles` | `logging/lib.rs` | |
| `MC...` | TLC instances; `...Proofs` the theorems | |

How they correspond to the code, where it is not one action per function:

* **PlaybackStateMachine.** `s` is the published snapshot, the other variables
  the private fields; one action per handler; `emitted` is what a handler
  returns.  Items are model values with the empty id as `NoItem`; the five plain
  edge-triggered fields are one function `settings`.  The refinement maps
  `phase` to `s.phase`, `loading` to `pending_load`, `seeking` and `buffering` to
  the fields of the snapshot, `announced` and `noticed` to the lifecycle and the
  other kinds in `emitted`.
* **PlaybackCoordinator.** A post is two steps (push under the slot lock,
  signal), a shutdown three, a worker iteration up to nine.  A wake event is a
  flag: signal sets it, wait blocks until it is set, drain clears it.  Events
  carry no snapshot of their own, because the code stamps all of a batch with
  the one it publishes.  The queue lock guards single steps and is no variable.
* **PlayerSession.** `playerLoad` is its steps in order; the action sink takes
  the tracks in one step and writes them in another.  mpv executes commands in
  order, opens files paused, coalesces property changes.  A load's number
  identifies it for the properties only.
* **CefLayers, AppLifecycle.** Everything on the UI thread is one step per task
  or callback.  The manager's loop is split into wait, drain, take, fold,
  receive and wait for the closes; `jfn_shutdown_initiate` and
  `jfn_manager_send` are two steps each.
* **MpvBoot.** The main thread, the proxy thread and the event thread are
  program counters; `vo` is what the VO wait looks for, `ingest` what the proxy
  or mpv told, `dims` the posted sizes, `reg` the browsers' size.  One thread at
  a time may hold the raw handle besides the event thread.
* **SettingsStore.** Settings are versions: `web` counts the page's changes,
  `window` those of the geometry.  A write is atomic or fails (`write_atomic`).
* **CefPaint.** What the threads share is atomic field by field, so an operation
  is split wherever it reads such a field and acts on it later.
* **PaintWorkers.** Pixels are the number of the paint that drew them, 0 is
  blank; `presenter` chooses the code of one of the four.
* **WaylandWindow.** A buffer is the width of its frame.  The one mutex makes
  the operations of `wl_ops` single steps, except where it is dropped.
* **ProxyShell.** Sizes are numbers; `Physical` is the rounding of
  `linux_util/frac_scale`.  `compositor.asked` is what the compositor received
  and `posted` what the host posted, for the property only.
* **WindowsCompositor.** The STATE lock makes compositor functions single steps;
  the platform's functions call several.
* **X11Overlays.** The look at the parent, the snapshot of the overlays, the
  look at each, the requests and the note of what was done are separate steps.
  `events` is what the thread has not handled, `readable` whether any of it is
  still on the socket: a step that waits for a reply (`ReadReply`) takes all of
  it off the socket and into the connection, and so may any moment of a pass
  (`ReadAhead`).  `Poll` needs the socket or the resync waker, as `libc::poll`
  does, and then handles what the connection kept as well.  Position and size of
  a window, two replies, are one look.
* **Menus.** A critical section of `popup.rs` and the command it queues are two
  steps.  A row picked, a row ignored and a dismissal are told apart.
* **MediaSession.** A batch is stamped with its final state; the source of the
  batches is `PlaybackSource`, which the machine is proved to implement.
* **MacMainLoop, MacDisplayLink.** The run loop serves one thing at a time.  A
  pump turn that was slow had a task.
* **ServerConnect.** Two queues between page and process; an address stands for
  its normalized form and its base; `history` is read by the properties.
* **LogFiles.** A line is a number, a file's size its lines; a kill may come
  between any two steps.

## 3. What the runs check

A merged MC module holds machines that share no variable (in `MCRuntime` the
session and the coordinator share the state machine's).  Its variable `machine`
chooses one initially; the others rest in a state none of their threads can
leave, and have no fair action enabled there.  Every behaviour of a merged run
is thus a behaviour of one machine, and its state count the sum of theirs.

| run | machines and bounds | distinct states | shows |
|---|---|---|---|
| `sm` | 2 items (symmetric), 2 positions, 1 setting; any sequence of inputs | 221,508 | type invariant, nothing outlives its track, promotion gate, announced changes, refinement of `PlaybackSource` |
| `runtime_safe` | coordinator (2 producers, queue of 2, 6 inputs), process (1 reset, 2 messages), main loop (2 posters, 2 tasks), display link (2 displays, 4 changes) | 2,599,939 | no lost wake-up, snapshot current, sinks agree; a running app is shown; frames go on; nothing stranded |
| `runtime_live` | session (2 loads in turn, 1 stop), coordinator (3 inputs), process (1 reset, 1 panel, 1 address), boot (3 hosts, 3 changes of the window), main loop | 524,296 | tracks reach their file, files play, no Stopped flicker; no freed layer named, browsers closed; the handle outlives its uses, browsers get the size; every wait ends |
| `desktop` | Wayland window (1 layer, 2 sizes, 1 configure, 1 request) 230,549; paint workers (4 presenters, 2 tiles, 2 sizes, 4 paints, 1 transition) 101,488; layer (1 resizer, 2 sizes, 2 rates) 104,956; store (4 versions) 50,764; connect (2 addresses, 2 probes, 2 Escapes) 35,202 | 522,959 | no stale frame, no gate left closed, no blank tile, pixels never go back; one loop, no size lost, rate given back; drained and newest at exit; the chosen server shown; every wait ends |
| `platform` | Windows (2 layers, 1 wish) 130,150; menus (2 buttons, 4 events) 147,714; media (3 transports, queue of 2) 140,974; X11 (1 overlay, 2 changes) 329,941; proxy shell (2 sizes, 3 of 2 events and 2 commands) 246,606; log (4 lines, 1 fault, 1 kill) 91,421 | 1,086,806 | the main surface is the lowest and stays hidden; menus answered, no latched button; the transport mirrors; overlays keep up with what was read; the shell agrees and loses no command; the log is in order |
| `session_swallow`, `session_tracks`, `app_reset`, `app_early`, `windows_blank`, `menus_stranded`, `settings_geometry` | one disagreement each, section 6 | violation | |

Why the bounds are enough, each a CONSTANT unless said otherwise:

* `Items`: two ids and the empty one are all `on_load_starting` can tell apart.
  `Positions` and `Values` need two members to differ; the fields of `Settings`
  do not interact.  `sm` has no bound on the inputs.
* `MaxQueue = 2`: a batch of one, a batch whose second input undoes the first,
  and posts while a batch is worked on; the worker looks at the length only for
  zero.  `PhaseInputs`: the sinks look at nothing but phase, media type and
  variant flag.  In `runtime_live` fewer inputs: liveness does not depend on
  what the inputs do.
* `MaxLoads = 2`, `MaxStops = 1`: one track replaced by another and a stop at
  any moment of either is the shape of every hazard of the session.
* `MaxResets = 1`, `MaxAbouts = 1`: the life cycle forgets a finished reset
  except that the layer is unregistered, and a second panel is refused while the
  first is open.  `MaxMessages = 2`: hide and show, hide and suspend, suspend
  and resume.  `EarlySignal = FALSE` limits the passing runs to shutdowns after
  both boot layers exist; `app_early` shows why.  `runtime_live` has the panel,
  `runtime_safe` the messages; each has the reset.
* `MaxWindow = 3`: the window changes before, in and after the VO wait.
* `MaxLit = 4`: a display sleeps, wakes, another leaves, and one comes back.
* `MaxTasks = 2`: a task queued while one is being worked on.
* `MaxConfigures`, `MaxRequests = 1`: one transition begun by the compositor
  and one by the page, crossing each other and the echo of mpv.
* `MaxPaints = 4`: a full frame, a dirty one that replaces or follows it, and
  two more after a resize.  With 3, a blank tile of the Wayland GPU worker
  (section 6) stays out of reach.
* `MaxWeb = 4`: a snapshot in the worker's hand, one pending, one being made,
  one replaced.
* `MaxProbes = 2`, `MaxEscapes = 2`: an old probe that crosses a new one, and a
  cancel of each; 3 and 3 were checked too (1.7 million states).
* `MaxWishes = 1`: a wish of the user meets its own echo and the window's
  messages; a second wish begins where the first did.
* `FourMenuEvents` (a definition of `MCPlatform`): presses, menus and drop-downs
  together are four, a drop-down counting twice, enough for a menu opened between
  press and release and replaced by another (without counting it twice, 712,657
  states, no error).  `ConnectedFirst` (there too): the proxy's root is built
  when every connection is counted; they share no state with what follows.
  `ThreeShellInputs` (there too): two events of the compositor cross a command,
  or two commands an event (both two, 672,342 states, no error).
* `QueueCap = 2`, `MaxWaiting = 2`: the harness drops when full, as at 256.
* `MaxChanges = 2`: two changes of the window manager fall between the look and
  its use.  The window begins at one place, or full on the screen (`Init` of
  `MCPlatform`); the theorem covers any place and any set of overlays, and two
  overlays with one change were checked too (9 million states).
* `MaxLines = 4`, `MaxBackups = 3`, `FileLimit = 1`: every line rotates, and the
  oldest backup goes.

The proofs of section 4 hold without these bounds.

Deadlock is checked in `sm`, `runtime_safe` and the other runs whose cfg does
not say otherwise; `Terminated`, `Down` and `MacEnded` are the states in which
coordinator, store, application and macOS loop are meant to stop.  The runs with
`CHECK_DEADLOCK FALSE` hold machines that may stop: a session, a window or a
menu of which nothing more is asked within the bounds.

### Fairness

Threads run and CEF, mpv and the network answer; no user, page or platform is
obliged to ask for anything.

* Coordinator: the worker, the signal that follows a push, the remaining steps
  of a shutdown.
* Session: each step of the UI thread after a load was asked for, worker, event
  thread, and mpv executing commands, switching and opening files.
* Application: main thread, manager, the second step of an initiate or a send,
  CEF creating and closing browsers it was asked to, posted tasks.
* Boot: boot thread, proxy, event thread, the delivery of sizes, and whoever
  holds the raw handle for a call.
* macOS: the run loop, the wake-up by the manager, a poster inside
  `on_schedule`.
* Store: UI thread inside a save, worker, main thread once the loop returned.
* Layer: a debounced task, the last tick and the pump; *strong* fairness of a
  kick or tick and of a debounced resize, since other tasks of CEF's queue may
  run in between but the queue is FIFO.
* Workers: the hand-over, each worker's loop, the join.
* Window: the proxy, the rest of a UI operation begun, each presenter, the boot
  and teardown of the main thread.
* Connect: both event loops, a request that ends (its own time-out), the
  replacement of a closed browser.

`WaitsEnd` of each merged run says what each machine may wait for.

## 4. What is proved

Eight modules hold the theorems, for every value of the constants that satisfies
the assumptions beside their declaration (and no others are made): that 0 is a
value, that "nobody" is no member, that a bound is a number, that there is a
size and an address.  The bounds of section 3 play no part.  Each proof has the same shape: a
lemma that the invariant holds initially, one lemma per action (or group of
actions) that it is kept, and one temporal step.  An invariant a run checks is
seldom inductive by itself; the strengthening is what the proof is about, and is
described here.  Each was checked with TLC before it was proved.

**`PlaybackStateMachineProofs`**

| theorem | property |
|---|---|
| `TypeCorrect` | `SMTypeOK` |
| `LeftoversCorrect`, from `StoppedCorrect` and `VariantFlagCorrect` | `NoLeftovers` |
| `BufferingCorrect` | `BufferingHasCause` |
| `PromotionCorrect` | `PromotionGate` (an action property) |
| `SourceRefined` | `ImplementsSource` (a refinement) |
| `AnnouncedCorrect` | `ChangesAnnounced` (an action property) |

That a pause cannot reach Stopped with a variant flag set needs that presence and
phase agree; that the flag is justified needs that the last item id survives as
long as the load.  The conjunction of the three state properties with the type
invariant is inductive.  The promotion gate is read off the four handlers that
can promote.  The refinement maps each handler to a step of `PlaybackSource`; a
swallowed end is `Switch`, which needs that `pending_load` holds there, and the
kinds a handler emits come from lemmas on sequences of events.  That seeking and
buffering stay false while stopped is `NoLeftovers`.

**`PlaybackCoordinatorProofs`**

| theorem | property |
|---|---|
| `CoordTypeCorrect` | `CoordTypeOK` |
| `WakeCorrect` | `NoLostWakeup` |
| `SnapshotCorrect` | `SnapshotCurrent` |
| `SinksCorrect`, from `InhibitCorrect` and `MirrorCorrect` | `SinksAgree` |
| `SessionTypeCorrect` | the types of `PlayerSession` |
| `TracksCorrect`, `OpenFileCorrect` | `OwnTracks`, `OpenFilePlays` |
| `FlickerCorrect` | `NoStoppedFlicker` (an action property) |
| `CoordinatorRefined`, `SessionRefined` | each implements `SMSpec` |
| `PromisesKept` | `PromotionGate`, `ChangesAnnounced`, `NoLeftovers` and `ImplementsSource` under both |

The state machine alone takes any sequence of inputs.  That the coordinator and
the session move it only by such steps, or not at all, is a refinement of its own
(`SessionMoves` for the session's many steps), and with it what holds of the
machine alone holds inside them: `PromisesKept` gives the sinks and the page the
promotion gate, the announcements and the lifecycle.  `CoordinatorRefined` closes
the chain by which the media session of `PlatformProofs` is driven.

`WakeInv` adds to the sleeping worker the one that has looked at `running` and
does not sleep yet, which is where a stop can slip in.  `SnapInv` follows a batch
through an iteration.  A step of the coordinator is at most one of the machine,
so what is proved of the machine holds under the coordinator, and `MachineTells`
turns the refinement and `ChangesAnnounced` into what the sinks see of a step.
The inhibitor may disagree only while the batch holds an event that triggers it
(`InhibitInv`), and what the browser sink is about to say agrees with the machine
(`MirrorInv`): every event is read with the final snapshot, so a later load in a
batch changes what an earlier `TrackLoaded` says, and that later step has the
last word (`EmissionSpoken`).

The theorems on the session, for any number of loads and stops, say what the run
does: of a page that waits for a load to settle before the next, which is the
hypothesis `RapidLoads = FALSE`.  Without it `OwnTracks` fails (`session_tracks`,
section 6); the types need no hypothesis.  The invariant follows the last load
along its way: `Asked` from the page to mpv's switch (`AskedInv`: the tracks stay
in the slot, the file before keeps playing with its own), then opening, then
`Working`, from FILE_LOADED in the `Stream` (the queues of mpv and the
coordinator, one behind the other) over the action and the tracks taken to the
select command (`WorkingInv`: in one of these places and in no two).  `OrderInv`
and `EventInv` say which file events can follow one another in the stream, for
which loads: each end of a replaced file is alone there.  `SwitchInv` is the
reason for the absence of flicker: while a load that was replaced plays, or its
end is in the stream, `pending_load` is set or the input that sets it is still in
the queue.  A delivery or a posting by the page changes where things are in the
stream but not the order of its files, which is what the relation `Within`, and
the lemmas on it, are for.

**`SettingsStoreProofs`**

| theorem | property |
|---|---|
| `StoreTypeCorrect` | `StoreTypeOK` |
| `DrainedCorrect` | `DrainedAtExit` |
| `SleepCorrect` | `NoSleepOnWork` |
| `NewestCorrect` | `NewestWebOnDisk` |

`LifeInv` ties thread, handle, `started` and the steps of the shutdown: whoever
accepts the first snapshot is inside the handle lock until the thread exists.
`NewestInv`: of the places a snapshot goes through (pending, the worker's hand,
the file) the first that is filled holds the newest web settings, and the main
thread's is as new; without a browser left the UI thread is idle.

**`CefPaintProofs`**

| theorem | property |
|---|---|
| `CefPaintTypeCorrect` | `CefPaintTypeOK` |
| `OneLoopCorrect` | `OneLoop` |
| `LastSizeCorrect` | `LastSizeDelivered` |
| `RateCorrect` | `RateGivenBack` |

`LoopInv` says how many ticks are posted for each state of the loop's flags, and
that a loop asked to stop is running.  `DebounceInv`: a size not yet given to CEF
has a resizer still at work or a task posted.  `RateInv` follows the boosted rate
through the operations that read it and write it back.

**`RuntimeProofs`**

| theorem | property |
|---|---|
| `BootTypeCorrect` | `BootTypeOK` |
| `HandleCorrect` | `HandleOutlivesUse` |
| `BrowsersSizeCorrect` | `BrowsersHaveSize` |
| `FramesCorrect` | `FramesGoOn` |
| `LoopCorrect` | `NothingStranded` |
| `RuntimeTypesCorrect` | `TypesOK` of `MCRuntime`'s safety run |
| `RuntimeMachines` | in the live run each machine obeys its own specification |

`TeardownInv`: at the teardown each part is down before what it uses, and a thread
holds the handle only in the steps between its clone and its drop.  For the
sizes, `SizedInv`, `SeenInv` and `ThereInv` say what has been ingested in each
phase of the boot, and `ChainInv` that along the chain window, proxy or mpv,
ingest, queue, registry the newest value that is not yet consumed is that of the
window, unless the gap of section 6 lost it or the proxy is about to post.
`LinkInv` says which notifications are due while a link does not tick; `PumpInv`,
`PostedInv` and `ReleaseInv` that a task in CEF's queue has a source signalled, a
timer armed, or a turn under way that will arm one.

**`AppLifecycleProofs`**

| theorem | property |
|---|---|
| `AppTypeCorrect` | `AppTypeOK` |
| `HandlesCorrect` | `HandlesRegistered` |
| `ShownCorrect` | `ShownWhenRunning` |
| `ClosedCorrect` | `AllClosedUnlessReset` |

`Registered` ties registry, focus stack and each layer's handle.  `ClosedInv`
says of each live browser which of manager and main thread still waits for it,
and rests on the order of the shutdown (`HandleOrderInv`, `ShutdownInv`) and on what a
layer that was never reset can be (`UnresetInv`).  `ShownInv` says that a hidden
browser of a running application has a broadcast on its way.  `ClosedCorrect` has the
hypothesis `~EarlySignal`: without it the shutdown need not happen at all
(`app_early`, section 6).

**`PlatformProofs`**

| theorem | property |
|---|---|
| `WinTypeCorrect`, `BottomCorrect` | `WinTypeOK`, `BottomIsMain` |
| `HiddenCorrect` | `MainStaysHidden` (an action property) |
| `MenusTypeCorrect`, `MenusCorrect` | `MenusTypeOK`, `MenuPromises` |
| `ShellTypeCorrect`, `ShellCorrect` | `ShellTypeOK`, `ShellKept` |
| `MediaTypeCorrect`, `TransportCorrect` | `MediaTypeOK`, `TransportMirrors` |
| `OverlaysTypeCorrect`, `OverlaysCorrect` | `OverlaysTypeOK`, `OverlaysKeepUp` |
| `LogTypeCorrect`, `LogCorrect` | `LogTypeOK`, `LogKept` |
| `PlatformTypesCorrect` | `TypesOK` of `MCPlatform` |
| `PlatformMachines` | every machine of the run obeys its own specification |

The surface lists are injective and name the surfaces that are alive
(`ListsInv`), which is what makes a removal promote the right one.  For the menus,
`HeldInv` says where the callback of a menu is (slot, queue of results, or
answered) and `PressInv` that buttons down, presses CEF saw and presses swallowed
add up at every step of an event.  For the shell, `NewestConfigure` and
`NewestScale` say that the last of the values under way (compositor, pending,
applied, mpv, host) is the compositor's, `DemotedInv` and `HandledInv` that
nothing is attached before its acknowledgement, `CommandsKept` that what was
carried out, is queued and is in the proxy's hand is what was posted, in order;
the last needs lemmas on the concatenation of per-connection queues.

For the media session, `MprisInv`: of the events that wait, the last that is not
of the metadata carries the state of the player in its snapshot, as do those
behind it, and if none waits the view has that state already.  `QueuedInv`, for
the transports that read the phase off the kind: the last event of a phase that
waits, in the batch if there is one there and in the channel otherwise, is of the
player's phase.  Both need that an input announces what it changes, and a change
of phase last (`Tidings`), which follows from `PlaybackSource`, the promise
`SourceRefined` establishes for the state machine.

For the X11 overlays the invariant follows the geometry thread through a pass.
`PassInv` says which overlays are behind it, at hand and before it.
`SeenParentInv` and `MappedInv`: what the thread saw of the parent window is still
so, or an event that says otherwise waits to be read.  `BeliefInv`: what the
thread believes of an overlay, or is about to store, is what the window is like.
`AtHandInv`: the overlay at hand is where it was seen, with its events selected.
`PlacedInv` and `AboveInv`: an overlay the pass has dealt with is where the look
at the parent puts it and above the parent, or an event or a resync that corrects
it has yet to be handled.  `SidesInv` and `Settling`: the last size CEF is yet to
give an overlay is the parent's.  None of them asks whether the event is still on
the socket, since the code does not make sure of it: the theorem says that
overlays are in place once all events are handled (`RestInPlace`), and, whenever
the thread sleeps with no resync and no notice of an overlay unhandled, that every overlay is
where one and the same look puts it (`NotTorn`).  That it does not sleep on over
an event is not proved, and false (section 6).  What UI
threads and the window manager do between two steps of the thread is one relation,
`Meanwhile`, and one lemma, `StaysKeep`, shows that it keeps all of these.

For the log `FilesInv` speaks of places and not of contents: there is a function
from the files to positions in what was written such that file *i* ends where
file *i - 1* begins, the first ends at the end, and each line is the one written
at its position (`Placed`).  A rename moves one position, a write the last one.
`FullBefore` says that, while nothing failed, the files before one that has lines
are full, but for the slot a rotation has emptied; the lines no longer kept count
as one more file.  That the concatenation of all files (`FlattenSeq`, a recursive
function of the library) is then a suffix of what was written is `JoinedEnd`; the
induction over the files it needs is done by the least counterexample
(`LeastNat`).  The proof assumes that the marker of a missing file is no sequence
of lines.

**`DesktopProofs`**

| theorem | property |
|---|---|
| `WindowTypeCorrect`, `TransitionCorrect` | `WindowTypeOK`, `TransitionKept` |
| `PaintTypeCorrect` | `PaintTypeOK` |
| `NoBlankCorrect` | `NoBlankTiles` |
| `NeverBackCorrect` | `ScreenNeverGoesBack` (an action property) |
| `ConnectTypeCorrect`, `ServerShownCorrect` | `ConnectTypeOK`, `ConnectedServerShown` |
| `DesktopTypesCorrect` | `TypesOK` of `MCDesktop` |
| `DesktopMachines` | each machine of the run obeys its own specification |

`StackInv` and `UiInv` say which surfaces a UI operation under way may hold and
that the lock's holder is the only one inside.  For the painting, `ImageInv`,
`ShadowInv` and `PaintedInv` relate the frame in the slot, the shadow image and
the screen to the paints CEF made: a frame that is not full builds on what the
one before it left, so a frame may only be dropped when the next is full;
`AgeInv` orders the numbers of the pixels, and `AliveInv` says when the fallback
from the GPU to the SHM worker may begin.  For the connection, `StartInv`,
`AnswersInv` and `LoadedInv` say what each message under way was sent for, and
`SuccessInv` and `EndInv` that a page told of a success is told of the address
that answered, and that its end finds that address loaded and saved.

**The merged runs.**  TLC checks machines together that share no variable, and
the theorems above speak of each alone.  What connects the two is proved as well:
every step of a merged specification is a step of the machine chosen, under which
the variables of the others do not change, and a machine not chosen begins in a
state its own invariant allows.  Hence each machine obeys its own specification
(`PlatformMachines`, `DesktopMachines`, `RuntimeMachines`) and each safety theorem
holds of the run.  Where a machine that rests does so in a state that is not an
initial one, the theorem speaks of the machine chosen.  `TypesOK` is proved as the
run states it: in `MCPlatform` of the machine chosen, in the other two of all at
once, of the one chosen from its theorem's inductive invariant and of the others
because they rest.  `DesktopTypesCorrect` needs that there is an address
(`AddressesAssumption`), since a machine at rest still names one.
`RuntimeTypesCorrect` has the state machine moved by the session while the
coordinator rests.

The theorems say nothing of liveness.

## 5. What is only model-checked

* Liveness, `WaitsEnd` of `runtime_live` and of `desktop`: fairness and ENABLED
  are out of the prover's reach.
* Nothing else: every invariant and action property of a passing run, and the
  refinement, is the statement of a theorem.

## 6. Disagreements and observations

Seven runs find a disagreement between the code and what it says of itself.

1. `session_swallow`: `on_end_file` eats an end whenever `pending_load` is set.
   Load, then stop before `FILE_LOADED`: the cancel of the announced load is
   swallowed and the player stays Starting with nothing in flight.  The comment
   at `state_machine.rs:131` speaks of a fresh load in flight.
2. `session_tracks`: the one pending slot is refilled by a second load before the
   worker has taken it for the first, whose file gets the second's tracks
   (`mpv/api.rs:424` describes tracks applied after their own FILE_LOADED).
3. `app_reset`: the close that starts a reset takes the layer out of the registry
   like any close, so the browser that replaces it is neither closed nor awaited
   at shutdown (`browsers.rs:375`: "force-close every layer's browser and block
   until each OnBeforeClose has fired").
4. `app_early`: a signal between the installation of the signal handler and that
   of the shutdown handler sets the flag and wakes nobody; the browsers close at
   birth and the main thread parks for ever (`shutdown.rs:30`: "invoked exactly
   once on the first call").
5. `settings_geometry`: the worker holds a snapshot made before the exit, the
   main thread saves the new window geometry, the worker writes its old one over
   it.  `app.rs:421` saves first so that "a hang there must not cost the window
   geometry"; the drain is what writes the old state last.
6. `windows_blank`: the event thread calls the fullscreen handler before it
   ingests the value, so the echo of a request is compared with the old value,
   taken for a new request, and begins a transition that no message ends
   (`windows/platform.rs:271`: "never start a second").
7. `menus_stranded`: arming a popup drops a context menu that is not configured
   yet without firing its callback; the slot stays taken and every later context
   menu is cancelled (`browsers.rs:317`: "A browser dying mid-menu must not strand
   the slot").

What modelling and proving also met, without a run of its own:

* **Wayland GPU presenter.**  `submit_frame` replaces a pending full frame by one
  with dirty rectangles only, and `push_pixels` drops the upload texture when the
  size changes and draws only those: tiles stay blank.  It needs four paints; the
  proof of `ScreenNeverGoesBack` asked for a fact that is false here, and the run
  had a bound of three.  The workers of X11, GPU and SHM, replace a pending
  frame in the same way (`x11/gpu_paint_worker.rs:137`,
  `x11/shm_paint_worker.rs:110`) and may leave tiles blank after a resize as
  well; only the SHM worker of Wayland then copies the whole frame
  (`NeedsFull`), and `NoBlankTiles` speaks of it alone.  `ScreenNeverGoesBack`
  excepts only the GPU worker of Wayland, which may drop its texture and then
  present nothing; the GPU worker of X11 fails for good instead, and the SHM
  workers draw over what the screen shows.
* **Server connect.**  `mainLoaded` stays set after a failed automatic attempt,
  so another address dismisses the overlay over the old page (`overlay.js:15`).
  Escape during the fade-out resets the main browser and leaves it blank.  After
  a cancel the layer pointer is null and the dismissal never gives the main
  browser the input.  A cancelled HEAD still issues the GET, which is kept
  nowhere; a late completion clears the slot of a newer probe; a cancel by the
  user also shows the failure; a cancel while the browser is being created again
  is ignored and the pending URL still loads.
* **Boot.**  On Wayland a configure between the VO wait's read of the size and
  the registration of the size handler is lost until the next one
  (`BrowsersHaveSize` excepts it); `set_scale` reads and writes the size in two
  critical sections; the wait for a saved maximized state never ends if it is not
  granted; a failed boot returns without terminating the handle.
* **X11, asleep over events.**  `geometry.rs:3` says that "Running timer-free is
  only safe because every change class emits an event on a window we watch".  The
  event is not enough.  The thread sleeps in `libc::poll` on the socket (388)
  directly after `reconcile` (443) and calls `poll_for_event` only once that
  wakes, but the replies `reconcile` waits for (151-156, 171, 194) make x11rb
  read the socket and keep the events before them, which then no longer make it
  readable.  In the instance of `platform`, with an overlay in place: a look at
  the parent; the parent moves; the next reply takes its `ConfigureNotify` off
  the socket; the overlay is where the look puts it, so nothing is asked for,
  and the thread sleeps with the overlay out of place.  A pass that does move an
  overlay is woken by that overlay's own notice and recovers, so it is the last
  event of a series that is lost, until any later event, a new overlay, a
  callback of mpv's fullscreen flag or a resize of an overlay wakes the thread.
  A minimize, a change of `_NET_WM_STATE` or a placement of an overlay by the
  window manager may be kept in the same way.  A poll of the queue before
  sleeping would cure it.  It has no run of its own; `OverlaysKeepUp` says what
  holds nevertheless.
* **X11.**  A placement by the window manager between `query_geometry` and
  `watch_window` is noticed by nobody (`geometry.rs:3`); `Clamp` is assumed not to
  fall there.  A worker's dmabuf gate may capture the current size.
* **macOS.**  The pump's timer has interval 0.0 and is invalidated when it first
  fires, so later delays are not timed (`cef_pump.rs:4`); `restart_display_link`
  keeps a dead link when a wake finds no screen, and a window moved without a
  notification keeps the link of its old display; closures dispatched for a
  resize hold raw surface pointers; the transition gate is never begun.
* **Wayland proxy.**  A popup's surface may be given a new role while it still
  has a buffer; an output re-created by mpv is not demoted again; indices are taken
  in threads of the connections, which "lockstep" (`wlproxy/lib.rs`) does not
  order: `IndexNamesDisplay` holds unless connections raced.
* **Windows.**  A surface that becomes the main one during a transition may show
  its earlier frame while the gate is closed; hence `MainStaysHidden` speaks of
  new frames.
* **Logging.**  `jfn_log_shutdown` has no caller; a failed rotation is retried by
  the next write, each time removing the oldest backup.
* **Theme colour.**  A colour applied inline overtakes a queued one on macOS.

## 7. What is not modelled

* Data the control does not read: titles, artwork, durations, sizes in pixels
  where only equality matters, colours, texts.
* Locks held for a single step, which make the step atomic; the memory lifetime
  of raw layer pointers (the hazards name the places).
* mpv, CEF, the compositors and window managers beyond what their callers rely
  on; they are the environment of the modules, marked external in the map.
* Coordinator: registration of sinks and the browser events that only forward.
  Session: seek, volume, OSD and hotkey commands.
* Media session: macOS metadata while stopped, the pending rate of MPRIS, set-up,
  failure and restart of a transport, the commands it receives.
* Menus: scrolling, highlight and keys of a popup, painting, other platforms.
* Painting: the JavaScript frame driver; formats, strides and wgpu's set-up.
  `CefPaint` stores the four atomics of a size in one step; a reader that gets
  the width of one size and the height of another is not modelled.
* Wayland: decorations, palettes, pointer and keyboard serials, seats, layer
  visibility.  X11: the visibility asked of a single layer (`snap.visible`,
  `geometry.rs:299`), the dmabuf tier, activation of the parent, detection of a
  compositor.  Windows and macOS: input, DPI, AppKit and Metal calls.
* Boot: options, RTX and log events, the resize when the saved scale differs.
* Log: filters, formats, redaction, the console of Windows.
* Connect: dialog, form, normalization of addresses and their base.
* Input and cursor routing, window geometry, theme colour, updater, command
  line, device profile: values and conversions, or plain I/O.

## 8. Plan

1. **Models**: the theme colour with its two writers, the seat and pointer routing
   of Wayland, the updater's replacement of files.
