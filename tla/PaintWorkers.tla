---------------------------- MODULE PaintWorkers ----------------------------
(***************************************************************************)
(* The presenter workers that put CEF's software frames on one surface: a   *)
(* painter thread hands dirty pixels over through a one-frame queue, and a  *)
(* worker thread keeps an image of the page and presents it.                *)
(*                                                                          *)
(* Four presenters differ in what a frame carries and what the worker       *)
(* keeps: wl_shm (a shadow copy, full frames when the size changes),        *)
(* x11_shm (the window itself), wl_gpu (an upload texture) and x11_gpu (the *)
(* same, replaced for good by an x11_shm worker once it has failed).        *)
(* Pixels are the number of the paint that drew them; 0 is blank.           *)
(***************************************************************************)
EXTENDS Naturals, FiniteSets

CONSTANTS
    Presenters, \* the presenters of this instance
    Tiles,      \* the parts of a page a dirty rectangle can cover
    FrameSizes, \* sizes of a frame
    MaxPaints,  \* bound: paints of the page
    MaxGates,   \* bound: transitions that gate the painting
    NoFrame     \* no frame

ASSUME PaintAssumption ==
    /\ Presenters \subseteq {"wl_shm", "x11_shm", "wl_gpu", "x11_gpu"}
    /\ IsFiniteSet(Tiles) /\ Tiles # {}
    /\ FrameSizes \subseteq Nat \ {0}
    /\ MaxPaints \in Nat /\ MaxGates \in Nat

VARIABLES
    presenter, \* which of the presenters serves the surface
    page,      \* what CEF has painted: [size, tiles]
    submit,    \* the painter between the two critical sections of submit_frame
    queue,     \* per worker: WorkerState
    thread,    \* per worker: its program counter, the frame in hand, its image
    gpuFailed, \* the latch of the x11_gpu worker
    screen,    \* what the surface shows
    surface,   \* "alive", "freeing", "gone"
    gated,     \* present_mode Drop: the platform drops what CEF paints
    paintUsed  \* history: paints and gates so far, and whether a gate dropped a frame

paintVars == <<presenter, page, submit, queue, thread, gpuFailed, screen, surface, gated, paintUsed>>

Workers == {"shm", "gpu"}
Blank(n) == [size |-> n, tiles |-> [t \in Tiles |-> 0]]
Frame == [to : Workers, size : FrameSizes, dirty : SUBSET Tiles, full : BOOLEAN,
          tiles : [Tiles -> Nat]]

(* Mutant of Target: a busy GPU worker is passed over. *)
TargetNotBusy ==
    IF presenter = "wl_gpu" \/ (presenter = "x11_gpu" /\ thread["gpu"].pc # "present") THEN "gpu" ELSE "shm"

(* The worker a paint is handed to: SHM once the GPU worker has failed. *)
Target == IF presenter = "wl_gpu" \/ (presenter = "x11_gpu" /\ ~gpuFailed) THEN "gpu" ELSE "shm"

Draw(image, f, ts) == [image EXCEPT !.tiles = [t \in Tiles |-> IF t \in ts THEN f.tiles[t] ELSE @[t]]]
Fitted(image, n) == IF image.size = n THEN image ELSE Blank(n)

PaintInit ==
    /\ presenter \in Presenters
    /\ page = Blank(0)
    /\ submit = NoFrame
    /\ queue = [w \in Workers |-> [pending |-> NoFrame, frameSize |-> 0, visible |-> TRUE,
                                   shutdown |-> FALSE]]
    /\ thread = [w \in Workers |-> [pc |-> "none", hand |-> NoFrame, image |-> Blank(0)]]
    /\ gpuFailed = FALSE
    /\ screen = Blank(0)
    /\ surface = "alive"
    /\ gated = FALSE
    /\ paintUsed = [paints |-> 0, gates |-> 0, dropped |-> FALSE]

WakeWorker(th, w) == IF th[w].pc = "wait" THEN [th EXCEPT ![w].pc = "check"] ELSE th

-----------------------------------------------------------------------------
(* The painter: CEF's UI thread under the state mutex of the platform. *)

(* Mutant of NeedsFull: a full frame not yet taken is forgotten. *)
NeedsFullResized(n) == presenter = "wl_shm" /\ queue["shm"].frameSize # n

(* CEF repaints some tiles, all of them after a resize.  Frames painted    *)
(* while the platform drops them never reach the worker.  Otherwise the    *)
(* worker is made at need, and the first section of submit_frame decides   *)
(* whether the whole frame is copied.                                      *)
NeedsFull(n) ==
    presenter = "wl_shm" /\ \/ queue["shm"].frameSize # n
                            \/ queue["shm"].pending # NoFrame /\ queue["shm"].pending.full

Paint(n, dirty) ==
    /\ surface = "alive" /\ submit = NoFrame
    /\ paintUsed.paints < MaxPaints
    /\ dirty # {} /\ (n # page.size => dirty = Tiles)
    /\ LET now == paintUsed.paints + 1
           painted == [size |-> n, tiles |-> [t \in Tiles |-> IF t \in dirty THEN now ELSE page.tiles[t]]]
       IN  /\ page' = painted
           /\ submit' = IF gated THEN NoFrame
                        ELSE [to |-> Target, size |-> n, dirty |-> dirty, full |-> NeedsFull(n),
                              tiles |-> painted.tiles]
           /\ paintUsed' = [paintUsed EXCEPT !.paints = now, !.dropped = @ \/ gated]
    /\ IF gated
       THEN UNCHANGED <<queue, thread>>
       ELSE /\ thread' = [WakeWorker(thread, Target) EXCEPT
                            ![Target].pc = IF @ = "none" THEN "check" ELSE @]
            /\ queue' = [queue EXCEPT ![Target].visible = TRUE]
    /\ UNCHANGED <<presenter, gpuFailed, screen, surface, gated>>

(* Mutant of Submit: the worker is not woken. *)
SubmitSilently ==
    /\ submit # NoFrame
    /\ queue' = [queue EXCEPT ![submit.to].pending = submit, ![submit.to].frameSize = submit.size]
    /\ submit' = NoFrame
    /\ UNCHANGED <<presenter, page, thread, gpuFailed, screen, surface, gated, paintUsed>>

(* The second section stores the frame, in place of one not yet taken; a   *)
(* worker that failed in between is given it all the same.                 *)
Submit ==
    /\ submit # NoFrame
    /\ LET w == submit.to
       IN  /\ queue' = [queue EXCEPT ![w].pending = submit, ![w].frameSize = submit.size]
           /\ thread' = WakeWorker(thread, w)
    /\ submit' = NoFrame
    /\ UNCHANGED <<presenter, page, gpuFailed, screen, surface, gated, paintUsed>>

(* begin_transition gates the worker; the SHM worker of Wayland loses the  *)
(* frame it has not taken.                                                 *)
Gate ==
    /\ presenter \in {"wl_shm", "wl_gpu"}
    /\ surface = "alive" /\ submit = NoFrame
    /\ ~gated /\ paintUsed.gates < MaxGates
    /\ queue' = [w \in Workers |-> IF thread[w].pc = "none" THEN queue[w]
                                   ELSE [queue[w] EXCEPT !.visible = FALSE,
                                                         !.pending = IF w = "shm" THEN NoFrame ELSE @]]
    /\ thread' = WakeWorker(thread, Target)
    /\ gated' = TRUE
    /\ paintUsed' = [paintUsed EXCEPT !.gates = @ + 1, !.dropped = TRUE]
    /\ UNCHANGED <<presenter, page, submit, gpuFailed, screen, surface>>

(* end_transition opens the worker again; a configure leaves it gated until *)
(* the next paint.                                                          *)
Ungate ==
    /\ gated /\ surface = "alive"
    /\ gated' = FALSE
    /\ \/ queue' = [queue EXCEPT ![Target].visible = TRUE] /\ thread' = WakeWorker(thread, Target)
       \/ UNCHANGED <<queue, thread>>
    /\ UNCHANGED <<presenter, page, submit, gpuFailed, screen, surface, paintUsed>>

(* free_surface: every worker is told to stop, and joined. *)
StopWorkers ==
    /\ surface = "alive" /\ submit = NoFrame
    /\ surface' = "freeing"
    /\ queue' = [w \in Workers |-> [queue[w] EXCEPT !.shutdown = TRUE, !.pending = NoFrame]]
    /\ thread' = [w \in Workers |-> WakeWorker(thread, w)[w]]
    /\ UNCHANGED <<presenter, page, submit, gpuFailed, screen, gated, paintUsed>>

JoinWorker ==
    /\ surface = "freeing"
    /\ \A w \in Workers : thread[w].pc \in {"none", "ended"}
    /\ surface' = "gone"
    /\ UNCHANGED <<presenter, page, submit, queue, thread, gpuFailed, screen, gated, paintUsed>>

-----------------------------------------------------------------------------
(* The worker threads. *)

PresentOthers == <<presenter, page, submit, surface, gated, paintUsed>>

(* One pass over the condition: sleep, end, or take the frame, which a     *)
(* gated worker throws away.                                               *)
Check(w) ==
    /\ thread[w].pc = "check"
    /\ thread' = [thread EXCEPT ![w] =
           IF queue[w].shutdown THEN [@ EXCEPT !.pc = "ended"]
           ELSE IF queue[w].pending = NoFrame THEN [@ EXCEPT !.pc = "wait"]
           ELSE IF queue[w].visible THEN [@ EXCEPT !.pc = "present", !.hand = queue[w].pending]
           ELSE @]
    /\ queue' = [queue EXCEPT ![w].pending = NoFrame]
    /\ UNCHANGED <<gpuFailed, screen>> /\ UNCHANGED PresentOthers

Done(w, image) ==
    thread' = [thread EXCEPT ![w] = [pc |-> "check", hand |-> NoFrame, image |-> image]]

(* The SHM worker of Wayland draws into its shadow and commits a copy of it. *)
PresentShadow ==
    /\ presenter = "wl_shm" /\ thread["shm"].pc = "present"
    /\ LET f == thread["shm"].hand
           image == Draw(Fitted(thread["shm"].image, f.size), f, IF f.full THEN Tiles ELSE f.dirty)
       IN  screen' = image /\ Done("shm", image)
    /\ UNCHANGED <<queue, gpuFailed>> /\ UNCHANGED PresentOthers

(* The SHM worker of X11 puts the dirty rectangles into the window. *)
PutRectangles ==
    /\ presenter \in {"x11_shm", "x11_gpu"} /\ thread["shm"].pc = "present"
    /\ LET f == thread["shm"].hand
       IN  screen' = Draw(Fitted(screen, f.size), f, f.dirty) /\ Done("shm", Blank(0))
    /\ UNCHANGED <<queue, gpuFailed>> /\ UNCHANGED PresentOthers

(* push_pixels: the dirty rectangles go into the texture, which is then    *)
(* presented, unless no swapchain image comes.                             *)
PushPixels ==
    /\ thread["gpu"].pc = "present"
    /\ LET f == thread["gpu"].hand
           image == Draw(Fitted(thread["gpu"].image, f.size), f, f.dirty)
       IN  \/ screen' = image /\ Done("gpu", image)
           \/ screen' = screen /\ presenter = "wl_gpu" /\ Done("gpu", image)
    /\ UNCHANGED <<queue, gpuFailed>> /\ UNCHANGED PresentOthers

(* The swapchain cannot be made, or on X11 an image not be had: the frame is *)
(* gone, and on X11 so is the worker.                                        *)
GpuFails ==
    /\ thread["gpu"].pc = "present"
    /\ IF presenter = "x11_gpu"
       THEN gpuFailed' = TRUE /\ thread' = [thread EXCEPT !["gpu"].pc = "ended", !["gpu"].hand = NoFrame]
       ELSE /\ thread["gpu"].image.size = 0
            /\ gpuFailed' = gpuFailed /\ Done("gpu", Blank(0))
    /\ UNCHANGED <<queue, screen>> /\ UNCHANGED PresentOthers

PainterStep(w) ==
    \/ Check(w)
    \/ w = "shm" /\ (PresentShadow \/ PutRectangles)
    \/ w = "gpu" /\ (PushPixels \/ GpuFails)

PaintNext ==
    \/ \E n \in FrameSizes, dirty \in SUBSET Tiles : Paint(n, dirty)
    \/ Submit \/ Gate \/ Ungate \/ StopWorkers \/ JoinWorker
    \/ \E w \in Workers : PainterStep(w)

(* A thread that can run does; CEF paints when it likes. *)
PaintFairness ==
    /\ WF_paintVars(Submit) /\ WF_paintVars(JoinWorker)
    /\ \A w \in Workers : WF_paintVars(PainterStep(w))

PaintSpec == PaintInit /\ [][PaintNext]_paintVars /\ PaintFairness

-----------------------------------------------------------------------------
Image == [size : FrameSizes \cup {0}, tiles : [Tiles -> Nat]]

PaintTypeOK ==
    /\ presenter \in Presenters
    /\ page \in Image /\ screen \in Image
    /\ submit \in Frame \cup {NoFrame}
    /\ queue \in [Workers -> [pending : Frame \cup {NoFrame}, frameSize : FrameSizes \cup {0},
                              visible : BOOLEAN, shutdown : BOOLEAN]]
    /\ thread \in [Workers -> [pc : {"none", "check", "wait", "present", "ended"},
                               hand : Frame \cup {NoFrame}, image : Image]]
    /\ gpuFailed \in BOOLEAN
    /\ surface \in {"alive", "freeing", "gone"}
    /\ gated \in BOOLEAN
    /\ paintUsed \in [paints : Nat, gates : Nat, dropped : BOOLEAN]

(* Where no transition dropped a frame, the Wayland SHM worker never shows  *)
(* a blank tile of a page that was painted in full: a dirty-only frame does *)
(* not replace the full frame it builds on.                                 *)
NoBlankTiles ==
    presenter = "wl_shm" /\ ~paintUsed.dropped /\ screen.size # 0
        => \A t \in Tiles : screen.tiles[t] > 0

(* A presenter never puts older pixels over newer ones of the same size.   *)
(* The GPU worker of Wayland may put none at all: where the swapchain was   *)
(* busy, its texture may be new and the frame it has just the dirty part.   *)
ScreenNeverGoesBack ==
    [][screen'.size = screen.size =>
         \A t \in Tiles : screen'.tiles[t] >= screen.tiles[t]
                         \/ (presenter = "wl_gpu" /\ screen'.tiles[t] = 0)]_paintVars
=============================================================================
