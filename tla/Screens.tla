--------------------------------- MODULE Screens ---------------------------------
(***************************************************************************)
(* What the screens of the clients show: the layout of the surfaces of an  *)
(* RDP session (LayoutManager), its mouse pointer (CursorRenderer), the    *)
(* stream and the framebuffer of a VNC session (VncStream) and the thread  *)
(* that copies pixels for both (EglThread).  A behaviour is one of them,   *)
(* as its scenario says: they share no state but the EGL thread, of which  *)
(* VncStream uses what EglThread promises.                                 *)
(***************************************************************************)
EXTENDS Naturals, Sequences, FiniteSets

CONSTANTS
  Scenarios,                                                    \* those that are looked at
  Modes, Configs, Sizes, NoConfig, NStreams, MaxConfigs, MaxCloses, \* of LayoutManager
  Shape, CacheSize, MaxUpdates,                                 \* of CursorRenderer
  Slot, TaskKinds, MaxTasks,                                    \* of EglThread
  PwBuffer, NoBuffer, FrameSizes, MaxFormats, MaxProcess, CalmSizes \* of VncStream

ASSUME ScreensAssumption ==
  /\ Scenarios \subseteq {"layout", "cursor", "egl", "vnc"}
  /\ Modes \subseteq BOOLEAN
  /\ Sizes \subseteq Nat \ {0}
  /\ Configs \subseteq Seq(Sizes) \ {<<>>} /\ NoConfig \notin Configs
  /\ FALSE \in Modes => \E c \in Configs : Len(c) = 1
  /\ NStreams \in Nat \ {0} /\ \A c \in Configs : Len(c) < NStreams
  /\ {MaxConfigs, MaxCloses, MaxUpdates, MaxTasks, MaxFormats, MaxProcess} \subseteq Nat
  /\ Shape \cap {"none", "default", "hidden", "transparent", "large"} = {}
  /\ CacheSize \in Nat \ {0} /\ "none" \notin Slot
  /\ TaskKinds \subseteq {"download", "upload", "allocate", "deallocate", "sync", "custom"}
  /\ IsFiniteSet(Slot) /\ IsFiniteSet(PwBuffer) /\ NoBuffer \notin PwBuffer
  /\ FrameSizes \subseteq Nat \ {0} /\ 1 \in FrameSizes /\ CalmSizes \in BOOLEAN

\* Small layouts for Configs: one monitor or two, of two sizes.
SmallConfigs == {<<1>>, <<2>>, <<1, 2>>}

VARIABLES
  scenario,
  virtual, state, started, current, pending, update, dispatching, preparation, recreation,
  surfaces, pendingStreams, pendingSizes, nextId, gate, submitted, closes,
  ready, cursorUpdate, waking, armed, rendering, system, cache, recent, currentCursor,
  clientCache, shown, latest, updates,
  egl, tasks, queue, content, user, running, idle,
  stream, dma, bufs, dequeued, locked, waitsFor, slotTask, download, releasing, frame,
  pointer, format, screen, resize, encodings, rfbClient, dequeuing, formats, processed

L == INSTANCE LayoutManager
C == INSTANCE CursorRenderer WITH update <- cursorUpdate, current <- currentCursor
E == INSTANCE EglThread
V == INSTANCE VncStream

layoutVars == <<virtual, state, started, current, pending, update, dispatching, preparation,
                recreation, surfaces, pendingStreams, pendingSizes, nextId, gate, submitted,
                closes>>
cursorVars == <<ready, cursorUpdate, waking, armed, rendering, system, cache, recent,
                currentCursor, clientCache, shown, latest, updates>>
eglVars == <<egl, tasks, queue, content, user, running, idle>>
vncVars == <<stream, dma, bufs, dequeued, locked, waitsFor, slotTask, download, releasing,
             frame, pointer, format, screen, resize, encodings, rfbClient, dequeuing, formats,
             processed>>
vars == <<scenario, layoutVars, cursorVars, eglVars, vncVars>>

Init ==
  /\ scenario \in Scenarios
  /\ L!Init /\ C!Init /\ E!Init /\ V!Init
  /\ scenario # "layout" => virtual = CHOOSE m \in Modes : TRUE
  /\ scenario # "vnc" => dma

OfLayout == scenario = "layout" /\ UNCHANGED <<scenario, cursorVars, eglVars, vncVars>>
OfCursor == scenario = "cursor" /\ UNCHANGED <<scenario, layoutVars, eglVars, vncVars>>
OfEgl == scenario = "egl" /\ UNCHANGED <<scenario, layoutVars, cursorVars, vncVars>>
OfVnc == scenario = "vnc" /\ UNCHANGED <<scenario, layoutVars, cursorVars, eglVars>>

Next ==
  \/ OfLayout /\ L!Next
  \/ OfCursor /\ C!Next
  \/ OfEgl /\ E!Next
  \/ OfVnc /\ V!Next

Spec == Init /\ [][Next]_vars

\* What a scenario counts on: the main loop dispatches a source that is ready,
InMainLoop ==
  \/ OfLayout /\ L!UpdateMonitorLayout /\ UNCHANGED virtual
  \/ OfVnc /\ V!RenderFrame

\* another thread goes on when it can, or comes to rest (InhibitionGranted of Renderer),
InOtherThreads ==
  \/ OfLayout /\ L!InhibitionDone /\ UNCHANGED virtual
  \/ OfCursor /\ (C!Wake \/ C!Dispatch \/ C!RenderCursor)
  \/ OfEgl /\ (E!Dispatch \/ E!RunTask)
  \/ OfVnc /\ V!EglThread

\* and the display server starts the session and exchanges the buffers of a format, which a
\* stream that ends awaits, too.
FromDisplayServer ==
  \/ OfLayout /\ L!SessionStarted /\ UNCHANGED virtual
  \/ OfVnc /\ V!StreamGoesOn

\* A scenario is fixed, so that each of these is about one of them at a time.  In the layout,
\* whatever else is due comes between two dispatches, hence strong fairness; a stream that
\* was asked for is created and, unless it closes, gets a size.  Nobody has to submit
\* anything, to queue a task or to leave.
Fairness ==
  /\ WF_vars(InMainLoop) /\ WF_vars(InOtherThreads) /\ WF_vars(FromDisplayServer)
  /\ SF_vars(OfLayout /\ L!Dispatch /\ UNCHANGED virtual)
  /\ SF_vars(OfLayout /\ L!FinishPreparation /\ UNCHANGED virtual)
  /\ SF_vars(OfLayout /\ L!RecreateLayout /\ UNCHANGED virtual)
  /\ \A id \in L!Stream :
       SF_vars(OfLayout /\ (L!StreamCreated(id) \/ L!StreamReady(id)) /\ UNCHANGED virtual)
  /\ \A id \in L!Stream :
       SF_vars(OfLayout /\ id \in pendingSizes /\ L!SizeArrives(id) /\ UNCHANGED virtual)

FairSpec == Spec /\ Fairness

-----------------------------------------------------------------------------
(* Properties *)

TypeOK == L!TypeOK /\ C!TypeOK /\ E!TypeOK /\ V!TypeOK

\* Events of the layout meet a state that expects them, and rendering goes on with the
\* layout asked for (grd-rdp-layout-manager.c).
LayoutSound == L!LayoutSound

\* Surfaces come and go, and virtual ones are resized, only while rendering is inhibited.
SurfacesChangeWhenQuiet == L!SurfacesChangeWhenQuiet

\* Pixels that are copied on another thread: every task of the EGL thread ends once and in
\* order, a stream that waited for a sync task leaves nothing behind in the queue
\* (grd-egl-thread.c:209-238), and a DMA-BUF of a VNC session is locked until it is queued,
\* and queued once, whether its download ran, failed or was replaced
\* (grd-vnc-pipewire-stream.c:751-777).
PixelsHeld == E!TasksOnce /\ E!SlotsLive /\ V!DownloadsHold

\* What the client shows is what the server believes: in its cache of pointers, where the
\* pointer on the screen is the last to lose its slot (grd-rdp-cursor-renderer.c:344-424),
\* and in the size of its framebuffer, which follows the stream once the client's encodings
\* are known (grd-session-vnc.c:142-161).
ClientsAgree == C!CacheAgrees /\ C!ShownIsRecent /\ V!ScreenFollowsStream

\* Pixels are held until they are copied, and what is shown is what was sent.
PicturesSound == PixelsHeld /\ ClientsAgree

\* Every layout change comes to its end and no monitor config is forgotten; the client gets
\* the last pointer, every task of the EGL thread ends, and a stream delivers its frames and
\* its buffers are exchanged, or it is gone.
ScreensSettle ==
  /\ L!LayoutsSettle
  /\ []<>(C!CursorShown /\ E!TasksEnd /\ V!StreamSettled)

\* maybe_invoke_layout_recreation: a stream that closed is recorded by another one, see
\* LayoutManager.
ClosedStreamReplaced == L!ClosedStreamReplaced
================================================================================
