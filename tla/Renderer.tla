-------------------------------- MODULE Renderer --------------------------------
(***************************************************************************)
(* GrdRdpRenderer (src/src/grd-rdp-renderer.c): frames on their way from   *)
(* the surface renderers through the view creators and the encoders to the *)
(* graphics pipeline, and the gates that stop this flow so that another    *)
(* thread may change what the frames use.                                  *)
(*                                                                         *)
(* The graphics thread dispatches the sources of its main context, one at  *)
(* a time; render_surfaces is four steps, since what it reads changes      *)
(* under it.  A view creator and an encode session finish their frame in a *)
(* thread of their own.  The session's main thread inhibits rendering to   *)
(* change the layout and stops it for good; the FreeRDP thread suppresses  *)
(* the output and asks for a protocol reset.                               *)
(*                                                                         *)
(* Whether a view is damaged, and every failure of a device, is a choice.  *)
(* A surface has one buffer pending or none: the buffers themselves are    *)
(* the subject of SurfaceRenderer.                                         *)
(***************************************************************************)
EXTENDS Integers, FiniteSets

CONSTANTS
  Surface,   \* GrdRdpSurfaces; one that was disposed may be acquired again
  Frame,     \* GrdRdpFrames; one that was freed may be used again
  SurfaceOf, \* the surface a frame belongs to for its life
  NoFrame,   \* no frame holds the resource
  Slots,     \* total_frame_slots of every surface
  MaxAdverts \* CapsAdvertise PDUs of the client, a bound of the model

ASSUME RendererAssumption ==
  /\ IsFiniteSet(Surface) /\ IsFiniteSet(Frame)
  /\ SurfaceOf \in [Frame -> Surface]
  /\ NoFrame \notin Frame
  /\ Slots \in Nat \ {0}
  /\ MaxAdverts \in Nat \ {0}

\* stop_rendering, rendering_inhibited, pending_gfx_init, output_suppressed
Gate == {"stop", "inhibit", "init", "suppress"}

VARIABLES
  closed,       \* the gates that are shut
  failed,       \* graphics_subsystem_failed
  resetPending, \* pending_gfx_graphics_reset
  contexts,     \* the keys of render_context_table
  refs,         \* acquired_render_contexts: its counts, 0 if there is no entry
  stage,        \* where each frame is
  viewer,       \* the frame that acquired the view creator of each surface
  encoder,      \* the frame that acquired the encode session of each surface
  render,       \* surface_render_source is ready
  phase,        \* where the graphics thread is
  wanted,       \* surfaces with a pending buffer
  armed,        \* surfaces whose render source is ready
  disposal,     \* disposal_queue
  caps,         \* cap_sets of the graphics pipeline await reset_protocol
  adverts,      \* CapsAdvertise PDUs so far
  initable,     \* protocol_reset_source is ready
  stopper,      \* the main thread in stop_rendering
  layout,       \* the main thread in the layout manager
  prepare       \* preparation_source of the layout manager is ready

frameVars == <<stage, viewer, encoder>>
sourceVars == <<render, wanted, armed, disposal>>
resetVars == <<caps, adverts, initable>>
mainVars == <<stopper, layout, prepare>>
vars == <<closed, failed, resetPending, contexts, refs, frameVars, sourceVars,
          resetVars, mainVars, phase>>

--------------------------------------------------------------------------------
(* Helpers. *)

Idle == \A s \in Surface : refs[s] = 0

In(s, stages) == {f \in Frame : stage[f] \in stages /\ SurfaceOf[f] = s}
At(stages) == {f \in Frame : stage[f] \in stages}

\* Mutant: a surface is not triggered when a slot is free again.
Freed_NoTrigger(F) ==
  /\ stage' = [f \in Frame |-> IF f \in F THEN "finalized" ELSE stage[f]]
  /\ armed' = armed

\* grd_rdp_frame_free: the frame's slot is free again, its surface is triggered,
\* and its reference to the render context is queued to be dropped.
Freed(F) == /\ stage' = [f \in Frame |-> IF f \in F THEN "finalized" ELSE stage[f]]
            /\ armed' = armed \cup {SurfaceOf[f] : f \in F}

\* release_acquired_resource, for the frames F.
Released(resource, F) ==
  [s \in Surface |-> IF resource[s] \in F THEN NoFrame ELSE resource[s]]

\* The frame of F that acquires the resource of s now, if there is one.
Acquirer(resource, s, F) ==
  LET own == {f \in F : SurfaceOf[f] = s}
  IN  IF own = {} THEN resource[s] ELSE CHOOSE f \in own : TRUE

UsedSlots(s) ==
  Cardinality(In(s, {"creating", "viewed", "encoding", "encoded", "rendered"}))

\* handle_graphics_subsystem_failure
Fail == failed' = TRUE /\ closed' = closed \cup {"stop"}
NoFail == UNCHANGED <<failed, closed>>

\* Mutant: a signal is sent before the last context is released.
SignalIdle_Early(gates, idle) ==
  /\ prepare' = (prepare \/ "inhibit" \in gates)
  /\ initable' = (initable \/ (idle /\ "init" \in gates))

\* What is signalled when the last context is released, by who finds it so.
SignalIdle(gates, idle) ==
  /\ prepare' = (prepare \/ (idle /\ "inhibit" \in gates))
  /\ initable' = (initable \/ (idle /\ "init" \in gates))

Init ==
  /\ closed = {"init"}
  /\ failed = FALSE
  /\ resetPending = FALSE
  /\ contexts = {}
  /\ refs = [s \in Surface |-> 0]
  /\ stage = [f \in Frame |-> "none"]
  /\ viewer = [s \in Surface |-> NoFrame]
  /\ encoder = [s \in Surface |-> NoFrame]
  /\ render = FALSE
  /\ phase = "idle"
  /\ wanted = {}
  /\ armed = {}
  /\ disposal = {}
  /\ caps = FALSE
  /\ adverts = 0
  /\ initable = FALSE
  /\ stopper = "running"
  /\ layout = "idle"
  /\ prepare = FALSE

--------------------------------------------------------------------------------
(* The graphics thread: the sources of the surface renderers. *)

\* try_acquire_render_context, when no gate is shut: a pending reset clears the
\* render contexts first; a context that is missing is created, or the graphics
\* subsystem fails.
Acquire(s, ok) ==
  LET kept == IF resetPending THEN {} ELSE contexts IN
  /\ resetPending' = FALSE
  /\ ok \/ s \notin kept
  /\ contexts' = IF ok THEN kept \cup {s} ELSE kept
  /\ refs' = IF ok THEN [refs EXCEPT ![s] = @ + 1] ELSE refs
  /\ IF ok THEN NoFail ELSE Fail

\* maybe_render_frame of surface s, when it prepares no frame.
RenderNothing(s) ==
  /\ phase = "idle"
  /\ s \in armed
  /\ s \notin wanted \/ UsedSlots(s) >= Slots \/ closed # {}
  /\ armed' = armed \ {s}
  /\ UNCHANGED <<closed, failed, resetPending, contexts, refs, frameVars, render,
                 wanted, disposal, resetVars, mainVars, phase>>

\* maybe_render_frame and submit_frame: the new frame replaces one that is queued.
RenderFrame(s) ==
  /\ phase = "idle"
  /\ s \in armed
  /\ s \in wanted
  /\ UsedSlots(s) < Slots
  /\ closed = {}
  /\ UNCHANGED <<viewer, encoder, disposal, resetVars, mainVars, phase>>
  /\ \/ /\ Acquire(s, FALSE)
        /\ armed' = armed \ {s}
        /\ UNCHANGED <<stage, render, wanted>>
     \/ /\ Acquire(s, TRUE)
        /\ \E f \in In(s, {"none"}) :
             /\ stage' = [g \in Frame |->
                            CASE g = f -> "queued"
                              [] g \in In(s, {"queued"}) -> "finalized"
                              [] OTHER -> stage[g]]
        /\ armed' = IF In(s, {"queued"}) = {} THEN armed \ {s} ELSE armed
        /\ wanted' = wanted \ {s}
        /\ render' = TRUE

\* maybe_upgrade_frame and queue_prepared_frame: the frame has its view already.
\* The disposal source is older than those of the surface, so it goes first.
UpgradeFrame(s) ==
  /\ phase = "idle"
  /\ s \notin wanted /\ s \notin disposal
  /\ UsedSlots(s) = 0
  /\ closed = {}
  /\ resetPending' = FALSE
  /\ \/ /\ resetPending
        /\ contexts' = {}
        /\ UNCHANGED <<refs, frameVars, render>>
     \/ /\ ~resetPending
        /\ s \in contexts
        /\ \E f \in In(s, {"none"}) :
             /\ stage' = [stage EXCEPT ![f] = "viewed"]
             /\ viewer' = [viewer EXCEPT ![s] = f]
        /\ refs' = [refs EXCEPT ![s] = @ + 1]
        /\ render' = TRUE
        /\ UNCHANGED <<contexts, encoder>>
  /\ UNCHANGED <<closed, failed, wanted, armed, disposal, resetVars, mainVars, phase>>

\* Mutant: only the context that was released is looked at.
UnrefObjects_OwnContext(s) ==
  /\ phase = "idle"
  /\ In(s, {"finalized"}) # {}
  /\ stage' = [f \in Frame |-> IF f \in In(s, {"finalized"}) THEN "none" ELSE stage[f]]
  /\ refs' = [refs EXCEPT ![s] = @ - Cardinality(In(s, {"finalized"}))]
  /\ stopper' = IF stopper = "asleep" /\ "stop" \in closed THEN "woken" ELSE stopper
  /\ SignalIdle(closed, refs'[s] = 0)
  /\ UNCHANGED <<closed, failed, resetPending, contexts, viewer, encoder,
                 sourceVars, caps, adverts, layout, phase>>

\* Mutant: what is released stays in the queue.
UnrefObjects_Peeks(s) ==
  /\ phase = "idle"
  /\ In(s, {"finalized"}) # {}
  /\ refs' = [refs EXCEPT ![s] = @ - Cardinality(In(s, {"finalized"}))]
  /\ stopper' = IF stopper = "asleep" /\ "stop" \in closed /\ Idle' THEN "woken" ELSE stopper
  /\ SignalIdle(closed, Idle')
  /\ UNCHANGED <<closed, failed, resetPending, contexts, stage, viewer, encoder,
                 sourceVars, caps, adverts, layout, phase>>

\* unref_objects: release_render_context for every frame that was freed.
UnrefObjects(s) ==
  /\ phase = "idle"
  /\ In(s, {"finalized"}) # {}
  /\ stage' = [f \in Frame |-> IF f \in In(s, {"finalized"}) THEN "none" ELSE stage[f]]
  /\ refs' = [refs EXCEPT ![s] = @ - Cardinality(In(s, {"finalized"}))]
  /\ stopper' = IF stopper = "asleep" /\ "stop" \in closed /\ Idle' THEN "woken" ELSE stopper
  /\ SignalIdle(closed, Idle')
  /\ UNCHANGED <<closed, failed, resetPending, contexts, viewer, encoder,
                 sourceVars, caps, adverts, layout, phase>>

\* dispose_surfaces
DisposeSurfaces ==
  /\ phase = "idle"
  /\ disposal # {}
  /\ contexts' = contexts \ disposal
  /\ armed' = armed \ disposal
  /\ disposal' = {}
  /\ UNCHANGED <<closed, failed, resetPending, refs, frameVars, render, wanted,
                 resetVars, mainVars, phase>>

--------------------------------------------------------------------------------
(* The graphics thread: render_surfaces. *)

\* fetch_rendered_frames; a frame without any bitstream is freed at once.
FetchRenderedFrames ==
  /\ phase = "idle"
  /\ render
  /\ render' = FALSE
  /\ phase' = "fetched"
  /\ \E empty \in SUBSET At({"encoded"}) :
       /\ empty # {} => failed
       /\ stage' = [f \in Frame |-> CASE f \in empty -> "finalized"
                                      [] f \in At({"encoded"}) \ empty -> "rendered"
                                      [] OTHER -> stage[f]]
       /\ armed' = armed \cup {SurfaceOf[f] : f \in empty}
  /\ encoder' = Released(encoder, At({"encoded"}))
  /\ UNCHANGED <<closed, failed, resetPending, contexts, refs, viewer, wanted,
                 disposal, resetVars, mainVars>>

EncoderFree(f) == encoder[SurfaceOf[f]] = NoFrame

\* The frames started are encoded from now on, and the frames ended are done.
EncodingsBegin(started, ended) ==
  /\ stage' = [f \in Frame |-> CASE f \in ended -> "finalized"
                                 [] f \in started -> "encoding"
                                 [] OTHER -> stage[f]]
  /\ armed' = armed \cup {SurfaceOf[f] : f \in ended}
  /\ viewer' = Released(viewer, started \cup ended)
  /\ encoder' = [s \in Surface |-> Acquirer(encoder, s, started)]

\* maybe_start_encodings: a view without damage ends its frame, another one is
\* encoded if the encode session is free.  The walk ends when encoding fails;
\* the frame goes on if the first of its two views was submitted.
StartEncodings ==
  /\ phase = "fetched"
  /\ phase' = "encoding"
  /\ \/ "stop" \in closed /\ NoFail /\ UNCHANGED <<frameVars, armed>>
     \/ "stop" \notin closed /\ failed /\ Fail /\ UNCHANGED <<frameVars, armed>>
     \/ /\ "stop" \notin closed /\ ~failed
        /\ \E undamaged \in SUBSET At({"viewed"}) :
           \E started \in SUBSET {f \in At({"viewed"}) \ undamaged : EncoderFree(f)} :
           \E broken \in SUBSET {f \in At({"viewed"}) \ undamaged : EncoderFree(f)} :
             /\ IF broken = {}
                THEN NoFail /\ {f \in At({"viewed"}) \ undamaged : EncoderFree(f)} = started
                ELSE Cardinality(broken) = 1 /\ Fail
             /\ EncodingsBegin(started, undamaged \cup (broken \ started))
  /\ UNCHANGED <<resetPending, contexts, refs, render, wanted, disposal, resetVars,
                 mainVars>>

\* A queued frame whose view creator is free.
PickedUp(f) == f \in At({"queued"}) /\ viewer[SurfaceOf[f]] = NoFrame

\* maybe_start_view_creations: each queued frame is picked up if its view creator
\* is free.  If creating the view fails, the frame is freed; the view creator
\* stays acquired, but nothing will ask for it any more.  Not reached if the
\* encodings failed (gate "stop" is shut then, too).
StartViews ==
  /\ phase = "encoding"
  /\ phase' = "views"
  /\ \/ "stop" \in closed /\ NoFail /\ UNCHANGED <<frameVars, armed>>
     \/ /\ "stop" \notin closed
        /\ \E walked \in SUBSET {f \in Frame : PickedUp(f)} :
             \E broken \in SUBSET walked :
               /\ IF broken = {}
                  THEN walked = {f \in Frame : PickedUp(f)} /\ NoFail
                  ELSE Cardinality(broken) = 1 /\ Fail
               /\ stage' = [f \in Frame |-> CASE f \in broken -> "finalized"
                                              [] f \in walked \ broken -> "creating"
                                              [] OTHER -> stage[f]]
               /\ armed' = armed \cup {SurfaceOf[f] : f \in broken}
               /\ viewer' = [s \in Surface |-> Acquirer(viewer, s, walked)]
        /\ UNCHANGED encoder
  /\ UNCHANGED <<resetPending, contexts, refs, render, wanted, disposal, resetVars,
                 mainVars>>

\* The end of render_surfaces: the rendered frames are submitted, or, if
\* rendering was stopped, every frame that nobody works on is freed
\* (clear_pending_frames).  Unlocking a bitstream may fail last.
FinishRendering ==
  LET pending == IF "stop" \in closed THEN At({"queued", "viewed", "encoded"}) ELSE {}
      unlocked == At({"rendered"}) \cup (pending \cap At({"encoded"}))
  IN
  /\ phase = "views"
  /\ phase' = "idle"
  /\ Freed(At({"rendered"}) \cup pending)
  /\ viewer' = Released(viewer, pending)
  /\ encoder' = Released(encoder, pending)
  /\ NoFail \/ (unlocked # {} /\ Fail)
  /\ UNCHANGED <<resetPending, contexts, refs, render, wanted, disposal, resetVars,
                 mainVars>>

--------------------------------------------------------------------------------
(* The threads of the view creators and of the encode sessions. *)

\* on_view_created
ViewCreated(f) ==
  /\ stage[f] = "creating"
  /\ stage' = [stage EXCEPT ![f] = "viewed"]
  /\ failed' \in {failed, TRUE}
  /\ render' = TRUE
  /\ UNCHANGED <<closed, resetPending, contexts, refs, viewer, encoder, wanted,
                 armed, disposal, resetVars, mainVars, phase>>

\* on_bitstream_locked, for the last of the frame's bitstreams.
BitstreamLocked(f) ==
  /\ stage[f] = "encoding"
  /\ stage' = [stage EXCEPT ![f] = "encoded"]
  /\ failed' \in {failed, TRUE}
  /\ render' = TRUE
  /\ UNCHANGED <<closed, resetPending, contexts, refs, viewer, encoder, wanted,
                 armed, disposal, resetVars, mainVars, phase>>

--------------------------------------------------------------------------------
(* The protocol reset: the FreeRDP thread asks, the graphics thread resets. *)

\* notify_graphics_pipeline_reset
NotifyReset ==
  /\ closed' = closed \cup {"init"}
  /\ initable' = (initable \/ Idle)

\* rdpgfx_caps_advertise, under caps_mutex.
CapsAdvertise ==
  /\ adverts < MaxAdverts
  /\ adverts' = adverts + 1
  /\ caps' = TRUE
  /\ NotifyReset
  /\ UNCHANGED <<failed, resetPending, contexts, refs, frameVars, sourceVars, mainVars,
                 phase>>

\* protocol_reset_source_dispatch: the source is not ready any more ...
ResetDispatch ==
  /\ phase = "idle"
  /\ initable
  /\ initable' = FALSE
  /\ phase' = "dispatched"
  /\ UNCHANGED <<closed, failed, resetPending, contexts, refs, frameVars, sourceVars,
                 caps, adverts, mainVars>>

\* ... and reset_protocol takes the capability sets; without any there is nothing
\* to do.
ResetBegin ==
  /\ phase = "dispatched"
  /\ caps' = FALSE
  /\ phase' = IF caps THEN "resetting" ELSE "idle"
  /\ UNCHANGED <<closed, failed, resetPending, contexts, refs, frameVars, sourceVars,
                 adverts, initable, mainVars>>

\* The render contexts are cleared, and the pipeline is ready for a new protocol.
ResetReady ==
  /\ phase = "resetting"
  /\ phase' = "ready"
  /\ contexts' = {}
  /\ resetPending' = TRUE
  /\ closed' = closed \ {"init"}
  /\ armed' = Surface
  /\ UNCHANGED <<failed, refs, frameVars, render, wanted, disposal, resetVars, mainVars>>

\* Mutant: capability sets that came in between are not noticed.
ResetRecheck_Forgets ==
  /\ phase = "ready"
  /\ phase' = "idle"
  /\ UNCHANGED <<closed, initable, failed, resetPending, contexts, refs, frameVars,
                 sourceVars, caps, adverts, mainVars>>

\* Capability sets that came in between shut the gate again.
ResetRecheck ==
  /\ phase = "ready"
  /\ phase' = "idle"
  /\ IF caps THEN NotifyReset ELSE UNCHANGED <<closed, initable>>
  /\ UNCHANGED <<failed, resetPending, contexts, refs, frameVars, sourceVars, caps,
                 adverts, mainVars>>

\* grd_rdp_renderer_update_output_suppression_state
SuppressOutput(suppress) ==
  /\ suppress # ("suppress" \in closed)
  /\ closed' = IF suppress THEN closed \cup {"suppress"} ELSE closed \ {"suppress"}
  /\ armed' = IF suppress THEN armed ELSE Surface
  /\ UNCHANGED <<failed, resetPending, contexts, refs, frameVars, render, wanted, disposal,
                 resetVars, mainVars, phase>>

--------------------------------------------------------------------------------
(* The main thread, and PipeWire's callbacks in it. *)

\* grd_rdp_surface_renderer_submit_buffer
SubmitBuffer(s) ==
  /\ stopper = "running"
  /\ s \notin disposal
  /\ wanted' = wanted \cup {s}
  /\ armed' = armed \cup {s}
  /\ UNCHANGED <<closed, failed, resetPending, contexts, refs, frameVars, render, disposal,
                 resetVars, mainVars, phase>>

\* update_monitor_layout: a new monitor config inhibits rendering.
Inhibit ==
  /\ stopper = "running"
  /\ layout = "idle"
  /\ layout' = "awaiting"
  /\ closed' = closed \cup {"inhibit"}
  /\ prepare' = (prepare \/ Idle)
  /\ UNCHANGED <<failed, resetPending, contexts, refs, frameVars, sourceVars, resetVars,
                 stopper, phase>>

\* finish_layout_change_preparation
FinishPreparation ==
  /\ stopper = "running"
  /\ prepare
  /\ prepare' = FALSE
  /\ layout' = "preparing"
  /\ UNCHANGED <<closed, failed, resetPending, contexts, refs, frameVars, sourceVars,
                 resetVars, stopper, phase>>

\* dispose_unneeded_surfaces: the streams of the surfaces are gone already.
ReleaseSurface(s) ==
  /\ stopper = "running"
  /\ layout = "preparing"
  /\ disposal' = disposal \cup {s}
  /\ wanted' = wanted \ {s}
  /\ UNCHANGED <<closed, failed, resetPending, contexts, refs, frameVars, render, armed,
                 resetVars, mainVars, phase>>

\* notify_new_desktop_layout, when the new streams were created or updated, and
\* uninhibit_rendering, when their video sizes are known.
StartRendering ==
  /\ stopper = "running"
  /\ layout = "preparing"
  /\ layout' = "idle"
  /\ closed' = closed \ {"inhibit"}
  /\ resetPending' = TRUE
  /\ armed' = Surface
  /\ UNCHANGED <<failed, contexts, refs, frameVars, render, wanted, disposal, resetVars,
                 stopper, prepare, phase>>

\* stop_rendering: shut the gate, and wait while a context is acquired.
StopRendering ==
  /\ stopper = "running"
  /\ closed' = closed \cup {"stop"}
  /\ stopper' = IF Idle THEN "stopped" ELSE "asleep"
  /\ UNCHANGED <<failed, resetPending, contexts, refs, frameVars, sourceVars, resetVars,
                 layout, prepare, phase>>

StopWakes ==
  /\ stopper = "woken"
  /\ stopper' = IF Idle THEN "stopped" ELSE "asleep"
  /\ UNCHANGED <<closed, failed, resetPending, contexts, refs, frameVars, sourceVars,
                 resetVars, layout, prepare, phase>>

--------------------------------------------------------------------------------
RenderSurfaces ==
  FetchRenderedFrames \/ StartEncodings \/ StartViews \/ FinishRendering

Reset == ResetDispatch \/ ResetBegin \/ ResetReady \/ ResetRecheck

Next ==
  \/ \E s \in Surface :
       \/ RenderNothing(s) \/ RenderFrame(s) \/ UpgradeFrame(s) \/ UnrefObjects(s)
       \/ SubmitBuffer(s) \/ ReleaseSurface(s)
  \/ DisposeSurfaces
  \/ RenderSurfaces
  \/ \E f \in Frame : ViewCreated(f) \/ BitstreamLocked(f)
  \/ CapsAdvertise \/ Reset
  \/ \E suppress \in BOOLEAN : SuppressOutput(suppress)
  \/ Inhibit \/ FinishPreparation \/ StartRendering
  \/ StopRendering \/ StopWakes

Spec == Init /\ [][Next]_vars

\* The graphics thread dispatches every source that is ready and finishes what it
\* began; devices finish what they were given; the main thread handles what it is
\* told.  A source of the graphics thread is not enabled inside of another one's
\* dispatch, hence strong fairness.
FairSpec ==
  /\ Spec
  /\ \A s \in Surface : SF_vars(RenderNothing(s) \/ RenderFrame(s))
  /\ \A s \in Surface : SF_vars(UnrefObjects(s))
  /\ SF_vars(FetchRenderedFrames) /\ SF_vars(ResetDispatch)
  /\ WF_vars(StartEncodings) /\ WF_vars(StartViews) /\ WF_vars(FinishRendering)
  /\ WF_vars(ResetBegin) /\ WF_vars(ResetReady) /\ WF_vars(ResetRecheck)
  /\ \A f \in Frame : WF_vars(ViewCreated(f)) /\ WF_vars(BitstreamLocked(f))
  /\ WF_vars(FinishPreparation) /\ WF_vars(StopWakes)

--------------------------------------------------------------------------------
(* Properties. *)

TypeOK ==
  /\ closed \subseteq Gate
  /\ failed \in BOOLEAN /\ resetPending \in BOOLEAN
  /\ contexts \subseteq Surface
  /\ refs \in [Surface -> 0 .. Cardinality(Frame)]
  /\ stage \in [Frame -> {"none", "queued", "creating", "viewed", "encoding", "encoded",
                          "rendered", "finalized"}]
  /\ viewer \in [Surface -> Frame \cup {NoFrame}]
  /\ encoder \in [Surface -> Frame \cup {NoFrame}]
  /\ {wanted, armed, disposal} \subseteq SUBSET Surface
  /\ {render, caps, initable, prepare} \subseteq BOOLEAN
  /\ adverts \in 0 .. MaxAdverts
  /\ phase \in {"idle", "fetched", "encoding", "views", "dispatched", "resetting", "ready"}
  /\ stopper \in {"running", "asleep", "woken", "stopped"}
  /\ layout \in {"idle", "awaiting", "preparing"}

\* The count of a render context is the number of frames that still refer to it,
\* and a context somebody refers to is in the table: no frame outlives its context.
RefsMatchFrames ==
  \A s \in Surface :
    /\ refs[s] = Cardinality({f \in Frame : SurfaceOf[f] = s /\ stage[f] # "none"})
    /\ refs[s] > 0 => s \in contexts

\* A view creator serves the frame that is in it or whose view waits for the
\* encoder, an encode session the frame that is being encoded, and nobody else;
\* of the frames that wait for a view creator only the newest is left.  A view
\* creator that failed stays acquired, but rendering is over then.
CreatorsServeFrames ==
  \A s \in Surface :
    /\ In(s, {"creating", "viewed"}) \subseteq {viewer[s]}
    /\ In(s, {"encoding", "encoded"}) \subseteq {encoder[s]}
    /\ viewer[s] # NoFrame =>
         viewer[s] \in In(s, {"creating", "viewed"}) \/ "stop" \in closed
    /\ encoder[s] # NoFrame => encoder[s] \in In(s, {"encoding", "encoded"})
    /\ Cardinality(In(s, {"queued"})) <= 1

\* The assertions of clear_render_contexts, destroy_render_context_locked: a render
\* context is destroyed only when no frame refers to it, and the contexts are
\* cleared (a reset, of the graphics or of the protocol) only when no frame refers
\* to any of them.
DestroyedWhenIdle ==
  [][/\ \A s \in contexts \ contexts' : refs[s] = 0
     /\ resetPending /\ ~resetPending' => Idle
     /\ ResetReady => Idle]_vars

\* The assertions of grd_rdp_renderer_dispose: once stop_rendering returned, the
\* graphics thread holds no frame any more, wherever it was.
StoppedIsQuiet ==
  stopper = "stopped" => At({"none"}) = Frame

\* The layout manager changes the surfaces, their sizes and the monitors only while
\* no frame is on its way and none can start.
InhibitedIsQuiet ==
  layout = "preparing" => "inhibit" \in closed /\ Idle

\* The assertion of finish_layout_change_preparation: the preparation source of the
\* layout manager is ready only while it awaits the end of the inhibition.
InhibitionDoneExpected ==
  prepare => layout = "awaiting"

\* The first assertion of clear_render_contexts, for the reset of the protocol: no
\* context is acquired when reset_protocol clears them.  A wake-up of
\* protocol_reset_source may outlive the capability sets it was meant for, if they
\* are taken between its dispatch and reset_protocol; it then finds the next ones
\* before rendering came to rest.
ResetFindsContextsIdle ==
  [][ResetReady => Idle]_vars

\* stop_rendering returns.
StopTerminates ==
  (stopper = "asleep") ~> (stopper = "stopped")

\* An inhibition is granted, unless the session stops.
InhibitionGranted ==
  (layout = "awaiting") ~> (layout = "preparing" \/ stopper # "running")

\* Capability sets are handled.
ResetHappens ==
  caps ~> ~caps

\* A pending buffer is rendered, unless a gate is shut over and over again.
PendingRendered ==
  \A s \in Surface : []<>~(s \in wanted /\ closed = {})

\* The counts, creators and encoders of the contexts agree with the frames.
ResourcesExact == RefsMatchFrames /\ CreatorsServeFrames

\* What those who shut a gate rely on: the main thread that stopped rendering and the
\* layout manager that inhibited it.
GatesHold == StoppedIsQuiet /\ InhibitedIsQuiet /\ InhibitionDoneExpected

\* What is acquired agrees with the frames, and gates keep them out.
RenderingSound == ResourcesExact /\ GatesHold

\* Everybody who waits for the renderer is served: stop_rendering, the layout manager,
\* new capability sets and a pending buffer.
RequestsAnswered ==
  StopTerminates /\ InhibitionGranted /\ ResetHappens /\ PendingRendered

================================================================================
