----------------------------- MODULE SurfaceRenderer -----------------------------
(***************************************************************************)
(* The PipeWire buffers of one surface: GrdRdpPipeWireStream               *)
(* (src/src/grd-rdp-pipewire-stream.c), GrdRdpPwBuffer                     *)
(* (src/src/grd-rdp-pw-buffer.c), GrdRdpSurfaceRenderer                    *)
(* (src/src/grd-rdp-surface-renderer.c) and GrdRdpFrame                    *)
(* (src/src/grd-rdp-frame.c).                                              *)
(*                                                                         *)
(* Four threads share the buffers.  PipeWire's data thread dequeues them   *)
(* and submits the newest frame.  The graphics thread makes GrdRdpFrames   *)
(* of them, and gives them back once nobody refers to them.  The thread of *)
(* the view creator is done with a frame's buffers when the view exists,   *)
(* unless the encoder reads them, too.  The main thread registers buffers  *)
(* and, when PipeWire removes one, waits until it is not in use.           *)
(*                                                                         *)
(* Every critical section of render_mutex is one step.  What the renderer  *)
(* does to a frame is the subject of Renderer; here a frame goes through   *)
(* its stages, one frame in each.  The surface is not one that an NVIDIA   *)
(* device reads (pending_framebuffer is never set).                        *)
(***************************************************************************)
EXTENDS Integers, Sequences, FiniteSets, SequencesExt, TLC

CONSTANTS
  Buffer,      \* struct pw_buffers; PipeWire uses each again for its next pool
  NoBuffer,    \* NULL
  Kinds,       \* the buffer types: "mem" (MemFd) and "dma" (DMA-BUF)
  Physical,    \* the stream is one of a physical monitor
  KindChanges, \* a new pool may be of another type
  MaxSlots,    \* UNLIMITED_FRAME_SLOTS
  MaxBatch,    \* buffers PipeWire has ready at a time, a bound of the model
  MaxPools,    \* pools of buffers that PipeWire allocates, a bound of the model
  MaxResets    \* protocol resets, a bound of the model

ASSUME SurfaceRendererAssumption ==
  /\ IsFiniteSet(Buffer) /\ NoBuffer \notin Buffer
  /\ Kinds \subseteq {"mem", "dma"}
  /\ Physical \in BOOLEAN /\ KindChanges \in BOOLEAN
  /\ MaxSlots \in Nat \ {0} /\ MaxBatch \in Nat \ {0}
  /\ MaxPools \in Nat \ {0} /\ MaxResets \in Nat

VARIABLES
  phase,        \* what PipeWire's main loop does with the pool of the stream
  pools,        \* pools so far
  kind,         \* the type of the pool
  registered,   \* registered_buffers
  removing,     \* the buffer that the main thread removes, and how far it is
  held,         \* how often a buffer was dequeued and not queued again
  pending,      \* pending_buffer
  last,         \* last_buffer
  marked,       \* buffers that are marked_for_removal
  refs,         \* acquired_buffers: its counts; the buffer is locked unless 0
  frame,        \* the frame in each stage
  unrefs,       \* unref_queue
  draining,     \* the graphics thread is in unref_objects
  armed,        \* render_source is ready
  slots,        \* total_frame_slots
  info,         \* the type in rdp_buffer_info
  forceReset,   \* pending_render_context_reset
  context,      \* the type that the surface's render context was made for
  gate,         \* rendering_inhibited, and whether the new size is known
  resetPending, \* pending_gfx_graphics_reset
  resets        \* protocol resets so far

streamVars == <<phase, pools, kind, registered, removing>>
bufferVars == <<held, pending, last, marked, refs>>
frameVars == <<frame, unrefs, draining>>
contextVars == <<info, forceReset, context>>
gateVars == <<gate, resetPending, resets>>
vars == <<streamVars, bufferVars, frameVars, armed, slots, contextVars, gateVars>>

--------------------------------------------------------------------------------
(* Frames, and what they hold. *)

Stage == {"queued", "creating", "viewed", "encoding"}

NoFrame == [cur |-> NoBuffer, last |-> NoBuffer, open |-> FALSE, is |-> FALSE]

\* grd_rdp_frame_new; an upgrade has no buffers, hence no view to finalize.
NewFrame(current, previous) ==
  [cur |-> current, last |-> previous, open |-> current # NoBuffer, is |-> TRUE]

Context == [type |-> "context", buffer |-> NoBuffer]

\* Mutant: a frame always has a last buffer.
Viewed_Always(f) == [i \in 1 .. 2 |->
                       [type |-> "buffer", buffer |-> IF i = 1 THEN f.cur ELSE f.last]]

\* on_view_finalization: the objects whose references are dropped.
Viewed(f) == [i \in 1 .. (IF f.last = NoBuffer THEN 1 ELSE 2) |->
                [type |-> "buffer", buffer |-> IF i = 1 THEN f.cur ELSE f.last]]

\* grd_rdp_frame_free: the view is finalized if it was not yet, and the render
\* context goes last.
Freed(f) == IF ~f.is THEN <<>>
            ELSE IF f.open THEN Append(Viewed(f), Context) ELSE <<Context>>

Used == Cardinality({s \in Stage \ {"queued"} : frame[s].is})

\* The size of acquired_render_contexts is 0.
Idle == /\ \A s \in Stage : ~frame[s].is
        /\ \A i \in DOMAIN unrefs : unrefs[i].type # "context"

NoRemoval == [buffer |-> NoBuffer, step |-> "none", release |-> FALSE]

\* release_pw_buffer
Released(count, b) == IF b = NoBuffer THEN count ELSE [count EXCEPT ![b] = @ - 1]

\* rdp_buffer_ref
Referenced(count, b) == IF b = NoBuffer THEN count ELSE [count EXCEPT ![b] = @ + 1]

Init ==
  /\ phase = "adding" /\ pools = 1
  /\ kind \in Kinds
  /\ registered = {}
  /\ removing = NoRemoval
  /\ held = [b \in Buffer |-> 0]
  /\ pending = NoBuffer /\ last = NoBuffer
  /\ marked = {}
  /\ refs = [b \in Buffer |-> 0]
  /\ frame = [s \in Stage |-> NoFrame]
  /\ unrefs = <<>> /\ draining = FALSE
  /\ armed = FALSE
  /\ slots = MaxSlots
  /\ info = "none" /\ forceReset = FALSE /\ context = "none"
  /\ gate = "open" /\ resetPending = TRUE /\ resets = 0

--------------------------------------------------------------------------------
(* The main thread: PipeWire's pools. *)

\* Mutant: the stream gets its new size while frames are on their way.
ParamChanged_NoWait ==
  /\ phase = "streaming"
  /\ pools < MaxPools
  /\ \/ gate = "shut" /\ gate' = "sized"
     \/ (gate = "shut" => pools + 1 < MaxPools) /\ gate' = gate
  /\ phase' = "clearing"
  /\ pools' = pools + 1
  /\ kind' \in IF KindChanges THEN Kinds ELSE {kind}
  /\ resetPending' = (resetPending \/ Physical)
  /\ UNCHANGED <<registered, removing, bufferVars, frameVars, armed, slots, contextVars,
                 resets>>

\* on_stream_param_changed: PipeWire removes the buffers of the pool and allocates
\* new ones.  Of a physical monitor, the new size is a new desktop layout.
ParamChanged ==
  /\ phase = "streaming"
  /\ pools < MaxPools
  /\ \/ gate = "shut" /\ Idle /\ gate' = "sized"
     \/ (gate = "shut" => pools + 1 < MaxPools) /\ gate' = gate
  /\ phase' = "clearing"
  /\ pools' = pools + 1
  /\ kind' \in IF KindChanges THEN Kinds ELSE {kind}
  /\ resetPending' = (resetPending \/ Physical)
  /\ UNCHANGED <<registered, removing, bufferVars, frameVars, armed, slots, contextVars,
                 resets>>

\* grd_rdp_pipewire_stream_finalize: no buffer is dequeued any more.
Finalize ==
  /\ phase = "streaming"
  /\ gate = "open"
  /\ phase' = "closing"
  /\ UNCHANGED <<pools, kind, registered, removing, bufferVars, frameVars, armed, slots,
                 contextVars, gateVars>>

\* register_pw_buffer
AddBuffer(b) ==
  /\ phase = "adding"
  /\ b \notin registered
  /\ registered' = registered \cup {b}
  /\ forceReset' = (forceReset \/ (registered = {} /\ info \notin {"none", kind}))
  /\ info' = IF registered = {} THEN kind ELSE info
  /\ phase' = IF registered' = Buffer THEN "streaming" ELSE "adding"
  /\ UNCHANGED <<pools, kind, removing, bufferVars, frameVars, armed, slots, context,
                 gateVars>>

\* on_stream_remove_buffer
RemoveBuffer(b) ==
  /\ phase \in {"clearing", "closing"}
  /\ removing = NoRemoval
  /\ b \in registered
  /\ removing' = [buffer |-> b, step |-> "ensure", release |-> FALSE]
  /\ UNCHANGED <<phase, pools, kind, registered, bufferVars, frameVars, armed, slots,
                 contextVars, gateVars>>

Locked(b) == refs[b] > 0

\* grd_rdp_pw_buffer_ensure_unlocked; the buffer may be acquired again after it.
EnsureUnlocked ==
  /\ removing.step = "ensure"
  /\ ~Locked(removing.buffer)
  /\ removing' = [removing EXCEPT !.step = "mark"]
  /\ UNCHANGED <<phase, pools, kind, registered, bufferVars, frameVars, armed, slots,
                 contextVars, gateVars>>

\* unregister_pw_buffer, under render_mutex: nobody can acquire the buffer any more.
MarkForRemoval ==
  LET b == removing.buffer IN
  /\ removing.step = "mark"
  /\ removing' = [removing EXCEPT !.step = "drop", !.release = b \in {pending, last}]
  /\ pending' = IF pending = b THEN NoBuffer ELSE pending
  /\ last' = IF last = b THEN NoBuffer ELSE last
  /\ marked' = marked \cup {b}
  /\ UNCHANGED <<phase, pools, kind, registered, held, refs, frameVars, armed, slots,
                 contextVars, gateVars>>

\* unregister_pw_buffer, when the lock is released: with the last buffer of the
\* pool PipeWire goes on to the next one.
DropBuffer ==
  LET b == removing.buffer
      rest == registered \ {b}
  IN
  /\ removing.step = "drop"
  /\ ~Locked(b)
  /\ removing' = NoRemoval
  /\ held' = [held EXCEPT ![b] = 0]
  /\ registered' = rest
  /\ marked' = marked \ {b}
  /\ phase' = IF rest # {} THEN phase
              ELSE IF phase = "clearing" THEN "adding" ELSE "closed"
  /\ UNCHANGED <<pools, kind, pending, last, refs, frameVars, armed, slots,
                 contextVars, gateVars>>

--------------------------------------------------------------------------------
(* PipeWire's data thread: on_stream_process. *)

\* What a buffer carries; corrupted ones carry nothing that is looked at.
Content == [pointer : BOOLEAN, frame : BOOLEAN]

\* What PipeWire may have ready: buffers that it owns, in some order.
Batches(free) ==
  UNION {{batch \in [1 .. n -> [buffer : free, content : Content]] :
            IsInjective([i \in 1 .. n |-> batch[i].buffer])} : n \in 1 .. MaxBatch}

\* Mutant: the pointer of a buffer that has a frame, too, queues this buffer.
Dequeue_Twice(acc, next) ==
  LET oldPointer == IF next.content.pointer THEN acc.pointer ELSE NoBuffer
      pointer == IF next.content.pointer THEN next.buffer ELSE acc.pointer
      oldFrame == IF next.content.frame /\ acc.frame # pointer THEN acc.frame ELSE NoBuffer
      newFrame == IF next.content.frame THEN next.buffer ELSE acc.frame
      useless == IF next.buffer \in {pointer, newFrame} THEN NoBuffer ELSE next.buffer
  IN  [pointer |-> pointer, frame |-> newFrame,
       held |-> Released(Released(Released(Referenced(acc.held, next.buffer),
                                           oldPointer), oldFrame), useless)]

\* One turn of the loop: the newest pointer bitmap and the newest frame are kept,
\* maybe in the same buffer; what they replace is queued again.
Dequeue(acc, next) ==
  LET oldPointer == IF next.content.pointer /\ acc.pointer # acc.frame
                    THEN acc.pointer ELSE NoBuffer
      pointer == IF next.content.pointer THEN next.buffer ELSE acc.pointer
      oldFrame == IF next.content.frame /\ acc.frame # pointer THEN acc.frame ELSE NoBuffer
      newFrame == IF next.content.frame THEN next.buffer ELSE acc.frame
      useless == IF next.buffer \in {pointer, newFrame} THEN NoBuffer ELSE next.buffer
  IN  [pointer |-> pointer, frame |-> newFrame,
       held |-> Released(Released(Released(Referenced(acc.held, next.buffer),
                                           oldPointer), oldFrame), useless)]

\* grd_rdp_surface_renderer_submit_buffer
Submit(b, count) ==
  /\ held' = Released(count, pending)
  /\ pending' = b
  /\ armed' = TRUE

\* The loop, after each of its turns.
Turns(batch) ==
  LET turn[i \in 0 .. Len(batch)] ==
        IF i = 0 THEN [pointer |-> NoBuffer, frame |-> NoBuffer, held |-> held]
        ELSE Dequeue(turn[i - 1], batch[i])
  IN  turn

\* The buffer of a pointer alone is queued when the pointer was copied.
Process(batch) ==
  /\ phase = "streaming"
  /\ \E acc \in {Turns(batch)[Len(batch)]} :
     \E count \in {IF acc.pointer = acc.frame THEN acc.held
                   ELSE Released(acc.held, acc.pointer)} :
       IF acc.frame = NoBuffer
       THEN held' = count /\ UNCHANGED <<pending, armed>>
       ELSE Submit(acc.frame, count)
  /\ UNCHANGED <<streamVars, last, marked, refs, frameVars, slots, contextVars, gateVars>>

--------------------------------------------------------------------------------
(* The graphics thread: the sources of the surface renderer. *)

CanPrepare == slots > Used

\* maybe_render_frame, when it prepares no frame.
RenderNothing ==
  /\ ~draining
  /\ armed
  /\ pending = NoBuffer \/ ~CanPrepare \/ gate # "open"
  /\ armed' = FALSE
  /\ UNCHANGED <<streamVars, bufferVars, frameVars, slots, contextVars, gateVars>>

\* maybe_render_frame: a pending reset of the graphics invalidates the surface, so
\* there is no last buffer then; a frame that is still queued is replaced.
RenderFrame ==
  /\ ~draining
  /\ armed
  /\ pending # NoBuffer
  /\ CanPrepare
  /\ gate = "open"
  /\ \E previous \in {IF resetPending THEN NoBuffer ELSE last} :
       /\ frame' = [frame EXCEPT !["queued"] = NewFrame(pending, previous)]
       /\ refs' = Referenced(Referenced(refs, pending), previous)
       /\ last' = previous
  /\ held' = IF resetPending THEN Released(held, last) ELSE held
  /\ pending' = NoBuffer
  /\ unrefs' = unrefs \o Freed(frame["queued"])
  /\ armed' = frame["queued"].is
  /\ resetPending' = FALSE
  /\ forceReset' = FALSE
  /\ context' = IF resetPending \/ forceReset \/ context = "none" THEN info ELSE context
  /\ UNCHANGED <<streamVars, marked, draining, slots, info, gate, resets>>

\* invalidate_surface: the buffer that is shown is to be rendered again, unless
\* there is a newer one.
Invalidate ==
  IF pending = NoBuffer
  THEN pending' = last /\ last' = NoBuffer /\ held' = held
  ELSE pending' = pending /\ last' = NoBuffer /\ held' = Released(held, last)

\* maybe_upgrade_frame: without a render context (any more) there is no frame.  The
\* frame has its view already and is picked up at once.  Only an encoder of DMA-BUFs
\* has frames to upgrade.  The source is ready a while after the last frame
\* (FRAME_UPGRADE_DELAY_US), when unref_queue is empty.
UpgradeFrame ==
  /\ ~draining /\ unrefs = <<>>
  /\ info = "dma"
  /\ pending = NoBuffer
  /\ Used = 0 /\ slots = MaxSlots
  /\ gate = "open"
  /\ \/ /\ resetPending
        /\ resetPending' = FALSE
        /\ context' = "none"
        /\ Invalidate
        /\ UNCHANGED frame
     \/ /\ ~resetPending /\ context # "none"
        /\ frame' = [frame EXCEPT !["viewed"] = NewFrame(NoBuffer, NoBuffer)]
        /\ UNCHANGED <<resetPending, context, held, pending, last>>
  /\ UNCHANGED <<streamVars, marked, refs, unrefs, draining, armed, slots, info,
                 forceReset, gate, resets>>

\* rdp_buffer_unref: the last reference gives the buffer back, unless it is shown or
\* is to be removed.
UnrefBuffer(b) ==
  /\ refs' = [refs EXCEPT ![b] = @ - 1]
  /\ held' = IF refs[b] = 1 /\ b \notin marked /\ b # last THEN Released(held, b) ELSE held

\* unref_objects, for one object of the queue.
UnrefObject ==
  /\ unrefs # <<>>
  /\ unrefs' = Tail(unrefs)
  /\ draining' = (Len(unrefs) > 1)
  /\ IF Head(unrefs).type = "buffer"
     THEN UnrefBuffer(Head(unrefs).buffer)
     ELSE UNCHANGED <<refs, held>>
  /\ UNCHANGED <<streamVars, pending, last, marked, frame, armed, slots, contextVars,
                 gateVars>>

--------------------------------------------------------------------------------
(* The graphics thread and the device threads: frames in the renderer. *)

\* maybe_start_view_creations and on_frame_picked_up: the buffer of the frame is the
\* one that is shown from now on.
PickUp ==
  LET f == frame["queued"] IN
  /\ ~draining
  /\ f.is
  /\ \A s \in {"creating", "viewed"} : ~frame[s].is
  /\ frame' = [frame EXCEPT !["queued"] = NoFrame, !["creating"] = f]
  /\ last' = IF f.cur \in marked THEN NoBuffer ELSE f.cur
  /\ UNCHANGED <<streamVars, held, pending, marked, refs, unrefs, draining, armed, slots,
                 contextVars, gateVars>>

\* must_delay_view_finalization
MustDelay == context = "mem"

\* set_damage_region, in the thread of the view creator.
ViewCreated ==
  LET f == frame["creating"] IN
  /\ f.is
  /\ frame' = [frame EXCEPT !["creating"] = NoFrame,
                            !["viewed"] = [f EXCEPT !.open = MustDelay]]
  /\ unrefs' = IF MustDelay THEN unrefs ELSE unrefs \o Viewed(f)
  /\ UNCHANGED <<streamVars, bufferVars, draining, armed, slots, contextVars, gateVars>>

\* grd_rdp_frame_free of the frame in stage s: its slot is free again, so the render
\* source is triggered.
Free(s) == /\ frame' = [frame EXCEPT ![s] = NoFrame]
           /\ unrefs' = unrefs \o Freed(frame[s])
           /\ armed' = TRUE
           /\ UNCHANGED <<streamVars, bufferVars, draining, slots, contextVars, gateVars>>

\* maybe_start_encodings, of a view with damage ...
StartEncoding ==
  /\ ~draining
  /\ frame["viewed"].is /\ ~frame["encoding"].is
  /\ frame' = [frame EXCEPT !["viewed"] = NoFrame, !["encoding"] = frame["viewed"]]
  /\ UNCHANGED <<streamVars, bufferVars, unrefs, draining, armed, slots, contextVars,
                 gateVars>>

\* ... and of one without.
Undamaged == ~draining /\ frame["viewed"].is /\ Free("viewed")

\* render_surfaces, when the bitstream is there and was submitted.
Encoded == ~draining /\ frame["encoding"].is /\ Free("encoding")

\* Mutant: a larger number of slots does not trigger the render source.
UpdateTotalFrameSlots_NoTrigger(n) ==
  /\ n # slots
  /\ slots' = n
  /\ UNCHANGED <<armed, streamVars, bufferVars, frameVars, contextVars, gateVars>>

\* grd_rdp_surface_renderer_update_total_frame_slots
UpdateTotalFrameSlots(n) ==
  /\ n # slots
  /\ slots' = n
  /\ armed' = (armed \/ n > slots)
  /\ UNCHANGED <<streamVars, bufferVars, frameVars, contextVars, gateVars>>

--------------------------------------------------------------------------------
(* The gates of the renderer. *)

\* grd_rdp_renderer_inhibit_rendering, before the stream gets another size.
Inhibit ==
  /\ gate = "open"
  /\ phase \in {"adding", "streaming"} /\ pools < MaxPools
  /\ gate' = "shut"
  /\ UNCHANGED <<streamVars, bufferVars, frameVars, armed, slots, contextVars,
                 resetPending, resets>>

\* notify_new_desktop_layout and uninhibit_rendering.
Uninhibit ==
  /\ gate = "sized"
  /\ gate' = "open"
  /\ resetPending' = TRUE
  /\ armed' = TRUE
  /\ UNCHANGED <<streamVars, bufferVars, frameVars, slots, contextVars, resets>>

\* reset_protocol: clear_render_contexts, and notify_graphics_pipeline_ready.
ResetProtocol ==
  /\ ~draining
  /\ resets < MaxResets
  /\ Idle
  /\ resets' = resets + 1
  /\ Invalidate
  /\ context' = "none"
  /\ resetPending' = TRUE
  /\ armed' = TRUE
  /\ UNCHANGED <<streamVars, marked, refs, frameVars, slots, info, forceReset, gate>>

--------------------------------------------------------------------------------
Removal ==
  (\E b \in Buffer : RemoveBuffer(b)) \/ EnsureUnlocked \/ MarkForRemoval \/ DropBuffer

Render == RenderNothing \/ RenderFrame

Pipeline == PickUp \/ ViewCreated \/ StartEncoding \/ Undamaged \/ Encoded

Next ==
  \/ ParamChanged \/ Finalize \/ Removal
  \/ \E b \in Buffer : AddBuffer(b)
  \/ \E batch \in Batches({b \in registered : held[b] = 0}) : Process(batch)
  \/ Render \/ UpgradeFrame \/ UnrefObject
  \/ Pipeline
  \/ \E n \in 0 .. MaxSlots : UpdateTotalFrameSlots(n)
  \/ Inhibit \/ Uninhibit \/ ResetProtocol

Spec == Init /\ [][Next]_vars

--------------------------------------------------------------------------------
(* Properties. *)

Frames == [cur : Buffer \cup {NoBuffer}, last : Buffer \cup {NoBuffer},
           open : BOOLEAN, is : BOOLEAN]

\* What is in unref_queue.
Reference == {Context} \cup [type : {"buffer"}, buffer : Buffer]

TypeOK ==
  /\ phase \in {"adding", "streaming", "clearing", "closing", "closed"}
  /\ pools \in 1 .. MaxPools
  /\ kind \in Kinds
  /\ registered \subseteq Buffer /\ marked \subseteq Buffer
  /\ removing \in [buffer : Buffer \cup {NoBuffer}, release : BOOLEAN,
                   step : {"none", "ensure", "mark", "drop"}]
  /\ held \in [Buffer -> Int] /\ refs \in [Buffer -> Nat]
  /\ pending \in Buffer \cup {NoBuffer} /\ last \in Buffer \cup {NoBuffer}
  /\ frame \in [Stage -> Frames]
  /\ unrefs \in Seq(Reference)
  /\ draining \in BOOLEAN /\ armed \in BOOLEAN
  /\ slots \in 0 .. MaxSlots
  /\ info \in Kinds \cup {"none"} /\ context \in Kinds \cup {"none"}
  /\ forceReset \in BOOLEAN /\ resetPending \in BOOLEAN
  /\ gate \in {"open", "shut", "sized"} /\ resets \in 0 .. MaxResets

\* The buffers that a frame, the queue of dropped references or the surface
\* renderer may still look at.
Open == {frame[s] : s \in {t \in Stage : frame[t].open}}
InUse == ({f.cur : f \in Open} \cup {f.last : f \in Open}
          \cup {unrefs[i].buffer : i \in DOMAIN unrefs} \cup {pending, last})
         \ {NoBuffer}

\* Nothing looks at a buffer that PipeWire removed, whatever the order in which the
\* four threads take their steps (grd_rdp_buffer_free and
\* grd_rdp_pw_buffer_free unmap its memory).
NoUseAfterRemoval == InUse \subseteq registered

\* The lock of a buffer is held for the frames that have yet to finish and for the
\* references on their way back, and for nothing else: the main thread, which waits
\* for the lock, waits for nothing but them.
LockedByUses ==
  \A b \in Buffer :
    refs[b] = Cardinality({s \in Stage : frame[s].open /\ frame[s].cur = b})
            + Cardinality({s \in Stage : frame[s].open /\ frame[s].last = b})
            + Cardinality({i \in DOMAIN unrefs : unrefs[i].buffer = b})

\* A buffer that was dequeued is queued again exactly once: it is out while it is
\* pending, shown, referenced or being removed, and not a moment longer.
QueuedOnce ==
  \A b \in Buffer :
    /\ held[b] \in {0, 1}
    /\ b \in InUse => held[b] = 1
    /\ held[b] = 1 => b \in InUse \/ b \in marked

\* The assertions of unref_buffer, rdp_buffer_unref and unregister_pw_buffer: no
\* frame refers to the pending buffer, and it is not the one that is shown.
PendingIsNew ==
  pending # NoBuffer => pending # last /\ ~Locked(pending)

\* The encoder of a MemFd buffer reads the buffer itself, so the frame keeps the lock
\* until it is encoded, also when the buffer is replaced or removed meanwhile.
EncoderReadsHeld ==
  \A s \in {"viewed", "encoding"} :
    frame[s].is /\ frame[s].cur # NoBuffer /\ context = "mem" =>
      frame[s].open /\ Locked(frame[s].cur)

\* Whenever a frame could be rendered, the render source is ready: the trigger is
\* not lost, whoever makes the rendering possible (a buffer, a slot, the gate).
\* Only a buffer of a pool that PipeWire is about to remove may miss it, since
\* maybe_upgrade_frame invalidates the surface without a trigger.
NoLostTrigger ==
  phase = "streaming" /\ pending # NoBuffer /\ CanPrepare /\ gate = "open" => armed

\* The assertions of clear_render_contexts, invalidate_surface and
\* destroy_render_context: the render context is only thrown away when no frame uses
\* it, and no frame refers to a buffer.
ContextIdleAtReset ==
  [][(resetPending \/ forceReset) /\ RenderFrame
       => Idle /\ \A b \in Buffer : ~Locked(b)]_vars

\* Whoever still looks at a buffer keeps it locked, and PipeWire does not take it.
BuffersHeld == NoUseAfterRemoval /\ LockedByUses /\ EncoderReadsHeld

\* Every buffer goes back to PipeWire once, whoever was the last to need it.
ReturnedOnce == QueuedOnce /\ PendingIsNew

\* A buffer is on loan from PipeWire: kept while it is used, then given back once.
BuffersSound == BuffersHeld /\ ReturnedOnce

\* The buffers may be exchanged for each other.
BufferSymmetry == Permutations(Buffer)
================================================================================
