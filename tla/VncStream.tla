------------------------------- MODULE VncStream -------------------------------
(***************************************************************************)
(* The stream of a VNC session: src/src/grd-vnc-pipewire-stream.c, and the *)
(* framebuffer that it fills, in src/src/grd-session-vnc.c.                *)
(*                                                                         *)
(* PipeWire's data thread dequeues buffers and keeps the newest frame and  *)
(* the newest pointer.  It copies a MemFd buffer itself; a DMA-BUF is      *)
(* locked and left to the EGL thread, where a later frame may replace it   *)
(* before it is downloaded.  The main thread gives the pending frame to    *)
(* the client, and waits for the lock when PipeWire removes a buffer.      *)
(***************************************************************************)
EXTENDS Naturals, Sequences

CONSTANTS
  PwBuffer,     \* the buffers that PipeWire allocates, anew for each format
  NoBuffer,     \* NULL
  FrameSizes,   \* the sizes of a monitor; the framebuffer starts with the least
  MaxFormats,   \* formats negotiated, a bound of the model
  MaxProcess,   \* calls of on_stream_process, a bound of the model
  CalmSizes     \* no size comes back to the screen's while the client awaits another

VARIABLES
  stream,      \* connected, adding, failed, streaming, removing;
               \* in its finalization syncing, destroying; gone
  dma,         \* the buffers are DMA-BUFs
  bufs,        \* pipewire_buffers
  dequeued,    \* how often a buffer was dequeued and not queued again
  locked,      \* the buffers with is_locked
  waitsFor,    \* the buffer whose lock the main thread waits for, with dequeue_mutex held
  slotTask,    \* the buffer of the task in egl_slot
  download,    \* the buffer of the download that runs
  releasing,   \* the buffer that was queued by its download, and is locked still
  frame,       \* pending_frame, and its source is ready
  pointer,     \* pending_pointer, and its source is ready
  format,      \* the size in spa_format
  screen,      \* the size of rfb_screen
  resize,      \* pending_framebuffer_width, 0 without pending_framebuffer_resize
  encodings,   \* preferredEncoding is known
  rfbClient,   \* rfb_client is not NULL
  dequeuing,   \* not dequeuing_disallowed
  formats, processed \* counters

vncVars == <<stream, dma, bufs, dequeued, locked, waitsFor, slotTask, download, releasing,
             frame, pointer, format, screen, resize, encodings, rfbClient, dequeuing, formats,
             processed>>

streamVars == <<stream, bufs, waitsFor, dequeuing, formats>>
eglVars == <<slotTask, download, releasing, locked>>
screenVars == <<format, screen, resize, encodings, rfbClient>>

Init ==
  /\ stream = "connected" /\ dma \in BOOLEAN
  /\ bufs = {} /\ dequeued = [b \in PwBuffer |-> 0] /\ locked = {}
  /\ waitsFor = NoBuffer /\ slotTask = NoBuffer /\ download = NoBuffer /\ releasing = NoBuffer
  /\ frame = FALSE /\ pointer = "none"
  /\ format = 1 /\ screen = 1 /\ resize = 0
  /\ encodings = FALSE /\ rfbClient = TRUE /\ dequeuing = TRUE
  /\ formats = 0 /\ processed = 0

-----------------------------------------------------------------------------
(* The main thread: the format, and the buffers. *)

\* It is in its loop, neither in a callback that waits nor in the finalization.
InLoop == waitsFor = NoBuffer /\ stream \notin {"removing", "syncing", "destroying", "gone"}

\* grd_session_vnc_queue_resize_framebuffer
QueueResizeFramebuffer(size) ==
  \/ size = screen /\ UNCHANGED <<screen, resize>>
  \/ size # screen /\ ~encodings /\ resize' = size /\ UNCHANGED screen
  \/ size # screen /\ encodings /\ screen' = size /\ UNCHANGED resize

\* on_stream_param_changed; PipeWire replaces the buffers after it.
ParamChanged(size) ==
  /\ stream \in {"connected", "streaming"} /\ formats < MaxFormats
  /\ rfbClient
  /\ CalmSizes => (resize # 0 => size # screen)
  /\ format' = size
  /\ QueueResizeFramebuffer(size)
  /\ stream' = IF bufs = {} THEN "adding" ELSE "removing"
  /\ formats' = formats + 1
  /\ UNCHANGED <<dma, bufs, dequeued, waitsFor, eglVars, frame, pointer, encodings, rfbClient,
                 dequeuing, processed>>

\* on_stream_add_buffer; a sync file that cannot be imported ends the session.
AddBuffer(b) ==
  /\ stream = "adding" /\ b \notin bufs
  /\ \/ bufs' = bufs \cup {b} /\ UNCHANGED <<dequeuing, stream>>
     \/ bufs' = bufs /\ dequeuing' = FALSE /\ stream' = "failed"
  /\ UNCHANGED <<dma, dequeued, waitsFor, eglVars, frame, pointer, screenVars, formats,
                 processed>>

\* PipeWire has added the buffers of the format.
StartStreaming ==
  /\ stream = "adding" /\ bufs # {}
  /\ stream' = "streaming"
  /\ UNCHANGED <<dma, bufs, dequeued, waitsFor, eglVars, frame, pointer, screenVars, dequeuing,
                 formats, processed>>

\* on_stream_remove_buffer takes dequeue_mutex and waits for buffer_mutex.
AwaitUnlocked(b) ==
  /\ stream \in {"removing", "destroying"} /\ waitsFor = NoBuffer /\ b \in bufs
  /\ waitsFor' = b
  /\ UNCHANGED <<stream, dma, bufs, dequeued, eglVars, frame, pointer, screenVars, dequeuing,
                 formats, processed>>

\* Mutant: nobody waits for the download.
RemoveBuffer_Locked ==
  /\ waitsFor # NoBuffer
  /\ bufs' = bufs \ {waitsFor} /\ waitsFor' = NoBuffer
  /\ stream' = IF bufs' # {} THEN stream ELSE IF stream = "removing" THEN "adding" ELSE "gone"
  /\ UNCHANGED <<dma, dequeued, eglVars, frame, pointer, screenVars, dequeuing, formats,
                 processed>>

\* on_stream_remove_buffer, when the buffer is not locked any more.
RemoveBuffer ==
  /\ waitsFor # NoBuffer /\ waitsFor \notin locked
  /\ bufs' = bufs \ {waitsFor} /\ waitsFor' = NoBuffer
  /\ stream' = IF bufs' # {} THEN stream ELSE IF stream = "removing" THEN "adding" ELSE "gone"
  /\ UNCHANGED <<dma, dequeued, eglVars, frame, pointer, screenVars, dequeuing, formats,
                 processed>>

-----------------------------------------------------------------------------
(* The data thread. *)

\* What a buffer has: nothing that is of use (it is corrupted, or is there for the position
\* of the pointer only), a bitmap of the pointer, a frame or both.
Content == {"nothing", "bitmap", "frame", "both"}

\* pw_stream_dequeue_buffer until there is none: buffers that PipeWire has, two at most (a
\* bound of the model).
Batches ==
  LET ready == {b \in bufs : dequeued[b] = 0}
  IN  {batch \in UNION {[1 .. n -> ready \X Content] : n \in 1 .. 2} :
         \A i, j \in DOMAIN batch : batch[i][1] = batch[j][1] => i = j}

\* grd_vnc_pw_buffer_queue_pw_buffer
Queued(count, b) == IF b = NoBuffer THEN count ELSE [count EXCEPT ![b] = @ - 1]

\* One pass of the loop of on_stream_process: last_pointer_buffer and last_frame_buffer are
\* replaced and queued again, unless the buffer is kept for the other reason.
Drain(d, item) ==
  LET b == item[1]
      bitmap == item[2] \in {"bitmap", "both"}
      data == item[2] \in {"frame", "both"}
      pointerBuffer == IF bitmap THEN b ELSE d.pointer
      taken == [d.count EXCEPT ![b] = @ + 1]
      unpointed == IF bitmap /\ d.pointer # d.frame THEN Queued(taken, d.pointer) ELSE taken
      unframed == IF data /\ pointerBuffer # d.frame THEN Queued(unpointed, d.frame) ELSE unpointed
  IN  [pointer |-> pointerBuffer, frame |-> IF data THEN b ELSE d.frame,
       count |-> IF bitmap \/ data THEN unframed ELSE Queued(unframed, b)]

\* What is dequeued, and what is kept, after all that was ready.
Drained(batch) ==
  LET first == Drain([pointer |-> NoBuffer, frame |-> NoBuffer, count |-> dequeued], batch[1])
  IN  IF Len(batch) = 1 THEN first ELSE Drain(first, batch[2])

\* process_frame_data for a DMA-BUF: it is locked, and its download replaces the one in the
\* slot, whose callback queues and unlocks its buffer (replaceable_task_replace_task).
ProcessDmaBuf(b, count) ==
  /\ b \notin locked
  /\ slotTask' = b
  /\ locked' = (locked \ {slotTask}) \cup {b}
  /\ dequeued' = Queued(count, slotTask)
  /\ UNCHANGED frame

\* process_frame_data for a MemFd: on_frame_ready follows, if it could be mapped.
ProcessMemFd(b, count) ==
  /\ frame' \in {frame, TRUE}
  /\ dequeued' = Queued(count, b)
  /\ UNCHANGED <<slotTask, locked>>

\* on_stream_process: the bitmap is converted and its buffer queued, unless it has the frame,
\* too.
Process(batch) ==
  /\ stream = "streaming" /\ dequeuing /\ waitsFor = NoBuffer
  /\ processed < MaxProcess
  /\ LET d == Drained(batch)
         count == IF d.pointer # d.frame THEN Queued(d.count, d.pointer) ELSE d.count
     IN  /\ pointer' \in IF d.pointer # NoBuffer THEN {"bitmap", "moved"} ELSE {pointer, "moved"}
         /\ \/ d.frame = NoBuffer /\ dequeued' = count /\ UNCHANGED <<slotTask, locked, frame>>
            \/ d.frame # NoBuffer /\ dma /\ ProcessDmaBuf(d.frame, count)
            \/ d.frame # NoBuffer /\ ~dma /\ ProcessMemFd(d.frame, count)
  /\ processed' = processed + 1
  /\ UNCHANGED <<streamVars, dma, download, releasing, screenVars>>

-----------------------------------------------------------------------------
(* The EGL thread. *)

\* run_replaceable_task_in_impl
StartDownload ==
  /\ slotTask # NoBuffer /\ download = NoBuffer /\ releasing = NoBuffer
  /\ download' = slotTask /\ slotTask' = NoBuffer
  /\ UNCHANGED <<streamVars, dma, dequeued, locked, releasing, frame, pointer, screenVars,
                 processed>>

\* on_dma_buf_downloaded, on_frame_ready: a frame that was downloaded replaces the pending
\* one, and the buffer is queued in any case.
FrameReady(success) ==
  /\ download # NoBuffer
  /\ frame' = (frame \/ success)
  /\ dequeued' = Queued(dequeued, download)
  /\ releasing' = download /\ download' = NoBuffer
  /\ UNCHANGED <<streamVars, dma, slotTask, locked, pointer, screenVars, processed>>

\* maybe_release_pipewire_buffer_lock
ReleaseLock ==
  /\ releasing # NoBuffer
  /\ locked' = locked \ {releasing} /\ releasing' = NoBuffer
  /\ UNCHANGED <<streamVars, dma, dequeued, slotTask, download, frame, pointer, screenVars,
                 processed>>

-----------------------------------------------------------------------------
(* The main thread: the client and its framebuffer. *)

\* render_frame: a client that is gone, or that awaits another size, gets no frame
\* (grd_session_vnc_take_buffer).
RenderFrame ==
  /\ InLoop /\ frame
  /\ frame' = FALSE
  /\ UNCHANGED <<streamVars, dma, dequeued, eglVars, pointer, screenVars, processed>>

\* render_mouse_pointer; the client is there when a pointer moves, a restriction of the model.
RenderMousePointer ==
  /\ InLoop /\ pointer # "none" /\ (rfbClient \/ pointer = "bitmap")
  /\ pointer' = "none"
  /\ UNCHANGED <<streamVars, dma, dequeued, eglVars, frame, screenVars, processed>>

\* handle_socket_data, once the encodings are known: resize_vnc_framebuffer.
HandleSocketData ==
  /\ InLoop /\ rfbClient
  /\ encodings' = TRUE
  /\ screen' = IF resize # 0 THEN resize ELSE screen
  /\ resize' = 0
  /\ UNCHANGED <<streamVars, dma, dequeued, eglVars, frame, pointer, format, rfbClient,
                 processed>>

\* handle_client_gone; not while a size is pending, a restriction of the model.
ClientGone ==
  /\ InLoop /\ rfbClient /\ resize = 0
  /\ rfbClient' = FALSE
  /\ UNCHANGED <<streamVars, dma, dequeued, eglVars, frame, pointer, format, screen, resize,
                 encodings, processed>>

\* grd_session_vnc_stop drops the stream, after an error (grd_session_vnc_notify_error), when
\* the client is gone or when the session ends: grd_vnc_pipewire_stream_finalize.
Finalize ==
  /\ InLoop
  /\ stream' = "syncing" /\ dequeuing' = FALSE
  /\ UNCHANGED <<dma, bufs, dequeued, waitsFor, eglVars, frame, pointer, screenVars, formats,
                 processed>>

\* grd_vnc_pipewire_stream_finalize: grd_egl_thread_sync was answered, hence no task of the
\* stream is left (TasksOnce of EglThread), and pw_stream_destroy removes the buffers.
Synced ==
  /\ stream = "syncing" /\ slotTask = NoBuffer /\ download = NoBuffer /\ releasing = NoBuffer
  /\ stream' = IF bufs = {} THEN "gone" ELSE "destroying"
  /\ UNCHANGED <<dma, bufs, dequeued, waitsFor, eglVars, frame, pointer, screenVars, dequeuing,
                 formats, processed>>

\* What PipeWire's main loop and the finalization do next on their own.
StreamGoesOn ==
  \/ \E b \in PwBuffer : AddBuffer(b) \/ AwaitUnlocked(b)
  \/ StartStreaming \/ RemoveBuffer \/ Synced
  \/ stream = "failed" /\ Finalize

MainThread ==
  \/ \E size \in FrameSizes : ParamChanged(size)
  \/ \E b \in PwBuffer : AddBuffer(b) \/ AwaitUnlocked(b)
  \/ StartStreaming \/ RemoveBuffer \/ RenderFrame \/ RenderMousePointer
  \/ HandleSocketData \/ ClientGone \/ Finalize \/ Synced

EglThread == StartDownload \/ ReleaseLock \/ \E success \in BOOLEAN : FrameReady(success)

Next == MainThread \/ EglThread \/ \E batch \in Batches : Process(batch)

-----------------------------------------------------------------------------
(* Properties *)

TypeOK ==
  /\ stream \in {"connected", "adding", "streaming", "removing", "failed", "syncing",
                 "destroying", "gone"}
  /\ bufs \subseteq PwBuffer /\ locked \subseteq PwBuffer
  /\ {waitsFor, slotTask, download, releasing} \subseteq PwBuffer \cup {NoBuffer}
  /\ pointer \in {"none", "moved", "bitmap"}
  /\ {frame, dma, encodings, rfbClient, dequeuing} \subseteq BOOLEAN
  /\ {format, screen} \subseteq FrameSizes /\ resize \in FrameSizes \cup {0}

\* A buffer is away from PipeWire exactly while the EGL thread has it, and once; it is
\* locked from before until it was queued again, and no thread has a buffer that PipeWire
\* removed (on_stream_remove_buffer: "Ensure buffer is not locked any more",
\* grd-vnc-pipewire-stream.c:579).
DownloadsHold ==
  /\ \A b \in PwBuffer : dequeued[b] = IF b \in {slotTask, download} THEN 1 ELSE 0
  /\ locked = {slotTask, download, releasing} \ {NoBuffer}
  /\ slotTask # NoBuffer => slotTask \notin {download, releasing}
  /\ download # NoBuffer => download # releasing
  /\ locked \subseteq bufs

\* The framebuffer has the size of the stream, or will have it as soon as the client's
\* encodings are known.
ScreenFollowsStream ==
  formats > 0 => (IF resize # 0 THEN resize = format /\ ~encodings ELSE screen = format)

\* The stream streams, or it is gone, and its frames are delivered.
StreamSettled ==
  /\ stream \in {"connected", "streaming", "gone"}
  /\ {slotTask, download, releasing} = {NoBuffer}
  /\ frame => stream = "gone"
================================================================================
