----------------------------- MODULE CameraSamples -----------------------------
(***************************************************************************)
(* The buffers of a camera stream (grd-rdp-camera-stream.c) between        *)
(* PipeWire, the requests to the client and the decode thread              *)
(* (grd-decode-session.c, grd-decode-session-sw-avc.c).                    *)
(*                                                                         *)
(* The camera thread dequeues a buffer and requests a sample for it, the   *)
(* channel thread takes the sample, the decode thread decodes it into the  *)
(* buffer and returns that to PipeWire.  PipeWire may remove the buffers   *)
(* meanwhile; each has a lock that one thread takes and another releases.  *)
(***************************************************************************)
EXTENDS Naturals, Sequences, FiniteSets

CONSTANTS
  Buffers,   \* buffers of PipeWire
  MaxFrames, \* MAX_N_PENDING_FRAMES
  MaxStarts  \* bound: starts of the stream, each with buffers of its own

VARIABLES
  serving,   \* can_serve_frames
  registered, inPipeWire, locked, \* buffers that exist, that PipeWire has, whose lock is taken
  dequeued, decoding,             \* dequeued_buffers and buffers_in_decoding
  requests,  \* pending_samples of the stream
  channel,   \* the channel thread: the sample it has and how far it is with it
  frames, tasks, \* pending_frames and task_queue of the decode session
  decoder,   \* the decode thread: its task and how far it is
  removing,  \* the camera thread waits in on_stream_remove_buffer: for what is left
  starts, phase \* phase: the stream is "up", the device "failed", is "down", "gone"

bufferVars == <<registered, inPipeWire, locked, dequeued, decoding>>
decodeVars == <<frames, tasks, decoder>>
vars == <<serving, bufferVars, requests, channel, decodeVars, removing, starts, phase>>

NoBuffer == "none"
IdleThread == [step |-> "idle", buffer |-> NoBuffer, good |-> FALSE]

Init ==
  /\ serving = FALSE
  /\ registered = {} /\ inPipeWire = {} /\ locked = {} /\ dequeued = {} /\ decoding = {}
  /\ requests = <<>> /\ channel = IdleThread
  /\ frames = {} /\ tasks = <<>> /\ decoder = IdleThread
  /\ removing = {} /\ starts = 0 /\ phase = "up"

\* The camera thread is in no callback of PipeWire.
CameraIdle == removing = {} /\ phase # "gone"

-----------------------------------------------------------------------------
(* The camera thread *)

\* on_stream_add_buffer: PipeWire negotiates buffers while the stream does not run, and the
\* decode session is reset for the first one.
AddBuffer(b) ==
  /\ CameraIdle /\ phase # "down" /\ ~serving /\ b \notin registered /\ starts < MaxStarts
  /\ registered' = registered \cup {b}
  /\ inPipeWire' = inPipeWire \cup {b}
  /\ UNCHANGED <<serving, locked, dequeued, decoding, requests, channel, decodeVars, removing, starts, phase>>

\* The run was acknowledged (grd_rdp_camera_stream_notify_stream_started): the run before
\* was stopped, which waits for its samples, and the channel thread brought the response.
StartServing ==
  /\ CameraIdle /\ ~serving /\ starts < MaxStarts /\ phase = "up"
  /\ requests = <<>> /\ channel.step = "idle"
  /\ serving' = TRUE /\ starts' = starts + 1
  /\ UNCHANGED <<bufferVars, requests, channel, decodeVars, removing, phase>>

\* stop_camera_stream, or the stream is inhibited.
StopServing ==
  /\ CameraIdle /\ serving
  /\ serving' = FALSE
  /\ UNCHANGED <<bufferVars, requests, channel, decodeVars, removing, starts, phase>>

\* on_frame_clock_trigger: acquiring the lock of the buffer waits for who releases it.
FrameClockTrigger(b) ==
  /\ CameraIdle /\ serving /\ Cardinality(frames) <= MaxFrames
  /\ b \in inPipeWire \ locked
  /\ inPipeWire' = inPipeWire \ {b}
  /\ locked' = locked \cup {b} /\ dequeued' = dequeued \cup {b}
  /\ requests' = Append(requests, b)
  /\ UNCHANGED <<serving, registered, decoding, channel, decodeVars, removing, starts, phase>>

\* queue_corrupted_pw_buffer for some buffers that leave the tables.
Corrupted(B) ==
  /\ dequeued' = dequeued \ B /\ decoding' = decoding \ B
  /\ inPipeWire' = inPipeWire \cup B /\ locked' = locked \ B

\* discard_sample_requests (SAMPLE_TIMEOUT_MS after the request to stop), holding
\* state_mutex: a buffer that was discarded before is not found.
SampleTimeout ==
  /\ CameraIdle /\ phase # "down" /\ ~serving /\ requests # <<>> /\ channel.step = "idle"
  /\ requests' = <<>>
  /\ Corrupted({requests[i] : i \in DOMAIN requests} \cap dequeued)
  /\ UNCHANGED <<serving, registered, channel, decodeVars, removing, starts, phase>>

\* discard_unanswered_sample_requests.
Unanswered == dequeued \ decoding

\* on_stream_remove_buffer for all of them, when PipeWire drops the buffers of a stream that
\* does not run, or when the stream is destroyed.
RemoveBuffers ==
  /\ CameraIdle /\ ~serving /\ registered # {}
  /\ phase = "down" => requests = <<>>
  /\ removing' = registered
  /\ Corrupted(Unanswered)
  /\ UNCHANGED <<serving, registered, requests, channel, decodeVars, starts, phase>>

\* ensure_unlocked_pipewire_buffer, and then the buffer and its sample are gone; the next
\* buffer is discarded before it is waited for, too.
RemoveBuffer(b) ==
  /\ b \in removing \ locked
  /\ removing' = removing \ {b} /\ registered' = registered \ {b}
  /\ LET B == Unanswered
     IN  /\ dequeued' = dequeued \ B /\ UNCHANGED decoding
         /\ inPipeWire' = (inPipeWire \cup B) \ {b} /\ locked' = locked \ B
  /\ UNCHANGED <<serving, requests, channel, decodeVars, starts, phase>>

\* grd_rdp_dvc_camera_device_dispose, destroy_camera_streams_in_camera_thread.
Dispose ==
  /\ phase \in {"up", "failed"} /\ channel.step = "idle"
  /\ phase' = "down"
  /\ UNCHANGED <<serving, bufferVars, requests, channel, decodeVars, removing, starts>>

\* stream_context_free: discard_pending_sample_requests, then pw_stream_destroy removes the
\* buffers (RemoveBuffers), and the session ends with its thread.
TearDown ==
  /\ phase = "down" /\ removing = {}
  /\ IF requests # <<>> \/ serving
     THEN /\ requests' = <<>> /\ serving' = FALSE
          /\ Corrupted({requests[i] : i \in DOMAIN requests} \cap dequeued)
          /\ UNCHANGED phase
     ELSE /\ registered = {}
          /\ phase' = "gone"
          /\ UNCHANGED <<serving, requests, inPipeWire, locked, dequeued, decoding>>
  /\ UNCHANGED <<registered, channel, decodeVars, removing, starts>>

-----------------------------------------------------------------------------
(* The channel thread, holding state_mutex until the sample is submitted *)

\* device_sample_response and device_sample_error_response; a stray one is ignored.
SampleResponse(good) ==
  /\ phase = "up" /\ channel.step = "idle" /\ requests # <<>>
  /\ requests' = Tail(requests)
  /\ channel' = [step |-> IF good THEN "announce" ELSE "submit", buffer |-> Head(requests), good |-> FALSE]
  /\ UNCHANGED <<serving, bufferVars, decodeVars, removing, starts, phase>>

\* grd_rdp_camera_stream_announce_new_sample; loading fails if the sample is too large.
AnnounceNewSample ==
  /\ channel.step = "announce"
  /\ \E loaded \in BOOLEAN :
       channel' = [channel EXCEPT !.step = "submit", !.good = loaded /\ channel.buffer \in dequeued]
  /\ decoding' = decoding \cup ({channel.buffer} \cap dequeued)
  /\ UNCHANGED <<serving, registered, inPipeWire, locked, dequeued, requests, decodeVars, removing, starts, phase>>

\* grd_rdp_camera_stream_submit_sample until it gives up dequeued_buffers_mutex.
SubmitSample ==
  /\ channel.step = "submit"
  /\ IF channel.buffer \in dequeued
     THEN channel' = [channel EXCEPT !.step = "found"] /\ decoding' = decoding \cup {channel.buffer}
     ELSE channel' = IdleThread /\ UNCHANGED decoding
  /\ UNCHANGED <<serving, registered, inPipeWire, locked, dequeued, requests, decodeVars, removing, starts, phase>>

\* The rest of it: grd_decode_session_decode_frame, or discard_failed_sample_request.
DecodeFrame ==
  /\ channel.step = "found" /\ channel' = IdleThread
  /\ IF channel.good /\ serving
     THEN /\ frames' = frames \cup {channel.buffer} /\ tasks' = Append(tasks, channel.buffer)
          /\ UNCHANGED <<inPipeWire, locked, dequeued, decoding>>
     ELSE Corrupted({channel.buffer}) /\ UNCHANGED <<frames, tasks>>
  /\ UNCHANGED <<serving, registered, requests, decoder, removing, starts, phase>>

\* The device fails (transition_into_fatal_error_state): responses are ignored from then on.
Fail ==
  /\ phase = "up" /\ channel.step = "idle"
  /\ phase' = "failed"
  /\ UNCHANGED <<serving, bufferVars, requests, channel, decodeVars, removing, starts>>

-----------------------------------------------------------------------------
(* The decode thread *)

\* decode_frames with the decode_frame of the session.
DecodeNext ==
  /\ decoder.step = "idle" /\ tasks # <<>>
  /\ tasks' = Tail(tasks) /\ frames' = frames \ {Head(tasks)}
  /\ decoder' = [IdleThread EXCEPT !.step = "decoded", !.buffer = Head(tasks)]
  /\ UNCHANGED <<serving, bufferVars, requests, channel, removing, starts, phase>>

\* on_frame_ready: out of the tables, then to PipeWire, then unlocked.
FrameReady ==
  /\ decoder.step = "decoded"
  /\ dequeued' = dequeued \ {decoder.buffer} /\ decoding' = decoding \ {decoder.buffer}
  /\ decoder' = [decoder EXCEPT !.step = "queue"]
  /\ UNCHANGED <<serving, registered, inPipeWire, locked, requests, channel, frames, tasks, removing, starts, phase>>
QueueBuffer ==
  /\ decoder.step = "queue"
  /\ inPipeWire' = inPipeWire \cup {decoder.buffer}
  /\ decoder' = [decoder EXCEPT !.step = "unlock"]
  /\ UNCHANGED <<serving, registered, locked, dequeued, decoding, requests, channel, frames, tasks, removing, starts, phase>>
UnlockBuffer ==
  /\ decoder.step = "unlock"
  /\ locked' = locked \ {decoder.buffer}
  /\ decoder' = IdleThread
  /\ UNCHANGED <<serving, registered, inPipeWire, dequeued, decoding, requests, channel, frames, tasks, removing, starts, phase>>

ChannelThread == AnnounceNewSample \/ SubmitSample \/ DecodeFrame
DecodeThread == DecodeNext \/ FrameReady \/ QueueBuffer \/ UnlockBuffer

Next ==
  \/ \E b \in Buffers : AddBuffer(b) \/ FrameClockTrigger(b) \/ RemoveBuffer(b)
  \/ StartServing \/ StopServing \/ SampleTimeout \/ RemoveBuffers \/ Dispose \/ TearDown \/ Fail
  \/ \E good \in BOOLEAN : SampleResponse(good)
  \/ ChannelThread \/ DecodeThread

-----------------------------------------------------------------------------
(* Properties *)

TypeOK ==
  /\ registered \cup inPipeWire \cup locked \cup dequeued \subseteq Buffers
  /\ decoding \subseteq dequeued
  /\ Len(requests) <= Cardinality(Buffers) /\ starts <= MaxStarts
  /\ channel.step \in {"idle", "announce", "submit", "found"}
  /\ decoder.step \in {"idle", "decoded", "queue", "unlock"}

\* The buffers that the decode thread works on or is to work on.
InDecoder == ({tasks[i] : i \in DOMAIN tasks} \cup {decoder.buffer}) \ {NoBuffer}

\* A buffer is with PipeWire or with one of the threads, which holds its lock; what is
\* decoded exists, and is decoded once (the assertions of on_frame_ready, submit_sample and
\* decode_frame); at the end nothing is left.
BuffersOwned ==
  /\ registered \ locked \subseteq inPipeWire
  /\ locked = dequeued \cup IF decoder.step \in {"queue", "unlock"} THEN {decoder.buffer} ELSE {}
  /\ InDecoder \subseteq registered
  /\ decoder.step = "decoded" => decoder.buffer \in dequeued
  /\ channel.step = "found" => channel.buffer \in dequeued \ frames /\ channel.buffer \notin InDecoder
  /\ frames = {tasks[i] : i \in DOMAIN tasks} /\ Cardinality(frames) = Len(tasks)
  /\ phase = "gone" => dequeued = {} /\ tasks = <<>>

\* Nothing holds a buffer for ever once the stream does not run.
BuffersReturn == removing = {} /\ (serving \/ locked = {})
================================================================================
