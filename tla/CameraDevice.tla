----------------------------- MODULE CameraDevice -----------------------------
(***************************************************************************)
(* A camera of the client (grd-rdp-dvc-camera-device.c) and the control of *)
(* its streams (grd-rdp-camera-stream.c).                                  *)
(*                                                                         *)
(* The channel thread takes the responses of the client, the camera thread *)
(* the events that these leave and the callbacks of PipeWire.  The client  *)
(* starts streams one by one and stops all of them at once: a stream that  *)
(* runs on when another one stops has to be started again.                 *)
(***************************************************************************)
EXTENDS Naturals, FiniteSets

CONSTANTS
  Streams,    \* the streams of the camera
  MaxRuns,    \* bound: changes of the consumers of its streams
  MaxSamples, \* bound: samples that a stream waits for
  Calm        \* no stream stops while a request to start streams is under way

VARIABLES
  state,   \* DeviceState
  ready,   \* initialization_source is ready
  todo,    \* pending_media_type_lists, then pending_property_values
  streams, \* the camera streams: there, enabled, its run and the one acknowledged, ...
  queued, pending, running, \* the runs that are to be started, were requested, were started
  request, \* pending_client_request_type
  events,  \* pending_events
  wake,    \* event_source is ready
  samples, \* pending_samples
  timer,   \* sample_timeout_source
  client,  \* the streams that run at the client
  runs

initVars == <<state, ready, todo>>
tables == <<queued, pending, running>>
sampleVars == <<samples, timer>>
vars == <<initVars, streams, tables, request, events, wake, sampleVars, client, runs>>

Nothing == [s \in Streams |-> 0]
In(table) == {s \in Streams : table[s] # 0}
NoSample == \A s \in Streams : samples[s] = 0
Acks == {"started", "stopped"}

Init ==
  /\ state = "activation" /\ ready = FALSE /\ todo = 0
  /\ streams = [s \in Streams |-> [there |-> FALSE, enabled |-> FALSE, run |-> 0, acked |-> 0,
                                   inhibited |-> FALSE, armed |-> FALSE]]
  /\ queued = Nothing /\ pending = Nothing /\ running = Nothing
  /\ request = "none" /\ events = {} /\ wake = FALSE
  /\ samples = Nothing /\ timer = FALSE
  /\ client = {} /\ runs = 0

-----------------------------------------------------------------------------
(* Initialization *)

\* dvc_creation_status_cb: a channel that fails to open is an error of the device, which
\* the enumerator answers by removing it.
CreationStatus ==
  /\ state = "activation" /\ ~ready
  /\ ready' = TRUE
  /\ UNCHANGED <<state, todo, streams, tables, request, events, wake, sampleVars, client, runs>>

\* initialize_device: activate_device or create_streams, as the state says.  A stream needs
\* a media type that is supported, and can fail to be set up.
InitializeDevice ==
  /\ ready /\ ready' = FALSE
  /\ CASE state = "activation" -> state' = "activating" /\ UNCHANGED streams
       [] state = "prepare" ->
            /\ state' = "done"
            /\ \E usable \in SUBSET Streams :
                 streams' = [s \in Streams |-> [streams[s] EXCEPT !.there = s \in usable]]
       [] OTHER -> UNCHANGED <<state, streams>>
  /\ UNCHANGED <<todo, tables, request, events, wake, sampleVars, client, runs>>

\* The responses that lead from one state to the next: to each request the one that fits,
\* with as many streams and properties as the client has; start_preparing_streams.
Step(answer, n) ==
  CASE state = "activating" /\ answer = "success" -> [state |-> "list", todo |-> 0]
    [] state = "list" /\ answer = "list" /\ n > 0 -> [state |-> "types", todo |-> n]
    [] state = "types" /\ answer = "types" /\ n > 0 ->
         IF todo > 1 THEN [state |-> "types", todo |-> todo - 1]
         ELSE [state |-> "properties", todo |-> 0]
    [] state = "types" /\ answer = "types, version 1" /\ todo = 1 -> [state |-> "prepare", todo |-> 0]
    [] state = "properties" /\ answer = "properties" ->
         IF n > 0 THEN [state |-> "values", todo |-> n] ELSE [state |-> "prepare", todo |-> 0]
    [] state = "values" /\ answer = "value" ->
         IF todo > 1 THEN [state |-> "values", todo |-> todo - 1]
         ELSE [state |-> "prepare", todo |-> 0]
    [] OTHER -> [state |-> "error", todo |-> 0]

\* device_success_response, device_stream_list_response and the others until the streams
\* are there: whatever does not fit is a fatal error (device_error_response is one always).
InitialResponse(answer, n) ==
  /\ state \notin {"error", "shutdown", "done"}
  /\ state' = Step(answer, n).state
  /\ todo' = Step(answer, n).todo
  /\ ready' = (ready \/ state' = "prepare")
  /\ UNCHANGED <<streams, tables, request, events, wake, sampleVars, client, runs>>

\* try_handle_runtime_success_response.
SuccessResponse ==
  /\ state = "done" /\ request # "none" /\ events \cap Acks = {}
  /\ events' = events \cup {IF request = "start" THEN "started" ELSE "stopped"}
  /\ client' = IF request = "start" THEN client \cup In(pending) ELSE {}
  /\ wake' = TRUE
  /\ UNCHANGED <<initVars, streams, tables, request, sampleVars, runs>>

\* device_error_response, and every response that nobody asked for.
StrayResponse ==
  /\ state = "done"
  /\ state' = "error"
  /\ UNCHANGED <<ready, todo, streams, tables, request, events, wake, sampleVars, client, runs>>

-----------------------------------------------------------------------------
(* Starting and stopping *)

\* can_serve_frames, and the frame clock after maybe_start_camera_loop.
CanServe(r) == r.enabled /\ r.run = r.acked /\ ~r.inhibited
Looping(r) == [r EXCEPT !.armed = @ \/ CanServe(r)]

\* start_camera_stream with grd_rdp_dvc_camera_device_start_stream; the number of a run
\* skips the acknowledged one when it wraps.
StreamStarts(s) ==
  /\ streams[s].there /\ ~streams[s].enabled /\ runs < MaxRuns
  /\ runs' = runs + 1
  /\ streams' = [streams EXCEPT ![s].enabled = TRUE, ![s].run = @ + 1]
  /\ queued' = [queued EXCEPT ![s] = streams[s].run + 1]
  /\ wake' = TRUE
  /\ UNCHANGED <<initVars, pending, running, request, events, sampleVars, client>>

\* Mutant of Restarted: forgets to hold the frame clock of the others.
Restarted_Serves(s) ==
  /\ running' = Nothing
  /\ queued' = [o \in Streams |-> IF o = s THEN 0 ELSE IF queued[o] = 0 THEN running[o] ELSE queued[o]]
  /\ streams' = [streams EXCEPT ![s].enabled = FALSE, ![s].armed = FALSE]

\* grd_rdp_dvc_camera_device_stop_stream with queue_stream_restart.
Restarted(s) ==
  /\ running' = Nothing
  /\ queued' = [o \in Streams |-> IF o = s THEN 0 ELSE IF queued[o] = 0 THEN running[o] ELSE queued[o]]
  /\ streams' = [o \in Streams |->
       IF o = s THEN [streams[s] EXCEPT !.enabled = FALSE, !.armed = FALSE]
       ELSE IF running[o] # 0 THEN [streams[o] EXCEPT !.inhibited = TRUE, !.armed = FALSE]
       ELSE streams[o]]

\* stop_camera_stream: the stream is paused or in error, with or without having run.
StreamStops(s) ==
  /\ streams[s].there /\ runs < MaxRuns
  /\ Calm => pending = Nothing
  /\ runs' = runs + 1
  /\ Restarted(s)
  /\ events' = events \cup {"stop"}
  /\ wake' = TRUE
  /\ UNCHANGED <<initVars, pending, request, sampleVars, client>>

\* ack_started_streams: a run that was replaced meanwhile is not the stream's anymore.
Started(s) == "started" \in events /\ pending[s] # 0 /\ pending[s] = streams[s].run

\* All samples were answered before the client is told to stop.
MayStop == NoSample /\ "stop" \in events

\* handle_device_events: maybe_handle_client_success_response, maybe_set_sample_timeout,
\* and stop_camera_streams or start_queued_camera_streams.
HandleEvents ==
  /\ wake /\ wake' = FALSE
  /\ IF request # "none" /\ events \cap Acks = {}
     THEN UNCHANGED <<streams, tables, request, events, timer>>
     ELSE /\ streams' = [s \in Streams |->
               IF Started(s) THEN Looping([streams[s] EXCEPT !.acked = pending[s], !.inhibited = FALSE])
               ELSE streams[s]]
          /\ running' = [s \in Streams |-> IF Started(s) THEN pending[s] ELSE running[s]]
          /\ timer' = (~MayStop /\ (timer \/ "stop" \in events))
          /\ IF MayStop
             THEN /\ request' = "stop" /\ events' = events \ (Acks \cup {"stop"})
                  /\ pending' = (IF "started" \in events THEN Nothing ELSE pending)
                  /\ UNCHANGED queued
             ELSE /\ events' = events \ Acks
                  /\ IF In(queued) # {} /\ "stop" \notin events
                     THEN request' = "start" /\ pending' = queued /\ queued' = Nothing
                     ELSE /\ request' = "none"
                          /\ pending' = (IF "started" \in events THEN Nothing ELSE pending)
                          /\ UNCHANGED queued
  /\ UNCHANGED <<initVars, samples, client, runs>>

-----------------------------------------------------------------------------
(* Samples *)

\* on_frame_clock_trigger with grd_rdp_dvc_camera_device_request_sample.
FrameClockTrigger(s) ==
  /\ streams[s].armed /\ CanServe(streams[s]) /\ samples[s] < MaxSamples
  /\ samples' = [samples EXCEPT ![s] = @ + 1]
  /\ UNCHANGED <<initVars, streams, tables, request, events, wake, timer, client, runs>>

\* device_sample_response and device_sample_error_response; who fails ignores them.
SampleResponse(s) ==
  /\ state = "done" /\ samples[s] > 0
  /\ samples' = [samples EXCEPT ![s] = @ - 1]
  /\ wake' = (wake \/ ((\A o \in Streams : samples'[o] = 0) /\ "stop" \in events))
  /\ UNCHANGED <<initVars, streams, tables, request, events, timer, client, runs>>

\* discard_sample_requests, SAMPLE_TIMEOUT_MS later.
SampleTimeout ==
  /\ timer /\ timer' = FALSE
  /\ samples' = Nothing
  /\ wake' = TRUE
  /\ UNCHANGED <<initVars, streams, tables, request, events, client, runs>>

-----------------------------------------------------------------------------
\* destroy_camera_streams_in_camera_thread, in the main thread.
Dispose ==
  /\ state # "shutdown"
  /\ state' = "shutdown"
  /\ UNCHANGED <<ready, todo, streams, tables, request, events, wake, sampleVars, client, runs>>

\* tear_down_streams with stream_context_free, in the camera thread.
TearDownStreams ==
  /\ state = "shutdown" /\ (timer \/ \E s \in Streams : streams[s].there)
  /\ streams' = [s \in Streams |-> [streams[s] EXCEPT !.there = FALSE, !.enabled = FALSE, !.armed = FALSE]]
  /\ queued' = Nothing /\ pending' = Nothing /\ running' = Nothing
  /\ samples' = Nothing /\ timer' = FALSE
  /\ UNCHANGED <<initVars, request, events, wake, client, runs>>

Answers == {"success", "list", "types", "types, version 1", "properties", "value"}

Next ==
  \/ CreationStatus \/ InitializeDevice
  \/ \E answer \in Answers, n \in 0..Cardinality(Streams) : InitialResponse(answer, n)
  \/ SuccessResponse \/ StrayResponse \/ HandleEvents \/ SampleTimeout
  \/ \E s \in Streams : StreamStarts(s) \/ StreamStops(s) \/ FrameClockTrigger(s) \/ SampleResponse(s)
  \/ Dispose \/ TearDownStreams

-----------------------------------------------------------------------------
(* Properties *)

TypeOK ==
  /\ state \in {"activation", "activating", "list", "types", "properties", "values", "prepare",
                "done", "error", "shutdown"}
  /\ request \in {"none", "start", "stop"} /\ events \subseteq Acks \cup {"stop"}
  /\ \A s \in Streams : samples[s] <= MaxSamples /\ {queued[s], pending[s], running[s]} \subseteq 0..streams[s].run
  /\ todo \in 0..Cardinality(Streams) /\ client \subseteq Streams

\* Samples are requested from streams that run at the client, and from none after the
\* request to stop them ("g_assert (device->pending_client_request_type !=
\* CLIENT_REQUEST_TYPE_STOP_STREAMS)").
StopAssertion == request = "stop" => \A s \in Streams : ~(streams[s].armed /\ CanServe(streams[s]))
SamplesOfRunning == state # "shutdown" => \A s \in Streams :
  /\ samples[s] > 0 => s \in client
  /\ streams[s].armed /\ CanServe(streams[s]) => running[s] = streams[s].run /\ s \in client

\* A request is answered before the next one is sent, and the client has no samples to send
\* when it is told to stop; a timer is there for samples that keep it from being told.
RequestsInTurn ==
  /\ In(pending) # {} => request = "start" \/ "started" \in events
  /\ request = "stop" /\ "stopped" \notin events => NoSample
  /\ timer => "stop" \in events

\* In the end the streams that have a consumer run, and no others do.
ConsumersServed == state = "done" =>
  /\ request = "none" /\ events = {}
  /\ client = {s \in Streams : streams[s].enabled}
  /\ \A s \in client : streams[s].armed
================================================================================
