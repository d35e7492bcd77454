------------------------------- MODULE AudioInput -------------------------------
(***************************************************************************)
(* The microphone of the client (grd-rdp-dvc-audio-input.c).               *)
(*                                                                         *)
(* The channel is open while somebody records from the PipeWire source:    *)
(* the main thread has the stream and the timer, the socket thread opens   *)
(* the channel, the channel thread negotiates and decodes, and the data    *)
(* thread of PipeWire takes the samples.                                   *)
(***************************************************************************)
EXTENDS Naturals, Sequences, SequencesExt

CONSTANTS
  MaxPackets, \* bound: Data PDUs with samples
  MaxTake,    \* bound: samples that PipeWire asks for at once
  MaxOpens    \* bound: times the channel is opened

VARIABLES
  recording, \* the stream: "paused", "streaming", or "closing" in ensure_dvc_is_closed
  prevented, \* prevent_dvc_initialization
  opened,    \* channel_opened, and "opening" while maybe_init has no timer yet
  deadline,  \* protocol_timeout_source is armed
  negotiation, runtime, \* negotiation_state, runtime_state
  clientFormats, codec, \* alaw_ and pcm_client_format_idx that are set, codec
  microphone,  \* the channel thread runs
  captured,    \* pending_frames: packets of samples, which are numbered as they arrive
  heard,       \* samples that PipeWire got
  lastSample, packets, opens,
  unavailable, audioGone \* channel_unavailable; the channel was disposed

channelVars == <<negotiation, runtime, clientFormats, codec>>
sampleVars == <<captured, heard, lastSample, packets>>
vars == <<recording, prevented, opened, deadline, channelVars, microphone, sampleVars, opens,
          unavailable, audioGone>>

Init ==
  /\ recording = "paused" /\ prevented = TRUE /\ opened = "no" /\ deadline = FALSE
  /\ negotiation = "version" /\ runtime = "incoming" /\ clientFormats = {} /\ codec = "none"
  /\ microphone = FALSE /\ captured = <<>> /\ heard = <<>> /\ lastSample = 0 /\ packets = 0
  /\ opens = 0 /\ unavailable = FALSE /\ audioGone = FALSE

\* requested_format_idx.
Requested == IF "alaw" \in clientFormats THEN "alaw" ELSE "pcm"

-----------------------------------------------------------------------------
(* The stream, on the main thread *)

\* pipewire_stream_state_changed to PAUSED: ensure_dvc_is_closed, which waits for
\* prevent_dvc_init_mutex and then for the channel thread to end.
Paused ==
  /\ ~audioGone /\ recording = "streaming" /\ opened # "opening"
  /\ prevented' = TRUE
  /\ recording' = "closing"
  /\ UNCHANGED <<opened, deadline, channelVars, microphone, sampleVars, opens, unavailable, audioGone>>

Closed ==
  /\ opened' = "no" /\ microphone' = FALSE
  /\ deadline' = FALSE
  /\ captured' = <<>>
  /\ negotiation' = "version" /\ runtime' = "incoming"
  /\ clientFormats' = {} /\ codec' = "none"

EnsureDvcIsClosed ==
  /\ recording = "closing"
  /\ Closed
  /\ recording' = "paused"
  /\ UNCHANGED <<prevented, heard, lastSample, packets, opens, unavailable, audioGone>>

\* To STREAMING: ensure_dvc_can_be_opened.
Streaming ==
  /\ ~audioGone /\ recording = "paused"
  /\ recording' = "streaming" /\ prevented' = FALSE
  /\ UNCHANGED <<opened, deadline, channelVars, microphone, sampleVars, opens, unavailable, audioGone>>

\* To ERROR, pipewire_core_error with EPIPE, or a negative creation status.
Failed ==
  /\ ~audioGone /\ ~unavailable /\ recording # "closing"
  /\ unavailable' = TRUE
  /\ UNCHANGED <<recording, prevented, opened, deadline, channelVars, microphone, sampleVars, opens, audioGone>>

\* initiate_channel_teardown.
InitiateChannelTeardown ==
  /\ deadline /\ recording # "closing"
  /\ deadline' = FALSE /\ unavailable' = TRUE
  /\ UNCHANGED <<recording, prevented, opened, channelVars, microphone, sampleVars, opens, audioGone>>

\* The channel is torn down: grd_rdp_dvc_audio_input_dispose, under the mutex of the
\* channels, which the socket thread holds in maybe_init.
Dispose ==
  /\ unavailable /\ ~audioGone /\ opened # "opening" /\ recording # "closing"
  /\ audioGone' = TRUE /\ prevented' = TRUE /\ recording' = "paused"
  /\ Closed
  /\ UNCHANGED <<heard, lastSample, packets, opens, unavailable>>

-----------------------------------------------------------------------------
(* The socket thread *)

\* grd_rdp_dvc_audio_input_maybe_init: the channel thread runs as soon as the channel is
\* open, the timer is armed afterwards.
MaybeInit ==
  /\ opens < MaxOpens
  /\ ~audioGone /\ ~unavailable /\ opened = "no" /\ ~prevented
  /\ opens' = opens + 1
  /\ \/ opened' = "opening" /\ microphone' = TRUE /\ UNCHANGED unavailable
     \/ unavailable' = TRUE /\ UNCHANGED <<opened, microphone>>
  /\ UNCHANGED <<recording, prevented, deadline, channelVars, sampleVars, audioGone>>

ArmTimeout ==
  /\ opened = "opening"
  /\ opened' = "yes" /\ deadline' = TRUE
  /\ UNCHANGED <<recording, prevented, channelVars, microphone, sampleVars, opens, unavailable, audioGone>>

-----------------------------------------------------------------------------
(* PDUs of the client, on the channel thread, which ends with the first error *)

TearDown == unavailable' = TRUE /\ microphone' = FALSE

\* audin_receive_version, of a valid one.
ReceiveVersion ==
  /\ microphone
  /\ IF negotiation = "version"
     THEN negotiation' = "incoming" /\ UNCHANGED <<unavailable, microphone>>
     ELSE TearDown /\ UNCHANGED negotiation
  /\ UNCHANGED <<recording, prevented, opened, deadline, runtime, clientFormats, codec, sampleVars,
                 opens, audioGone>>

\* audin_incoming_data: one that nobody waits for is ignored, a second one is taken.
IncomingData ==
  /\ microphone
  /\ negotiation' = IF negotiation = "incoming" THEN "formats" ELSE negotiation
  /\ runtime' = IF negotiation = "complete" THEN "data" ELSE runtime
  /\ UNCHANGED <<recording, prevented, opened, deadline, clientFormats, codec, microphone, sampleVars,
                 opens, unavailable, audioGone>>

\* audin_receive_formats: A-law is preferred.
ReceiveFormats(formats) ==
  /\ microphone
  /\ IF negotiation = "formats" /\ formats # {}
     THEN negotiation' = "change" /\ clientFormats' = formats /\ UNCHANGED <<unavailable, microphone>>
     ELSE TearDown /\ UNCHANGED <<negotiation, clientFormats>>
  /\ UNCHANGED <<recording, prevented, opened, deadline, runtime, codec, sampleVars, opens, audioGone>>

\* audin_receive_format_change: once, to the format that was requested.
ReceiveFormatChange(format) ==
  /\ microphone
  /\ IF negotiation = "change" /\ format = Requested
     THEN negotiation' = "reply" /\ codec' = format /\ UNCHANGED <<unavailable, microphone>>
     ELSE TearDown /\ UNCHANGED <<negotiation, codec>>
  /\ UNCHANGED <<recording, prevented, opened, deadline, runtime, clientFormats, sampleVars, opens, audioGone>>

\* audin_open_reply.
OpenReply(success) ==
  /\ microphone
  /\ deadline' = IF negotiation = "reply" THEN FALSE ELSE deadline
  /\ IF negotiation = "reply" /\ success
     THEN negotiation' = "complete" /\ runtime' = "incoming" /\ UNCHANGED <<unavailable, microphone>>
     ELSE TearDown /\ UNCHANGED <<negotiation, runtime>>
  /\ UNCHANGED <<recording, prevented, opened, clientFormats, codec, sampleVars, opens, audioGone>>

\* audin_data with n samples, none when they cannot be decoded.
Data(n) ==
  /\ microphone /\ packets < MaxPackets
  /\ IF negotiation = "complete" /\ runtime = "data"
     THEN /\ runtime' = "incoming" /\ packets' = packets + 1
          /\ captured' = IF n = 0 THEN captured
                         ELSE Append(captured, [i \in 1..n |-> lastSample + i])
          /\ lastSample' = lastSample + n
          /\ UNCHANGED <<unavailable, microphone>>
     ELSE TearDown /\ UNCHANGED <<runtime, captured, lastSample, packets>>
  /\ UNCHANGED <<recording, prevented, opened, deadline, negotiation, clientFormats, codec, heard,
                 opens, audioGone>>

-----------------------------------------------------------------------------
(* The data thread *)

\* The packets that are left when n samples are taken from the head.
RECURSIVE After(_, _)
After(queue, n) ==
  CASE queue = <<>> \/ n = 0 -> queue
    [] Len(Head(queue)) <= n -> After(Tail(queue), n - Len(Head(queue)))
    [] OTHER -> <<SubSeq(Head(queue), n + 1, Len(Head(queue)))>> \o Tail(queue)

\* clear_old_frames: only the last packet is kept when the first one is too old.
ClearOldFrames(queue, old) == IF old THEN <<Last(queue)>> ELSE queue

\* pipewire_stream_process: the buffer gets the samples that there are, up to n.
Process(n, old) ==
  /\ recording = "streaming" /\ captured # <<>>
  /\ LET kept == ClearOldFrames(captured, old)
         samples == FlattenSeq(kept)
     IN /\ captured' = After(kept, n)
        /\ heard' = heard \o SubSeq(samples, 1, IF n < Len(samples) THEN n ELSE Len(samples))
  /\ UNCHANGED <<recording, prevented, opened, deadline, channelVars, microphone, lastSample, packets,
                 opens, unavailable, audioGone>>

Pdu ==
  \/ ReceiveVersion
  \/ IncomingData
  \/ \E formats \in SUBSET {"alaw", "pcm"} : ReceiveFormats(formats)
  \/ \E format \in {"alaw", "pcm"} : ReceiveFormatChange(format)
  \/ \E success \in BOOLEAN : OpenReply(success)
  \/ \E n \in 0..2 : Data(n)

Next ==
  \/ Paused \/ EnsureDvcIsClosed \/ Streaming \/ Failed \/ InitiateChannelTeardown \/ Dispose
  \/ MaybeInit \/ ArmTimeout
  \/ Pdu
  \/ \E n \in 1..MaxTake, old \in BOOLEAN : Process(n, old)

-----------------------------------------------------------------------------
(* Properties *)

TypeOK ==
  /\ recording \in {"paused", "streaming", "closing"} /\ opened \in {"no", "opening", "yes"}
  /\ {prevented, deadline, microphone, unavailable, audioGone} \subseteq BOOLEAN
  /\ negotiation \in {"version", "incoming", "formats", "change", "reply", "complete"}
  /\ runtime \in {"incoming", "data"} /\ codec \in {"none", "alaw", "pcm"}
  /\ clientFormats \subseteq {"alaw", "pcm"}
  /\ \A i \in DOMAIN captured : captured[i] # <<>>
  /\ {packets, opens, lastSample} \subseteq Nat

\* Whoever starts to record hears nothing that was said before: a channel that is closed has
\* no samples, no thread and no timer, and starts to negotiate at the beginning.
ClosedIsQuiet ==
  prevented /\ recording = "paused" =>
    /\ opened = "no" /\ ~microphone /\ ~deadline
    /\ captured = <<>> /\ negotiation = "version" /\ codec = "none"

\* Samples are heard in the order in which they came, each once, with those that are waiting
\* behind them.
SamplesInOrder ==
  LET samples == heard \o FlattenSeq(captured)
  IN \A i \in 1..(Len(samples) - 1) : samples[i] < samples[i + 1]

\* Samples are decoded with the codec that both sides agreed on.
CodecAgreed == negotiation \in {"reply", "complete"} => codec = Requested

\* A client that was asked to open the microphone answers or loses the channel.
NegotiationEnds == opened = "no" \/ negotiation = "complete"
================================================================================
