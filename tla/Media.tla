--------------------------------- MODULE Media ---------------------------------
(***************************************************************************)
(* The dynamic channels of a session other than graphics and input: what   *)
(* they share (DvcStatus), the cameras of the client (CameraEnumerator,    *)
(* CameraDevice and the samples of one of its streams, CameraSamples), its *)
(* microphone (AudioInput) and its speakers (AudioPlayback for the         *)
(* channel, AudioStreams for the sound), and the detection of its network  *)
(* (Autodetection).  None of them reads the state of another; each has the *)
(* client, PipeWire and the main thread as its environment, so that a      *)
(* behaviour is one of them, as its scenario says.                         *)
(***************************************************************************)
EXTENDS Naturals, Sequences, FiniteSets

CONSTANTS Streams, MaxRuns, MaxSamples, Calm,     \* of CameraDevice
          Buffers, MaxFrames, MaxStarts,          \* of CameraSamples
          Names, MaxNews, CalmFails,              \* of CameraEnumerator
          MaxPackets, MaxTake, MaxOpens,          \* of AudioInput
          Sinks, PacketSize, MaxChunks, MaxSinks, \* of AudioStreams
          MaxBadTrainings,                        \* of AudioPlayback
          Channels, MaxIds,                       \* of DvcStatus
          MaxSeq, CtPings, MaxPings, StopsLate    \* of Autodetection

ASSUME MediaAssumption ==
  /\ {MaxRuns, MaxSamples, MaxNews, MaxPackets, MaxTake, MaxOpens, MaxChunks, MaxSinks,
      MaxBadTrainings, MaxIds, MaxPings} \subseteq Nat
  /\ {MaxFrames, MaxStarts, PacketSize} \subseteq Nat \ {0}
  /\ {Calm, CalmFails, StopsLate} \subseteq BOOLEAN
  /\ "disp" \in Channels /\ "none" \notin Names \cup Sinks
  /\ MaxSeq \in Nat /\ MaxSeq \div 4 >= 1 \* there is always a number that is free
  /\ CtPings \in Nat /\ CtPings >= 2      \* asserted in detect_network_characteristics()

VARIABLES
  scenario,
  state, ready, todo, streams, queued, pending, running, request, events, wake, samples, timer,
  client, runs,
  serving, registered, inPipeWire, locked, dequeued, decoding, requests, channel, frames, tasks,
  decoder, removing, starts, phase,
  version, toAdd, toRemove, source, manager, table, failing, failed, announced, stale, misled, news,
  recording, prevented, opened, deadline, negotiation, runtime, clientFormats, codec, microphone,
  captured, heard, lastSample, packets, opens, unavailable, audioGone,
  playing, active, soundLock, silent, lockHolder, tableHolder, dataThread, mainThread,
  encodeThread, wakeEncode, sound, sent, chunks, appeared,
  channelIs, started, transport, noInit, status, fallback, answerTimer, needFormats, needTraining,
  playCodec, setup, givenUp, playbackGone, badTrainings,
  idsGiven, dvc, statusOf, subscriptions, notified, notifySource, told, pendingCaps, protocolError,
  detection, ctState, pendingPings, ctPingSource, lastSequence, syncing, syncSource, shutDown,
  protocolStopped, sequences, pings, nextSequence, gfxConsumer, gfxHighNecessity, pingInterval,
  bwState, bwStopEvent, socketThread, measuring, gfx, stopping, emitted, failure

Device == INSTANCE CameraDevice
Samples == INSTANCE CameraSamples
Enumerator == INSTANCE CameraEnumerator
Microphone == INSTANCE AudioInput
Playback == INSTANCE AudioPlayback
Speakers == INSTANCE AudioStreams
Dvc == INSTANCE DvcStatus
Network == INSTANCE Autodetection

deviceVars == <<state, ready, todo, streams, queued, pending, running, request, events, wake,
                samples, timer, client, runs>>
samplesVars == <<serving, registered, inPipeWire, locked, dequeued, decoding, requests, channel,
                 frames, tasks, decoder, removing, starts, phase>>
enumeratorVars == <<version, toAdd, toRemove, source, manager, table, failing, failed, announced,
                    stale, misled, news>>
microphoneVars == <<recording, prevented, opened, deadline, negotiation, runtime, clientFormats,
                    codec, microphone, captured, heard, lastSample, packets, opens, unavailable,
                    audioGone>>
speakersVars == <<playing, active, soundLock, silent, lockHolder, tableHolder, dataThread,
                  mainThread, encodeThread, wakeEncode, sound, sent, chunks, appeared>>
playbackVars == <<channelIs, started, transport, noInit, status, fallback, answerTimer,
                  needFormats, needTraining, playCodec, setup, givenUp, playbackGone,
                  badTrainings>>
dvcVars == <<idsGiven, dvc, statusOf, subscriptions, notified, notifySource, told, pendingCaps,
             protocolError>>
networkVars == <<detection, ctState, pendingPings, ctPingSource, lastSequence, syncing,
                 syncSource, shutDown, protocolStopped, sequences, pings, nextSequence,
                 gfxConsumer, gfxHighNecessity, pingInterval, bwState, bwStopEvent, socketThread,
                 measuring, gfx, stopping, emitted, failure>>
vars == <<scenario, deviceVars, samplesVars, enumeratorVars, microphoneVars, speakersVars,
          playbackVars, dvcVars, networkVars>>

Scenarios == {"device", "samples", "enumerator", "microphone", "playback", "speakers", "dvc", "network"}

Init ==
  /\ scenario \in Scenarios
  /\ Device!Init /\ Samples!Init /\ Enumerator!Init /\ Microphone!Init /\ Playback!Init
  /\ Speakers!Init /\ Dvc!Init /\ Network!Init

Only(name) ==
  /\ scenario = name /\ UNCHANGED scenario
  /\ name # "device" => UNCHANGED deviceVars
  /\ name # "samples" => UNCHANGED samplesVars
  /\ name # "enumerator" => UNCHANGED enumeratorVars
  /\ name # "microphone" => UNCHANGED microphoneVars
  /\ name # "playback" => UNCHANGED playbackVars
  /\ name # "speakers" => UNCHANGED speakersVars
  /\ name # "dvc" => UNCHANGED dvcVars
  /\ name # "network" => UNCHANGED networkVars

OfDevice == Only("device")
OfSamples == Only("samples")
OfEnumerator == Only("enumerator")
OfMicrophone == Only("microphone")
OfPlayback == Only("playback")
OfSpeakers == Only("speakers")
OfDvc == Only("dvc")
OfNetwork == Only("network")

Next ==
  \/ OfDevice /\ Device!Next
  \/ OfSamples /\ Samples!Next
  \/ OfEnumerator /\ Enumerator!Next
  \/ OfMicrophone /\ Microphone!Next
  \/ OfPlayback /\ Playback!Next
  \/ OfSpeakers /\ Speakers!Next
  \/ OfDvc /\ Dvc!Next
  \/ OfNetwork /\ Network!Next

Spec == Init /\ [][Next]_vars

\* Sources and timers that are ready are dispatched, threads that can run do, and a client
\* answers the requests to start and stop streams.  Mutexes that are contended are fair.
Fairness ==
  /\ WF_vars(OfDevice /\ Device!SuccessResponse) /\ WF_vars(OfDevice /\ Device!HandleEvents)
  /\ WF_vars(OfDevice /\ Device!SampleTimeout)
  /\ WF_vars(OfSamples /\ phase = "down" /\ (Samples!TearDown \/ Samples!RemoveBuffers))
  /\ WF_vars(OfSamples /\ Samples!SampleTimeout) /\ WF_vars(OfSamples /\ Samples!ChannelThread)
  /\ WF_vars(OfSamples /\ Samples!DecodeThread) /\ \A b \in Buffers : WF_vars(OfSamples /\ Samples!RemoveBuffer(b))
  /\ WF_vars(OfEnumerator /\ Enumerator!ManageDevices) /\ WF_vars(OfEnumerator /\ Enumerator!NextDevice)
  /\ WF_vars(OfEnumerator /\ Enumerator!DisposeStep)
  /\ \A n \in Names, t \in Enumerator!Threads : WF_vars(OfEnumerator /\ Enumerator!OnDeviceError(n, t))
  /\ WF_vars(OfMicrophone /\ Microphone!EnsureDvcIsClosed) /\ WF_vars(OfMicrophone /\ Microphone!Dispose)
  /\ WF_vars(OfMicrophone /\ Microphone!InitiateChannelTeardown) /\ WF_vars(OfMicrophone /\ Microphone!ArmTimeout)
  /\ WF_vars(OfPlayback /\ Playback!Started) /\ WF_vars(OfPlayback /\ Playback!StopDynamic)
  /\ WF_vars(OfPlayback /\ Playback!StartStatic) /\ WF_vars(OfPlayback /\ Playback!InitiateTeardown)
  /\ WF_vars(OfPlayback /\ Playback!DisposePlayback)
  /\ WF_vars(OfSpeakers /\ Speakers!DataThread)
  /\ SF_vars(OfSpeakers /\ Speakers!MainThread)
  /\ SF_vars(OfSpeakers /\ Speakers!EncodeThread)
  /\ WF_vars(OfDvc /\ Dvc!NotifyChannels)
  /\ WF_vars(OfNetwork /\ Network!SyncWithMainContext) /\ WF_vars(OfNetwork /\ Network!SyncDone)
  /\ WF_vars(OfNetwork /\ Network!Progress) /\ WF_vars(OfNetwork /\ Network!NotifyRoundTripTime)
  /\ WF_vars(OfNetwork /\ \E due \in BOOLEAN : Network!SendResults(due))
  /\ WF_vars(OfNetwork /\ Network!StartPingEmission) /\ WF_vars(OfNetwork /\ Network!QueueBwMeasureStop)
  /\ WF_vars(OfNetwork /\ Network!ClearPipeline) /\ WF_vars(OfNetwork /\ Network!DisposeDetection)
  /\ SF_vars(OfNetwork /\ Network!BwMeasureStop)
  /\ SF_vars(OfNetwork /\ Network!SocketThreadEnds)

FairSpec == Spec /\ Fairness

-----------------------------------------------------------------------------
(* Properties *)

TypeOK ==
  /\ Device!TypeOK /\ Samples!TypeOK /\ Enumerator!TypeOK /\ Microphone!TypeOK /\ Playback!TypeOK
  /\ Speakers!TypeOK /\ Dvc!TypeOK /\ Network!DetectionTypeOK

\* Samples are requested from streams that run at the client, in requests that take turns
\* (grd-rdp-dvc-camera-device.c:296-323,1473-1715); a buffer of PipeWire belongs to one
\* thread, which has its lock, and leaves with nothing behind it
\* (grd-rdp-camera-stream.c:274-407,794-892); a device that failed or that the client
\* removed is queued to go, and entered by nobody once it did
\* (grd-rdp-dvc-camera-enumerator.c:390-476).
CamerasSound ==
  /\ Device!StopAssertion /\ Device!SamplesOfRunning /\ Device!RequestsInTurn
  /\ Samples!BuffersOwned /\ Enumerator!QueuesAgree

\* A recorder hears the samples in order, of the codec that was agreed on, and none from
\* before (grd-rdp-dvc-audio-input.c:465-497,691-872); one sink at a time is played, what is
\* pending is of that sink, and no packet mixes two (grd-rdp-dvc-audio-playback.c:228-431,
\* 1026-1134); the channel is started once and trained first (:138-167,433-462,664-708).
SoundInOrder ==
  /\ Microphone!ClosedIsQuiet /\ Microphone!SamplesInOrder /\ Microphone!CodecAgreed
  /\ Speakers!ActiveStreamsAgree /\ Speakers!LockOfStream /\ Speakers!PacketsOfOneStream
  /\ Playback!StartedOnce /\ Playback!TrainedFirst

\* What the client answered reaches the channel that it answered, while it lives
\* (grd-rdp-dvc-handler.c:92-296).
StatusReachesOwner == Dvc!StatusReachesOwner

\* What the client sends and is sent by camera, microphone and speakers is in order.
StreamsSound == CamerasSound /\ SoundInOrder

\* No assertion of the detection fails for any client, and its pings agree with the numbers
\* that are not free and with the consumers (grd-rdp-network-autodetection.c:130-161,
\* 233-374,490-560, grd-rdp-connect-time-autodetection.c:209-250,438-545).
DetectionSound == Network!DetectionSound /\ Network!PingsAgree

\* What the client answers about its channels and to pings finds whom it is for.
AnswersFindAsker == StatusReachesOwner /\ DetectionSound

\* Streams with consumers run, buffers return, devices leave, negotiations end, threads come
\* back, statuses are told and detections and measurements end.
MediaSettle == []<>(
  /\ Device!ConsumersServed /\ Samples!BuffersReturn /\ Enumerator!DevicesRemoved
  /\ Microphone!NegotiationEnds /\ Playback!TrainedOrGone /\ Speakers!ThreadsReturn
  /\ Dvc!StatusTold /\ Network!DetectionSettles)

\* "g_assert (!ct_autodetection->protocol_stopped)"
\* (grd-rdp-connect-time-autodetection.c:226)
EmitsWhileRunning == Network!EmitsWhileRunning
================================================================================
