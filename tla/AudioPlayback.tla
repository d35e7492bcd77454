----------------------------- MODULE AudioPlayback -----------------------------
(***************************************************************************)
(* The protocol of the audio playback channel                              *)
(* (grd-rdp-dvc-audio-playback.c): the dynamic channel, or the static one  *)
(* for clients without it, the formats and the training.                   *)
(*                                                                         *)
(* The socket thread starts the channel, the main thread has the timers    *)
(* and the fallback, the channel thread hears the client.  The answers of  *)
(* a client take longer than the rest of the function that starts it.      *)
(***************************************************************************)
EXTENDS Naturals

CONSTANT MaxBadTrainings \* bound: Training Confirms with wrong values

VARIABLES
  channelIs,   \* channel_opened: "closed", "starting" (in maybe_init), "open", "switching"
  started,     \* Starts of the channel that were not stopped
  transport,   \* use_dynamic_virtual_channel: "dynamic" or "static"
  noInit,      \* prevent_dvc_initialization
  status,      \* creation status of the dynamic channel: "unknown", "created", "failed"
  fallback,    \* svc_setup_source: "waits", "ready", "gone"
  answerTimer, \* protocol_timeout_source is armed
  needFormats, needTraining, \* pending_client_formats, pending_training_confirm
  playCodec,   \* codec, with client_format_idx
  setup,       \* pipewire_setup_source: "waits", "ready", "done"
  givenUp,     \* channel_unavailable
  playbackGone, badTrainings

callVars == <<channelIs, started, transport, noInit>>
trainVars == <<needFormats, needTraining, playCodec>>
vars == <<callVars, status, fallback, answerTimer, trainVars, setup, givenUp, playbackGone, badTrainings>>

Init ==
  /\ channelIs = "closed" /\ started = 0 /\ transport = "dynamic" /\ noInit = FALSE
  /\ status = "unknown" /\ fallback = "waits" /\ answerTimer = FALSE
  /\ needFormats = TRUE /\ needTraining = TRUE /\ playCodec = "none"
  /\ setup = "waits" /\ givenUp = FALSE /\ playbackGone = FALSE /\ badTrainings = 0

\* grd_rdp_dvc_audio_playback_maybe_init, on the socket thread.
MaybeInit ==
  /\ ~playbackGone /\ ~givenUp /\ channelIs \in {"closed", "switching"} /\ ~noInit
  /\ \/ channelIs' = "starting" /\ started' = started + 1 /\ UNCHANGED givenUp
     \/ givenUp' = TRUE /\ UNCHANGED <<channelIs, started>>
  /\ UNCHANGED <<transport, noInit, status, fallback, answerTimer, trainVars, setup, playbackGone, badTrainings>>

Started ==
  /\ channelIs = "starting"
  /\ channelIs' = "open" /\ answerTimer' = TRUE
  /\ UNCHANGED <<started, transport, noInit, status, fallback, trainVars, setup, givenUp, playbackGone, badTrainings>>

-----------------------------------------------------------------------------
(* The main thread *)

\* dvc_creation_status: without the dynamic channel the static one is tried.
DvcCreationStatus ==
  /\ channelIs = "open" /\ transport = "dynamic" /\ status = "unknown" /\ ~playbackGone
  /\ \/ status' = "created" /\ UNCHANGED fallback
     \/ status' = "failed" /\ fallback' = "ready"
  /\ UNCHANGED <<callVars, answerTimer, trainVars, setup, givenUp, playbackGone, badTrainings>>

\* set_up_static_virtual_channel, up to the Stop that joins the channel thread.
StopDynamic ==
  /\ fallback = "ready" /\ ~playbackGone
  /\ fallback' = "gone" /\ noInit' = TRUE
  /\ channelIs' = "switching" /\ started' = started - 1
  /\ UNCHANGED <<transport, status, answerTimer, trainVars, setup, givenUp, playbackGone, badTrainings>>

StartStatic ==
  /\ fallback = "gone" /\ transport = "dynamic" /\ noInit /\ ~playbackGone
  /\ transport' = "static"
  /\ \/ channelIs' = "open" /\ started' = started + 1 /\ UNCHANGED givenUp
     \/ channelIs' = "closed" /\ givenUp' = TRUE /\ UNCHANGED started
  /\ UNCHANGED <<noInit, status, fallback, answerTimer, trainVars, setup, playbackGone, badTrainings>>

\* The main thread is not between the two.
MainIdle == channelIs # "switching" /\ ~playbackGone

\* initiate_channel_teardown.
InitiateTeardown ==
  /\ answerTimer /\ MainIdle
  /\ answerTimer' = FALSE /\ givenUp' = TRUE
  /\ UNCHANGED <<callVars, status, fallback, trainVars, setup, playbackGone, badTrainings>>

\* set_up_pipewire, or its failure; pipewire_core_error later.
SetUpPipewire ==
  /\ setup = "ready" /\ MainIdle
  /\ setup' = "done"
  /\ givenUp' \in {givenUp, TRUE}
  /\ UNCHANGED <<callVars, status, fallback, answerTimer, trainVars, playbackGone, badTrainings>>

CoreError ==
  /\ setup = "done" /\ MainIdle /\ ~givenUp
  /\ givenUp' = TRUE
  /\ UNCHANGED <<callVars, status, fallback, answerTimer, trainVars, setup, playbackGone, badTrainings>>

\* The channel is torn down: grd_rdp_dvc_audio_playback_dispose.
DisposePlayback ==
  /\ givenUp /\ MainIdle /\ channelIs # "starting"
  /\ playbackGone' = TRUE
  /\ started' = IF channelIs = "open" THEN started - 1 ELSE started
  /\ channelIs' = "closed" /\ answerTimer' = FALSE /\ fallback' = "gone"
  /\ UNCHANGED <<transport, noInit, status, trainVars, setup, givenUp, badTrainings>>

-----------------------------------------------------------------------------
(* The client, on the channel thread *)

Hears == channelIs = "open" /\ (transport = "static" \/ status = "created")

\* prepare_client_format: AAC before Opus before PCM.
Preferred(formats) ==
  CASE "aac" \in formats -> "aac"
    [] "opus" \in formats -> "opus"
    [] OTHER -> "pcm"

\* rdpsnd_activated with the formats that both sides have; the client may be too old.
Activated(formats, old) ==
  /\ Hears
  /\ IF ~needFormats \/ old \/ formats = {}
     THEN givenUp' = TRUE /\ UNCHANGED trainVars
     ELSE /\ needFormats' = FALSE /\ playCodec' = Preferred(formats)
          /\ UNCHANGED <<needTraining, givenUp>>
  /\ UNCHANGED <<callVars, status, fallback, answerTimer, setup, playbackGone, badTrainings>>

\* rdpsnd_training_confirm: one with wrong values is ignored.
TrainingConfirm(right) ==
  /\ Hears
  /\ IF needFormats \/ ~needTraining
     THEN givenUp' = TRUE /\ UNCHANGED <<trainVars, answerTimer, fallback, setup, badTrainings>>
     ELSE /\ UNCHANGED <<givenUp, needFormats, playCodec>>
          /\ \/ ~right /\ badTrainings < MaxBadTrainings /\ badTrainings' = badTrainings + 1
                /\ UNCHANGED <<needTraining, answerTimer, fallback, setup>>
             \/ right /\ needTraining' = FALSE /\ answerTimer' = FALSE /\ fallback' = "gone"
                /\ setup' = "ready" /\ UNCHANGED badTrainings
  /\ UNCHANGED <<callVars, status, playbackGone>>

Next ==
  \/ MaybeInit \/ Started
  \/ DvcCreationStatus \/ StopDynamic \/ StartStatic
  \/ InitiateTeardown \/ SetUpPipewire \/ CoreError \/ DisposePlayback
  \/ \E formats \in SUBSET {"aac", "opus", "pcm"}, old \in BOOLEAN : Activated(formats, old)
  \/ \E right \in BOOLEAN : TrainingConfirm(right)

-----------------------------------------------------------------------------
(* Properties *)

TypeOK ==
  /\ channelIs \in {"closed", "starting", "open", "switching"}
  /\ transport \in {"dynamic", "static"} /\ status \in {"unknown", "created", "failed"}
  /\ fallback \in {"waits", "ready", "gone"} /\ setup \in {"waits", "ready", "done"}
  /\ playCodec \in {"none", "aac", "opus", "pcm"}
  /\ {noInit, answerTimer, needFormats, needTraining, givenUp, playbackGone} \subseteq BOOLEAN
  /\ {started, badTrainings} \subseteq Nat

\* The channel is started once, dynamic or static, and stopped in the end.
StartedOnce == started = IF channelIs \in {"starting", "open"} THEN 1 ELSE 0

\* Nothing is played before the client agreed on a format and was trained, and the timer of
\* the negotiation is then off.
TrainedFirst ==
  /\ setup # "waits" => ~needFormats /\ ~needTraining /\ playCodec # "none"
  /\ ~needTraining => ~answerTimer

\* A client that is asked either gets there or loses the channel.
TrainedOrGone == channelIs = "closed" \/ ~needTraining
================================================================================
