---------------------------- MODULE Autodetection ----------------------------
(***************************************************************************)
(* Detection of the network's characteristics, when a client connects      *)
(* (grd-rdp-connect-time-autodetection.c) and while its session runs       *)
(* (grd-rdp-network-autodetection.c).  The socket thread handles the PDUs  *)
(* of the client, pings come from the main thread and bandwidth is         *)
(* measured around the frames of the graphics thread; the main thread also *)
(* stops the session (grd_session_rdp_stop()).  FreeRDP calls the progress *)
(* callback after each PDU until the detection is complete.                *)
(***************************************************************************)
EXTENDS Naturals, Sequences, FiniteSets

CONSTANTS MaxSeq,      \* UINT16_MAX, the last sequence number
          CtPings,     \* CT_N_PINGS
          MaxPings,    \* pings of a run, a bound of the model
          StopsLate    \* the session is stopped after the first ping only

\* BW_MEASURE_SEQUENCE_NUMBER is 0
SeqNumbers == 1 .. MaxSeq

VARIABLES
  detection,   \* rdp_peer_context->network_autodetection: "absent", "alive", "disposed"
  ctState,     \* state of the connect-time detection
  pendingPings, ctPingSource, lastSequence, \* of it, 0 while it is not known
  syncing, syncSource,                      \* pending_net_char_sync, sync_source
  shutDown, protocolStopped,                \* in_shutdown, protocol_stopped
  sequences, pings, nextSequence,           \* and ping_time_us, abstracted
  gfxConsumer, gfxHighNecessity, pingInterval, \* ping_interval is that of ping_source
  bwState, bwStopEvent,                     \* bw_measure_state, bw_measure_stop_event
  socketThread,  \* what it does: "idle", "progress", "emit", "sync", "notify", "results", "ended"
  measuring,     \* the graphics thread has started a measurement
  gfx,           \* graphics_pipeline: "none", "alive" or "freed"
  stopping,      \* progress of grd_session_rdp_stop()
  emitted,       \* pings emitted
  failure        \* the assertion that failed

ctVars == <<ctState, pendingPings, ctPingSource, lastSequence, syncing, syncSource>>
pingVars == <<sequences, pings, nextSequence, emitted>>
consumerVars == <<gfxConsumer, gfxHighNecessity, pingInterval>>
bwVars == <<bwState, bwStopEvent, measuring>>
stopVars == <<shutDown, protocolStopped, stopping, gfx, detection>>
detectVars == <<ctVars, pingVars, consumerVars, bwVars, stopVars, socketThread, failure>>

Init ==
  /\ detection = "absent" /\ ctState = "none"
  /\ pendingPings = CtPings /\ ctPingSource = FALSE /\ lastSequence = 0
  /\ syncing = FALSE /\ syncSource = FALSE
  /\ shutDown = FALSE /\ protocolStopped = FALSE
  /\ sequences = {} /\ pings = <<>> /\ nextSequence = 0 /\ emitted = 0
  /\ gfxConsumer = FALSE /\ gfxHighNecessity = FALSE /\ pingInterval = "none"
  /\ bwState = "none" /\ bwStopEvent = FALSE /\ measuring = FALSE
  /\ socketThread = "idle" /\ gfx = "none" /\ stopping = "no" /\ failure = "none"

-----------------------------------------------------------------------------
(* Sequence numbers and pings *)

\* get_next_free_sequence_number(): numbers wrap, and a client that leaves a quarter of them
\* unanswered loses them all; the pings they belonged to stay queued.
Unanswered == IF Cardinality(sequences) > MaxSeq \div 4 THEN {} ELSE sequences

NextFree ==
  LET Nth(k) == (nextSequence + k) % (MaxSeq + 1)
      k == CHOOSE k \in 0 .. MaxSeq :
             /\ Nth(k) \notin {0} \cup Unanswered
             /\ \A j \in 0 .. k - 1 : Nth(j) \in {0} \cup Unanswered IN
  Nth(k)

\* emit_ping_with_callback()
EmitPing ==
  /\ emitted < MaxPings /\ emitted' = emitted + 1
  /\ sequences' = Unanswered \cup {NextFree}
  /\ pings' = Append(pings, NextFree)
  /\ nextSequence' = (NextFree + 1) % (MaxSeq + 1)

\* update_ping_source(), for the consumers that are now: a new interval starts with a ping.
Interval(consumer, high) == IF ~consumer THEN "none" ELSE IF high THEN "high" ELSE "low"

UpdatePingSource(consumer, high) ==
  /\ pingInterval' = Interval(consumer, high)
  /\ IF pingInterval' \in {"none", pingInterval} THEN UNCHANGED pingVars ELSE EmitPing

\* emit_ping() of grd-rdp-network-autodetection.c, by the timer
PingTimer ==
  /\ detection = "alive" /\ pingInterval # "none" /\ stopping = "no"
  /\ EmitPing
  /\ UNCHANGED <<ctVars, consumerVars, bwVars, stopVars, socketThread, failure>>

-----------------------------------------------------------------------------
(* Detection at connect time *)

Phase1 == {"measure 1", "measure 2", "measure 3"}
Awaiting == {"await 1", "await 2", "await 3"}
AfterMeasure == [s \in Phase1 |->
  CASE s = "measure 1" -> "await 1" [] s = "measure 2" -> "await 2" [] OTHER -> "await 3"]
AfterResult == [s \in Awaiting |->
  CASE s = "await 1" -> "measure 2" [] s = "await 2" -> "measure 3" [] OTHER -> "start rtt"]

\* rdp_autodetect_on_connect_time_autodetect_begin(), start_detection()
Begin ==
  /\ socketThread = "idle" /\ detection = "absent"
  /\ detection' = "alive" /\ ctState' = "measure 1" /\ socketThread' = "progress"
  /\ UNCHANGED <<pendingPings, ctPingSource, lastSequence, syncing, syncSource, pingVars, consumerVars,
                 bwVars, shutDown, protocolStopped, stopping, gfx, failure>>

\* detect_network_characteristics(), by OnConnectTimeAutoDetectProgress
Progress ==
  /\ socketThread = "progress"
  /\ CASE ctState \in Phase1 ->
            ctState' = AfterMeasure[ctState] /\ socketThread' = "idle"
       [] ctState = "start rtt" ->
            ctState' = "await last rtt" /\ socketThread' = "emit"
       [] ctState = "send net char" ->
            ctState' = "complete" /\ socketThread' = "idle"
       [] OTHER -> UNCHANGED ctState /\ socketThread' = "idle"
  /\ UNCHANGED <<pendingPings, ctPingSource, lastSequence, syncing, syncSource, pingVars,
                 consumerVars, bwVars, stopVars, failure>>

\* emit_ping() of grd-rdp-connect-time-autodetection.c: the last one tells its number before
\* it is sent.
EmitCtPing ==
  /\ EmitPing
  /\ pendingPings' = pendingPings - 1
  /\ lastSequence' = IF pendingPings = 1 THEN NextFree ELSE lastSequence
  /\ failure' = IF protocolStopped THEN "emit_ping" ELSE failure

\* start_ping_emission(), on the socket thread
StartPingEmission ==
  /\ socketThread = "emit" /\ socketThread' = "idle"
  /\ EmitCtPing
  /\ ctPingSource' = TRUE
  /\ UNCHANGED <<ctState, syncing, syncSource, consumerVars, bwVars, stopVars>>

\* Mutant of CtPingTimer: the source stays after the last ping.
CtPingTimer_GoesOn ==
  /\ ctPingSource /\ stopping = "no"
  /\ EmitCtPing
  /\ ctPingSource' = TRUE
  /\ UNCHANGED <<ctState, syncing, syncSource, consumerVars, bwVars, stopVars, socketThread>>

\* The ping source of the main thread
CtPingTimer ==
  /\ ctPingSource /\ stopping = "no"
  /\ EmitCtPing
  /\ ctPingSource' = (pendingPings > 1)
  /\ UNCHANGED <<ctState, syncing, syncSource, consumerVars, bwVars, stopVars, socketThread>>

\* grd_rdp_connect_time_autodetection_notify_bw_measure_results()
ConnectTimeBwResults(slow) ==
  /\ ctState \in Awaiting
  /\ ctState' = IF slow THEN "start rtt" ELSE AfterResult[ctState]
  /\ UNCHANGED <<pendingPings, ctPingSource, lastSequence, syncing, syncSource, bwVars>>

\* handle_bw_measure_results_continuous(): stray results are ignored.
ContinuousBwResults ==
  /\ bwState = "pending results" /\ bwState' = "none"
  /\ UNCHANGED <<ctVars, bwStopEvent, measuring>>

\* autodetect_bw_measure_results()
BwMeasureResults ==
  /\ socketThread = "idle" /\ detection = "alive"
  /\ IF ctState # "complete"
     THEN (\E slow \in BOOLEAN : ConnectTimeBwResults(slow)) /\ socketThread' = "progress"
     ELSE ContinuousBwResults /\ UNCHANGED socketThread
  /\ UNCHANGED <<pingVars, consumerVars, stopVars, failure>>

\* Mutant of Answered: the pings that are skipped keep their numbers.
Answered_One(n) == sequences \ {n}

\* The sequence numbers that are left when the ping n is answered
Answered(n) ==
  LET first == CHOOSE i \in 1 .. Len(pings) :
                 pings[i] = n /\ \A j \in 1 .. i - 1 : pings[j] # n IN
  sequences \ {pings[i] : i \in 1 .. first}

\* notify_rtt_measure_response(): n answers the last ping.
LastAnswered(n) == lastSequence = n

\* autodetect_rtt_measure_response(), up to the graphics pipeline or the results
RttMeasureResponse(n) ==
  /\ socketThread = "idle" /\ detection = "alive" /\ n \in sequences
  /\ IF \E i \in 1 .. Len(pings) : pings[i] = n
     THEN /\ sequences' = Answered(n)
          /\ pings' = SubSeq(pings, 1 + CHOOSE i \in 1 .. Len(pings) :
                               pings[i] = n /\ \A j \in 1 .. i - 1 : pings[j] # n, Len(pings))
     ELSE UNCHANGED <<sequences, pings>>
  /\ IF ctState # "complete"
     THEN /\ ctState' = IF LastAnswered(n) THEN "send net char" ELSE ctState
          /\ socketThread' = "progress"
     ELSE UNCHANGED ctState /\ socketThread' = IF gfxConsumer THEN "notify" ELSE "results"
  /\ failure' = IF ~(\E i \in 1 .. Len(pings) : pings[i] = n) THEN "ping_info"
                ELSE IF ctState # "complete" /\ LastAnswered(n) /\ ctState # "await last rtt"
                THEN "last rtt" ELSE failure
  /\ UNCHANGED <<pendingPings, ctPingSource, lastSequence, syncing, syncSource, nextSequence, emitted,
                 consumerVars, bwVars, stopVars>>

\* The pipeline is told of a round trip time under shutdown_mutex.
MayNotify == ~shutDown /\ gfx # "none"

NotifyRoundTripTime ==
  /\ socketThread = "notify" /\ socketThread' = "results"
  /\ failure' = IF MayNotify /\ gfx = "freed" THEN "pipeline" ELSE failure
  /\ UNCHANGED <<ctVars, pingVars, consumerVars, bwVars, stopVars>>

\* maybe_send_network_characteristics_results(): results take a number, too, which nobody answers.
SendResults(due) ==
  /\ socketThread = "results" /\ socketThread' = "idle"
  /\ IF due THEN sequences' = Unanswered /\ nextSequence' = (NextFree + 1) % (MaxSeq + 1)
     ELSE UNCHANGED <<sequences, nextSequence>>
  /\ UNCHANGED <<ctVars, pings, emitted, consumerVars, bwVars, stopVars, failure>>

\* autodetect_network_characteristics_sync(): the client knows the network already.  In the
\* states that a progress follows at once no PDU is read (g_assert_not_reached()).
SyncPDU ==
  /\ socketThread = "idle" /\ detection = "alive" /\ ctState # "complete"
  /\ IF ctState = "await last rtt"
     THEN /\ syncing' = TRUE /\ syncSource' = TRUE /\ socketThread' = "sync"
          /\ UNCHANGED <<ctState, failure>>
     ELSE /\ ctState' = "complete" /\ socketThread' = "progress"
          /\ failure' = IF ctState \notin Awaiting THEN "sync" ELSE failure
          /\ UNCHANGED <<syncing, syncSource>>
  /\ UNCHANGED <<pendingPings, ctPingSource, lastSequence, pingVars, consumerVars, bwVars, stopVars>>

\* sync_with_main_context()
SyncWithMainContext ==
  /\ syncSource /\ stopping = "no"
  /\ syncSource' = FALSE /\ syncing' = FALSE /\ ctPingSource' = FALSE
  /\ UNCHANGED <<ctState, pendingPings, lastSequence, pingVars, consumerVars, bwVars, stopVars,
                 socketThread, failure>>

SyncEnds == protocolStopped \/ ~syncing

\* The end of sync_ct_autodetect_handling()
SyncDone ==
  /\ socketThread = "sync" /\ SyncEnds
  /\ ctState' = "complete" /\ socketThread' = "progress"
  /\ UNCHANGED <<pendingPings, ctPingSource, lastSequence, syncing, syncSource, pingVars,
                 consumerVars, bwVars, stopVars, failure>>

-----------------------------------------------------------------------------
(* Detection while the session runs *)

\* rdp_peer_activate() and rdp_suppress_output(): round trip times are wanted, or not.
SetConsumer(consumer) ==
  /\ socketThread = "idle" /\ detection = "alive" /\ ctState = "complete"
  /\ gfxConsumer # consumer /\ gfxConsumer' = consumer
  /\ UpdatePingSource(consumer, gfxHighNecessity)
  /\ UNCHANGED <<ctVars, gfxHighNecessity, bwVars, stopVars, socketThread, failure>>

\* initialize_graphics_pipeline(), once the client is connected
CreatePipeline ==
  /\ gfx = "none" /\ ctState = "complete" /\ stopping = "no" /\ gfx' = "alive"
  /\ UNCHANGED <<ctVars, pingVars, consumerVars, bwVars, shutDown, protocolStopped, stopping,
                 detection, socketThread, failure>>

\* grd_rdp_network_autodetection_set_rtt_consumer_necessity(), by the pipeline
SetNecessity(high) ==
  /\ gfx = "alive" /\ gfxHighNecessity # high /\ gfxHighNecessity' = high
  /\ IF gfxConsumer THEN UpdatePingSource(TRUE, high) ELSE UNCHANGED <<pingVars, pingInterval>>
  /\ UNCHANGED <<ctVars, gfxConsumer, bwVars, stopVars, socketThread, failure>>

\* try_bw_measure_start(), before a frame is sent
TryBwMeasureStart ==
  /\ gfx = "alive" /\ detection = "alive" /\ bwState = "none" /\ ~measuring
  /\ bwState' = "pending stop" /\ measuring' = TRUE
  /\ UNCHANGED <<ctVars, pingVars, consumerVars, bwStopEvent, stopVars, socketThread, failure>>

\* queue_bw_measure_stop(), after it
QueueBwMeasureStop ==
  /\ measuring /\ measuring' = FALSE
  /\ failure' = IF bwState # "pending stop" THEN "bw_measure_state" ELSE failure
  /\ bwState' = "queued stop" /\ bwStopEvent' = TRUE
  /\ UNCHANGED <<ctVars, pingVars, consumerVars, stopVars, socketThread>>

\* grd_rdp_network_autodetection_bw_measure_stop(), by the socket thread
BwMeasureStop ==
  /\ socketThread = "idle" /\ bwStopEvent /\ bwStopEvent' = FALSE
  /\ bwState' = IF bwState = "queued stop" THEN "pending results" ELSE bwState
  /\ UNCHANGED <<ctVars, pingVars, consumerVars, measuring, stopVars, socketThread, failure>>

-----------------------------------------------------------------------------
(* The end of the session *)

\* grd_session_rdp_stop() shuts the detection down that there is.
InvokeShutdown ==
  /\ stopping = "no" /\ stopping' = "begun"
  /\ StopsLate => ctState \in {"await last rtt", "send net char", "complete"} /\ socketThread # "emit"
  /\ shutDown' = (detection = "alive") /\ protocolStopped' = (detection = "alive")
  /\ UNCHANGED <<ctVars, pingVars, consumerVars, bwVars, detection, gfx, socketThread, failure>>

\* It frees the graphics pipeline, whose frames are sent by then,
ClearPipeline ==
  /\ stopping = "begun" /\ stopping' = "cleared" /\ ~measuring
  /\ gfx' = IF gfx = "alive" THEN "freed" ELSE gfx
  /\ UNCHANGED <<ctVars, pingVars, consumerVars, bwVars, shutDown, protocolStopped, detection,
                 socketThread, failure>>

\* the socket thread sees session_should_stop,
SocketThreadEnds ==
  /\ stopping # "no" /\ socketThread = "idle" /\ socketThread' = "ended"
  /\ UNCHANGED <<ctVars, pingVars, consumerVars, bwVars, stopVars, failure>>

\* and is joined, before the detection is disposed of.
DisposeDetection ==
  /\ stopping = "cleared" /\ socketThread = "ended" /\ stopping' = "done"
  /\ detection' = IF detection = "alive" THEN "disposed" ELSE detection
  /\ failure' = IF detection = "alive" /\ ~protocolStopped THEN "protocol_stopped" ELSE failure
  /\ ctPingSource' = FALSE /\ syncSource' = FALSE /\ pingInterval' = "none"
  /\ sequences' = {} /\ pings' = <<>>
  /\ UNCHANGED <<ctState, pendingPings, lastSequence, syncing, nextSequence, emitted, gfxConsumer,
                 gfxHighNecessity, bwVars, shutDown, protocolStopped, gfx, socketThread>>

Next ==
  \/ PingTimer \/ CtPingTimer \/ SyncWithMainContext
  \/ Begin \/ Progress \/ StartPingEmission \/ SyncDone \/ NotifyRoundTripTime \/ \E due \in BOOLEAN : SendResults(due)
  \/ BwMeasureResults \/ SyncPDU \/ \E n \in SeqNumbers : RttMeasureResponse(n)
  \/ \E b \in BOOLEAN : SetConsumer(b) \/ SetNecessity(b)
  \/ CreatePipeline \/ TryBwMeasureStart \/ QueueBwMeasureStop \/ BwMeasureStop
  \/ InvokeShutdown \/ ClearPipeline \/ SocketThreadEnds \/ DisposeDetection

-----------------------------------------------------------------------------
(* Properties *)

DetectionTypeOK ==
  /\ detection \in {"absent", "alive", "disposed"}
  /\ ctState \in {"none", "start rtt", "await last rtt", "send net char", "complete"}
                 \cup Phase1 \cup Awaiting
  /\ pendingPings \in 0 .. CtPings /\ lastSequence \in 0 .. MaxSeq
  /\ {ctPingSource, syncing, syncSource, shutDown, protocolStopped, gfxConsumer, gfxHighNecessity,
      bwStopEvent, measuring} \subseteq BOOLEAN
  /\ sequences \subseteq SeqNumbers /\ pings \in Seq(SeqNumbers) /\ nextSequence \in 0 .. MaxSeq
  /\ pingInterval \in {"none", "low", "high"}
  /\ bwState \in {"none", "pending stop", "queued stop", "pending results"}
  /\ socketThread \in {"idle", "progress", "emit", "sync", "notify", "results", "ended"}
  /\ gfx \in {"none", "alive", "freed"} /\ stopping \in {"no", "begun", "cleared", "done"}
  /\ emitted \in 0 .. MaxPings
  /\ failure \in {"none", "emit_ping", "ping_info", "last rtt", "sync", "bw_measure_state",
                  "protocol_stopped", "pipeline"}

\* None of the assertions of the detection fails, over the PDUs of any client, and no freed
\* pipeline is told of a round trip time (grd-rdp-network-autodetection.c:379,530,545-553,
\* grd-rdp-connect-time-autodetection.c:226,454,524-545,595).
DetectionSound == failure = "none"

\* The first ping is emitted by the socket thread, which may not know yet that the main
\* thread stops the session: "g_assert (!ct_autodetection->protocol_stopped)"
\* (grd-rdp-connect-time-autodetection.c:226).
EmitsWhileRunning == failure # "emit_ping"

\* A number in the table is that of a queued ping, and pings come as often as the consumer
\* of their times needs them, whoever changed what last.
PingsAgree ==
  /\ \A n \in sequences : \E i \in 1 .. Len(pings) : pings[i] = n
  /\ detection = "alive" => pingInterval = Interval(gfxConsumer, gfxHighNecessity)

\* A Sync PDU is answered by the main thread or by its stop, and a measurement that is to
\* be stopped is stopped.
DetectionSettles ==
  /\ socketThread # "sync"
  /\ socketThread = "ended" \/ bwState # "queued stop"
  /\ stopping \in {"no", "done"}
================================================================================
