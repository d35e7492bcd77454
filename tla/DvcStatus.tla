------------------------------- MODULE DvcStatus -------------------------------
(***************************************************************************)
(* Creation status of the dynamic channels (grd-rdp-dvc-handler.c,         *)
(* grd-rdp-dvc.c) with the two channels that do little else, display       *)
(* control and telemetry (grd-rdp-dvc-display-control.c,                   *)
(* grd-rdp-dvc-telemetry.c).  A channel that is opened is given an id, and *)
(* subscribes to the status of that id; the client's answer arrives on     *)
(* another thread and may be the first of the two.  The main thread then   *)
(* tells each subscriber, once.                                            *)
(***************************************************************************)
EXTENDS Naturals, FiniteSets

CONSTANTS Channels,  \* "disp" and others
          MaxIds     \* channel ids given out, a bound of the model

Ids == 1 .. MaxIds

VARIABLES
  idsGiven,      \* the ids that WTSVirtualChannelOpenEx() gave out
  dvc,           \* channel -> [at, id, subscribed, unavailable, teardown]
  statusOf,      \* dvc_table: id -> "none", or "pending", "ok", "failed"
  subscriptions, \* id -> the channels subscribed to it
  notified,      \* the ids whose subscriber was told
  notifySource,  \* dvc_notification_source is ready
  told,          \* what a channel's callback was told of its id, in order
  pendingCaps,   \* pending_caps of the display control channel
  protocolError  \* grd_session_rdp_notify_error() by the display control channel

dvcVars == <<idsGiven, dvc, statusOf, subscriptions, notified, notifySource, told,
             pendingCaps, protocolError>>

Init ==
  /\ idsGiven = 0
  /\ dvc = [c \in Channels |-> [at |-> "closed", id |-> 0, subscribed |-> FALSE,
                                unavailable |-> FALSE, teardown |-> FALSE]]
  /\ statusOf = [i \in Ids |-> "none"]
  /\ subscriptions = [i \in Ids |-> {}] /\ notified = {} /\ notifySource = FALSE
  /\ told = [c \in Channels |-> {}]
  /\ pendingCaps = TRUE /\ protocolError = FALSE

\* grd_rdp_dvc_queue_channel_tear_down()
TornDown(d) == [d EXCEPT !.unavailable = TRUE, !.teardown = TRUE]

\* grd_rdp_dvc_maybe_init(): the channel opens and has an id, or it does not open.
MaybeInit(c) ==
  /\ ~dvc[c].unavailable /\ dvc[c].at = "closed"
  /\ \/ /\ idsGiven < MaxIds /\ idsGiven' = idsGiven + 1
        /\ dvc' = [dvc EXCEPT ![c].at = "open", ![c].id = idsGiven + 1]
     \/ dvc' = [dvc EXCEPT ![c] = TornDown(@)] /\ UNCHANGED idsGiven
  /\ UNCHANGED <<statusOf, subscriptions, notified, notifySource, told, pendingCaps, protocolError>>

\* Mutant of Subscribe: who comes after the answer waits for the next one.
Subscribe_AfterAnswer(c) ==
  LET i == dvc[c].id IN
  /\ dvc[c].at = "open" /\ ~dvc[c].subscribed
  /\ dvc' = [dvc EXCEPT ![c].subscribed = TRUE]
  /\ subscriptions' = [subscriptions EXCEPT ![i] = @ \cup {c}]
  /\ statusOf' = [statusOf EXCEPT ![i] = IF @ = "none" THEN "pending" ELSE @]
  /\ UNCHANGED <<idsGiven, notified, notifySource, told, pendingCaps, protocolError>>

\* *_channel_id_assigned(), grd_rdp_dvc_subscribe_creation_status()
Subscribe(c) ==
  LET i == dvc[c].id IN
  /\ dvc[c].at = "open" /\ ~dvc[c].subscribed
  /\ dvc' = [dvc EXCEPT ![c].subscribed = TRUE]
  /\ subscriptions' = [subscriptions EXCEPT ![i] = @ \cup {c}]
  /\ statusOf' = [statusOf EXCEPT ![i] = IF @ = "none" THEN "pending" ELSE @]
  /\ notifySource' = (notifySource \/ statusOf[i] \in {"ok", "failed"})
  /\ UNCHANGED <<idsGiven, notified, told, pendingCaps, protocolError>>

\* dvc_creation_status(): the first answer counts.
ClientAnswers(i, status) ==
  /\ i <= idsGiven
  /\ statusOf[i] \in {"none", "pending"}
  /\ statusOf' = [statusOf EXCEPT ![i] = status]
  /\ notifySource' = (notifySource \/ subscriptions[i] # {})
  /\ UNCHANGED <<idsGiven, dvc, subscriptions, notified, told, pendingCaps, protocolError>>

\* notify_channels(), with the callbacks of the channels, under dvc_notification_mutex
NotifyChannels ==
  LET due == {i \in Ids \ notified : statusOf[i] \in {"ok", "failed"} /\ subscriptions[i] # {}}
      Due(c) == \E i \in due : c \in subscriptions[i]
      Told(c) == {<<i, statusOf[i]>> : i \in {j \in due : c \in subscriptions[j]}} IN
  /\ notifySource /\ notifySource' = FALSE
  /\ notified' = notified \cup due
  /\ told' = [c \in Channels |-> told[c] \cup Told(c)]
  /\ dvc' = [c \in Channels |-> IF \E t \in Told(c) : t[2] = "failed" THEN TornDown(dvc[c]) ELSE dvc[c]]
  /\ pendingCaps' = (pendingCaps /\ ~(\E t \in Told("disp") : t[2] = "ok"))
  /\ UNCHANGED <<idsGiven, statusOf, subscriptions, protocolError>>

\* telemetry_rdp_telemetry(): one PDU, then the channel is of no more use.
TelemetryPDU(c) ==
  /\ c # "disp" /\ dvc[c].at = "open" /\ statusOf[dvc[c].id] = "ok" /\ ~dvc[c].teardown
  /\ dvc' = [dvc EXCEPT ![c] = TornDown(@)]
  /\ UNCHANGED <<idsGiven, statusOf, subscriptions, notified, notifySource, told, pendingCaps,
                 protocolError>>

\* disp_monitor_layout(): a layout before the capabilities were sent ends the session.
DispMonitorLayout ==
  /\ dvc["disp"].at = "open" /\ statusOf[dvc["disp"].id] = "ok" /\ pendingCaps
  /\ ~protocolError /\ protocolError' = TRUE
  /\ UNCHANGED <<idsGiven, dvc, statusOf, subscriptions, notified, notifySource, told, pendingCaps>>

\* grd_rdp_dvc_maybe_unsubscribe_creation_status()
MaybeUnsubscribe(c) ==
  subscriptions' = [subscriptions EXCEPT
    ![dvc[c].id] = IF dvc[c].subscribed THEN @ \ {c} ELSE @]

\* tear_down_channel() for a queued tear-down, or dispose() at the end of the session: the
\* channel is closed, which ends its thread, and then unsubscribed.
Dispose(c) ==
  /\ dvc[c].at # "gone"
  /\ dvc' = [dvc EXCEPT ![c].at = "gone", ![c].subscribed = FALSE, ![c].unavailable = TRUE,
                        ![c].teardown = FALSE]
  /\ IF dvc[c].id = 0 THEN UNCHANGED subscriptions ELSE MaybeUnsubscribe(c)
  /\ UNCHANGED <<idsGiven, statusOf, notified, notifySource, told, pendingCaps, protocolError>>

Next ==
  \/ \E c \in Channels : MaybeInit(c) \/ Subscribe(c) \/ Dispose(c)
  \/ \E c \in Channels : TelemetryPDU(c)
  \/ \E i \in Ids, s \in {"ok", "failed"} : ClientAnswers(i, s)
  \/ NotifyChannels
  \/ DispMonitorLayout

-----------------------------------------------------------------------------
(* Properties *)

TypeOK ==
  /\ idsGiven \in 0 .. MaxIds
  /\ dvc \in [Channels -> [at : {"closed", "open", "gone"}, id : 0 .. MaxIds,
                           subscribed : BOOLEAN, unavailable : BOOLEAN, teardown : BOOLEAN]]
  /\ statusOf \in [Ids -> {"none", "pending", "ok", "failed"}]
  /\ subscriptions \in [Ids -> SUBSET Channels] /\ notified \subseteq Ids
  /\ notifySource \in BOOLEAN /\ pendingCaps \in BOOLEAN /\ protocolError \in BOOLEAN
  /\ told \in [Channels -> SUBSET (Ids \X {"ok", "failed"})]

\* A subscription is that of a living channel for its own id, and what a channel was told
\* is the status of that id (grd-rdp-dvc-handler.c:277-289): nothing that was disposed of
\* is called, and no channel takes another one's answer for its own.
StatusReachesOwner ==
  /\ \A i \in Ids : \A c \in subscriptions[i] : dvc[c].at = "open" /\ dvc[c].id = i
  /\ \A c \in Channels : told[c] \subseteq {<<i, statusOf[i]>> : i \in Ids \cap {dvc[c].id}}
  /\ ~pendingCaps => <<dvc["disp"].id, "ok">> \in told["disp"]

\* Whoever is subscribed to a status that is known is told.
StatusTold ==
  \A i \in Ids : statusOf[i] \in {"ok", "failed"} /\ subscriptions[i] # {} => i \in notified
================================================================================
