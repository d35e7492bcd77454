---------------------------- MODULE HandoverDaemon ----------------------------
(***************************************************************************)
(* The handover daemon of a graphical session (grd-daemon-handover.c).     *)
(*                                                                         *)
(* When the name of the system daemon is on the bus, the daemon asks its   *)
(* dispatcher for the session's handover object, or watches for the object *)
(* if there is none yet.  With the object and with an RDP server it        *)
(* connects its handlers, starts the handover, takes the client that the   *)
(* system daemon has ready, and passes a client that logs in elsewhere on. *)
(* Every D-Bus call is a call now and a reply later.                       *)
(***************************************************************************)
EXTENDS Naturals, FiniteSets

CONSTANTS
  MaxChanges, \* bound: changes of names, objects and proxies on the bus
  MaxClients, \* bound: clients that the system daemon has ready
  Calm        \* names and objects on the bus do not change while a call about them is under
              \* way, and insecure clients do not follow each other

VARIABLES
  bus,      \* the system daemon's name, the session's object, whether it waits; mutter's proxies
  proxy,    \* the proxies of the daemon: "dispatcher", "object", "manager"
  async,    \* how many calls are under way, by their kind
  server,   \* the RDP server runs
  handlers, \* how often the handlers are connected to the object and to the server
  client,   \* the client to be taken: "none", "ready", "creds", "take", and whether with
            \* credentials of the system
  session,  \* daemon_handover->session: a number, or 0; and the sessions of the server
  sessions,
  dialog,   \* daemon_handover->dialog: "none", or the session it can end
  changes, clients,
  remote,   \* grd_is_remote_login
  away      \* the daemon's session logged out

vars == <<bus, proxy, async, server, handlers, client, session, sessions, dialog,
          changes, clients, remote, away>>

Calls == {"dispatcher", "request", "manager", "object", "start"}
Nobody == [step |-> "none", creds |-> FALSE]

\* grd_daemon_handover_startup.
Init ==
  /\ bus = [name |-> FALSE, object |-> FALSE, waiting |-> FALSE, mutter |-> TRUE]
  /\ proxy = {} /\ async = [c \in Calls |-> 0]
  /\ server = FALSE
  /\ handlers = [object |-> 0, server |-> 0]
  /\ client = Nobody
  /\ session = 0 /\ sessions = {} /\ dialog = 0
  /\ changes = 0 /\ clients = 0
  /\ remote \in BOOLEAN /\ away = FALSE

Call(a, c) == [a EXCEPT ![c] = @ + 1]
Reply(c) == ~away /\ async[c] > 0
Idle == \A c \in Calls : async[c] = 0

\* setup_handover, where the server runs and the object is there.
Setup(p, on) ==
  IF "object" \notin p \/ ~on THEN UNCHANGED <<handlers, async>>
  ELSE /\ handlers' = [object |-> handlers.object + 1, server |-> handlers.server + 1]
       /\ async' = IF bus.waiting THEN Call(async, "start") ELSE async
\* Mutant of Torn: the server's handler stays connected.
Torn_KeepsServer(p) == [handlers EXCEPT !.object = IF "object" \in p THEN 0 ELSE @]

\* teardown_handover.
Torn(p) == [object |-> IF "object" \in p THEN 0 ELSE handlers.object,
            server |-> IF server THEN 0 ELSE handlers.server]

-----------------------------------------------------------------------------
(* The bus *)

\* on_gnome_remote_desktop_name_appeared.
NameAppeared ==
  /\ ~away /\ ~bus.name /\ changes < MaxChanges /\ (Calm => Idle)
  /\ bus' = [bus EXCEPT !.name = TRUE] /\ changes' = changes + 1
  /\ async' = Call(async, "dispatcher")
  /\ UNCHANGED <<proxy, server, handlers, client, session, sessions, dialog, clients, remote, away>>

\* on_gnome_remote_desktop_name_vanished: the server goes on; a remote login logs out.
NameVanished ==
  /\ ~away /\ bus.name /\ changes < MaxChanges /\ (Calm => Idle)
  /\ bus' = [bus EXCEPT !.name = FALSE, !.object = FALSE, !.waiting = FALSE]
  /\ changes' = changes + 1
  /\ handlers' = Torn(proxy)
  /\ proxy' = {}
  /\ client' = Nobody
  /\ away' = remote
  /\ UNCHANGED <<async, server, session, sessions, dialog, clients, remote>>

\* on_remote_desktop_rdp_dispatcher_proxy_acquired: asserts that it has none.
DispatcherAcquired ==
  /\ Reply("dispatcher") /\ "dispatcher" \notin proxy
  /\ proxy' = proxy \cup {"dispatcher"}
  /\ async' = Call([async EXCEPT !["dispatcher"] = @ - 1], "request")
  /\ UNCHANGED <<bus, server, handlers, client, session, sessions, dialog, changes, clients, remote, away>>

\* on_remote_desktop_rdp_dispatcher_handover_requested: without an object of the session
\* start_watching_handover_objects.
HandoverRequested ==
  /\ Reply("request")
  /\ LET a == [async EXCEPT !["request"] = @ - 1]
     IN  async' = IF ~bus.name THEN a
                  ELSE IF bus.object THEN Call(a, "object")
                  ELSE IF "manager" \in proxy THEN a
                  ELSE Call(a, "manager")
  /\ UNCHANGED <<bus, proxy, server, handlers, client, session, sessions, dialog, changes, clients, remote, away>>

\* on_handover_object_manager_acquired: from now on added objects are noticed.
ManagerAcquired ==
  /\ Reply("manager")
  /\ proxy' = proxy \cup {"manager"}
  /\ async' = [async EXCEPT !["manager"] = @ - 1]
  /\ UNCHANGED <<bus, server, handlers, client, session, sessions, dialog, changes, clients, remote, away>>

\* The system daemon exports the object of the session; on_handover_object_added.
ObjectAdded ==
  /\ ~away /\ bus.name /\ ~bus.object /\ changes < MaxChanges /\ (Calm => Idle)
  /\ changes' = changes + 1
  /\ bus' \in {[bus EXCEPT !.object = TRUE, !.waiting = w] : w \in BOOLEAN}
  /\ async' = IF "manager" \in proxy THEN Call(async, "request") ELSE async
  /\ UNCHANGED <<proxy, server, handlers, client, session, sessions, dialog, clients, remote, away>>

\* on_remote_desktop_rdp_handover_proxy_acquired: setup_handover for a server that runs;
\* else grd_daemon_maybe_enable_services starts one and on_rdp_server_started sets it up.
ProxyAcquired ==
  /\ Reply("object")
  /\ proxy' = (proxy \ {"manager"}) \cup {"object"}
  /\ server' = (server \/ bus.mutter)
  /\ IF ~server' THEN /\ async' = [async EXCEPT !["object"] = @ - 1] /\ UNCHANGED handlers
     ELSE /\ handlers' = [object |-> handlers.object + 1, server |-> handlers.server + 1]
          /\ async' = [async EXCEPT !["object"] = @ - 1, !["start"] = IF bus.waiting THEN @ + 1 ELSE @]
  /\ UNCHANGED <<bus, client, session, sessions, dialog, changes, clients, remote, away>>

\* on_session_stopped, for the session the daemon watches.
Ended(S) ==
  /\ sessions' = sessions \ S
  /\ session' = IF session \in S THEN 0 ELSE session
  /\ away' = (away \/ (remote /\ session # 0 /\ session \in S))

\* Mutter's proxies vanish: on_rdp_server_stopped tears down, then the sessions stop.
ServerStopped ==
  /\ ~away /\ bus.mutter /\ changes < MaxChanges /\ (Calm => Idle /\ client.step \notin {"creds", "take"})
  /\ bus' = [bus EXCEPT !.mutter = FALSE] /\ changes' = changes + 1
  /\ server' = FALSE
  /\ handlers' = IF server THEN Torn(proxy) ELSE handlers
  /\ Ended(sessions)
  /\ UNCHANGED <<proxy, async, client, dialog, clients, remote>>

\* They are back: grd_daemon_maybe_enable_services, if the daemon is ready, and
\* on_rdp_server_started.
ServerStarted ==
  /\ ~away /\ ~bus.mutter /\ changes < MaxChanges
  /\ bus' = [bus EXCEPT !.mutter = TRUE] /\ changes' = changes + 1
  /\ server' = (server \/ "object" \in proxy)
  /\ IF ~server THEN Setup(proxy, server') ELSE UNCHANGED <<handlers, async>>
  /\ UNCHANGED <<proxy, client, session, sessions, dialog, clients, remote, away>>

-----------------------------------------------------------------------------
(* The handover of a client *)

\* on_handover_is_waiting_changed, start_handover: the system daemon redirects the client
\* to this session.
HandoverIsWaiting ==
  /\ ~away /\ bus.object /\ ~bus.waiting /\ clients < MaxClients
  /\ bus' = [bus EXCEPT !.waiting = TRUE]
  /\ async' = [async EXCEPT !["start"] = @ + handlers.object]
  /\ UNCHANGED <<proxy, server, handlers, client, session, sessions, dialog, changes, clients, remote, away>>

\* on_start_handover_finished, and the client that was redirected arrives at the system
\* daemon.
HandoverStarted ==
  /\ Reply("start")
  /\ async' = [async EXCEPT !["start"] = @ - 1]
  /\ IF bus.name /\ bus.waiting /\ client.step = "none" /\ clients < MaxClients
     THEN /\ clients' = clients + 1
          /\ client' \in {[step |-> "ready", creds |-> c] :
                            c \in {b \in BOOLEAN : Calm /\ remote /\ dialog # 0 => ~b}}
     ELSE UNCHANGED <<clients, client>>
  /\ UNCHANGED <<bus, proxy, server, handlers, session, sessions, dialog, changes, remote, away>>

\* on_take_client_ready: with the system's credentials they are fetched first.  A signal
\* that nobody is connected to is lost, and the system daemon gives the client up.
TakeClientReady ==
  /\ ~away /\ client.step = "ready"
  /\ client' = IF handlers.object = 0 THEN Nobody
               ELSE [client EXCEPT !.step = IF client.creds THEN "creds" ELSE "take"]
  /\ UNCHANGED <<bus, proxy, async, server, handlers, session, sessions, dialog, changes, clients, remote, away>>

\* on_get_system_credentials_finished.
GetSystemCredentialsFinished ==
  /\ ~away /\ client.step = "creds"
  /\ client' = [client EXCEPT !.step = "take"]
  /\ UNCHANGED <<bus, proxy, async, server, handlers, session, sessions, dialog, changes, clients, remote, away>>

\* Mutant of Incoming: the session before the new one goes on.
Incoming_KeepsOld(s) ==
  /\ sessions' = sessions \cup {s}
  /\ session' = IF handlers.server = 0 THEN session ELSE s
  /\ dialog' = dialog

\* on_incoming_new_connection, as often as it is connected, for a session whose client is
\* connected; an insecure remote login is told so (inform_about_insecure_connection).
Incoming(s) ==
  LET n == handlers.server
      stopped == IF n = 0 THEN {} ELSE IF n = 1 THEN {session} \ {0} ELSE {session, s} \ {0}
  IN  /\ sessions' = (sessions \cup {s}) \ stopped
      /\ session' = IF n = 0 THEN session ELSE s
      /\ dialog' = IF n > 0 /\ client.creds /\ remote THEN s ELSE dialog

\* on_take_client_finished: the server, which must run, accepts the connection, and the
\* client gets its session.
TakeClientFinished ==
  /\ ~away /\ client.step = "take" /\ server
  /\ Incoming(clients)
  /\ client' = Nobody
  /\ bus' = [bus EXCEPT !.waiting = FALSE]
  /\ UNCHANGED <<proxy, async, server, handlers, changes, clients, remote, away>>

\* on_redirect_client: the session's client goes on to another session; its own session
\* stops if it cannot be told, and when the client leaves.
ClientLeaves ==
  /\ ~away /\ sessions # {}
  /\ \E s \in sessions : Ended({s})
  /\ UNCHANGED <<bus, proxy, async, server, handlers, client, dialog, changes, clients, remote>>

\* "cancelled" of the dialog, prompt_response_callback: the user disconnects.
DialogCancelled ==
  /\ ~away /\ dialog # 0 /\ dialog \in sessions
  /\ Ended({dialog})
  /\ UNCHANGED <<bus, proxy, async, server, handlers, client, dialog, changes, clients, remote>>

Next ==
  \/ NameAppeared \/ NameVanished \/ DispatcherAcquired \/ HandoverRequested \/ ManagerAcquired
  \/ ObjectAdded \/ ProxyAcquired \/ ServerStopped \/ ServerStarted
  \/ HandoverIsWaiting \/ HandoverStarted \/ TakeClientReady \/ GetSystemCredentialsFinished
  \/ TakeClientFinished \/ ClientLeaves \/ DialogCancelled

-----------------------------------------------------------------------------
(* Properties *)

TypeOK ==
  /\ bus \in [name : BOOLEAN, object : BOOLEAN, waiting : BOOLEAN, mutter : BOOLEAN]
  /\ proxy \subseteq {"dispatcher", "object", "manager"}
  /\ async \in [Calls -> Nat] /\ handlers \in [object : Nat, server : Nat]
  /\ client \in [step : {"none", "ready", "creds", "take"}, creds : BOOLEAN]
  /\ {server, remote, away} \subseteq BOOLEAN
  /\ sessions \subseteq 1..MaxClients /\ {session, dialog} \subseteq 0..MaxClients

\* The handlers are connected once while there is an object and a server to hand clients
\* to, whichever came first, and not at all else.
HandlersOnce ==
  LET n == IF server /\ "object" \in proxy THEN 1 ELSE 0
  IN  handlers = [object |-> n, server |-> n]

\* The daemon watches the newest session, which alone goes on (grd_session_stop of the one
\* before), and never one that is gone.
WatchesTheSession == handlers.server = 1 => sessions \subseteq {session}
SessionLives == session # 0 => session \in sessions

\* The assertion of show_insecure_connection_dialog (grd-daemon-handover.c:320).
DialogShownOnce ==
  ~(~away /\ client.step = "take" /\ server /\ handlers.server > 0 /\ client.creds /\ remote /\ dialog # 0)

\* A daemon in a session with an object has its proxy, and a client that is ready is taken.
ObjectInUse ==
  /\ bus.name /\ bus.object /\ ~away => "object" \in proxy
  /\ client.step # "none" /\ ~away => ~server
================================================================================
