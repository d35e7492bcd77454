------------------------------- MODULE Services -------------------------------
(***************************************************************************)
(* The RDP and VNC servers that the daemons start and stop (grd-daemon.c,  *)
(* grd-daemon-user.c, the start and stop of grd-rdp-server.c).             *)
(*                                                                         *)
(* Two daemons run that get in each other's way: the one that shares the   *)
(* screen and the system daemon want the same TCP port, the headless and   *)
(* the handover daemon serve the same session and allow one connection in  *)
(* it.  They know of each other by the signals of their RdpServer D-Bus    *)
(* interfaces.                                                             *)
(***************************************************************************)
EXTENDS Naturals, FiniteSets

CONSTANTS
  MaxAttempts, \* RDP_SERVER_N_BINDING_ATTEMPTS
  MaxEvents,   \* bound: settings that change and proxies that come and go
  MaxLogins    \* bound: connections that get a session

VARIABLES
  mode,     \* the two daemons, by their runtime modes
  proxies,  \* what each daemon needs from the bus to be ready is there
  settings, \* of each daemon: subset of {"rdp", "vnc", "certificate", "negotiate"}
  rdp,      \* rdp_server: its port, its binding attempts, and its session: "none",
            \* "announced" to the other server, or "unheard" by it
  vnc,      \* vnc_server is there
  pending,  \* of each daemon: "ready" (signals of the settings), "restart" (the timer);
            \* of the other server: "watch", "seen" (its name is there), "proxy" (being
            \* created), "iface", "leaked" (a proxy that nobody refers to); "binding", "new"
            \* and "gone" (signals that were not handled yet); and, of the past, "failed" if
            \* the last start found no port, "late" if a proxy came too late to be cleared
  prompt,   \* of the user's daemon: its "stopped" and "started" handlers, "shown"
  events, logins

vars == <<mode, proxies, settings, rdp, vnc, pending, prompt, events, logins>>

Modes == {{"screen-share", "system"}, {"headless", "handover"}}
Daemons == UNION Modes
Off == [on |-> FALSE, port |-> "none", attempts |-> 0, session |-> "none"]
Other(d) == CHOOSE e \in Daemons : {d, e} \in Modes /\ d # e

\* grd_daemon_startup, grd_daemon_init: no proxy of the bus is there yet.
Init ==
  /\ mode \in Modes
  /\ proxies = [d \in Daemons |-> FALSE]
  /\ \E certificate \in SUBSET {"certificate"} :
       settings = [d \in Daemons |-> {"rdp", "negotiate"} \cup certificate]
  /\ rdp = [d \in Daemons |-> Off]
  /\ vnc = [d \in Daemons |-> FALSE]
  /\ pending = [d \in Daemons |-> {}]
  /\ prompt = {}
  /\ events = 0 /\ logins = 0

-----------------------------------------------------------------------------
(* Start and stop.  Each daemon is a record of the state it changes. *)

State(d) == [rdp |-> rdp[d], vnc |-> vnc[d], pending |-> pending[d],
             prompt |-> prompt, signal |-> {}]
Become(d, s) ==
  /\ rdp' = [rdp EXCEPT ![d] = s.rdp]
  /\ vnc' = [vnc EXCEPT ![d] = s.vnc]
  /\ pending' = [pending EXCEPT ![d] = s.pending, ![Other(d)] = @ \cup s.signal]
  /\ prompt' = s.prompt

\* The default port, unless the other server listens on it.
PortIsFree(d) == rdp[Other(d)].port # "default"

\* stop_rdp_server.  The handler of "rdp-server-stopped" that the port conflict connected
\* closes the prompt and disconnects itself.  A server that does not run leaves the timer
\* of the restart alone; a proxy that is being created is not cancelled.
StopRdp(d, s) ==
  IF ~s.rdp.on THEN [s EXCEPT !.pending = @ \ {"ready"}]
  ELSE [s EXCEPT !.rdp = Off, !.pending = @ \ {"ready", "watch", "seen", "gone", "iface", "restart"},
                 !.prompt = IF d = "screen-share" /\ "stopped" \in @ THEN @ \ {"stopped", "shown"} ELSE @]

\* Mutant of Bound: one attempt too many.
Bound_OneMore(d) ==
  IF d = "system" /\ ~PortIsFree(d)
  THEN [Off EXCEPT !.on = TRUE, !.attempts = MaxAttempts + 1]
  ELSE [Off EXCEPT !.on = TRUE, !.port = IF d = "handover" THEN "none"
                                         ELSE IF PortIsFree(d) THEN "default" ELSE "next"]

\* bind_socket: the system daemon waits for its port, the handover daemon has none.
Bound(d) ==
  IF d = "handover" THEN [Off EXCEPT !.on = TRUE]
  ELSE IF PortIsFree(d) THEN [Off EXCEPT !.on = TRUE, !.port = "default"]
  ELSE IF d = "system" THEN [Off EXCEPT !.on = TRUE, !.attempts = MaxAttempts]
  ELSE IF "negotiate" \in settings[d] THEN [Off EXCEPT !.on = TRUE, !.port = "next"]
  ELSE Off

\* start_rdp_server: the others hear that it binds its port, the user's daemon shows that
\* the port changed, and the servers of one session watch each other.
StartRdp(d, s) ==
  [s EXCEPT !.rdp = Bound(d),
            !.signal = IF d = "handover" THEN @ ELSE @ \cup {"binding"},
            !.pending = IF Bound(d).on
                        THEN (@ \ {"failed"}) \cup
                             IF d \in {"headless", "handover"} THEN {"watch"} ELSE {}
                        ELSE (@ \ {"ready"}) \cup {"failed"},
            !.prompt = IF Bound(d).on /\ d = "screen-share" /\ "started" \in @
                       THEN (@ \ {"started"}) \cup {"shown"} ELSE @]

\* Mutant of MaybeStartRdp: does not wait for the certificate.
MaybeStartRdp_NoWait(d, s) ==
  IF s.rdp.on \/ ~proxies'[d] \/ "rdp" \notin settings'[d] THEN s
  ELSE IF "certificate" \in settings'[d] \/ d = "handover" THEN StartRdp(d, s) ELSE s

\* maybe_start_rdp_server.
MaybeStartRdp(d, s) ==
  IF s.rdp.on \/ ~proxies'[d] \/ "rdp" \notin settings'[d] THEN s
  ELSE IF "certificate" \in settings'[d] \/ d = "handover" THEN StartRdp(d, s)
  ELSE [s EXCEPT !.pending = @ \cup {"ready"}]

\* grd_daemon_maybe_enable_services and grd_daemon_disable_services.
MaybeEnable(d, s) ==
  LET r == MaybeStartRdp(d, s)
  IN  IF proxies'[d] /\ "vnc" \in settings'[d] THEN [r EXCEPT !.vnc = TRUE] ELSE r
Disable(d, s) == [StopRdp(d, s) EXCEPT !.vnc = FALSE]

\* The last proxy is acquired, or the owner of a name is back
\* (on_mutter_remote_desktop_proxy_acquired, on_mutter_screen_cast_proxy_acquired,
\* on_remote_display_factory_proxy_acquired, on_gdm_object_manager_client_acquired).
ProxyAcquired(d) ==
  /\ d \in mode /\ ~proxies[d] /\ events < MaxEvents
  /\ proxies' = [proxies EXCEPT ![d] = TRUE]
  /\ UNCHANGED <<mode, settings, logins>> /\ events' = events + 1
  /\ Become(d, MaybeEnable(d, State(d)))

\* on_mutter_remote_desktop_name_vanished, on_remote_display_factory_name_owner_changed.  In
\* the system daemon on_gdm_name_vanished may drop the proxies before they say so, and the
\* server goes on without them.
NameVanished(d) ==
  /\ d \in mode /\ proxies[d] /\ events < MaxEvents
  /\ proxies' = [proxies EXCEPT ![d] = FALSE]
  /\ UNCHANGED <<mode, settings, logins>> /\ events' = events + 1
  /\ Become(d, Disable(d, State(d))) \/ (d = "system" /\ Become(d, State(d)))

\* on_rdp_enabled_changed and on_vnc_enabled_changed: whoever is not ready ignores them.
\* maybe_start_rdp_server as a handler of the settings: the certificate or the key came.
SettingChanged(d, k) ==
  /\ d \in mode /\ events < MaxEvents
  /\ k \in IF d = "handover" THEN {} ELSE IF d = "system" THEN {"rdp", "certificate"}
           ELSE {"rdp", "vnc", "certificate", "negotiate"}
  /\ settings' = [settings EXCEPT ![d] = IF k \in @ THEN @ \ {k} ELSE @ \cup {k}]
  /\ events' = events + 1
  /\ UNCHANGED <<mode, proxies, logins>>
  /\ LET s == State(d)
         on == k \in settings'[d]
     IN  Become(d, CASE k = "rdp" /\ proxies[d] -> IF on THEN MaybeStartRdp(d, s) ELSE StopRdp(d, s)
                     [] k = "vnc" /\ proxies[d] -> [s EXCEPT !.vnc = on]
                     [] k = "certificate" /\ "ready" \in pending[d] -> MaybeStartRdp(d, s)
                     [] OTHER -> s)

\* restart_rdp_server, RDP_SERVER_RESTART_DELAY_MS after the conflict.  The delay is
\* shorter than the attempts of the system daemon: who waits for the port has it by then.
RestartRdp(d) ==
  /\ "restart" \in pending[d] /\ rdp[Other(d)].attempts = 0
  /\ UNCHANGED <<mode, proxies, settings, events, logins>>
  /\ Become(d, MaybeStartRdp(d, [State(d) EXCEPT !.pending = @ \ {"restart"}]))

\* attempt_to_bind_port, in the system daemon; without a port after the last attempt
\* "binding-failed" stops the server, whose last reference may go with it; the source id that
\* is written into it afterwards changes nothing here.  The signal that it binds is handled
\* long before.
AttemptToBindPort(d) ==
  /\ rdp[d].on /\ rdp[d].attempts > 0
  /\ PortIsFree(d) \/ rdp[d].attempts > 1 \/ "binding" \notin pending[Other(d)]
  /\ UNCHANGED <<mode, proxies, settings, events, logins>>
  /\ Become(d, IF PortIsFree(d)
               THEN [State(d) EXCEPT !.rdp.port = "default", !.rdp.attempts = 0]
               ELSE IF rdp[d].attempts = 1
               THEN [StopRdp(d, State(d)) EXCEPT !.pending = @ \cup {"failed"}]
               ELSE [State(d) EXCEPT !.rdp.attempts = @ - 1])

\* on_system_rdp_server_binding with grd_daemon_restart_rdp_server_with_delay; the system
\* daemon has no handler for the signal.
SystemBinding(d) ==
  /\ "binding" \in pending[d]
  /\ UNCHANGED <<mode, proxies, settings, events, logins>>
  /\ LET s == [State(d) EXCEPT !.pending = @ \ {"binding"}]
         c == [s EXCEPT !.prompt = @ \cup {"stopped", "started"}]
     IN  Become(d, IF d # "screen-share" \/ rdp[d].port # "default" THEN s
                   ELSE IF "restart" \in s.pending THEN c
                   ELSE [StopRdp(d, c) EXCEPT !.pending = @ \cup {"restart"}])

\* on_rdp_server_started is called while the server starts, in StartRdp; the user answers
\* (prompt_response_callback).
PromptAnswered ==
  /\ "shown" \in prompt
  /\ prompt' = prompt \ {"shown"}
  /\ UNCHANGED <<mode, proxies, settings, rdp, vnc, pending, events, logins>>

-----------------------------------------------------------------------------
(* The other server of the session *)

\* Signals of the other server reach this daemon, and its handler.
Hears(d) == pending[d] \cap {"iface", "leaked"} # {}

\* on_remote_desktop_rdp_server_name_appeared: the other daemon runs, a proxy is created; one
\* that is created already comes first.
OtherAppeared(d) ==
  /\ "watch" \in pending[d] /\ pending[d] \cap {"proxy", "seen"} = {}
  /\ pending' = [pending EXCEPT ![d] = @ \cup {"proxy", "seen"}]
  /\ UNCHANGED <<mode, proxies, settings, rdp, vnc, prompt, events, logins>>

\* on_remote_desktop_rdp_server_proxy_acquired: also after the server was stopped, and over a
\* proxy that came after that, which is lost with its handler.
OtherAcquired(d) ==
  /\ "proxy" \in pending[d]
  /\ pending' = [pending EXCEPT ![d] = (@ \ {"proxy"}) \cup {"iface"}
                                       \cup (IF "iface" \in @ THEN {"leaked"} ELSE {})
                                       \cup (IF "iface" \in @ \/ ~rdp[d].on THEN {"late"} ELSE {})]
  /\ UNCHANGED <<mode, proxies, settings, rdp, vnc, prompt, events, logins>>

\* on_remote_desktop_rdp_server_name_vanished, after the signals that were sent before.
OtherVanished(d) ==
  /\ "gone" \in pending[d] /\ "new" \notin pending[d]
  /\ pending' = [pending EXCEPT ![d] = @ \ {"gone", "seen", "iface"}]
  /\ UNCHANGED <<mode, proxies, settings, rdp, vnc, prompt, events, logins>>

\* on_session_post_connect: a session of this server replaces its others, and the other
\* server is told if it listens by then.
PostConnect(d) ==
  /\ d \in mode /\ rdp[d].on /\ logins < MaxLogins
  /\ d \in {"headless", "handover"}
  /\ logins' = logins + 1
  /\ rdp' = [rdp EXCEPT ![d].session = IF Hears(Other(d)) THEN "announced" ELSE "unheard"]
  /\ pending' = [pending EXCEPT ![Other(d)] = IF Hears(Other(d)) THEN @ \cup {"new"} ELSE @]
  /\ UNCHANGED <<mode, proxies, settings, vnc, prompt, events>>

\* The daemon aborts and is started again; the other one is told that its name vanished.
Aborted(d) ==
  /\ proxies' = [proxies EXCEPT ![d] = FALSE]
  /\ rdp' = [rdp EXCEPT ![d] = Off]
  /\ vnc' = [vnc EXCEPT ![d] = FALSE]
  /\ pending' = [pending EXCEPT ![d] = {}, ![Other(d)] = IF "seen" \in @ THEN @ \cup {"gone"} ELSE @]

\* on_other_rdp_server_new_connection with grd_rdp_server_stop_sessions; it asserts that
\* the server runs.  A signal for a proxy that is gone reaches nobody.
OtherNewConnection(d) ==
  /\ "new" \in pending[d]
  /\ UNCHANGED <<mode, settings, prompt, events, logins>>
  /\ IF Hears(d) /\ ~rdp[d].on THEN Aborted(d)
     ELSE /\ rdp' = [rdp EXCEPT ![d].session = IF Hears(d) THEN "none" ELSE @]
          /\ pending' = [pending EXCEPT ![d] = @ \ {"new"}]
          /\ UNCHANGED <<proxies, vnc>>

Next ==
  \/ \E d \in Daemons :
       \/ ProxyAcquired(d) \/ NameVanished(d)
       \/ \E k \in {"rdp", "vnc", "certificate", "negotiate"} : SettingChanged(d, k)
       \/ RestartRdp(d) \/ AttemptToBindPort(d) \/ SystemBinding(d)
       \/ OtherAppeared(d) \/ OtherAcquired(d) \/ OtherVanished(d) \/ PostConnect(d) \/ OtherNewConnection(d)
  \/ PromptAnswered

-----------------------------------------------------------------------------
(* Properties *)

TypeOK ==
  /\ mode \in Modes /\ proxies \in [Daemons -> BOOLEAN] /\ vnc \in [Daemons -> BOOLEAN]
  /\ rdp \in [Daemons -> [on : BOOLEAN, port : {"none", "default", "next"},
                          attempts : 0..MaxAttempts, session : {"none", "announced", "unheard"}]]
  /\ \A d \in Daemons : pending[d] \subseteq {"ready", "restart", "watch", "seen", "proxy", "iface",
                                              "leaked", "binding", "new", "gone", "failed", "late"}
  /\ prompt \subseteq {"stopped", "started", "shown"}

\* What a daemon without its proxies must not have: a server, unless it is the system
\* daemon's, a session, a prompt about the port of a server; and what is stopped leaves
\* nothing that only a running server has, but for a proxy that came too late.
StoppedServersAreQuiet == \A d \in Daemons :
  /\ ~proxies[d] => (rdp[d].on => d = "system") /\ ~vnc[d] /\ rdp[d].session = "none"
  /\ ~rdp[d].on => /\ rdp[d].port = "none" /\ pending[d] \cap {"watch", "seen", "gone"} = {}
                   /\ "iface" \in pending[d] => "late" \in pending[d]

\* The assertion of on_other_rdp_server_new_connection (grd-daemon.c:317) holds, except for a
\* proxy that was acquired after the server had stopped, or over such a proxy.
OtherServerAsserts == \A d \in Daemons :
  "new" \in pending[d] /\ Hears(d) => rdp[d].on \/ "late" \in pending[d]

\* A server runs if it is wanted and has a port to run on: after a conflict the system
\* daemon is on the default port and the user's on another one, unless it had none
\* to go to or took the port once more while the system daemon tried.
Wanted(d) ==
  /\ proxies[d] /\ "rdp" \in settings[d] /\ ("certificate" \in settings[d] \/ d = "handover")
  /\ "failed" \notin pending[d]
Served == \A d \in mode :
  /\ Wanted(d) => rdp[d].on
  /\ rdp[d].on => rdp[d].attempts = 0
  /\ "restart" \notin pending[d] /\ "binding" \notin pending[d]
\* A session is served by one of its two servers, once they listen to each other: the
\* session that was there first ends when the signal arrives.
OneServerPerSession == \A d \in mode :
  rdp[d].session = "announced" /\ rdp[Other(d)].session = "announced" =>
    "new" \in pending[d] \cup pending[Other(d)]
================================================================================
