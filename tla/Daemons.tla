-------------------------------- MODULE Daemons --------------------------------
(***************************************************************************)
(* The daemons: the servers that each of them starts and stops (Services), *)
(* the way of a remote client through the system daemon (TokenPeek,        *)
(* RemoteClients) and to the daemon of a session (HandoverDaemon), and the *)
(* sessions of RDP and VNC clients (Session, VncSession).  Each part sees  *)
(* the others as its environment, in the calls and signals that it models, *)
(* so that a behaviour is one of them, as its scenario says.               *)
(***************************************************************************)
EXTENDS Naturals, FiniteSets

CONSTANTS MaxAttempts, MaxEvents, MaxLogins, \* of Services
          MaxChanges, MaxClients, Calm,      \* of HandoverDaemon
          Ids, Sessions, Display, Windows, MaxReady, \* of RemoteClients
          Conn, Packets,                     \* of TokenPeek
          VncClient, Key, Button, MaxInputs, \* of VncSession
          RdpClient, NoSession, Answered, Channel, RdpModes \* of Session

ASSUME DaemonsAssumption ==
  /\ {MaxEvents, MaxLogins, MaxChanges, MaxClients, MaxReady} \subseteq Nat
  /\ MaxAttempts \in Nat \ {0} /\ Calm \in BOOLEAN
  /\ "none" \notin Ids \cup Sessions \cup Display
  /\ Packets \subseteq [tpkt : BOOLEAN, x224 : BOOLEAN, cookie : BOOLEAN,
                        neg : {"absent", "wrong", "rdstls", "other"}]
  /\ IsFiniteSet(VncClient) /\ "none" \notin VncClient /\ "wheel" \notin Button
  /\ MaxInputs \in Nat
  /\ IsFiniteSet(RdpClient) /\ NoSession \notin RdpClient /\ Answered \subseteq RdpClient
  /\ IsFiniteSet(Channel)
  /\ RdpModes \subseteq {"system", "screen-share", "headless", "handover"}

\* A small set for Packets: whole connection requests, and two that break off.
SmallPackets ==
  [tpkt : {TRUE}, x224 : {TRUE}, cookie : BOOLEAN, neg : {"absent", "wrong", "rdstls", "other"}]
  \cup {[tpkt |-> FALSE, x224 |-> TRUE, cookie |-> TRUE, neg |-> "absent"],
        [tpkt |-> TRUE, x224 |-> FALSE, cookie |-> TRUE, neg |-> "rdstls"]}

VARIABLES
  scenario,
  mode, proxies, settings, rdp, vnc, pending, prompt, events, logins,
  bus, proxy, async, server, handlers, client, session, sessions, dialog, changes, clients,
  remote, away,
  remotes, displays, exported, creating, weakRefs, spent, running,
  packet, arrived, peek, listen, outcome,
  vncServer, vncSessions, vncStopped, vncIdles, vncs, viewOnly, keys, buttons, clip, inputs,
  rdpMode, rdpServer, rdpSessions, stopped, cleanup, idles, main, ses

S == INSTANCE Services
H == INSTANCE HandoverDaemon
R == INSTANCE RemoteClients
T == INSTANCE TokenPeek
V == INSTANCE VncSession
D == INSTANCE Session WITH Session <- RdpClient, Modes <- RdpModes, mode <- rdpMode,
                           server <- rdpServer, sessions <- rdpSessions

serviceVars == <<mode, proxies, settings, rdp, vnc, pending, prompt, events, logins>>
handoverVars == <<bus, proxy, async, server, handlers, client, session, sessions, dialog,
                  changes, clients, remote, away>>
remoteVars == <<remotes, displays, exported, creating, weakRefs, spent, running>>
tokenVars == <<packet, arrived, peek, listen, outcome>>
vncVars == <<vncServer, vncSessions, vncStopped, vncIdles, vncs, viewOnly, keys, buttons, clip,
             inputs>>
rdpVars == <<rdpMode, rdpServer, rdpSessions, stopped, cleanup, idles, main, ses>>
vars == <<scenario, serviceVars, handoverVars, remoteVars, tokenVars, vncVars, rdpVars>>

Init ==
  /\ S!Init /\ H!Init /\ R!Init /\ T!Init /\ V!Init /\ D!Init
  /\ scenario \in {"services", "handover", "clients", "tokens", "vnc", "rdp"}
  /\ scenario # "services" => mode = {"headless", "handover"} /\ "certificate" \in settings["system"]
  /\ scenario # "rdp" => rdpMode = CHOOSE m \in RdpModes : TRUE
  /\ scenario # "handover" => remote
  /\ scenario # "tokens" => \A c \in Conn : packet[c] = CHOOSE p \in Packets : TRUE

OfServices ==
  scenario = "services" /\ UNCHANGED <<scenario, handoverVars, remoteVars, tokenVars, vncVars, rdpVars>>
OfHandover ==
  scenario = "handover" /\ UNCHANGED <<scenario, serviceVars, remoteVars, tokenVars, vncVars, rdpVars>>
OfClients ==
  scenario = "clients" /\ UNCHANGED <<scenario, serviceVars, handoverVars, tokenVars, vncVars, rdpVars>>
OfTokens ==
  scenario = "tokens" /\ UNCHANGED <<scenario, serviceVars, handoverVars, remoteVars, vncVars, rdpVars>>
OfVnc ==
  scenario = "vnc" /\ UNCHANGED <<scenario, serviceVars, handoverVars, remoteVars, tokenVars, rdpVars>>
OfRdp ==
  scenario = "rdp" /\ UNCHANGED <<scenario, serviceVars, handoverVars, remoteVars, tokenVars, vncVars>>

Next ==
  \/ OfServices /\ S!Next
  \/ OfHandover /\ H!Next
  \/ OfClients /\ R!Next
  \/ OfTokens /\ T!Next
  \/ OfVnc /\ V!Next
  \/ OfRdp /\ D!Next

Spec == Init /\ [][Next]_vars

\* Timers fire, D-Bus calls are answered and signals are delivered, and a thread that peeks
\* polls again after a while; the main loops dispatch their idle sources, and the threads of a
\* session notice that it stops.  Nobody has to connect, to log in, to leave or to change a
\* setting, and the display server owes no answer.
Fairness ==
  /\ WF_vars(OfServices /\ \E d \in mode :
       \/ S!RestartRdp(d) \/ S!AttemptToBindPort(d) \/ S!SystemBinding(d)
       \/ S!OtherAcquired(d) \/ S!OtherVanished(d) \/ S!OtherNewConnection(d))
  /\ WF_vars(OfHandover /\ H!DispatcherAcquired) /\ WF_vars(OfHandover /\ H!HandoverRequested)
  /\ WF_vars(OfHandover /\ H!ManagerAcquired) /\ WF_vars(OfHandover /\ H!ProxyAcquired)
  /\ WF_vars(OfHandover /\ H!HandoverStarted)
  /\ WF_vars(OfHandover /\ (H!TakeClientReady \/ H!GetSystemCredentialsFinished \/ H!TakeClientFinished))
  /\ WF_vars(OfClients /\ running /\ \E i \in Ids : R!AbortHandover(i) \/ R!CreateFailed(i))
  /\ \A c \in Conn :
       WF_vars(OfTokens /\ T!PeekThread(c)) /\ WF_vars(OfTokens /\ T!AbortPeek(c))
       /\ WF_vars(OfTokens /\ T!TokenPeeked(c))
  /\ WF_vars(OfVnc /\ V!DispatchIdle)
  /\ WF_vars(OfRdp /\ D!MainLoop)
  /\ \A s \in RdpClient :
       WF_vars(OfRdp /\ D!SocketGoesOn(s)) /\ WF_vars(OfRdp /\ D!GraphicsGoesOn(s))

FairSpec == Spec /\ Fairness

-----------------------------------------------------------------------------
(* Properties *)

TypeOK ==
  S!TypeOK /\ H!TypeOK /\ R!TypeOK /\ T!TypeOK /\ V!TypeOK /\ D!TypeOK

\* What is connected is connected once and to something that lives: the objects on the bus
\* are those of the clients in the table, through logins, steals and removals
\* (grd-daemon-system.c:526-583), the displays call those clients only, and a session pointer
\* in the table is of a session that lives, also when the weak reference of a freed client's
\* session writes there (608-612, 651-653); a server outlives its proxies in the system daemon
\* only (1406-1421), and a stopped one leaves nothing but a proxy that came too late
\* (grd-daemon.c:323-351); and the handler of a new session is called once for it, whichever
\* of server and object came first (grd-daemon-handover.c:497-552).
ConnectionsSound ==
  /\ R!ObjectsAgree /\ R!SignalsLive /\ R!SessionPointersLive
  /\ S!StoppedServersAreQuiet
  /\ H!HandlersOnce /\ H!SessionLives

\* A client goes where its token says and nowhere else: peeked at for a server that still
\* runs (grd-rdp-server.c:217-218), it has a destination and a timer from when it was told to
\* come back (grd-daemon-system.c:405-411) until it is taken (193), and replaces the session's
\* client before it, in this daemon (grd-daemon-handover.c:477-483) and in the other one, whose
\* server runs then as its handler asserts, unless its proxy came too late (grd-daemon.c:312-321).
ClientsArrive ==
  /\ T!RoutedByPacket /\ R!RedirectionsTimed
  /\ H!WatchesTheSession /\ S!OneServerPerSession /\ S!OtherServerAsserts

\* A VNC session is stopped once, by one source that is exact, and freed; whoever is waited
\* for while the socket source is detached is there when the answer comes
\* (grd-session-vnc.c:267-301, 543-570); and the display server has what the client has:
\* the keys and buttons that it holds, and its text (grd-clipboard-vnc.c:82-93).
VncSessionsSound ==
  V!ClosesExact /\ V!AnswersFindClient /\ V!InputBalances /\ V!TextBehindTypes

\* An RDP session is stopped once and nothing of it is left when it is freed; it was started
\* when both the EI connection and the display server said so; and where there may be only
\* one session, there is one.
RdpSessionsSound == D!StoppedIsGone /\ D!OneSession

\* What the threads of an RDP session share with the main thread by id or by pointer exists.
HandlesValid == D!HandlesValid

\* A session of either server ends once and leaves nothing behind that refers to it.
SessionsSound == VncSessionsSound /\ RdpSessionsSound /\ HandlesValid

\* Servers that are wanted run on ports of their own, a daemon has the object of its
\* session, a client that is ready is taken or given up, a peek ends, and a session whose client left
\* or that was told to end is freed.
DaemonsSettle ==
  /\ []<>(S!Served /\ H!ObjectInUse /\ T!PeeksEnd /\ V!SessionsFreed /\ D!EverythingEnds)
  /\ \A i \in Ids : []<>R!HandoverEnds(i)

\* The user is asked about an insecure connection in one dialog: "g_assert
\* (!daemon_handover->dialog)" (grd-daemon-handover.c:320).
DialogShownOnce == H!DialogShownOnce
================================================================================
