-------------------------------- MODULE Session --------------------------------
(***************************************************************************)
(* The life of RDP sessions: GrdSessionRdp (src/src/grd-session-rdp.c) with *)
(* its parent GrdSession (src/src/grd-session.c), the list that GrdRdpServer *)
(* keeps of them (src/src/grd-rdp-server.c), and the channels that tear      *)
(* themselves down (src/src/grd-rdp-dvc.c).                                *)
(*                                                                         *)
(* Each session has a socket thread, which accepts the client, opens the   *)
(* channels and notices when the client goes away, and, once it started, a *)
(* graphics thread.  Everything else happens on the main thread, in the    *)
(* handlers of its sources: the idle sources that the two threads add, the *)
(* answers to the D-Bus calls that start the session, the events of libei, *)
(* and the sources by which a channel asks to be torn down.                *)
(*                                                                         *)
(* A handler of the main thread is one step unless it stops a session.     *)
(* Then it waits for both threads and for the mutexes that they hold, and  *)
(* main says how far it is.                                                *)
(***************************************************************************)
EXTENDS Naturals, Sequences, FiniteSets, SequencesExt

CONSTANTS
  Session,    \* the clients that connect
  NoSession,  \* not one of them
  Answered,   \* those for whom the display server answers, a bound of the model
  Channel,    \* the channels of a session that can be torn down on their own
  Modes       \* the runtime modes that are looked at

VARIABLES
  mode,      \* the runtime mode
  server,    \* "up", "stopping" (in grd_rdp_server_stop) or "down"
  sessions,  \* the sessions of the server
  stopped,   \* stopped_sessions
  cleanup,   \* cleanup_sessions_idle_id is set
  idles,     \* the idle sources of the main loop, in the order they were added
  main,      \* what the main thread does
  ses        \* the state of each session

-----------------------------------------------------------------------------
(* Vocabulary *)

\* The calls by which a session is started, each made when the one before it
\* was answered.
Calls == <<"create", "proxy", "connect-to-eis", "create-screen-cast",
           "screen-cast-proxy", "start">>

NextCall(call) == LET i == CHOOSE n \in 1 .. Len(Calls) : Calls[n] = call
                  IN  IF i < Len(Calls) THEN Calls[i + 1] ELSE "none"

\* Where the socket thread is: in the handshake, in the critical section of
\* rdp_peer_post_connect, in its loop, waiting for channel_mutex, holding it; or
\* in maybe_queue_close_session_idle: with the idle source added, with its id
\* assigned and close_session_mutex released; or at its end.
SocketStates == {"handshake", "posting", "loop", "locking", "scanning",
                 "closing", "closed", "exited"}

GraphicsStates == {"none", "running", "closing", "closed", "exited"}

\* A session before grd_session_rdp_new.
NewSession ==
  [life    |-> "none",       \* "accepted", "connected", "stopped", "freed"
   sock    |-> "handshake",
   gfx     |-> "none",
   should  |-> FALSE,        \* session_should_stop
   post    |-> FALSE,        \* notify_post_connected_source_id is set
   close   |-> FALSE,        \* close_session_idle_id is set
   chan    |-> [c \in Channel |-> "none"],
   local   |-> {},           \* the channels the socket thread has pointers to
   call    |-> "none",       \* the D-Bus call that is not answered yet
   cancel  |-> "none",       \* the cancellable: "live", "cancelled"
   ei      |-> FALSE,        \* connected to libei and to the "closed" signal
   ready   |-> FALSE,        \* is_ready
   started |-> FALSE,
   starts  |-> 0]            \* STARTED was emitted so often

Loop == [at |-> "loop", s |-> NoSession, rest |-> <<>>]

\* The main thread begins to stop s, and the sessions in rest after it.
Stopping(s, rest) == [at |-> "begin", s |-> s, rest |-> rest]

InLoop == main.at = "loop" /\ server # "stopping"

HasPeer(s) == ses[s].life \in {"accepted", "connected"}
Existing(s) == {c \in Channel : ses[s].chan[c] \notin {"none", "gone"}}

\* channel_mutex and close_session_mutex of s can be locked.
ChannelMutexFree(s) == ses[s].sock # "scanning"
CloseMutexFree(s) == ses[s].sock # "closing" /\ ses[s].gfx # "closing"

Set(s, f) == ses' = [ses EXCEPT ![s] = f]

Init ==
  /\ mode \in Modes
  /\ server = "up"
  /\ sessions = <<>> /\ stopped = <<>> /\ cleanup = FALSE
  /\ idles = <<>>
  /\ main = Loop
  /\ ses = [s \in Session |-> NewSession]

-----------------------------------------------------------------------------
(* The socket thread *)

\* rdp_peer_post_connect adds the idle source and stores its id, under
\* notify_post_connected_mutex.
PostConnect(s) ==
  /\ HasPeer(s) /\ ses[s].sock = "handshake"
  /\ idles' = Append(idles, <<"post", s>>)
  /\ Set(s, [ses[s] EXCEPT !.sock = "posting"])
  /\ UNCHANGED <<mode, server, sessions, stopped, cleanup, main>>

PostConnected(s) ==
  /\ ses[s].sock = "posting"
  /\ Set(s, [ses[s] EXCEPT !.sock = "loop", !.post = TRUE])
  /\ UNCHANGED <<mode, server, sessions, stopped, cleanup, idles, main>>

\* The events of the client were handled; the channels are next.
HandleEvents(s) ==
  /\ ses[s].sock = "loop" /\ ~ses[s].should /\ Existing(s) # {}
  /\ Set(s, [ses[s] EXCEPT !.sock = "locking"])
  /\ UNCHANGED <<mode, server, sessions, stopped, cleanup, idles, main>>

LockChannels(s) ==
  /\ ses[s].sock = "locking" /\ ChannelMutexFree(s)
  /\ Set(s, [ses[s] EXCEPT !.sock = "scanning", !.local = Existing(s)])
  /\ UNCHANGED <<mode, server, sessions, stopped, cleanup, idles, main>>

\* grd_rdp_dvc_maybe_init: opens the channel, unless it is unavailable or open.
InitChannel(s, c) ==
  /\ ses[s].sock = "scanning" /\ c \in ses[s].local /\ ~ses[s].should
  /\ Set(s, [ses[s] EXCEPT !.local = @ \ {c},
                           !.chan[c] = IF @ = "made" THEN "open" ELSE @])
  /\ UNCHANGED <<mode, server, sessions, stopped, cleanup, idles, main>>

UnlockChannels(s) ==
  /\ ses[s].sock = "scanning" /\ (ses[s].local = {} \/ ses[s].should)
  /\ Set(s, [ses[s] EXCEPT !.sock = "loop", !.local = {}])
  /\ UNCHANGED <<mode, server, sessions, stopped, cleanup, idles, main>>

\* The client is gone, and handle_client_gone queues the end of the session.
ClientGone(s) ==
  /\ HasPeer(s) /\ ses[s].sock \in {"handshake", "loop"} /\ ~ses[s].should
  /\ CloseMutexFree(s)
  /\ IF ses[s].close
       THEN /\ Set(s, [ses[s] EXCEPT !.sock = "exited"])
            /\ UNCHANGED idles
       ELSE /\ Set(s, [ses[s] EXCEPT !.sock = "closing"])
            /\ idles' = Append(idles, <<"close", s>>)
  /\ UNCHANGED <<mode, server, sessions, stopped, cleanup, main>>

SocketAssigns(s) ==
  /\ ses[s].sock = "closing"
  /\ Set(s, [ses[s] EXCEPT !.sock = "closed", !.close = TRUE])
  /\ UNCHANGED <<mode, server, sessions, stopped, cleanup, idles, main>>

SocketFlags(s) ==
  /\ ses[s].sock = "closed"
  /\ Set(s, [ses[s] EXCEPT !.sock = "exited", !.should = TRUE])
  /\ UNCHANGED <<mode, server, sessions, stopped, cleanup, idles, main>>

\* The stop event wakes the thread up.
SocketStops(s) ==
  /\ HasPeer(s) /\ ses[s].sock \in {"handshake", "loop"} /\ ses[s].should
  /\ Set(s, [ses[s] EXCEPT !.sock = "exited"])
  /\ UNCHANGED <<mode, server, sessions, stopped, cleanup, idles, main>>

-----------------------------------------------------------------------------
(* The graphics thread *)

\* grd_session_rdp_notify_error, when the graphics subsystem failed.
GraphicsFails(s) ==
  /\ ses[s].gfx = "running" /\ ~ses[s].close /\ CloseMutexFree(s)
  /\ idles' = Append(idles, <<"close", s>>)
  /\ Set(s, [ses[s] EXCEPT !.gfx = "closing"])
  /\ UNCHANGED <<mode, server, sessions, stopped, cleanup, main>>

GraphicsAssigns(s) ==
  /\ ses[s].gfx = "closing"
  /\ Set(s, [ses[s] EXCEPT !.gfx = "closed", !.close = TRUE])
  /\ UNCHANGED <<mode, server, sessions, stopped, cleanup, idles, main>>

GraphicsFlags(s) ==
  /\ ses[s].gfx = "closed"
  /\ Set(s, [ses[s] EXCEPT !.gfx = "running", !.should = TRUE])
  /\ UNCHANGED <<mode, server, sessions, stopped, cleanup, idles, main>>

\* in_shutdown of the renderer is set.
GraphicsStops(s) ==
  /\ ses[s].gfx = "running" /\ main.at = "graphics" /\ main.s = s
  /\ Set(s, [ses[s] EXCEPT !.gfx = "exited"])
  /\ UNCHANGED <<mode, server, sessions, stopped, cleanup, idles, main>>

-----------------------------------------------------------------------------
(* The main thread: the server and the idle sources *)

Accept(s) ==
  /\ InLoop /\ server = "up" /\ ses[s].life = "none"
  /\ Set(s, [ses[s] EXCEPT !.life = "accepted"])
  /\ sessions' = Append(sessions, s)
  /\ UNCHANGED <<mode, server, stopped, cleanup, idles, main>>

\* grd_session_start makes the first call.
Started(s) == [ses[s] EXCEPT !.cancel = "live", !.call = "create"]

\* notify_post_connected, under the mutex of the thread that queued it, and
\* on_session_post_connect of the server, which stops all other sessions where there may
\* be only one.
Exclusive == mode \in {"headless", "handover"}
NotifyPostConnected(s) ==
  /\ InLoop /\ idles # <<>> /\ Head(idles) = <<"post", s>>
  /\ ses[s].sock # "posting"
  /\ idles' = Tail(idles)
  /\ Set(s, [(IF mode = "system" THEN ses[s] ELSE Started(s))
               EXCEPT !.post = FALSE, !.life = "connected"])
  /\ LET others == Remove(sessions, s)
     IN  main' = IF Exclusive /\ others # <<>>
                   THEN Stopping(Head(others), Tail(others)) ELSE Loop
  /\ UNCHANGED <<mode, server, sessions, stopped, cleanup>>

\* close_session_idle, which stops the session.
CloseSessionIdle(s) ==
  /\ InLoop /\ idles # <<>> /\ Head(idles) = <<"close", s>>
  /\ idles' = Tail(idles)
  /\ main' = Stopping(s, <<>>)
  /\ UNCHANGED <<mode, server, sessions, stopped, cleanup, ses>>

Freed(list) ==
  [s \in Session |-> IF Contains(list, s) THEN [ses[s] EXCEPT !.life = "freed"]
                     ELSE ses[s]]

CleanupStoppedSessionsIdle ==
  /\ InLoop /\ idles # <<>> /\ Head(idles) = <<"cleanup", NoSession>>
  /\ idles' = Tail(idles)
  /\ ses' = Freed(stopped)
  /\ stopped' = <<>> /\ cleanup' = FALSE
  /\ UNCHANGED <<mode, server, sessions, main>>

\* grd_rdp_server_stop stops the first session until there is none, and frees
\* all that were stopped.
StopServer ==
  /\ InLoop /\ server = "up"
  /\ server' = "stopping"
  /\ UNCHANGED <<mode, sessions, stopped, cleanup, idles, main, ses>>

StopNextSession ==
  /\ server = "stopping" /\ main.at = "loop" /\ sessions # <<>>
  /\ main' = Stopping(Head(sessions), <<>>)
  /\ UNCHANGED <<mode, server, sessions, stopped, cleanup, idles, ses>>

FinishServerStop ==
  /\ server = "stopping" /\ main.at = "loop" /\ sessions = <<>>
  /\ server' = "down"
  /\ idles' = SelectSeq(idles, LAMBDA i : i[1] # "cleanup")
  /\ ses' = Freed(stopped)
  /\ stopped' = <<>> /\ cleanup' = FALSE
  /\ UNCHANGED <<mode, sessions, main>>

-----------------------------------------------------------------------------
(* The main thread: starting a session *)

\* maybe_queue_close_session_idle, on the main thread.
CloseQueued(f) == IF f.close THEN f ELSE [f EXCEPT !.close = TRUE, !.should = TRUE]
CloseIdleAdded(s) == IF ses[s].close THEN idles ELSE Append(idles, <<"close", s>>)

\* grd_session_rdp_notify_error, on the main thread: a PipeWire stream failed, or
\* the system daemon aborts the handover.
NotifyError(s) ==
  /\ InLoop /\ ses[s].life = "connected" /\ ~ses[s].close /\ CloseMutexFree(s)
  /\ idles' = CloseIdleAdded(s)
  /\ Set(s, CloseQueued(ses[s]))
  /\ UNCHANGED <<mode, server, sessions, stopped, cleanup, main>>

\* on_remote_desktop_session_started: the graphics thread is started, or that fails.
SessionStarted(s, f) ==
  \/ /\ Set(s, [f EXCEPT !.starts = @ + 1, !.gfx = "running"])
     /\ UNCHANGED idles
  \/ /\ CloseMutexFree(s)
     /\ Set(s, CloseQueued([f EXCEPT !.starts = @ + 1]))
     /\ idles' = CloseIdleAdded(s)

\* The signal is emitted when the session, that changes to f, is ready and started.
MaybeEmitStarted(s, f) ==
  \/ f.ready /\ f.started /\ SessionStarted(s, f)
  \/ ~(f.ready /\ f.started) /\ Set(s, f) /\ UNCHANGED idles

\* The call is answered: the next one is made.
Answer(s) ==
  /\ InLoop /\ s \in Answered
  /\ ses[s].call \notin {"none", "start"} /\ ses[s].cancel = "live"
  /\ Set(s, [ses[s] EXCEPT !.call = NextCall(@),
                           !.ei = @ \/ ses[s].call = "connect-to-eis"])
  /\ UNCHANGED <<mode, server, sessions, stopped, cleanup, idles, main>>

\* on_session_start_finished.
StartAnswered(s) ==
  /\ InLoop /\ s \in Answered
  /\ ses[s].call = "start" /\ ses[s].cancel = "live"
  /\ MaybeEmitStarted(s, [ses[s] EXCEPT !.call = "none", !.started = TRUE])
  /\ UNCHANGED <<mode, server, sessions, stopped, cleanup, main>>

\* A call fails, and its handler stops the session.
CallFails(s) ==
  /\ InLoop /\ s \in Answered
  /\ ses[s].call # "none" /\ ses[s].cancel = "live"
  /\ Set(s, [ses[s] EXCEPT !.call = "none"])
  /\ main' = Stopping(s, <<>>)
  /\ UNCHANGED <<mode, server, sessions, stopped, cleanup, idles>>

\* The call was cancelled, and its handler does nothing.
CallCancelled(s) ==
  /\ InLoop /\ ses[s].call # "none" /\ ses[s].cancel = "cancelled"
  /\ Set(s, [ses[s] EXCEPT !.call = "none"])
  /\ UNCHANGED <<mode, server, sessions, stopped, cleanup, idles, main>>

\* EI_EVENT_CONNECT: READY, for which the channels are made, and maybe STARTED.
EiConnect(s) ==
  /\ InLoop /\ ses[s].ei /\ ~ses[s].ready
  /\ MaybeEmitStarted(s, [ses[s] EXCEPT !.ready = TRUE,
                                        !.chan = [c \in Channel |-> "made"]])
  /\ UNCHANGED <<mode, server, sessions, stopped, cleanup, main>>

\* on_remote_desktop_session_closed: the display server ends the session.
SessionClosed(s) ==
  /\ InLoop /\ ses[s].ei
  /\ Set(s, [ses[s] EXCEPT !.ei = FALSE])
  /\ main' = Stopping(s, <<>>)
  /\ UNCHANGED <<mode, server, sessions, stopped, cleanup, idles>>

\* An open channel fails: it is unavailable, and its source becomes ready.
QueueChannelTearDown(s, c) ==
  /\ ses[s].chan[c] = "open"
  /\ Set(s, [ses[s] EXCEPT !.chan[c] = "failed"])
  /\ UNCHANGED <<mode, server, sessions, stopped, cleanup, idles, main>>

TearDownChannel(s, c) ==
  /\ InLoop /\ ses[s].chan[c] = "failed" /\ ChannelMutexFree(s)
  /\ Set(s, [ses[s] EXCEPT !.chan[c] = "gone"])
  /\ UNCHANGED <<mode, server, sessions, stopped, cleanup, idles, main>>

-----------------------------------------------------------------------------
(* The main thread: grd_session_stop *)

Continue(rest) == IF rest = <<>> THEN Loop ELSE Stopping(Head(rest), Tail(rest))

\* grd_session_stop returns if the session was stopped before.  No run gets there: the
\* main thread would be stuck in this model.  Otherwise grd_session_rdp_stop wakes the
\* socket thread up ...
StopBegins ==
  /\ main.at = "begin" /\ ses[main.s].cancel # "cancelled"
  /\ Set(main.s, [ses[main.s] EXCEPT !.should = TRUE])
  /\ main' = [main EXCEPT !.at = "graphics"]
  /\ UNCHANGED <<mode, server, sessions, stopped, cleanup, idles>>

\* ... looks whether the end was queued, and waits for the graphics thread ...
JoinGraphicsThread ==
  /\ main.at = "graphics" /\ ses[main.s].gfx \in {"none", "exited"}
  /\ CloseMutexFree(main.s)
  /\ main' = [main EXCEPT !.at = "channels"]
  /\ UNCHANGED <<mode, server, sessions, stopped, cleanup, idles, ses>>

\* ... drops the channels under channel_mutex ...
ClearChannels ==
  /\ main.at = "channels" /\ ChannelMutexFree(main.s)
  /\ Set(main.s, [ses[main.s] EXCEPT !.chan = [c \in Channel |-> "gone"]])
  /\ main' = [main EXCEPT !.at = "socket"]
  /\ UNCHANGED <<mode, server, sessions, stopped, cleanup, idles>>

\* ... waits for the socket thread and removes the idle sources.  Then
\* grd_session_stop cancels what is under way, and on_session_stopped moves the
\* session to the stopped ones, for the next idle source to free.
StoppedSession(s) ==
  [ses[s] EXCEPT !.life = "stopped", !.post = FALSE, !.close = FALSE,
                 !.ei = FALSE, !.cancel = IF @ = "live" THEN "cancelled" ELSE @]

WithoutSources(s) ==
  SelectSeq(idles, LAMBDA i : ~(\/ ses[s].post /\ i = <<"post", s>>
                                \/ ses[s].close /\ i = <<"close", s>>))

StopEnds ==
  /\ main.at = "socket" /\ ses[main.s].sock = "exited"
  /\ Set(main.s, StoppedSession(main.s))
  /\ sessions' = Remove(sessions, main.s)
  /\ stopped' = Append(stopped, main.s)
  /\ cleanup' = TRUE
  /\ idles' = WithoutSources(main.s)
                \o (IF cleanup THEN <<>> ELSE <<<<"cleanup", NoSession>>>>)
  /\ main' = Continue(main.rest)
  /\ UNCHANGED <<mode, server>>

-----------------------------------------------------------------------------
(* All together *)

SocketThread(s) ==
  \/ PostConnect(s) \/ PostConnected(s) \/ HandleEvents(s) \/ LockChannels(s)
  \/ \E c \in Channel : InitChannel(s, c)
  \/ UnlockChannels(s)
  \/ ClientGone(s) \/ SocketAssigns(s) \/ SocketFlags(s) \/ SocketStops(s)

GraphicsThread(s) ==
  GraphicsFails(s) \/ GraphicsAssigns(s) \/ GraphicsFlags(s) \/ GraphicsStops(s)

IdleSource ==
  \/ \E s \in Session : NotifyPostConnected(s) \/ CloseSessionIdle(s)
  \/ CleanupStoppedSessionsIdle

OtherSource(s) ==
  \/ Accept(s) \/ NotifyError(s) \/ Answer(s) \/ StartAnswered(s)
  \/ CallFails(s) \/ CallCancelled(s) \/ EiConnect(s) \/ SessionClosed(s)
  \/ \E c \in Channel : QueueChannelTearDown(s, c) \/ TearDownChannel(s, c)

Stop ==
  \/ StopBegins \/ JoinGraphicsThread \/ ClearChannels \/ StopEnds

ServerStop == StopNextSession \/ FinishServerStop

\* What the main loop dispatches on its own, and grd_session_stop and grd_rdp_server_stop
\* once they were called.
MainLoop == IdleSource \/ Stop \/ ServerStop

\* The steps of the socket thread that wait for nothing but a mutex or the stop event.
SocketGoesOn(s) ==
  \/ PostConnected(s) \/ LockChannels(s) \/ UnlockChannels(s)
  \/ SocketAssigns(s) \/ SocketFlags(s) \/ SocketStops(s)
  \/ \E c \in Channel : InitChannel(s, c)

\* in_shutdown is noticed.
GraphicsGoesOn(s) == GraphicsAssigns(s) \/ GraphicsFlags(s) \/ GraphicsStops(s)

Next ==
  \/ \E s \in Session : SocketThread(s) \/ GraphicsThread(s) \/ OtherSource(s)
  \/ MainLoop \/ StopServer

-----------------------------------------------------------------------------
(* Properties *)

SessionType ==
  [life : {"none", "accepted", "connected", "stopped", "freed"},
   sock : SocketStates, gfx : GraphicsStates,
   should : BOOLEAN, post : BOOLEAN, close : BOOLEAN,
   chan : [Channel -> {"none", "made", "open", "failed", "gone"}],
   local : SUBSET Channel,
   call : {"none"} \cup Range(Calls),
   cancel : {"none", "live", "cancelled"},
   ei : BOOLEAN, ready : BOOLEAN, started : BOOLEAN, starts : 0 .. 1]

\* Every variable has its type.  That STARTED is emitted at most once is a part of
\* it (starts): the second graphics thread would replace the first one.
TypeOK ==
  /\ mode \in Modes /\ server \in {"up", "stopping", "down"}
  /\ sessions \in Seq(Session) /\ stopped \in Seq(Session) /\ cleanup \in BOOLEAN
  /\ \A i \in DOMAIN idles :
       idles[i] \in ({"post", "close"} \X Session) \cup {<<"cleanup", NoSession>>}
  /\ main.at \in {"loop", "begin", "graphics", "channels", "socket"}
  /\ main.s \in Session \cup {NoSession} /\ main.rest \in Seq(Session)
  /\ ses \in [Session -> SessionType]

\* STARTED was emitted exactly if the session is ready and started, whichever of
\* the EI event and the answer to the last call came first
\* (maybe_emit_started_signal).
StartedWhenBoth ==
  \A s \in Session : ses[s].starts = 1 <=> ses[s].ready /\ ses[s].started

\* The main thread stops only sessions that still have their peer, which
\* grd_session_rdp_stop reads first and clears last: of all the sources that stop
\* a session, none is left when another one did it.  A session that was never
\* started has no cancellable that would make grd_session_stop return.
StopFindsPeer ==
  main.at # "loop" => HasPeer(main.s) /\ \A i \in DOMAIN main.rest : HasPeer(main.rest[i])

\* A session that was freed left nothing behind that would use it: no thread, no
\* source of the main loop, no channel, and no call whose handler would do more
\* than notice the cancellation (the assertions of grd_session_rdp_dispose and
\* grd_session_finalize).
FreedIsQuiet ==
  \A s \in Session : ses[s].life = "freed" =>
    /\ ses[s].sock = "exited" /\ ses[s].gfx \in {"none", "exited"}
    /\ \A i \in DOMAIN idles : idles[i][2] # s
    /\ ~ses[s].post /\ ~ses[s].close /\ ~ses[s].ei
    /\ Existing(s) = {}
    /\ ses[s].call = "none" \/ ses[s].cancel = "cancelled"

\* The ids of the two idle sources of a session are those of sources that exist
\* (g_source_remove on another one is an error), and a source whose id is not
\* stored is about to have it stored, under the mutex that its handler locks.
SourceIdsExact ==
  \A s \in Session :
    /\ ses[s].post => Contains(idles, <<"post", s>>)
    /\ ses[s].close => Contains(idles, <<"close", s>>) \/ main.s = s
    /\ Contains(idles, <<"post", s>>) => ses[s].post \/ ses[s].sock = "posting"
    /\ Contains(idles, <<"close", s>>) => ses[s].close \/ ~CloseMutexFree(s)

\* While the socket thread opens channels, those it has pointers to exist: neither
\* a tear down nor the end of the session drops them meanwhile.
ScannedChannelsExist ==
  \A s \in Session : ses[s].local \subseteq Existing(s)

\* Where there may be only one session, at most one has connected, once the main
\* thread is back in its loop (on_session_post_connect).
OneSession ==
  mode \in {"headless", "handover"} /\ main.at = "loop" =>
    Cardinality({s \in Session : ses[s].life = "connected"}) =< 1

\* A session is stopped once, while it has its peer, and nothing of it is left when it
\* is freed; it was started when both the EI connection and the display server said so.
StoppedIsGone == StartedWhenBoth /\ StopFindsPeer /\ FreedIsQuiet

\* What the threads of a session share with the main thread by id or by pointer exists.
HandlesValid == SourceIdsExact /\ ScannedChannelsExist

\* When the end of a session is queued, its socket thread ended, or it was stopped, it is
\* freed in the end, and grd_rdp_server_stop returns: the threads and the main thread do
\* not wait for each other.
EverythingEnds ==
  /\ server # "stopping"
  /\ \A s \in Session :
       ses[s].close \/ ses[s].sock = "exited" \/ ses[s].life = "stopped" => ses[s].life = "freed"
================================================================================
