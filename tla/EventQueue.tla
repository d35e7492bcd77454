------------------------------- MODULE EventQueue -------------------------------
(***************************************************************************)
(* The keyboard from the client to the display server: the input handlers  *)
(* of GrdSessionRdp (src/src/grd-session-rdp.c), GrdRdpEventQueue          *)
(* (src/src/grd-rdp-event-queue.c) and the libei side of GrdSession        *)
(* (src/src/grd-session.c).                                                *)
(*                                                                         *)
(* The socket thread handles the PDUs of the client, one at a time: it     *)
(* keeps the tables of pressed keys and pushes events to the queue.  The   *)
(* main thread drains the queue with event_mutex held, handles what libei  *)
(* receives, and stops the session.  The display server is external.       *)
(*                                                                         *)
(* A key is a keycode or a keysym; both have a table of their own in the   *)
(* code and are treated alike.  Caps Lock and Num Lock are treated alike,  *)
(* too, so there is one lock.  Pointer events pass the same queue and      *)
(* leave no state behind; they are left out.                               *)
(***************************************************************************)
EXTENDS Naturals, Sequences, SequencesExt

CONSTANTS
  Key,      \* the keys of the client
  LockKey,  \* the one that toggles the lock, VK_NUMLOCK
  CtrlKey,  \* VK_LCONTROL with KBD_FLAGS_EXTENDED1, the start of a Pause sequence
  PauseKey, \* XKB_KEY_Pause
  Scripts,  \* what the client may send: sequences of PDUs, a bound of the model
  MaxPlugs  \* keyboards that the display server adds, a bound of the model

VARIABLES
  client, \* the socket thread: the PDUs to come, whether it runs, what it still has to
          \* push, whether it must still wake the flush source, pause_key_state
  flags,  \* RDP_PEER_ACTIVATED and is_view_only
  table,  \* pressed_keys and pressed_unicode_keys
  queue,  \* the events of the queue
  armed,  \* the flush source is ready
  main,   \* what the main thread does
  sync,   \* pending_sync_cancellable and its kin, see Init
  ses,    \* is_ready, started, whether there is a libei context, and ei_keyboard
  sent,   \* what libei sent to the display server
  events, \* what the display server sent to libei
  server  \* the display server's keyboard: which, what is pressed, the lock

vars == <<client, flags, table, queue, armed, main, sync, ses, sent, events, server>>

KeyEvent(k, down) == [type |-> "key", key |-> k, down |-> down]
SyncEvent(lock) == [type |-> "sync", lock |-> lock]
None == 0 \* no cancellable, no keyboard

Init ==
  /\ client \in [pdus : Scripts, runs : {TRUE}, todo : {<<>>}, wakes : {FALSE},
                 pause : {"none"}]
  /\ flags = [activated |-> TRUE, view |-> FALSE]
  /\ table = {}
  /\ queue = <<>>
  /\ armed = FALSE
  /\ main = "loop"
  /\ sync = [pending   |-> None,  \* the number of the Synchronize event, if it is pending
             last      |-> None,  \* the number of the last one
             cancelled |-> {},    \* those whose cancellable was cancelled
             expected  |-> FALSE, \* expected_num_lock_state
             reported  |-> FALSE, \* num_lock_state
             valid     |-> FALSE, \* locked_modifier_valid
             due       |-> FALSE, \* what the lock should be: not in the code
             excused   |-> FALSE] \* it may be something else: not in the code
  /\ ses = [ready |-> FALSE, started |-> FALSE, ei |-> TRUE,
            keyboard |-> None, emulating |-> FALSE]
  /\ sent = <<>>
  /\ events = <<[type |-> "connect"]>>
  /\ server \in [lock : BOOLEAN, keyboard : {None}, plugs : {0}, down : {{}}]

-----------------------------------------------------------------------------
(* The socket thread *)

Idle == client.runs /\ client.todo = <<>> /\ ~client.wakes

\* The next PDU is handled, with these events to push.
Handle(todo, pause) ==
  client' = [client EXCEPT !.pdus = Tail(@), !.todo = todo, !.pause = pause]

PduIgnored ==
  /\ Idle /\ client.pdus # <<>> /\ (~flags.activated \/ flags.view)
  /\ Handle(<<>>, client.pause)
  /\ UNCHANGED <<flags, table, queue, armed, main, sync, ses, sent, events, server>>

PduComes == Idle /\ client.pdus # <<>> /\ flags.activated /\ ~flags.view

\* rdp_input_synchronize_event.  The order in which keys are released does not matter.
Releases(keys) == [i \in DOMAIN SetToSeq(keys) |-> KeyEvent(SetToSeq(keys)[i], FALSE)]

SynchronizeEvent ==
  /\ PduComes /\ Head(client.pdus)[1] = "sync"
  /\ Handle(Releases(table) \o <<SyncEvent(Head(client.pdus)[2])>>, client.pause)
  /\ table' = {}
  /\ UNCHANGED <<flags, queue, armed, main, sync, ses, sent, events, server>>

\* is_pause_key_sequence: where a key takes the sequence, "broken" if nowhere.
PauseAfter(k, down) ==
  LET next == [none        |-> <<CtrlKey, TRUE, "ctrl_down">>,
               ctrl_down   |-> <<LockKey, TRUE, "numlock_down">>,
               numlock_down |-> <<CtrlKey, FALSE, "ctrl_up">>,
               ctrl_up     |-> <<LockKey, FALSE, "none">>][client.pause]
  IN  IF next[1] = k /\ next[2] = down THEN next[3] ELSE "broken"

\* Mutant: a sequence that breaks off is not forgotten.
KeyboardEvent_KeepsPause(k, down) ==
  /\ PduComes /\ Head(client.pdus) = <<k, down>>
  /\ Handle(IF PauseAfter(k, down) = "broken" THEN <<KeyEvent(k, down)>> ELSE <<>>,
            PauseAfter(k, down))
  /\ UNCHANGED <<flags, table, queue, armed, main, sync, ses, sent, events, server>>

\* rdp_input_keyboard_event, rdp_input_unicode_keyboard_event: a key that is pressed
\* already or not pressed is ignored.
KeyboardEvent(k, down) ==
  /\ PduComes /\ Head(client.pdus) = <<k, down>>
  /\ \/ /\ PauseAfter(k, down) # "broken"
        /\ Handle(IF client.pause = "ctrl_up"
                  THEN <<KeyEvent(PauseKey, TRUE), KeyEvent(PauseKey, FALSE)>> ELSE <<>>,
                  PauseAfter(k, down))
        /\ UNCHANGED table
     \/ /\ PauseAfter(k, down) = "broken"
        /\ Handle(IF (k \in table) = down THEN <<>> ELSE <<KeyEvent(k, down)>>, "none")
        /\ table' = IF down THEN table \cup {k} ELSE table \ {k}
  /\ UNCHANGED <<flags, queue, armed, main, sync, ses, sent, events, server>>

\* queue_rdp_event: the event is pushed under event_mutex ...
QueueEvent ==
  /\ client.todo # <<>> /\ ~client.wakes
  /\ main \notin {"drain", "drain_last"}
  /\ queue' = Append(queue, Head(client.todo))
  /\ client' = [client EXCEPT !.todo = Tail(@), !.wakes = TRUE]
  /\ UNCHANGED <<flags, table, armed, main, sync, ses, sent, events, server>>

\* ... and the flush source becomes ready after that.
WakeSource ==
  /\ client.wakes
  /\ armed' = TRUE
  /\ client' = [client EXCEPT !.wakes = FALSE]
  /\ UNCHANGED <<flags, table, queue, main, sync, ses, sent, events, server>>

\* handle_client_gone; the session is then stopped from an idle source.
ClientGone ==
  /\ Idle /\ flags.activated
  /\ flags' = [flags EXCEPT !.activated = FALSE]
  /\ UNCHANGED <<client, table, queue, armed, main, sync, ses, sent, events, server>>

\* The thread notices the stop event between two PDUs.
SocketExits ==
  /\ Idle /\ main = "join"
  /\ client' = [client EXCEPT !.runs = FALSE]
  /\ UNCHANGED <<flags, table, queue, armed, main, sync, ses, sent, events, server>>

-----------------------------------------------------------------------------
(* The main thread: what it sends to the display server *)

\* libei ignores keys of a device that does not emulate.
KeySent(k, down) == [type |-> "key", keyboard |-> ses.keyboard, key |-> k, down |-> down]

HasKeyboard == ses.ei /\ ses.keyboard # None /\ ses.emulating

\* grd_session_notify_keyboard_keycode, grd_session_notify_keyboard_keysym
Notified(k, down) == IF HasKeyboard THEN Append(sent, KeySent(k, down)) ELSE sent

Ping(n) == [type |-> "ping", sync |-> n]
Pong(n) == [type |-> "pong", sync |-> n]

\* The ping of Synchronize event n is not answered yet.
Outstanding(n) == Contains(sent, Ping(n)) \/ Contains(events, Pong(n))

\* Ghost: the lock may end up wrong from now on.
Excuse(s, applies) ==
  IF s.excused \/ applies THEN [s EXCEPT !.excused = TRUE, !.due = FALSE] ELSE s

\* grd_rdp_event_queue_flush_synchronization, when the sync is s: ei_new_ping uses a
\* context that clear_ei may have freed.
FlushSynchronization(s, nextMain) ==
  IF s.pending = None
  THEN sync' = s /\ sent' = sent /\ main' = nextMain
  ELSE IF ses.ei
       THEN /\ sync' = Excuse(s, Outstanding(s.pending))
            /\ sent' = Append(sent, Ping(s.pending))
            /\ main' = nextMain
       ELSE sync' = s /\ sent' = sent /\ main' = "crashed"

-----------------------------------------------------------------------------
(* The main thread: the flush source *)

\* flush_source_dispatch.  What the socket thread does between the two lines could as
\* well come before the first or after UnlockQueue.
FlushDispatch ==
  /\ main = "loop" /\ armed
  /\ armed' = FALSE
  /\ main' = "drain"
  /\ UNCHANGED <<client, flags, table, queue, sync, ses, sent, events, server>>

Draining == main \in {"drain", "drain_last"}

\* process_rdp_events, for a key.
ProcessKey ==
  /\ Draining /\ queue # <<>> /\ Head(queue).type = "key"
  /\ queue' = Tail(queue)
  /\ sent' = Notified(Head(queue).key, Head(queue).down)
  /\ LET toggles == Head(queue).key = LockKey /\ Head(queue).down
         Unsent == sync.pending # None /\ ~Outstanding(sync.pending)
     IN  sync' = Excuse([sync EXCEPT !.due = (@ # toggles)],
                        toggles /\ (~HasKeyboard \/ Unsent))
  /\ UNCHANGED <<client, flags, table, armed, main, ses, events, server>>

\* handle_synchronization_event
Synchronized(lock) ==
  [sync EXCEPT !.cancelled = IF sync.pending = None THEN @ ELSE @ \cup {sync.pending},
               !.pending = sync.last + 1, !.last = @ + 1,
               !.expected = lock, !.due = lock /\ ~sync.excused]

ProcessSync ==
  /\ Draining /\ queue # <<>> /\ Head(queue).type = "sync"
  /\ queue' = Tail(queue)
  /\ IF ses.ready
     THEN FlushSynchronization(Synchronized(Head(queue).lock), main)
     ELSE sync' = Synchronized(Head(queue).lock) /\ UNCHANGED <<sent, main>>
  /\ UNCHANGED <<client, flags, table, armed, ses, events, server>>

\* The queue is empty.  When the session stops, libei is left next (clear_ei).
UnlockQueue ==
  /\ Draining /\ queue = <<>>
  /\ main' = IF main = "drain" THEN "loop" ELSE "stopped"
  /\ ses' = [ses EXCEPT !.ei = @ /\ main = "drain"]
  /\ UNCHANGED <<client, flags, table, queue, armed, sync, sent, events, server>>

-----------------------------------------------------------------------------
(* The main thread: the session *)

\* on_session_start_finished, and on_remote_desktop_session_started if it is ready.
StartAnswered ==
  /\ main = "loop" /\ ~ses.started
  /\ ses' = [ses EXCEPT !.started = TRUE]
  /\ IF ses.ready THEN FlushSynchronization(sync, main) ELSE UNCHANGED <<sync, sent, main>>
  /\ UNCHANGED <<client, flags, table, queue, armed, events, server>>

\* grd_session_rdp_stop up to g_thread_join.  When the display server closed the
\* session, clear_session comes first.
Stop(s) ==
  /\ main = "loop"
  /\ main' = "join"
  /\ flags' = [flags EXCEPT !.activated = FALSE]
  /\ ses' = s

StopSession ==
  /\ Stop(ses)
  /\ UNCHANGED <<client, table, queue, armed, sync, sent, events, server>>

SessionClosed ==
  /\ Stop([ses EXCEPT !.ei = FALSE, !.keyboard = None])
  /\ sent' = <<>> /\ events' = <<>>
  /\ server' = [server EXCEPT !.keyboard = None, !.down = {}]
  /\ UNCHANGED <<client, table, queue, armed, sync>>

\* ... and from there: what is pressed is released, and the queue is flushed.
ReleaseKeys ==
  /\ main = "join" /\ ~client.runs
  /\ queue' = queue \o Releases(table)
  /\ table' = {}
  /\ armed' = TRUE
  /\ main' = "drain_last"
  /\ UNCHANGED <<client, flags, sync, ses, sent, events, server>>

\* on_view_only_changed.  Once is enough: from then on, PDUs are ignored.
ViewOnlyChanged ==
  /\ main = "loop" /\ client.pdus # <<>> /\ ~flags.view
  /\ flags' = [flags EXCEPT !.view = TRUE]
  /\ UNCHANGED <<client, table, queue, armed, main, sync, ses, sent, events, server>>

\* Whether a key is down after the events about it: as the last one says, or as before.
Outcome(s, about, before) ==
  \/ about = {} /\ before
  \/ \E i \in about : s[i].down /\ \A j \in about : j <= i

\* What becomes of a key when everything that was sent arrived.
IsHeld(k) ==
  LET Concerns(msg) == msg.type = "key" /\ msg.key = k /\ msg.keyboard = server.keyboard
  IN  Outcome(sent, {i \in DOMAIN sent : Concerns(sent[i])}, k \in server.down)

-----------------------------------------------------------------------------
(* The main thread: grd_ei_source_dispatch, an event at a time *)

Receive(type) ==
  /\ main = "loop" /\ ses.ei
  /\ events # <<>> /\ Head(events).type = type
  /\ events' = Tail(events)
  /\ UNCHANGED <<client, flags, table, queue, armed, server>>

Connected ==
  /\ Receive("connect")
  /\ ses' = [ses EXCEPT !.ready = TRUE]
  /\ IF ses.started THEN FlushSynchronization(sync, main) ELSE UNCHANGED <<sync, sent, main>>

DeviceAdded ==
  /\ Receive("added")
  /\ ses' = [ses EXCEPT !.keyboard = Head(events).keyboard, !.emulating = FALSE]
  /\ UNCHANGED <<main, sync, sent>>

DeviceResumed ==
  /\ Receive("resumed")
  /\ ses' = [ses EXCEPT !.emulating = (ses.keyboard = Head(events).keyboard)]
  /\ UNCHANGED <<main, sync, sent>>

DeviceRemoved ==
  /\ Receive("removed")
  /\ ses' = [ses EXCEPT !.keyboard = IF @ = Head(events).keyboard THEN None ELSE @]
  /\ UNCHANGED <<main, sync, sent>>

KeyboardModifiers ==
  /\ Receive("modifiers")
  /\ sync' = [sync EXCEPT !.reported = Head(events).lock, !.valid = TRUE]
  /\ UNCHANGED <<main, ses, sent>>

\* Mutant: the answer to a cancelled ping counts.
PongReceived_Cancelled ==
  /\ Receive("pong")
  /\ LET corrects == sync.expected # sync.reported
     IN  /\ sent' = IF corrects /\ HasKeyboard
                    THEN sent \o <<KeySent(LockKey, TRUE), KeySent(LockKey, FALSE)>> ELSE sent
         /\ sync' = Excuse([sync EXCEPT !.pending = None],
                           ~sync.valid \/ (corrects /\ (~HasKeyboard \/ IsHeld(LockKey))))
  /\ UNCHANGED <<main, ses>>

\* flush_input_cb
PongReceived ==
  /\ Receive("pong")
  /\ LET n == Head(events).sync
         corrects == sync.expected # sync.reported
     IN  IF n \in sync.cancelled
         THEN UNCHANGED <<sync, sent>>
         ELSE /\ sent' = IF corrects /\ HasKeyboard
                         THEN sent \o <<KeySent(LockKey, TRUE), KeySent(LockKey, FALSE)>>
                         ELSE sent
              /\ sync' = Excuse([sync EXCEPT !.pending = None],
                                \/ ~sync.valid
                                \/ corrects /\ (~HasKeyboard \/ IsHeld(LockKey)))
  /\ UNCHANGED <<main, ses>>

-----------------------------------------------------------------------------
(* The display server *)

\* A keyboard comes with its state, after the connection is set up.
ServerAddsKeyboard ==
  /\ server.keyboard = None /\ server.plugs < MaxPlugs
  /\ main \notin {"stopped", "crashed"} /\ ses.ready /\ ses.ei
  /\ LET new == server.plugs + 1
     IN  /\ server' = [server EXCEPT !.keyboard = new, !.plugs = new]
         /\ events' = events \o <<[type |-> "added", keyboard |-> new],
                                  [type |-> "resumed", keyboard |-> new],
                                  [type |-> "modifiers", lock |-> server.lock]>>
  /\ UNCHANGED <<client, flags, table, queue, armed, main, sync, ses, sent>>

\* The keys of a keyboard that goes away are released.
ServerRemovesKeyboard ==
  /\ server.keyboard # None /\ server.plugs < MaxPlugs
  /\ server' = [server EXCEPT !.keyboard = None, !.down = {}]
  /\ events' = Append(events, [type |-> "removed", keyboard |-> server.keyboard])
  /\ UNCHANGED <<client, flags, table, queue, armed, main, sync, ses, sent>>

ServerAnswersPing ==
  /\ sent # <<>> /\ Head(sent).type = "ping"
  /\ sent' = Tail(sent)
  /\ events' = Append(events, Pong(Head(sent).sync))
  /\ UNCHANGED <<client, flags, table, queue, armed, main, sync, ses, server>>

\* A key of a keyboard that is gone is ignored, and so is one that is pressed already.
ServerTakesKey ==
  /\ sent # <<>> /\ Head(sent).type = "key"
  /\ sent' = Tail(sent)
  /\ LET msg == Head(sent)
         current == msg.keyboard = server.keyboard
         toggles == msg.key = LockKey /\ msg.down
         acts == current /\ toggles /\ LockKey \notin server.down
     IN  /\ server' = [server EXCEPT
              !.down = IF ~current THEN @
                       ELSE IF msg.down THEN @ \cup {msg.key} ELSE @ \ {msg.key},
              !.lock = (@ # acts)]
         /\ events' = IF acts
                      THEN Append(events, [type |-> "modifiers", lock |-> ~server.lock])
                      ELSE events
         /\ sync' = Excuse(sync, toggles /\ ~current)
  /\ UNCHANGED <<client, flags, table, queue, armed, main, ses>>

-----------------------------------------------------------------------------

SocketThread ==
  \/ SynchronizeEvent \/ PduIgnored
  \/ \E k \in Key, down \in BOOLEAN : KeyboardEvent(k, down)
  \/ ClientGone \/ QueueEvent \/ WakeSource \/ SocketExits

FlushSource == FlushDispatch \/ ProcessKey \/ ProcessSync \/ UnlockQueue

EiSource ==
  \/ Connected \/ DeviceAdded \/ DeviceResumed \/ DeviceRemoved
  \/ KeyboardModifiers \/ PongReceived

StopOrStart == StartAnswered \/ StopSession \/ SessionClosed \/ ViewOnlyChanged

DisplayServer == ServerAnswersPing \/ ServerTakesKey

Next ==
  \/ SocketThread \/ FlushSource \/ EiSource \/ StopOrStart \/ ReleaseKeys
  \/ DisplayServer \/ ServerAddsKeyboard \/ ServerRemovesKeyboard

-----------------------------------------------------------------------------
(* Properties *)

AnyKey == Key \cup {PauseKey}

TypeOK ==
  /\ {client.runs, client.wakes} \subseteq BOOLEAN
  /\ client.pause \in {"none", "ctrl_down", "numlock_down", "ctrl_up"}
  /\ flags \in [activated : BOOLEAN, view : BOOLEAN]
  /\ table \subseteq Key
  /\ \A e \in ToSet(queue \o client.todo) :
       \/ e \in [type : {"key"}, key : AnyKey, down : BOOLEAN]
       \/ e \in [type : {"sync"}, lock : BOOLEAN]
  /\ armed \in BOOLEAN
  /\ main \in {"loop", "drain", "join", "drain_last", "stopped", "crashed"}
  /\ sync.pending \in {None, sync.last}
  /\ sync.cancelled \subseteq 1 .. sync.last
  /\ {ses.ready, ses.started, ses.ei, ses.emulating} \subseteq BOOLEAN
  /\ {ses.keyboard, server.keyboard} \subseteq 0 .. MaxPlugs
  /\ server.down \subseteq AnyKey

\* The client knows which keys it holds, and so does the server in its table: whatever
\* is dropped, reordered by a hotplug or released by a synchronization, a pause sequence
\* or the end of the session, no key stays pressed in the session that the table does
\* not name (grd-session-rdp.c:577, 824-838, 1893).
NoStuckKey ==
  \A k \in AnyKey :
    LET coming == IF main \in {"stopped", "crashed"} THEN <<>> ELSE queue \o client.todo
        about == {i \in DOMAIN coming : coming[i].type = "key" /\ coming[i].key = k}
    IN  Outcome(coming, about, IsHeld(k)) => k \in table \/ main = "crashed"

\* A synchronization that is pending in a session that started has been sent its ping,
\* and events in the queue have a source that is ready, or becomes so.
NothingForgotten ==
  /\ sync.pending # None /\ ses.ready /\ ses.started /\ ses.ei /\ main # "stopped" =>
       Outstanding(sync.pending)
  /\ queue # <<>> /\ main = "loop" => armed \/ client.wakes

\* When everything came to rest, the lock is what the client asked for last and toggled
\* since.  Excused are: a pong that came before the locks were known, a ping that was sent
\* twice or after the lock key was pressed, a keyboard that was missing, and a lock key that
\* was held (grd-rdp-event-queue.c:134-156).
LockAgrees ==
  LET quiet == /\ main = "loop" /\ client.todo = <<>> /\ queue = <<>>
               /\ sent = <<>> /\ events = <<>> /\ sync.pending = None
  IN  quiet /\ sync.last > 0 /\ ~sync.excused => server.lock = sync.due

\* Events wait in the queue, or a synchronization of a session that started is pending,
\* while the session goes on.
KeysWait ==
  /\ queue # <<>> \/ (sync.pending # None /\ ses.started)
  /\ main \notin {"stopped", "crashed"}

================================================================================
