---------------------------- MODULE RemoteClients ----------------------------
(***************************************************************************)
(* The remote clients of the system daemon (grd-daemon-system.c).          *)
(*                                                                         *)
(* A client that connects gets a remote id and GDM a remote display for    *)
(* it, whose session is the greeter's first.  Each session that has to do  *)
(* with the client has a handover object on the bus: the source has the    *)
(* client, the destination is where it goes.  The session's daemon starts  *)
(* the handover, the client is told to connect once more with its id as    *)
(* the routing token, and the daemon takes it.  At a login GDM gives the   *)
(* id to another display: a new one of the user's, or the display of a     *)
(* session the user has already, whose client is replaced.                 *)
(*                                                                         *)
(* What the code does not guard is not guarded here: a record may be freed *)
(* while its session lives and still refers to it, and any connection may  *)
(* show the id of any record, once or again.                               *)
(***************************************************************************)
EXTENDS Naturals, FiniteSets

CONSTANTS
  Ids,      \* remote ids, the keys of remote_clients; enough for every connection and display
  Sessions, \* session ids
  Display,  \* GDM's displays
  Windows,  \* is_client_mstsc: ids of the clients that are Windows' own
  MaxReady  \* bound: TakeClientReady signals that one session's daemon has yet to answer

VARIABLES
  remotes,  \* remote_clients, by remote id
  displays, \* GDM's remote displays: their id, session and what is connected to them
  exported, \* handover_manager_server: the sessions with a handover object; its client, and
            \* the TakeClientReady signals that the session's daemon has yet to answer
  creating, \* ids with a CreateRemoteDisplay call under way
  weakRefs, \* of each id the record that the weak reference of its session points to, None
            \* if the session is gone
  spent,    \* ids that were given out
  running   \* the daemon was not aborted

vars == <<remotes, displays, exported, creating, weakRefs, spent, running>>

None == "none"
NoDisplay == [id |-> None, session |-> None, notify |-> {}]
\* remote_client_new, remote_client_new_from_display.
New(s) == [session |-> s, needs |-> s, timer |-> s, socket |-> FALSE, src |-> None, dst |-> None,
           started |-> FALSE, waiting |-> s, creds |-> FALSE,
           display |-> None]

\* grd_daemon_system_init.
Init ==
  /\ remotes = <<>> /\ displays = [d \in Display |-> NoDisplay]
  /\ exported = <<>> /\ creating = {} /\ spent = {}
  /\ weakRefs = [i \in Ids |-> None] /\ running = TRUE

Known == DOMAIN remotes
Extended(f, k, v) == [x \in DOMAIN f \cup {k} |-> IF x = k THEN v ELSE f[x]]
Without(f, S) == [x \in DOMAIN f \ S |-> f[x]]
\* disconnect_from_remote_display: neither signal of a display reaches the client any more.
Disconnected(ds, i) == [d \in Display |-> [ds[d] EXCEPT !.notify = {n \in @ : n[2] # i}]]

\* grd_remote_client_free, the destructor of the table: its objects leave the bus.  The weak
\* reference of the session stays (g_object_weak_unref is not called).
Free(i) ==
  /\ remotes' = Without(remotes, {i})
  /\ exported' = Without(exported, {remotes[i].src, remotes[i].dst})

\* g_new0 of the record of i, for a session of this daemon or for a display: it may get the
\* memory of a freed record that a session refers to.
Freed == {weakRefs[k] : k \in Ids} \ (Known \cup {None})
Allocated(i, own) == \E r \in Freed \cup {None} :
  weakRefs' = [k \in Ids |-> IF (k = i /\ own) \/ (r # None /\ weakRefs[k] = r) THEN i ELSE weakRefs[k]]

-----------------------------------------------------------------------------
(* Connections and the GDM calls about them *)

\* on_incoming_new_connection of an RDP session.  Without its proxies (destroy_gdm_proxies)
\* the daemon makes no call and gets no answer.
IncomingNewConnection(i) ==
  /\ i \notin spent
  /\ spent' = spent \cup {i}
  /\ remotes' = Extended(remotes, i, New(TRUE))
  /\ \E calls \in BOOLEAN : creating' = IF calls THEN creating \cup {i} ELSE creating
  /\ Allocated(i, TRUE)
  /\ UNCHANGED <<displays, exported, running>>

\* on_create_remote_display_finished, with an error.
CreateFailed(i) ==
  /\ i \in creating /\ i \in Known /\ \A d \in Display : displays[d].id # i
  /\ creating' = creating \ {i}
  /\ Free(i)
  /\ displays' = Disconnected(displays, i)
  /\ UNCHANGED <<weakRefs, spent, running>>

\* session_disposed: the client left, because it was redirected or on its own, or its session
\* was closed.  If the record was freed before (abort_handover, a display that was removed, a
\* client that was replaced) this writes to freed memory: to nothing that is seen here, or to
\* the session pointer of the record that is there now.
SessionDisposed(i) ==
  /\ weakRefs[i] # None
  /\ weakRefs' = [weakRefs EXCEPT ![i] = None]
  /\ remotes' = IF weakRefs[i] \in Known THEN [remotes EXCEPT ![weakRefs[i]].session = FALSE] ELSE remotes
  /\ UNCHANGED <<displays, exported, creating, spent, running>>

\* abort_handover, MAX_HANDOVER_WAIT_TIME_S after the connection or the last start.  A call
\* to GDM times out before that.  The session, if it is there, is only asked to end.
AbortHandover(i) ==
  /\ i \in Known /\ remotes[i].timer /\ i \notin creating
  /\ Free(i)
  /\ displays' = Disconnected(displays, i)
  /\ UNCHANGED <<creating, weakRefs, spent, running>>

-----------------------------------------------------------------------------
(* Displays of GDM *)

\* register_handover_iface: what was the destination is the source, and the source before
\* it is freed; it has left the bus by then.
Registered(r, s) == [r EXCEPT !.src = r.dst, !.dst = s, !.waiting = r.needs, !.started = FALSE]
Register(rs, ds, i, d) ==
  /\ remotes' = [rs EXCEPT ![i] = Registered(@, ds[d].session)]
  /\ exported' = Extended(exported, ds[d].session, [client |-> i, ready |-> 0])
  /\ displays' = [ds EXCEPT ![d].notify = @ \cup {<<"remote-id", i>>}]

\* register_handover_for_display for a client of the table, or for one that GDM alone knows
\* (get_remote_client_from_remote_display): without a session it waits for one.
RegisterForDisplay(rs, ds, i, d) ==
  LET c == [rs EXCEPT ![i].display = d]
      e == Disconnected(ds, i)
  IN  IF ds[d].session # None THEN Register(c, e, i, d)
      ELSE /\ remotes' = c /\ displays' = [e EXCEPT ![d].notify = {<<"session-id", i>>}]
           /\ UNCHANGED exported

\* A login belongs to the client of a display, which the greeter has taken: GDM is done with
\* the session that was the source before.
AtGreeter(i) ==
  /\ remotes[i].needs /\ ~remotes[i].waiting /\ remotes[i].dst # None /\ remotes[i].src = None
  /\ \E d \in Display : displays[d].id = i
Unused(s) == \A d \in Display : displays[d].session # s

\* on_gdm_object_added: for a connection, with its session at once or later; or for the
\* user who logs in with it; or a display that no client of the daemon stands for.
ObjectAdded(d) ==
  /\ displays[d] = NoDisplay
  /\ \E i \in Ids, s \in Sessions \cup {None} :
       /\ s # None => Unused(s) /\ s \notin DOMAIN exported
       /\ \/ i \in creating \cap Known /\ \A e \in Display : displays[e].id # i
             /\ creating' = creating \ {i} /\ UNCHANGED <<spent, weakRefs>>
             /\ RegisterForDisplay(remotes, [displays EXCEPT ![d] = [NoDisplay EXCEPT !.id = i, !.session = s]], i, d)
          \/ i \in Known /\ AtGreeter(i) /\ s # None
             /\ UNCHANGED <<creating, spent, weakRefs>>
             /\ RegisterForDisplay(remotes, [displays EXCEPT ![d] = [NoDisplay EXCEPT !.id = i, !.session = s]], i, d)
          \/ i \notin spent /\ s # None
             /\ spent' = spent \cup {i} /\ Allocated(i, FALSE) /\ UNCHANGED creating
             /\ RegisterForDisplay(Extended(remotes, i, New(FALSE)),
                                   [displays EXCEPT ![d] = [NoDisplay EXCEPT !.id = i, !.session = s]], i, d)
  /\ UNCHANGED running

\* on_gdm_remote_display_session_id_changed.
SessionIdChanged(d) ==
  /\ displays[d].id # None /\ displays[d].session = None
  /\ \E s \in Sessions :
       /\ Unused(s) /\ s \notin DOMAIN exported
       /\ LET ds == [displays EXCEPT ![d].session = s]
              I == {i \in Ids : <<"session-id", i>> \in displays[d].notify}
          IN  IF I = {} THEN displays' = ds /\ UNCHANGED <<remotes, exported>>
              ELSE Register(remotes, [ds EXCEPT ![d].notify = {}], CHOOSE i \in I : TRUE, d)
  /\ UNCHANGED <<creating, weakRefs, spent, running>>

\* on_remote_display_remote_id_changed: the user has a session already, and its display is
\* given to the client at the greeter.  steal_handover_from_client: the object of that
\* session is the client's destination, and the client that had it leaves the table.
RemoteIdChanged(d, i) ==
  /\ displays[d].session # None /\ displays[d].id # i
  /\ i \in Known /\ AtGreeter(i)
  /\ \E o \in Known :
       /\ <<"remote-id", o>> \in displays[d].notify /\ o # i
       /\ LET r == remotes[o]
              stolen == [remotes EXCEPT ![i].src = remotes[i].dst, ![i].dst = r.dst,
                                        ![i].started = FALSE, ![i].waiting = TRUE, ![i].display = d]
          IN  /\ remotes' = Without(stolen, {o})
              /\ exported' = [s \in DOMAIN exported \ {r.src} |->
                               IF s = r.dst THEN [exported[s] EXCEPT !.client = i] ELSE exported[s]]
              /\ displays' = [Disconnected(Disconnected(displays, i), o)
                              EXCEPT ![d].id = i, ![d].notify = @ \cup {<<"remote-id", i>>}]
  /\ UNCHANGED <<creating, weakRefs, spent, running>>

\* on_gdm_object_removed, unregister_handover_for_display: of the source its object goes,
\* with the destination the client.
ObjectRemoved(d) ==
  /\ displays[d].id # None
  /\ LET i == displays[d].id
         s == displays[d].session
         ds == [displays EXCEPT ![d] = NoDisplay]
     IN  IF i \notin Known
         THEN displays' = ds /\ UNCHANGED <<remotes, exported>>
         ELSE LET r == remotes[i]
                  gone == IF s = None THEN r.src = None /\ r.dst = None ELSE r.dst = s
              IN  IF gone
                  THEN Free(i) /\ displays' = Disconnected(ds, i)
                  ELSE /\ displays' = ds
                       /\ IF s # None /\ r.src = s
                          THEN /\ remotes' = [remotes EXCEPT ![i].src = None]
                               /\ exported' = Without(exported, {s})
                          ELSE UNCHANGED <<remotes, exported>>
  /\ UNCHANGED <<creating, weakRefs, spent, running>>

\* on_gdm_name_vanished: display_objects is dropped and with it all displays; whether their
\* removals came first is ObjectRemoved.  The clients stay.
GdmVanished ==
  /\ displays' = [d \in Display |-> NoDisplay]
  /\ UNCHANGED <<remotes, exported, creating, weakRefs, spent, running>>

-----------------------------------------------------------------------------
(* The methods of a handover object; the daemon of session s calls the object of s *)

\* on_handle_start_handover: the client is told by this daemon, which has its session, or by
\* a signal to the daemon of the source session (to everybody, if that never called).  The
\* session's daemon calls while the object says that a handover waits, once or again.
StartHandover(s) ==
  /\ s \in DOMAIN exported /\ remotes[exported[s].client].dst = s
  /\ LET i == exported[s].client
     IN  /\ remotes[i].waiting
         /\ remotes[i].session \/ remotes[i].src # None
         /\ remotes' = [remotes EXCEPT ![i].started = TRUE, ![i].timer = TRUE]
  /\ UNCHANGED <<displays, exported, creating, weakRefs, spent, running>>

\* on_incoming_redirected_connection with an id of the table as the routing token, whether or
\* not its client was told to come back, came or was taken; the connection before is lost.
\* Without a destination handover_dst is NULL where it is dereferenced.  The credentials of
\* the system are for a client of Windows without RDSTLS.
IncomingRedirectedConnection(i) ==
  /\ i \in Known
  /\ \/ /\ remotes[i].dst # None /\ exported[remotes[i].dst].ready < MaxReady
        /\ \E rdstls \in BOOLEAN :
             remotes' = [remotes EXCEPT ![i].socket = TRUE, ![i].creds = i \in Windows /\ ~rdstls]
        /\ exported' = [exported EXCEPT ![remotes[i].dst].ready = @ + 1]
        /\ UNCHANGED running
     \/ /\ remotes[i].dst = None /\ running' = FALSE
        /\ UNCHANGED <<remotes, exported>>
  /\ UNCHANGED <<displays, creating, weakRefs, spent>>

\* on_handle_get_system_credentials: once for a connection.
GetSystemCredentials(s) ==
  /\ s \in DOMAIN exported /\ exported[s].ready > 0 /\ remotes[exported[s].client].dst = s
  /\ remotes[exported[s].client].creds
  /\ remotes' = [remotes EXCEPT ![exported[s].client].creds = FALSE]
  /\ UNCHANGED <<displays, exported, creating, weakRefs, spent, running>>

\* on_handle_take_client; without a socket, because another call has it, the daemon of the
\* session gets none.
TakeClient(s) ==
  /\ s \in DOMAIN exported /\ exported[s].ready > 0 /\ remotes[exported[s].client].dst = s
  /\ exported' = [exported EXCEPT ![s].ready = @ - 1]
  /\ remotes' = [remotes EXCEPT ![exported[s].client].socket = FALSE,
                                ![exported[s].client].timer = FALSE, ![exported[s].client].waiting = FALSE]
  /\ UNCHANGED <<displays, creating, weakRefs, spent, running>>

\* on_authorize_handover_method asserts that the object is the destination: an answer of the
\* greeter's daemon to a client that came once more, if a login made its session the source.
SourceCalls(s) ==
  /\ s \in DOMAIN exported /\ exported[s].ready > 0 /\ remotes[exported[s].client].dst # s
  /\ running' = FALSE
  /\ UNCHANGED <<remotes, displays, exported, creating, weakRefs, spent>>

Next ==
  /\ running
  /\ \/ \E i \in Ids : IncomingNewConnection(i) \/ CreateFailed(i) \/ SessionDisposed(i)
                       \/ AbortHandover(i) \/ IncomingRedirectedConnection(i)
     \/ \E d \in Display : ObjectAdded(d) \/ SessionIdChanged(d) \/ ObjectRemoved(d)
                           \/ \E i \in Ids : RemoteIdChanged(d, i)
     \/ \E s \in Sessions : StartHandover(s) \/ GetSystemCredentials(s) \/ TakeClient(s) \/ SourceCalls(s)
     \/ GdmVanished

-----------------------------------------------------------------------------
(* Properties *)

TypeOK ==
  /\ Known \subseteq spent /\ DOMAIN exported \subseteq Sessions
  /\ \A i \in Known : {remotes[i].src, remotes[i].dst} \subseteq Sessions \cup {None}
  /\ \A s \in DOMAIN exported : exported[s].ready \in 0..MaxReady
  /\ weakRefs \in [Ids -> Ids \cup {None}] /\ running \in BOOLEAN

\* The handover objects on the bus are those of the clients of the table, each with the
\* client its methods act on, through logins, steals and removals.
ObjectsAgree ==
  /\ \A s \in DOMAIN exported :
       exported[s].client \in Known /\ s \in {remotes[exported[s].client].src, remotes[exported[s].client].dst}
  /\ \A i \in Known : \A s \in {remotes[i].src, remotes[i].dst} \ {None} :
       s \in DOMAIN exported /\ exported[s].client = i
  /\ \A i \in Known : remotes[i].src # None => remotes[i].src # remotes[i].dst /\ remotes[i].dst # None

\* A display calls clients of the table only, and only its own client
\* (disconnect_from_remote_display).
SignalsLive == \A d \in Display : \A n \in displays[d].notify :
  n[2] \in Known /\ remotes[n[2]].display = d

\* A session that a client of the table points to lives (grd-daemon-system.c:608-612), even
\* if the session of a freed client wrote into the table.
SessionPointersLive == \A i \in Known : remotes[i].session => weakRefs[i] = i

\* A client that a session's daemon has told to come back, and that nobody took since, has
\* somebody to take it and a timer that gives it up.
RedirectionsTimed == \A i \in Known :
  remotes[i].started /\ remotes[i].waiting => remotes[i].dst # None /\ remotes[i].timer

\* No client of the table is waited for in vain.
HandoverEnds(i) == running /\ i \in Known => ~remotes[i].timer
================================================================================
