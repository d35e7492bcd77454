------------------------------- MODULE Throttler -------------------------------
(***************************************************************************)
(* GrdThrottler (src/src/grd-throttler.c): admission of incoming RDP and   *)
(* VNC connections.  Everything runs in callbacks of one GLib main loop,   *)
(* so a callback is atomic; dispatch_delayed_connections walks the peer    *)
(* table in hash order, one Visit step per peer, and nothing else runs     *)
(* until its walk is over.                                                 *)
(*                                                                         *)
(* Time is measured in ticks.  A timestamp is kept as its age, which stops *)
(* growing at the value where no comparison of the code can tell it from   *)
(* a larger one: Second for connect_timestamps, Interval for               *)
(* last_accept_us.  A ready time is kept as the ticks left until it.       *)
(*                                                                         *)
(* A queued connection is never closed by the program, and                 *)
(* g_io_stream_is_closed looks at local closes only, so                    *)
(* prune_closed_connections never finds anything and is left out.          *)
(***************************************************************************)
EXTENDS Integers, Sequences, FiniteSets

CONSTANTS
  Conn,        \* GSocketConnections; one that ended may be used again
  Peer,        \* remote addresses (GrdPeer->name)
  PeerOf,      \* g_socket_connection_get_remote_address
  MaxGlobal,   \* limits->max_global_connections
  MaxPerPeer,  \* limits->max_connections_per_peer
  MaxPending,  \* limits->max_pending_connections
  MaxAttempts, \* limits->max_attempts_per_second
  Second       \* PRUNE_TIME_CUTOFF_US, in ticks

ASSUME ThrottlerAssumption ==
  /\ IsFiniteSet(Conn)
  /\ PeerOf \in [Conn -> Peer]
  /\ {MaxGlobal, MaxPerPeer, MaxAttempts, Second} \subseteq Nat \ {0}
  /\ MaxPending \in Nat

\* Small sets for the constants: two peers with three and two connections.
SmallPeers == {"a", "b"}
SmallConns == {"a1", "a2", "a3", "b1", "b2"}
SmallPeerOf == [c \in SmallConns |-> IF c \in {"a1", "a2", "a3"} THEN "a" ELSE "b"]

\* G_USEC_PER_SEC / limits->max_attempts_per_second
Interval == Second \div MaxAttempts

\* The ready time of a source that is not armed, g_source_set_ready_time (-1).
Off == -1

VARIABLES
  conn,         \* idle, delayed (in a queue) or active (qdata attached)
  peers,        \* the keys of throttler->peers
  active,       \* peer->active_connections
  timestamps,   \* peer->connect_timestamps, as ages, oldest first
  queue,        \* peer->delayed_connections
  lastAccept,   \* age of peer->last_accept_us
  globalActive, \* throttler->active_connections
  timer,        \* ready time of delayed_connections_source
  dispatching,  \* inside dispatch_delayed_connections
  toVisit,      \* peers its iterator has still to yield
  admissions    \* history: ages of the admissions of the last Second

peerVars == <<peers, active, timestamps, queue, lastAccept, globalActive>>
vars == <<conn, peerVars, timer, dispatching, toVisit, admissions>>

--------------------------------------------------------------------------------
(* Helpers. *)

\* The sequence without the prefix of ages of a second or more.
PruneOld(ages) ==
  LET young == {i \in DOMAIN ages : ages[i] < Second}
  IN  IF young = {}
      THEN <<>>
      ELSE SubSeq(ages, CHOOSE i \in young : \A j \in young : i <= j, Len(ages))

IsConnectionLimitReached(p) ==
  \/ active[p] >= MaxPerPeer
  \/ globalActive >= MaxGlobal

\* Mutant: the limit of the rate is off by one.
IsNewConnectionAllowed_OffByOne(p, ages) ==
  /\ ~IsConnectionLimitReached(p)
  /\ Len(ages) <= MaxAttempts

\* The rate test counts the array as given, pruned by the caller or not.
IsNewConnectionAllowed(p, ages) ==
  /\ ~IsConnectionLimitReached(p)
  /\ Len(ages) < MaxAttempts

\* Mutant: a newcomer overtakes the connections of its peer that wait.
MayEnter_Overtakes(p, ages) == IsNewConnectionAllowed(p, ages)

\* A new connection is served at once only if no older one of its peer waits.
MayEnter(p, ages) == IsNewConnectionAllowed(p, ages) /\ queue[p] = <<>>

\* Mutant: a peer may retry only a whole second after its last connection.
RetryTimes_WholeSecond ==
  {Second - lastAccept[p] :
     p \in {q \in peers : ~IsConnectionLimitReached(q) /\ queue[q] # <<>>}}

\* The ready times that maybe_queue_timeout takes the minimum of.
RetryTimes ==
  {Interval - lastAccept[p] :
     p \in {q \in peers : ~IsConnectionLimitReached(q) /\ queue[q] # <<>>}}

\* The earliest one; the source keeps its ready time if there is none.
MaybeQueueTimeout(current) ==
  timer' = IF RetryTimes' = {}
           THEN current
           ELSE CHOOSE t \in RetryTimes' : \A u \in RetryTimes' : t <= u

\* Mutant: the queue is not looked at.
IsDisposable_IgnoresQueue(p) == active[p] = 0 /\ timestamps[p] = <<>>

\* Whether maybe_dispose_peer drops the peer.
IsDisposable(p) == active[p] = 0 /\ timestamps[p] = <<>> /\ queue[p] = <<>>

\* maybe_dispose_peer; ensure_peer gives a new entry last_accept_us = 0.
MaybeDisposePeer(p, disposable) ==
  /\ peers' = IF disposable THEN peers \ {p} ELSE peers
  /\ lastAccept' =
       [lastAccept EXCEPT ![p] = IF disposable THEN Interval ELSE @]

\* grd_throttler_allow_connection: the callback keeps the connection or not;
\* a connection it does not keep is finalized as soon as its caller lets go.
Register(p, kept, ages) ==
  /\ active' = [active EXCEPT ![p] = IF kept THEN @ + 1 ELSE @]
  /\ globalActive' = IF kept THEN globalActive + 1 ELSE globalActive
  /\ timestamps' = [timestamps EXCEPT ![p] = Append(PruneOld(ages), 0)]
  /\ lastAccept' = [lastAccept EXCEPT ![p] = 0]
  /\ admissions' = [admissions EXCEPT ![p] = Append(@, 0)]

--------------------------------------------------------------------------------
Init ==
  /\ conn = [c \in Conn |-> "idle"]
  /\ peers = {}
  /\ active = [p \in Peer |-> 0]
  /\ timestamps = [p \in Peer |-> <<>>]
  /\ queue = [p \in Peer |-> <<>>]
  /\ lastAccept = [p \in Peer |-> Interval]
  /\ globalActive = 0
  /\ timer = Off
  /\ dispatching = FALSE
  /\ toVisit = {}
  /\ admissions = [p \in Peer |-> <<>>]

(***************************************************************************)
(* grd_throttler_handle_connection: the peer is looked up or created, its  *)
(* timestamps are pruned, and the connection is allowed, delayed or denied.*)
(* The socket service drops its reference after the handler, so a          *)
(* connection the callback did not keep ends in a Finalize step.           *)
(***************************************************************************)
Incoming(c) ==
  LET p == PeerOf[c]
      pruned == PruneOld(timestamps[p])
      allowed == MayEnter(p, pruned)
  IN
  /\ ~dispatching
  /\ conn[c] = "idle"
  /\ peers' = peers \cup {p}
  /\ UNCHANGED <<dispatching, toVisit>>
  /\ \/ /\ allowed
        /\ Register(p, TRUE, pruned)
        /\ conn' = [conn EXCEPT ![c] = "active"]
        /\ UNCHANGED <<queue, timer>>
     \/ /\ ~allowed
        /\ Len(queue[p]) <= MaxPending
        /\ queue' = [queue EXCEPT ![p] = Append(@, c)]
        /\ conn' = [conn EXCEPT ![c] = "delayed"]
        /\ timestamps' = [timestamps EXCEPT ![p] = pruned]
        /\ UNCHANGED <<active, globalActive, lastAccept, admissions>>
        /\ MaybeQueueTimeout(timer)
     \/ /\ ~allowed
        /\ Len(queue[p]) > MaxPending
        /\ timestamps' = [timestamps EXCEPT ![p] = pruned]
        /\ UNCHANGED <<conn, active, queue, lastAccept, globalActive, timer,
                       admissions>>

\* Mutant: the freed slot arms no source.
Finalize_NoTimeout(c) ==
  LET p == PeerOf[c] IN
  /\ ~dispatching
  /\ conn[c] = "active"
  /\ conn' = [conn EXCEPT ![c] = "idle"]
  /\ active' = [active EXCEPT ![p] = @ - 1]
  /\ globalActive' = globalActive - 1
  /\ UNCHANGED <<timestamps, queue, timer, dispatching, toVisit, admissions>>
  /\ MaybeDisposePeer(p, IsDisposable(p)')

(***************************************************************************)
(* connection_data_free: an allowed connection is finalized.               *)
(***************************************************************************)
Finalize(c) ==
  LET p == PeerOf[c] IN
  /\ ~dispatching
  /\ conn[c] = "active"
  /\ conn' = [conn EXCEPT ![c] = "idle"]
  /\ active' = [active EXCEPT ![p] = @ - 1]
  /\ globalActive' = globalActive - 1
  /\ UNCHANGED <<timestamps, queue, dispatching, toVisit, admissions>>
  /\ MaybeDisposePeer(p, IsDisposable(p)')
  /\ MaybeQueueTimeout(timer)

(***************************************************************************)
(* dispatch_delayed_connections: source_dispatch disarms the source, then  *)
(* the peers are walked, then the source is armed again.                   *)
(***************************************************************************)
DispatchBegin ==
  /\ ~dispatching
  /\ timer = 0
  /\ timer' = Off
  /\ dispatching' = TRUE
  /\ toVisit' = peers
  /\ UNCHANGED <<conn, peerVars, admissions>>

VisitIdle(p) ==
  /\ p \in toVisit
  /\ queue[p] = <<>>
  /\ toVisit' = toVisit \ {p}
  /\ MaybeDisposePeer(p, IsDisposable(p))
  /\ UNCHANGED <<conn, active, timestamps, queue, globalActive, timer,
                 dispatching, admissions>>

VisitAllowed(p) ==
  /\ p \in toVisit
  /\ queue[p] # <<>>
  /\ IsNewConnectionAllowed(p, timestamps[p])
  /\ toVisit' = toVisit \ {p}
  /\ queue' = [queue EXCEPT ![p] = Tail(@)]
  /\ UNCHANGED <<peers, dispatching>>
  /\ \/ /\ Register(p, TRUE, timestamps[p])
        /\ conn' = [conn EXCEPT ![Head(queue[p])] = "active"]
        /\ UNCHANGED timer
     \/ /\ Register(p, FALSE, timestamps[p])
        /\ conn' = [conn EXCEPT ![Head(queue[p])] = "idle"]
        /\ MaybeQueueTimeout(timer)

VisitRefused(p) ==
  /\ p \in toVisit
  /\ queue[p] # <<>>
  /\ ~IsNewConnectionAllowed(p, timestamps[p])
  /\ toVisit' = toVisit \ {p}
  /\ UNCHANGED <<conn, peerVars, timer, dispatching, admissions>>

\* Mutant: what is still queued after the walk arms no source.
DispatchEnd_NoTimeout ==
  /\ dispatching
  /\ toVisit = {}
  /\ dispatching' = FALSE
  /\ UNCHANGED <<conn, peerVars, timer, toVisit, admissions>>

DispatchEnd ==
  /\ dispatching
  /\ toVisit = {}
  /\ dispatching' = FALSE
  /\ UNCHANGED <<conn, peerVars, toVisit, admissions>>
  /\ MaybeQueueTimeout(timer)

(***************************************************************************)
(* Time passes between callbacks.                                          *)
(***************************************************************************)
Older(age, cap) == IF age < cap THEN age + 1 ELSE cap

Tick ==
  /\ ~dispatching
  /\ timestamps' =
       [p \in Peer |-> [i \in DOMAIN timestamps[p] |-> Older(timestamps[p][i], Second)]]
  /\ lastAccept' = [p \in Peer |-> Older(lastAccept[p], Interval)]
  /\ timer' = IF timer \in {Off, 0} THEN timer ELSE timer - 1
  /\ admissions' =
       [p \in Peer |-> PruneOld([i \in DOMAIN admissions[p] |-> admissions[p][i] + 1])]
  /\ UNCHANGED <<conn, peers, active, queue, globalActive, dispatching, toVisit>>

Dispatch ==
  \/ DispatchBegin
  \/ \E p \in Peer : VisitIdle(p) \/ VisitAllowed(p) \/ VisitRefused(p)
  \/ DispatchEnd

Next ==
  \/ \E c \in Conn : Incoming(c) \/ Finalize(c)
  \/ Dispatch
  \/ Tick

Spec == Init /\ [][Next]_vars

\* The main loop keeps dispatching ready sources and the clock keeps running.
FairSpec == Spec /\ WF_vars(Dispatch) /\ WF_vars(Tick)

--------------------------------------------------------------------------------
(* Properties. *)

ActiveConns == {c \in Conn : conn[c] = "active"}

TypeOK ==
  /\ conn \in [Conn -> {"idle", "delayed", "active"}]
  /\ peers \subseteq Peer
  /\ active \in [Peer -> Nat]
  /\ timestamps \in [Peer -> Seq(0 .. Second)]
  /\ queue \in [Peer -> Seq(Conn)]
  /\ lastAccept \in [Peer -> 0 .. Interval]
  /\ globalActive \in Nat
  /\ timer \in {Off} \cup 0 .. Interval
  /\ dispatching \in BOOLEAN
  /\ toVisit \subseteq peers
  /\ admissions \in [Peer -> Seq(0 .. Second)]

\* The counters are what the connections in service add up to, and whoever is
\* in service has a peer entry for connection_data_free to find: it does not
\* check the result of its lookup.
CountersMatchConnections ==
  /\ globalActive = Cardinality(ActiveConns)
  /\ \A p \in Peer : active[p] = Cardinality({c \in ActiveConns : PeerOf[c] = p})
  /\ \A c \in ActiveConns : PeerOf[c] \in peers

\* A connection is in exactly the queue of its peer while it is delayed, once.
QueuesHoldDelayed ==
  /\ \A p \in Peer : \A i \in DOMAIN queue[p] :
       /\ conn[queue[p][i]] = "delayed"
       /\ PeerOf[queue[p][i]] = p
       /\ \A j \in DOMAIN queue[p] : queue[p][i] = queue[p][j] => i = j
  /\ \A c \in Conn : conn[c] = "delayed" =>
       PeerOf[c] \in peers /\ \E i \in DOMAIN queue[PeerOf[c]] : queue[PeerOf[c]][i] = c

\* No peer is given more than max_attempts_per_second connections in any
\* second, whichever of the handler and the dispatcher admitted them, although
\* only one of them prunes the array and entries are disposed of in between.
RateRespected == \A p \in Peer : Len(admissions[p]) <= MaxAttempts

\* No lost wakeup: whenever a delayed connection is held back by the rate alone,
\* the source is armed, and no later than the retry time of its peer.
WakeupPunctual ==
  ~dispatching => \A t \in RetryTimes : timer # Off /\ timer <= t

\* The stage of Admission that each connection is in.
stage == [c \in Conn |-> CASE conn[c] = "idle" -> "away"
                             [] conn[c] = "delayed" -> "waiting"
                             [] conn[c] = "active" -> "admitted"]

Abstract == INSTANCE Admission WITH line <- queue, MaxQueued <- MaxPending + 1

\* The throttler implements the bounded first-come first-served admission of
\* Admission: order per peer, and limits over the set of live connections.
AdmissionSpec == Abstract!Spec

\* A delayed connection leaves its queue, unless its peer is at a connection
\* limit or its timestamp array is full.
DelayedServed ==
  \A c \in Conn :
    conn[c] = "delayed" ~>
      \/ conn[c] # "delayed"
      \/ IsConnectionLimitReached(PeerOf[c])
      \/ Len(timestamps[PeerOf[c]]) >= MaxAttempts

\* What the comment of prune_old_timestamps says of the array: its length is
\* the number of connections of the last second, so a connection that no
\* connection limit holds back is refused only after that many of them.
RefusedOnlyForRecentAttempts ==
  [][\A p \in Peer :
       VisitRefused(p) /\ ~IsConnectionLimitReached(p)
         => Len(admissions[p]) >= MaxAttempts]_vars

\* The books of the throttler agree with the connections: the counters count those in
\* service, and the queues hold those that are delayed, each once (connection_data_free
\* and dispatch_delayed_connections rely on it).
BooksBalance == CountersMatchConnections /\ QueuesHoldDelayed

================================================================================
