------------------------------- MODULE Admission -------------------------------
(***************************************************************************)
(* What connection throttling promises, without counters, timestamps or    *)
(* timers: each peer's connections are served in the order they arrived,   *)
(* and the SET of connections in service never outgrows the two limits.    *)
(* Throttler.tla is shown to implement this specification.                 *)
(***************************************************************************)
EXTENDS Naturals, Sequences, FiniteSets

CONSTANTS
  Conn,       \* connections
  Peer,       \* remote addresses
  PeerOf,     \* the address each connection comes from
  MaxGlobal,  \* how many connections may be in service
  MaxPerPeer, \* how many of them from one peer
  MaxQueued   \* how many connections of one peer may wait

VARIABLES
  stage, \* where each connection is: away, waiting or admitted
  line   \* each peer's connections, in the order they arrived

vars == <<stage, line>>

Admitted == {c \in Conn : stage[c] = "admitted"}
AdmittedOf(p) == {c \in Admitted : PeerOf[c] = p}

\* One more connection of this peer may be served.
Room(p) ==
  /\ Cardinality(AdmittedOf(p)) < MaxPerPeer
  /\ Cardinality(Admitted) < MaxGlobal

Init ==
  /\ stage = [c \in Conn |-> "away"]
  /\ line = [p \in Peer |-> <<>>]

\* A connection is served at once only if nobody of its peer waits.
AdmitNew(c) ==
  /\ stage[c] = "away"
  /\ line[PeerOf[c]] = <<>>
  /\ Room(PeerOf[c])
  /\ stage' = [stage EXCEPT ![c] = "admitted"]
  /\ UNCHANGED line

Enqueue(c) ==
  /\ stage[c] = "away"
  /\ Len(line[PeerOf[c]]) < MaxQueued
  /\ stage' = [stage EXCEPT ![c] = "waiting"]
  /\ line' = [line EXCEPT ![PeerOf[c]] = Append(@, c)]

\* The head of a line is served; it may be given up in the same step.
AdmitHead(p) ==
  /\ line[p] # <<>>
  /\ Room(p)
  /\ \E next \in {"admitted", "away"} :
       stage' = [stage EXCEPT ![Head(line[p])] = next]
  /\ line' = [line EXCEPT ![p] = Tail(@)]

Leave(c) ==
  /\ stage[c] = "admitted"
  /\ stage' = [stage EXCEPT ![c] = "away"]
  /\ UNCHANGED line

Next ==
  \/ \E c \in Conn : AdmitNew(c) \/ Enqueue(c) \/ Leave(c)
  \/ \E p \in Peer : AdmitHead(p)

Spec == Init /\ [][Next]_vars

================================================================================
