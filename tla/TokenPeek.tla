------------------------------ MODULE TokenPeek ------------------------------
(***************************************************************************)
(* The routing tokens of connections to the system daemon                  *)
(* (grd-rdp-routing-token.c, on_routing_token_peeked of grd-rdp-server.c). *)
(*                                                                         *)
(* A thread peeks at the first packet of a connection, whose bytes stay in *)
(* the socket for the session.  A timer cancels the peek; the server may   *)
(* stop, and be freed, meanwhile.                                          *)
(***************************************************************************)
EXTENDS Naturals, FiniteSets

CONSTANTS
  Conn,    \* connections
  Packets  \* what a client sends: the fields that peek_routing_token looks at

VARIABLES
  packet,  \* of each connection its packet
  arrived, \* how much of it did: "nothing", "header", "packet", or "closed"
  peek,    \* of each connection the context: step of the peek, timer, cancelled, result
  listen,  \* the server is started; its number, counted at every start
  outcome  \* what became of a connection, the server it came to and the one there was then

vars == <<packet, arrived, peek, listen, outcome>>

Init ==
  /\ packet \in [Conn -> Packets]
  /\ arrived = [c \in Conn |-> "nothing"]
  /\ peek = [c \in Conn |-> [step |-> "none", timer |-> FALSE, cancelled |-> FALSE,
                             result |-> "none", for |-> 0]]
  /\ listen = [on |-> TRUE, number |-> 1]
  /\ outcome = [c \in Conn |-> [as |-> "none", server |-> 0, now |-> 0]]

\* peek_routing_token on the bytes: an error, a token with or without RDSTLS, or none.  The
\* negotiation request is read behind a token only, and may be missing.
Parsed(p) ==
  IF ~p.tpkt \/ ~p.x224 \/ (p.cookie /\ p.neg = "wrong") THEN "error"
  ELSE IF ~p.cookie THEN "none"
  ELSE IF p.neg = "rdstls" THEN "rdstls" ELSE "token"

\* grd_routing_token_peek_async, for a connection that the throttler allows.
PeekAsync(c) ==
  /\ listen.on /\ peek[c].step = "none"
  /\ peek' = [peek EXCEPT ![c] = [step |-> "header", timer |-> TRUE, cancelled |-> FALSE,
                                  result |-> "none", for |-> listen.number]]
  /\ UNCHANGED <<packet, arrived, listen, outcome>>

Arrives(c) ==
  /\ arrived[c] \in {"nothing", "header"}
  /\ arrived' = [arrived EXCEPT ![c] = IF @ = "nothing" THEN "header" ELSE "packet"]
  /\ UNCHANGED <<packet, peek, listen, outcome>>

ClientCloses(c) ==
  /\ arrived[c] # "closed"
  /\ arrived' = [arrived EXCEPT ![c] = "closed"]
  /\ UNCHANGED <<packet, peek, listen, outcome>>

Returned(c, r) == peek' = [peek EXCEPT ![c].step = "returned", ![c].result = r]

\* peek_bytes: it looks for the cancellation first and again for the bytes until there are
\* enough; those of a connection that was closed never are.
PeekThread(c) ==
  /\ UNCHANGED <<packet, arrived, listen, outcome>>
  /\ \/ peek[c].step \in {"header", "packet"} /\ peek[c].cancelled /\ Returned(c, "error")
     \/ /\ peek[c].step = "header" /\ ~peek[c].cancelled /\ arrived[c] \in {"header", "packet"}
        /\ IF packet[c].tpkt THEN peek' = [peek EXCEPT ![c].step = "packet"] ELSE Returned(c, "error")
     \/ /\ peek[c].step = "packet" /\ ~peek[c].cancelled /\ arrived[c] = "packet"
        /\ Returned(c, Parsed(packet[c]))

\* abort_peek_routing_token, MAX_PEEK_TIME_MS after the start.
AbortPeek(c) ==
  /\ peek[c].timer
  /\ peek' = [peek EXCEPT ![c].timer = FALSE, ![c].cancelled = TRUE]
  /\ UNCHANGED <<packet, arrived, listen, outcome>>

\* on_routing_token_peeked and clear_routing_token_context: nothing is done for a server
\* that was stopped, whose pointer the context still has.
TokenPeeked(c) ==
  /\ peek[c].step = "returned"
  /\ peek' = [peek EXCEPT ![c].step = "done", ![c].timer = FALSE]
  /\ outcome' = [outcome EXCEPT ![c] =
       [as |-> IF ~(listen.on /\ listen.number = peek[c].for) \/ peek[c].result = "error" THEN "dropped"
               ELSE IF peek[c].result = "none" THEN "session" ELSE "redirected",
        server |-> peek[c].for, now |-> IF listen.on THEN listen.number ELSE 0]]
  /\ UNCHANGED <<packet, arrived, listen>>

\* grd_rdp_server_stop with its cancellable, and grd_rdp_server_start of another server.
ServerStop ==
  /\ listen.on /\ listen.number = 1
  /\ listen' = [listen EXCEPT !.on = FALSE]
  /\ UNCHANGED <<packet, arrived, peek, outcome>>
ServerStart ==
  /\ ~listen.on
  /\ listen' = [on |-> TRUE, number |-> listen.number + 1]
  /\ UNCHANGED <<packet, arrived, peek, outcome>>

Next ==
  \/ \E c \in Conn : PeekAsync(c) \/ Arrives(c) \/ ClientCloses(c) \/ PeekThread(c)
                     \/ AbortPeek(c) \/ TokenPeeked(c)
  \/ ServerStop \/ ServerStart

-----------------------------------------------------------------------------
(* Properties *)

TypeOK ==
  /\ arrived \in [Conn -> {"nothing", "header", "packet", "closed"}]
  /\ \A c \in Conn :
       /\ peek[c].step \in {"none", "header", "packet", "returned", "done"}
       /\ peek[c].result \in {"none", "token", "rdstls", "error"}
       /\ outcome[c].as \in {"none", "session", "redirected", "dropped"}

\* A connection is redirected if its packet has a token, gets a session if it has none, and
\* neither from a server that was stopped while it was peeked at.
RoutedByPacket == \A c \in Conn :
  /\ outcome[c].as = "redirected" => Parsed(packet[c]) \in {"token", "rdstls"}
  /\ outcome[c].as = "session" => Parsed(packet[c]) = "none"
  /\ outcome[c].as \in {"session", "redirected"} => outcome[c].server = outcome[c].now
  /\ peek[c].step = "done" => ~peek[c].timer

\* The thread of a peek ends, whatever the client sends.
PeeksEnd == \A c \in Conn : peek[c].step \in {"none", "done"}
================================================================================
