---------------------------- MODULE Daemons_proof ----------------------------
(***************************************************************************)
(* Proofs about the daemons: the servers that they start and stop, the     *)
(* peeks at routing tokens, the remote clients of the system daemon and    *)
(* the daemon of a graphical session, for any number of connections,       *)
(* clients, sessions, displays and events.                                 *)
(*                                                                         *)
(* The invariants say, beside the properties: of the servers, that one     *)
(* that is off has nothing of a running one but a proxy that came too late *)
(* (OffIsOff), and that of two that have a session somebody hears of the   *)
(* other's (SomebodyHears); of the clients, that a display that GDM        *)
(* creates belongs to a client with nowhere to go yet, and what a          *)
(* display's signals promise about the client they call (SignalsSound),    *)
(* whatever record the weak references of the sessions point to            *)
(* (AllocatedKeeps); of the daemon of a session, that its calls for the    *)
(* object follow one another (CallsInTurn), and that a client that is      *)
(* being taken finds the handlers connected and is the newest (TakenOnce). *)
(***************************************************************************)
EXTENDS Daemons, TLAPS

(* The peeks at routing tokens. *)

Results == {"none", "token", "rdstls", "error"}

PeekTypes ==
  /\ arrived \in [Conn -> {"nothing", "header", "packet", "closed"}]
  /\ peek \in [Conn -> [step : {"none", "header", "packet", "returned", "done"}, timer : BOOLEAN,
                        cancelled : BOOLEAN, result : Results, for : Nat]]
  /\ listen \in [on : BOOLEAN, number : Nat]
  /\ outcome \in [Conn -> [as : {"none", "session", "redirected", "dropped"}, server : Nat,
                           now : Nat]]

\* What a thread returned is an error or what the packet says.
ResultsOfPackets == \A c \in Conn :
  peek[c].step = "returned" => peek[c].result \in {"error", T!Parsed(packet[c])}

\* The inductive invariant of the peeks.
TokenInv == PeekTypes /\ ResultsOfPackets /\ T!RoutedByPacket

\* A packet is an error, has a token, with or without RDSTLS, or none.
LEMMA ParsedIsResult == \A p : T!Parsed(p) \in Results
BY DEF T!Parsed, Results

\* Nobody is peeked at in the beginning.
LEMMA TokenInit == T!Init => TokenInv
BY DEF T!Init, TokenInv, PeekTypes, ResultsOfPackets, T!RoutedByPacket, Results

\* The steps that change neither packet nor outcome.
LEMMA PeekChanges ==
  ASSUME TokenInv, UNCHANGED <<packet, arrived, listen, outcome>>, NEW c \in Conn, NEW p,
         p \in [step : {"none", "header", "packet", "returned", "done"}, timer : BOOLEAN,
                cancelled : BOOLEAN, result : Results, for : Nat],
         peek' = [peek EXCEPT ![c] = p],
         p.step = "returned" => p.result \in {"error", T!Parsed(packet[c])},
         p.step = "done" => ~p.timer
  PROVE  TokenInv'
<1>1. /\ peek'[c] = p
      /\ \A d \in Conn : d # c => peek'[d] = peek[d]
  BY DEF TokenInv, PeekTypes
<1>2. PeekTypes'
  BY DEF TokenInv, PeekTypes
<1>3. ResultsOfPackets'
  BY <1>1 DEF TokenInv, ResultsOfPackets
<1>4. T!RoutedByPacket'
  BY <1>1 DEF TokenInv, T!RoutedByPacket
<1> QED BY <1>2, <1>3, <1>4 DEF TokenInv

\* The steps of the peeks keep their invariant.
LEMMA TokenStep ==
  ASSUME TokenInv, T!Next
  PROVE  TokenInv'
<1> USE DEF TokenInv
<1>1. ASSUME NEW c \in Conn, T!PeekAsync(c)
      PROVE  TokenInv'
  <2> DEFINE p == [step |-> "header", timer |-> TRUE, cancelled |-> FALSE, result |-> "none",
                   for |-> listen.number]
  <2>1. p \in [step : {"none", "header", "packet", "returned", "done"}, timer : BOOLEAN,
               cancelled : BOOLEAN, result : Results, for : Nat]
    BY DEF PeekTypes, Results
  <2> QED BY <1>1, <2>1, PeekChanges DEF T!PeekAsync
<1>2. ASSUME NEW c \in Conn, T!PeekThread(c)
      PROVE  TokenInv'
  <2>1. ASSUME NEW r \in Results, r \in {"error", T!Parsed(packet[c])}, T!Returned(c, r)
        PROVE  TokenInv'
    <3> DEFINE p == [peek[c] EXCEPT !.step = "returned", !.result = r]
    <3>1. p \in [step : {"none", "header", "packet", "returned", "done"}, timer : BOOLEAN,
                 cancelled : BOOLEAN, result : Results, for : Nat]
      BY DEF PeekTypes
    <3>2. peek' = [peek EXCEPT ![c] = p] /\ p.step = "returned" /\ p.result = r
      BY <2>1 DEF T!Returned, PeekTypes
    <3> HIDE DEF p
    <3> QED BY <1>2, <2>1, <3>1, <3>2, PeekChanges DEF T!PeekThread
  <2>2. ASSUME peek' = [peek EXCEPT ![c].step = "packet"]
        PROVE  TokenInv'
    <3> DEFINE p == [peek[c] EXCEPT !.step = "packet"]
    <3>1. p \in [step : {"none", "header", "packet", "returned", "done"}, timer : BOOLEAN,
                 cancelled : BOOLEAN, result : Results, for : Nat]
      BY DEF PeekTypes
    <3>2. peek' = [peek EXCEPT ![c] = p] /\ p.step = "packet"
      BY <2>2 DEF PeekTypes
    <3> HIDE DEF p
    <3> QED BY <1>2, <3>1, <3>2, PeekChanges DEF T!PeekThread
  <2>3. "error" \in Results /\ T!Parsed(packet[c]) \in Results
    BY ParsedIsResult DEF Results
  <2>4. ASSUME ~packet[c].tpkt
        PROVE  T!Parsed(packet[c]) = "error"
    BY <2>4 DEF T!Parsed
  <2> QED BY <1>2, <2>1, <2>2, <2>3, <2>4 DEF T!PeekThread
<1>3. ASSUME NEW c \in Conn, T!AbortPeek(c)
      PROVE  TokenInv'
  <2> DEFINE p == [peek[c] EXCEPT !.timer = FALSE, !.cancelled = TRUE]
  <2>1. p \in [step : {"none", "header", "packet", "returned", "done"}, timer : BOOLEAN,
               cancelled : BOOLEAN, result : Results, for : Nat]
    BY DEF PeekTypes
  <2>2. /\ peek' = [peek EXCEPT ![c] = p] /\ ~p.timer
        /\ p.step = peek[c].step /\ p.result = peek[c].result
    BY <1>3 DEF T!AbortPeek, PeekTypes
  <2> HIDE DEF p
  <2> QED BY <1>3, <2>1, <2>2, PeekChanges DEF T!AbortPeek, ResultsOfPackets
<1>4. ASSUME NEW c \in Conn, T!TokenPeeked(c)
      PROVE  TokenInv'
  <2>1. PICK r : r = peek[c].result
    OBVIOUS
  <2>2. PICK as \in {"session", "redirected", "dropped"} :
          as = IF ~(listen.on /\ listen.number = peek[c].for) \/ r = "error" THEN "dropped"
               ELSE IF r = "none" THEN "session" ELSE "redirected"
    OBVIOUS
  <2>3. PICK n \in Nat : n = IF listen.on THEN listen.number ELSE 0
    BY DEF PeekTypes
  <2>4. /\ outcome' = [outcome EXCEPT ![c] = [as |-> as, server |-> peek[c].for, now |-> n]]
        /\ peek' = [peek EXCEPT ![c].step = "done", ![c].timer = FALSE]
        /\ UNCHANGED <<packet, arrived, listen>>
    BY <1>4, <2>1, <2>2, <2>3 DEF T!TokenPeeked
  <2>5. PeekTypes'
    <3>1. peek[c].for \in Nat
      BY DEF PeekTypes
    <3>2. PICK o \in [as : {"none", "session", "redirected", "dropped"}, server : Nat, now : Nat] :
            o = [as |-> as, server |-> peek[c].for, now |-> n]
      BY <3>1
    <3>3. outcome' = [outcome EXCEPT ![c] = o]
      BY <2>4, <3>2
    <3>4. PICK p : p = [peek[c] EXCEPT !.step = "done", !.timer = FALSE]
      OBVIOUS
    <3>5. p \in [step : {"none", "header", "packet", "returned", "done"}, timer : BOOLEAN,
                 cancelled : BOOLEAN, result : Results, for : Nat]
      BY <3>4 DEF PeekTypes
    <3>6. peek' = [peek EXCEPT ![c] = p]
      BY <2>4, <3>4 DEF PeekTypes
    <3>7. peek' \in [Conn -> [step : {"none", "header", "packet", "returned", "done"},
                              timer : BOOLEAN, cancelled : BOOLEAN, result : Results, for : Nat]]
      BY <3>5, <3>6 DEF PeekTypes
    <3>8. outcome' \in [Conn -> [as : {"none", "session", "redirected", "dropped"}, server : Nat,
                                 now : Nat]]
      BY <3>3 DEF PeekTypes
    <3> QED BY <2>4, <3>7, <3>8 DEF PeekTypes
  <2>6. ResultsOfPackets'
    BY <2>4 DEF PeekTypes, ResultsOfPackets
  <2>7. r \in {"error", T!Parsed(packet[c])} /\ r \in Results
    BY <1>4, <2>1 DEF ResultsOfPackets, T!TokenPeeked, PeekTypes
  <2>8. ASSUME NEW d \in Conn
        PROVE  /\ outcome'[d].as = "redirected" => T!Parsed(packet'[d]) \in {"token", "rdstls"}
               /\ outcome'[d].as = "session" => T!Parsed(packet'[d]) = "none"
               /\ outcome'[d].as \in {"session", "redirected"} => outcome'[d].server = outcome'[d].now
               /\ peek'[d].step = "done" => ~peek'[d].timer
    <3>1. CASE d = c
      <4>1. /\ outcome'[d].as = as /\ outcome'[d].server = peek[c].for /\ outcome'[d].now = n
            /\ ~peek'[d].timer
        BY <2>4, <3>1 DEF PeekTypes
      <4> QED BY <2>2, <2>3, <2>4, <2>7, <3>1, <4>1 DEF Results
    <3>2. CASE d # c
      BY <2>4, <3>2 DEF PeekTypes, T!RoutedByPacket
    <3> QED BY <3>1, <3>2
  <2>9. T!RoutedByPacket'
    BY <2>8 DEF T!RoutedByPacket
  <2> QED BY <2>5, <2>6, <2>9
<1>5. ASSUME UNCHANGED <<packet, peek, outcome>>, PeekTypes'
      PROVE  TokenInv'
  BY <1>5 DEF ResultsOfPackets, T!RoutedByPacket
<1>6. ASSUME NEW c \in Conn, T!Arrives(c) \/ T!ClientCloses(c)
      PROVE  TokenInv'
  <2>1. PeekTypes'
    BY <1>6 DEF T!Arrives, T!ClientCloses, PeekTypes
  <2> QED BY <1>5, <1>6, <2>1 DEF T!Arrives, T!ClientCloses
<1>7. CASE T!ServerStop \/ T!ServerStart
  <2> listen.number \in Nat /\ listen.on \in BOOLEAN
    BY DEF PeekTypes
  <2>1. listen' \in [on : BOOLEAN, number : Nat]
    <3>1. CASE T!ServerStop
      BY <3>1 DEF T!ServerStop, PeekTypes
    <3>2. CASE T!ServerStart
      BY <3>2 DEF T!ServerStart
    <3> QED BY <1>7, <3>1, <3>2
  <2>2. PeekTypes'
    BY <1>7, <2>1 DEF T!ServerStop, T!ServerStart, PeekTypes
  <2> QED BY <1>5, <1>7, <2>2 DEF T!ServerStop, T!ServerStart
<1> QED BY <1>1, <1>2, <1>3, <1>4, <1>6, <1>7 DEF T!Next

\* Nor do the other parts of the daemons disturb the peeks.
LEMMA TokenStutters ==
  ASSUME TokenInv, UNCHANGED tokenVars
  PROVE  TokenInv'
BY DEF TokenInv, tokenVars, PeekTypes, ResultsOfPackets, T!RoutedByPacket

-----------------------------------------------------------------------------
(* The handover daemon. *)

Chain == async["dispatcher"] + async["request"] + async["manager"] + async["object"]

HandoverTypes ==
  /\ H!TypeOK
  /\ {changes, clients} \subseteq Nat /\ clients <= MaxClients

\* The calls for the object of the session follow one another, as long as it is not there.
CallsInTurn ==
  /\ ~bus.name => proxy = {} /\ ~bus.object
  /\ "object" \in proxy => bus.object
  /\ async["object"] > 0 => bus.object
  /\ Chain <= 1
  /\ Chain > 0 => bus.name /\ "object" \notin proxy

\* A client that is taken finds the handlers connected, and its number is new.
TakenOnce ==
  /\ session <= clients /\ \A s \in sessions : s <= clients
  /\ client.step \in {"creds", "take"} => server /\ "object" \in proxy
  /\ client.step # "none" => session < clients /\ \A s \in sessions : s < clients

\* The inductive invariant of the handover daemon.
HandoverInv ==
  /\ HandoverTypes /\ CallsInTurn /\ TakenOnce
  /\ H!HandlersOnce /\ H!SessionLives /\ sessions \subseteq {session}

\* The bounds are numbers.
LEMMA BoundsAreNat ==
  /\ MaxEvents \in Nat /\ MaxLogins \in Nat /\ MaxChanges \in Nat /\ MaxClients \in Nat
  /\ MaxReady \in Nat /\ MaxAttempts \in Nat \ {0}
BY DaemonsAssumption

\* The invariant of the handover daemon holds when it starts.
LEMMA HandoverInit == H!Init => HandoverInv
<1> SUFFICES ASSUME H!Init
             PROVE  HandoverInv
  OBVIOUS
<1> USE DEF H!Init
<1>1. HandoverTypes
  <2>1. async \in [H!Calls -> Nat] /\ handlers \in [object : Nat, server : Nat]
    OBVIOUS
  <2>2. /\ bus \in [name : BOOLEAN, object : BOOLEAN, waiting : BOOLEAN, mutter : BOOLEAN]
        /\ client \in [step : {"none", "ready", "creds", "take"}, creds : BOOLEAN]
    BY DEF H!Nobody
  <2>3. 0 \in 0 .. MaxClients
    BY BoundsAreNat
  <2>4. {server, remote, away} \subseteq BOOLEAN
    OBVIOUS
  <2>5. /\ proxy \subseteq {"dispatcher", "object", "manager"}
        /\ sessions \subseteq 1 .. MaxClients /\ {session, dialog} \subseteq 0 .. MaxClients
    BY <2>3
  <2>6. H!TypeOK
    BY <2>1, <2>2, <2>4, <2>5 DEF H!TypeOK
  <2> QED BY <2>6, BoundsAreNat DEF HandoverTypes
<1>2. CallsInTurn
  BY DEF CallsInTurn, Chain, H!Calls
<1>3. TakenOnce
  BY DEF TakenOnce, H!Nobody
<1>4. H!HandlersOnce /\ H!SessionLives
  BY DEF H!HandlersOnce, H!SessionLives
<1> QED BY <1>1, <1>2, <1>3, <1>4 DEF HandoverInv

\* What the types say of the counts.
LEMMA CallsAreCounted ==
  ASSUME HandoverTypes
  PROVE  /\ \A c \in H!Calls : async[c] \in Nat
         /\ Chain \in Nat /\ handlers.object \in Nat /\ handlers.server \in Nat
         /\ session \in Nat /\ sessions \subseteq Nat /\ clients \in Nat
         /\ H!Calls = {"dispatcher", "request", "manager", "object", "start"}
         /\ DOMAIN async = H!Calls
BY DEF HandoverTypes, H!TypeOK, Chain, H!Calls

\* A call more.
LEMMA CallCounts ==
  ASSUME NEW a \in [H!Calls -> Nat], NEW c \in H!Calls
  PROVE  /\ H!Call(a, c) \in [H!Calls -> Nat]
         /\ H!Call(a, c)[c] = a[c] + 1
         /\ \A e \in H!Calls : e # c => H!Call(a, c)[e] = a[e]
BY DEF H!Call

\* The calls of the handover daemon.
LEMMA CallNames == H!Calls = {"dispatcher", "request", "manager", "object", "start"}
BY DEF H!Calls

\* Without calls under way the chain has none.
LEMMA IdleChain ==
  ASSUME HandoverTypes, H!Idle
  PROVE  /\ async["dispatcher"] = 0 /\ async["request"] = 0 /\ async["manager"] = 0
         /\ async["object"] = 0 /\ async["start"] = 0 /\ Chain = 0
<1>1. \A c \in H!Calls : async[c] = 0
  BY CallsAreCounted DEF H!Idle
<1> QED BY <1>1 DEF H!Calls, Chain

\* The types, variable by variable.
LEMMA HandoverTypesFrom ==
  ASSUME bus' \in [name : BOOLEAN, object : BOOLEAN, waiting : BOOLEAN, mutter : BOOLEAN],
         proxy' \subseteq {"dispatcher", "object", "manager"},
         async' \in [H!Calls -> Nat], handlers' \in [object : Nat, server : Nat],
         client' \in [step : {"none", "ready", "creds", "take"}, creds : BOOLEAN],
         {server', remote', away'} \subseteq BOOLEAN,
         sessions' \subseteq 1 .. MaxClients, {session', dialog'} \subseteq 0 .. MaxClients,
         {changes', clients'} \subseteq Nat, clients' <= MaxClients
  PROVE  HandoverTypes'
BY DEF HandoverTypes, H!TypeOK

\* on_dbus_name_appeared: the name of the system daemon, the call of the dispatcher.
LEMMA OfNameAppeared ==
  ASSUME Calm, HandoverInv, H!NameAppeared
  PROVE  HandoverInv'
<1> USE DEF HandoverInv, H!NameAppeared
<1> USE CallsAreCounted, IdleChain
<1>1. HandoverTypes'
  <2>1. bus' \in [name : BOOLEAN, object : BOOLEAN, waiting : BOOLEAN, mutter : BOOLEAN]
    BY DEF HandoverTypes, H!TypeOK
  <2>2. async' \in [H!Calls -> Nat]
    BY DEF HandoverTypes, H!TypeOK, H!Call
  <2>3. handlers' \in [object : Nat, server : Nat]
    BY DEF HandoverTypes, H!TypeOK
  <2>4. client' \in [step : {"none", "ready", "creds", "take"}, creds : BOOLEAN]
    BY DEF HandoverTypes, H!TypeOK
  <2>5. {server', remote', away'} \subseteq BOOLEAN
    BY DEF HandoverTypes, H!TypeOK
  <2>6. sessions' \subseteq 1 .. MaxClients /\ {session', dialog'} \subseteq 0 .. MaxClients
    BY BoundsAreNat DEF TakenOnce, HandoverTypes, H!TypeOK
  <2>7. {changes', clients'} \subseteq Nat /\ clients' <= MaxClients
    BY BoundsAreNat DEF HandoverTypes, H!TypeOK
  <2>8. proxy' \subseteq {"dispatcher", "object", "manager"}
    BY DEF HandoverTypes, H!TypeOK
  <2> QED BY <2>1, <2>2, <2>3, <2>4, <2>5, <2>6, <2>7, <2>8, HandoverTypesFrom
<1>2. CallsInTurn'
  BY DEF CallsInTurn, Chain, HandoverTypes, H!TypeOK, H!Calls, H!HandlersOnce, H!Call
<1>3. TakenOnce'
  BY DEF TakenOnce, HandoverTypes, H!TypeOK, H!HandlersOnce
<1>4. H!HandlersOnce'
  BY DEF CallsInTurn, TakenOnce, Chain, HandoverTypes, H!TypeOK, H!HandlersOnce
<1>5. H!SessionLives' /\ (sessions \subseteq {session})'
  BY DEF TakenOnce, HandoverTypes, H!TypeOK, H!SessionLives, H!HandlersOnce
<1> QED BY <1>1, <1>2, <1>3, <1>4, <1>5

\* on_dbus_name_vanished: proxies and handlers go.
LEMMA OfNameVanished ==
  ASSUME Calm, HandoverInv, H!NameVanished
  PROVE  HandoverInv'
<1> USE DEF HandoverInv, H!NameVanished
<1> USE CallsAreCounted, IdleChain
<1>1. HandoverTypes'
  <2>1. bus' \in [name : BOOLEAN, object : BOOLEAN, waiting : BOOLEAN, mutter : BOOLEAN]
    BY DEF HandoverTypes, H!TypeOK
  <2>2. async' \in [H!Calls -> Nat]
    BY DEF HandoverTypes, H!TypeOK
  <2>3. handlers' \in [object : Nat, server : Nat]
    BY DEF HandoverTypes, H!TypeOK, H!Torn
  <2>4. client' \in [step : {"none", "ready", "creds", "take"}, creds : BOOLEAN]
    BY DEF HandoverTypes, H!TypeOK, H!Nobody
  <2>5. {server', remote', away'} \subseteq BOOLEAN
    BY DEF HandoverTypes, H!TypeOK
  <2>6. sessions' \subseteq 1 .. MaxClients /\ {session', dialog'} \subseteq 0 .. MaxClients
    BY BoundsAreNat DEF TakenOnce, HandoverTypes, H!TypeOK
  <2>7. {changes', clients'} \subseteq Nat /\ clients' <= MaxClients
    BY BoundsAreNat DEF HandoverTypes, H!TypeOK
  <2>8. proxy' \subseteq {"dispatcher", "object", "manager"}
    BY DEF HandoverTypes, H!TypeOK
  <2> QED BY <2>1, <2>2, <2>3, <2>4, <2>5, <2>6, <2>7, <2>8, HandoverTypesFrom
<1>2. CallsInTurn'
  <2>1. Chain' = 0 /\ async'["object"] = 0 /\ proxy' = {}
    BY DEF Chain
  <2>2. ~bus'.object
    BY DEF HandoverTypes, H!TypeOK
  <2> QED BY <2>1, <2>2 DEF CallsInTurn
<1>3. TakenOnce'
  BY DEF TakenOnce, HandoverTypes, H!TypeOK, H!HandlersOnce, H!Torn, H!Nobody
<1>4. H!HandlersOnce'
  BY DEF CallsInTurn, TakenOnce, Chain, HandoverTypes, H!TypeOK, H!HandlersOnce, H!Torn
<1>5. H!SessionLives' /\ (sessions \subseteq {session})'
  BY DEF TakenOnce, HandoverTypes, H!TypeOK, H!SessionLives, H!HandlersOnce
<1> QED BY <1>1, <1>2, <1>3, <1>4, <1>5

\* on_remote_desktop_dispatcher_proxy_acquired.
LEMMA OfDispatcherAcquired ==
  ASSUME Calm, HandoverInv, H!DispatcherAcquired
  PROVE  HandoverInv'
<1> USE DEF HandoverInv, H!DispatcherAcquired
<1> USE CallsAreCounted, IdleChain
<1>1. HandoverTypes'
  BY DEF HandoverTypes, H!TypeOK, H!Calls, H!Call, H!Reply
<1>2. CallsInTurn'
  BY DEF CallsInTurn, Chain, HandoverTypes, H!TypeOK, H!Calls, H!HandlersOnce, H!Call, H!Reply
<1>3. TakenOnce'
  BY DEF TakenOnce, HandoverTypes, H!TypeOK, H!HandlersOnce, H!Reply
<1>4. H!HandlersOnce'
  BY DEF CallsInTurn, TakenOnce, Chain, HandoverTypes, H!TypeOK, H!HandlersOnce, H!Reply
<1>5. H!SessionLives' /\ (sessions \subseteq {session})'
  BY DEF TakenOnce, HandoverTypes, H!TypeOK, H!SessionLives, H!HandlersOnce
<1> QED BY <1>1, <1>2, <1>3, <1>4, <1>5

\* on_remote_desktop_dispatcher_handover_requested.
LEMMA OfHandoverRequested ==
  ASSUME Calm, HandoverInv, H!HandoverRequested
  PROVE  HandoverInv'
<1> USE DEF HandoverInv, H!HandoverRequested
<1> USE CallsAreCounted, IdleChain
<1>1. HandoverTypes'
  BY DEF HandoverTypes, H!TypeOK, H!Calls, H!Call, H!Reply
<1>2. CallsInTurn'
  <2> DEFINE a == [async EXCEPT !["request"] = @ - 1]
  <2>1. /\ a["request"] = async["request"] - 1 /\ DOMAIN a = H!Calls
        /\ \A c \in H!Calls : c # "request" => a[c] = async[c]
    BY DEF H!Calls
  <2>2. async["request"] = 1 /\ async["dispatcher"] = 0 /\ async["manager"] = 0 /\ async["object"] = 0
    BY DEF CallsInTurn, Chain, H!Reply, H!Calls
  <2>3. /\ a["dispatcher"] = 0 /\ a["request"] = 0 /\ a["manager"] = 0 /\ a["object"] = 0
    BY <2>1, <2>2 DEF H!Calls
  <2>4. async' = a \/ async' = H!Call(a, "manager") \/ (bus.object /\ async' = H!Call(a, "object"))
    <3>1. async' = IF ~bus.name THEN a
                   ELSE IF bus.object THEN H!Call(a, "object")
                   ELSE IF "manager" \in proxy THEN a
                   ELSE H!Call(a, "manager")
      OBVIOUS
    <3> HIDE DEF a, H!HandoverRequested
    <3> QED BY <3>1
  <2>5. a \in [H!Calls -> Nat]
    BY DEF HandoverTypes, H!TypeOK, H!Calls, H!Reply
  <2> HIDE DEF a, H!HandoverRequested
  <2>6. Chain' <= 1 /\ (async'["object"] > 0 => bus.object)
    <3>1. CASE async' = a
      BY <2>3, <3>1 DEF Chain
    <3>2. ASSUME NEW c \in {"manager", "object"}, async' = H!Call(a, c), c = "object" => bus.object
          PROVE  Chain' <= 1 /\ (async'["object"] > 0 => bus.object)
      <4>1. \A e \in H!Calls : async'[e] = IF e = c THEN a[e] + 1 ELSE a[e]
        <5>1. c \in H!Calls
          BY CallNames
        <5> QED BY <2>5, <3>2, <5>1, CallCounts
      <4>2. CASE c = "manager"
        BY <2>3, <4>1, <4>2, CallNames DEF Chain
      <4>3. CASE c = "object"
        BY <2>3, <3>2, <4>1, <4>3, CallNames DEF Chain
      <4> QED BY <4>2, <4>3
    <3> QED BY <2>4, <3>1, <3>2
  <2> QED BY <2>2, <2>6 DEF CallsInTurn, Chain, H!HandoverRequested
<1>3. TakenOnce'
  BY DEF TakenOnce, HandoverTypes, H!TypeOK, H!HandlersOnce, H!Reply
<1>4. H!HandlersOnce'
  BY DEF CallsInTurn, TakenOnce, Chain, HandoverTypes, H!TypeOK, H!HandlersOnce, H!Reply
<1>5. H!SessionLives' /\ (sessions \subseteq {session})'
  BY DEF TakenOnce, HandoverTypes, H!TypeOK, H!SessionLives, H!HandlersOnce
<1> QED BY <1>1, <1>2, <1>3, <1>4, <1>5

\* on_remote_desktop_handover_object_manager_acquired.
LEMMA OfManagerAcquired ==
  ASSUME Calm, HandoverInv, H!ManagerAcquired
  PROVE  HandoverInv'
<1> USE DEF HandoverInv, H!ManagerAcquired
<1> USE CallsAreCounted, IdleChain
<1>1. HandoverTypes'
  BY DEF HandoverTypes, H!TypeOK, H!Calls, H!Reply
<1>2. CallsInTurn'
  BY DEF CallsInTurn, Chain, HandoverTypes, H!TypeOK, H!Calls, H!HandlersOnce, H!Reply
<1>3. TakenOnce'
  BY DEF TakenOnce, HandoverTypes, H!TypeOK, H!HandlersOnce, H!Reply
<1>4. H!HandlersOnce'
  BY DEF CallsInTurn, TakenOnce, Chain, HandoverTypes, H!TypeOK, H!HandlersOnce, H!Reply
<1>5. H!SessionLives' /\ (sessions \subseteq {session})'
  BY DEF TakenOnce, HandoverTypes, H!TypeOK, H!SessionLives, H!HandlersOnce
<1> QED BY <1>1, <1>2, <1>3, <1>4, <1>5

\* The object of the session comes to the bus.
LEMMA OfObjectAdded ==
  ASSUME Calm, HandoverInv, H!ObjectAdded
  PROVE  HandoverInv'
<1>1. PICK w \in BOOLEAN : bus' = [bus EXCEPT !.object = TRUE, !.waiting = w]
  BY DEF H!ObjectAdded
<1>2. /\ ~away /\ bus.name /\ ~bus.object /\ changes < MaxChanges /\ H!Idle
      /\ changes' = changes + 1
      /\ async' = async \/ async' = H!Call(async, "request")
      /\ UNCHANGED <<proxy, server, handlers, client, session, sessions, dialog, clients, remote, away>>
  BY DEF H!ObjectAdded
<1>3. /\ HandoverTypes /\ CallsInTurn /\ TakenOnce
      /\ H!HandlersOnce /\ H!SessionLives /\ sessions \subseteq {session}
  BY DEF HandoverInv
<1>4. bus' \in [name : BOOLEAN, object : BOOLEAN, waiting : BOOLEAN, mutter : BOOLEAN] /\ bus'.name /\ bus'.object
  BY <1>1, <1>2, <1>3 DEF HandoverTypes, H!TypeOK
<1>5. async \in [H!Calls -> Nat] /\ "request" \in H!Calls
  BY <1>3, CallNames DEF HandoverTypes, H!TypeOK
<1>6. Chain = 0 /\ async["dispatcher"] = 0 /\ async["request"] = 0 /\ async["manager"] = 0 /\ async["object"] = 0
  BY <1>2, <1>3, IdleChain
<1>7. HandoverTypes'
  <2>1. async' \in [H!Calls -> Nat]
    BY <1>2, <1>5, CallCounts
  <2> QED BY <1>2, <1>3, <1>4, <2>1 DEF HandoverTypes, H!TypeOK
<1>8. Chain' <= 1
  <2>1. CASE async' = async
    BY <1>6, <2>1 DEF Chain
  <2>2. CASE async' = H!Call(async, "request")
    <3>1. \A c \in H!Calls : async'[c] = IF c = "request" THEN async[c] + 1 ELSE async[c]
      BY <1>5, <2>2, CallCounts
    <3> QED BY <1>6, <3>1, CallNames DEF Chain
  <2> QED BY <1>2, <2>1, <2>2
<1>9. CallsInTurn'
  <2>1. "object" \notin proxy'
    BY <1>2, <1>3 DEF CallsInTurn
  <2> QED BY <1>4, <1>8, <2>1 DEF CallsInTurn
<1>10. TakenOnce' /\ H!HandlersOnce' /\ H!SessionLives' /\ (sessions \subseteq {session})'
  BY <1>2, <1>3 DEF TakenOnce, H!HandlersOnce, H!SessionLives
<1> QED BY <1>7, <1>9, <1>10 DEF HandoverInv

\* on_remote_desktop_handover_proxy_acquired.
LEMMA OfProxyAcquired ==
  ASSUME Calm, HandoverInv, H!ProxyAcquired
  PROVE  HandoverInv'
<1> USE DEF HandoverInv, H!ProxyAcquired
<1> USE CallsAreCounted, IdleChain
<1>1. HandoverTypes'
  BY DEF HandoverTypes, H!TypeOK, H!Calls, H!Reply
<1>2. CallsInTurn'
  BY DEF CallsInTurn, Chain, HandoverTypes, H!TypeOK, H!Calls, H!HandlersOnce, H!Reply
<1>3. TakenOnce'
  BY DEF TakenOnce, HandoverTypes, H!TypeOK, H!HandlersOnce, H!Reply
<1>4. H!HandlersOnce'
  BY DEF CallsInTurn, TakenOnce, Chain, HandoverTypes, H!TypeOK, H!HandlersOnce, H!Reply
<1>5. H!SessionLives' /\ (sessions \subseteq {session})'
  BY DEF TakenOnce, HandoverTypes, H!TypeOK, H!SessionLives, H!HandlersOnce
<1> QED BY <1>1, <1>2, <1>3, <1>4, <1>5

\* on_rdp_server_stopped.
LEMMA OfServerStopped ==
  ASSUME Calm, HandoverInv, H!ServerStopped
  PROVE  HandoverInv'
<1> USE DEF HandoverInv, H!ServerStopped
<1> USE CallsAreCounted, IdleChain
<1>1. HandoverTypes'
  <2>1. bus' \in [name : BOOLEAN, object : BOOLEAN, waiting : BOOLEAN, mutter : BOOLEAN]
    BY DEF HandoverTypes, H!TypeOK
  <2>2. async' \in [H!Calls -> Nat]
    BY DEF HandoverTypes, H!TypeOK
  <2>3. handlers' \in [object : Nat, server : Nat]
    BY DEF HandoverTypes, H!TypeOK, H!Torn
  <2>4. client' \in [step : {"none", "ready", "creds", "take"}, creds : BOOLEAN]
    BY DEF HandoverTypes, H!TypeOK
  <2>5. {server', remote', away'} \subseteq BOOLEAN
    BY DEF HandoverTypes, H!TypeOK, H!Ended
  <2>6. sessions' \subseteq 1 .. MaxClients /\ {session', dialog'} \subseteq 0 .. MaxClients
    BY BoundsAreNat DEF TakenOnce, HandoverTypes, H!TypeOK, H!Ended
  <2>7. {changes', clients'} \subseteq Nat /\ clients' <= MaxClients
    BY BoundsAreNat DEF HandoverTypes, H!TypeOK
  <2>8. proxy' \subseteq {"dispatcher", "object", "manager"}
    BY DEF HandoverTypes, H!TypeOK
  <2> QED BY <2>1, <2>2, <2>3, <2>4, <2>5, <2>6, <2>7, <2>8, HandoverTypesFrom
<1>2. CallsInTurn'
  BY DEF CallsInTurn, Chain, HandoverTypes, H!TypeOK, H!Calls, H!HandlersOnce
<1>3. TakenOnce'
  BY DEF TakenOnce, HandoverTypes, H!TypeOK, H!HandlersOnce, H!Torn, H!Ended
<1>4. H!HandlersOnce'
  BY DEF CallsInTurn, TakenOnce, Chain, HandoverTypes, H!TypeOK, H!HandlersOnce, H!Torn
<1>5. H!SessionLives' /\ (sessions \subseteq {session})'
  BY DEF TakenOnce, HandoverTypes, H!TypeOK, H!SessionLives, H!HandlersOnce, H!Ended
<1> QED BY <1>1, <1>2, <1>3, <1>4, <1>5

\* on_rdp_server_started.
LEMMA OfServerStarted ==
  ASSUME Calm, HandoverInv, H!ServerStarted
  PROVE  HandoverInv'
<1> USE DEF HandoverInv, H!ServerStarted
<1> USE CallsAreCounted, IdleChain
<1>1. HandoverTypes'
  <2>1. bus' \in [name : BOOLEAN, object : BOOLEAN, waiting : BOOLEAN, mutter : BOOLEAN]
    BY DEF HandoverTypes, H!TypeOK
  <2>2. async' \in [H!Calls -> Nat]
    <3>1. async' = async \/ async' = H!Call(async, "start")
      BY DEF H!Setup
    <3> QED BY <3>1 DEF HandoverTypes, H!TypeOK, H!Call
  <2>3. handlers' \in [object : Nat, server : Nat]
    BY DEF HandoverTypes, H!TypeOK, H!Setup
  <2>4. client' \in [step : {"none", "ready", "creds", "take"}, creds : BOOLEAN]
    BY DEF HandoverTypes, H!TypeOK
  <2>5. {server', remote', away'} \subseteq BOOLEAN
    BY DEF HandoverTypes, H!TypeOK
  <2>6. sessions' \subseteq 1 .. MaxClients /\ {session', dialog'} \subseteq 0 .. MaxClients
    BY BoundsAreNat DEF TakenOnce, HandoverTypes, H!TypeOK
  <2>7. {changes', clients'} \subseteq Nat /\ clients' <= MaxClients
    BY BoundsAreNat DEF HandoverTypes, H!TypeOK
  <2>8. proxy' \subseteq {"dispatcher", "object", "manager"}
    BY DEF HandoverTypes, H!TypeOK
  <2> QED BY <2>1, <2>2, <2>3, <2>4, <2>5, <2>6, <2>7, <2>8, HandoverTypesFrom
<1>2. CallsInTurn'
  <2>1. async' = async \/ async' = H!Call(async, "start")
    BY DEF H!Setup
  <2>2. Chain' = Chain /\ async'["object"] = async["object"]
    BY <2>1 DEF H!Call, H!Calls, Chain
  <2>3. bus'.name = bus.name /\ bus'.object = bus.object
    BY DEF HandoverTypes, H!TypeOK
  <2> QED BY <2>2, <2>3 DEF CallsInTurn
<1>3. TakenOnce'
  BY DEF TakenOnce, HandoverTypes, H!TypeOK, H!HandlersOnce
<1>4. H!HandlersOnce'
  BY DEF CallsInTurn, TakenOnce, Chain, HandoverTypes, H!TypeOK, H!HandlersOnce, H!Setup
<1>5. H!SessionLives' /\ (sessions \subseteq {session})'
  BY DEF TakenOnce, HandoverTypes, H!TypeOK, H!SessionLives, H!HandlersOnce
<1> QED BY <1>1, <1>2, <1>3, <1>4, <1>5

\* The system daemon says that a handover waits.
LEMMA OfHandoverIsWaiting ==
  ASSUME Calm, HandoverInv, H!HandoverIsWaiting
  PROVE  HandoverInv'
<1> USE DEF HandoverInv, H!HandoverIsWaiting
<1> USE CallsAreCounted, IdleChain
<1>1. HandoverTypes'
  <2>1. bus' \in [name : BOOLEAN, object : BOOLEAN, waiting : BOOLEAN, mutter : BOOLEAN]
    BY DEF HandoverTypes, H!TypeOK
  <2>2. async' \in [H!Calls -> Nat]
    BY DEF HandoverTypes, H!TypeOK
  <2>3. handlers' \in [object : Nat, server : Nat]
    BY DEF HandoverTypes, H!TypeOK
  <2>4. client' \in [step : {"none", "ready", "creds", "take"}, creds : BOOLEAN]
    BY DEF HandoverTypes, H!TypeOK
  <2>5. {server', remote', away'} \subseteq BOOLEAN
    BY DEF HandoverTypes, H!TypeOK
  <2>6. sessions' \subseteq 1 .. MaxClients /\ {session', dialog'} \subseteq 0 .. MaxClients
    BY BoundsAreNat DEF TakenOnce, HandoverTypes, H!TypeOK
  <2>7. {changes', clients'} \subseteq Nat /\ clients' <= MaxClients
    BY BoundsAreNat DEF HandoverTypes, H!TypeOK
  <2>8. proxy' \subseteq {"dispatcher", "object", "manager"}
    BY DEF HandoverTypes, H!TypeOK
  <2> QED BY <2>1, <2>2, <2>3, <2>4, <2>5, <2>6, <2>7, <2>8, HandoverTypesFrom
<1>2. CallsInTurn'
  BY DEF CallsInTurn, Chain, HandoverTypes, H!TypeOK, H!Calls, H!HandlersOnce
<1>3. TakenOnce'
  BY DEF TakenOnce, HandoverTypes, H!TypeOK, H!HandlersOnce
<1>4. H!HandlersOnce'
  BY DEF CallsInTurn, TakenOnce, Chain, HandoverTypes, H!TypeOK, H!HandlersOnce
<1>5. H!SessionLives' /\ (sessions \subseteq {session})'
  BY DEF TakenOnce, HandoverTypes, H!TypeOK, H!SessionLives, H!HandlersOnce
<1> QED BY <1>1, <1>2, <1>3, <1>4, <1>5

\* on_start_handover_finished.
LEMMA OfHandoverStarted ==
  ASSUME Calm, HandoverInv, H!HandoverStarted
  PROVE  HandoverInv'
<1> USE DEF HandoverInv, H!HandoverStarted
<1> USE CallsAreCounted, IdleChain
<1>1. HandoverTypes'
  <2>1. bus' \in [name : BOOLEAN, object : BOOLEAN, waiting : BOOLEAN, mutter : BOOLEAN]
    BY DEF HandoverTypes, H!TypeOK
  <2>2. async' \in [H!Calls -> Nat]
    BY DEF HandoverTypes, H!TypeOK, H!Reply
  <2>3. handlers' \in [object : Nat, server : Nat]
    BY DEF HandoverTypes, H!TypeOK
  <2>4. client' \in [step : {"none", "ready", "creds", "take"}, creds : BOOLEAN]
    BY DEF HandoverTypes, H!TypeOK
  <2>5. {server', remote', away'} \subseteq BOOLEAN
    BY DEF HandoverTypes, H!TypeOK
  <2>6. sessions' \subseteq 1 .. MaxClients /\ {session', dialog'} \subseteq 0 .. MaxClients
    BY BoundsAreNat DEF TakenOnce, HandoverTypes, H!TypeOK
  <2>7. {changes', clients'} \subseteq Nat /\ clients' <= MaxClients
    BY BoundsAreNat DEF HandoverTypes, H!TypeOK
  <2>8. proxy' \subseteq {"dispatcher", "object", "manager"}
    BY DEF HandoverTypes, H!TypeOK
  <2> QED BY <2>1, <2>2, <2>3, <2>4, <2>5, <2>6, <2>7, <2>8, HandoverTypesFrom
<1>2. CallsInTurn'
  BY DEF CallsInTurn, Chain, HandoverTypes, H!TypeOK, H!Calls, H!HandlersOnce, H!Reply
<1>3. TakenOnce'
  <2>1. CASE clients' = clients /\ client' = client
    BY <2>1 DEF TakenOnce
  <2>2. CASE clients' = clients + 1 /\ client'.step = "ready"
    BY <2>2 DEF TakenOnce, HandoverTypes, H!TypeOK
  <2> QED BY <2>1, <2>2
<1>4. H!HandlersOnce'
  BY DEF CallsInTurn, TakenOnce, Chain, HandoverTypes, H!TypeOK, H!HandlersOnce, H!Reply
<1>5. H!SessionLives' /\ (sessions \subseteq {session})'
  BY DEF TakenOnce, HandoverTypes, H!TypeOK, H!SessionLives, H!HandlersOnce
<1> QED BY <1>1, <1>2, <1>3, <1>4, <1>5

\* on_take_client_ready.
LEMMA OfTakeClientReady ==
  ASSUME Calm, HandoverInv, H!TakeClientReady
  PROVE  HandoverInv'
<1> USE DEF HandoverInv, H!TakeClientReady
<1> USE CallsAreCounted, IdleChain
<1>1. HandoverTypes'
  BY DEF HandoverTypes, H!TypeOK, H!Calls, H!Nobody
<1>2. CallsInTurn'
  BY DEF CallsInTurn, Chain, HandoverTypes, H!TypeOK, H!Calls, H!HandlersOnce
<1>3. TakenOnce'
  BY DEF TakenOnce, HandoverTypes, H!TypeOK, H!HandlersOnce, H!Nobody
<1>4. H!HandlersOnce'
  BY DEF CallsInTurn, TakenOnce, Chain, HandoverTypes, H!TypeOK, H!HandlersOnce
<1>5. H!SessionLives' /\ (sessions \subseteq {session})'
  BY DEF TakenOnce, HandoverTypes, H!TypeOK, H!SessionLives, H!HandlersOnce
<1> QED BY <1>1, <1>2, <1>3, <1>4, <1>5

\* on_get_system_credentials_finished.
LEMMA OfGetSystemCredentialsFinished ==
  ASSUME Calm, HandoverInv, H!GetSystemCredentialsFinished
  PROVE  HandoverInv'
<1> USE DEF HandoverInv, H!GetSystemCredentialsFinished
<1> USE CallsAreCounted, IdleChain
<1>1. HandoverTypes'
  BY DEF HandoverTypes, H!TypeOK, H!Calls
<1>2. CallsInTurn'
  BY DEF CallsInTurn, Chain, HandoverTypes, H!TypeOK, H!Calls, H!HandlersOnce
<1>3. TakenOnce'
  BY DEF TakenOnce, HandoverTypes, H!TypeOK, H!HandlersOnce
<1>4. H!HandlersOnce'
  BY DEF CallsInTurn, TakenOnce, Chain, HandoverTypes, H!TypeOK, H!HandlersOnce
<1>5. H!SessionLives' /\ (sessions \subseteq {session})'
  BY DEF TakenOnce, HandoverTypes, H!TypeOK, H!SessionLives, H!HandlersOnce
<1> QED BY <1>1, <1>2, <1>3, <1>4, <1>5

\* on_take_client_finished, with the session of the client before it.
LEMMA OfTakeClientFinished ==
  ASSUME Calm, HandoverInv, H!TakeClientFinished
  PROVE  HandoverInv'
<1> USE DEF HandoverInv, H!TakeClientFinished
<1> USE CallsAreCounted, IdleChain
<1>1. HandoverTypes'
  <2>1. bus' \in [name : BOOLEAN, object : BOOLEAN, waiting : BOOLEAN, mutter : BOOLEAN]
    BY DEF HandoverTypes, H!TypeOK
  <2>2. async' \in [H!Calls -> Nat]
    BY DEF HandoverTypes, H!TypeOK
  <2>3. handlers' \in [object : Nat, server : Nat]
    BY DEF HandoverTypes, H!TypeOK
  <2>4. client' \in [step : {"none", "ready", "creds", "take"}, creds : BOOLEAN]
    BY DEF HandoverTypes, H!TypeOK, H!Nobody
  <2>5. {server', remote', away'} \subseteq BOOLEAN
    BY DEF HandoverTypes, H!TypeOK
  <2>6. sessions' \subseteq 1 .. MaxClients /\ {session', dialog'} \subseteq 0 .. MaxClients
    BY BoundsAreNat DEF TakenOnce, HandoverTypes, H!TypeOK, H!Incoming
  <2>7. {changes', clients'} \subseteq Nat /\ clients' <= MaxClients
    BY BoundsAreNat DEF HandoverTypes, H!TypeOK
  <2>8. proxy' \subseteq {"dispatcher", "object", "manager"}
    BY DEF HandoverTypes, H!TypeOK
  <2> QED BY <2>1, <2>2, <2>3, <2>4, <2>5, <2>6, <2>7, <2>8, HandoverTypesFrom
<1>2. CallsInTurn'
  BY DEF CallsInTurn, Chain, HandoverTypes, H!TypeOK, H!Calls, H!HandlersOnce
<1>3. TakenOnce'
  BY DEF TakenOnce, HandoverTypes, H!TypeOK, H!HandlersOnce, H!Incoming, H!Nobody
<1>4. H!HandlersOnce'
  BY DEF CallsInTurn, TakenOnce, Chain, HandoverTypes, H!TypeOK, H!HandlersOnce
<1>5. H!SessionLives' /\ (sessions \subseteq {session})'
  BY DEF TakenOnce, HandoverTypes, H!TypeOK, H!SessionLives, H!HandlersOnce, H!Incoming
<1> QED BY <1>1, <1>2, <1>3, <1>4, <1>5

\* A client leaves.
LEMMA OfClientLeaves ==
  ASSUME Calm, HandoverInv, H!ClientLeaves
  PROVE  HandoverInv'
<1> USE DEF HandoverInv, H!ClientLeaves
<1> USE CallsAreCounted, IdleChain
<1>1. HandoverTypes'
  <2>1. bus' \in [name : BOOLEAN, object : BOOLEAN, waiting : BOOLEAN, mutter : BOOLEAN]
    BY DEF HandoverTypes, H!TypeOK
  <2>2. async' \in [H!Calls -> Nat]
    BY DEF HandoverTypes, H!TypeOK
  <2>3. handlers' \in [object : Nat, server : Nat]
    BY DEF HandoverTypes, H!TypeOK
  <2>4. client' \in [step : {"none", "ready", "creds", "take"}, creds : BOOLEAN]
    BY DEF HandoverTypes, H!TypeOK
  <2>5. {server', remote', away'} \subseteq BOOLEAN
    BY DEF HandoverTypes, H!TypeOK, H!Ended
  <2>6. sessions' \subseteq 1 .. MaxClients /\ {session', dialog'} \subseteq 0 .. MaxClients
    BY BoundsAreNat DEF TakenOnce, HandoverTypes, H!TypeOK, H!Ended
  <2>7. {changes', clients'} \subseteq Nat /\ clients' <= MaxClients
    BY BoundsAreNat DEF HandoverTypes, H!TypeOK
  <2>8. proxy' \subseteq {"dispatcher", "object", "manager"}
    BY DEF HandoverTypes, H!TypeOK
  <2> QED BY <2>1, <2>2, <2>3, <2>4, <2>5, <2>6, <2>7, <2>8, HandoverTypesFrom
<1>2. CallsInTurn'
  BY DEF CallsInTurn, Chain, HandoverTypes, H!TypeOK, H!Calls, H!HandlersOnce
<1>3. TakenOnce'
  BY DEF TakenOnce, HandoverTypes, H!TypeOK, H!HandlersOnce, H!Ended
<1>4. H!HandlersOnce'
  BY DEF CallsInTurn, TakenOnce, Chain, HandoverTypes, H!TypeOK, H!HandlersOnce
<1>5. H!SessionLives' /\ (sessions \subseteq {session})'
  BY DEF TakenOnce, HandoverTypes, H!TypeOK, H!SessionLives, H!HandlersOnce, H!Ended
<1> QED BY <1>1, <1>2, <1>3, <1>4, <1>5

\* The dialog about an insecure connection is cancelled.
LEMMA OfDialogCancelled ==
  ASSUME Calm, HandoverInv, H!DialogCancelled
  PROVE  HandoverInv'
<1> USE DEF HandoverInv, H!DialogCancelled
<1> USE CallsAreCounted, IdleChain
<1>1. HandoverTypes'
  <2>1. bus' \in [name : BOOLEAN, object : BOOLEAN, waiting : BOOLEAN, mutter : BOOLEAN]
    BY DEF HandoverTypes, H!TypeOK
  <2>2. async' \in [H!Calls -> Nat]
    BY DEF HandoverTypes, H!TypeOK
  <2>3. handlers' \in [object : Nat, server : Nat]
    BY DEF HandoverTypes, H!TypeOK
  <2>4. client' \in [step : {"none", "ready", "creds", "take"}, creds : BOOLEAN]
    BY DEF HandoverTypes, H!TypeOK
  <2>5. {server', remote', away'} \subseteq BOOLEAN
    BY DEF HandoverTypes, H!TypeOK, H!Ended
  <2>6. sessions' \subseteq 1 .. MaxClients /\ {session', dialog'} \subseteq 0 .. MaxClients
    BY BoundsAreNat DEF TakenOnce, HandoverTypes, H!TypeOK, H!Ended
  <2>7. {changes', clients'} \subseteq Nat /\ clients' <= MaxClients
    BY BoundsAreNat DEF HandoverTypes, H!TypeOK
  <2>8. proxy' \subseteq {"dispatcher", "object", "manager"}
    BY DEF HandoverTypes, H!TypeOK
  <2> QED BY <2>1, <2>2, <2>3, <2>4, <2>5, <2>6, <2>7, <2>8, HandoverTypesFrom
<1>2. CallsInTurn'
  BY DEF CallsInTurn, Chain, HandoverTypes, H!TypeOK, H!Calls, H!HandlersOnce
<1>3. TakenOnce'
  BY DEF TakenOnce, HandoverTypes, H!TypeOK, H!HandlersOnce, H!Ended
<1>4. H!HandlersOnce'
  BY DEF CallsInTurn, TakenOnce, Chain, HandoverTypes, H!TypeOK, H!HandlersOnce
<1>5. H!SessionLives' /\ (sessions \subseteq {session})'
  BY DEF TakenOnce, HandoverTypes, H!TypeOK, H!SessionLives, H!HandlersOnce, H!Ended
<1> QED BY <1>1, <1>2, <1>3, <1>4, <1>5

\* The steps of the handover daemon keep its invariant.
LEMMA HandoverStep ==
  ASSUME Calm, HandoverInv, H!Next
  PROVE  HandoverInv'
BY OfNameAppeared, OfNameVanished, OfDispatcherAcquired, OfHandoverRequested, OfManagerAcquired,
   OfObjectAdded, OfProxyAcquired, OfServerStopped, OfServerStarted, OfHandoverIsWaiting,
   OfHandoverStarted, OfTakeClientReady, OfGetSystemCredentialsFinished, OfTakeClientFinished,
   OfClientLeaves, OfDialogCancelled DEF H!Next

\* The other parts of the daemons do not disturb it.
LEMMA HandoverStutters ==
  ASSUME HandoverInv, UNCHANGED handoverVars
  PROVE  HandoverInv'
BY DEF HandoverInv, handoverVars, HandoverTypes, H!TypeOK, CallsInTurn, Chain, TakenOnce,
       H!HandlersOnce, H!SessionLives

-----------------------------------------------------------------------------
(* The servers of the daemons. *)

Flags == {"ready", "restart", "watch", "seen", "proxy", "iface", "leaked", "binding", "new",
          "gone", "failed", "late"}
Heard == {"new", "iface", "leaked"}
PromptFlags == {"stopped", "started", "shown"}
RdpType ==
  [on : BOOLEAN, port : {"none", "default", "next"}, attempts : 0 .. MaxAttempts,
   session : {"none", "announced", "unheard"}]
StateType ==
  [rdp : RdpType, vnc : BOOLEAN, pending : SUBSET Flags, prompt : SUBSET PromptFlags,
   signal : SUBSET {"binding"}]

ServiceTypes ==
  /\ mode \in S!Modes /\ proxies \in [S!Daemons -> BOOLEAN] /\ vnc \in [S!Daemons -> BOOLEAN]
  /\ settings \in [S!Daemons -> SUBSET {"rdp", "vnc", "certificate", "negotiate"}]
  /\ rdp \in [S!Daemons -> RdpType] /\ pending \in [S!Daemons -> SUBSET Flags]
  /\ prompt \subseteq PromptFlags
  /\ events \in Nat /\ logins \in Nat

\* A server that does not run has no port, attempt or session, watches nobody, and has a
\* proxy only if that came late; so does one that has lost a proxy.
OffIsOff(r, p) ==
  /\ ~r.on => /\ r = S!Off /\ p \cap {"watch", "seen", "gone"} = {}
              /\ "iface" \in p => "late" \in p
  /\ "leaked" \in p => "late" \in p

\* A daemon without its proxies has no servers, but for the system daemon, which has no VNC
\* server and announces no session.
NoServerWithoutProxies(d) == ~proxies[d] => (rdp[d].on => d = "system") /\ ~vnc[d]
SystemDaemon == "vnc" \notin settings["system"] /\ ~vnc["system"] /\ rdp["system"].session = "none"

\* Of two sessions that were announced, a server listens that has not heard yet.
IsToHear(d) == "new" \in pending[d] /\ S!Hears(d)
SomebodyHears == \A d \in S!Daemons :
  rdp[d].session = "announced" /\ rdp[S!Other(d)].session = "announced" =>
    IsToHear(d) \/ IsToHear(S!Other(d))

ServiceInv ==
  /\ ServiceTypes /\ SystemDaemon
  /\ \A d \in S!Daemons : OffIsOff(rdp[d], pending[d]) /\ NoServerWithoutProxies(d)
  /\ SomebodyHears

\* The daemons come in two pairs.
LEMMA Pairs ==
  /\ S!Daemons = {"screen-share", "system", "headless", "handover"}
  /\ S!Other("screen-share") = "system" /\ S!Other("system") = "screen-share"
  /\ S!Other("headless") = "handover" /\ S!Other("handover") = "headless"
  /\ \A d \in S!Daemons : S!Other(d) \in S!Daemons /\ S!Other(d) # d /\ S!Other(S!Other(d)) = d
<1>1. S!Daemons = {"screen-share", "system", "headless", "handover"}
  BY DEF S!Daemons, S!Modes
<1>2. ASSUME NEW d, NEW e \in S!Daemons
      PROVE  {d, e} \in S!Modes /\ d # e <=>
               <<d, e>> \in {<<"screen-share", "system">>, <<"system", "screen-share">>,
                             <<"headless", "handover">>, <<"handover", "headless">>}
  BY <1>1 DEF S!Modes
<1>3. S!Other("screen-share") = "system"
  BY <1>1, <1>2 DEF S!Other
<1>4. S!Other("system") = "screen-share"
  BY <1>1, <1>2 DEF S!Other
<1>5. S!Other("headless") = "handover"
  BY <1>1, <1>2 DEF S!Other
<1>6. S!Other("handover") = "headless"
  BY <1>1, <1>2 DEF S!Other
<1> QED BY <1>1, <1>3, <1>4, <1>5, <1>6

\* A stopped server has the type of a server.
LEMMA OffTyped == S!Off \in RdpType
BY BoundsAreNat DEF S!Off, RdpType

\* No server runs in the beginning.
LEMMA ServiceInit == S!Init => ServiceInv
<1> SUFFICES ASSUME S!Init
             PROVE  ServiceInv
  OBVIOUS
<1>1. \A d \in S!Daemons : rdp[d] = S!Off /\ pending[d] = {} /\ ~vnc[d]
  BY DEF S!Init
<1>2. ServiceTypes
  <2>1. PICK certificate \in SUBSET {"certificate"} :
          settings = [d \in S!Daemons |-> {"rdp", "negotiate"} \cup certificate]
    BY DEF S!Init
  <2>2. settings \in [S!Daemons -> SUBSET {"rdp", "vnc", "certificate", "negotiate"}]
    BY <2>1
  <2>3. rdp \in [S!Daemons -> RdpType]
    BY OffTyped DEF S!Init
  <2> QED BY <2>2, <2>3 DEF S!Init, ServiceTypes
<1>3. S!Off.on = FALSE /\ S!Off.session = "none"
  BY DEF S!Off
<1>4. \A d \in S!Daemons : OffIsOff(rdp[d], pending[d]) /\ NoServerWithoutProxies(d)
  BY <1>1, <1>3 DEF OffIsOff, NoServerWithoutProxies
<1>5. SomebodyHears
  BY <1>1, <1>3 DEF SomebodyHears
<1>6. SystemDaemon
  BY <1>1, <1>3, Pairs DEF S!Init, SystemDaemon
<1> QED BY <1>2, <1>4, <1>5, <1>6 DEF ServiceInv

\* What the functions that start and stop keep true of the state of a daemon.
Keeps(d, s) ==
  /\ s \in StateType /\ OffIsOff(s.rdp, s.pending)
  /\ s.rdp.session \in {"none", rdp[d].session}
  /\ s.rdp.session # "none" => pending[d] \cap Heard \subseteq s.pending

\* The state that a handler starts from has its types.
LEMMA StateKeeps ==
  ASSUME ServiceInv, NEW d \in S!Daemons
  PROVE  Keeps(d, S!State(d))
BY DEF ServiceInv, ServiceTypes, Keeps, StateType, S!State

\* What is pending changes.
LEMMA PendingKeeps ==
  ASSUME NEW d, NEW s, Keeps(d, s), NEW p \in SUBSET Flags, OffIsOff(s.rdp, p),
         s.pending \cap Heard \subseteq p
  PROVE  /\ Keeps(d, [s EXCEPT !.pending = p]) /\ [s EXCEPT !.pending = p].rdp = s.rdp
         /\ [s EXCEPT !.pending = p].vnc = s.vnc /\ [s EXCEPT !.pending = p].pending = p
<1>1. s \in StateType
  BY DEF Keeps
<1>2. PICK t : t = [s EXCEPT !.pending = p]
  OBVIOUS
<1>3. t \in StateType /\ t.rdp = s.rdp /\ t.vnc = s.vnc /\ t.pending = p
  BY <1>1, <1>2 DEF StateType
<1> QED BY <1>2, <1>3 DEF Keeps

\* A server that is stopped.
LEMMA StopKeeps ==
  ASSUME NEW d, NEW s, Keeps(d, s)
  PROVE  /\ Keeps(d, S!StopRdp(d, s)) /\ ~S!StopRdp(d, s).rdp.on
         /\ S!StopRdp(d, s).vnc = s.vnc /\ S!StopRdp(d, s).pending \subseteq s.pending
<1>1. CASE ~s.rdp.on
  <2>1. S!StopRdp(d, s) = [s EXCEPT !.pending = @ \ {"ready"}]
    BY <1>1 DEF S!StopRdp
  <2>2. PICK p : p = s.pending \ {"ready"}
    OBVIOUS
  <2>3. p \in SUBSET Flags /\ OffIsOff(s.rdp, p) /\ s.pending \cap Heard \subseteq p
    BY <2>2 DEF Keeps, StateType, OffIsOff, Heard
  <2>4. PICK t : t = [s EXCEPT !.pending = p]
    OBVIOUS
  <2>5. Keeps(d, t) /\ t.rdp = s.rdp /\ t.vnc = s.vnc /\ t.pending = p
    BY <2>3, <2>4, PendingKeeps
  <2>6. S!StopRdp(d, s) = t
    BY <2>1, <2>2, <2>4
  <2> QED BY <1>1, <2>2, <2>5, <2>6
<1>2. CASE s.rdp.on
  <2>1. PICK p \in SUBSET PromptFlags :
          p = IF d = "screen-share" /\ "stopped" \in s.prompt THEN s.prompt \ {"stopped", "shown"}
              ELSE s.prompt
    BY DEF Keeps, StateType
  <2>2. PICK q \in SUBSET Flags : q = s.pending \ {"ready", "watch", "seen", "gone", "iface", "restart"}
    BY DEF Keeps, StateType
  <2>3. S!StopRdp(d, s) = [s EXCEPT !.rdp = S!Off, !.pending = q, !.prompt = p]
    BY <1>2, <2>1, <2>2 DEF S!StopRdp
  <2>4. [s EXCEPT !.rdp = S!Off, !.pending = q, !.prompt = p] \in StateType
    BY OffTyped DEF Keeps, StateType
  <2>5. ~S!Off.on /\ S!Off.session = "none"
    BY DEF S!Off
  <2>6. /\ S!StopRdp(d, s).rdp = S!Off /\ S!StopRdp(d, s).pending = q
        /\ S!StopRdp(d, s).vnc = s.vnc
    BY <2>3 DEF Keeps, StateType
  <2> QED BY <2>2, <2>3, <2>4, <2>5, <2>6 DEF Keeps, OffIsOff
<1> QED BY <1>1, <1>2

\* A server that has looked for a port.
LEMMA BoundTyped ==
  ASSUME NEW d
  PROVE  /\ S!Bound(d) \in RdpType /\ S!Bound(d).session = "none"
         /\ S!Bound(d).on \/ S!Bound(d) = S!Off
<1>1. /\ [S!Off EXCEPT !.on = TRUE] \in RdpType
      /\ [S!Off EXCEPT !.on = TRUE, !.port = "default"] \in RdpType
      /\ [S!Off EXCEPT !.on = TRUE, !.port = "next"] \in RdpType
      /\ [S!Off EXCEPT !.on = TRUE, !.attempts = MaxAttempts] \in RdpType
  <2>1. 0 \in 0 .. MaxAttempts /\ MaxAttempts \in 0 .. MaxAttempts
    BY BoundsAreNat
  <2>2. S!Off = [on |-> FALSE, port |-> "none", attempts |-> 0, session |-> "none"]
    BY DEF S!Off
  <2> QED BY <2>1, <2>2 DEF RdpType
<1>2. /\ [S!Off EXCEPT !.on = TRUE].on
      /\ [S!Off EXCEPT !.on = TRUE, !.port = "default"].on
      /\ [S!Off EXCEPT !.on = TRUE, !.port = "next"].on
      /\ [S!Off EXCEPT !.on = TRUE, !.attempts = MaxAttempts].on
  BY DEF S!Off
<1>3. /\ [S!Off EXCEPT !.on = TRUE].session = "none"
      /\ [S!Off EXCEPT !.on = TRUE, !.port = "default"].session = "none"
      /\ [S!Off EXCEPT !.on = TRUE, !.port = "next"].session = "none"
      /\ [S!Off EXCEPT !.on = TRUE, !.attempts = MaxAttempts].session = "none"
      /\ S!Off.session = "none"
  BY DEF S!Off
<1> QED BY <1>1, <1>2, <1>3, OffTyped DEF S!Bound

\* A server that is started, or not.
LEMMA StartKeeps ==
  ASSUME NEW d, NEW s, Keeps(d, s), ~s.rdp.on
  PROVE  /\ Keeps(d, S!StartRdp(d, s)) /\ S!StartRdp(d, s).vnc = s.vnc
<1>1. PICK b : b = S!Bound(d)
  OBVIOUS
<1>2. b \in RdpType /\ b.session = "none" /\ (b.on \/ b = S!Off)
  BY <1>1, BoundTyped
<1>3. PICK p \in SUBSET PromptFlags :
        p = IF b.on /\ d = "screen-share" /\ "started" \in s.prompt
            THEN (s.prompt \ {"started"}) \cup {"shown"} ELSE s.prompt
  BY DEF Keeps, StateType, PromptFlags
<1>4. PICK q \in SUBSET Flags :
        q = IF b.on THEN (s.pending \ {"failed"}) \cup
                           IF d \in {"headless", "handover"} THEN {"watch"} ELSE {}
            ELSE (s.pending \ {"ready"}) \cup {"failed"}
  BY DEF Keeps, StateType, Flags
<1>5. PICK g \in SUBSET {"binding"} : g = IF d = "handover" THEN s.signal ELSE s.signal \cup {"binding"}
  BY DEF Keeps, StateType
<1>6. S!StartRdp(d, s) = [s EXCEPT !.rdp = b, !.signal = g, !.pending = q, !.prompt = p]
  BY <1>1, <1>3, <1>4, <1>5 DEF S!StartRdp
<1>7. [s EXCEPT !.rdp = b, !.signal = g, !.pending = q, !.prompt = p] \in StateType
  BY <1>2 DEF Keeps, StateType
<1>8. /\ S!StartRdp(d, s).rdp = b /\ S!StartRdp(d, s).pending = q /\ S!StartRdp(d, s).vnc = s.vnc
  BY <1>6 DEF Keeps, StateType
<1>9. OffIsOff(b, q)
  BY <1>2, <1>4 DEF OffIsOff, Keeps
<1> QED BY <1>2, <1>6, <1>7, <1>8, <1>9 DEF Keeps

\* The servers of a daemon, started as far as its settings and proxies allow.
LEMMA MaybeStartKeeps ==
  ASSUME NEW d, NEW s, Keeps(d, s)
  PROVE  /\ Keeps(d, S!MaybeStartRdp(d, s)) /\ S!MaybeStartRdp(d, s).vnc = s.vnc
         /\ S!MaybeStartRdp(d, s).rdp.on => s.rdp.on \/ proxies'[d]
<1>1. CASE S!MaybeStartRdp(d, s) = s
  BY <1>1
<1>2. CASE S!MaybeStartRdp(d, s) = S!StartRdp(d, s) /\ ~s.rdp.on /\ proxies'[d]
  BY <1>2, StartKeeps
<1>3. CASE S!MaybeStartRdp(d, s) = [s EXCEPT !.pending = @ \cup {"ready"}]
  BY <1>3 DEF Keeps, StateType, OffIsOff, Flags
<1> QED BY <1>1, <1>2, <1>3 DEF S!MaybeStartRdp

\* A daemon's step keeps the invariant if its new state does.
LEMMA BecomeKeeps ==
  ASSUME ServiceInv, NEW d \in S!Daemons, NEW s, Keeps(d, s), S!Become(d, s),
         UNCHANGED mode, proxies' \in [S!Daemons -> BOOLEAN],
         settings' \in [S!Daemons -> SUBSET {"rdp", "vnc", "certificate", "negotiate"}],
         events' \in Nat, logins' \in Nat,
         \A e \in S!Daemons : e # d => proxies'[e] = proxies[e],
         proxies'[d] \/ ((s.rdp.on => d = "system") /\ ~s.vnc),
         d = "system" => ~s.vnc, "vnc" \notin settings'["system"]
  PROVE  ServiceInv'
<1>1. s \in StateType
  BY DEF Keeps
<1>2. S!Other(d) \in S!Daemons /\ S!Other(d) # d
  BY Pairs
<1>3. /\ rdp' = [rdp EXCEPT ![d] = s.rdp] /\ vnc' = [vnc EXCEPT ![d] = s.vnc]
      /\ pending' = [pending EXCEPT ![d] = s.pending, ![S!Other(d)] = @ \cup s.signal]
      /\ prompt' = s.prompt
  BY DEF S!Become
<1>4. /\ rdp'[d] = s.rdp /\ vnc'[d] = s.vnc /\ pending'[d] = s.pending
      /\ \A e \in S!Daemons : e # d =>
           rdp'[e] = rdp[e] /\ vnc'[e] = vnc[e] /\ pending'[e] \subseteq pending[e] \cup {"binding"}
                            /\ pending[e] \subseteq pending'[e]
  BY <1>1, <1>2, <1>3 DEF ServiceInv, ServiceTypes, StateType
<1>5. ServiceTypes'
  <2>1. rdp' \in [S!Daemons -> RdpType] /\ vnc' \in [S!Daemons -> BOOLEAN]
    BY <1>1, <1>3 DEF ServiceInv, ServiceTypes, StateType
  <2>2. pending' \in [S!Daemons -> SUBSET Flags]
    BY <1>1, <1>2, <1>3 DEF ServiceInv, ServiceTypes, StateType, Flags
  <2>3. prompt' \subseteq PromptFlags
    BY <1>1, <1>3 DEF StateType
  <2> QED BY <2>1, <2>2, <2>3 DEF ServiceInv, ServiceTypes
<1>6. ASSUME NEW e \in S!Daemons
      PROVE  OffIsOff(rdp[e], pending[e])' /\ NoServerWithoutProxies(e)'
  <2>1. CASE e = d
    BY <1>4, <2>1 DEF Keeps, OffIsOff, NoServerWithoutProxies
  <2>2. CASE e # d
    BY <1>4, <2>2 DEF ServiceInv, OffIsOff, NoServerWithoutProxies
  <2> QED BY <2>1, <2>2
<1>8. SystemDaemon'
  BY <1>4, Pairs DEF Keeps, ServiceInv, SystemDaemon
<1>7. SomebodyHears'
  <2> SUFFICES ASSUME NEW e \in S!Daemons,
                      rdp'[e].session = "announced", rdp'[S!Other(e)].session = "announced"
               PROVE  IsToHear(e)' \/ IsToHear(S!Other(e))'
    BY DEF SomebodyHears
  <2>1. S!Other(e) \in S!Daemons
    BY Pairs
  <2>2. rdp[e].session = "announced" /\ rdp[S!Other(e)].session = "announced"
    BY <1>4, <2>1 DEF Keeps
  <2>3. IsToHear(e) \/ IsToHear(S!Other(e))
    BY <2>2 DEF ServiceInv, SomebodyHears
  <2>4. \A f \in {e, S!Other(e)} : pending[f] \cap Heard \subseteq pending'[f]
    BY <1>4, <2>1 DEF Keeps
  <2> QED BY <2>3, <2>4 DEF IsToHear, S!Hears, Heard
<1> QED BY <1>5, <1>6, <1>7, <1>8 DEF ServiceInv

\* The proxies of a daemon come and go.
LEMMA OfServiceProxies ==
  ASSUME ServiceInv, NEW d \in S!Daemons, S!ProxyAcquired(d) \/ S!NameVanished(d)
  PROVE  ServiceInv'
<1>1. /\ UNCHANGED mode /\ settings' = settings /\ logins' = logins /\ events' = events + 1
  BY DEF S!ProxyAcquired, S!NameVanished
<1>2. /\ settings' \in [S!Daemons -> SUBSET {"rdp", "vnc", "certificate", "negotiate"}]
      /\ events' \in Nat /\ logins' \in Nat
      /\ "vnc" \notin settings'["system"] /\ ~vnc["system"]
  BY <1>1 DEF ServiceInv, ServiceTypes, SystemDaemon
<1>3. Keeps(d, S!State(d))
  BY StateKeeps
<1>4. ASSUME NEW b \in BOOLEAN, proxies' = [proxies EXCEPT ![d] = b]
      PROVE  /\ proxies' \in [S!Daemons -> BOOLEAN] /\ proxies'[d] = b
             /\ \A e \in S!Daemons : e # d => proxies'[e] = proxies[e]
  BY <1>4 DEF ServiceInv, ServiceTypes
<1>5. CASE S!ProxyAcquired(d)
  <2>1. PICK r : r = S!MaybeStartRdp(d, S!State(d))
    OBVIOUS
  <2>2. Keeps(d, r)
    BY <1>3, <2>1, MaybeStartKeeps
  <2>3. Keeps(d, [r EXCEPT !.vnc = TRUE]) /\ (d = "system" => ~r.vnc)
    BY <1>2, <1>3, <2>1, <2>2, MaybeStartKeeps DEF Keeps, StateType, S!State
  <2>4. S!Become(d, r) \/ (S!Become(d, [r EXCEPT !.vnc = TRUE]) /\ d # "system")
    BY <1>2, <1>5, <2>1 DEF S!ProxyAcquired, S!MaybeEnable
  <2>5. proxies' = [proxies EXCEPT ![d] = TRUE]
    BY <1>5 DEF S!ProxyAcquired
  <2>6. /\ proxies' \in [S!Daemons -> BOOLEAN] /\ proxies'[d]
        /\ \A e \in S!Daemons : e # d => proxies'[e] = proxies[e]
    BY <1>4, <2>5
  <2>7. CASE S!Become(d, r)
    BY <1>1, <1>2, <2>2, <2>3, <2>6, <2>7, BecomeKeeps
  <2>8. CASE S!Become(d, [r EXCEPT !.vnc = TRUE]) /\ d # "system"
    BY <1>1, <1>2, <2>3, <2>6, <2>8, BecomeKeeps
  <2> QED BY <2>4, <2>7, <2>8
<1>6. CASE S!NameVanished(d)
  <2>1. PICK r : r = S!StopRdp(d, S!State(d))
    OBVIOUS
  <2>2. Keeps(d, r) /\ ~r.rdp.on
    BY <1>3, <2>1, StopKeeps
  <2>3. PICK s : s = [r EXCEPT !.vnc = FALSE]
    OBVIOUS
  <2>4. Keeps(d, s) /\ ~s.rdp.on /\ ~s.vnc
    BY <2>2, <2>3 DEF Keeps, StateType
  <2>5. S!Become(d, s) \/ (d = "system" /\ S!Become(d, S!State(d)))
    BY <1>6, <2>1, <2>3 DEF S!NameVanished, S!Disable
  <2>6. proxies' = [proxies EXCEPT ![d] = FALSE]
    BY <1>6 DEF S!NameVanished
  <2>7. /\ proxies' \in [S!Daemons -> BOOLEAN]
        /\ \A e \in S!Daemons : e # d => proxies'[e] = proxies[e]
    BY <1>4, <2>6
  <2>8. CASE S!Become(d, s)
    BY <1>1, <1>2, <2>4, <2>7, <2>8, BecomeKeeps
  <2>9. CASE d = "system" /\ S!Become(d, S!State(d))
    <3>1. ~S!State(d).vnc
      BY <1>2, <2>9 DEF S!State
    <3> QED BY <1>1, <1>2, <1>3, <2>7, <2>9, <3>1, BecomeKeeps
  <2> QED BY <2>5, <2>8, <2>9
<1> QED BY <1>5, <1>6

\* Steps that leave the proxies alone.
LEMMA BecomesWithin ==
  ASSUME ServiceInv, NEW d \in S!Daemons, NEW s, Keeps(d, s), S!Become(d, s),
         UNCHANGED <<mode, proxies>>,
         settings' \in [S!Daemons -> SUBSET {"rdp", "vnc", "certificate", "negotiate"}],
         events' \in Nat, logins' \in Nat,
         s.rdp.on => rdp[d].on \/ proxies[d], s.vnc => vnc[d] \/ (proxies[d] /\ d # "system"),
         settings'["system"] \in SUBSET (settings["system"] \cup {"rdp", "certificate"})
  PROVE  ServiceInv'
<1>1. proxies' \in [S!Daemons -> BOOLEAN] /\ \A e \in S!Daemons : e # d => proxies'[e] = proxies[e]
  BY DEF ServiceInv, ServiceTypes
<1>2. proxies'[d] \/ ((s.rdp.on => d = "system") /\ ~s.vnc)
  BY DEF ServiceInv, NoServerWithoutProxies
<1>3. (d = "system" => ~s.vnc) /\ "vnc" \notin settings'["system"]
  BY DEF ServiceInv, SystemDaemon
<1> QED BY <1>1, <1>2, <1>3, BecomeKeeps

\* The settings of a daemon change.
LEMMA OfServiceSettings ==
  ASSUME ServiceInv, NEW d \in S!Daemons, NEW k \in {"rdp", "vnc", "certificate", "negotiate"},
         S!SettingChanged(d, k)
  PROVE  ServiceInv'
<1>1. /\ UNCHANGED <<mode, proxies>> /\ logins' = logins /\ events' = events + 1
      /\ settings' = [settings EXCEPT ![d] = IF k \in @ THEN @ \ {k} ELSE @ \cup {k}]
  BY DEF S!SettingChanged
<1>2. /\ settings' \in [S!Daemons -> SUBSET {"rdp", "vnc", "certificate", "negotiate"}]
      /\ events' \in Nat /\ logins' \in Nat
  BY <1>1 DEF ServiceInv, ServiceTypes
<1>14. /\ settings'["system"] \in SUBSET (settings["system"] \cup {"rdp", "certificate"})
       /\ k = "vnc" => d # "system"
  BY <1>1, Pairs DEF S!SettingChanged, ServiceInv, ServiceTypes
<1>3. PICK s : s = S!State(d)
  OBVIOUS
<1>4. Keeps(d, s) /\ s.rdp = rdp[d] /\ s.vnc = vnc[d]
  BY <1>3, StateKeeps DEF S!State
<1>5. PICK on \in BOOLEAN : on = (k \in settings'[d])
  <2>1. CASE k \in settings'[d]
    <3>1. TRUE = (k \in settings'[d])
      BY <2>1
    <3> QED BY <3>1
  <2>2. CASE k \notin settings'[d]
    <3>1. FALSE = (k \in settings'[d])
      BY <2>2
    <3> QED BY <3>1
  <2> QED BY <2>1, <2>2
<1>6. \/ proxies[d] /\ S!Become(d, S!MaybeStartRdp(d, s))
      \/ proxies[d] /\ S!Become(d, S!StopRdp(d, s))
      \/ proxies[d] /\ d # "system" /\ S!Become(d, [s EXCEPT !.vnc = on])
      \/ S!Become(d, S!MaybeStartRdp(d, s))
      \/ S!Become(d, s)
  <2>1. S!Become(d, CASE k = "rdp" /\ proxies[d] -> IF on THEN S!MaybeStartRdp(d, s) ELSE S!StopRdp(d, s)
                      [] k = "vnc" /\ proxies[d] -> [s EXCEPT !.vnc = on]
                      [] k = "certificate" /\ "ready" \in pending[d] -> S!MaybeStartRdp(d, s)
                      [] OTHER -> s)
    BY <1>3, <1>5 DEF S!SettingChanged
  <2>2. CASE k = "rdp" /\ proxies[d]
    BY <2>1, <2>2
  <2>3. CASE k = "vnc" /\ proxies[d]
    BY <1>14, <2>1, <2>3
  <2>4. CASE k = "certificate" /\ "ready" \in pending[d]
    BY <2>1, <2>4
  <2>5. CASE ~(k = "rdp" /\ proxies[d]) /\ ~(k = "vnc" /\ proxies[d])
             /\ ~(k = "certificate" /\ "ready" \in pending[d])
    BY <2>1, <2>5
  <2> QED BY <2>2, <2>3, <2>4, <2>5
<1>7. /\ Keeps(d, S!MaybeStartRdp(d, s)) /\ S!MaybeStartRdp(d, s).vnc = s.vnc
      /\ S!MaybeStartRdp(d, s).rdp.on => s.rdp.on \/ proxies'[d]
  BY <1>4, MaybeStartKeeps
<1>8. Keeps(d, S!StopRdp(d, s)) /\ ~S!StopRdp(d, s).rdp.on /\ S!StopRdp(d, s).vnc = s.vnc
  BY <1>4, StopKeeps
<1>9. /\ Keeps(d, [s EXCEPT !.vnc = on]) /\ [s EXCEPT !.vnc = on].rdp = s.rdp
  BY <1>4 DEF Keeps, StateType
<1>10. CASE S!Become(d, S!MaybeStartRdp(d, s))
  BY <1>1, <1>2, <1>14, <1>4, <1>7, <1>10, BecomesWithin
<1>11. CASE S!Become(d, S!StopRdp(d, s))
  BY <1>1, <1>2, <1>14, <1>4, <1>8, <1>11, BecomesWithin
<1>12. CASE proxies[d] /\ d # "system" /\ S!Become(d, [s EXCEPT !.vnc = on])
  BY <1>1, <1>2, <1>14, <1>4, <1>9, <1>12, BecomesWithin
<1>13. CASE S!Become(d, s)
  BY <1>1, <1>2, <1>14, <1>4, <1>13, BecomesWithin
<1> QED BY <1>6, <1>10, <1>11, <1>12, <1>13

\* Restarts, attempts to bind a port and the signals about the binding.
LEMMA OfServiceTimers ==
  ASSUME ServiceInv, NEW d \in S!Daemons,
         S!RestartRdp(d) \/ S!AttemptToBindPort(d) \/ S!SystemBinding(d)
  PROVE  ServiceInv'
<1>1. UNCHANGED <<mode, proxies, settings, events, logins>>
  BY DEF S!RestartRdp, S!AttemptToBindPort, S!SystemBinding
<1>2. /\ settings' \in [S!Daemons -> SUBSET {"rdp", "vnc", "certificate", "negotiate"}]
      /\ events' \in Nat /\ logins' \in Nat
      /\ settings'["system"] \in SUBSET (settings["system"] \cup {"rdp", "certificate"})
  BY <1>1 DEF ServiceInv, ServiceTypes
<1>3. PICK s : s = S!State(d)
  OBVIOUS
<1>4. Keeps(d, s) /\ s.rdp = rdp[d] /\ s.vnc = vnc[d] /\ s.pending = pending[d]
  BY <1>3, StateKeeps DEF S!State
<1>5. ASSUME NEW f, f \in {"restart", "binding"}
      PROVE  /\ Keeps(d, [s EXCEPT !.pending = @ \ {f}])
             /\ [s EXCEPT !.pending = @ \ {f}].rdp = rdp[d]
             /\ [s EXCEPT !.pending = @ \ {f}].vnc = vnc[d]
  <2>1. PICK p : p = s.pending \ {f}
    OBVIOUS
  <2>2. p \in SUBSET Flags /\ OffIsOff(s.rdp, p) /\ s.pending \cap Heard \subseteq p
    BY <1>4, <1>5, <2>1 DEF Keeps, StateType, OffIsOff, Heard
  <2> QED BY <1>4, <2>1, <2>2, PendingKeeps
<1>6. ASSUME NEW r, Keeps(d, r), NEW f, f \in {"restart", "failed"}
      PROVE  /\ Keeps(d, [r EXCEPT !.pending = @ \cup {f}])
             /\ [r EXCEPT !.pending = @ \cup {f}].rdp = r.rdp
             /\ [r EXCEPT !.pending = @ \cup {f}].vnc = r.vnc
  BY <1>6 DEF Keeps, StateType, OffIsOff, Flags
<1>7. CASE S!RestartRdp(d)
  <2>1. PICK r : r = [s EXCEPT !.pending = @ \ {"restart"}]
    OBVIOUS
  <2>2. Keeps(d, r) /\ r.rdp = rdp[d] /\ r.vnc = vnc[d]
    BY <1>5, <2>1
  <2>3. S!Become(d, S!MaybeStartRdp(d, r))
    BY <1>3, <1>7, <2>1 DEF S!RestartRdp
  <2>4. /\ Keeps(d, S!MaybeStartRdp(d, r)) /\ S!MaybeStartRdp(d, r).vnc = r.vnc
        /\ S!MaybeStartRdp(d, r).rdp.on => r.rdp.on \/ proxies'[d]
    BY <2>2, MaybeStartKeeps
  <2> QED BY <1>1, <1>2, <2>2, <2>3, <2>4, BecomesWithin
<1>8. CASE S!AttemptToBindPort(d)
  <2>1. rdp[d].on /\ rdp[d].attempts > 0 /\ rdp[d] \in RdpType
    BY <1>8 DEF S!AttemptToBindPort, ServiceInv, ServiceTypes
  <2>2. PICK r : r = S!StopRdp(d, s)
    OBVIOUS
  <2>3. Keeps(d, r) /\ ~r.rdp.on /\ r.vnc = vnc[d]
    BY <1>4, <2>2, StopKeeps
  <2>4. \/ S!Become(d, [s EXCEPT !.rdp.port = "default", !.rdp.attempts = 0])
        \/ S!Become(d, [r EXCEPT !.pending = @ \cup {"failed"}])
        \/ S!Become(d, [s EXCEPT !.rdp.attempts = @ - 1])
    BY <1>3, <1>8, <2>2 DEF S!AttemptToBindPort
  <2>5. CASE S!Become(d, [s EXCEPT !.rdp.port = "default", !.rdp.attempts = 0])
    <3>1. PICK p : p = [rdp[d] EXCEPT !.port = "default", !.attempts = 0]
      OBVIOUS
    <3> 0 \in 0 .. MaxAttempts
      BY BoundsAreNat
    <3>2. p \in RdpType /\ p.on = rdp[d].on /\ p.session = rdp[d].session
      BY <2>1, <3>1 DEF RdpType
    <3>3. PICK t : t = [s EXCEPT !.rdp = p]
      OBVIOUS
    <3>4. t = [s EXCEPT !.rdp.port = "default", !.rdp.attempts = 0]
      BY <1>4, <3>1, <3>3 DEF Keeps, StateType
    <3>5. Keeps(d, t) /\ t.rdp = p /\ t.vnc = vnc[d]
      BY <1>4, <2>1, <3>2, <3>3 DEF Keeps, StateType, OffIsOff
    <3> QED BY <1>1, <1>2, <2>1, <2>5, <3>2, <3>4, <3>5, BecomesWithin
  <2>6. CASE S!Become(d, [r EXCEPT !.pending = @ \cup {"failed"}])
    BY <1>1, <1>2, <1>6, <2>3, <2>6, BecomesWithin
  <2>7. CASE S!Become(d, [s EXCEPT !.rdp.attempts = @ - 1])
    <3>1. PICK p : p = [rdp[d] EXCEPT !.attempts = @ - 1]
      OBVIOUS
    <3> rdp[d].attempts - 1 \in 0 .. MaxAttempts
      <4>1. rdp[d].attempts \in 0 .. MaxAttempts
        BY <2>1 DEF RdpType
      <4> QED BY <2>1, <4>1, BoundsAreNat
    <3>2. p \in RdpType /\ p.on = rdp[d].on /\ p.session = rdp[d].session
      BY <2>1, <3>1 DEF RdpType
    <3>3. PICK t : t = [s EXCEPT !.rdp = p]
      OBVIOUS
    <3>4. t = [s EXCEPT !.rdp.attempts = @ - 1]
      BY <1>4, <3>1, <3>3 DEF Keeps, StateType
    <3>5. Keeps(d, t) /\ t.rdp = p /\ t.vnc = vnc[d]
      BY <1>4, <2>1, <3>2, <3>3 DEF Keeps, StateType, OffIsOff
    <3> QED BY <1>1, <1>2, <2>1, <2>7, <3>2, <3>4, <3>5, BecomesWithin
  <2> QED BY <2>4, <2>5, <2>6, <2>7
<1>9. CASE S!SystemBinding(d)
  <2>1. PICK t : t = [s EXCEPT !.pending = @ \ {"binding"}]
    OBVIOUS
  <2>2. Keeps(d, t) /\ t.rdp = rdp[d] /\ t.vnc = vnc[d]
    BY <1>5, <2>1
  <2>3. PICK c : c = [t EXCEPT !.prompt = @ \cup {"stopped", "started"}]
    OBVIOUS
  <2>4. Keeps(d, c) /\ c.rdp = rdp[d] /\ c.vnc = vnc[d]
    BY <2>2, <2>3 DEF Keeps, StateType, PromptFlags
  <2>5. PICK r : r = S!StopRdp(d, c)
    OBVIOUS
  <2>6. Keeps(d, r) /\ ~r.rdp.on /\ r.vnc = vnc[d]
    BY <2>4, <2>5, StopKeeps
  <2>7. \/ S!Become(d, t) \/ S!Become(d, c) \/ S!Become(d, [r EXCEPT !.pending = @ \cup {"restart"}])
    BY <1>3, <1>9, <2>1, <2>3, <2>5 DEF S!SystemBinding
  <2>8. CASE S!Become(d, t)
    BY <1>1, <1>2, <2>2, <2>8, BecomesWithin
  <2>9. CASE S!Become(d, c)
    BY <1>1, <1>2, <2>4, <2>9, BecomesWithin
  <2>10. CASE S!Become(d, [r EXCEPT !.pending = @ \cup {"restart"}])
    BY <1>1, <1>2, <1>6, <2>6, <2>10, BecomesWithin
  <2> QED BY <2>7, <2>8, <2>9, <2>10
<1> QED BY <1>7, <1>8, <1>9

\* Steps that change what a server has heard, and its session.
LEMMA HearsOn ==
  ASSUME ServiceInv, UNCHANGED <<mode, proxies, settings, vnc, prompt, events>>,
         logins' \in Nat, rdp' \in [S!Daemons -> RdpType], pending' \in [S!Daemons -> SUBSET Flags],
         \A d \in S!Daemons : rdp'[d].on = rdp[d].on,
         \A d \in S!Daemons : ~rdp[d].on => rdp'[d] = rdp[d],
         rdp'["system"].session = "none",
         \A d \in S!Daemons : OffIsOff(rdp[d], pending'[d]),
         SomebodyHears'
  PROVE  ServiceInv'
<1>1. ServiceTypes' /\ SystemDaemon'
  BY DEF ServiceInv, ServiceTypes, SystemDaemon
<1>2. ASSUME NEW d \in S!Daemons
      PROVE  OffIsOff(rdp[d], pending[d])' /\ NoServerWithoutProxies(d)'
  <2>1. OffIsOff(rdp[d], pending'[d]) /\ NoServerWithoutProxies(d)
    BY DEF ServiceInv
  <2> QED BY <2>1 DEF OffIsOff, NoServerWithoutProxies
<1> QED BY <1>1, <1>2 DEF ServiceInv

\* The other daemon appears on the bus, and vanishes.
LEMMA OfServiceOther ==
  ASSUME ServiceInv, NEW d \in S!Daemons,
         S!OtherAppeared(d) \/ S!OtherAcquired(d) \/ S!OtherVanished(d)
  PROVE  ServiceInv'
<1>1. UNCHANGED <<mode, proxies, settings, rdp, vnc, prompt, events, logins>>
  BY DEF S!OtherAppeared, S!OtherAcquired, S!OtherVanished
<1>2. /\ rdp' \in [S!Daemons -> RdpType] /\ logins' \in Nat
      /\ pending \in [S!Daemons -> SUBSET Flags] /\ rdp'["system"].session = "none"
      /\ \A e \in S!Daemons : OffIsOff(rdp[e], pending[e])
  BY <1>1 DEF ServiceInv, ServiceTypes, SystemDaemon
<1>3. PICK p \in SUBSET Flags :
        /\ pending' = [pending EXCEPT ![d] = p] /\ OffIsOff(rdp[d], p)
        /\ "new" \notin pending[d] \/ pending[d] \cap Heard \subseteq p
  <2>1. CASE S!OtherAppeared(d)
    <3>1. rdp[d].on
      BY <1>2, <2>1 DEF S!OtherAppeared, OffIsOff
    <3>2. PICK q : q = pending[d] \cup {"proxy", "seen"}
      OBVIOUS
    <3>3. q \in SUBSET Flags /\ OffIsOff(rdp[d], q)
      BY <1>2, <3>1, <3>2 DEF OffIsOff, Flags
    <3>4. pending' = [pending EXCEPT ![d] = q]
      BY <2>1, <3>2 DEF S!OtherAppeared
    <3> QED BY <3>2, <3>3, <3>4
  <2>2. CASE S!OtherAcquired(d)
    <3> DEFINE q == (pending[d] \ {"proxy"}) \cup {"iface"}
                    \cup (IF "iface" \in pending[d] THEN {"leaked"} ELSE {})
                    \cup (IF "iface" \in pending[d] \/ ~rdp[d].on THEN {"late"} ELSE {})
    <3>1. pending' = [pending EXCEPT ![d] = q]
      BY <1>2, <2>2 DEF S!OtherAcquired
    <3>3. pending[d] \in SUBSET Flags /\ OffIsOff(rdp[d], pending[d])
      BY <1>2
    <3>4. q \in SUBSET Flags
      BY <3>3 DEF Flags
    <3>5. OffIsOff(rdp[d], q)
      BY <3>3 DEF OffIsOff
    <3>2. q \in SUBSET Flags /\ OffIsOff(rdp[d], q) /\ pending[d] \cap Heard \subseteq q
      BY <3>4, <3>5 DEF Heard
    <3> HIDE DEF q
    <3> QED BY <3>1, <3>2
  <2>3. CASE S!OtherVanished(d)
    <3>1. PICK q : q = pending[d] \ {"gone", "seen", "iface"}
      OBVIOUS
    <3>2. q \in SUBSET Flags /\ OffIsOff(rdp[d], q)
      BY <1>2, <3>1 DEF OffIsOff
    <3> QED BY <2>3, <3>1, <3>2 DEF S!OtherVanished
  <2> QED BY <2>1, <2>2, <2>3
<1>4. /\ pending' \in [S!Daemons -> SUBSET Flags] /\ pending'[d] = p
      /\ \A e \in S!Daemons : e # d => pending'[e] = pending[e]
  BY <1>2, <1>3
<1>5. \A e \in S!Daemons : OffIsOff(rdp[e], pending'[e])
  BY <1>2, <1>3, <1>4
<1>6. \A e \in S!Daemons : IsToHear(e) => IsToHear(e)'
  BY <1>3, <1>4 DEF IsToHear, S!Hears, Heard
<1>7. SomebodyHears'
  BY <1>1, <1>6, Pairs DEF ServiceInv, SomebodyHears
<1> QED BY <1>1, <1>2, <1>4, <1>5, <1>7, HearsOn

\* A client of the server has connected.
LEMMA OfServicePost ==
  ASSUME ServiceInv, NEW d \in S!Daemons, S!PostConnect(d)
  PROVE  ServiceInv'
<1>1. PICK e \in S!Daemons : e = S!Other(d) /\ e # d /\ S!Other(e) = d
  BY Pairs
<1>2. PICK h \in {"announced", "unheard"} :
        h = IF S!Hears(e) THEN "announced" ELSE "unheard"
  OBVIOUS
<1>3. /\ rdp \in [S!Daemons -> RdpType] /\ pending \in [S!Daemons -> SUBSET Flags] /\ logins \in Nat
  BY DEF ServiceInv, ServiceTypes
<1>4. /\ UNCHANGED <<mode, proxies, settings, vnc, prompt, events>>
      /\ rdp[d].on /\ logins' = logins + 1
      /\ rdp' = [rdp EXCEPT ![d].session = h]
      /\ pending' = [pending EXCEPT ![e] = IF S!Hears(e) THEN @ \cup {"new"} ELSE @]
      /\ d # "system"
  BY <1>1, <1>2 DEF S!PostConnect
<1>5. PICK r : r = [rdp[d] EXCEPT !.session = h]
  OBVIOUS
<1>6. r \in RdpType /\ r.on = rdp[d].on /\ r.session = h
  BY <1>3, <1>5 DEF RdpType
<1>7. rdp' = [rdp EXCEPT ![d] = r]
  BY <1>3, <1>4, <1>5
<1>8. /\ rdp' \in [S!Daemons -> RdpType]
      /\ \A f \in S!Daemons : rdp'[f].on = rdp[f].on
      /\ \A f \in S!Daemons : ~rdp[f].on => rdp'[f] = rdp[f]
      /\ rdp'["system"].session = "none"
  BY <1>3, <1>4, <1>6, <1>7, Pairs DEF ServiceInv, SystemDaemon
<1>9. /\ pending' \in [S!Daemons -> SUBSET Flags]
      /\ \A f \in S!Daemons : pending'[f] \in {pending[f], pending[f] \cup {"new"}}
      /\ S!Hears(e) => "new" \in pending'[e]
  BY <1>3, <1>4 DEF Flags
<1>11. \A f \in S!Daemons : (S!Hears(f) => S!Hears(f)') /\ (IsToHear(f) => IsToHear(f)')
  BY <1>9, Zenon DEF IsToHear, S!Hears
<1>12. \A f \in S!Daemons : OffIsOff(rdp[f], pending'[f])
  BY <1>9 DEF ServiceInv, OffIsOff
<1>10. SomebodyHears'
  <2> SUFFICES ASSUME NEW f \in S!Daemons,
                      rdp'[f].session = "announced", rdp'[S!Other(f)].session = "announced"
               PROVE  IsToHear(f)' \/ IsToHear(S!Other(f))'
    BY DEF SomebodyHears
  <2>1. S!Other(f) \in S!Daemons /\ S!Other(S!Other(f)) = f
    BY Pairs
  <2>2. CASE d \in {f, S!Other(f)}
    <3>1. e \in {f, S!Other(f)} /\ h = "announced"
      BY <1>1, <1>3, <1>6, <1>7, <2>1, <2>2
    <3>2. S!Hears(e)
      BY <1>2, <3>1
    <3> QED BY <1>9, <1>11, <3>1, <3>2 DEF IsToHear
  <2>3. CASE d \notin {f, S!Other(f)}
    <3>1. rdp[f].session = "announced" /\ rdp[S!Other(f)].session = "announced"
      BY <1>3, <1>7, <2>1, <2>3
    <3>2. IsToHear(f) \/ IsToHear(S!Other(f))
      BY <3>1 DEF ServiceInv, SomebodyHears
    <3> QED BY <1>11, <2>1, <3>2
  <2> QED BY <2>2, <2>3
<1>13. logins' \in Nat
  BY <1>3, <1>4
<1> QED BY <1>4, <1>8, <1>9, <1>10, <1>12, <1>13, HearsOn

\* on_other_rdp_server_new_connection, if it asserts what is so.
LEMMA OfServiceNew ==
  ASSUME ServiceInv, NEW d \in S!Daemons, S!OtherNewConnection(d), ~S!Hears(d) \/ rdp[d].on
  PROVE  ServiceInv'
<1>1. PICK e \in S!Daemons : e = S!Other(d) /\ e # d /\ S!Other(e) = d
  BY Pairs
<1>2. /\ rdp \in [S!Daemons -> RdpType] /\ pending \in [S!Daemons -> SUBSET Flags] /\ logins \in Nat
  BY DEF ServiceInv, ServiceTypes
<1>3. PICK h : h = IF S!Hears(d) THEN "none" ELSE rdp[d].session
  OBVIOUS
<1>4. /\ UNCHANGED <<mode, proxies, settings, vnc, prompt, events, logins>>
      /\ rdp' = [rdp EXCEPT ![d].session = h]
      /\ pending' = [pending EXCEPT ![d] = @ \ {"new"}]
  BY <1>2, <1>3 DEF S!OtherNewConnection
<1>5. PICK r : r = [rdp[d] EXCEPT !.session = h]
  OBVIOUS
<1>6. r \in RdpType /\ r.on = rdp[d].on /\ r.session = h
  BY <1>2, <1>3, <1>5 DEF RdpType
<1>7. rdp' = [rdp EXCEPT ![d] = r]
  BY <1>2, <1>4, <1>5
<1>8. ~rdp[d].on => r = rdp[d]
  <2>1. ~rdp[d].on => rdp[d].session = "none"
    BY DEF ServiceInv, OffIsOff, S!Off
  <2> QED BY <1>2, <1>3, <1>5, <2>1 DEF RdpType
<1>9. /\ rdp' \in [S!Daemons -> RdpType]
      /\ \A f \in S!Daemons : rdp'[f].on = rdp[f].on
      /\ \A f \in S!Daemons : ~rdp[f].on => rdp'[f] = rdp[f]
      /\ rdp'["system"].session = "none"
  BY <1>2, <1>3, <1>6, <1>7, <1>8, Pairs DEF ServiceInv, SystemDaemon
<1>10. /\ pending' \in [S!Daemons -> SUBSET Flags]
       /\ \A f \in S!Daemons : f # d => pending'[f] = pending[f]
       /\ \A f \in S!Daemons : OffIsOff(rdp[f], pending'[f])
  BY <1>2, <1>4 DEF Flags, ServiceInv, OffIsOff
<1>11. SomebodyHears'
  <2> SUFFICES ASSUME NEW f \in S!Daemons,
                      rdp'[f].session = "announced", rdp'[S!Other(f)].session = "announced"
               PROVE  IsToHear(f)' \/ IsToHear(S!Other(f))'
    BY DEF SomebodyHears
  <2>1. S!Other(f) \in S!Daemons /\ S!Other(S!Other(f)) = f
    BY Pairs
  <2>2. \A g \in {f, S!Other(f)} : rdp[g].session = "announced"
    BY <1>2, <1>3, <1>6, <1>7, <2>1
  <2>3. IsToHear(f) \/ IsToHear(S!Other(f))
    BY <2>2 DEF ServiceInv, SomebodyHears
  <2>4. CASE d \in {f, S!Other(f)}
    <3>1. ~S!Hears(d)
      BY <1>2, <1>3, <1>6, <1>7, <2>4
    <3>2. {f, S!Other(f)} = {d, e}
      BY <1>1, <2>1, <2>4
    <3>3. IsToHear(e)
      BY <2>3, <3>1, <3>2 DEF IsToHear
    <3> QED BY <1>1, <1>10, <3>2, <3>3 DEF IsToHear, S!Hears
  <2>5. CASE d \notin {f, S!Other(f)}
    BY <1>10, <2>1, <2>3, <2>5 DEF IsToHear, S!Hears
  <2> QED BY <2>4, <2>5
<1> QED BY <1>2, <1>4, <1>9, <1>10, <1>11, HearsOn

\* And otherwise: the daemon is started again.
LEMMA OfServiceAborted ==
  ASSUME ServiceInv, NEW d \in S!Daemons, S!OtherNewConnection(d), S!Hears(d), ~rdp[d].on
  PROVE  ServiceInv'
<1>1. PICK e \in S!Daemons : e = S!Other(d) /\ e # d /\ S!Other(e) = d
  BY Pairs
<1>2. PICK g \in SUBSET Flags :
        /\ g = IF "seen" \in pending[e] THEN pending[e] \cup {"gone"} ELSE pending[e]
  BY DEF ServiceInv, ServiceTypes, Flags
<1>3. /\ UNCHANGED <<mode, settings, prompt, events, logins>>
      /\ proxies' = [proxies EXCEPT ![d] = FALSE] /\ vnc' = [vnc EXCEPT ![d] = FALSE]
      /\ rdp' = [rdp EXCEPT ![d] = S!Off] /\ pending' = [pending EXCEPT ![d] = {}, ![e] = g]
  BY <1>1, <1>2 DEF S!OtherNewConnection, S!Aborted, ServiceInv, ServiceTypes
<1>4. ServiceTypes'
  BY <1>2, <1>3, OffTyped DEF ServiceInv, ServiceTypes
<1>5. /\ rdp'[d] = S!Off /\ ~vnc'[d] /\ pending'[d] = {} /\ pending'[e] = g
      /\ \A f \in S!Daemons : f # d => rdp'[f] = rdp[f] /\ vnc'[f] = vnc[f] /\ proxies'[f] = proxies[f]
      /\ \A f \in S!Daemons \ {d, e} : pending'[f] = pending[f]
      /\ S!Off.on = FALSE /\ S!Off.session = "none"
  BY <1>1, <1>3 DEF ServiceInv, ServiceTypes, S!Off
<1>6. SystemDaemon'
  BY <1>3, <1>5, Pairs DEF ServiceInv, SystemDaemon
<1>7. ASSUME NEW f \in S!Daemons
      PROVE  OffIsOff(rdp[f], pending[f])' /\ NoServerWithoutProxies(f)'
  <2>1. OffIsOff(rdp[f], pending[f]) /\ NoServerWithoutProxies(f)
    BY DEF ServiceInv
  <2>2. CASE f = d
    BY <1>5, <2>2 DEF OffIsOff, NoServerWithoutProxies
  <2>3. CASE f = e
    BY <1>1, <1>2, <1>5, <2>1, <2>3 DEF OffIsOff, NoServerWithoutProxies
  <2>4. CASE f \notin {d, e}
    BY <1>5, <2>1, <2>4 DEF OffIsOff, NoServerWithoutProxies
  <2> QED BY <2>2, <2>3, <2>4
<1>8. SomebodyHears'
  <2> SUFFICES ASSUME NEW f \in S!Daemons, d \notin {f, S!Other(f)},
                      rdp'[f].session = "announced", rdp'[S!Other(f)].session = "announced"
               PROVE  IsToHear(f)' \/ IsToHear(S!Other(f))'
    BY <1>5 DEF SomebodyHears
  <2>1. S!Other(f) \in S!Daemons /\ e \notin {f, S!Other(f)}
    BY <1>1, Pairs
  <2> QED BY <1>5, <2>1 DEF ServiceInv, SomebodyHears, IsToHear, S!Hears
<1> QED BY <1>4, <1>6, <1>7, <1>8 DEF ServiceInv

\* The prompt about a port is answered.
LEMMA OfServicePrompt ==
  ASSUME ServiceInv, S!PromptAnswered
  PROVE  ServiceInv'
<1>1. ServiceTypes'
  BY DEF ServiceInv, ServiceTypes, S!PromptAnswered
<1> QED BY <1>1 DEF ServiceInv, S!PromptAnswered, OffIsOff, NoServerWithoutProxies, SomebodyHears,
                    IsToHear, S!Hears, SystemDaemon

\* The steps of the servers keep their invariant.
LEMMA ServiceStep ==
  ASSUME ServiceInv, S!Next
  PROVE  ServiceInv'
BY OfServiceProxies, OfServiceSettings, OfServiceTimers, OfServiceOther, OfServicePost, OfServiceNew,
   OfServiceAborted, OfServicePrompt DEF S!Next

\* The other parts of the daemons do not disturb the servers.
LEMMA ServiceStutters ==
  ASSUME ServiceInv, UNCHANGED serviceVars
  PROVE  ServiceInv'
BY DEF ServiceInv, serviceVars, ServiceTypes, OffIsOff, NoServerWithoutProxies, SomebodyHears,
       IsToHear, S!Hears, SystemDaemon

\* What the invariant of the servers says is enough.
LEMMA ServiceInvSuffices ==
  ASSUME ServiceInv
  PROVE  S!TypeOK /\ S!StoppedServersAreQuiet /\ S!OneServerPerSession /\ S!OtherServerAsserts
<1>1. S!TypeOK
  BY DEF ServiceInv, ServiceTypes, S!TypeOK, RdpType, Flags, PromptFlags
<1>2. S!StoppedServersAreQuiet
  <2> SUFFICES ASSUME NEW d \in S!Daemons
               PROVE  /\ ~proxies[d] => (rdp[d].on => d = "system") /\ ~vnc[d] /\ rdp[d].session = "none"
                      /\ ~rdp[d].on => /\ rdp[d].port = "none"
                                       /\ pending[d] \cap {"watch", "seen", "gone"} = {}
                                       /\ "iface" \in pending[d] => "late" \in pending[d]
    BY DEF S!StoppedServersAreQuiet
  <2>1. S!Off.session = "none" /\ S!Off.port = "none"
    BY DEF S!Off
  <2> QED BY <2>1 DEF ServiceInv, OffIsOff, NoServerWithoutProxies, SystemDaemon
<1>3. S!OneServerPerSession
  <2>1. mode \subseteq S!Daemons
    BY DEF ServiceInv, ServiceTypes, S!Daemons
  <2> QED BY <2>1 DEF ServiceInv, SomebodyHears, IsToHear, S!OneServerPerSession
<1>4. S!OtherServerAsserts
  BY DEF ServiceInv, OffIsOff, S!Hears, S!OtherServerAsserts
<1> QED BY <1>1, <1>2, <1>3, <1>4

-----------------------------------------------------------------------------
(* The remote clients of the system daemon. *)

RemoteType ==
  [session : BOOLEAN, needs : BOOLEAN, timer : BOOLEAN, socket : BOOLEAN,
   src : Sessions \cup {R!None}, dst : Sessions \cup {R!None},
   started : BOOLEAN, waiting : BOOLEAN, creds : BOOLEAN,
   display : Display \cup {R!None}]
ExportType == [client : Ids, ready : 0 .. MaxReady]
Signals == {"remote-id", "session-id"}
DisplayType ==
  [id : Ids \cup {R!None}, session : Sessions \cup {R!None}, notify : SUBSET (Signals \X Ids)]

RemoteTypes ==
  /\ remotes \in [R!Known -> RemoteType] /\ R!Known \subseteq spent /\ spent \subseteq Ids
  /\ exported \in [DOMAIN exported -> ExportType] /\ DOMAIN exported \subseteq Sessions
  /\ displays \in [Display -> DisplayType]
  /\ creating \subseteq spent
  /\ weakRefs \in [Ids -> Ids \cup {R!None}] /\ running \in BOOLEAN

\* A client for whom GDM creates a display has no session to go to.
CreatingHasNone == \A i \in creating \cap R!Known : remotes[i].dst = R!None

\* Whom a display calls when it is given to somebody else has a destination; whom it calls
\* when it has a session waits for one.
SignalsSound == \A d \in Display, i \in Ids :
  /\ <<"remote-id", i>> \in displays[d].notify =>
       i \in R!Known /\ remotes[i].display = d /\ remotes[i].dst # R!None
  /\ <<"session-id", i>> \in displays[d].notify =>
       i \in R!Known /\ remotes[i].display = d /\ remotes[i].dst = R!None /\ i \notin creating

\* The inductive invariant of the remote clients.
RemoteInv ==
  /\ RemoteTypes /\ CreatingHasNone /\ SignalsSound
  /\ R!ObjectsAgree /\ R!RedirectionsTimed /\ R!SessionPointersLive

\* None is no id, no session and no display.
LEMMA NoneIsNone ==
  /\ R!None \notin Ids /\ R!None \notin Sessions /\ R!None \notin Display
BY DaemonsAssumption DEF R!None

\* There is no client in the beginning.
LEMMA RemoteInit == R!Init => RemoteInv
<1> SUFFICES ASSUME R!Init
             PROVE  RemoteInv
  OBVIOUS
<1>1. R!Known = {} /\ DOMAIN exported = {}
  BY DEF R!Init, R!Known
<1>2. remotes \in [R!Known -> RemoteType] /\ exported \in [DOMAIN exported -> ExportType]
  BY <1>1 DEF R!Init
<1>3. R!NoDisplay \in DisplayType /\ R!NoDisplay.notify = {}
  BY DEF R!NoDisplay, DisplayType
<1>4. RemoteTypes
  BY <1>1, <1>2, <1>3 DEF R!Init, RemoteTypes
<1>5. \A d \in Display : displays[d].notify = {}
  BY <1>3 DEF R!Init
<1> QED BY <1>1, <1>4, <1>5 DEF RemoteInv, CreatingHasNone, SignalsSound, R!ObjectsAgree, R!RedirectionsTimed,
                                R!SessionPointersLive

\* The objects on the bus have the clients that they had, and whoever has a session is
\* what its weak reference points to.
SameClients ==
  /\ DOMAIN exported' = DOMAIN exported /\ exported' \in [DOMAIN exported -> ExportType]
  /\ \A s \in DOMAIN exported : exported'[s].client = exported[s].client
RefsKept(K) ==
  /\ weakRefs' \in [Ids -> Ids \cup {R!None}]
  /\ \A j \in K : remotes[j].session => weakRefs'[j] = j

\* Nothing changes.
LEMMA SameKept ==
  ASSUME RemoteInv
  PROVE  /\ UNCHANGED exported => SameClients
         /\ UNCHANGED weakRefs => RefsKept(R!Known)
BY DEF RemoteInv, RemoteTypes, SameClients, RefsKept, R!SessionPointersLive

\* A step that changes no client of the table; displays may go, and the clients are not told.
LEMMA TableStays ==
  ASSUME RemoteInv, SameClients, RefsKept(R!Known), displays' \in [Display -> DisplayType],
         \A d \in Display : displays'[d].notify \subseteq displays[d].notify,
         UNCHANGED <<remotes, creating, spent>>, running' \in BOOLEAN
  PROVE  RemoteInv'
<1>0. R!Known' = R!Known
  BY DEF R!Known
<1>1. RemoteTypes' /\ CreatingHasNone'
  BY <1>0 DEF RemoteInv, RemoteTypes, CreatingHasNone, SameClients, RefsKept
<1>2. SignalsSound'
  BY <1>0 DEF RemoteInv, SignalsSound
<1>3. R!ObjectsAgree'
  BY <1>0 DEF RemoteInv, R!ObjectsAgree, SameClients
<1>4. R!RedirectionsTimed' /\ R!SessionPointersLive'
  BY <1>0 DEF RemoteInv, R!RedirectionsTimed, R!SessionPointersLive, RefsKept
<1> QED BY <1>1, <1>2, <1>3, <1>4 DEF RemoteInv

\* The memory of a record that was freed is used for client i, which the table does not have.
LEMMA AllocatedKeeps ==
  ASSUME RemoteInv, NEW i \in Ids, i \notin R!Known, NEW own \in BOOLEAN, R!Allocated(i, own)
  PROVE  RefsKept(R!Known) /\ (own => weakRefs'[i] = i)
<1>1. PICK r \in R!Freed \cup {R!None} :
        weakRefs' = [k \in Ids |-> IF (k = i /\ own) \/ (r # R!None /\ weakRefs[k] = r) THEN i ELSE weakRefs[k]]
  BY DEF R!Allocated
<1>2. R!Known \subseteq Ids /\ weakRefs \in [Ids -> Ids \cup {R!None}]
  BY DEF RemoteInv, RemoteTypes
<1>3. weakRefs' \in [Ids -> Ids \cup {R!None}] /\ (own => weakRefs'[i] = i)
  BY <1>1, <1>2
<1>4. ASSUME NEW j \in R!Known, remotes[j].session
      PROVE  weakRefs'[j] = j
  <2>1. weakRefs[j] = j
    BY <1>4 DEF RemoteInv, R!SessionPointersLive
  <2>2. r = R!None \/ r \notin R!Known
    BY DEF R!Freed
  <2> QED BY <1>1, <1>2, <2>1, <2>2
<1> QED BY <1>3, <1>4 DEF RefsKept

\* A step that changes one client but not its sessions and its display.
LEMMA ClientChanges ==
  ASSUME RemoteInv, NEW i \in R!Known, NEW r \in RemoteType,
         remotes' = [remotes EXCEPT ![i] = r],
         r.src = remotes[i].src, r.dst = remotes[i].dst, r.display = remotes[i].display,
         UNCHANGED <<displays, creating, spent, running>>, SameClients,
         RefsKept(R!Known \ {i}), r.session => weakRefs'[i] = i,
         r.started /\ r.waiting => r.dst # R!None /\ r.timer
  PROVE  RemoteInv'
<1>1. /\ R!Known' = R!Known /\ R!Known \subseteq Ids /\ remotes' \in [R!Known -> RemoteType]
      /\ remotes'[i] = r /\ \A j \in R!Known : j # i => remotes'[j] = remotes[j]
  BY DEF RemoteInv, RemoteTypes, R!Known
<1>2. \A j \in R!Known : /\ remotes'[j].src = remotes[j].src /\ remotes'[j].dst = remotes[j].dst
                         /\ remotes'[j].display = remotes[j].display
  BY <1>1
<1>3. RemoteTypes'
  BY <1>1 DEF RemoteInv, RemoteTypes, SameClients, RefsKept
<1>4. CreatingHasNone'
  BY <1>1, <1>2 DEF RemoteInv, CreatingHasNone
<1>5. SignalsSound'
  <2> SUFFICES ASSUME NEW e \in Display, NEW j \in Ids
               PROVE  /\ <<"remote-id", j>> \in displays[e].notify =>
                           j \in R!Known /\ remotes'[j].display = e /\ remotes'[j].dst # R!None
                      /\ <<"session-id", j>> \in displays[e].notify =>
                           j \in R!Known /\ remotes'[j].display = e /\ remotes'[j].dst = R!None
                           /\ j \notin creating
    BY <1>1 DEF SignalsSound
  <2> QED BY <1>2 DEF RemoteInv, SignalsSound
<1>6. R!ObjectsAgree'
  BY <1>1, <1>2 DEF RemoteInv, R!ObjectsAgree, SameClients
<1>7. R!RedirectionsTimed' /\ R!SessionPointersLive'
  BY <1>1 DEF RemoteInv, R!RedirectionsTimed, R!SessionPointersLive, RefsKept
<1> QED BY <1>3, <1>4, <1>5, <1>6, <1>7 DEF RemoteInv

\* The methods of a handover object.
LEMMA OfMethods ==
  ASSUME RemoteInv, NEW s \in Sessions,
         R!StartHandover(s) \/ R!GetSystemCredentials(s) \/ R!TakeClient(s) \/ R!SourceCalls(s)
  PROVE  RemoteInv'
<1>1. s \in DOMAIN exported
  BY DEF R!StartHandover, R!GetSystemCredentials, R!TakeClient, R!SourceCalls
<1>2. PICK i \in R!Known : i = exported[s].client
  BY <1>1 DEF RemoteInv, R!ObjectsAgree
<1>3. /\ remotes \in [R!Known -> RemoteType] /\ i \in Ids /\ displays \in [Display -> DisplayType]
      /\ exported \in [DOMAIN exported -> ExportType] /\ s # R!None
  BY <1>1, NoneIsNone DEF RemoteInv, RemoteTypes
<1>4. /\ UNCHANGED <<displays, creating, weakRefs, spent>>
      /\ RefsKept(R!Known \ {i}) /\ RefsKept(R!Known) /\ (remotes[i].session => weakRefs'[i] = i)
  <2>1. UNCHANGED <<displays, creating, weakRefs, spent>>
    BY DEF R!StartHandover, R!GetSystemCredentials, R!TakeClient, R!SourceCalls
  <2> QED BY <2>1, SameKept DEF RefsKept
<1>5. CASE R!StartHandover(s)
  <2>1. PICK r : r = [remotes[i] EXCEPT !.started = TRUE, !.timer = TRUE]
    OBVIOUS
  <2>2. /\ r \in RemoteType /\ r.src = remotes[i].src /\ r.dst = remotes[i].dst
        /\ r.display = remotes[i].display /\ r.timer /\ r.session = remotes[i].session
    BY <1>3, <2>1 DEF RemoteType
  <2>3. /\ remotes' = [remotes EXCEPT ![i].started = TRUE, ![i].timer = TRUE]
        /\ UNCHANGED <<exported, running>> /\ remotes[i].dst = s
    BY <1>2, <1>5 DEF R!StartHandover
  <2>4. remotes' = [remotes EXCEPT ![i] = r]
    BY <1>3, <2>1, <2>3
  <2> QED BY <1>3, <1>4, <2>2, <2>3, <2>4, ClientChanges, SameKept
<1>6. CASE R!GetSystemCredentials(s)
  <2>1. PICK r : r = [remotes[i] EXCEPT !.creds = FALSE]
    OBVIOUS
  <2>2. /\ r \in RemoteType /\ r.src = remotes[i].src /\ r.dst = remotes[i].dst
        /\ r.display = remotes[i].display /\ r.timer = remotes[i].timer
        /\ r.started = remotes[i].started /\ r.waiting = remotes[i].waiting
        /\ r.session = remotes[i].session
    BY <1>3, <2>1 DEF RemoteType
  <2>3. remotes' = [remotes EXCEPT ![i].creds = FALSE] /\ UNCHANGED <<exported, running>>
    BY <1>2, <1>6 DEF R!GetSystemCredentials
  <2>4. remotes' = [remotes EXCEPT ![i] = r]
    BY <1>3, <2>1, <2>3
  <2>5. r.started /\ r.waiting => r.dst # R!None /\ r.timer
    BY <2>2 DEF RemoteInv, R!RedirectionsTimed
  <2> QED BY <1>4, <2>2, <2>3, <2>4, <2>5, ClientChanges, SameKept
<1>7. CASE R!TakeClient(s)
  <2>1. PICK r : r = [remotes[i] EXCEPT !.socket = FALSE, !.timer = FALSE, !.waiting = FALSE]
    OBVIOUS
  <2>2. /\ r \in RemoteType /\ r.src = remotes[i].src /\ r.dst = remotes[i].dst
        /\ r.display = remotes[i].display /\ ~r.waiting /\ r.session = remotes[i].session
    BY <1>3, <2>1 DEF RemoteType
  <2>3. /\ remotes' = [remotes EXCEPT ![i].socket = FALSE, ![i].timer = FALSE, ![i].waiting = FALSE]
        /\ exported' = [exported EXCEPT ![s].ready = @ - 1] /\ exported[s].ready > 0
        /\ UNCHANGED running
    BY <1>2, <1>7 DEF R!TakeClient
  <2>4. remotes' = [remotes EXCEPT ![i] = r]
    BY <1>3, <2>1, <2>3
  <2>5. exported[s].ready - 1 \in 0 .. MaxReady
    <3>1. exported[s].ready \in 0 .. MaxReady
      BY <1>1, <1>3 DEF ExportType
    <3> QED BY <2>3, <3>1, BoundsAreNat
  <2>6. SameClients
    BY <1>1, <1>3, <2>3, <2>5 DEF SameClients, ExportType
  <2> QED BY <1>4, <2>2, <2>3, <2>4, <2>6, ClientChanges
<1>8. CASE R!SourceCalls(s)
  <2>1. UNCHANGED <<remotes, exported>> /\ running' \in BOOLEAN
    BY <1>8 DEF R!SourceCalls
  <2> QED BY <1>3, <1>4, <2>1, TableStays, SameKept
<1> QED BY <1>5, <1>6, <1>7, <1>8

\* The session of a client ends, whoever its weak reference points to.
LEMMA OfDisposed ==
  ASSUME RemoteInv, NEW i \in Ids, R!SessionDisposed(i)
  PROVE  RemoteInv'
<1>1. /\ remotes \in [R!Known -> RemoteType] /\ weakRefs \in [Ids -> Ids \cup {R!None}]
      /\ displays \in [Display -> DisplayType] /\ running \in BOOLEAN
      /\ UNCHANGED <<displays, exported, creating, spent, running>> /\ SameClients
      /\ weakRefs' = [weakRefs EXCEPT ![i] = R!None]
  BY SameKept DEF RemoteInv, RemoteTypes, R!SessionDisposed
<1>2. \A j \in R!Known : remotes[j].session => weakRefs[j] = j
  BY DEF RemoteInv, R!SessionPointersLive
<1>3. CASE weakRefs[i] \notin R!Known
  <2>1. UNCHANGED remotes
    BY <1>3 DEF R!SessionDisposed
  <2>2. RefsKept(R!Known)
    BY <1>1, <1>2, <1>3 DEF RefsKept
  <2> QED BY <1>1, <2>1, <2>2, TableStays
<1>4. CASE weakRefs[i] \in R!Known
  <2>1. PICK w \in R!Known : w = weakRefs[i]
    BY <1>4
  <2>2. PICK r : r = [remotes[w] EXCEPT !.session = FALSE]
    OBVIOUS
  <2>3. /\ r \in RemoteType /\ r.src = remotes[w].src /\ r.dst = remotes[w].dst
        /\ r.display = remotes[w].display /\ r.timer = remotes[w].timer
        /\ r.started = remotes[w].started /\ r.waiting = remotes[w].waiting /\ ~r.session
    BY <1>1, <2>2 DEF RemoteType
  <2>4. remotes' = [remotes EXCEPT ![w].session = FALSE]
    BY <1>4, <2>1 DEF R!SessionDisposed
  <2>5. remotes' = [remotes EXCEPT ![w] = r]
    BY <1>1, <2>2, <2>4
  <2>6. RefsKept(R!Known \ {w})
    BY <1>1, <1>2, <2>1 DEF RefsKept
  <2>7. r.started /\ r.waiting => r.dst # R!None /\ r.timer
    BY <2>3 DEF RemoteInv, R!RedirectionsTimed
  <2> QED BY <1>1, <2>3, <2>5, <2>6, <2>7, ClientChanges
<1> QED BY <1>3, <1>4

\* A connection shows the id of a client.
LEMMA OfRedirected ==
  ASSUME RemoteInv, NEW i \in Ids, R!IncomingRedirectedConnection(i)
  PROVE  RemoteInv'
<1>1. /\ remotes \in [R!Known -> RemoteType] /\ i \in R!Known /\ displays \in [Display -> DisplayType]
      /\ exported \in [DOMAIN exported -> ExportType]
      /\ UNCHANGED <<displays, creating, weakRefs, spent>>
  BY DEF RemoteInv, RemoteTypes, R!IncomingRedirectedConnection
<1>2. RefsKept(R!Known) /\ RefsKept(R!Known \ {i}) /\ (remotes[i].session => weakRefs'[i] = i)
  BY <1>1, SameKept DEF RefsKept
<1>3. CASE remotes[i].dst = R!None
  <2>1. UNCHANGED <<remotes, exported>> /\ running' \in BOOLEAN
    BY <1>3 DEF R!IncomingRedirectedConnection
  <2> QED BY <1>1, <1>2, <2>1, TableStays, SameKept
<1>4. CASE remotes[i].dst # R!None
  <2>1. PICK rdstls \in BOOLEAN :
          remotes' = [remotes EXCEPT ![i].socket = TRUE, ![i].creds = i \in Windows /\ ~rdstls]
    BY <1>4 DEF R!IncomingRedirectedConnection
  <2>2. PICK b \in BOOLEAN : b = (i \in Windows /\ ~rdstls)
    <3>1. CASE i \in Windows /\ ~rdstls
      <4>1. TRUE = (i \in Windows /\ ~rdstls)
        BY <3>1
      <4> QED BY <4>1
    <3>2. CASE ~(i \in Windows /\ ~rdstls)
      <4>1. FALSE = (i \in Windows /\ ~rdstls)
        BY <3>2
      <4> QED BY <4>1
    <3> QED BY <3>1, <3>2
  <2>3. PICK r : r = [remotes[i] EXCEPT !.socket = TRUE, !.creds = b]
    OBVIOUS
  <2>4. /\ r \in RemoteType /\ r.src = remotes[i].src /\ r.dst = remotes[i].dst
        /\ r.display = remotes[i].display /\ r.timer = remotes[i].timer
        /\ r.started = remotes[i].started /\ r.waiting = remotes[i].waiting
        /\ r.session = remotes[i].session
    BY <1>1, <2>3 DEF RemoteType
  <2>5. remotes' = [remotes EXCEPT ![i] = r]
    <3>1. remotes' = [remotes EXCEPT ![i].socket = TRUE, ![i].creds = b]
      BY <2>1, <2>2
    <3> QED BY <1>1, <2>3, <3>1
  <2>6. PICK s : s = remotes[i].dst
    OBVIOUS
  <2>7. s \in DOMAIN exported
    BY <1>1, <1>4, <2>6 DEF RemoteInv, R!ObjectsAgree
  <2>8. /\ exported' = [exported EXCEPT ![s].ready = @ + 1] /\ exported[s].ready < MaxReady
        /\ UNCHANGED running
    BY <1>4, <2>6 DEF R!IncomingRedirectedConnection
  <2>9. exported[s].ready + 1 \in 0 .. MaxReady
    <3>1. exported[s].ready \in 0 .. MaxReady
      BY <1>1, <2>7 DEF ExportType
    <3> QED BY <2>8, <3>1, BoundsAreNat
  <2>10. SameClients
    BY <1>1, <2>7, <2>8, <2>9 DEF SameClients, ExportType
  <2>11. r.started /\ r.waiting => r.dst # R!None /\ r.timer
    BY <1>1, <2>4 DEF RemoteInv, R!RedirectionsTimed
  <2> QED BY <1>1, <1>2, <2>4, <2>5, <2>8, <2>10, <2>11, ClientChanges
<1> QED BY <1>3, <1>4

\* Whom a display calls, once nothing calls client i any more.
LEMMA DisconnectedCalls ==
  ASSUME NEW ds \in [Display -> DisplayType], NEW i \in Ids
  PROVE  /\ R!Disconnected(ds, i) \in [Display -> DisplayType]
         /\ \A d \in Display :
              /\ R!Disconnected(ds, i)[d].id = ds[d].id
              /\ R!Disconnected(ds, i)[d].session = ds[d].session
              /\ R!Disconnected(ds, i)[d].notify \subseteq ds[d].notify
              /\ \A k \in Signals : <<k, i>> \notin R!Disconnected(ds, i)[d].notify
<1>1. ASSUME NEW d \in Display
      PROVE  /\ R!Disconnected(ds, i)[d] \in DisplayType
             /\ R!Disconnected(ds, i)[d].id = ds[d].id
             /\ R!Disconnected(ds, i)[d].session = ds[d].session
             /\ R!Disconnected(ds, i)[d].notify \subseteq ds[d].notify
             /\ \A k \in Signals : <<k, i>> \notin R!Disconnected(ds, i)[d].notify
  <2>1. PICK N : N = {n \in ds[d].notify : n[2] # i}
    OBVIOUS
  <2>2. R!Disconnected(ds, i)[d] = [ds[d] EXCEPT !.notify = N]
    BY <2>1 DEF R!Disconnected
  <2>3. ds[d] \in DisplayType
    OBVIOUS
  <2>4. N \subseteq ds[d].notify /\ \A k \in Signals : <<k, i>> \notin N
    BY <2>1
  <2>5. [ds[d] EXCEPT !.notify = N] \in DisplayType
    BY <2>3, <2>4 DEF DisplayType
  <2>6. /\ [ds[d] EXCEPT !.notify = N].notify = N
        /\ [ds[d] EXCEPT !.notify = N].id = ds[d].id
        /\ [ds[d] EXCEPT !.notify = N].session = ds[d].session
    BY <2>3 DEF DisplayType
  <2> QED BY <2>2, <2>4, <2>5, <2>6
<1>2. R!Disconnected(ds, i) \in [Display -> DisplayType]
  <2>1. R!Disconnected(ds, i) = [d \in Display |-> R!Disconnected(ds, i)[d]]
    BY DEF R!Disconnected
  <2> QED BY <1>1, <2>1
<1> QED BY <1>1, <1>2

\* A client that leaves the table takes its objects off the bus and its calls off the displays.
LEMMA FreeKeeps ==
  ASSUME RemoteInv, NEW i \in Ids, i \in R!Known, R!Free(i),
         NEW ds \in [Display -> DisplayType],
         \A d \in Display : ds[d].notify \subseteq displays[d].notify,
         displays' = R!Disconnected(ds, i), creating' \subseteq creating,
         UNCHANGED <<weakRefs, spent, running>>
  PROVE  RemoteInv'
<1>1. /\ remotes \in [R!Known -> RemoteType]
      /\ exported \in [DOMAIN exported -> ExportType] /\ R!Known \subseteq Ids
  BY DEF RemoteInv, RemoteTypes
<1>2. /\ R!Known' = R!Known \ {i} /\ \A j \in R!Known' : remotes'[j] = remotes[j]
      /\ remotes' \in [R!Known' -> RemoteType]
  BY <1>1 DEF R!Free, R!Without, R!Known
<1>3. /\ DOMAIN exported' = DOMAIN exported \ {remotes[i].src, remotes[i].dst}
      /\ \A s \in DOMAIN exported' : exported'[s] = exported[s]
      /\ exported' \in [DOMAIN exported' -> ExportType]
  BY <1>1 DEF R!Free, R!Without
<1>4. /\ displays' \in [Display -> DisplayType]
      /\ \A d \in Display : displays'[d].notify \subseteq displays[d].notify
      /\ \A d \in Display : \A k \in Signals : <<k, i>> \notin displays'[d].notify
  BY DisconnectedCalls
<1>6. RemoteTypes'
  BY <1>2, <1>3, <1>4 DEF RemoteInv, RemoteTypes
<1>7. CreatingHasNone'
  BY <1>2 DEF RemoteInv, CreatingHasNone
<1>8. SignalsSound'
  <2> SUFFICES ASSUME NEW e \in Display, NEW j \in Ids
               PROVE  /\ <<"remote-id", j>> \in displays'[e].notify =>
                           j \in R!Known' /\ remotes'[j].display = e /\ remotes'[j].dst # R!None
                      /\ <<"session-id", j>> \in displays'[e].notify =>
                           j \in R!Known' /\ remotes'[j].display = e /\ remotes'[j].dst = R!None
                           /\ j \notin creating'
    BY DEF SignalsSound
  <2>1. \A k \in Signals : <<k, j>> \in displays'[e].notify => <<k, j>> \in displays[e].notify /\ j # i
    BY <1>4
  <2>2. j \in R!Known /\ j # i => j \in R!Known' /\ remotes'[j] = remotes[j]
    BY <1>2
  <2> QED BY <2>1, <2>2 DEF RemoteInv, SignalsSound, Signals
<1>9. R!ObjectsAgree'
  <2>1. ASSUME NEW s \in DOMAIN exported'
        PROVE  exported'[s].client \in R!Known' /\ s \in {remotes'[exported'[s].client].src, remotes'[exported'[s].client].dst}
    BY <1>2, <1>3 DEF RemoteInv, R!ObjectsAgree
  <2>2. ASSUME NEW j \in R!Known', NEW s \in {remotes'[j].src, remotes'[j].dst} \ {R!None}
        PROVE  s \in DOMAIN exported' /\ exported'[s].client = j
    <3>1. s \in DOMAIN exported /\ exported[s].client = j /\ j # i
      BY <1>2 DEF RemoteInv, R!ObjectsAgree
    <3>2. s \notin {remotes[i].src, remotes[i].dst}
      BY <2>2, <3>1 DEF RemoteInv, R!ObjectsAgree
    <3> QED BY <1>3, <3>1, <3>2
  <2>3. \A j \in R!Known' : remotes'[j].src # R!None =>
          remotes'[j].src # remotes'[j].dst /\ remotes'[j].dst # R!None
    BY <1>2 DEF RemoteInv, R!ObjectsAgree
  <2> QED BY <2>1, <2>2, <2>3 DEF R!ObjectsAgree
<1>10. R!RedirectionsTimed' /\ R!SessionPointersLive'
  BY <1>1, <1>2 DEF RemoteInv, R!RedirectionsTimed, R!SessionPointersLive
<1> QED BY <1>6, <1>7, <1>8, <1>9, <1>10 DEF RemoteInv

\* on_create_remote_display_finished with an error, and abort_handover.
LEMMA OfFrees ==
  ASSUME RemoteInv, NEW i \in Ids, R!CreateFailed(i) \/ R!AbortHandover(i)
  PROVE  RemoteInv'
<1>1. /\ i \in R!Known /\ R!Free(i) /\ displays' = R!Disconnected(displays, i)
      /\ creating' \subseteq creating /\ UNCHANGED <<weakRefs, spent, running>>
  BY DEF R!CreateFailed, R!AbortHandover
<1>2. displays \in [Display -> DisplayType]
  BY DEF RemoteInv, RemoteTypes
<1> QED BY <1>1, <1>2, FreeKeeps

\* The display d of GDM, which has the session s, is given to the client i.
LEMMA RegisteredKeeps ==
  ASSUME RemoteInv, NEW i \in Ids, NEW d \in Display, NEW s \in Sessions, s \notin DOMAIN exported,
         NEW r \in RemoteType, r.src = R!None, r.display = d,
         i \in R!Known => r.src = remotes[i].src /\ r.dst = remotes[i].dst,
         i \notin R!Known => r.dst = R!None,
         remotes' = [j \in R!Known \cup {i} |-> IF j = i THEN R!Registered(r, s) ELSE remotes[j]],
         exported' = R!Extended(exported, s, [client |-> i, ready |-> 0]),
         displays' \in [Display -> DisplayType],
         \A e \in Display : \A k \in Signals, j \in Ids : <<k, j>> \in displays'[e].notify =>
           \/ e = d /\ k = "remote-id" /\ j = i
           \/ j # i /\ <<k, j>> \in displays[e].notify,
         creating' \subseteq creating, i \notin creating',
         spent \subseteq spent', i \in spent', spent' \subseteq Ids, UNCHANGED running,
         RefsKept(R!Known \ {i}), r.session => weakRefs'[i] = i
  PROVE  RemoteInv'
<1>1. /\ remotes \in [R!Known -> RemoteType] /\ running \in BOOLEAN
      /\ exported \in [DOMAIN exported -> ExportType] /\ R!Known \subseteq Ids
      /\ R!Known \subseteq spent /\ DOMAIN exported \subseteq Sessions /\ creating \subseteq spent
  BY DEF RemoteInv, RemoteTypes
<1>2. PICK q : q = R!Registered(r, s)
  OBVIOUS
<1>3. q \in RemoteType /\ q.src = r.dst /\ q.dst = s /\ q.display = d /\ q.started = FALSE
      /\ q.session = r.session
  BY <1>2 DEF R!Registered, RemoteType
<1>4. /\ R!Known' = R!Known \cup {i} /\ remotes'[i] = q /\ \A j \in R!Known : j # i => remotes'[j] = remotes[j]
      /\ remotes' \in [R!Known' -> RemoteType]
  BY <1>1, <1>2, <1>3 DEF R!Known
<1>5. /\ DOMAIN exported' = DOMAIN exported \cup {s} /\ exported'[s].client = i
      /\ \A t \in DOMAIN exported : exported'[t] = exported[t]
      /\ exported' \in [DOMAIN exported' -> ExportType]
  <2>1. PICK x : x = [client |-> i, ready |-> 0]
    OBVIOUS
  <2>2. x \in ExportType /\ x.client = i
    BY <2>1, BoundsAreNat DEF ExportType
  <2>3. exported' = R!Extended(exported, s, x)
    BY <2>1
  <2> QED BY <1>1, <2>2, <2>3 DEF R!Extended
<1>6. RemoteTypes'
  BY <1>1, <1>4, <1>5 DEF RemoteTypes, RefsKept
<1>7. CreatingHasNone'
  BY <1>4 DEF RemoteInv, CreatingHasNone
<1>8. SignalsSound'
  <2> SUFFICES ASSUME NEW e \in Display, NEW j \in Ids
               PROVE  /\ <<"remote-id", j>> \in displays'[e].notify =>
                           j \in R!Known' /\ remotes'[j].display = e /\ remotes'[j].dst # R!None
                      /\ <<"session-id", j>> \in displays'[e].notify =>
                           j \in R!Known' /\ remotes'[j].display = e /\ remotes'[j].dst = R!None
                           /\ j \notin creating'
    BY DEF SignalsSound
  <2>1. CASE j = i
    BY <1>3, <1>4, <2>1, NoneIsNone DEF Signals
  <2>2. CASE j # i
    <3>1. \A k \in Signals : <<k, j>> \in displays'[e].notify => <<k, j>> \in displays[e].notify
      BY <2>2
    <3>2. j \in R!Known => j \in R!Known' /\ remotes'[j] = remotes[j]
      BY <1>4, <2>2
    <3> QED BY <3>1, <3>2 DEF RemoteInv, SignalsSound, Signals
  <2> QED BY <2>1, <2>2
<1>9. R!ObjectsAgree'
  <2>1. ASSUME NEW t \in DOMAIN exported'
        PROVE  exported'[t].client \in R!Known' /\ t \in {remotes'[exported'[t].client].src, remotes'[exported'[t].client].dst}
    <3>1. CASE t = s
      BY <1>3, <1>4, <1>5, <3>1
    <3>2. CASE t # s
      <4>1. /\ t \in DOMAIN exported /\ exported'[t] = exported[t] /\ exported[t].client \in R!Known
            /\ t \in {remotes[exported[t].client].src, remotes[exported[t].client].dst} /\ t # R!None
        BY <1>1, <1>5, <3>2, NoneIsNone DEF RemoteInv, R!ObjectsAgree
      <4> QED BY <1>3, <1>4, <4>1
    <3> QED BY <3>1, <3>2
  <2>2. ASSUME NEW j \in R!Known', NEW t \in {remotes'[j].src, remotes'[j].dst} \ {R!None}
        PROVE  t \in DOMAIN exported' /\ exported'[t].client = j
    <3>1. CASE j = i /\ t = s
      BY <1>5, <3>1
    <3>2. CASE j = i /\ t # s
      <4>1. t = r.dst /\ t # R!None
        BY <1>3, <1>4, <2>2, <3>2
      <4>2. i \in R!Known /\ t = remotes[i].dst
        BY <4>1
      <4>3. t \in DOMAIN exported /\ exported[t].client = i
        BY <4>1, <4>2 DEF RemoteInv, R!ObjectsAgree
      <4> QED BY <1>5, <3>2, <4>3
    <3>3. CASE j # i
      <4>1. j \in R!Known /\ remotes'[j] = remotes[j]
        BY <1>4, <3>3
      <4>2. t \in DOMAIN exported /\ exported[t].client = j
        BY <2>2, <4>1 DEF RemoteInv, R!ObjectsAgree
      <4> QED BY <1>5, <4>2
    <3> QED BY <3>1, <3>2, <3>3
  <2>3. ASSUME NEW j \in R!Known', remotes'[j].src # R!None
        PROVE  remotes'[j].src # remotes'[j].dst /\ remotes'[j].dst # R!None
    <3>1. CASE j = i
      <4>1. i \in R!Known /\ r.dst = remotes[i].dst /\ r.dst # R!None
        BY <1>3, <1>4, <2>3, <3>1
      <4>2. r.dst \in DOMAIN exported
        BY <4>1 DEF RemoteInv, R!ObjectsAgree
      <4> QED BY <1>3, <1>4, <3>1, <4>2, NoneIsNone
    <3>2. CASE j # i
      BY <1>4, <2>3, <3>2 DEF RemoteInv, R!ObjectsAgree
    <3> QED BY <3>1, <3>2
  <2> QED BY <2>1, <2>2, <2>3 DEF R!ObjectsAgree
<1>10. R!RedirectionsTimed' /\ R!SessionPointersLive'
  BY <1>3, <1>4 DEF RemoteInv, R!RedirectionsTimed, R!SessionPointersLive, RefsKept
<1> QED BY <1>6, <1>7, <1>8, <1>9, <1>10 DEF RemoteInv

\* RegisterForDisplay: a display d of GDM, whose session is given, for a client of the table ...
LEMMA RegisterForKnown ==
  ASSUME RemoteInv, NEW i \in Ids, i \in R!Known, remotes[i].src = R!None,
         NEW d \in Display, NEW s \in Sessions, s \notin DOMAIN exported,
         R!RegisterForDisplay(remotes, [displays EXCEPT ![d] = [R!NoDisplay EXCEPT !.id = i, !.session = s]],
                              i, d),
         creating' \subseteq creating, i \notin creating', UNCHANGED <<spent, weakRefs, running>>
  PROVE  RemoteInv'
<1>1. /\ remotes \in [R!Known -> RemoteType] /\ displays \in [Display -> DisplayType]
      /\ R!Known \subseteq spent /\ spent \subseteq Ids
  BY DEF RemoteInv, RemoteTypes
<1>2. PICK r : r = [remotes[i] EXCEPT !.display = d]
  OBVIOUS
<1>3. /\ r \in RemoteType /\ r.display = d /\ r.src = remotes[i].src /\ r.dst = remotes[i].dst
      /\ r.session = remotes[i].session
  BY <1>1, <1>2 DEF RemoteType
<1>22. RefsKept(R!Known \ {i}) /\ (r.session => weakRefs'[i] = i)
  BY <1>3, SameKept DEF RefsKept
<1>4. PICK p : p = [R!NoDisplay EXCEPT !.id = i, !.session = s]
  OBVIOUS
<1>5. p \in DisplayType /\ p.session = s /\ p.notify = {}
  BY <1>4 DEF R!NoDisplay, DisplayType
<1>6. PICK ds : ds = [displays EXCEPT ![d] = p]
  OBVIOUS
<1>7. /\ ds \in [Display -> DisplayType] /\ ds[d] = p
      /\ \A e \in Display : ds[e].notify \subseteq displays[e].notify
  BY <1>1, <1>5, <1>6
<1>8. R!RegisterForDisplay(remotes, ds, i, d)
  BY <1>4, <1>6
<1>9. PICK es : es = R!Disconnected(ds, i)
  OBVIOUS
<1>10. /\ es \in [Display -> DisplayType] /\ es[d].session = s
       /\ \A e \in Display : /\ es[e].notify \subseteq displays[e].notify
                             /\ \A k \in Signals : <<k, i>> \notin es[e].notify
       /\ es[d].notify = {}
  <2>1. /\ es \in [Display -> DisplayType]
        /\ \A e \in Display : /\ es[e].session = ds[e].session
                              /\ es[e].notify \subseteq ds[e].notify
                              /\ \A k \in Signals : <<k, i>> \notin es[e].notify
    BY <1>7, <1>9, DisconnectedCalls
  <2> QED BY <1>5, <1>7, <2>1
<1>11. PICK c : c = [remotes EXCEPT ![i] = r]
  OBVIOUS
<1>12. c = [remotes EXCEPT ![i].display = d]
  BY <1>1, <1>2, <1>11
<1>13. R!Register(c, es, i, d)
  BY <1>5, <1>7, <1>8, <1>9, <1>12, NoneIsNone DEF R!RegisterForDisplay
<1>14. /\ remotes' = [c EXCEPT ![i] = R!Registered(c[i], s)]
       /\ exported' = R!Extended(exported, s, [client |-> i, ready |-> 0])
  BY <1>10, <1>13 DEF R!Register
<1>15. displays' = [es EXCEPT ![d].notify = es[d].notify \cup {<<"remote-id", i>>}]
  BY <1>13 DEF R!Register
<1>16. remotes' = [j \in R!Known \cup {i} |-> IF j = i THEN R!Registered(r, s) ELSE remotes[j]]
  <2>1. c[i] = r /\ DOMAIN c = R!Known /\ \A j \in R!Known : j # i => c[j] = remotes[j]
    BY <1>1, <1>11 DEF R!Known
  <2> QED BY <1>14, <2>1
<1>17. PICK q : q = [es[d] EXCEPT !.notify = {<<"remote-id", i>>}]
  OBVIOUS
<1>18. q \in DisplayType /\ q.notify = {<<"remote-id", i>>}
  BY <1>10, <1>17 DEF DisplayType, Signals
<1>19. displays' = [es EXCEPT ![d] = q]
  BY <1>10, <1>15, <1>17
<1>20. displays' \in [Display -> DisplayType]
  BY <1>10, <1>18, <1>19
<1>21. ASSUME NEW e \in Display, NEW k \in Signals, NEW j \in Ids, <<k, j>> \in displays'[e].notify
       PROVE  \/ e = d /\ k = "remote-id" /\ j = i
              \/ j # i /\ <<k, j>> \in displays[e].notify
  BY <1>10, <1>18, <1>19, <1>21
<1>23. /\ creating' \subseteq creating /\ i \notin creating' /\ spent \subseteq spent'
       /\ i \in spent' /\ spent' \subseteq Ids /\ UNCHANGED running
  BY <1>1
<1>24. /\ r \in RemoteType /\ r.src = R!None /\ r.display = d
       /\ i \in R!Known => r.src = remotes[i].src /\ r.dst = remotes[i].dst
       /\ i \notin R!Known => r.dst = R!None
  BY <1>1, <1>3
<1>25. exported' = R!Extended(exported, s, [client |-> i, ready |-> 0])
  BY <1>14
<1> QED BY <1>16, <1>20, <1>21, <1>22, <1>23, <1>24, <1>25, RegisteredKeeps

\* ... or for one that GDM alone knows.
LEMMA RegisterForNew ==
  ASSUME RemoteInv, NEW i \in Ids, i \notin spent,
         NEW d \in Display, NEW s \in Sessions, s \notin DOMAIN exported,
         R!RegisterForDisplay(R!Extended(remotes, i, R!New(FALSE)),
                              [displays EXCEPT ![d] = [R!NoDisplay EXCEPT !.id = i, !.session = s]], i, d),
         spent' = spent \cup {i}, R!Allocated(i, FALSE), UNCHANGED <<creating, running>>
  PROVE  RemoteInv'
<1>1. /\ remotes \in [R!Known -> RemoteType] /\ displays \in [Display -> DisplayType]
      /\ R!Known \subseteq spent /\ spent \subseteq Ids /\ i \notin R!Known /\ i \notin creating
  BY DEF RemoteInv, RemoteTypes
<1>2. PICK r : r = [R!New(FALSE) EXCEPT !.display = d]
  OBVIOUS
<1>3. /\ r \in RemoteType /\ r.display = d /\ r.src = R!None /\ r.dst = R!None /\ ~r.session
  BY <1>2 DEF RemoteType, R!New
<1>22. RefsKept(R!Known \ {i}) /\ (r.session => weakRefs'[i] = i)
  BY <1>1, <1>3, AllocatedKeeps DEF RefsKept
<1>4. PICK p : p = [R!NoDisplay EXCEPT !.id = i, !.session = s]
  OBVIOUS
<1>5. p \in DisplayType /\ p.session = s /\ p.notify = {}
  BY <1>4 DEF R!NoDisplay, DisplayType
<1>6. PICK ds : ds = [displays EXCEPT ![d] = p]
  OBVIOUS
<1>7. /\ ds \in [Display -> DisplayType] /\ ds[d] = p
      /\ \A e \in Display : ds[e].notify \subseteq displays[e].notify
  BY <1>1, <1>5, <1>6
<1>8. R!RegisterForDisplay(R!Extended(remotes, i, R!New(FALSE)), ds, i, d)
  BY <1>4, <1>6
<1>9. PICK es : es = R!Disconnected(ds, i)
  OBVIOUS
<1>10. /\ es \in [Display -> DisplayType] /\ es[d].session = s
       /\ \A e \in Display : /\ es[e].notify \subseteq displays[e].notify
                             /\ \A k \in Signals : <<k, i>> \notin es[e].notify
       /\ es[d].notify = {}
  <2>1. /\ es \in [Display -> DisplayType]
        /\ \A e \in Display : /\ es[e].session = ds[e].session
                              /\ es[e].notify \subseteq ds[e].notify
                              /\ \A k \in Signals : <<k, i>> \notin es[e].notify
    BY <1>7, <1>9, DisconnectedCalls
  <2> QED BY <1>5, <1>7, <2>1
<1>11. PICK c : c = [j \in R!Known \cup {i} |-> IF j = i THEN r ELSE remotes[j]]
  OBVIOUS
<1>12. c = [R!Extended(remotes, i, R!New(FALSE)) EXCEPT ![i].display = d]
  BY <1>1, <1>2, <1>11 DEF R!Extended, R!Known
<1>13. R!Register(c, es, i, d)
  BY <1>5, <1>7, <1>8, <1>9, <1>12, NoneIsNone DEF R!RegisterForDisplay
<1>14. /\ remotes' = [c EXCEPT ![i] = R!Registered(c[i], s)]
       /\ exported' = R!Extended(exported, s, [client |-> i, ready |-> 0])
  BY <1>10, <1>13 DEF R!Register
<1>15. displays' = [es EXCEPT ![d].notify = es[d].notify \cup {<<"remote-id", i>>}]
  BY <1>13 DEF R!Register
<1>16. remotes' = [j \in R!Known \cup {i} |-> IF j = i THEN R!Registered(r, s) ELSE remotes[j]]
  <2>1. c[i] = r /\ DOMAIN c = R!Known \cup {i} /\ \A j \in R!Known : j # i => c[j] = remotes[j]
    BY <1>1, <1>11
  <2> QED BY <1>14, <2>1
<1>17. PICK q : q = [es[d] EXCEPT !.notify = {<<"remote-id", i>>}]
  OBVIOUS
<1>18. q \in DisplayType /\ q.notify = {<<"remote-id", i>>}
  BY <1>10, <1>17 DEF DisplayType, Signals
<1>19. displays' = [es EXCEPT ![d] = q]
  BY <1>10, <1>15, <1>17
<1>20. displays' \in [Display -> DisplayType]
  BY <1>10, <1>18, <1>19
<1>21. ASSUME NEW e \in Display, NEW k \in Signals, NEW j \in Ids, <<k, j>> \in displays'[e].notify
       PROVE  \/ e = d /\ k = "remote-id" /\ j = i
              \/ j # i /\ <<k, j>> \in displays[e].notify
  BY <1>10, <1>18, <1>19, <1>21
<1>23. /\ creating' \subseteq creating /\ i \notin creating' /\ spent \subseteq spent'
       /\ i \in spent' /\ spent' \subseteq Ids /\ UNCHANGED running
  BY <1>1
<1>24. /\ r \in RemoteType /\ r.src = R!None /\ r.display = d
       /\ i \in R!Known => r.src = remotes[i].src /\ r.dst = remotes[i].dst
       /\ i \notin R!Known => r.dst = R!None
  BY <1>1, <1>3
<1>25. exported' = R!Extended(exported, s, [client |-> i, ready |-> 0])
  BY <1>14
<1> QED BY <1>16, <1>20, <1>21, <1>22, <1>23, <1>24, <1>25, RegisteredKeeps

\* A client whose display has no session yet waits for it.
LEMMA RegisterWaits ==
  ASSUME RemoteInv, NEW i \in Ids, i \in creating, i \in R!Known, NEW d \in Display,
         R!RegisterForDisplay(remotes, [displays EXCEPT ![d] = [R!NoDisplay EXCEPT !.id = i, !.session = R!None]],
                              i, d),
         creating' = creating \ {i}, UNCHANGED <<spent, weakRefs, running>>
  PROVE  RemoteInv'
<1>1. /\ remotes \in [R!Known -> RemoteType] /\ displays \in [Display -> DisplayType]
      /\ R!Known \subseteq spent /\ spent \subseteq Ids /\ remotes[i].dst = R!None
  BY DEF RemoteInv, RemoteTypes, CreatingHasNone
<1>2. PICK r : r = [remotes[i] EXCEPT !.display = d]
  OBVIOUS
<1>3. /\ r \in RemoteType /\ r.display = d /\ r.src = remotes[i].src /\ r.dst = remotes[i].dst
      /\ r.started = remotes[i].started /\ r.timer = remotes[i].timer
      /\ r.waiting = remotes[i].waiting /\ r.session = remotes[i].session
  BY <1>1, <1>2 DEF RemoteType
<1>4. PICK p : p = [R!NoDisplay EXCEPT !.id = i, !.session = R!None]
  OBVIOUS
<1>5. p \in DisplayType /\ p.session = R!None /\ p.notify = {}
  BY <1>4 DEF R!NoDisplay, DisplayType
<1>6. PICK ds : ds = [displays EXCEPT ![d] = p]
  OBVIOUS
<1>7. /\ ds \in [Display -> DisplayType] /\ ds[d] = p
      /\ \A e \in Display : ds[e].notify \subseteq displays[e].notify
  BY <1>1, <1>5, <1>6
<1>8. R!RegisterForDisplay(remotes, ds, i, d)
  BY <1>4, <1>6
<1>9. PICK es : es = R!Disconnected(ds, i)
  OBVIOUS
<1>10. /\ es \in [Display -> DisplayType]
       /\ \A e \in Display : /\ es[e].notify \subseteq displays[e].notify
                             /\ \A k \in Signals : <<k, i>> \notin es[e].notify
  BY <1>7, <1>9, DisconnectedCalls
<1>11. /\ remotes' = [remotes EXCEPT ![i].display = d] /\ UNCHANGED exported
       /\ displays' = [es EXCEPT ![d].notify = {<<"session-id", i>>}]
  BY <1>5, <1>7, <1>8, <1>9 DEF R!RegisterForDisplay
<1>12. remotes' = [remotes EXCEPT ![i] = r]
  BY <1>1, <1>2, <1>11
<1>13. /\ R!Known' = R!Known /\ remotes'[i] = r /\ \A j \in R!Known : j # i => remotes'[j] = remotes[j]
       /\ remotes' \in [R!Known -> RemoteType]
  BY <1>1, <1>3, <1>12 DEF R!Known
<1>14. \A j \in R!Known : /\ remotes'[j].src = remotes[j].src /\ remotes'[j].dst = remotes[j].dst
                          /\ remotes'[j].started = remotes[j].started
                          /\ remotes'[j].timer = remotes[j].timer
                          /\ remotes'[j].waiting = remotes[j].waiting
                          /\ remotes'[j].session = remotes[j].session
  BY <1>3, <1>13
<1>15. PICK q : q = [es[d] EXCEPT !.notify = {<<"session-id", i>>}]
  OBVIOUS
<1>16. q \in DisplayType /\ q.notify = {<<"session-id", i>>}
  BY <1>10, <1>15 DEF DisplayType, Signals
<1>17. displays' = [es EXCEPT ![d] = q]
  BY <1>10, <1>11, <1>15
<1>18. displays' \in [Display -> DisplayType]
  BY <1>10, <1>16, <1>17
<1>19. ASSUME NEW e \in Display, NEW k \in Signals, NEW j \in Ids, <<k, j>> \in displays'[e].notify
       PROVE  \/ e = d /\ k = "session-id" /\ j = i
              \/ j # i /\ <<k, j>> \in displays[e].notify
  BY <1>10, <1>16, <1>17, <1>19
<1>20. RemoteTypes'
  BY <1>1, <1>11, <1>13, <1>18 DEF RemoteInv, RemoteTypes
<1>21. CreatingHasNone'
  BY <1>13, <1>14 DEF RemoteInv, CreatingHasNone
<1>22. SignalsSound'
  <2> SUFFICES ASSUME NEW e \in Display, NEW j \in Ids
               PROVE  /\ <<"remote-id", j>> \in displays'[e].notify =>
                           j \in R!Known' /\ remotes'[j].display = e /\ remotes'[j].dst # R!None
                      /\ <<"session-id", j>> \in displays'[e].notify =>
                           j \in R!Known' /\ remotes'[j].display = e /\ remotes'[j].dst = R!None
                           /\ j \notin creating'
    BY DEF SignalsSound
  <2>1. CASE j = i
    <3>1. <<"remote-id", j>> \notin displays'[e].notify
      BY <1>19, <2>1 DEF Signals
    <3>2. <<"session-id", j>> \in displays'[e].notify => e = d
      BY <1>19, <2>1 DEF Signals
    <3> QED BY <1>1, <1>3, <1>13, <2>1, <3>1, <3>2
  <2>2. CASE j # i
    <3>1. \A k \in Signals : <<k, j>> \in displays'[e].notify => <<k, j>> \in displays[e].notify
      BY <1>19, <2>2
    <3>2. j \in R!Known => j \in R!Known' /\ remotes'[j] = remotes[j]
      BY <1>13, <2>2
    <3> QED BY <3>1, <3>2 DEF RemoteInv, SignalsSound, Signals
  <2> QED BY <2>1, <2>2
<1>23. R!ObjectsAgree'
  BY <1>11, <1>13, <1>14 DEF RemoteInv, R!ObjectsAgree
<1>24. R!RedirectionsTimed' /\ R!SessionPointersLive'
  BY <1>13, <1>14 DEF RemoteInv, R!RedirectionsTimed, R!SessionPointersLive
<1> QED BY <1>20, <1>21, <1>22, <1>23, <1>24 DEF RemoteInv

\* What ObjectAdded does with the display d, the client i and the session s.
Added(d, i, s) ==
  \/ i \in creating \cap R!Known /\ creating' = creating \ {i} /\ UNCHANGED <<spent, weakRefs>>
     /\ R!RegisterForDisplay(remotes, [displays EXCEPT ![d] = [R!NoDisplay EXCEPT !.id = i, !.session = s]], i, d)
  \/ i \in R!Known /\ R!AtGreeter(i) /\ s # R!None /\ UNCHANGED <<creating, spent, weakRefs>>
     /\ R!RegisterForDisplay(remotes, [displays EXCEPT ![d] = [R!NoDisplay EXCEPT !.id = i, !.session = s]], i, d)
  \/ i \notin spent /\ s # R!None /\ spent' = spent \cup {i} /\ R!Allocated(i, FALSE) /\ UNCHANGED creating
     /\ R!RegisterForDisplay(R!Extended(remotes, i, R!New(FALSE)),
          [displays EXCEPT ![d] = [R!NoDisplay EXCEPT !.id = i, !.session = s]], i, d)

\* on_gdm_object_added.
LEMMA OfAdded ==
  ASSUME RemoteInv, NEW d \in Display, R!ObjectAdded(d)
  PROVE  RemoteInv'
<1>1. \E i \in Ids, s \in Sessions \cup {R!None} :
        (s # R!None => s \notin DOMAIN exported) /\ Added(d, i, s)
  BY DEF R!ObjectAdded, Added
<1>2. PICK i \in Ids, s \in Sessions \cup {R!None} :
        (s # R!None => s \notin DOMAIN exported) /\ Added(d, i, s)
  BY <1>1
<1>3. UNCHANGED running
  BY DEF R!ObjectAdded
<1> DEFINE A == R!RegisterForDisplay(remotes, [displays EXCEPT ![d] = [R!NoDisplay EXCEPT !.id = i, !.session = s]], i, d)
           B == R!RegisterForDisplay(R!Extended(remotes, i, R!New(FALSE)),
                  [displays EXCEPT ![d] = [R!NoDisplay EXCEPT !.id = i, !.session = s]], i, d)
<1>4. CASE i \in creating \cap R!Known /\ creating' = creating \ {i} /\ UNCHANGED <<spent, weakRefs>> /\ A
  <2>1. remotes[i].src = R!None
    BY <1>4 DEF RemoteInv, CreatingHasNone, R!ObjectsAgree
  <2>2. CASE s = R!None
    BY <1>3, <1>4, <2>2, RegisterWaits
  <2>3. CASE s # R!None
    <3>1. s \in Sessions /\ s \notin DOMAIN exported
      BY <1>2, <2>3
    <3> QED BY <1>3, <1>4, <2>1, <3>1, RegisterForKnown
  <2> QED BY <2>2, <2>3
<1>5. CASE i \in R!Known /\ R!AtGreeter(i) /\ s # R!None /\ UNCHANGED <<creating, spent, weakRefs>> /\ A
  <2>1. remotes[i].src = R!None /\ remotes[i].dst # R!None
    BY <1>5 DEF R!AtGreeter
  <2>2. i \notin creating
    BY <1>5, <2>1 DEF RemoteInv, CreatingHasNone
  <2>3. s \in Sessions /\ s \notin DOMAIN exported
    BY <1>2, <1>5
  <2> QED BY <1>3, <1>5, <2>1, <2>2, <2>3, RegisterForKnown
<1>6. CASE i \notin spent /\ s # R!None /\ spent' = spent \cup {i} /\ R!Allocated(i, FALSE)
           /\ UNCHANGED creating /\ B
  <2>1. s \in Sessions /\ s \notin DOMAIN exported
    BY <1>2, <1>6
  <2> QED BY <1>3, <1>6, <2>1, RegisterForNew
<1>7. \/ i \in creating \cap R!Known /\ creating' = creating \ {i} /\ UNCHANGED <<spent, weakRefs>> /\ A
      \/ i \in R!Known /\ R!AtGreeter(i) /\ s # R!None /\ UNCHANGED <<creating, spent, weakRefs>> /\ A
      \/ i \notin spent /\ s # R!None /\ spent' = spent \cup {i} /\ R!Allocated(i, FALSE)
         /\ UNCHANGED creating /\ B
  BY <1>2 DEF Added
<1> HIDE DEF A, B
<1> QED BY <1>4, <1>5, <1>6, <1>7

\* on_gdm_remote_display_session_id_changed.
LEMMA OfSessionIdChanged ==
  ASSUME RemoteInv, NEW d \in Display, R!SessionIdChanged(d)
  PROVE  RemoteInv'
<1>1. /\ remotes \in [R!Known -> RemoteType] /\ displays \in [Display -> DisplayType]
      /\ R!Known \subseteq spent /\ spent \subseteq Ids
  BY DEF RemoteInv, RemoteTypes
<1>2. UNCHANGED <<creating, weakRefs, spent, running>>
  BY DEF R!SessionIdChanged
<1> DEFINE I == {i \in Ids : <<"session-id", i>> \in displays[d].notify}
<1>3. PICK s \in Sessions : s \notin DOMAIN exported /\
        LET ds == [displays EXCEPT ![d].session = s]
            J == {i \in Ids : <<"session-id", i>> \in displays[d].notify}
        IN  IF J = {} THEN displays' = ds /\ UNCHANGED <<remotes, exported>>
            ELSE R!Register(remotes, [ds EXCEPT ![d].notify = {}], CHOOSE i \in J : TRUE, d)
  BY DEF R!SessionIdChanged
<1>4. CASE I = {}
  <2>1. displays' = [displays EXCEPT ![d].session = s] /\ UNCHANGED <<remotes, exported>>
    BY <1>3, <1>4
  <2>2. PICK p : p = [displays[d] EXCEPT !.session = s]
    OBVIOUS
  <2>3. p \in DisplayType /\ p.notify = displays[d].notify
    BY <1>1, <2>2 DEF DisplayType
  <2>4. displays' = [displays EXCEPT ![d] = p]
    BY <1>1, <2>1, <2>2
  <2>5. displays' \in [Display -> DisplayType] /\ \A e \in Display : displays'[e].notify = displays[e].notify
    BY <1>1, <2>3, <2>4
  <2> QED BY <1>2, <2>1, <2>5, TableStays, SameKept DEF RemoteInv, RemoteTypes
<1>5. CASE I # {}
  <2>1. PICK i : i = CHOOSE j \in I : TRUE
    OBVIOUS
  <2>2. i \in Ids /\ <<"session-id", i>> \in displays[d].notify
    BY <1>5, <2>1
  <2>3. /\ i \in R!Known /\ remotes[i].display = d /\ remotes[i].dst = R!None /\ i \notin creating
        /\ remotes[i].src = R!None
    BY <2>2 DEF RemoteInv, SignalsSound, R!ObjectsAgree
  <2>4. PICK es : es = [[displays EXCEPT ![d].session = s] EXCEPT ![d].notify = {}]
    OBVIOUS
  <2>5. R!Register(remotes, es, i, d)
    BY <1>3, <1>5, <2>1, <2>4
  <2>6. PICK p : p = [displays[d] EXCEPT !.session = s, !.notify = {}]
    OBVIOUS
  <2>7. p \in DisplayType /\ p.notify = {} /\ p.session = s
    BY <1>1, <2>6 DEF DisplayType
  <2>8. es = [displays EXCEPT ![d] = p]
    BY <1>1, <2>4, <2>6 DEF DisplayType
  <2>9. es \in [Display -> DisplayType] /\ es[d] = p /\ \A e \in Display : e # d => es[e] = displays[e]
    BY <1>1, <2>7, <2>8
  <2>10. /\ remotes' = [remotes EXCEPT ![i] = R!Registered(remotes[i], s)]
         /\ exported' = R!Extended(exported, s, [client |-> i, ready |-> 0])
         /\ displays' = [es EXCEPT ![d].notify = es[d].notify \cup {<<"remote-id", i>>}]
    BY <2>5, <2>7, <2>9 DEF R!Register
  <2>11. PICK q : q = [es[d] EXCEPT !.notify = {<<"remote-id", i>>}]
    OBVIOUS
  <2>12. q \in DisplayType /\ q.notify = {<<"remote-id", i>>}
    BY <2>2, <2>9, <2>11 DEF DisplayType, Signals
  <2>13. displays' = [es EXCEPT ![d] = q]
    BY <2>7, <2>9, <2>10, <2>11
  <2>14. displays' \in [Display -> DisplayType]
    BY <2>9, <2>12, <2>13
  <2>15. ASSUME NEW e \in Display, NEW k \in Signals, NEW j \in Ids, <<k, j>> \in displays'[e].notify
         PROVE  \/ e = d /\ k = "remote-id" /\ j = i
                \/ j # i /\ <<k, j>> \in displays[e].notify
    <3>1. CASE e = d
      BY <2>9, <2>12, <2>13, <2>15, <3>1
    <3>2. CASE e # d
      <4>1. <<k, j>> \in displays[e].notify
        BY <2>9, <2>13, <2>15, <3>2
      <4>2. remotes[j].display = e
        BY <4>1 DEF RemoteInv, SignalsSound, Signals
      <4> QED BY <2>3, <3>2, <4>1, <4>2
    <3> QED BY <3>1, <3>2
  <2>16. remotes' = [j \in R!Known \cup {i} |-> IF j = i THEN R!Registered(remotes[i], s) ELSE remotes[j]]
    BY <1>1, <2>3, <2>10
  <2>17. remotes[i] \in RemoteType
    BY <1>1, <2>3
  <2>18. s \notin DOMAIN exported /\ exported' = R!Extended(exported, s, [client |-> i, ready |-> 0])
    BY <1>3, <2>10
  <2>19. creating' \subseteq creating /\ i \notin creating' /\ spent \subseteq spent'
         /\ i \in spent' /\ spent' \subseteq Ids /\ UNCHANGED running
    BY <1>1, <1>2, <2>3
  <2>20. i \in Ids
    BY <2>2
  <2>21. RefsKept(R!Known \ {i}) /\ (remotes[i].session => weakRefs'[i] = i)
    BY <1>2, <2>3, SameKept DEF RefsKept
  <2> QED BY <2>3, <2>14, <2>15, <2>16, <2>17, <2>18, <2>19, <2>20, <2>21, RegisteredKeeps
<1> QED BY <1>4, <1>5

\* on_incoming_new_connection.
LEMMA OfNewConnection ==
  ASSUME RemoteInv, NEW i \in Ids, R!IncomingNewConnection(i)
  PROVE  RemoteInv'
<1>1. /\ remotes \in [R!Known -> RemoteType] /\ displays \in [Display -> DisplayType]
      /\ R!Known \subseteq spent /\ spent \subseteq Ids /\ creating \subseteq spent
      /\ exported \in [DOMAIN exported -> ExportType] /\ DOMAIN exported \subseteq Sessions
      /\ running \in BOOLEAN
  BY DEF RemoteInv, RemoteTypes
<1>2. /\ i \notin spent /\ spent' = spent \cup {i}
      /\ creating' \subseteq creating \cup {i}
      /\ UNCHANGED <<displays, exported, running>>
      /\ remotes' = R!Extended(remotes, i, R!New(TRUE)) /\ R!Allocated(i, TRUE)
  BY DEF R!IncomingNewConnection
<1>3. PICK r : r = R!New(TRUE)
  OBVIOUS
<1>4. r \in RemoteType /\ r.src = R!None /\ r.dst = R!None /\ r.started = FALSE
  BY <1>3 DEF RemoteType, R!New
<1>5. /\ R!Known' = R!Known \cup {i} /\ remotes'[i] = r /\ \A j \in R!Known : remotes'[j] = remotes[j]
      /\ remotes' \in [R!Known' -> RemoteType] /\ i \notin R!Known
  BY <1>1, <1>2, <1>3, <1>4 DEF R!Known, R!Extended
<1>6. RefsKept(R!Known) /\ weakRefs'[i] = i
  BY <1>2, <1>5, AllocatedKeeps
<1>7. RemoteTypes'
  BY <1>1, <1>2, <1>5, <1>6 DEF RemoteTypes, RefsKept
<1>8. CreatingHasNone'
  BY <1>2, <1>4, <1>5 DEF RemoteInv, CreatingHasNone
<1>9. SignalsSound'
  BY <1>2, <1>5 DEF RemoteInv, SignalsSound
<1>10. R!ObjectsAgree'
  <2>1. ASSUME NEW t \in DOMAIN exported
        PROVE  exported[t].client \in R!Known'
               /\ t \in {remotes'[exported[t].client].src, remotes'[exported[t].client].dst}
    BY <1>5 DEF RemoteInv, R!ObjectsAgree
  <2>2. ASSUME NEW j \in R!Known'
        PROVE  /\ \A t \in {remotes'[j].src, remotes'[j].dst} \ {R!None} :
                    t \in DOMAIN exported /\ exported[t].client = j
               /\ remotes'[j].src # R!None =>
                    remotes'[j].src # remotes'[j].dst /\ remotes'[j].dst # R!None
    <3>1. CASE j = i
      BY <1>4, <1>5, <3>1
    <3>2. CASE j # i
      BY <1>5, <3>2 DEF RemoteInv, R!ObjectsAgree
    <3> QED BY <3>1, <3>2
  <2> QED BY <1>2, <2>1, <2>2 DEF R!ObjectsAgree
<1>11. R!RedirectionsTimed' /\ R!SessionPointersLive'
  BY <1>4, <1>5, <1>6 DEF RemoteInv, R!RedirectionsTimed, R!SessionPointersLive, RefsKept
<1> QED BY <1>7, <1>8, <1>9, <1>10, <1>11 DEF RemoteInv

\* on_remote_display_remote_id_changed: the client i takes the place of the client o.
LEMMA OfRemoteIdChanged ==
  ASSUME RemoteInv, NEW d \in Display, NEW i \in Ids, R!RemoteIdChanged(d, i)
  PROVE  RemoteInv'
<1>1. /\ remotes \in [R!Known -> RemoteType] /\ displays \in [Display -> DisplayType]
      /\ R!Known \subseteq spent /\ spent \subseteq Ids /\ creating \subseteq spent
      /\ weakRefs \in [Ids -> Ids \cup {R!None}] /\ running \in BOOLEAN
      /\ exported \in [DOMAIN exported -> ExportType] /\ DOMAIN exported \subseteq Sessions
  BY DEF RemoteInv, RemoteTypes
<1>2. /\ i \in R!Known /\ remotes[i].dst # R!None /\ remotes[i].src = R!None
      /\ UNCHANGED <<creating, weakRefs, spent, running>>
  BY DEF R!RemoteIdChanged, R!AtGreeter
<1>3. PICK o \in R!Known :
        /\ <<"remote-id", o>> \in displays[d].notify /\ o # i
        /\ LET r == remotes[o]
               stolen == [remotes EXCEPT ![i].src = remotes[i].dst, ![i].dst = r.dst,
                                         ![i].started = FALSE, ![i].waiting = TRUE, ![i].display = d]
           IN  /\ remotes' = R!Without(stolen, {o})
               /\ exported' = [s \in DOMAIN exported \ {r.src} |->
                                IF s = r.dst THEN [exported[s] EXCEPT !.client = i] ELSE exported[s]]
               /\ displays' = [R!Disconnected(R!Disconnected(displays, i), o)
                               EXCEPT ![d].id = i, ![d].notify = @ \cup {<<"remote-id", i>>}]
  BY DEF R!RemoteIdChanged
<1>4. PICK r : r = remotes[o]
  OBVIOUS
<1>5. /\ o \in Ids /\ o # i /\ r \in RemoteType /\ r.dst # R!None
      /\ exported' = [s \in DOMAIN exported \ {r.src} |->
                       IF s = r.dst THEN [exported[s] EXCEPT !.client = i] ELSE exported[s]]
  BY <1>1, <1>3, <1>4 DEF RemoteInv, SignalsSound
<1>6. PICK q : q = [remotes[i] EXCEPT !.src = remotes[i].dst, !.dst = r.dst,
                                      !.started = FALSE, !.waiting = TRUE, !.display = d]
  OBVIOUS
<1>7. /\ q \in RemoteType /\ q.src = remotes[i].dst /\ q.dst = r.dst /\ q.started = FALSE /\ q.display = d
      /\ q.session = remotes[i].session
  BY <1>1, <1>2, <1>5, <1>6 DEF RemoteType
<1>8. remotes' = R!Without([remotes EXCEPT ![i] = q], {o})
  <2>1. remotes' = R!Without([remotes EXCEPT ![i].src = remotes[i].dst, ![i].dst = r.dst,
                                         ![i].started = FALSE, ![i].waiting = TRUE, ![i].display = d], {o})
    BY <1>3, <1>4
  <2>2. [remotes EXCEPT ![i].src = remotes[i].dst, ![i].dst = r.dst,
                        ![i].started = FALSE, ![i].waiting = TRUE, ![i].display = d] = [remotes EXCEPT ![i] = q]
    BY <1>1, <1>2, <1>6
  <2> QED BY <2>1, <2>2
<1>9. /\ R!Known' = R!Known \ {o} /\ remotes'[i] = q /\ i \in R!Known'
      /\ \A j \in R!Known' : j # i => remotes'[j] = remotes[j]
      /\ remotes' \in [R!Known' -> RemoteType]
  BY <1>1, <1>2, <1>5, <1>7, <1>8 DEF R!Known, R!Without
<1>10. PICK es : es = R!Disconnected(R!Disconnected(displays, i), o)
  OBVIOUS
<1>11. /\ es \in [Display -> DisplayType]
       /\ \A e \in Display : /\ es[e].notify \subseteq displays[e].notify
                             /\ \A k \in Signals : <<k, i>> \notin es[e].notify /\ <<k, o>> \notin es[e].notify
  <2>1. PICK fs : fs = R!Disconnected(displays, i)
    OBVIOUS
  <2>2. /\ fs \in [Display -> DisplayType]
        /\ \A e \in Display : /\ fs[e].notify \subseteq displays[e].notify
                              /\ \A k \in Signals : <<k, i>> \notin fs[e].notify
    BY <1>1, <2>1, DisconnectedCalls
  <2>3. es = R!Disconnected(fs, o)
    BY <1>10, <2>1
  <2>4. /\ es \in [Display -> DisplayType]
        /\ \A e \in Display : /\ es[e].notify \subseteq fs[e].notify
                              /\ \A k \in Signals : <<k, o>> \notin es[e].notify
    BY <1>5, <2>2, <2>3, DisconnectedCalls
  <2> QED BY <2>2, <2>4
<1>12. PICK p : p = [es[d] EXCEPT !.id = i, !.notify = es[d].notify \cup {<<"remote-id", i>>}]
  OBVIOUS
<1>13. p \in DisplayType /\ p.notify = es[d].notify \cup {<<"remote-id", i>>}
  <2>1. es[d] \in DisplayType
    BY <1>11
  <2>2. PICK N : N = es[d].notify \cup {<<"remote-id", i>>}
    OBVIOUS
  <2>3. N \in SUBSET (Signals \X Ids)
    <3>1. es[d].notify \in SUBSET (Signals \X Ids)
      BY <2>1 DEF DisplayType
    <3>2. <<"remote-id", i>> \in Signals \X Ids
      BY DEF Signals
    <3> QED BY <2>2, <3>1, <3>2
  <2>4. p = [es[d] EXCEPT !.id = i, !.notify = N]
    BY <1>12, <2>2
  <2> QED BY <2>1, <2>2, <2>3, <2>4 DEF DisplayType
<1>14. displays' = [es EXCEPT ![d] = p]
  <2>1. displays' = [es EXCEPT ![d].id = i, ![d].notify = @ \cup {<<"remote-id", i>>}]
    BY <1>3, <1>10
  <2> QED BY <1>11, <1>12, <2>1 DEF DisplayType
<1>15. displays' \in [Display -> DisplayType]
  BY <1>11, <1>13, <1>14
<1>16. ASSUME NEW e \in Display, NEW k \in Signals, NEW j \in Ids, <<k, j>> \in displays'[e].notify
       PROVE  \/ e = d /\ k = "remote-id" /\ j = i
              \/ j # i /\ j # o /\ <<k, j>> \in displays[e].notify
  <2>1. displays'[e].notify \subseteq es[e].notify \cup IF e = d THEN {<<"remote-id", i>>} ELSE {}
    BY <1>11, <1>13, <1>14
  <2>2. CASE <<k, j>> \in es[e].notify
    BY <1>11, <2>2
  <2>3. CASE <<k, j>> \notin es[e].notify
    BY <1>16, <2>1, <2>3
  <2> QED BY <2>2, <2>3
<1>17. /\ DOMAIN exported' = DOMAIN exported \ {r.src}
       /\ r.dst \in DOMAIN exported' => exported'[r.dst].client = i
       /\ \A s \in DOMAIN exported' : s # r.dst => exported'[s] = exported[s]
       /\ exported' \in [DOMAIN exported' -> ExportType]
  <2>1. ASSUME NEW s \in DOMAIN exported
        PROVE  [exported[s] EXCEPT !.client = i] \in ExportType /\ [exported[s] EXCEPT !.client = i].client = i
    BY <1>1 DEF ExportType
  <2> QED BY <1>1, <1>5, <2>1
<1>19. RemoteTypes'
  BY <1>1, <1>2, <1>9, <1>15, <1>17 DEF RemoteTypes
<1>20. CreatingHasNone'
  <2>1. i \notin creating
    BY <1>2 DEF RemoteInv, CreatingHasNone
  <2> QED BY <1>2, <1>9, <2>1 DEF RemoteInv, CreatingHasNone
<1>21. SignalsSound'
  <2> SUFFICES ASSUME NEW e \in Display, NEW j \in Ids
               PROVE  /\ <<"remote-id", j>> \in displays'[e].notify =>
                           j \in R!Known' /\ remotes'[j].display = e /\ remotes'[j].dst # R!None
                      /\ <<"session-id", j>> \in displays'[e].notify =>
                           j \in R!Known' /\ remotes'[j].display = e /\ remotes'[j].dst = R!None
                           /\ j \notin creating'
    BY DEF SignalsSound
  <2>1. CASE j = i
    <3>1. <<"session-id", j>> \notin displays'[e].notify
      BY <1>16, <2>1 DEF Signals
    <3>2. <<"remote-id", j>> \in displays'[e].notify => e = d
      BY <1>16, <2>1 DEF Signals
    <3> QED BY <1>5, <1>7, <1>9, <2>1, <3>1, <3>2
  <2>2. CASE j # i
    <3>1. \A k \in Signals : <<k, j>> \in displays'[e].notify => j # o /\ <<k, j>> \in displays[e].notify
      BY <1>16, <2>2
    <3>2. j \in R!Known /\ j # o => j \in R!Known' /\ remotes'[j] = remotes[j]
      BY <1>9, <2>2
    <3> QED BY <1>2, <3>1, <3>2 DEF RemoteInv, SignalsSound, Signals
  <2> QED BY <2>1, <2>2
<1>22. R!ObjectsAgree'
  <2>1. remotes[i].dst \in DOMAIN exported /\ exported[remotes[i].dst].client = i
    BY <1>2 DEF RemoteInv, R!ObjectsAgree
  <2>2. r.dst \in DOMAIN exported /\ exported[r.dst].client = o /\ r.dst # r.src
    BY <1>4, <1>5 DEF RemoteInv, R!ObjectsAgree
  <2>3. r.src # R!None => r.src \in DOMAIN exported /\ exported[r.src].client = o
    BY <1>4, <1>5 DEF RemoteInv, R!ObjectsAgree
  <2>4. ASSUME NEW t \in DOMAIN exported'
        PROVE  exported'[t].client \in R!Known' /\ t \in {remotes'[exported'[t].client].src, remotes'[exported'[t].client].dst}
    <3>1. CASE t = r.dst
      BY <1>7, <1>9, <1>17, <3>1
    <3>2. CASE t # r.dst
      <4>1. PICK j : j = exported[t].client
        OBVIOUS
      <4>2. /\ t \in DOMAIN exported /\ t # r.src /\ exported'[t].client = j /\ t # R!None
            /\ j \in R!Known /\ t \in {remotes[j].src, remotes[j].dst}
        BY <1>1, <1>17, <3>2, <4>1, NoneIsNone DEF RemoteInv, R!ObjectsAgree
      <4>3. j # o
        BY <1>4, <3>2, <4>2
      <4>4. CASE j = i
        BY <1>2, <1>7, <1>9, <4>2, <4>4
      <4>5. CASE j # i
        BY <1>9, <4>2, <4>3, <4>5
      <4> QED BY <4>4, <4>5
    <3> QED BY <3>1, <3>2
  <2>5. ASSUME NEW j \in R!Known', NEW t \in {remotes'[j].src, remotes'[j].dst} \ {R!None}
        PROVE  t \in DOMAIN exported' /\ exported'[t].client = j
    <3>1. CASE j = i /\ t = r.dst
      BY <1>17, <2>2, <3>1
    <3>2. CASE j = i /\ t # r.dst
      <4>1. t = remotes[i].dst
        BY <1>7, <1>9, <2>5, <3>2
      <4>2. t # r.src
        BY <1>2, <1>5, <2>1, <2>3, <4>1
      <4> QED BY <1>17, <2>1, <3>2, <4>1, <4>2
    <3>3. CASE j # i
      <4>1. j \in R!Known /\ j # o /\ remotes'[j] = remotes[j]
        BY <1>9, <3>3
      <4>2. t \in DOMAIN exported /\ exported[t].client = j
        BY <2>5, <4>1 DEF RemoteInv, R!ObjectsAgree
      <4>3. t # r.src /\ t # r.dst
        BY <2>2, <2>3, <2>5, <4>1, <4>2
      <4> QED BY <1>17, <4>2, <4>3
    <3> QED BY <3>1, <3>2, <3>3
  <2>6. ASSUME NEW j \in R!Known', remotes'[j].src # R!None
        PROVE  remotes'[j].src # remotes'[j].dst /\ remotes'[j].dst # R!None
    <3>1. CASE j = i
      BY <1>5, <1>7, <1>9, <2>1, <2>2, <3>1
    <3>2. CASE j # i
      BY <1>9, <2>6, <3>2 DEF RemoteInv, R!ObjectsAgree
    <3> QED BY <3>1, <3>2
  <2> QED BY <2>4, <2>5, <2>6 DEF R!ObjectsAgree
<1>23. R!RedirectionsTimed' /\ R!SessionPointersLive'
  BY <1>2, <1>7, <1>9 DEF RemoteInv, R!RedirectionsTimed, R!SessionPointersLive
<1> QED BY <1>19, <1>20, <1>21, <1>22, <1>23 DEF RemoteInv

\* on_gdm_object_removed.
LEMMA OfDisplayRemoved ==
  ASSUME RemoteInv, NEW d \in Display, R!ObjectRemoved(d)
  PROVE  RemoteInv'
<1>1. /\ remotes \in [R!Known -> RemoteType] /\ displays \in [Display -> DisplayType]
      /\ R!Known \subseteq spent /\ spent \subseteq Ids
      /\ exported \in [DOMAIN exported -> ExportType] /\ running \in BOOLEAN /\ DOMAIN exported \subseteq Sessions
  BY DEF RemoteInv, RemoteTypes
<1>2. PICK i \in Ids, s \in Sessions \cup {R!None} : i = displays[d].id /\ s = displays[d].session
  BY <1>1 DEF R!ObjectRemoved, DisplayType
<1>3. PICK ds : ds = [displays EXCEPT ![d] = R!NoDisplay]
  OBVIOUS
<1>4. ds \in [Display -> DisplayType] /\ \A e \in Display : ds[e].notify \subseteq displays[e].notify
  <2>1. R!NoDisplay \in DisplayType /\ R!NoDisplay.notify = {}
    BY DEF R!NoDisplay, DisplayType
  <2> QED BY <1>1, <1>3, <2>1
<1>5. UNCHANGED <<creating, weakRefs, spent, running>>
  BY DEF R!ObjectRemoved
<1>6. CASE i \notin R!Known
  <2>1. displays' = ds /\ UNCHANGED <<remotes, exported>>
    BY <1>2, <1>3, <1>6 DEF R!ObjectRemoved
  <2> QED BY <1>1, <1>4, <1>5, <2>1, TableStays, SameKept
<1>7. CASE i \in R!Known
  <2> DEFINE gone == IF s = R!None THEN remotes[i].src = R!None /\ remotes[i].dst = R!None
                     ELSE remotes[i].dst = s
  <2>1. IF gone
        THEN R!Free(i) /\ displays' = R!Disconnected(ds, i)
        ELSE displays' = ds
             /\ (IF s # R!None /\ remotes[i].src = s
                 THEN remotes' = [remotes EXCEPT ![i].src = R!None] /\ exported' = R!Without(exported, {s})
                 ELSE UNCHANGED <<remotes, exported>>)
    BY <1>2, <1>3, <1>7 DEF R!ObjectRemoved
  <2>2. CASE gone
    <3>1. R!Free(i) /\ displays' = R!Disconnected(ds, i)
      BY <2>1, <2>2
    <3> QED BY <1>4, <1>5, <1>7, <3>1, FreeKeeps
  <2>3. CASE ~gone /\ s # R!None /\ remotes[i].src = s
    <3>1. /\ displays' = ds
          /\ remotes' = [remotes EXCEPT ![i].src = R!None] /\ exported' = R!Without(exported, {s})
      BY <2>1, <2>3
    <3>2. PICK r : r = [remotes[i] EXCEPT !.src = R!None]
      OBVIOUS
    <3>3. /\ r \in RemoteType /\ r.src = R!None /\ r.dst = remotes[i].dst /\ r.display = remotes[i].display
          /\ r.started = remotes[i].started /\ r.timer = remotes[i].timer
          /\ r.waiting = remotes[i].waiting /\ r.session = remotes[i].session
      BY <1>1, <1>7, <3>2 DEF RemoteType
    <3>4. remotes' = [remotes EXCEPT ![i] = r]
      BY <1>1, <1>7, <3>1, <3>2
    <3>5. /\ R!Known' = R!Known /\ remotes'[i] = r /\ \A j \in R!Known : j # i => remotes'[j] = remotes[j]
          /\ remotes' \in [R!Known -> RemoteType]
      BY <1>1, <1>7, <3>3, <3>4 DEF R!Known
    <3>6. \A j \in R!Known : /\ remotes'[j].dst = remotes[j].dst /\ remotes'[j].display = remotes[j].display
                             /\ remotes'[j].started = remotes[j].started /\ remotes'[j].timer = remotes[j].timer
                             /\ remotes'[j].waiting = remotes[j].waiting /\ remotes'[j].session = remotes[j].session
      BY <3>3, <3>5
    <3>7. /\ DOMAIN exported' = DOMAIN exported \ {s} /\ \A t \in DOMAIN exported' : exported'[t] = exported[t]
          /\ exported' \in [DOMAIN exported' -> ExportType]
      BY <1>1, <3>1 DEF R!Without
    <3>8. RemoteTypes'
      BY <1>4, <1>5, <3>1, <3>5, <3>7 DEF RemoteInv, RemoteTypes
    <3>9. CreatingHasNone'
      BY <1>5, <3>5, <3>6 DEF RemoteInv, CreatingHasNone
    <3>10. SignalsSound'
      <4>1. \A e \in Display : displays'[e].notify \subseteq displays[e].notify
        BY <1>4, <3>1
      <4>2. R!Known' = R!Known /\ UNCHANGED creating
        BY <1>5, <3>5
      <4> SUFFICES ASSUME NEW e \in Display, NEW j \in Ids
                   PROVE  /\ <<"remote-id", j>> \in displays'[e].notify =>
                               j \in R!Known /\ remotes'[j].display = e /\ remotes'[j].dst # R!None
                          /\ <<"session-id", j>> \in displays'[e].notify =>
                               j \in R!Known /\ remotes'[j].display = e /\ remotes'[j].dst = R!None
                               /\ j \notin creating
        BY <4>2 DEF SignalsSound
      <4>3. \A k \in Signals : <<k, j>> \in displays'[e].notify => <<k, j>> \in displays[e].notify
        BY <4>1
      <4>4. j \in R!Known => remotes'[j].dst = remotes[j].dst /\ remotes'[j].display = remotes[j].display
        BY <3>6
      <4> QED BY <4>3, <4>4 DEF RemoteInv, SignalsSound, Signals
    <3>11. R!ObjectsAgree'
      <4>1. /\ s \in DOMAIN exported /\ exported[s].client = i /\ s # remotes[i].dst
        BY <1>7, <2>3 DEF RemoteInv, R!ObjectsAgree
      <4>2. ASSUME NEW t \in DOMAIN exported'
            PROVE  exported'[t].client \in R!Known' /\ t \in {remotes'[exported'[t].client].src, remotes'[exported'[t].client].dst}
        <5>1. PICK j : j = exported[t].client
          OBVIOUS
        <5>2. /\ t \in DOMAIN exported /\ t # s /\ exported'[t].client = j /\ j \in R!Known
              /\ t \in {remotes[j].src, remotes[j].dst}
          BY <3>7, <5>1 DEF RemoteInv, R!ObjectsAgree
        <5>3. CASE j = i
          BY <2>3, <3>3, <3>5, <5>2, <5>3
        <5>4. CASE j # i
          BY <3>5, <5>2, <5>4
        <5> QED BY <5>3, <5>4
      <4>3. ASSUME NEW j \in R!Known', NEW t \in {remotes'[j].src, remotes'[j].dst} \ {R!None}
            PROVE  t \in DOMAIN exported' /\ exported'[t].client = j
        <5>1. j \in R!Known /\ t \in {remotes[j].src, remotes[j].dst} /\ t # R!None /\ (j = i => t = remotes[i].dst)
          BY <3>3, <3>5, <4>3
        <5>2. t \in DOMAIN exported /\ exported[t].client = j
          BY <5>1 DEF RemoteInv, R!ObjectsAgree
        <5>3. t # s
          BY <4>1, <5>1, <5>2
        <5> QED BY <3>7, <5>2, <5>3
      <4>4. \A j \in R!Known' : remotes'[j].src # R!None =>
              remotes'[j].src # remotes'[j].dst /\ remotes'[j].dst # R!None
        BY <3>3, <3>5 DEF RemoteInv, R!ObjectsAgree
      <4> QED BY <4>2, <4>3, <4>4 DEF R!ObjectsAgree
    <3>12. R!RedirectionsTimed' /\ R!SessionPointersLive'
      BY <1>5, <3>5, <3>6 DEF RemoteInv, R!RedirectionsTimed, R!SessionPointersLive
    <3> QED BY <3>8, <3>9, <3>10, <3>11, <3>12 DEF RemoteInv
  <2>4. CASE ~gone /\ ~(s # R!None /\ remotes[i].src = s)
    <3>1. displays' = ds /\ UNCHANGED <<remotes, exported>>
      BY <2>1, <2>4
    <3> QED BY <1>1, <1>4, <1>5, <3>1, TableStays, SameKept
  <2> HIDE DEF gone
  <2> QED BY <2>2, <2>3, <2>4
<1> QED BY <1>6, <1>7

\* on_gdm_name_vanished.
LEMMA OfGdmVanished ==
  ASSUME RemoteInv, R!GdmVanished
  PROVE  RemoteInv'
<1>1. R!NoDisplay \in DisplayType /\ R!NoDisplay.notify = {}
  BY DEF R!NoDisplay, DisplayType
<1>2. /\ displays' = [d \in Display |-> R!NoDisplay]
      /\ UNCHANGED <<remotes, exported, creating, weakRefs, spent, running>>
  BY DEF R!GdmVanished
<1>3. running' \in BOOLEAN
  BY <1>2 DEF RemoteInv, RemoteTypes
<1> QED BY <1>1, <1>2, <1>3, TableStays, SameKept

\* The steps of the remote clients.
LEMMA RemoteStep ==
  ASSUME RemoteInv, R!Next
  PROVE  RemoteInv'
<1>1. ASSUME NEW i \in Ids, R!IncomingNewConnection(i) \/ R!CreateFailed(i) \/ R!SessionDisposed(i)
                            \/ R!AbortHandover(i) \/ R!IncomingRedirectedConnection(i)
      PROVE  RemoteInv'
  BY <1>1, OfNewConnection, OfFrees, OfDisposed, OfRedirected
<1>2. ASSUME NEW d \in Display, R!ObjectAdded(d) \/ R!SessionIdChanged(d) \/ R!ObjectRemoved(d)
                                \/ (\E i \in Ids : R!RemoteIdChanged(d, i))
      PROVE  RemoteInv'
  BY <1>2, OfAdded, OfSessionIdChanged, OfDisplayRemoved, OfRemoteIdChanged
<1>3. ASSUME NEW s \in Sessions, R!StartHandover(s) \/ R!GetSystemCredentials(s) \/ R!TakeClient(s)
                                 \/ R!SourceCalls(s)
      PROVE  RemoteInv'
  BY <1>3, OfMethods
<1> QED BY <1>1, <1>2, <1>3, OfGdmVanished DEF R!Next

\* The other parts of the daemons do not disturb the clients.
LEMMA RemoteStutters ==
  ASSUME RemoteInv, UNCHANGED remoteVars
  PROVE  RemoteInv'
BY DEF RemoteInv, remoteVars, RemoteTypes, CreatingHasNone, SignalsSound, R!ObjectsAgree,
       R!RedirectionsTimed, R!SessionPointersLive, R!Known

\* What the invariant of the remote clients says is enough.
LEMMA RemoteInvSuffices ==
  ASSUME RemoteInv
  PROVE  R!TypeOK /\ R!ObjectsAgree /\ R!SignalsLive /\ R!RedirectionsTimed /\ R!SessionPointersLive
<1>1. R!TypeOK
  <2>1. ASSUME NEW i \in R!Known
        PROVE  {remotes[i].src, remotes[i].dst} \subseteq Sessions \cup {R!None}
    BY DEF RemoteInv, RemoteTypes, RemoteType
  <2>2. \A s \in DOMAIN exported : exported[s].ready \in 0 .. MaxReady
    BY DEF RemoteInv, RemoteTypes, ExportType
  <2> QED BY <2>1, <2>2 DEF RemoteInv, RemoteTypes, R!TypeOK
<1>2. R!SignalsLive
  <2> SUFFICES ASSUME NEW d \in Display, NEW n \in displays[d].notify
               PROVE  n[2] \in R!Known /\ remotes[n[2]].display = d
    BY DEF R!SignalsLive
  <2>1. displays[d].notify \in SUBSET (Signals \X Ids)
    BY DEF RemoteInv, RemoteTypes, DisplayType
  <2>2. PICK k \in Signals, i \in Ids : n = <<k, i>>
    BY <2>1
  <2>3. n[2] = i
    BY <2>2
  <2> QED BY <2>2, <2>3 DEF RemoteInv, SignalsSound, Signals
<1> QED BY <1>1, <1>2 DEF RemoteInv

-----------------------------------------------------------------------------
(* The daemons. *)

\* The inductive invariants that need no bound on what the bus does.
DaemonsInv == ServiceInv /\ RemoteInv /\ TokenInv

\* The invariant of the servers, of the remote clients and of the routing tokens; no step of
\* the bus is excluded: names that vanish, tokens shown again, sessions of freed clients.
THEOREM DaemonsInvariant == Spec => []DaemonsInv
<1>1. Init => DaemonsInv
  BY ServiceInit, RemoteInit, TokenInit DEF Init, DaemonsInv
<1>2. DaemonsInv /\ [Next]_vars => DaemonsInv'
  <2> SUFFICES ASSUME DaemonsInv, [Next]_vars
               PROVE  DaemonsInv'
    OBVIOUS
  <2>1. CASE OfServices /\ S!Next
    BY <2>1, ServiceStep, RemoteStutters, TokenStutters DEF DaemonsInv, OfServices
  <2>2. CASE OfHandover /\ H!Next
    BY <2>2, ServiceStutters, RemoteStutters, TokenStutters DEF DaemonsInv, OfHandover
  <2>3. CASE OfClients /\ R!Next
    BY <2>3, ServiceStutters, RemoteStep, TokenStutters DEF DaemonsInv, OfClients
  <2>4. CASE OfTokens /\ T!Next
    BY <2>4, ServiceStutters, RemoteStutters, TokenStep DEF DaemonsInv, OfTokens
  <2>5. CASE OfVnc /\ V!Next
    BY <2>5, ServiceStutters, RemoteStutters, TokenStutters DEF DaemonsInv, OfVnc
  <2>6. CASE OfRdp /\ D!Next
    BY <2>6, ServiceStutters, RemoteStutters, TokenStutters DEF DaemonsInv, OfRdp
  <2>7. CASE UNCHANGED vars
    BY <2>7, ServiceStutters, RemoteStutters, TokenStutters DEF DaemonsInv, vars
  <2> QED BY <2>1, <2>2, <2>3, <2>4, <2>5, <2>6, <2>7 DEF Next
<1> QED BY <1>1, <1>2, PTL DEF Spec

\* The invariant of the daemon of a graphical session.
THEOREM HandoverInvariant ==
  ASSUME Calm
  PROVE  Spec => []HandoverInv
<1>1. Init => HandoverInv
  BY HandoverInit DEF Init
<1>2. HandoverInv /\ [Next]_vars => HandoverInv'
  <2> SUFFICES ASSUME HandoverInv, [Next]_vars
               PROVE  HandoverInv'
    OBVIOUS
  <2>1. CASE OfHandover /\ H!Next
    BY <2>1, HandoverStep
  <2>2. CASE OfServices \/ OfClients \/ OfTokens \/ OfVnc \/ OfRdp \/ UNCHANGED vars
    BY <2>2, HandoverStutters DEF OfServices, OfClients, OfTokens, OfVnc, OfRdp, vars
  <2> QED BY <2>1, <2>2 DEF Next
<1> QED BY <1>1, <1>2, PTL DEF Spec

\* Whatever the bus does while calls are under way, names that vanish and tokens that are
\* shown again included: the objects of the system daemon are those of the clients in its
\* table and of no other, the displays call those clients only, and a session pointer in the
\* table is of a session that lives; a client that was told to come back, and that nobody
\* took since, has a destination and a timer; a server without proxies is the system
\* daemon's, and a stopped one leaves nothing but a proxy that came too late, for which alone
\* the assertion of grd-daemon.c:317 may fail; a session is served by one of its two
\* servers; and a client is routed as its packet says, by a server that still runs.
THEOREM ClientsRouted == Spec => [](/\ R!ObjectsAgree /\ R!SignalsLive /\ R!SessionPointersLive
                                    /\ R!RedirectionsTimed
                                    /\ S!StoppedServersAreQuiet /\ S!OtherServerAsserts
                                    /\ S!OneServerPerSession /\ T!RoutedByPacket)
<1>1. DaemonsInv => /\ R!ObjectsAgree /\ R!SignalsLive /\ R!SessionPointersLive
                    /\ R!RedirectionsTimed
                    /\ S!StoppedServersAreQuiet /\ S!OtherServerAsserts
                    /\ S!OneServerPerSession /\ T!RoutedByPacket
  BY RemoteInvSuffices, ServiceInvSuffices DEF DaemonsInv, TokenInv
<1> QED BY <1>1, DaemonsInvariant, PTL

\* What is connected is connected once and to something that lives: the objects on the
\* bus, the signals of the displays and the session pointers of the clients in the table, the
\* handlers of the daemon of a session, and what a server leaves that lost its proxies or was
\* stopped, with the exceptions of StoppedServersAreQuiet.
THEOREM ConnectionsCorrect ==
  ASSUME Calm
  PROVE  Spec => []ConnectionsSound
<1>1. DaemonsInv /\ HandoverInv => ConnectionsSound
  BY RemoteInvSuffices, ServiceInvSuffices DEF DaemonsInv, HandoverInv, ConnectionsSound
<1> QED BY <1>1, DaemonsInvariant, HandoverInvariant, PTL

\* A client goes where its token says and nowhere else, whoever shows a token and however
\* often; a client that was told to come back is not waited for without a timer until it is
\* taken; and a client replaces the one before it in the daemon of the session and in the
\* daemon of the other kind, whose assertion holds but for a proxy that came too late.
THEOREM ArrivalsCorrect ==
  ASSUME Calm
  PROVE  Spec => []ClientsArrive
<1>1. DaemonsInv /\ HandoverInv => ClientsArrive
  BY RemoteInvSuffices, ServiceInvSuffices
  DEF DaemonsInv, HandoverInv, TokenInv, ClientsArrive, H!WatchesTheSession
<1> QED BY <1>1, DaemonsInvariant, HandoverInvariant, PTL

==============================================================================
