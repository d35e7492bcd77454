----------------------------- MODULE Input_proof -----------------------------
(***************************************************************************)
(* Proofs about the input of an RDP client (EventQueue and TouchInput),    *)
(* for any keys, scripts of the client and contacts, and any number of     *)
(* touches, keyboards and touch devices: nothing stays pressed in the      *)
(* session that the client does not hold, nothing is forgotten in a queue, *)
(* and the lock comes to be what the client asked for.                     *)
(*                                                                         *)
(* The invariant of the touches says, beside the three properties, in      *)
(* which order the session hears of devices (TouchDevices).  That of the   *)
(* keyboard says which thread holds what at which stage (Flow); that keys  *)
(* are down, or come, only on the keyboard that the session has            *)
(* (Keyboards); that pings and pongs belong to the pending                 *)
(* synchronization, once, or to a cancelled one (Pings); that the lock key *)
(* is pressed and released in turn (EventsAlternate, MessagesAlternate);   *)
(* and what the lock will be when the messages under way are taken, what   *)
(* the session will have been told of it when each of the news is          *)
(* received, and how both relate to what is due (Lock).                    *)
(***************************************************************************)
EXTENDS Input, TLAPS, SequenceTheorems, FiniteSetTheorems

(* The inductive invariant of the touches, and the types of the keyboard. *)

TouchNews == [type : {"added", "resumed", "removed"}, id : 1 .. MaxDevices]

TouchDevices ==
  /\ news \in Seq(TouchNews)
  /\ screen.device \in {T!NoDevice, screen.devices} /\ device.id <= screen.devices
  /\ device.emulating => device.id # T!NoDevice
  /\ \A i \in DOMAIN news :
       /\ news[i].id <= screen.devices
       /\ news[i].type = "removed" => news[i].id # screen.device
       /\ news[i].type = "added" => device.id = T!NoDevice \/ device.id # screen.device
       /\ \A j \in 1 .. (i - 1) :
            news[i].type = "added" /\ news[j].type = "added" => news[j].id < news[i].id
  /\ screen.down # {} => device.emulating /\ device.id = screen.device

TouchInv == T!TypeOK /\ T!ObjectInRange /\ T!NoStuckTouch /\ T!NoStrandedTouch /\ TouchDevices

Event == [type : {"key"}, key : K!AnyKey, down : BOOLEAN] \cup [type : {"sync"}, lock : BOOLEAN]
Message ==
  [type : {"key"}, keyboard : 1 .. MaxPlugs, key : K!AnyKey, down : BOOLEAN]
  \cup [type : {"ping"}, sync : Nat]
News ==
  [type : {"connect"}] \cup [type : {"added", "resumed", "removed"}, keyboard : 1 .. MaxPlugs]
  \cup [type : {"modifiers"}, lock : BOOLEAN] \cup [type : {"pong"}, sync : Nat]

ClientType ==
  [pdus : Seq(({"sync"} \cup Key) \X BOOLEAN), runs : BOOLEAN, todo : Seq(Event),
   wakes : BOOLEAN, pause : {"none", "ctrl_down", "numlock_down", "ctrl_up"}]
SyncType ==
  [pending : Nat, last : Nat, cancelled : SUBSET Nat, expected : BOOLEAN,
   reported : BOOLEAN, valid : BOOLEAN, due : BOOLEAN, excused : BOOLEAN]
SesType ==
  [ready : BOOLEAN, started : BOOLEAN, ei : BOOLEAN, keyboard : 0 .. MaxPlugs,
   emulating : BOOLEAN]
ServerType ==
  [lock : BOOLEAN, keyboard : 0 .. MaxPlugs, plugs : 0 .. MaxPlugs, down : SUBSET K!AnyKey]

TypedClient ==
  /\ client \in ClientType
  /\ flags \in [activated : BOOLEAN, view : BOOLEAN]
  /\ table \subseteq Key /\ IsFiniteSet(table)
TypedQueue ==
  /\ queue \in Seq(Event)
  /\ armed \in BOOLEAN
  /\ main \in {"loop", "drain", "join", "drain_last", "stopped", "crashed"}
TypedSession ==
  /\ sync \in SyncType
  /\ sync.pending \in {K!None, sync.last} /\ sync.cancelled \subseteq 1 .. sync.last
  /\ ses \in SesType
TypedWire ==
  /\ sent \in Seq(Message) /\ events \in Seq(News)
  /\ server \in ServerType
Typed == TypedClient /\ TypedQueue /\ TypedSession /\ TypedWire

Flow ==
  /\ ~client.runs => client.todo = <<>> /\ ~client.wakes
  /\ main \in {"drain_last", "stopped", "crashed"} => ~client.runs /\ table = {}
  /\ main = "stopped" => queue = <<>> /\ ~ses.ei
  /\ main \in {"loop", "drain"} => ses.ei

Current(msg) == msg.type = "key" /\ msg.keyboard = server.keyboard
KeysThere == server.down # {} \/ \E i \in DOMAIN sent : Current(sent[i])

Arrival(e) == e.type \in {"added", "resumed"}
Precedes(d, e) ==
  \/ d.keyboard < e.keyboard
  \/ d.keyboard = e.keyboard /\ d.type = "added" /\ e.type = "resumed"
Settled == ses.emulating /\ ses.keyboard = server.keyboard /\ ses.keyboard # K!None

\* Keyboards are told of in the order of their numbers, and only before they are used.
NewsInOrder ==
  \A i \in DOMAIN events :
    /\ events[i].type = "removed" => events[i].keyboard <= server.plugs
                                     /\ events[i].keyboard # server.keyboard
    /\ Arrival(events[i]) =>
         /\ events[i].keyboard <= server.plugs /\ ~Settled
         /\ \A j \in 1 .. (i - 1) : Arrival(events[j]) => Precedes(events[j], events[i])

\* Keys are down, or come, on the keyboard that the session has.
Keyboards ==
  /\ server.keyboard \in {K!None, server.plugs} /\ ses.keyboard <= server.plugs
  /\ \A i \in DOMAIN sent : sent[i].type = "key" => sent[i].keyboard <= server.plugs
  /\ NewsInOrder
  /\ server.keyboard = K!None => server.down = {}
  /\ KeysThere /\ main \notin {"stopped", "crashed"} =>
       ses.ei /\ ses.emulating /\ ses.keyboard = server.keyboard

\* A ping or a pong of a synchronization is under way.
Asked(n) == \E i \in DOMAIN sent : sent[i] = K!Ping(n)
Answered(n) == \E i \in DOMAIN events : events[i] = K!Pong(n)

\* What is under way is of the pending synchronization, once, or of a cancelled one.
Accounted ==
  /\ \A i \in DOMAIN sent : sent[i].type = "ping" => sent[i].sync \in sync.cancelled \cup {sync.pending}
  /\ \A i \in DOMAIN events : events[i].type = "pong" => events[i].sync \in sync.cancelled \cup {sync.pending}
  /\ \A i, j \in DOMAIN sent : sent[i] = K!Ping(sync.pending) /\ sent[j] = K!Ping(sync.pending) => i = j
  /\ \A i, j \in DOMAIN events : events[i] = K!Pong(sync.pending) /\ events[j] = K!Pong(sync.pending) => i = j
  /\ ~(Asked(sync.pending) /\ Answered(sync.pending))
Pings ==
  /\ \A i \in DOMAIN sent : sent[i].type = "ping" => sent[i].sync \in 1 .. sync.last
  /\ \A i \in DOMAIN events : events[i].type = "pong" => events[i].sync \in 1 .. sync.last
  /\ sync.pending \notin sync.cancelled
  /\ ~sync.excused => Accounted

OfLock(e) == e.type = "key" /\ e.key = LockKey
Press(e) == OfLock(e) /\ e.down
Release(e) == OfLock(e) /\ ~e.down

Coming == queue \o client.todo

\* A press that the display server will not take.
Doomed == \E i \in DOMAIN sent : Press(sent[i]) /\ ~Current(sent[i])

-----------------------------------------------------------------------------
(* The touches, action by action. *)

\* Nothing is there when the session starts.
LEMMA TouchInit == T!Init => TouchInv
<1> SUFFICES ASSUME T!Init
             PROVE  TouchInv
  OBVIOUS
<1> USE DEF T!Init, T!NoDevice
<1>1. T!TypeOK
  <2>1. MaxTouches \in Nat /\ MaxDevices \in Nat
    BY InputAssumption
  <2>2. context \in [Contact -> [state : {"out_of_range", "hovering", "engaged"},
                                 object : BOOLEAN, ignore : BOOLEAN]]
    BY DEF T!Unused
  <2>3. device \in [id : 0 .. MaxDevices, emulating : BOOLEAN]
    BY <2>1
  <2>4. screen \in [device : 0 .. MaxDevices, devices : 0 .. MaxDevices, down : SUBSET Contact]
    BY <2>1
  <2>5. wakes \in BOOLEAN /\ ready \in BOOLEAN
    OBVIOUS
  <2> QED BY <2>1, <2>2, <2>3, <2>4, <2>5 DEF T!TypeOK
<1>2. T!ObjectInRange /\ T!NoStuckTouch /\ T!NoStrandedTouch
  BY DEF T!ObjectInRange, T!NoStuckTouch, T!NoStrandedTouch, T!Handling, T!Unused
<1>3. TouchDevices
  BY DEF TouchDevices
<1> QED BY <1>1, <1>2, <1>3 DEF TouchInv

\* What is said of the devices is said of the news, the device and the screen.
LEMMA DevicesUnchanged ==
  ASSUME TouchDevices, UNCHANGED <<news, device, screen>>
  PROVE  TouchDevices'
BY DEF TouchDevices

\* The client's touches are queued, and the queue is looked at.
LEMMA QueueTouchKeeps ==
  ASSUME TouchInv, NEW c \in Contact, NEW what \in T!Flags \cup {"dismiss"}, T!QueueTouch(c, what)
  PROVE  TouchInv'
<1> USE DEF T!QueueTouch, TouchInv
<1>1. T!TypeOK'  BY InputAssumption DEF T!TypeOK
<1>2. T!ObjectInRange' /\ T!NoStuckTouch' /\ T!NoStrandedTouch'
  BY DEF T!ObjectInRange, T!NoStuckTouch, T!NoStrandedTouch, T!Handling
<1> QED BY <1>1, <1>2, DevicesUnchanged

\* The channel thread makes the source ready.
LEMMA WakeTouchSourceKeeps ==
  ASSUME TouchInv, T!WakeTouchSource
  PROVE  TouchInv'
BY DevicesUnchanged DEF T!WakeTouchSource, TouchInv, T!TypeOK, T!ObjectInRange, T!NoStuckTouch,
   T!NoStrandedTouch, T!Handling

\* The source is dispatched.
LEMMA DispatchTouchesKeeps ==
  ASSUME TouchInv, T!DispatchTouches
  PROVE  TouchInv'
<1> USE DEF T!DispatchTouches, TouchInv
<1>1. T!TypeOK'  BY DEF T!TypeOK
<1>2. T!ObjectInRange' /\ T!NoStuckTouch' /\ T!NoStrandedTouch'
  BY DEF T!ObjectInRange, T!NoStuckTouch, T!NoStrandedTouch, T!Handling, T!NoDevice
<1> QED BY <1>1, <1>2, DevicesUnchanged

\* The queue is empty, or there is no device to wait for.
LEMMA TouchesHandledKeeps ==
  ASSUME TouchInv, T!TouchesHandled
  PROVE  TouchInv'
<1> USE DEF T!TouchesHandled, TouchInv
<1>1. T!TypeOK'  BY DEF T!TypeOK
<1>2. T!ObjectInRange' /\ T!NoStuckTouch' /\ T!NoStrandedTouch'
  BY DEF T!ObjectInRange, T!NoStuckTouch, T!NoStrandedTouch, T!Handling
<1> QED BY <1>1, <1>2, DevicesUnchanged

\* What is down is on the device that the session has.
LEMMA DownReaches ==
  ASSUME TouchInv, screen.down # {}
  PROVE  T!Reaches
BY DEF TouchInv, TouchDevices, T!Reaches

\* A contact becomes something else; the screen follows.
LEMMA ContactChanges ==
  ASSUME TouchInv, NEW c \in Contact, NEW state \in {"out_of_range", "hovering", "engaged"},
         NEW object \in BOOLEAN, NEW ignore \in BOOLEAN, T!Becomes(c, state, object, ignore),
         object <=> state # "out_of_range",
         T!Handling, UNCHANGED <<news, device, input>>,
         \/ UNCHANGED screen /\ c \notin screen.down
         \/ T!PutDown(c) /\ state = "engaged" /\ ~ignore
         \/ T!LiftUp(c)
  PROVE  /\ TouchDevices' /\ T!ObjectInRange' /\ T!NoStuckTouch'
         /\ context' \in [Contact -> [state : {"out_of_range", "hovering", "engaged"},
                                      object : BOOLEAN, ignore : BOOLEAN]]
         /\ screen' \in [device : 0 .. MaxDevices, devices : 0 .. MaxDevices, down : SUBSET Contact]
<1> USE DEF TouchInv
<1>1. context' = [context EXCEPT ![c] = [state |-> state, object |-> object, ignore |-> ignore]]
  BY DEF T!Becomes
<1>2. context' \in [Contact -> [state : {"out_of_range", "hovering", "engaged"},
                                object : BOOLEAN, ignore : BOOLEAN]]
  BY <1>1 DEF T!TypeOK
<1>3. /\ context'[c].state = state /\ context'[c].object = object /\ context'[c].ignore = ignore
      /\ \A d \in Contact \ {c} : context'[d] = context[d]
  BY <1>1 DEF T!TypeOK
<1>4. /\ screen' \in [device : 0 .. MaxDevices, devices : 0 .. MaxDevices, down : SUBSET Contact]
      /\ screen'.device = screen.device /\ screen'.devices = screen.devices
      /\ screen'.down # {} => T!Reaches
      /\ \A d \in screen'.down :
           \/ d # c /\ d \in screen.down
           \/ d = c /\ state = "engaged" /\ ~ignore
  BY DownReaches DEF T!PutDown, T!LiftUp, T!TypeOK
<1>5. TouchDevices'
  BY <1>4 DEF TouchDevices, T!Reaches
<1>6. T!ObjectInRange'  BY <1>1, <1>3 DEF T!Handling, T!ObjectInRange
<1>7. T!NoStuckTouch'  BY <1>3, <1>4 DEF T!Handling, T!NoStuckTouch, T!TypeOK
<1> QED BY <1>2, <1>4, <1>5, <1>6, <1>7

\* A touch is handled: its contact is down in the session exactly when it is engaged.
LEMMA HandleTouchKeeps ==
  ASSUME TouchInv, T!HandleTouch
  PROVE  TouchInv'
<1> USE DEF TouchInv
<1> PICK c \in {Head(touches)[1]}, flags0 \in {Head(touches)[2]} :
       \/ flags0 = "dismiss" /\ T!DismissContact(c)
       \/ /\ flags0 # "dismiss"
          /\ \/ context[c].state = "out_of_range" /\ T!OutOfRange(c, flags0)
             \/ context[c].state = "hovering" /\ T!Hovering(c, flags0)
             \/ context[c].state = "engaged" /\ T!Engaged(c, flags0)
  BY DEF T!HandleTouch
<1>1. /\ touches # <<>> /\ touches' = Tail(touches) /\ T!Handling
      /\ UNCHANGED <<pdus, wakes, ready, input, device, news>>
  BY DEF T!HandleTouch
<1>2. touches \in Seq(Contact \X (T!Flags \cup {"dismiss"}))
  BY DEF T!TypeOK
<1>3. c \in Contact /\ touches' \in Seq(Contact \X (T!Flags \cup {"dismiss"}))
  BY <1>1, <1>2, HeadTailProperties
<1>4. c \in screen.down => context[c].state = "engaged" /\ ~context[c].ignore /\ context[c].object
  BY DEF T!NoStuckTouch
<1>5. context[c].object <=> context[c].state # "out_of_range"
  BY <1>1, <1>3 DEF T!ObjectInRange, T!Handling
<1> DEFINE Goal ==
         /\ TouchDevices' /\ T!ObjectInRange' /\ T!NoStuckTouch'
         /\ context' \in [Contact -> [state : {"out_of_range", "hovering", "engaged"},
                                      object : BOOLEAN, ignore : BOOLEAN]]
         /\ screen' \in [device : 0 .. MaxDevices, devices : 0 .. MaxDevices, down : SUBSET Contact]
<1>6. Goal
  <2>1. CASE UNCHANGED <<context, screen>>
    BY <1>1, <2>1, DevicesUnchanged DEF T!ObjectInRange, T!NoStuckTouch, T!Handling, T!TypeOK
  <2>2. CASE \E state \in {"out_of_range", "hovering", "engaged"}, object, ignore \in BOOLEAN :
                /\ T!Becomes(c, state, object, ignore)
                /\ object <=> state # "out_of_range"
                /\ \/ UNCHANGED screen /\ c \notin screen.down
                   \/ T!PutDown(c) /\ state = "engaged" /\ ~ignore
                   \/ T!LiftUp(c)
    BY <1>1, <1>3, <2>2, ContactChanges
  <2> HIDE DEF Goal
  <2>3. CASE T!Engages(c) /\ c \notin screen.down  BY <2>3, <2>2 DEF T!Engages
  <2>4. CASE context[c].state = "out_of_range" /\ T!OutOfRange(c, flags0)
    BY <1>4, <2>4, <2>1, <2>2, <2>3 DEF T!OutOfRange
  <2>5. CASE context[c].state = "hovering" /\ T!Hovering(c, flags0)
    BY <1>4, <2>5, <2>1, <2>2, <2>3 DEF T!Hovering
  <2>6. CASE context[c].state = "engaged" /\ T!Engaged(c, flags0)
    <3>1. CASE UNCHANGED <<context, screen>>
      BY <2>1, <3>1
    <3>2. CASE flags0 \in {"up_hover", "up"}  BY <1>4, <2>6, <3>2, <2>2 DEF T!Engaged
    <3> QED BY <2>6, <3>1, <3>2 DEF T!Engaged
  <2>7. CASE T!DismissContact(c)
    <3>1. CASE UNCHANGED <<context, screen>>
      BY <2>1, <3>1
    <3>2. CASE context[c].object  BY <1>4, <2>7, <3>2, <2>2 DEF T!DismissContact
    <3> QED BY <2>7, <3>1, <3>2 DEF T!DismissContact
  <2> QED BY <2>4, <2>5, <2>6, <2>7
<1>7. T!TypeOK'  BY <1>1, <1>3, <1>6 DEF T!TypeOK
<1>8. T!NoStrandedTouch'
  BY <1>1 DEF T!NoStrandedTouch, T!Handling
<1> QED BY <1>6, <1>7, <1>8

\* News is received from the front.
LEMMA NewsTail ==
  ASSUME TouchInv, news # <<>>
  PROVE  /\ Head(news) \in TouchNews /\ Head(news) = news[1] /\ 1 \in DOMAIN news
         /\ Tail(news) \in Seq(TouchNews)
         /\ \A i \in DOMAIN Tail(news) :
              i \in Nat \ {0} /\ i + 1 \in DOMAIN news /\ Tail(news)[i] = news[i + 1]
BY HeadTailProperties, EmptySeq, LenProperties DEF TouchInv, TouchDevices

\* Contacts are reset when the display server holds none.
LEMMA ResetKeeps ==
  ASSUME TouchInv, T!ResetContacts, screen.down = {}, UNCHANGED <<screen, input>>, input = "rest"
  PROVE  /\ T!ObjectInRange' /\ T!NoStuckTouch'
         /\ context' \in [Contact -> [state : {"out_of_range", "hovering", "engaged"},
                                      object : BOOLEAN, ignore : BOOLEAN]]
BY DEF TouchInv, T!ResetContacts, T!TypeOK, T!ObjectInRange, T!Handling, T!NoStuckTouch

\* The session hears of a device.
LEMMA TouchDeviceAddedKeeps ==
  ASSUME TouchInv, T!TouchDeviceAdded
  PROVE  TouchInv'
<1> USE DEF TouchInv
<1>1. /\ input = "rest" /\ news # <<>> /\ Head(news).type = "added" /\ news' = Tail(news)
      /\ UNCHANGED <<pdus, wakes, touches, input, screen, ready>>
      /\ device' = [id |-> Head(news).id, emulating |-> FALSE] /\ T!ResetContacts
  BY DEF T!TouchDeviceAdded, T!Receive
<1>2. screen.down = {}
  BY <1>1, NewsTail DEF TouchDevices
<1>3. /\ Head(news).id \in 1 .. MaxDevices /\ Head(news).id <= screen.devices
  BY <1>1, NewsTail DEF TouchDevices, TouchNews
<1>4. /\ T!ObjectInRange' /\ T!NoStuckTouch'
      /\ context' \in [Contact -> [state : {"out_of_range", "hovering", "engaged"},
                                      object : BOOLEAN, ignore : BOOLEAN]]
  BY <1>1, <1>2, ResetKeeps
<1>5. T!TypeOK'  BY <1>1, InputAssumption, <1>3, <1>4 DEF T!TypeOK
<1>6. T!NoStrandedTouch'
  BY <1>1 DEF T!NoStrandedTouch
<1>7. TouchDevices'
  <2>1. /\ device'.id = news[1].id /\ ~device'.emulating /\ 1 \in DOMAIN news /\ news[1].type = "added"
        /\ device'.id # T!NoDevice /\ device'.id <= screen.devices
    BY <1>1, <1>3, NewsTail DEF T!NoDevice
  <2>2. screen.devices \in Nat /\ \A i \in DOMAIN news : news[i].id \in Nat
    <3>1. \A i \in DOMAIN news : news[i] \in TouchNews
      BY DEF TouchDevices
    <3> QED BY <3>1, InputAssumption DEF T!TypeOK, TouchNews
  <2>3. \A i \in DOMAIN news' :
       /\ news'[i].id <= screen.devices
       /\ news'[i].type = "removed" => news'[i].id # screen.device
       /\ news'[i].type = "added" => device'.id = T!NoDevice \/ device'.id # screen.device
       /\ \A j \in 1 .. (i - 1) :
            news'[i].type = "added" /\ news'[j].type = "added" => news'[j].id < news'[i].id
    <3> SUFFICES ASSUME NEW i \in DOMAIN news'
                 PROVE  /\ news'[i].id <= screen.devices
                        /\ news'[i].type = "removed" => news'[i].id # screen.device
                        /\ news'[i].type = "added" => device'.id = T!NoDevice \/ device'.id # screen.device
                        /\ \A j \in 1 .. (i - 1) :
                             news'[i].type = "added" /\ news'[j].type = "added" => news'[j].id < news'[i].id
      OBVIOUS
    <3>1. i \in Nat \ {0} /\ i + 1 \in DOMAIN news /\ news'[i] = news[i + 1]
      BY <1>1, NewsTail
    <3>2. news'[i].type = "added" => news[1].id < news[i + 1].id
      BY <2>1, <3>1 DEF TouchDevices
    <3>3. \A j \in 1 .. (i - 1) : j \in DOMAIN news' /\ j + 1 \in 1 .. ((i + 1) - 1)
      BY <1>1, NewsTail, LenProperties, <3>1
    <3>4. \A j \in 1 .. (i - 1) : news'[j] = news[j + 1]
      BY <1>1, <3>3, NewsTail
    <3>5. \A j \in 1 .. (i - 1) :
            news'[i].type = "added" /\ news'[j].type = "added" => news'[j].id < news'[i].id
      BY <3>1, <3>3, <3>4 DEF TouchDevices
    <3>6. /\ news'[i].id <= screen.devices
          /\ news'[i].type = "removed" => news'[i].id # screen.device
      BY <3>1 DEF TouchDevices
    <3>7. news'[i].type = "added" => device'.id # screen.device
      BY <3>1, <3>2, <3>6, <2>1, <2>2 DEF TouchDevices
    <3> QED BY <3>5, <3>6, <3>7
  <2>4. news' \in Seq(TouchNews)
    BY <1>1, NewsTail
  <2> QED BY <1>1, <1>2, <2>1, <2>3, <2>4 DEF TouchDevices
<1> QED BY <1>4, <1>5, <1>6, <1>7

\* The device stays or goes when news is received.
LEMMA NewsReceived ==
  ASSUME TouchInv, news # <<>>, news' = Tail(news), UNCHANGED screen,
         device'.id \in {T!NoDevice, device.id},
         device'.emulating => device'.id # T!NoDevice,
         screen.down # {} => device'.emulating /\ device'.id = device.id
  PROVE  TouchDevices'
<1> USE DEF TouchInv
<1>1. news' \in Seq(TouchNews)
  BY NewsTail
<1>2. MaxDevices \in Nat /\ device.id \in Nat /\ screen.devices \in Nat
  BY InputAssumption DEF T!TypeOK
<1>3. device'.id <= screen.devices
  BY <1>2 DEF TouchDevices, T!NoDevice
<1>4. DOMAIN news' = 1 .. Len(news') /\ Len(news') \in Nat
  BY <1>1, LenProperties
<1>5. ASSUME NEW i \in DOMAIN news'
      PROVE  /\ news'[i].id <= screen.devices
             /\ news'[i].type = "removed" => news'[i].id # screen.device
             /\ news'[i].type = "added" => device'.id = T!NoDevice \/ device'.id # screen.device
             /\ \A j \in 1 .. (i - 1) :
                  news'[i].type = "added" /\ news'[j].type = "added" => news'[j].id < news'[i].id
  BY <1>5, NewsTail, <1>4 DEF TouchDevices
<1>6. screen.down # {} => device'.emulating /\ device'.id = screen.device
  BY DEF TouchDevices
<1> QED BY <1>1, <1>3, <1>5, <1>6 DEF TouchDevices

\* The device emulates from now on.
LEMMA TouchDeviceResumedKeeps ==
  ASSUME TouchInv, T!TouchDeviceResumed
  PROVE  TouchInv'
<1> USE DEF TouchInv
<1>1. /\ input = "rest" /\ news # <<>> /\ news' = Tail(news)
      /\ UNCHANGED <<pdus, wakes, touches, input, screen, context>>
  BY DEF T!TouchDeviceResumed, T!Receive
<1>2. /\ device' \in [id : 0 .. MaxDevices, emulating : BOOLEAN] /\ device'.id = device.id
      /\ device'.emulating => device'.id # T!NoDevice
      /\ device.emulating => device'.emulating
  <2>1. Head(news).id # T!NoDevice
    BY <1>1, NewsTail, InputAssumption DEF TouchNews, T!NoDevice
  <2> QED BY <2>1 DEF T!TouchDeviceResumed, T!TypeOK, TouchDevices
<1>3. ready' = TRUE \/ UNCHANGED <<device, ready>>
  BY DEF T!TouchDeviceResumed
<1>4. TouchDevices'
  BY <1>1, <1>2, NewsReceived DEF TouchDevices
<1>5. T!TypeOK'  BY <1>1, <1>3, <1>2 DEF T!TypeOK
<1>6. T!ObjectInRange' /\ T!NoStuckTouch'
  BY <1>1 DEF T!ObjectInRange, T!NoStuckTouch, T!Handling
<1>7. T!NoStrandedTouch'
  BY <1>1, <1>3 DEF T!NoStrandedTouch
<1> QED BY <1>4, <1>5, <1>6, <1>7

\* The session hears that its device is gone, and resets its contacts.
LEMMA TouchDeviceRemovedKeeps ==
  ASSUME TouchInv, T!TouchDeviceRemoved
  PROVE  TouchInv'
<1> USE DEF TouchInv
<1>1. /\ input = "rest" /\ news # <<>> /\ Head(news).type = "removed" /\ news' = Tail(news)
      /\ UNCHANGED <<pdus, wakes, touches, input, screen, ready>>
  BY DEF T!TouchDeviceRemoved, T!Receive
<1>2. CASE UNCHANGED <<device, context>>
  <2>1. TouchDevices'
    BY <1>1, <1>2, NewsReceived DEF TouchDevices
  <2>2. T!TypeOK'  BY <1>1, <1>2 DEF T!TypeOK
  <2>3. T!ObjectInRange' /\ T!NoStuckTouch' /\ T!NoStrandedTouch'
    BY <1>1, <1>2 DEF T!ObjectInRange, T!NoStuckTouch, T!Handling, T!NoStrandedTouch
  <2> QED BY <2>1, <2>2, <2>3
<1>3. CASE /\ device.id = Head(news).id
           /\ device' = [id |-> T!NoDevice, emulating |-> FALSE] /\ T!ResetContacts
  <2>1. screen.down = {}
    BY <1>1, <1>3, NewsTail DEF TouchDevices
  <2>2. TouchDevices'
    BY <1>1, <1>3, <2>1, NewsReceived
  <2>3. /\ T!ObjectInRange' /\ T!NoStuckTouch'
        /\ context' \in [Contact -> [state : {"out_of_range", "hovering", "engaged"},
                                     object : BOOLEAN, ignore : BOOLEAN]]
    BY <1>1, <1>3, <2>1, ResetKeeps
  <2>4. T!TypeOK'  BY <1>1, <1>3, InputAssumption, <2>3 DEF T!TypeOK, T!NoDevice
  <2>5. T!NoStrandedTouch'
    BY <1>3 DEF T!NoStrandedTouch
  <2> QED BY <2>2, <2>3, <2>4, <2>5
<1> QED BY <1>2, <1>3 DEF T!TouchDeviceRemoved

\* The channel is disposed: its device is the one it had, or none.
LEMMA TearDownInputKeeps ==
  ASSUME TouchInv, T!TearDownInput
  PROVE  TouchInv'
<1> USE DEF TouchInv
<1>1. /\ input = "rest" /\ ready' = FALSE
      /\ input' = IF device.id = T!NoDevice THEN "release" ELSE "dispose"
      /\ UNCHANGED <<pdus, wakes, touches, context, news, screen, device>>
  BY DEF T!TearDownInput, T!DisposeInput
<1>2. T!TypeOK'  BY <1>1 DEF T!TypeOK
<1>3. T!ObjectInRange' /\ T!NoStuckTouch' /\ T!NoStrandedTouch'
  BY <1>1 DEF T!ObjectInRange, T!NoStuckTouch, T!Handling, T!NoStrandedTouch
<1> QED BY <1>1, <1>2, <1>3, DevicesUnchanged

\* The channel is gone when every contact was released.
LEMMA CloseInputKeeps ==
  ASSUME TouchInv, T!CloseInput
  PROVE  TouchInv'
<1> USE DEF TouchInv
<1>1. /\ input = "rest" /\ ready' = FALSE /\ input' = "release"
      /\ device' = [id |-> T!NoDevice, emulating |-> FALSE] /\ news' = <<>>
      /\ screen' = [screen EXCEPT !.device = T!NoDevice, !.devices = MaxDevices, !.down = {}]
      /\ UNCHANGED <<pdus, wakes, touches, context>>
  BY DEF T!CloseInput, T!DisposeInput
<1>2. MaxDevices \in Nat
  BY InputAssumption
<1>3. screen' = [device |-> T!NoDevice, devices |-> MaxDevices, down |-> {}]
  BY <1>1 DEF T!TypeOK
<1>4. T!TypeOK'
  <2>1. wakes' \in BOOLEAN /\ ready' \in BOOLEAN
    BY <1>1 DEF T!TypeOK
  <2>2. device' \in [id : 0 .. MaxDevices, emulating : BOOLEAN]
    BY <1>1, <1>2 DEF T!NoDevice
  <2>3. screen' \in [device : 0 .. MaxDevices, devices : 0 .. MaxDevices, down : SUBSET Contact]
    BY <1>2, <1>3 DEF T!NoDevice
  <2> QED BY <1>1, <2>1, <2>2, <2>3 DEF T!TypeOK
<1>5. T!ObjectInRange' /\ T!NoStuckTouch' /\ T!NoStrandedTouch'
  BY <1>1, <1>3 DEF T!ObjectInRange, T!NoStuckTouch, T!Handling, T!NoStrandedTouch
<1>6. TouchDevices'
  BY <1>1, <1>2, <1>3 DEF TouchDevices, T!NoDevice
<1> QED BY <1>4, <1>5, <1>6

\* Those that are down on the device have their objects: all are lifted up.
LEMMA ReleaseContactsKeeps ==
  ASSUME TouchInv, T!ReleaseContacts
  PROVE  TouchInv'
<1> USE DEF TouchInv
<1>1. /\ input # "gone" /\ input' = "gone" /\ touches' = <<>>
      /\ context' = [c \in Contact |-> [context[c] EXCEPT !.object = FALSE]]
      /\ screen' = IF T!Reaches
                   THEN [screen EXCEPT !.down = @ \ {c \in Contact : context[c].object}]
                   ELSE screen
      /\ UNCHANGED <<pdus, wakes, ready, device, news>>
  BY DEF T!ReleaseContacts
<1>2. screen'.down = {} /\ screen'.device = screen.device /\ screen'.devices = screen.devices
      /\ screen' \in [device : 0 .. MaxDevices, devices : 0 .. MaxDevices, down : SUBSET Contact]
  BY <1>1, DownReaches DEF T!TypeOK, T!NoStuckTouch
<1>3. T!TypeOK'
  <2>1. wakes' \in BOOLEAN /\ ready' \in BOOLEAN
    BY <1>1 DEF T!TypeOK
  <2>2. context' \in [Contact -> [state : {"out_of_range", "hovering", "engaged"},
                                  object : BOOLEAN, ignore : BOOLEAN]]
    BY <1>1 DEF T!TypeOK
  <2> QED BY <1>1, <1>2, <2>1, <2>2 DEF T!TypeOK
<1>4. T!ObjectInRange' /\ T!NoStuckTouch' /\ T!NoStrandedTouch'
  BY <1>1, <1>2 DEF T!ObjectInRange, T!NoStuckTouch, T!Handling, T!NoStrandedTouch
<1>5. TouchDevices'
  BY <1>1, <1>2 DEF TouchDevices
<1> QED BY <1>3, <1>4, <1>5

\* A new device has a number that no device had, and is told of after all others.
LEMMA ScreenAddsDeviceKeeps ==
  ASSUME TouchInv, T!ScreenAddsDevice
  PROVE  TouchInv'
<1> USE DEF TouchInv
<1> DEFINE new == screen.devices + 1
           added == [type |-> "added", id |-> new]
           resumed == [type |-> "resumed", id |-> new]
<1>1. /\ screen.device = T!NoDevice /\ screen.devices < MaxDevices
      /\ screen' = [screen EXCEPT !.device = new, !.devices = new]
      /\ news' = news \o <<added, resumed>>
      /\ UNCHANGED <<pdus, wakes, touches, ready, input, context, device>>
  BY DEF T!ScreenAddsDevice
<1>2. /\ MaxDevices \in Nat /\ screen.devices \in Nat /\ new \in 1 .. MaxDevices
      /\ device.id \in Nat /\ news \in Seq(TouchNews)
  BY <1>1, InputAssumption DEF T!TypeOK, TouchDevices
<1>3. /\ screen'.device = new /\ screen'.devices = new /\ screen'.down = screen.down
      /\ screen' \in [device : 0 .. MaxDevices, devices : 0 .. MaxDevices, down : SUBSET Contact]
  <2>1. screen' = [device |-> new, devices |-> new, down |-> screen.down] /\ screen.down \subseteq Contact
    BY <1>1 DEF T!TypeOK
  <2> HIDE DEF new
  <2>2. new \in 0 .. MaxDevices
    BY <1>2
  <2> QED BY <2>1, <2>2
<1>4. screen.down = {}  BY <1>1 DEF TouchDevices
<1>5. T!TypeOK'  BY <1>1, <1>3 DEF T!TypeOK
<1>6. T!ObjectInRange' /\ T!NoStuckTouch' /\ T!NoStrandedTouch'
  BY <1>1, <1>3 DEF T!ObjectInRange, T!NoStuckTouch, T!Handling, T!NoStrandedTouch
<1>7. TouchDevices'
  <2>1. /\ added \in TouchNews /\ resumed \in TouchNews
        /\ added.type = "added" /\ resumed.type = "resumed" /\ added.id = new /\ resumed.id = new
    BY <1>2 DEF TouchNews
  <2> HIDE DEF added, resumed
  <2>2. /\ <<added, resumed>> \in Seq(TouchNews) /\ Len(<<added, resumed>>) = 2
        /\ <<added, resumed>>[1] = added /\ <<added, resumed>>[2] = resumed
    BY <2>1
  <2>3. Len(news) \in Nat /\ DOMAIN news = 1 .. Len(news)
    BY <1>2, LenProperties
  <2>4. /\ news' \in Seq(TouchNews) /\ DOMAIN news' = 1 .. (Len(news) + 2)
        /\ \A i \in DOMAIN news : news'[i] = news[i]
        /\ news'[Len(news) + 1] = added /\ news'[Len(news) + 2] = resumed
    BY <1>1, <1>2, <2>2, <2>3, ConcatProperties
  <2>5. \A i \in DOMAIN news : news[i] \in TouchNews /\ news[i].id \in Nat
    <3>1. \A i \in DOMAIN news : news[i] \in TouchNews
      BY <1>2, ElementOfSeq, <2>3
    <3> QED BY <3>1, <1>2 DEF TouchNews
  <2> HIDE DEF new
  <2>6. /\ device.id <= screen.devices /\ screen.devices < new /\ new \in Nat /\ new = screen'.devices
        /\ new # T!NoDevice /\ new = screen.devices + 1
    BY <1>2, <1>3 DEF TouchDevices, T!NoDevice, new
  <2>7. ASSUME NEW i \in DOMAIN news'
        PROVE  /\ news'[i].id <= new
               /\ news'[i].type = "removed" => news'[i].id # new
               /\ news'[i].type = "added" => device.id = T!NoDevice \/ device.id # new
               /\ \A j \in 1 .. (i - 1) :
                    news'[i].type = "added" /\ news'[j].type = "added" => news'[j].id < news'[i].id
    <3>1. CASE i \in DOMAIN news
      <4>1. news'[i] = news[i] /\ news[i].id <= screen.devices /\ news[i].id \in Nat
        BY <2>4, <2>5, <3>1 DEF TouchDevices
      <4>2. \A j \in 1 .. (i - 1) : j \in DOMAIN news /\ news'[j] = news[j]
        BY <2>3, <2>4, <3>1
      <4>3. \A j \in 1 .. (i - 1) :
              news[i].type = "added" /\ news[j].type = "added" => news[j].id < news[i].id
        BY <3>1 DEF TouchDevices
      <4>4. news'[i].id <= new /\ news'[i].id # new /\ device.id # new
        BY <1>2, <2>6, <4>1
      <4> QED BY <4>1, <4>2, <4>3, <4>4
    <3>2. CASE i = Len(news) + 1
      <4>1. \A j \in 1 .. (i - 1) : j \in DOMAIN news /\ news'[j] = news[j]
        BY <2>3, <2>4, <3>2
      <4>2. \A j \in 1 .. (i - 1) : news'[j].id < new
        BY <1>2, <2>5, <2>6, <4>1 DEF TouchDevices
      <4>3. device.id # new
        BY <1>2, <2>6
      <4> QED BY <2>1, <2>4, <2>6, <3>2, <4>2, <4>3
    <3>3. CASE i = Len(news) + 2
      BY <2>1, <2>4, <2>6, <3>3
    <3> QED BY <2>3, <2>4, <3>1, <3>2, <3>3
  <2>8. device.id <= new
    BY <1>2, <2>6
  <2> QED BY <1>1, <1>3, <1>4, <2>4, <2>6, <2>7, <2>8 DEF TouchDevices
<1> QED BY <1>5, <1>6, <1>7

\* The display server removes the device; what is down on it is not any more.
LEMMA ScreenRemovesDeviceKeeps ==
  ASSUME TouchInv, T!ScreenRemovesDevice
  PROVE  TouchInv'
<1> USE DEF TouchInv
<1> DEFINE removed == [type |-> "removed", id |-> screen.device]
<1>1. /\ screen.device # T!NoDevice
      /\ screen' = [screen EXCEPT !.device = T!NoDevice, !.down = {}]
      /\ news' = Append(news, removed)
      /\ UNCHANGED <<pdus, wakes, touches, ready, input, context, device>>
  BY DEF T!ScreenRemovesDevice
<1>2. /\ MaxDevices \in Nat /\ screen.devices \in 0 .. MaxDevices /\ screen.device \in 1 .. MaxDevices
      /\ screen.device = screen.devices /\ device.id \in Nat /\ news \in Seq(TouchNews)
  BY <1>1, InputAssumption DEF T!TypeOK, TouchDevices, T!NoDevice
<1>3. /\ screen'.device = T!NoDevice /\ screen'.devices = screen.devices /\ screen'.down = {}
      /\ screen' \in [device : 0 .. MaxDevices, devices : 0 .. MaxDevices, down : SUBSET Contact]
  <2>1. screen' = [device |-> T!NoDevice, devices |-> screen.devices, down |-> {}]
    BY <1>1 DEF T!TypeOK
  <2> QED BY <1>2, <2>1 DEF T!NoDevice
<1>4. T!TypeOK'
  <2>1. wakes' \in BOOLEAN /\ ready' \in BOOLEAN
    BY <1>1 DEF T!TypeOK
  <2> QED BY <1>1, <1>3, <2>1 DEF T!TypeOK
<1>5. T!ObjectInRange' /\ T!NoStuckTouch' /\ T!NoStrandedTouch'
  BY <1>1, <1>3 DEF T!ObjectInRange, T!NoStuckTouch, T!Handling, T!NoStrandedTouch
<1>6. TouchDevices'
  <2>1. removed \in TouchNews /\ removed.type = "removed" /\ removed.id = screen.device
    BY <1>2 DEF TouchNews
  <2> HIDE DEF removed
  <2>2. Len(news) \in Nat /\ DOMAIN news = 1 .. Len(news)
    BY <1>2, LenProperties
  <2>3. /\ news' \in Seq(TouchNews) /\ DOMAIN news' = 1 .. (Len(news) + 1)
        /\ \A i \in DOMAIN news : news'[i] = news[i]
        /\ news'[Len(news) + 1] = removed
    BY <1>1, <1>2, <2>1, <2>2, AppendProperties
  <2>4. \A i \in DOMAIN news : news[i].id # T!NoDevice
    <3>1. \A i \in DOMAIN news : news[i] \in TouchNews
      BY <1>2, ElementOfSeq, <2>2
    <3> QED BY <3>1, <1>2 DEF TouchNews, T!NoDevice
  <2>5. ASSUME NEW i \in DOMAIN news'
        PROVE  /\ news'[i].id <= screen.devices
               /\ news'[i].type = "removed" => news'[i].id # T!NoDevice
               /\ news'[i].type = "added" => device.id = T!NoDevice \/ device.id # T!NoDevice
               /\ \A j \in 1 .. (i - 1) :
                    news'[i].type = "added" /\ news'[j].type = "added" => news'[j].id < news'[i].id
    <3>1. CASE i \in DOMAIN news  BY <2>3, <3>1, <2>2, <2>4 DEF TouchDevices
    <3>2. CASE i = Len(news) + 1
      BY <1>1, <1>2, <2>1, <2>3, <3>2
    <3> QED BY <2>2, <2>3, <3>1, <3>2
  <2> QED BY <1>1, <1>3, <2>3, <2>5 DEF TouchDevices
<1> QED BY <1>4, <1>5, <1>6

\* Every step of the touches keeps their invariant.
LEMMA TouchStep ==
  ASSUME TouchInv, T!Next
  PROVE  TouchInv'
<1>1. ASSUME NEW c \in Contact, NEW what \in T!Flags \cup {"dismiss"}, T!QueueTouch(c, what)
      PROVE  TouchInv'
  BY <1>1, QueueTouchKeeps
<1>2. CASE T!WakeTouchSource
  BY <1>2, WakeTouchSourceKeeps
<1>3. CASE T!Handler
  BY <1>3, DispatchTouchesKeeps, HandleTouchKeeps, TouchesHandledKeeps, ReleaseContactsKeeps
     DEF T!Handler
<1>4. CASE T!EiSource
  BY <1>4, TouchDeviceAddedKeeps, TouchDeviceResumedKeeps, TouchDeviceRemovedKeeps DEF T!EiSource
<1>5. CASE T!TearDownInput \/ T!CloseInput
  BY <1>5, TearDownInputKeeps, CloseInputKeeps
<1>6. CASE T!ScreenAddsDevice \/ T!ScreenRemovesDevice
  BY <1>6, ScreenAddsDeviceKeeps, ScreenRemovesDeviceKeeps
<1> QED BY <1>1, <1>2, <1>3, <1>4, <1>5, <1>6 DEF T!Next

\* The touches rest while the keyboard moves.
LEMMA TouchStutters ==
  ASSUME TouchInv, UNCHANGED touchVars
  PROVE  TouchInv'
<1> USE DEF TouchInv, touchVars
<1>1. T!TypeOK'  BY DEF T!TypeOK
<1>2. T!ObjectInRange' /\ T!NoStuckTouch' /\ T!NoStrandedTouch'
  BY DEF T!ObjectInRange, T!NoStuckTouch, T!Handling, T!NoStrandedTouch
<1> QED BY <1>1, <1>2, DevicesUnchanged

-----------------------------------------------------------------------------
(* Sequences, outcomes and held keys. *)

\* What is taken from the front, and what is appended.
LEMMA TailFacts ==
  ASSUME NEW S, NEW s \in Seq(S), s # <<>>
  PROVE  /\ Len(s) \in Nat \ {0} /\ DOMAIN s = 1 .. Len(s) /\ 1 \in DOMAIN s
         /\ Tail(s) \in Seq(S) /\ Len(Tail(s)) = Len(s) - 1 /\ DOMAIN Tail(s) = 1 .. (Len(s) - 1)
         /\ Head(s) = s[1] /\ Head(s) \in S
         /\ \A i \in DOMAIN Tail(s) : i \in Nat \ {0} /\ i + 1 \in DOMAIN s /\ Tail(s)[i] = s[i + 1]
         /\ \A i \in DOMAIN s : i # 1 => i - 1 \in DOMAIN Tail(s) /\ s[i] = Tail(s)[i - 1]
<1>1. Len(s) \in Nat \ {0} /\ DOMAIN s = 1 .. Len(s)
  BY EmptySeq, LenProperties
<1>2. /\ Tail(s) \in Seq(S) /\ Len(Tail(s)) = Len(s) - 1 /\ Head(s) \in S
      /\ \A i \in 1 .. Len(Tail(s)) : Tail(s)[i] = s[i + 1]
  BY HeadTailProperties
<1>3. Head(s) = s[1]
  OBVIOUS
<1>4. DOMAIN Tail(s) = 1 .. (Len(s) - 1)
  BY <1>2, LenProperties
<1>5. \A i \in DOMAIN Tail(s) : i \in Nat \ {0} /\ i + 1 \in DOMAIN s /\ Tail(s)[i] = s[i + 1]
  BY <1>1, <1>2, <1>4
<1>6. \A i \in DOMAIN s : i # 1 => i - 1 \in DOMAIN Tail(s) /\ s[i] = Tail(s)[i - 1]
  BY <1>1, <1>4, <1>5
<1> QED BY <1>1, <1>2, <1>3, <1>4, <1>5, <1>6

\* A sequence with one more element.
LEMMA AppendFacts ==
  ASSUME NEW S, NEW s \in Seq(S), NEW e \in S
  PROVE  /\ Len(s) \in Nat /\ DOMAIN s = 1 .. Len(s)
         /\ Append(s, e) \in Seq(S) /\ Len(Append(s, e)) = Len(s) + 1
         /\ DOMAIN Append(s, e) = 1 .. (Len(s) + 1)
         /\ DOMAIN Append(s, e) = DOMAIN s \cup {Len(s) + 1} /\ Len(s) + 1 \notin DOMAIN s
         /\ \A i \in DOMAIN s : i <= Len(s) /\ Append(s, e)[i] = s[i]
         /\ Append(s, e)[Len(s) + 1] = e
BY LenProperties, AppendProperties

\* A sequence after another.
LEMMA ConcatFacts ==
  ASSUME NEW S, NEW s \in Seq(S), NEW t \in Seq(S)
  PROVE  /\ Len(s) \in Nat /\ DOMAIN s = 1 .. Len(s) /\ Len(t) \in Nat /\ DOMAIN t = 1 .. Len(t)
         /\ s \o t \in Seq(S) /\ Len(s \o t) = Len(s) + Len(t)
         /\ DOMAIN (s \o t) = 1 .. (Len(s) + Len(t))
         /\ \A i \in DOMAIN s : i \in DOMAIN (s \o t) /\ (s \o t)[i] = s[i]
         /\ \A i \in DOMAIN t : Len(s) + i \in DOMAIN (s \o t) /\ (s \o t)[Len(s) + i] = t[i]
         /\ \A i \in DOMAIN (s \o t) :
              \/ i \in DOMAIN s
              \/ \E j \in DOMAIN t : i = Len(s) + j
<1>1. /\ Len(s) \in Nat /\ DOMAIN s = 1 .. Len(s) /\ Len(t) \in Nat /\ DOMAIN t = 1 .. Len(t)
  BY LenProperties
<1>2. /\ s \o t \in Seq(S) /\ Len(s \o t) = Len(s) + Len(t)
      /\ \A i \in 1 .. Len(s) + Len(t) : (s \o t)[i] = IF i <= Len(s) THEN s[i] ELSE t[i - Len(s)]
  BY ConcatProperties
<1>3. DOMAIN (s \o t) = 1 .. (Len(s) + Len(t))
  BY <1>2, LenProperties
<1>4. \A i \in DOMAIN s : i \in DOMAIN (s \o t) /\ (s \o t)[i] = s[i]
  BY <1>1, <1>2, <1>3
<1>5. ASSUME NEW i \in DOMAIN t
      PROVE  Len(s) + i \in DOMAIN (s \o t) /\ (s \o t)[Len(s) + i] = t[i]
  BY <1>1, <1>3, <1>2
<1>6. ASSUME NEW i \in DOMAIN (s \o t), i \notin DOMAIN s
      PROVE  \E j \in DOMAIN t : i = Len(s) + j
  <2>1. i - Len(s) \in DOMAIN t /\ i = Len(s) + (i - Len(s))
    BY <1>1, <1>3, <1>6
  <2> QED BY <2>1
<1> QED BY <1>1, <1>2, <1>3, <1>4, <1>5, <1>6

\* Whether a key is down after events, when there is one event more at the end ...
LEMMA OutcomeOther ==
  ASSUME NEW S, NEW s \in Seq(S), NEW e \in S, NEW about \in SUBSET DOMAIN s, NEW before
  PROVE  K!Outcome(Append(s, e), about, before) <=> K!Outcome(s, about, before)
BY AppendFacts DEF K!Outcome

\* The last event decides.
LEMMA OutcomeLast ==
  ASSUME NEW S, NEW s \in Seq(S), NEW e \in S, NEW about \in SUBSET DOMAIN s, NEW before
  PROVE  K!Outcome(Append(s, e), about \cup {Len(s) + 1}, before) <=> e.down
BY AppendFacts DEF K!Outcome

\* ... and when the first event has arrived.
LEMMA OutcomeTail ==
  ASSUME NEW S, NEW s \in Seq(S), s # <<>>, NEW about \in SUBSET DOMAIN s, NEW before
  PROVE  K!Outcome(s, about, before)
         <=> K!Outcome(Tail(s), {i \in DOMAIN Tail(s) : i + 1 \in about},
                       IF 1 \in about THEN s[1].down ELSE before)
<1> DEFINE rest == {i \in DOMAIN Tail(s) : i + 1 \in about}
           start == IF 1 \in about THEN s[1].down ELSE before
<1>1. \A i \in about : i \in Nat \ {0} /\ (i # 1 => i - 1 \in rest /\ (i - 1) + 1 = i /\ s[i] = Tail(s)[i - 1])
  BY TailFacts
<1>2. \A i \in rest : i \in Nat \ {0} /\ i + 1 \in about /\ Tail(s)[i] = s[i + 1]
  BY TailFacts
<1>3. ASSUME K!Outcome(s, about, before) PROVE K!Outcome(Tail(s), rest, start)
  <2>1. CASE about = {} /\ before
    BY <2>1 DEF K!Outcome
  <2>2. ASSUME NEW i \in about, s[i].down, \A j \in about : j <= i
        PROVE  K!Outcome(Tail(s), rest, start)
    <3>1. CASE i = 1
      <4>1. rest = {}  BY <1>2, <2>2, <3>1
      <4> QED BY <2>2, <3>1, <4>1 DEF K!Outcome
    <3>2. CASE i # 1
      <4>1. i - 1 \in rest /\ Tail(s)[i - 1].down
        BY <1>1, <2>2, <3>2
      <4>2. \A j \in rest : j <= i - 1  BY <1>1, <1>2, <2>2
      <4> QED BY <4>1, <4>2 DEF K!Outcome
    <3> QED BY <3>1, <3>2
  <2> QED BY <1>3, <2>1, <2>2 DEF K!Outcome
<1>4. ASSUME K!Outcome(Tail(s), rest, start) PROVE K!Outcome(s, about, before)
  <2>1. CASE rest = {} /\ start
    <3>1. \A j \in about : j = 1
      BY <1>1, <2>1
    <3> QED BY <2>1, <3>1 DEF K!Outcome
  <2>2. ASSUME NEW i \in rest, Tail(s)[i].down, \A j \in rest : j <= i
        PROVE  K!Outcome(s, about, before)
    <3>1. i + 1 \in about /\ s[i + 1].down /\ i \in Nat \ {0}
      BY <1>2, <2>2
    <3>2. \A j \in about : j <= i + 1
      <4> TAKE j \in about
      <4>1. j \in Nat /\ (j # 1 => j - 1 <= i)
        BY <1>1, <2>2
      <4> QED BY <3>1, <4>1
    <3> QED BY <3>1, <3>2 DEF K!Outcome
  <2> QED BY <1>4, <2>1, <2>2 DEF K!Outcome
<1> QED BY <1>3, <1>4

\* A set of keys is released by an event for each of them.
LEMMA ReleasesFacts ==
  ASSUME NEW keys, IsFiniteSet(keys), keys \subseteq Key
  PROVE  /\ K!Releases(keys) \in Seq(Event)
         /\ \A i \in DOMAIN K!Releases(keys) :
              \E k \in keys : K!Releases(keys)[i] = K!KeyEvent(k, FALSE)
         /\ \A k \in keys : \E i \in DOMAIN K!Releases(keys) :
              K!Releases(keys)[i] = K!KeyEvent(k, FALSE)
<1> DEFINE n == Cardinality(keys)
           order == K!SetToSeq(keys)
<1>1. n \in Nat /\ ExistsBijection(1 .. n, keys)
  BY FS_CardinalityType
<1>2. order \in [1 .. n -> keys] /\ K!IsInjective(order)
  BY <1>1 DEF ExistsBijection, Bijection, Injection, IsInjective, K!IsInjective, K!SetToSeq,
     K!Cardinality, Cardinality
<1>3. \A k \in keys : \E i \in 1 .. n : order[i] = k
  <2>1. order \in Injection(1 .. n, keys)
    BY <1>2 DEF Injection, IsInjective, K!IsInjective
  <2>2. IsFiniteSet(1 .. n) /\ Cardinality(1 .. n) = n
    BY <1>1, FS_Interval
  <2>3. order \in Surjection(1 .. n, keys)
    BY <2>1, <2>2, FS_Injection
  <2> QED BY <2>3 DEF Surjection
<1>4. K!Releases(keys) = [i \in 1 .. n |-> K!KeyEvent(order[i], FALSE)]
  BY <1>2 DEF K!Releases
<1> HIDE DEF n, order
<1>5. \A i \in 1 .. n : K!KeyEvent(order[i], FALSE) \in Event
  BY <1>2 DEF K!KeyEvent, Event, K!AnyKey
<1>6. K!Releases(keys) \in Seq(Event)
  <2>1. K!Releases(keys) \in [1 .. n -> Event]
    BY <1>4, <1>5
  <2> QED BY <1>1, <2>1, SeqDef
<1> QED BY <1>2, <1>3, <1>4, <1>6

\* The messages that say of a key whether it is down, when they arrive.
Concerns(msg, k) == Current(msg) /\ msg.key = k
Heard(k) == {i \in DOMAIN sent : Concerns(sent[i], k)}

\* Whether a key is held is the outcome of what the keyboard of the server has yet to take.
LEMMA HeldIs ==
  ASSUME NEW k
  PROVE  K!IsHeld(k) <=> K!Outcome(sent, Heard(k), k \in server.down)
BY DEF Heard, Concerns, Current, K!IsHeld

\* The same after a step.
LEMMA HeldIsPrime ==
  ASSUME NEW k
  PROVE  K!IsHeld(k)' <=> K!Outcome(sent', Heard(k)', k \in server.down')
BY DEF Heard, Concerns, Current, K!IsHeld

\* Nothing is sent or taken.
LEMMA HeldSame ==
  ASSUME NEW k, UNCHANGED <<sent, server>>
  PROVE  K!IsHeld(k)' <=> K!IsHeld(k)
BY HeldIs, HeldIsPrime DEF Heard, Concerns, Current

\* One more message is sent.
LEMMA HeldAppend ==
  ASSUME NEW k, Typed, NEW msg \in Message, sent' = Append(sent, msg), UNCHANGED server
  PROVE  K!IsHeld(k)' <=> IF Concerns(msg, k) THEN msg.down ELSE K!IsHeld(k)
<1>1. sent \in Seq(Message)
  BY DEF Typed, TypedWire
<1>2. Heard(k) \in SUBSET DOMAIN sent
  BY DEF Heard
<1>3. Heard(k)' = IF Concerns(msg, k) THEN Heard(k) \cup {Len(sent) + 1} ELSE Heard(k)
  BY <1>1, AppendFacts DEF Heard, Concerns, Current
<1>4. CASE Concerns(msg, k)  BY <1>1, <1>2, <1>3, <1>4, OutcomeLast, HeldIsPrime
<1>5. CASE ~Concerns(msg, k)  BY <1>1, <1>2, <1>3, <1>5, OutcomeOther, HeldIs, HeldIsPrime
<1> QED BY <1>4, <1>5

\* The first message is taken, and the key is as it says.
LEMMA HeldTail ==
  ASSUME NEW k, Typed, sent # <<>>, sent' = Tail(sent), server'.keyboard = server.keyboard,
         k \in server'.down <=> IF Concerns(Head(sent), k) THEN Head(sent).down ELSE k \in server.down
  PROVE  K!IsHeld(k)' <=> K!IsHeld(k)
<1>1. sent \in Seq(Message)
  BY DEF Typed, TypedWire
<1>2. Heard(k) \in SUBSET DOMAIN sent
  BY DEF Heard
<1>3. Heard(k)' = {i \in DOMAIN Tail(sent) : i + 1 \in Heard(k)}
  BY <1>1, TailFacts DEF Heard, Concerns, Current
<1>4. 1 \in Heard(k) <=> Concerns(Head(sent), k)
  BY <1>1, TailFacts DEF Heard
<1>5. sent[1] = Head(sent)
  BY <1>1, TailFacts
<1>6. K!Outcome(sent, Heard(k), k \in server.down)
      <=> K!Outcome(sent', Heard(k)', IF 1 \in Heard(k) THEN sent[1].down ELSE k \in server.down)
  BY <1>1, <1>2, <1>3, OutcomeTail
<1>7. (k \in server'.down) <=> (IF 1 \in Heard(k) THEN sent[1].down ELSE k \in server.down)
  BY <1>4, <1>5
<1>8. K!Outcome(sent', Heard(k)', k \in server'.down)
      <=> K!Outcome(sent', Heard(k)', IF 1 \in Heard(k) THEN sent[1].down ELSE k \in server.down)
  BY <1>7 DEF K!Outcome
<1> QED BY <1>6, <1>8, HeldIs, HeldIsPrime

\* No key is held that is neither down nor comes.
LEMMA HeldNowhere ==
  ASSUME NEW k, ~KeysThere
  PROVE  ~K!IsHeld(k)
BY HeldIs DEF KeysThere, Heard, Concerns, K!Outcome

\* The same after a step.
LEMMA HeldNowherePrime ==
  ASSUME NEW k, ~KeysThere'
  PROVE  ~K!IsHeld(k)'
BY HeldIsPrime DEF KeysThere, Heard, Concerns, Current, K!Outcome

-----------------------------------------------------------------------------
(* What the actions of the keyboard do. *)

\* A synchronization that may be excused differs in what it owes only.
LEMMA ExcuseFacts ==
  ASSUME NEW s \in SyncType, NEW applies \in BOOLEAN
  PROVE  LET t == K!Excuse(s, applies)
         IN  /\ t \in SyncType
             /\ t.pending = s.pending /\ t.last = s.last /\ t.cancelled = s.cancelled
             /\ t.expected = s.expected /\ t.reported = s.reported /\ t.valid = s.valid
             /\ ~t.excused => t = s /\ ~applies
             /\ ~s.excused /\ ~applies => t = s
BY DEF K!Excuse, SyncType

\* What a flush does, in its three cases.
LEMMA FlushDoes ==
  ASSUME NEW s \in SyncType, NEW next, K!FlushSynchronization(s, next)
  PROVE  /\ sync' \in SyncType
         /\ sync'.pending = s.pending /\ sync'.last = s.last /\ sync'.cancelled = s.cancelled
         /\ sync'.expected = s.expected /\ sync'.reported = s.reported /\ sync'.valid = s.valid
         /\ ~sync'.excused => sync' = s
         /\ \/ s.pending = K!None /\ sync' = s /\ sent' = sent /\ main' = next
            \/ /\ s.pending # K!None /\ ses.ei
               /\ sent' = Append(sent, K!Ping(s.pending)) /\ main' = next
               /\ ~sync'.excused => ~K!Outstanding(s.pending)
            \/ s.pending # K!None /\ ~ses.ei /\ sync' = s /\ sent' = sent /\ main' = "crashed"
<1>1. CASE s.pending # K!None /\ ses.ei
  <2>1. /\ sync' = K!Excuse(s, K!Outstanding(s.pending)) /\ main' = next
        /\ sent' = Append(sent, K!Ping(s.pending))
    BY <1>1 DEF K!FlushSynchronization
  <2>2. K!Outstanding(s.pending) \in BOOLEAN
    BY DEF K!Outstanding, K!Contains
  <2> QED BY <1>1, <2>1, <2>2, ExcuseFacts
<1>2. CASE s.pending = K!None \/ ~ses.ei
  BY <1>2 DEF K!FlushSynchronization
<1> QED BY <1>1, <1>2

\* Pings and pongs have numbers.
LEMMA PingType ==
  ASSUME NEW n \in Nat
  PROVE  /\ K!Ping(n) \in Message /\ K!Ping(n).type = "ping" /\ K!Ping(n).sync = n
         /\ K!Pong(n) \in News /\ K!Pong(n).type = "pong" /\ K!Pong(n).sync = n
BY DEF K!Ping, K!Pong, Message, News

\* What is sent of a key, when there is a keyboard.
LEMMA KeySentType ==
  ASSUME Typed, K!HasKeyboard, NEW k \in K!AnyKey, NEW down \in BOOLEAN
  PROVE  /\ K!KeySent(k, down) \in Message
         /\ K!KeySent(k, down).type = "key" /\ K!KeySent(k, down).key = k
         /\ K!KeySent(k, down).down = down /\ K!KeySent(k, down).keyboard = ses.keyboard
         /\ ses.keyboard # K!None
BY InputAssumption DEF Typed, TypedSession, SesType, K!HasKeyboard, K!None, K!KeySent, Message

\* The two kinds of events.
LEMMA EventFacts ==
  ASSUME NEW e \in Event
  PROVE  /\ e.type = "key" => e.key \in K!AnyKey /\ e.down \in BOOLEAN
         /\ e.type = "sync" => e.lock \in BOOLEAN
         /\ e.type \in {"key", "sync"}
BY DEF Event

\* What a message consists of.
LEMMA MessageFacts ==
  ASSUME NEW msg \in Message
  PROVE  /\ msg.type = "key" => /\ msg.key \in K!AnyKey /\ msg.down \in BOOLEAN
                                /\ msg.keyboard \in 1 .. MaxPlugs
         /\ msg.type = "ping" => msg.sync \in Nat /\ msg = K!Ping(msg.sync)
         /\ msg.type \in {"key", "ping"}
BY DEF Message, K!Ping

\* What the news consist of.
LEMMA NewsFacts ==
  ASSUME NEW e \in News
  PROVE  /\ e.type \in {"added", "resumed", "removed"} => e.keyboard \in 1 .. MaxPlugs
         /\ e.type = "modifiers" => e.lock \in BOOLEAN
         /\ e.type = "pong" => e.sync \in Nat /\ e = K!Pong(e.sync)
BY DEF News, K!Pong

\* A key goes on with the start of a Pause, or breaks it off.
LEMMA PauseAfterType ==
  ASSUME TypedClient, NEW k, NEW down
  PROVE  K!PauseAfter(k, down) \in {"none", "ctrl_down", "numlock_down", "ctrl_up", "broken"}
BY DEF TypedClient, ClientType, K!PauseAfter

\* What a PDU consists of.
LEMMA PduFacts ==
  ASSUME TypedClient, client.pdus # <<>>
  PROVE  /\ Tail(client.pdus) \in Seq(({"sync"} \cup Key) \X BOOLEAN)
         /\ Head(client.pdus)[2] \in BOOLEAN
BY TailFacts DEF TypedClient, ClientType

\* A PDU is handled.
LEMMA HandleDoes ==
  ASSUME TypedClient, client.pdus # <<>>, NEW todo \in Seq(Event),
         NEW pause \in {"none", "ctrl_down", "numlock_down", "ctrl_up"}, K!Handle(todo, pause)
  PROVE  /\ client' \in ClientType
         /\ client'.todo = todo /\ client'.runs = client.runs /\ client'.wakes = client.wakes
BY PduFacts DEF TypedClient, K!Handle, ClientType

\* The sequences of events that the input handlers push.
LEMMA EventsType ==
  /\ <<>> \in Seq(Event)
  /\ \A lock \in BOOLEAN : K!SyncEvent(lock) \in Event /\ <<K!SyncEvent(lock)>> \in Seq(Event)
  /\ \A k \in K!AnyKey, down \in BOOLEAN :
       K!KeyEvent(k, down) \in Event /\ <<K!KeyEvent(k, down)>> \in Seq(Event)
  /\ <<K!KeyEvent(PauseKey, TRUE), K!KeyEvent(PauseKey, FALSE)>> \in Seq(Event)
BY EmptySeq DEF K!SyncEvent, Event, K!KeyEvent, K!AnyKey

\* The PDUs of a client, and what they leave to push.
LEMMA SynchronizeEventDoes ==
  ASSUME Typed, K!SynchronizeEvent
  PROVE  /\ client.runs /\ client.todo = <<>> /\ ~client.wakes
         /\ \E lock \in BOOLEAN :
              client'.todo = K!Releases(table) \o <<K!SyncEvent(lock)>>
         /\ client' \in ClientType /\ client'.runs = client.runs /\ client'.wakes = client.wakes
         /\ table' = {}
         /\ UNCHANGED <<flags, queue, armed, main, sync, ses, sent, events, server>>
<1> DEFINE lock == Head(client.pdus)[2]
           todo == K!Releases(table) \o <<K!SyncEvent(lock)>>
<1>1. /\ client.runs /\ client.todo = <<>> /\ ~client.wakes /\ client.pdus # <<>>
      /\ K!Handle(todo, client.pause) /\ table' = {}
      /\ UNCHANGED <<flags, queue, armed, main, sync, ses, sent, events, server>>
  BY DEF K!SynchronizeEvent, K!PduComes, K!Idle
<1>2. lock \in BOOLEAN
  BY <1>1, PduFacts DEF Typed
<1>3. todo \in Seq(Event)
  <2>1. K!Releases(table) \in Seq(Event) /\ <<K!SyncEvent(lock)>> \in Seq(Event)
    BY <1>2, ReleasesFacts, EventsType DEF Typed, TypedClient
  <2> HIDE DEF lock
  <2> QED BY <2>1, ConcatFacts
<1>4. client.pause \in {"none", "ctrl_down", "numlock_down", "ctrl_up"}
  BY DEF Typed, TypedClient, ClientType
<1> HIDE DEF lock, todo
<1>5. /\ client' \in ClientType
      /\ client'.todo = todo /\ client'.runs = client.runs /\ client'.wakes = client.wakes
  BY <1>1, <1>3, <1>4, HandleDoes DEF Typed
<1> QED BY <1>1, <1>2, <1>5 DEF todo

\* A key of the client: nothing, a Pause, or the key that is now in the table or not.
LEMMA KeyboardEventDoes ==
  ASSUME Typed, NEW k \in Key, NEW down \in BOOLEAN, K!KeyboardEvent(k, down)
  PROVE  /\ client.runs /\ client.todo = <<>> /\ ~client.wakes
         /\ client' \in ClientType /\ client'.runs = client.runs /\ client'.wakes = client.wakes
         /\ table' \subseteq Key /\ IsFiniteSet(table')
         /\ \/ client'.todo = <<>> /\ table' = table
            \/ /\ client'.todo = <<K!KeyEvent(PauseKey, TRUE), K!KeyEvent(PauseKey, FALSE)>>
               /\ table' = table
            \/ /\ client'.todo = <<K!KeyEvent(k, down)>>
               /\ IF down THEN k \notin table /\ table' = table \cup {k}
                          ELSE k \in table /\ table' = table \ {k}
         /\ UNCHANGED <<flags, queue, armed, main, sync, ses, sent, events, server>>
<1>1. /\ client.runs /\ client.todo = <<>> /\ ~client.wakes /\ client.pdus # <<>>
      /\ UNCHANGED <<flags, queue, armed, main, sync, ses, sent, events, server>>
  BY DEF K!KeyboardEvent, K!PduComes, K!Idle
<1>2. TypedClient /\ table \subseteq Key /\ IsFiniteSet(table)
  BY DEF Typed, TypedClient
<1>3. CASE K!PauseAfter(k, down) # "broken"
  <2> DEFINE todo == IF client.pause = "ctrl_up"
                     THEN <<K!KeyEvent(PauseKey, TRUE), K!KeyEvent(PauseKey, FALSE)>> ELSE <<>>
  <2>1. K!Handle(todo, K!PauseAfter(k, down)) /\ table' = table
    BY <1>3 DEF K!KeyboardEvent
  <2>2. todo \in Seq(Event)
    BY EventsType
  <2>3. K!PauseAfter(k, down) \in {"none", "ctrl_down", "numlock_down", "ctrl_up"}
    BY <1>2, <1>3, PauseAfterType
  <2> HIDE DEF todo
  <2>4. /\ client' \in ClientType
        /\ client'.todo = todo /\ client'.runs = client.runs /\ client'.wakes = client.wakes
    BY <1>1, <1>2, <2>1, <2>2, <2>3, HandleDoes
  <2> QED BY <1>1, <1>2, <2>1, <2>4 DEF todo
<1>4. CASE K!PauseAfter(k, down) = "broken"
  <2> DEFINE todo == IF (k \in table) = down THEN <<>> ELSE <<K!KeyEvent(k, down)>>
  <2>1. K!Handle(todo, "none") /\ table' = IF down THEN table \cup {k} ELSE table \ {k}
    BY <1>4 DEF K!KeyboardEvent
  <2>2. todo \in Seq(Event)
    BY EventsType DEF K!AnyKey
  <2>3. IsFiniteSet(table') /\ table' \subseteq Key
    BY <1>2, <2>1, FS_AddElement, FS_RemoveElement
  <2>4. \/ todo = <<>> /\ table' = table
        \/ /\ todo = <<K!KeyEvent(k, down)>>
           /\ IF down THEN k \notin table /\ table' = table \cup {k}
                      ELSE k \in table /\ table' = table \ {k}
    BY <2>1
  <2> HIDE DEF todo
  <2>5. /\ client' \in ClientType
        /\ client'.todo = todo /\ client'.runs = client.runs /\ client'.wakes = client.wakes
    BY <1>1, <1>2, <2>1, <2>2, HandleDoes
  <2> QED BY <1>1, <2>3, <2>4, <2>5
<1> QED BY <1>3, <1>4

\* The first of one queue goes to the end of another that is before it.
LEMMA PassOn ==
  ASSUME NEW S, NEW s \in Seq(S), NEW t \in Seq(S), t # <<>>
  PROVE  Append(s, Head(t)) \o Tail(t) = s \o t
<1> DEFINE front == Append(s, Head(t))
           rest == Tail(t)
<1>1. /\ Len(s) \in Nat /\ DOMAIN s = 1 .. Len(s) /\ front \in Seq(S) /\ Len(front) = Len(s) + 1
      /\ \A i \in 1 .. Len(s) : front[i] = s[i]
      /\ front[Len(s) + 1] = t[1]
  BY TailFacts, AppendFacts
<1>2. /\ Len(t) \in Nat \ {0} /\ rest \in Seq(S) /\ Len(rest) = Len(t) - 1
      /\ \A i \in 1 .. Len(rest) : rest[i] = t[i + 1]
  BY HeadTailProperties, EmptySeq
<1> HIDE DEF front, rest
<1>3. /\ front \o rest \in Seq(S) /\ Len(front \o rest) = Len(s) + Len(t)
      /\ \A i \in 1 .. Len(s) + Len(t) :
           (front \o rest)[i] = IF i <= Len(front) THEN front[i] ELSE rest[i - Len(front)]
  <2>1. Len(front) + Len(rest) = Len(s) + Len(t)
    BY <1>1, <1>2
  <2>2. /\ front \o rest \in Seq(S) /\ Len(front \o rest) = Len(front) + Len(rest)
        /\ \A i \in 1 .. Len(front) + Len(rest) :
             (front \o rest)[i] = IF i <= Len(front) THEN front[i] ELSE rest[i - Len(front)]
    BY <1>1, <1>2, ConcatProperties
  <2> QED BY <2>1, <2>2
<1>4. /\ s \o t \in Seq(S) /\ Len(s \o t) = Len(s) + Len(t)
      /\ \A i \in 1 .. Len(s) + Len(t) : (s \o t)[i] = IF i <= Len(s) THEN s[i] ELSE t[i - Len(s)]
  BY ConcatProperties
<1>5. ASSUME NEW i \in 1 .. Len(s) + Len(t)
      PROVE  (front \o rest)[i] = (s \o t)[i]
  <2>1. CASE i <= Len(s)
    BY <1>1, <1>2, <1>3, <1>4, <2>1
  <2>2. CASE i = Len(s) + 1  BY <1>1, <1>2, <1>3, <2>2, <1>4
  <2>3. CASE i > Len(s) + 1
    <3>1. /\ i - Len(front) \in 1 .. Len(rest) /\ (i - Len(front)) + 1 = i - Len(s)
          /\ ~(i <= Len(front)) /\ ~(i <= Len(s))
      BY <1>1, <1>2, <2>3
    <3> QED BY <1>2, <1>3, <1>4, <3>1
  <2> QED BY <1>1, <1>2, <2>1, <2>2, <2>3
<1> HIDE DEF front
<1>6. front \o rest = s \o t
  BY <1>3, <1>4, <1>5, SeqEqual
<1> QED BY <1>6 DEF front, rest

\* An event moves from the socket thread to the queue; what is to come is the same.
LEMMA QueueEventDoes ==
  ASSUME Typed, K!QueueEvent
  PROVE  /\ client' \in ClientType /\ queue' \in Seq(Event)
         /\ client'.runs = client.runs /\ client'.wakes = TRUE /\ client.todo # <<>>
         /\ Coming' = Coming
         /\ UNCHANGED <<flags, table, armed, main, sync, ses, sent, events, server>>
<1>1. /\ client.todo # <<>> /\ queue' = Append(queue, Head(client.todo))
      /\ client' = [client EXCEPT !.todo = Tail(client.todo), !.wakes = TRUE]
      /\ UNCHANGED <<flags, table, armed, main, sync, ses, sent, events, server>>
  BY DEF K!QueueEvent
<1>2. client \in ClientType /\ client.todo \in Seq(Event) /\ queue \in Seq(Event)
  BY DEF Typed, TypedClient, TypedQueue, ClientType
<1>3. /\ client' \in ClientType /\ client'.todo = Tail(client.todo)
      /\ client'.runs = client.runs /\ client'.wakes = TRUE
  BY <1>1, <1>2, TailFacts DEF ClientType
<1>4. Head(client.todo) \in Event /\ client'.todo \in Seq(Event)
  BY <1>1, <1>2, <1>3, TailFacts
<1>5. queue' \in Seq(Event)
  BY <1>1, <1>2, <1>4, AppendFacts
<1>6. Coming' = Coming  BY <1>1, <1>2, PassOn, <1>3 DEF Coming
<1> QED BY <1>1, <1>3, <1>5, <1>6

\* A key is told to the display server, if there is a keyboard.
LEMMA ProcessKeyDoes ==
  ASSUME Typed, K!ProcessKey
  PROVE  /\ main \in {"drain", "drain_last"} /\ queue # <<>> /\ Head(queue) \in Event
         /\ Head(queue).type = "key" /\ Head(queue).key \in K!AnyKey /\ Head(queue).down \in BOOLEAN
         /\ queue' = Tail(queue) /\ queue' \in Seq(Event)
         /\ sent' = IF K!HasKeyboard
                    THEN Append(sent, K!KeySent(Head(queue).key, Head(queue).down)) ELSE sent
         /\ sent' \in Seq(Message)
         /\ sync' \in SyncType
         /\ sync'.pending = sync.pending /\ sync'.last = sync.last /\ sync'.cancelled = sync.cancelled
         /\ sync'.expected = sync.expected /\ sync'.reported = sync.reported /\ sync'.valid = sync.valid
         /\ ~sync'.excused => ~sync.excused
         /\ ~sync'.excused /\ Press(Head(queue)) =>
              /\ sync'.due = ~sync.due /\ K!HasKeyboard
              /\ sync.pending # K!None => K!Outstanding(sync.pending)
         /\ ~sync'.excused /\ ~Press(Head(queue)) => sync'.due = sync.due
         /\ UNCHANGED <<client, flags, table, armed, main, ses, events, server>>
<1> DEFINE e == Head(queue)
           toggles == e.key = LockKey /\ e.down
           Unsent == sync.pending # K!None /\ ~K!Outstanding(sync.pending)
           s == [sync EXCEPT !.due = (sync.due # toggles)]
           applies == toggles /\ (~K!HasKeyboard \/ Unsent)
<1>1. /\ main \in {"drain", "drain_last"} /\ queue # <<>> /\ e.type = "key"
      /\ queue' = Tail(queue) /\ sent' = K!Notified(e.key, e.down)
      /\ sync' = K!Excuse(s, applies)
      /\ UNCHANGED <<client, flags, table, armed, main, ses, events, server>>
  BY DEF K!ProcessKey, K!Draining
<1>2. queue \in Seq(Event) /\ sync \in SyncType /\ sent \in Seq(Message)
  BY DEF Typed, TypedQueue, TypedSession, TypedWire
<1>3. e \in Event /\ queue' \in Seq(Event)
  BY <1>1, <1>2, TailFacts
<1>4. e.key \in K!AnyKey /\ e.down \in BOOLEAN
  BY <1>1, <1>3, EventFacts
<1>5. /\ sent' = IF K!HasKeyboard THEN Append(sent, K!KeySent(e.key, e.down)) ELSE sent
      /\ sent' \in Seq(Message)
  <2>1. sent' = IF K!HasKeyboard THEN Append(sent, K!KeySent(e.key, e.down)) ELSE sent
    BY <1>1 DEF K!Notified
  <2>2. CASE K!HasKeyboard  BY <1>4, <2>2, KeySentType, <1>2, <2>1, AppendFacts
  <2> QED BY <1>2, <2>1, <2>2
<1>6. toggles <=> Press(e)
  BY <1>1 DEF Press, OfLock
<1>7. toggles \in BOOLEAN /\ sync.due \in BOOLEAN
  BY <1>2, <1>4 DEF SyncType
<1> HIDE DEF toggles, Unsent
<1>8. (sync.due # toggles) \in BOOLEAN /\ applies \in BOOLEAN
  BY DEF Unsent
<1>9. /\ s \in SyncType
      /\ s.pending = sync.pending /\ s.last = sync.last /\ s.cancelled = sync.cancelled
      /\ s.expected = sync.expected /\ s.reported = sync.reported /\ s.valid = sync.valid
      /\ s.excused = sync.excused /\ s.due = (sync.due # toggles)
  BY <1>2, <1>8 DEF SyncType
<1> HIDE DEF s, applies
<1>10. /\ sync' \in SyncType
       /\ sync'.pending = s.pending /\ sync'.last = s.last /\ sync'.cancelled = s.cancelled
       /\ sync'.expected = s.expected /\ sync'.reported = s.reported /\ sync'.valid = s.valid
       /\ ~sync'.excused => sync' = s /\ ~applies
  BY <1>1, <1>8, <1>9, ExcuseFacts
<1>11. ~sync'.excused /\ Press(e) =>
         /\ sync'.due = ~sync.due /\ K!HasKeyboard
         /\ sync.pending # K!None => K!Outstanding(sync.pending)
  BY <1>6, <1>7, <1>10, <1>9 DEF applies, Unsent
<1>12. ~sync'.excused /\ ~Press(e) => sync'.due = sync.due
  <2> SUFFICES ASSUME ~sync'.excused, ~Press(e)
               PROVE  sync'.due = sync.due
    OBVIOUS
  <2>1. toggles = FALSE
    BY <1>6, <1>7
  <2>2. sync'.due = (sync.due # FALSE)
    BY <1>9, <1>10, <2>1
  <2>3. sync.due = TRUE \/ sync.due = FALSE
    BY <1>7
  <2>4. CASE sync.due = TRUE  BY <2>2, <2>4
  <2>5. CASE sync.due = FALSE  BY <2>2, <2>5
  <2> QED BY <2>3, <2>4, <2>5
<1>13. ~sync'.excused => ~sync.excused
  BY <1>9, <1>10
<1> QED BY <1>1, <1>3, <1>4, <1>5, <1>9, <1>10, <1>11, <1>12, <1>13

\* A synchronization replaces the one that is pending.
LEMMA SynchronizedFacts ==
  ASSUME TypedSession, NEW lock \in BOOLEAN
  PROVE  LET s == K!Synchronized(lock)
         IN  /\ s \in SyncType
             /\ s.pending = sync.last + 1 /\ s.last = sync.last + 1
             /\ s.cancelled = (IF sync.pending = K!None THEN sync.cancelled
                               ELSE sync.cancelled \cup {sync.pending})
             /\ s.cancelled \subseteq 1 .. sync.last
             /\ s.excused = sync.excused
             /\ ~s.excused => s.due = s.expected
<1> DEFINE c == IF sync.pending = K!None THEN sync.cancelled ELSE sync.cancelled \cup {sync.pending}
           s == K!Synchronized(lock)
           d == (lock /\ ~sync.excused)
<1>1. sync \in SyncType /\ sync.last \in Nat /\ sync.excused \in BOOLEAN
  BY DEF TypedSession, SyncType
<1>2. c \subseteq 1 .. sync.last /\ c \in SUBSET Nat
  BY <1>1 DEF TypedSession, K!None
<1>3. s = [sync EXCEPT !.cancelled = c, !.pending = sync.last + 1, !.last = sync.last + 1,
                       !.expected = lock, !.due = d]
  BY DEF K!Synchronized
<1>4. d \in BOOLEAN /\ (~sync.excused => d = lock)
  BY <1>1
<1> HIDE DEF c, d
<1>5. s = [pending |-> sync.last + 1, last |-> sync.last + 1, cancelled |-> c, expected |-> lock,
           reported |-> sync.reported, valid |-> sync.valid, due |-> d, excused |-> sync.excused]
  BY <1>1, <1>3 DEF SyncType
<1> HIDE DEF s
<1>6. s \in SyncType
  BY <1>1, <1>2, <1>4, <1>5 DEF SyncType
<1>7. /\ s.pending = sync.last + 1 /\ s.last = sync.last + 1 /\ s.cancelled = c
      /\ s.excused = sync.excused /\ s.due = d /\ s.expected = lock
  BY <1>5
<1> QED BY <1>2, <1>4, <1>6, <1>7 DEF c, s

\* A synchronization is taken from the queue and replaces the pending one.
LEMMA ProcessSyncDoes ==
  ASSUME Typed, K!ProcessSync
  PROVE  /\ main \in {"drain", "drain_last"} /\ queue # <<>>
         /\ Head(queue) \in Event /\ Head(queue).type = "sync"
         /\ queue' = Tail(queue) /\ queue' \in Seq(Event)
         /\ sync' \in SyncType
         /\ sync'.pending = sync.last + 1 /\ sync'.last = sync.last + 1
         /\ sync'.cancelled = (IF sync.pending = K!None THEN sync.cancelled
                               ELSE sync.cancelled \cup {sync.pending})
         /\ sync'.cancelled \subseteq 1 .. sync.last
         /\ ~sync'.excused => ~sync.excused /\ sync'.due = sync'.expected
         /\ \/ ~ses.ready /\ sent' = sent /\ main' = main
            \/ /\ ses.ready /\ ses.ei /\ main' = main
               /\ sent' = Append(sent, K!Ping(sync'.pending))
            \/ ses.ready /\ ~ses.ei /\ sent' = sent /\ main' = "crashed"
         /\ UNCHANGED <<client, flags, table, armed, ses, events, server>>
<1> DEFINE s == K!Synchronized(Head(queue).lock)
<1>1. /\ main \in {"drain", "drain_last"} /\ queue # <<>> /\ Head(queue).type = "sync"
      /\ queue' = Tail(queue)
      /\ UNCHANGED <<client, flags, table, armed, ses, events, server>>
  BY DEF K!ProcessSync, K!Draining
<1>2. queue \in Seq(Event) /\ sync \in SyncType /\ sync.last \in Nat
  BY DEF Typed, TypedQueue, TypedSession, SyncType
<1>3. Head(queue) \in Event /\ queue' \in Seq(Event)
  BY <1>1, <1>2, TailFacts
<1>4. Head(queue).lock \in BOOLEAN
  BY <1>1, <1>3, EventFacts
<1>5. /\ s \in SyncType
      /\ s.pending = sync.last + 1 /\ s.last = sync.last + 1
      /\ s.cancelled = (IF sync.pending = K!None THEN sync.cancelled
                        ELSE sync.cancelled \cup {sync.pending})
      /\ s.cancelled \subseteq 1 .. sync.last
      /\ s.excused = sync.excused
      /\ ~s.excused => s.due = s.expected
  BY <1>4, SynchronizedFacts DEF Typed
<1>6. s.pending # K!None
  BY <1>2, <1>5 DEF K!None
<1> HIDE DEF s
<1>7. CASE ses.ready  BY <1>7, <1>5, <1>6, FlushDoes, <1>1, <1>3 DEF K!ProcessSync, s
<1>8. CASE ~ses.ready  BY <1>8, <1>1, <1>3, <1>5 DEF K!ProcessSync, s
<1> QED BY <1>7, <1>8

\* What libei hands over is the first of the news.
LEMMA ReceiveDoes ==
  ASSUME Typed, NEW type, K!Receive(type)
  PROVE  /\ main = "loop" /\ ses.ei /\ events # <<>>
         /\ Head(events) \in News /\ Head(events).type = type /\ Head(events) = events[1]
         /\ events' = Tail(events) /\ events' \in Seq(News)
         /\ UNCHANGED <<client, flags, table, queue, armed, server>>
BY TailFacts DEF K!Receive, Typed, TypedWire

\* Two elements are appended one after the other.
LEMMA AppendTwice ==
  ASSUME NEW S, NEW s \in Seq(S), NEW a \in S, NEW b \in S
  PROVE  s \o <<a, b>> = Append(Append(s, a), b)
<1>1. /\ <<a, b>> \in Seq(S) /\ Len(<<a, b>>) = 2 /\ <<a, b>>[1] = a /\ <<a, b>>[2] = b
  OBVIOUS
<1> DEFINE t == <<a, b>>
<1>2. t \in Seq(S) /\ Len(t) = 2 /\ t[1] = a /\ t[2] = b
  BY <1>1
<1> HIDE DEF t
<1>3. /\ Len(s) \in Nat /\ s \o t \in Seq(S) /\ Len(s \o t) = Len(s) + 2
      /\ \A i \in 1 .. Len(s) + 2 : (s \o t)[i] = IF i <= Len(s) THEN s[i] ELSE t[i - Len(s)]
  <2>1. /\ Len(s) \in Nat /\ s \o t \in Seq(S) /\ Len(s \o t) = Len(s) + Len(t)
        /\ \A i \in 1 .. Len(s) + Len(t) : (s \o t)[i] = IF i <= Len(s) THEN s[i] ELSE t[i - Len(s)]
    BY <1>2, ConcatProperties, LenProperties
  <2> QED BY <1>2, <2>1
<1> DEFINE u == Append(s, a)
           v == Append(u, b)
<1>4. /\ u \in Seq(S) /\ Len(u) = Len(s) + 1 /\ u[Len(s) + 1] = a
      /\ \A i \in 1 .. Len(s) : u[i] = s[i]
  BY AppendFacts
<1> HIDE DEF u
<1>5. /\ v \in Seq(S) /\ Len(v) = Len(u) + 1 /\ v[Len(u) + 1] = b
      /\ \A i \in 1 .. Len(u) : v[i] = u[i]
  BY <1>4, AppendProperties
<1> HIDE DEF v
<1>6. \A i \in 1 .. Len(s) + 2 : (s \o t)[i] = v[i]
  <2> TAKE i \in 1 .. Len(s) + 2
  <2>1. CASE i <= Len(s)
    BY <1>3, <1>4, <1>5, <2>1
  <2>2. CASE i = Len(s) + 1  BY <1>3, <2>2, <1>2, <1>4, <1>5
  <2>3. CASE i = Len(s) + 2  BY <1>3, <1>4, <2>3, <1>2, <1>5
  <2> QED BY <1>3, <2>1, <2>2, <2>3
<1>7. s \o t = v
  BY <1>3, <1>4, <1>5, <1>6, SeqEqual
<1> QED BY <1>7 DEF t, u, v

\* What the lock key's press and release are.
LockPress == K!KeySent(LockKey, TRUE)
LockRelease == K!KeySent(LockKey, FALSE)

\* A ping is answered: unless it was cancelled, the lock is compared and corrected.
LEMMA PongReceivedDoes ==
  ASSUME Typed, K!PongReceived
  PROVE  LET n == Head(events).sync
             corrects == sync.expected # sync.reported
         IN  /\ n \in Nat /\ Head(events) = K!Pong(n)
             /\ sent' \in Seq(Message) /\ sync' \in SyncType
             /\ sync'.last = sync.last /\ sync'.cancelled = sync.cancelled
             /\ sync'.expected = sync.expected /\ sync'.reported = sync.reported
             /\ sync'.valid = sync.valid
             /\ ~sync'.excused => ~sync.excused /\ sync'.due = sync.due
             /\ n \in sync.cancelled => UNCHANGED <<sync, sent>>
             /\ n \notin sync.cancelled =>
                  /\ sync'.pending = K!None
                  /\ ~sync'.excused => sync.valid /\ (corrects => K!HasKeyboard /\ ~K!IsHeld(LockKey))
                  /\ IF corrects /\ K!HasKeyboard
                     THEN sent' = Append(Append(sent, LockPress), LockRelease) ELSE sent' = sent
             /\ UNCHANGED <<main, ses>>
<1> DEFINE n == Head(events).sync
           corrects == sync.expected # sync.reported
           s == [sync EXCEPT !.pending = K!None]
           applies == ~sync.valid \/ (corrects /\ (~K!HasKeyboard \/ K!IsHeld(LockKey)))
<1>1. Head(events) \in News /\ Head(events).type = "pong" /\ UNCHANGED <<main, ses>>
  BY ReceiveDoes DEF K!PongReceived
<1>2. n \in Nat /\ Head(events) = K!Pong(n)
  BY <1>1, NewsFacts
<1>3. sync \in SyncType /\ sent \in Seq(Message) /\ LockKey \in K!AnyKey
  BY InputAssumption DEF Typed, TypedSession, TypedWire, K!AnyKey
<1>4. CASE n \in sync.cancelled  BY <1>4, <1>1, <1>2, <1>3 DEF K!PongReceived
<1>5. CASE n \notin sync.cancelled
  <2>1. /\ sent' = IF corrects /\ K!HasKeyboard THEN sent \o <<LockPress, LockRelease>> ELSE sent
        /\ sync' = K!Excuse(s, applies)
    BY <1>5 DEF K!PongReceived, LockPress, LockRelease
  <2>2. sync.valid \in BOOLEAN /\ sync.expected \in BOOLEAN /\ sync.reported \in BOOLEAN
    BY <1>3 DEF SyncType
  <2>3. applies \in BOOLEAN
    OBVIOUS
  <2>4. /\ s \in SyncType /\ s.pending = K!None /\ s.last = sync.last /\ s.cancelled = sync.cancelled
        /\ s.expected = sync.expected /\ s.reported = sync.reported /\ s.valid = sync.valid
        /\ s.excused = sync.excused /\ s.due = sync.due
    BY <1>3 DEF SyncType, K!None
  <2> HIDE DEF s, applies, corrects, n
  <2>5. /\ sync' \in SyncType
        /\ sync'.pending = K!None /\ sync'.last = sync.last /\ sync'.cancelled = sync.cancelled
        /\ sync'.expected = sync.expected /\ sync'.reported = sync.reported
        /\ sync'.valid = sync.valid
        /\ ~sync'.excused => sync' = s /\ ~applies
    BY <2>1, <2>3, <2>4, ExcuseFacts
  <2>6. ~sync'.excused => ~sync.excused /\ sync'.due = sync.due
    BY <2>4, <2>5
  <2>7. ~sync'.excused => sync.valid /\ (corrects => K!HasKeyboard /\ ~K!IsHeld(LockKey))
    BY <2>5 DEF applies
  <2>8. CASE corrects /\ K!HasKeyboard
    <3>1. LockPress \in Message /\ LockRelease \in Message
      BY <1>3, <2>8, KeySentType DEF LockPress, LockRelease
    <3>2. sent' = Append(Append(sent, LockPress), LockRelease)
      BY <1>3, <2>1, <2>8, <3>1, AppendTwice
    <3>3. sent' \in Seq(Message)
      BY <1>3, <3>1, <3>2, AppendFacts
    <3> QED BY <1>1, <1>2, <1>5, <2>5, <2>6, <2>7, <2>8, <3>2, <3>3 DEF n, corrects
  <2>9. CASE ~(corrects /\ K!HasKeyboard)
    <3>1. sent' = sent
      BY <2>1, <2>9
    <3> QED BY <1>1, <1>2, <1>3, <1>5, <2>5, <2>6, <2>7, <2>9, <3>1 DEF n, corrects
  <2> QED BY <2>8, <2>9
<1> QED BY <1>4, <1>5

\* The lock toggles when the server takes a press of a key that is not down.
Toggles(msg) == Current(msg) /\ Press(msg) /\ LockKey \notin server.down

\* The display server takes a key.
LEMMA ServerTakesKeyDoes ==
  ASSUME Typed, K!ServerTakesKey
  PROVE  LET msg == Head(sent)
         IN  /\ sent # <<>> /\ msg \in Message /\ msg.type = "key" /\ msg = sent[1]
             /\ sent' = Tail(sent) /\ sent' \in Seq(Message)
             /\ server' \in ServerType
             /\ server'.keyboard = server.keyboard /\ server'.plugs = server.plugs
             /\ server'.down = IF ~Current(msg) THEN server.down
                               ELSE IF msg.down THEN server.down \cup {msg.key}
                               ELSE server.down \ {msg.key}
             /\ IF Toggles(msg)
                THEN /\ server'.lock = ~server.lock
                     /\ events' = Append(events, [type |-> "modifiers", lock |-> server'.lock])
                ELSE server'.lock = server.lock /\ events' = events
             /\ events' \in Seq(News)
             /\ sync' \in SyncType
             /\ sync'.pending = sync.pending /\ sync'.last = sync.last
             /\ sync'.cancelled = sync.cancelled
             /\ sync'.expected = sync.expected /\ sync'.reported = sync.reported
             /\ sync'.valid = sync.valid
             /\ ~sync'.excused => sync' = sync /\ (Press(msg) => Current(msg))
             /\ UNCHANGED <<client, flags, table, queue, armed, main, ses>>
<1> DEFINE msg == Head(sent)
           current == msg.keyboard = server.keyboard
           toggles == msg.key = LockKey /\ msg.down
           acts == current /\ toggles /\ LockKey \notin server.down
           applies == toggles /\ ~current
           down == IF ~current THEN server.down
                   ELSE IF msg.down THEN server.down \cup {msg.key} ELSE server.down \ {msg.key}
           lock == (server.lock # acts)
<1>1. /\ sent # <<>> /\ msg.type = "key" /\ sent' = Tail(sent)
      /\ server' = [server EXCEPT !.down = down, !.lock = lock]
      /\ events' = IF acts THEN Append(events, [type |-> "modifiers", lock |-> ~server.lock]) ELSE events
      /\ sync' = K!Excuse(sync, applies)
      /\ UNCHANGED <<client, flags, table, queue, armed, main, ses>>
  BY DEF K!ServerTakesKey
<1>2. sent \in Seq(Message) /\ events \in Seq(News) /\ server \in ServerType /\ sync \in SyncType
  BY DEF Typed, TypedSession, TypedWire
<1>3. msg \in Message /\ msg = sent[1] /\ sent' \in Seq(Message)
  BY <1>1, <1>2, TailFacts
<1>4. msg.key \in K!AnyKey /\ msg.down \in BOOLEAN
  BY <1>1, <1>3, MessageFacts
<1>5. (current <=> Current(msg)) /\ (toggles <=> Press(msg)) /\ (acts <=> Toggles(msg))
  BY <1>1 DEF Current, Press, OfLock, Toggles
<1>6. acts \in BOOLEAN /\ applies \in BOOLEAN /\ lock \in BOOLEAN
  BY <1>4
<1>7. down \in SUBSET K!AnyKey /\ server.lock \in BOOLEAN
  BY <1>2, <1>4 DEF ServerType
<1>8. down = IF ~Current(msg) THEN server.down
             ELSE IF msg.down THEN server.down \cup {msg.key} ELSE server.down \ {msg.key}
  BY <1>5
<1>9. lock = IF Toggles(msg) THEN ~server.lock ELSE server.lock
  <2>1. CASE acts  BY <1>6, <2>1, <1>5, <1>7
  <2>2. CASE ~acts  BY <1>6, <2>2, <1>5, <1>7
  <2> QED BY <2>1, <2>2
<1>10. /\ sync' \in SyncType
       /\ sync'.pending = sync.pending /\ sync'.last = sync.last
       /\ sync'.cancelled = sync.cancelled
       /\ sync'.expected = sync.expected /\ sync'.reported = sync.reported
       /\ sync'.valid = sync.valid
       /\ ~sync'.excused => sync' = sync /\ (Press(msg) => Current(msg))
  <2> HIDE DEF applies
  <2>1. /\ sync' \in SyncType
        /\ sync'.pending = sync.pending /\ sync'.last = sync.last
        /\ sync'.cancelled = sync.cancelled
        /\ sync'.expected = sync.expected /\ sync'.reported = sync.reported
        /\ sync'.valid = sync.valid
        /\ ~sync'.excused => sync' = sync /\ ~applies
    BY <1>1, <1>2, <1>6, ExcuseFacts
  <2> QED BY <1>5, <2>1 DEF applies
<1>11. IF Toggles(msg) THEN events' = Append(events, [type |-> "modifiers", lock |-> ~server.lock])
       ELSE events' = events
  BY <1>1, <1>5
<1> HIDE DEF msg, current, toggles, acts, applies, down, lock
<1>12. /\ server' = [lock |-> lock, keyboard |-> server.keyboard, plugs |-> server.plugs, down |-> down]
  BY <1>1, <1>2 DEF ServerType
<1>13. /\ server' \in ServerType /\ server'.keyboard = server.keyboard
       /\ server'.plugs = server.plugs /\ server'.down = down /\ server'.lock = lock
  BY <1>2, <1>6, <1>7, <1>12 DEF ServerType
<1>14. [type |-> "modifiers", lock |-> ~server.lock] \in News
  BY <1>7 DEF News
<1>15. events' \in Seq(News)
  <2> DEFINE said == [type |-> "modifiers", lock |-> ~server.lock]
  <2>1. said \in News /\ (IF Toggles(msg) THEN events' = Append(events, said) ELSE events' = events)
    BY <1>11, <1>14
  <2> HIDE DEF said
  <2>2. Append(events, said) \in Seq(News)
    BY <1>2, <2>1, AppendFacts
  <2> QED BY <1>2, <2>1, <2>2
<1> QED BY <1>1, <1>3, <1>8, <1>9, <1>10, <1>11, <1>13, <1>15 DEF msg

\* The ping of the pending synchronization is sent once more.
Repings ==
  /\ sync.pending # K!None /\ sent' = Append(sent, K!Ping(sync.pending))
  /\ sync' \in SyncType /\ sent' \in Seq(Message)
  /\ sync'.pending = sync.pending /\ sync'.last = sync.last /\ sync'.cancelled = sync.cancelled
  /\ ~sync'.excused => sync' = sync /\ ~K!Outstanding(sync.pending)

\* A pending synchronization is flushed while there is a libei context.
LEMMA FlushRepings ==
  ASSUME Typed, ses.ei, K!FlushSynchronization(sync, main)
  PROVE  /\ main' = main
         /\ IF sync.pending # K!None THEN Repings ELSE UNCHANGED <<sync, sent>>
<1>1. sync \in SyncType /\ sent \in Seq(Message) /\ sync.pending \in Nat
  BY DEF Typed, TypedSession, TypedWire, SyncType
<1>2. /\ sync' \in SyncType
      /\ sync'.pending = sync.pending /\ sync'.last = sync.last /\ sync'.cancelled = sync.cancelled
      /\ ~sync'.excused => sync' = sync
      /\ \/ sync.pending = K!None /\ sync' = sync /\ sent' = sent /\ main' = main
         \/ /\ sync.pending # K!None
            /\ sent' = Append(sent, K!Ping(sync.pending)) /\ main' = main
            /\ ~sync'.excused => ~K!Outstanding(sync.pending)
  BY <1>1, FlushDoes
<1>3. K!Ping(sync.pending) \in Message
  BY <1>1, PingType
<1>4. Append(sent, K!Ping(sync.pending)) \in Seq(Message)
  BY <1>1, <1>3, AppendFacts
<1> QED BY <1>2, <1>4 DEF Repings

\* libei is connected.
LEMMA ConnectedDoes ==
  ASSUME Typed, K!Connected
  PROVE  /\ main = "loop" /\ main' = main /\ ses.ei /\ events # <<>>
         /\ Head(events) \in News /\ Head(events).type = "connect" /\ Head(events) = events[1]
         /\ events' = Tail(events) /\ events' \in Seq(News)
         /\ ses' \in SesType /\ ses'.ready = TRUE /\ ses'.started = ses.started /\ ses'.ei = ses.ei
         /\ ses'.keyboard = ses.keyboard /\ ses'.emulating = ses.emulating
         /\ IF ses.started /\ sync.pending # K!None THEN Repings ELSE UNCHANGED <<sync, sent>>
         /\ UNCHANGED <<client, flags, table, queue, armed, server>>
<1>1. /\ main = "loop" /\ ses.ei /\ events # <<>>
      /\ Head(events) \in News /\ Head(events).type = "connect" /\ Head(events) = events[1]
      /\ events' = Tail(events) /\ events' \in Seq(News)
      /\ UNCHANGED <<client, flags, table, queue, armed, server>>
  BY ReceiveDoes DEF K!Connected
<1>2. /\ ses' \in SesType /\ ses'.ready = TRUE /\ ses'.started = ses.started /\ ses'.ei = ses.ei
      /\ ses'.keyboard = ses.keyboard /\ ses'.emulating = ses.emulating
  BY DEF K!Connected, Typed, TypedSession, SesType
<1>3. CASE ses.started  BY <1>3, <1>1, <1>2, FlushRepings DEF K!Connected
<1>4. CASE ~ses.started  BY <1>4, <1>1, <1>2 DEF K!Connected
<1> QED BY <1>3, <1>4

\* The session has started.
LEMMA StartAnsweredDoes ==
  ASSUME Typed, Flow, K!StartAnswered
  PROVE  /\ main = "loop" /\ main' = main /\ ses.ei /\ ~ses.started
         /\ ses' \in SesType /\ ses'.ready = ses.ready /\ ses'.started = TRUE /\ ses'.ei = ses.ei
         /\ ses'.keyboard = ses.keyboard /\ ses'.emulating = ses.emulating
         /\ IF ses.ready /\ sync.pending # K!None THEN Repings ELSE UNCHANGED <<sync, sent>>
         /\ UNCHANGED <<client, flags, table, queue, armed, events, server>>
<1>1. /\ main = "loop" /\ ses.ei /\ ~ses.started
      /\ UNCHANGED <<client, flags, table, queue, armed, events, server>>
  BY DEF K!StartAnswered, Flow
<1>2. /\ ses' \in SesType /\ ses'.ready = ses.ready /\ ses'.started = TRUE /\ ses'.ei = ses.ei
      /\ ses'.keyboard = ses.keyboard /\ ses'.emulating = ses.emulating
  BY DEF K!StartAnswered, Typed, TypedSession, SesType
<1>3. CASE ses.ready  BY <1>3, <1>1, <1>2, FlushRepings DEF K!StartAnswered
<1>4. CASE ~ses.ready  BY <1>4, <1>1, <1>2 DEF K!StartAnswered
<1> QED BY <1>3, <1>4

\* The keyboard of the session follows the news.
DeviceNews == K!DeviceAdded \/ K!DeviceResumed \/ K!DeviceRemoved

\* News of a keyboard are received.
LEMMA DeviceNewsDoes ==
  ASSUME Typed, DeviceNews
  PROVE  LET n == Head(events).keyboard
         IN  /\ main = "loop" /\ ses.ei /\ events # <<>>
             /\ Head(events) \in News /\ Head(events) = events[1]
             /\ Head(events).type \in {"added", "resumed", "removed"} /\ n \in 1 .. MaxPlugs
             /\ events' = Tail(events) /\ events' \in Seq(News)
             /\ ses' \in SesType /\ ses'.ready = ses.ready /\ ses'.started = ses.started
             /\ ses'.ei = ses.ei
             /\ \/ Head(events).type = "added" /\ ses'.keyboard = n /\ ~ses'.emulating
                \/ /\ Head(events).type = "resumed" /\ ses'.keyboard = ses.keyboard
                   /\ ses'.emulating <=> ses.keyboard = n
                \/ /\ Head(events).type = "removed" /\ ses'.emulating = ses.emulating
                   /\ ses'.keyboard = IF ses.keyboard = n THEN K!None ELSE ses.keyboard
             /\ UNCHANGED <<client, flags, table, queue, armed, main, sync, sent, server>>
<1> DEFINE n == Head(events).keyboard
<1>1. ASSUME NEW type \in {"added", "resumed", "removed"}, K!Receive(type)
      PROVE  /\ main = "loop" /\ ses.ei /\ events # <<>>
             /\ Head(events) \in News /\ Head(events) = events[1]
             /\ Head(events).type = type /\ n \in 1 .. MaxPlugs
             /\ events' = Tail(events) /\ events' \in Seq(News)
             /\ UNCHANGED <<client, flags, table, queue, armed, server>>
  BY <1>1, ReceiveDoes, NewsFacts
<1>2. ses \in SesType
  BY DEF Typed, TypedSession
<1>3. CASE K!DeviceAdded
  <2>1. K!Receive("added") /\ UNCHANGED <<main, sync, sent>>
        /\ ses' = [ses EXCEPT !.keyboard = n, !.emulating = FALSE]
    BY <1>3 DEF K!DeviceAdded
  <2>2. n \in 0 .. MaxPlugs
    BY <1>1, <2>1, InputAssumption
  <2>3. /\ ses' \in SesType /\ ses'.ready = ses.ready /\ ses'.started = ses.started
        /\ ses'.ei = ses.ei /\ ses'.keyboard = n /\ ~ses'.emulating
    BY <1>2, <2>1, <2>2 DEF SesType
  <2> QED BY <1>1, <2>1, <2>3
<1>4. CASE K!DeviceResumed
  <2>1. K!Receive("resumed") /\ UNCHANGED <<main, sync, sent>>
        /\ ses' = [ses EXCEPT !.emulating = (ses.keyboard = n)]
    BY <1>4 DEF K!DeviceResumed
  <2>2. (ses.keyboard = n) \in BOOLEAN
    OBVIOUS
  <2>3. /\ ses' \in SesType /\ ses'.ready = ses.ready /\ ses'.started = ses.started
        /\ ses'.ei = ses.ei /\ ses'.keyboard = ses.keyboard /\ ses'.emulating = (ses.keyboard = n)
    BY <1>2, <2>1, <2>2 DEF SesType
  <2> QED BY <1>1, <2>1, <2>3
<1>5. CASE K!DeviceRemoved
  <2> DEFINE kept == IF ses.keyboard = n THEN K!None ELSE ses.keyboard
  <2>1. K!Receive("removed") /\ UNCHANGED <<main, sync, sent>>
        /\ ses' = [ses EXCEPT !.keyboard = kept]
    BY <1>5 DEF K!DeviceRemoved
  <2>2. kept \in 0 .. MaxPlugs
    BY <1>2, InputAssumption DEF SesType, K!None
  <2> HIDE DEF kept
  <2>3. /\ ses' \in SesType /\ ses'.ready = ses.ready /\ ses'.started = ses.started
        /\ ses'.ei = ses.ei /\ ses'.keyboard = kept /\ ses'.emulating = ses.emulating
    BY <1>2, <2>1, <2>2 DEF SesType
  <2> QED BY <1>1, <2>1, <2>3 DEF kept
<1> QED BY <1>3, <1>4, <1>5 DEF DeviceNews

\* The lock is told.
LEMMA KeyboardModifiersDoes ==
  ASSUME Typed, K!KeyboardModifiers
  PROVE  /\ main = "loop" /\ ses.ei /\ events # <<>>
         /\ Head(events) \in News /\ Head(events) = events[1] /\ Head(events).type = "modifiers"
         /\ events' = Tail(events) /\ events' \in Seq(News)
         /\ sync' \in SyncType /\ sync'.reported = Head(events).lock /\ sync'.valid = TRUE
         /\ sync'.pending = sync.pending /\ sync'.last = sync.last
         /\ sync'.cancelled = sync.cancelled /\ sync'.expected = sync.expected
         /\ sync'.due = sync.due /\ sync'.excused = sync.excused
         /\ UNCHANGED <<client, flags, table, queue, armed, main, ses, sent, server>>
BY ReceiveDoes, NewsFacts DEF K!KeyboardModifiers, Typed, TypedSession, SyncType

\* The display server answers a ping.
LEMMA ServerAnswersPingDoes ==
  ASSUME Typed, K!ServerAnswersPing
  PROVE  LET n == Head(sent).sync
         IN  /\ sent # <<>> /\ Head(sent) = sent[1] /\ Head(sent) = K!Ping(n) /\ n \in Nat
             /\ sent' = Tail(sent) /\ sent' \in Seq(Message)
             /\ events' = Append(events, K!Pong(n)) /\ events' \in Seq(News) /\ K!Pong(n) \in News
             /\ UNCHANGED <<client, flags, table, queue, armed, main, sync, ses, server>>
<1> DEFINE n == Head(sent).sync
<1>1. /\ sent # <<>> /\ Head(sent).type = "ping" /\ sent' = Tail(sent)
      /\ events' = Append(events, K!Pong(n))
      /\ UNCHANGED <<client, flags, table, queue, armed, main, sync, ses, server>>
  BY DEF K!ServerAnswersPing
<1>2. sent \in Seq(Message) /\ events \in Seq(News)
  BY DEF Typed, TypedWire
<1>3. Head(sent) \in Message /\ Head(sent) = sent[1] /\ sent' \in Seq(Message)
  BY <1>1, <1>2, TailFacts
<1>4. n \in Nat /\ Head(sent) = K!Ping(n)
  BY <1>1, <1>3, MessageFacts
<1>5. K!Pong(n) \in News
  BY <1>4, PingType
<1> HIDE DEF n
<1>6. events' \in Seq(News)
  BY <1>1, <1>2, <1>5, AppendFacts
<1> QED BY <1>1, <1>3, <1>4, <1>5, <1>6 DEF n

\* Three elements are appended one after the other.
LEMMA AppendThrice ==
  ASSUME NEW S, NEW s \in Seq(S), NEW a \in S, NEW b \in S, NEW c \in S
  PROVE  s \o <<a, b, c>> = Append(Append(Append(s, a), b), c)
<1>1. s \o <<a, b>> = Append(Append(s, a), b) /\ <<a, b>> \in Seq(S)
  BY AppendTwice
<1>2. \A t \in Seq(S) : Append(t, c) = t \o <<c>> /\ <<c>> \in Seq(S)
  <2> TAKE t \in Seq(S)
  <2> DEFINE one == <<c>>
  <2>1. one \in Seq(S) /\ one # <<>> /\ Head(one) = c /\ Tail(one) = <<>>
    OBVIOUS
  <2> HIDE DEF one
  <2>2. Append(t, Head(one)) \o Tail(one) = t \o one
    BY <2>1, PassOn
  <2>3. Append(t, c) \in Seq(S)
    BY AppendFacts
  <2>4. Append(t, c) \o <<>> = Append(t, c)
    BY <2>3, ConcatEmptySeq
  <2>5. Append(t, c) = t \o one
    BY <2>1, <2>2, <2>4
  <2> QED BY <2>1, <2>5 DEF one
<1>3. Append(<<a, b>>, c) = <<a, b, c>>
  <2> DEFINE two == <<a, b>>
             three == <<a, b, c>>
  <2>1. /\ two \in Seq(S) /\ Len(two) = 2 /\ two[1] = a /\ two[2] = b
        /\ three \in Seq(S) /\ Len(three) = 3 /\ three[1] = a /\ three[2] = b /\ three[3] = c
    OBVIOUS
  <2> HIDE DEF two, three
  <2> DEFINE more == Append(two, c)
  <2>2. /\ more \in Seq(S) /\ Len(more) = 3 /\ more[3] = c
        /\ more[1] = two[1] /\ more[2] = two[2]
    <3>1. 1 \in DOMAIN two /\ 2 \in DOMAIN two
      BY <2>1
    <3>2. /\ more \in Seq(S) /\ Len(more) = Len(two) + 1 /\ more[Len(two) + 1] = c
          /\ \A i \in DOMAIN two : more[i] = two[i]
      <4>1. two \in Seq(S) /\ c \in S
        BY <2>1
      <4> QED BY ONLY <4>1, AppendFacts
    <3> QED BY <2>1, <3>1, <3>2
  <2> HIDE DEF more
  <2>3. \A i \in 1 .. Len(more) : more[i] = three[i]
    BY <2>1, <2>2
  <2>4. more = three
    BY <2>1, <2>2, <2>3, SeqEqual
  <2> QED BY <2>4 DEF more, two, three
<1>4. <<a, b>> \o <<c>> = <<a, b, c>>
  BY <1>1, <1>2, <1>3
<1>5. (s \o <<a, b>>) \o <<c>> = s \o (<<a, b>> \o <<c>>)
  <2> DEFINE two == <<a, b>>
             one == <<c>>
  <2>1. two \in Seq(S) /\ one \in Seq(S)
    BY <1>1, <1>2
  <2> HIDE DEF one, two
  <2>2. (s \o two) \o one = s \o (two \o one)
    BY <2>1, ConcatAssociative
  <2> QED BY <2>2 DEF one, two
<1>6. Append(s \o <<a, b>>, c) = (s \o <<a, b>>) \o <<c>>
  <2>1. s \o <<a, b>> \in Seq(S)  BY AppendFacts, <1>1
  <2> QED BY <1>2, <2>1
<1> QED BY <1>1, <1>4, <1>5, <1>6

\* A keyboard comes with its number, and goes with the keys that were down.
Added(n) == [type |-> "added", keyboard |-> n]
Resumed(n) == [type |-> "resumed", keyboard |-> n]
Removed(n) == [type |-> "removed", keyboard |-> n]
Modifiers(lock) == [type |-> "modifiers", lock |-> lock]

\* What the display server tells is news.
LEMMA NewsType ==
  /\ \A n \in 1 .. MaxPlugs : Added(n) \in News /\ Resumed(n) \in News /\ Removed(n) \in News
  /\ \A lock \in BOOLEAN : Modifiers(lock) \in News
BY DEF News, Added, Resumed, Removed, Modifiers

\* The display server adds a keyboard with the next number.
LEMMA ServerAddsKeyboardDoes ==
  ASSUME Typed, K!ServerAddsKeyboard
  PROVE  LET new == server.plugs + 1
         IN  /\ server.keyboard = K!None /\ ses.ei
             /\ new \in 1 .. MaxPlugs
             /\ server' \in ServerType /\ server'.keyboard = new /\ server'.plugs = new
             /\ server'.down = server.down /\ server'.lock = server.lock
             /\ Added(new) \in News /\ Resumed(new) \in News /\ Modifiers(server.lock) \in News
             /\ events' = Append(Append(Append(events, Added(new)), Resumed(new)), Modifiers(server.lock))
             /\ events' \in Seq(News)
             /\ UNCHANGED <<client, flags, table, queue, armed, main, sync, ses, sent>>
<1> DEFINE new == server.plugs + 1
<1>1. /\ server.keyboard = K!None /\ server.plugs < MaxPlugs /\ ses.ei
      /\ server' = [server EXCEPT !.keyboard = new, !.plugs = new]
      /\ events' = events \o <<Added(new), Resumed(new), Modifiers(server.lock)>>
      /\ UNCHANGED <<client, flags, table, queue, armed, main, sync, ses, sent>>
  BY DEF K!ServerAddsKeyboard, Added, Resumed, Modifiers
<1>2. server \in ServerType /\ events \in Seq(News) /\ MaxPlugs \in Nat
  BY InputAssumption DEF Typed, TypedWire
<1>3. new \in 1 .. MaxPlugs /\ new \in 0 .. MaxPlugs /\ server.lock \in BOOLEAN
  BY <1>1, <1>2 DEF ServerType
<1> HIDE DEF new
<1>4. /\ server' \in ServerType /\ server'.keyboard = new /\ server'.plugs = new
      /\ server'.down = server.down /\ server'.lock = server.lock
  BY <1>1, <1>2, <1>3 DEF ServerType
<1>5. Added(new) \in News /\ Resumed(new) \in News /\ Modifiers(server.lock) \in News
  BY <1>3, NewsType
<1>6. events' = Append(Append(Append(events, Added(new)), Resumed(new)), Modifiers(server.lock))
  BY <1>1, <1>2, <1>5, AppendThrice
<1>7. Append(events, Added(new)) \in Seq(News)
  BY <1>2, <1>5, AppendFacts
<1>8. Append(Append(events, Added(new)), Resumed(new)) \in Seq(News)
  BY <1>5, <1>7, AppendFacts
<1>9. events' \in Seq(News)
  BY <1>5, <1>6, <1>8, AppendFacts
<1> QED BY <1>1, <1>3, <1>4, <1>5, <1>6, <1>9 DEF new

\* The display server removes its keyboard.
LEMMA ServerRemovesKeyboardDoes ==
  ASSUME Typed, K!ServerRemovesKeyboard
  PROVE  /\ server.keyboard \in 1 .. MaxPlugs
         /\ server' \in ServerType /\ server'.keyboard = K!None /\ server'.plugs = server.plugs
         /\ server'.down = {} /\ server'.lock = server.lock
         /\ Removed(server.keyboard) \in News
         /\ events' = Append(events, Removed(server.keyboard)) /\ events' \in Seq(News)
         /\ UNCHANGED <<client, flags, table, queue, armed, main, sync, ses, sent>>
<1>1. /\ server.keyboard # K!None
      /\ server' = [server EXCEPT !.keyboard = K!None, !.down = {}]
      /\ events' = Append(events, Removed(server.keyboard))
      /\ UNCHANGED <<client, flags, table, queue, armed, main, sync, ses, sent>>
  BY DEF K!ServerRemovesKeyboard, Removed
<1>2. server \in ServerType /\ events \in Seq(News) /\ MaxPlugs \in Nat
  BY InputAssumption DEF Typed, TypedWire
<1>3. server.keyboard \in 1 .. MaxPlugs
  BY <1>1, <1>2 DEF ServerType, K!None
<1>4. Removed(server.keyboard) \in News
  BY <1>3, NewsType
<1>5. events' \in Seq(News)
  BY <1>1, <1>2, <1>4, AppendFacts
<1>6. /\ server' \in ServerType /\ server'.keyboard = K!None /\ server'.plugs = server.plugs
      /\ server'.down = {} /\ server'.lock = server.lock
  <2>1. server' = [lock |-> server.lock, keyboard |-> K!None, plugs |-> server.plugs, down |-> {}]
    BY <1>1, <1>2 DEF ServerType
  <2> QED BY <1>2, <2>1 DEF ServerType, K!None
<1> QED BY <1>1, <1>3, <1>4, <1>5, <1>6

\* The display server closes the session: the connection is gone with all that is on it.
LEMMA SessionClosedDoes ==
  ASSUME Typed, K!SessionClosed
  PROVE  /\ main = "loop" /\ main' = "join"
         /\ flags' \in [activated : BOOLEAN, view : BOOLEAN]
         /\ ses' \in SesType /\ ~ses'.ei /\ ses'.keyboard = K!None
         /\ sent' = <<>> /\ events' = <<>> /\ sent' \in Seq(Message) /\ events' \in Seq(News)
         /\ server' \in ServerType /\ server'.keyboard = K!None /\ server'.plugs = server.plugs
         /\ server'.down = {} /\ server'.lock = server.lock
         /\ UNCHANGED <<client, table, queue, armed, sync>>
<1>1. /\ main = "loop" /\ main' = "join"
      /\ flags' = [flags EXCEPT !.activated = FALSE]
      /\ ses' = [ses EXCEPT !.ei = FALSE, !.keyboard = K!None]
      /\ sent' = <<>> /\ events' = <<>>
      /\ server' = [server EXCEPT !.keyboard = K!None, !.down = {}]
      /\ UNCHANGED <<client, table, queue, armed, sync>>
  BY DEF K!SessionClosed, K!Stop
<1>2. server \in ServerType /\ ses \in SesType /\ MaxPlugs \in Nat
  BY InputAssumption DEF Typed, TypedWire, TypedSession
<1>3. /\ server' \in ServerType /\ server'.keyboard = K!None /\ server'.plugs = server.plugs
      /\ server'.down = {} /\ server'.lock = server.lock
  <2>1. server' = [lock |-> server.lock, keyboard |-> K!None, plugs |-> server.plugs, down |-> {}]
    BY <1>1, <1>2 DEF ServerType
  <2> QED BY <1>2, <2>1 DEF ServerType, K!None
<1>4. ses' \in SesType /\ ~ses'.ei /\ ses'.keyboard = K!None
  <2>1. ses' = [ready |-> ses.ready, started |-> ses.started, ei |-> FALSE, keyboard |-> K!None,
                emulating |-> ses.emulating]
    BY <1>1, <1>2 DEF SesType
  <2> QED BY <1>2, <2>1 DEF SesType, K!None
<1>5. flags' \in [activated : BOOLEAN, view : BOOLEAN]
  BY <1>1 DEF Typed, TypedClient
<1>6. sent' \in Seq(Message) /\ events' \in Seq(News)
  BY <1>1, EmptySeq
<1> QED BY <1>1, <1>3, <1>4, <1>5, <1>6

\* The session stops: what the table names is released.
LEMMA ReleaseKeysDoes ==
  ASSUME Typed, Flow, K!ReleaseKeys
  PROVE  /\ main = "join" /\ main' = "drain_last" /\ ~client.runs
         /\ client.todo = <<>> /\ queue' = queue \o K!Releases(table) /\ queue' \in Seq(Event)
         /\ table' = {} /\ armed' = TRUE
         /\ UNCHANGED <<client, flags, sync, ses, sent, events, server>>
BY ReleasesFacts, ConcatFacts DEF K!ReleaseKeys, Typed, TypedClient, TypedQueue, Flow

\* What leaves the wire and the synchronization alone: the socket thread ...
LEMMA SocketSteps ==
  ASSUME Typed, Flow, K!PduIgnored \/ K!WakeSource \/ K!ClientGone \/ K!SocketExits
  PROVE  /\ TypedClient' /\ TypedQueue' /\ client'.todo = client.todo
         /\ client'.runs => client.runs
         /\ ~client'.runs => client.todo = <<>> /\ ~client'.wakes
         /\ ~client'.wakes => ~client.wakes \/ armed'
         /\ armed => armed'
         /\ UNCHANGED <<table, queue, main, sync, ses, sent, events, server>>
<1>1. TypedClient /\ TypedQueue
  BY DEF Typed
<1>2. CASE K!PduIgnored
  <2>1. /\ K!Handle(<<>>, client.pause) /\ client.pdus # <<>> /\ client.todo = <<>>
        /\ client.runs
        /\ UNCHANGED <<flags, table, queue, armed, main, sync, ses, sent, events, server>>
    BY <1>2 DEF K!PduIgnored, K!Idle
  <2>2. <<>> \in Seq(Event) /\ client.pause \in {"none", "ctrl_down", "numlock_down", "ctrl_up"}
    BY <1>1, EmptySeq DEF TypedClient, ClientType
  <2>3. /\ client' \in ClientType /\ client'.todo = <<>> /\ client'.runs = client.runs
        /\ client'.wakes = client.wakes
    BY <1>1, <2>1, <2>2, HandleDoes
  <2> QED BY <1>1, <2>1, <2>3 DEF TypedClient, TypedQueue
<1>3. CASE K!WakeSource
  <2>1. /\ client' = [client EXCEPT !.wakes = FALSE] /\ armed' = TRUE /\ client.wakes
        /\ UNCHANGED <<flags, table, queue, main, sync, ses, sent, events, server>>
    BY <1>3 DEF K!WakeSource
  <2>2. client.runs
    BY <2>1 DEF Flow
  <2>3. /\ client' \in ClientType /\ client'.runs /\ ~client'.wakes /\ client'.todo = client.todo
    BY <1>1, <2>1, <2>2 DEF TypedClient, ClientType
  <2> QED BY <1>1, <2>1, <2>2, <2>3 DEF TypedClient, TypedQueue
<1>4. CASE K!ClientGone
  BY <1>1, <1>4 DEF K!ClientGone, K!Idle, TypedClient, TypedQueue, ClientType
<1>5. CASE K!SocketExits
  BY <1>1, <1>5 DEF K!SocketExits, K!Idle, TypedClient, TypedQueue, ClientType
<1> QED BY <1>2, <1>3, <1>4, <1>5

-----------------------------------------------------------------------------
(* Types, flow and keyboards. *)

\* ... and the main thread, when it has nothing to tell.
LEMMA UnlockQueueDoes ==
  ASSUME Typed, K!UnlockQueue
  PROVE  /\ main \in {"drain", "drain_last"} /\ queue = <<>>
         /\ main' = IF main = "drain" THEN "loop" ELSE "stopped"
         /\ ses' \in SesType /\ ses'.ready = ses.ready /\ ses'.started = ses.started
         /\ ses'.keyboard = ses.keyboard /\ ses'.emulating = ses.emulating
         /\ main = "drain" => ses'.ei = ses.ei
         /\ main = "drain_last" => ~ses'.ei
         /\ UNCHANGED <<client, flags, table, queue, armed, sync, sent, events, server>>
<1>1. /\ main \in {"drain", "drain_last"} /\ queue = <<>>
      /\ main' = IF main = "drain" THEN "loop" ELSE "stopped"
      /\ ses' = [ses EXCEPT !.ei = (ses.ei /\ main = "drain")]
      /\ UNCHANGED <<client, flags, table, queue, armed, sync, sent, events, server>>
  BY DEF K!UnlockQueue, K!Draining
<1> DEFINE left == (ses.ei /\ main = "drain")
<1>2. ses \in SesType /\ ses.ei \in BOOLEAN /\ left \in BOOLEAN
  BY DEF Typed, TypedSession, SesType
<1>3. (main = "drain" => left = ses.ei) /\ (main = "drain_last" => ~left)
  BY <1>2
<1> HIDE DEF left
<1>4. /\ ses' \in SesType /\ ses'.ready = ses.ready /\ ses'.started = ses.started
      /\ ses'.keyboard = ses.keyboard /\ ses'.emulating = ses.emulating /\ ses'.ei = left
  BY <1>1, <1>2 DEF left, SesType
<1> QED BY <1>1, <1>3, <1>4

\* What the main thread does to its own state only.
LEMMA MainSteps ==
  ASSUME Typed, Flow, K!FlushDispatch \/ K!StopSession \/ K!ViewOnlyChanged
  PROVE  /\ TypedClient' /\ TypedQueue' /\ main = "loop" /\ main' \in {"loop", "drain", "join"}
         /\ main' = "loop" => armed' = armed
         /\ UNCHANGED <<client, table, queue, sync, ses, sent, events, server>>
BY DEF Typed, K!FlushDispatch, TypedClient, TypedQueue, K!StopSession, K!Stop, K!ViewOnlyChanged

\* What a step may leave alone.
LEMMA TypedUnchanged ==
  ASSUME Typed
  PROVE  /\ UNCHANGED <<client, flags, table>> => TypedClient'
         /\ UNCHANGED <<queue, armed, main>> => TypedQueue'
         /\ UNCHANGED <<sync, ses>> => TypedSession'
         /\ UNCHANGED <<sent, events, server>> => TypedWire'
BY DEF Typed, TypedClient, TypedQueue, TypedSession, TypedWire

\* The synchronization is completed or goes on.
LEMMA SyncKeepsItsNumbers ==
  ASSUME Typed, sync' \in SyncType, ses' \in SesType,
         sync'.pending \in {K!None, sync.pending}, sync'.last = sync.last,
         sync'.cancelled = sync.cancelled
  PROVE  TypedSession'
BY DEF Typed, TypedSession

\* Every step of the keyboard keeps the types.
LEMMA TypedStep ==
  ASSUME Typed, Flow, K!Next
  PROVE  Typed'
<1>1. /\ queue \in Seq(Event) /\ armed \in BOOLEAN
      /\ main \in {"loop", "drain", "join", "drain_last", "stopped", "crashed"}
      /\ flags \in [activated : BOOLEAN, view : BOOLEAN]
      /\ table \subseteq Key /\ IsFiniteSet(table) /\ client \in ClientType
      /\ sync \in SyncType /\ sync.pending \in {K!None, sync.last}
      /\ sync.cancelled \subseteq 1 .. sync.last /\ ses \in SesType /\ sync.last \in Nat
      /\ sent \in Seq(Message) /\ events \in Seq(News) /\ server \in ServerType
  BY DEF Typed, TypedQueue, TypedClient, TypedSession, TypedWire, SyncType
<1>2. CASE K!PduIgnored \/ K!WakeSource \/ K!ClientGone \/ K!SocketExits
  BY <1>2, SocketSteps, TypedUnchanged DEF Typed
<1>3. CASE K!SynchronizeEvent
  BY <1>3, SynchronizeEventDoes, <1>1, FS_EmptySet, TypedUnchanged DEF TypedClient, Typed
<1>4. ASSUME NEW k \in Key, NEW down \in BOOLEAN, K!KeyboardEvent(k, down)
      PROVE  Typed'
  BY <1>4, KeyboardEventDoes, <1>1, TypedUnchanged DEF TypedClient, Typed
<1>5. CASE K!QueueEvent
  BY <1>5, QueueEventDoes, <1>1, TypedUnchanged DEF TypedClient, TypedQueue, Typed
<1>6. CASE K!FlushDispatch \/ K!StopSession \/ K!ViewOnlyChanged
  BY <1>6, MainSteps, TypedUnchanged DEF Typed
<1>7. CASE K!ProcessKey
  BY <1>7, ProcessKeyDoes, <1>1, SyncKeepsItsNumbers, TypedUnchanged DEF TypedQueue, TypedWire,
     Typed
<1>8. CASE K!ProcessSync
  <2>1. /\ queue' \in Seq(Event) /\ sync' \in SyncType
        /\ sync'.pending = sync.last + 1 /\ sync'.last = sync.last + 1
        /\ sync'.cancelled \subseteq 1 .. sync.last
        /\ sent' = sent \/ sent' = Append(sent, K!Ping(sync'.pending))
        /\ main' \in {main, "crashed"}
        /\ UNCHANGED <<client, flags, table, armed, ses, events, server>>
    BY <1>8, ProcessSyncDoes
  <2>2. sent' \in Seq(Message)
    <3> DEFINE ping == K!Ping(sync'.pending)
    <3>1. ping \in Message
      BY <1>1, <2>1, PingType
    <3>2. sent' = sent \/ sent' = Append(sent, ping)
      BY <2>1
    <3> HIDE DEF ping
    <3>3. Append(sent, ping) \in Seq(Message)
      BY <1>1, <3>1, AppendFacts
    <3> QED BY <1>1, <3>2, <3>3
  <2>3. TypedQueue' /\ TypedWire'
    BY <1>1, <2>1, <2>2 DEF TypedQueue, TypedWire
  <2>4. TypedSession'
    BY <1>1, <2>1 DEF TypedSession
  <2> QED BY <2>1, <2>3, <2>4, TypedUnchanged DEF Typed
<1>9. CASE K!UnlockQueue
  BY <1>9, UnlockQueueDoes, <1>1, TypedUnchanged DEF TypedQueue, TypedSession, Typed
<1>10. CASE K!Connected \/ K!StartAnswered
  <2>1. /\ main' = main /\ ses' \in SesType /\ events' \in Seq(News)
        /\ Repings \/ UNCHANGED <<sync, sent>>
        /\ UNCHANGED <<client, flags, table, queue, armed, server>>
    BY <1>1, <1>10, ConnectedDoes, StartAnsweredDoes
  <2>2. TypedSession' /\ TypedWire'  BY <1>1, <2>1, SyncKeepsItsNumbers DEF Repings, TypedWire
  <2> QED BY <2>1, <2>2, TypedUnchanged DEF Typed
<1>11. CASE DeviceNews
  BY <1>11, DeviceNewsDoes, <1>1, TypedUnchanged DEF TypedSession, TypedWire, Typed
<1>12. CASE K!KeyboardModifiers
  BY <1>12, KeyboardModifiersDoes, <1>1, SyncKeepsItsNumbers, TypedUnchanged DEF TypedWire, Typed
<1>13. CASE K!PongReceived
  BY <1>13, ReceiveDoes, PongReceivedDoes, <1>1, SyncKeepsItsNumbers, TypedUnchanged
     DEF K!PongReceived, TypedWire, Typed
<1>14. CASE K!SessionClosed
  BY <1>14, SessionClosedDoes, <1>1 DEF TypedClient, TypedQueue, TypedSession, TypedWire, Typed
<1>15. CASE K!ReleaseKeys
  BY <1>15, ReleaseKeysDoes, <1>1, FS_EmptySet, TypedUnchanged DEF TypedClient, TypedQueue, Typed
<1>16. CASE K!ServerAnswersPing
  BY <1>16, ServerAnswersPingDoes, <1>1, TypedUnchanged DEF TypedWire, Typed
<1>17. CASE K!ServerTakesKey
  BY <1>17, ServerTakesKeyDoes, <1>1, SyncKeepsItsNumbers, TypedUnchanged DEF TypedWire, Typed
<1>18. CASE K!ServerAddsKeyboard \/ K!ServerRemovesKeyboard
  BY <1>18, ServerAddsKeyboardDoes, ServerRemovesKeyboardDoes, <1>1, TypedUnchanged DEF TypedWire,
     Typed
<1> QED BY <1>2, <1>3, <1>4, <1>5, <1>6, <1>7, <1>8, <1>9, <1>10, <1>11, <1>12, <1>13, <1>14,
           <1>15, <1>16, <1>17, <1>18
        DEF K!Next, K!SocketThread, K!FlushSource, K!EiSource, K!StopOrStart, K!DisplayServer,
            DeviceNews

\* The steps of the keyboard.
LEMMA StepCases ==
  ASSUME K!Next
  PROVE  \/ K!PduIgnored \/ K!WakeSource \/ K!ClientGone \/ K!SocketExits
         \/ K!SynchronizeEvent \/ \E k \in Key, down \in BOOLEAN : K!KeyboardEvent(k, down)
         \/ K!QueueEvent
         \/ K!FlushDispatch \/ K!StopSession \/ K!ViewOnlyChanged
         \/ K!ProcessKey \/ K!ProcessSync \/ K!UnlockQueue
         \/ K!Connected \/ K!StartAnswered \/ DeviceNews \/ K!KeyboardModifiers \/ K!PongReceived
         \/ K!SessionClosed \/ K!ReleaseKeys
         \/ K!ServerAnswersPing \/ K!ServerTakesKey
         \/ K!ServerAddsKeyboard \/ K!ServerRemovesKeyboard
BY DEF K!Next, K!SocketThread, K!FlushSource, K!EiSource, K!StopOrStart, K!DisplayServer, DeviceNews

\* The socket thread ends, and with it what it had to push.
LEMMA FlowStep ==
  ASSUME Typed, Flow, K!Next
  PROVE  Flow'
<1>1. CASE K!PduIgnored \/ K!WakeSource \/ K!ClientGone \/ K!SocketExits
  BY <1>1, SocketSteps DEF Flow
<1>2. CASE K!SynchronizeEvent
  BY <1>2, SynchronizeEventDoes DEF Flow
<1>3. ASSUME NEW k \in Key, NEW down \in BOOLEAN, K!KeyboardEvent(k, down)
      PROVE  Flow'
  BY <1>3, KeyboardEventDoes DEF Flow
<1>4. CASE K!QueueEvent
  BY <1>4, QueueEventDoes DEF Flow
<1>5. CASE K!FlushDispatch \/ K!StopSession \/ K!ViewOnlyChanged
  BY <1>5, MainSteps DEF Flow
<1>6. CASE K!ProcessKey  BY <1>6, ProcessKeyDoes DEF Flow
<1>7. CASE K!ProcessSync  BY <1>7, ProcessSyncDoes DEF Flow
<1>8. CASE K!UnlockQueue
  BY <1>8, UnlockQueueDoes DEF Flow
<1>9. CASE K!Connected \/ K!StartAnswered  BY <1>9, ConnectedDoes, StartAnsweredDoes DEF Flow
<1>10. CASE DeviceNews
  BY <1>10, DeviceNewsDoes DEF Flow
<1>11. CASE K!KeyboardModifiers
  BY <1>11, KeyboardModifiersDoes DEF Flow
<1>12. CASE K!PongReceived  BY <1>12, PongReceivedDoes, ReceiveDoes DEF K!PongReceived, Flow
<1>13. CASE K!SessionClosed
  BY <1>13, SessionClosedDoes DEF Flow
<1>14. CASE K!ReleaseKeys
  BY <1>14, ReleaseKeysDoes DEF Flow
<1>15. CASE K!ServerAnswersPing \/ K!ServerTakesKey \/ K!ServerAddsKeyboard \/ K!ServerRemovesKeyboard
  BY <1>15, ServerAnswersPingDoes, ServerTakesKeyDoes, ServerAddsKeyboardDoes,
     ServerRemovesKeyboardDoes DEF Flow
<1> QED BY StepCases, <1>1, <1>2, <1>3, <1>4, <1>5, <1>6, <1>7, <1>8, <1>9, <1>10, <1>11, <1>12,
           <1>13, <1>14, <1>15

\* The news stays in order when the first is received ...
LEMMA NewsTailInOrder ==
  ASSUME Typed, NewsInOrder, events # <<>>, events' = Tail(events), UNCHANGED server,
         Settled' => Settled \/ \A i \in DOMAIN Tail(events) : ~Arrival(Tail(events)[i])
  PROVE  NewsInOrder'
<1>1. events \in Seq(News)
  BY DEF Typed, TypedWire
<1>2. ASSUME NEW i \in DOMAIN events', Arrival(events'[i]), NEW j \in 1 .. (i - 1), Arrival(events'[j])
      PROVE  Precedes(events'[j], events'[i])
  BY <1>1, <1>2, TailFacts DEF NewsInOrder
<1>3. \A i \in DOMAIN events' : i + 1 \in DOMAIN events /\ events'[i] = events[i + 1]
  BY <1>1, TailFacts
<1>4. \A i \in DOMAIN events' :
        events'[i].type = "removed" => /\ events'[i].keyboard <= server'.plugs
                                       /\ events'[i].keyboard # server'.keyboard
  BY <1>3 DEF NewsInOrder
<1>5. \A i \in DOMAIN events' : Arrival(events'[i]) => events'[i].keyboard <= server'.plugs /\ ~Settled'
  BY <1>3 DEF NewsInOrder
<1> QED BY <1>2, <1>4, <1>5 DEF NewsInOrder, Arrival, Precedes

\* ... and when something else than a keyboard is told of.
LEMMA NewsAppendInOrder ==
  ASSUME Typed, NewsInOrder, NEW e \in News, events' = Append(events, e),
         e.type \notin {"added", "resumed", "removed"},
         server'.keyboard = server.keyboard, server'.plugs = server.plugs, UNCHANGED ses
  PROVE  NewsInOrder'
<1>1. events \in Seq(News)
  BY DEF Typed, TypedWire
<1>2. ASSUME NEW i \in DOMAIN events', Arrival(events'[i]) \/ events'[i].type = "removed"
      PROVE  i \in DOMAIN events /\ events'[i] = events[i]
  BY <1>1, <1>2, AppendFacts DEF Arrival
<1>3. ASSUME NEW i \in DOMAIN events', Arrival(events'[i]), NEW j \in 1 .. (i - 1), Arrival(events'[j])
      PROVE  Precedes(events'[j], events'[i])
  BY <1>2, <1>3, <1>1, AppendFacts DEF NewsInOrder
<1>4. Settled' <=> Settled
  BY DEF Settled
<1>5. \A i \in DOMAIN events' :
        events'[i].type = "removed" => /\ events'[i].keyboard <= server'.plugs
                                       /\ events'[i].keyboard # server'.keyboard
  BY <1>2 DEF NewsInOrder
<1>6. \A i \in DOMAIN events' : Arrival(events'[i]) => events'[i].keyboard <= server'.plugs /\ ~Settled'
  BY <1>2, <1>4 DEF NewsInOrder
<1> QED BY <1>3, <1>5, <1>6 DEF NewsInOrder, Arrival, Precedes

\* Keys are there after a step if they were before, or one was sent or taken.
LEMMA KeyboardsUnchanged ==
  ASSUME Keyboards, UNCHANGED <<sent, events, server>>,
         ses'.keyboard = ses.keyboard /\ ses'.emulating = ses.emulating,
         main' \notin {"stopped", "crashed"} => main \notin {"stopped", "crashed"} /\ ses'.ei = ses.ei
  PROVE  Keyboards'
<1>1. NewsInOrder'
  BY DEF Keyboards, NewsInOrder, Settled, Arrival, Precedes
<1> QED BY <1>1 DEF Keyboards, KeysThere, Current

\* What is sent is sent to the keyboard of the session.
LEMMA WireKeeps ==
  ASSUME Keyboards, NewsInOrder',
         server'.keyboard = server.keyboard, server'.plugs = server.plugs,
         server'.down # {} => KeysThere /\ server.keyboard # K!None,
         \A i \in DOMAIN sent' :
           \/ \E j \in DOMAIN sent : sent'[i] = sent[j]
           \/ sent'[i].type = "key" => K!HasKeyboard /\ sent'[i].keyboard = ses.keyboard,
         ses'.keyboard = ses.keyboard /\ ses'.emulating = ses.emulating,
         main' \notin {"stopped", "crashed"} => main \notin {"stopped", "crashed"} /\ ses'.ei = ses.ei
  PROVE  Keyboards'
BY DEF Keyboards, KeysThere, Current, K!HasKeyboard

\* What is there keeps the session's keyboard from being replaced.
LEMMA KeysThereSettled ==
  ASSUME Typed, Keyboards, KeysThere, main \notin {"stopped", "crashed"}
  PROVE  Settled
<1>1. ses.emulating /\ ses.keyboard = server.keyboard
  BY DEF Keyboards
<1>2. sent \in Seq(Message)
  BY DEF Typed, TypedWire
<1>3. CASE server.down # {}
  BY <1>1, <1>3 DEF Keyboards, Settled
<1>4. ASSUME NEW i \in DOMAIN sent, Current(sent[i])
      PROVE  Settled
  BY <1>2, ElementOfSeq, LenProperties, <1>4, MessageFacts, InputAssumption, <1>1 DEF Current,
     K!None, Settled
<1> QED BY <1>3, <1>4 DEF KeysThere

\* After an arrival is received, those that follow are of later keyboards.
LEMMA ArrivalsFollow ==
  ASSUME Typed, Keyboards, events # <<>>, Arrival(Head(events)),
         NEW i \in DOMAIN Tail(events), Arrival(Tail(events)[i])
  PROVE  Precedes(Head(events), Tail(events)[i]) /\ Tail(events)[i].keyboard <= server.plugs
<1>1. events \in Seq(News)
  BY DEF Typed, TypedWire
<1>2. /\ i \in Nat \ {0} /\ i + 1 \in DOMAIN events /\ Tail(events)[i] = events[i + 1]
      /\ Head(events) = events[1]
  BY <1>1, TailFacts
<1>3. 1 \in 1 .. ((i + 1) - 1)
  BY <1>2
<1> QED BY <1>2, <1>3 DEF Keyboards, NewsInOrder

\* The session learns of a keyboard: no key is down or comes on an older one.
LEMMA DeviceNewsKeeps ==
  ASSUME Typed, Keyboards, DeviceNews
  PROVE  Keyboards'
<1> DEFINE n == Head(events).keyboard
<1>1. /\ main = "loop" /\ ses.ei /\ events # <<>>
      /\ Head(events) \in News /\ Head(events) = events[1]
      /\ Head(events).type \in {"added", "resumed", "removed"} /\ n \in 1 .. MaxPlugs
      /\ events' = Tail(events) /\ events' \in Seq(News)
      /\ ses' \in SesType /\ ses'.ei = ses.ei
      /\ UNCHANGED <<client, flags, table, queue, armed, main, sync, sent, server>>
  BY DeviceNewsDoes
<1>2. \/ Head(events).type = "added" /\ ses'.keyboard = n /\ ~ses'.emulating
      \/ /\ Head(events).type = "resumed" /\ ses'.keyboard = ses.keyboard
         /\ ses'.emulating <=> ses.keyboard = n
      \/ /\ Head(events).type = "removed" /\ ses'.emulating = ses.emulating
         /\ ses'.keyboard = IF ses.keyboard = n THEN K!None ELSE ses.keyboard
  BY DeviceNewsDoes
<1>3. events \in Seq(News) /\ 1 \in DOMAIN events
  BY <1>1, TailFacts DEF Typed, TypedWire
<1>4. n <= server.plugs
  BY <1>1, <1>3 DEF Keyboards, NewsInOrder, Arrival
<1>5. /\ server.plugs \in Nat /\ server.keyboard \in Nat /\ n \in Nat \ {0} /\ ses.keyboard \in Nat
      /\ server.keyboard \in {K!None, server.plugs}
  BY <1>1, InputAssumption DEF Typed, TypedWire, TypedSession, ServerType, SesType, Keyboards
<1>6. ses'.keyboard <= server.plugs
  BY <1>2, <1>4, <1>5 DEF Keyboards, K!None
<1>7. Settled' => Settled \/ \A i \in DOMAIN Tail(events) : ~Arrival(Tail(events)[i])
  <2>1. CASE Head(events).type = "added"
    BY <1>2, <2>1 DEF Settled
  <2>2. CASE Head(events).type = "removed"
    BY <1>1, <1>2, <2>2 DEF Settled, K!None
  <2>3. ASSUME Head(events).type = "resumed", Settled', NEW i \in DOMAIN Tail(events),
               Arrival(Tail(events)[i])
        PROVE  FALSE
    <3>1. n = server.keyboard /\ n = server.plugs
      BY <1>1, <1>2, <1>5, <2>3 DEF Settled, K!None
    <3>2. Precedes(Head(events), Tail(events)[i]) /\ Tail(events)[i].keyboard <= server.plugs
      BY <1>1, <2>3, ArrivalsFollow DEF Arrival
    <3>3. n < Tail(events)[i].keyboard
      BY <2>3, <3>2 DEF Precedes
    <3>4. Tail(events)[i] \in News
      BY <1>1, <2>3, ElementOfSeq, LenProperties
    <3>5. Tail(events)[i].keyboard \in Nat
      BY <2>3, <3>4, NewsFacts, InputAssumption DEF Arrival
    <3> QED BY <1>5, <3>1, <3>2, <3>3, <3>5
  <2> QED BY <1>1, <2>1, <2>2, <2>3
<1>8. NewsInOrder'
  <2>1. NewsInOrder
    BY DEF Keyboards
  <2> QED BY <1>1, <1>7, <2>1, NewsTailInOrder
<1>9. KeysThere' => ses'.ei /\ ses'.emulating /\ ses'.keyboard = server'.keyboard
  BY <1>1, KeysThereSettled, <1>3, <1>2 DEF KeysThere, Current, Keyboards, NewsInOrder, Arrival,
     Settled
<1> QED BY <1>1, <1>6, <1>8, <1>9 DEF Keyboards

\* Something else is received.
LEMMA SomethingReceived ==
  ASSUME Typed, Keyboards, events # <<>>, events' = Tail(events),
         UNCHANGED <<sent, server>>, main' = main,
         ses'.keyboard = ses.keyboard /\ ses'.emulating = ses.emulating /\ ses'.ei = ses.ei
  PROVE  Keyboards'
BY NewsTailInOrder DEF Keyboards, Settled, KeysThere, Current

\* Every step keeps the keys on the keyboard that the session has.
LEMMA KeyboardsStep ==
  ASSUME Typed, Flow, Keyboards, K!Next
  PROVE  Keyboards'
<1>1. sent \in Seq(Message) /\ events \in Seq(News) /\ NewsInOrder
  BY DEF Typed, TypedWire, Keyboards
<1>2. UNCHANGED <<events, server, ses>> => NewsInOrder'
  BY <1>1 DEF NewsInOrder, Settled, Arrival, Precedes
<1>3. server.down # {} => KeysThere /\ server.keyboard # K!None
  BY DEF KeysThere, Keyboards
<1>4. CASE K!PduIgnored \/ K!WakeSource \/ K!ClientGone \/ K!SocketExits
  BY <1>4, SocketSteps, KeyboardsUnchanged
<1>5. CASE K!SynchronizeEvent
  BY <1>5, SynchronizeEventDoes, KeyboardsUnchanged
<1>6. ASSUME NEW k \in Key, NEW down \in BOOLEAN, K!KeyboardEvent(k, down)
      PROVE  Keyboards'
  BY <1>6, KeyboardEventDoes, KeyboardsUnchanged
<1>7. CASE K!QueueEvent
  BY <1>7, QueueEventDoes, KeyboardsUnchanged
<1>8. CASE K!FlushDispatch \/ K!StopSession \/ K!ViewOnlyChanged
  BY <1>8, MainSteps, KeyboardsUnchanged
<1>9. CASE K!UnlockQueue  BY <1>9, UnlockQueueDoes, KeyboardsUnchanged
<1>10. CASE K!ReleaseKeys
  BY <1>10, ReleaseKeysDoes, KeyboardsUnchanged
<1>11. CASE K!ProcessKey
  <2> DEFINE msg == K!KeySent(Head(queue).key, Head(queue).down)
  <2>1. /\ main' = main /\ UNCHANGED <<events, server, ses>>
        /\ Head(queue).key \in K!AnyKey /\ Head(queue).down \in BOOLEAN
        /\ sent' = IF K!HasKeyboard THEN Append(sent, msg) ELSE sent
    BY <1>11, ProcessKeyDoes
  <2>2. K!HasKeyboard => msg \in Message /\ msg.keyboard = ses.keyboard
    BY <2>1, KeySentType
  <2> HIDE DEF msg
  <2>3. \A i \in DOMAIN sent' :
           \/ \E j \in DOMAIN sent : sent'[i] = sent[j]
           \/ sent'[i].type = "key" => K!HasKeyboard /\ sent'[i].keyboard = ses.keyboard
    BY <1>1, <2>1, <2>2, AppendFacts
  <2> QED BY <1>2, <1>3, <2>1, <2>3, WireKeeps
<1>12. CASE K!ProcessSync
  <2>1. /\ sync'.pending \in Nat /\ main' \in {main, "crashed"} /\ UNCHANGED <<events, server, ses>>
        /\ sent' = sent \/ sent' = Append(sent, K!Ping(sync'.pending))
    BY <1>12, ProcessSyncDoes DEF SyncType
  <2> DEFINE msg == K!Ping(sync'.pending)
  <2>2. msg \in Message /\ msg.type # "key" /\ (sent' = sent \/ sent' = Append(sent, msg))
    BY <2>1, PingType
  <2> HIDE DEF msg
  <2>3. \A i \in DOMAIN sent' :
           \/ \E j \in DOMAIN sent : sent'[i] = sent[j]
           \/ sent'[i].type # "key"
    BY <1>1, <2>2, AppendFacts
  <2> QED BY <1>2, <1>3, <2>1, <2>3, WireKeeps
<1>13. CASE K!Connected \/ K!StartAnswered
  <2>1. /\ main' = main /\ UNCHANGED server
        /\ ses'.keyboard = ses.keyboard /\ ses'.emulating = ses.emulating /\ ses'.ei = ses.ei
        /\ UNCHANGED <<sync, sent>> \/ Repings
    BY <1>13, ConnectedDoes, StartAnsweredDoes
  <2>2. (events # <<>> /\ events' = Tail(events)) \/ UNCHANGED events
    BY <1>13, ConnectedDoes, StartAnsweredDoes
  <2>3. Settled' => Settled
    BY <2>1 DEF Settled
  <2>4. NewsInOrder'
    BY <1>1, <2>1, <2>2, <2>3, NewsTailInOrder DEF NewsInOrder, Settled, Arrival, Precedes
  <2> DEFINE msg == K!Ping(sync.pending)
  <2>5. sync.pending \in Nat
    BY DEF Typed, TypedSession, SyncType
  <2>6. msg \in Message /\ msg.type # "key" /\ (sent' = sent \/ sent' = Append(sent, msg))
    BY <2>1, <2>5, PingType DEF Repings
  <2> HIDE DEF msg
  <2>7. \A i \in DOMAIN sent' :
           \/ \E j \in DOMAIN sent : sent'[i] = sent[j]
           \/ sent'[i].type # "key"
    BY <1>1, <2>6, AppendFacts
  <2> QED BY <1>3, <2>1, <2>4, <2>7, WireKeeps
<1>14. CASE DeviceNews
  BY <1>14, DeviceNewsKeeps
<1>15. CASE K!KeyboardModifiers
  BY <1>15, KeyboardModifiersDoes, SomethingReceived
<1>16. CASE K!PongReceived
  <2>1. events # <<>> /\ events' = Tail(events) /\ UNCHANGED server
    BY <1>16, ReceiveDoes DEF K!PongReceived
  <2>2. /\ UNCHANGED <<main, ses>>
        /\ \/ UNCHANGED sent
           \/ K!HasKeyboard /\ sent' = Append(Append(sent, LockPress), LockRelease)
    BY <1>16, PongReceivedDoes
  <2>3. Settled' => Settled
    BY <2>1, <2>2 DEF Settled
  <2>4. NewsInOrder'
    BY <1>1, <2>1, <2>3, NewsTailInOrder
  <2>5. K!HasKeyboard => /\ LockPress \in Message /\ LockRelease \in Message
                         /\ LockPress.keyboard = ses.keyboard /\ LockRelease.keyboard = ses.keyboard
    BY KeySentType, InputAssumption DEF LockPress, LockRelease, K!AnyKey
  <2>6. \A i \in DOMAIN sent' :
           \/ \E j \in DOMAIN sent : sent'[i] = sent[j]
           \/ sent'[i].type = "key" => K!HasKeyboard /\ sent'[i].keyboard = ses.keyboard
    <3>1. CASE UNCHANGED sent
      BY <3>1
    <3>2. CASE K!HasKeyboard /\ sent' = Append(Append(sent, LockPress), LockRelease)
      <4> DEFINE mid == Append(sent, LockPress)
      <4>1. /\ mid \in Seq(Message)
            /\ \A i \in DOMAIN mid : (i \in DOMAIN sent /\ mid[i] = sent[i]) \/ mid[i] = LockPress
        BY <1>1, <2>5, <3>2, AppendFacts
      <4>2. sent' = Append(mid, LockRelease)
        BY <3>2
      <4> HIDE DEF mid
      <4>3. \A i \in DOMAIN sent' : (i \in DOMAIN mid /\ sent'[i] = mid[i]) \/ sent'[i] = LockRelease
        BY <2>5, <3>2, <4>1, <4>2, AppendFacts
      <4> QED BY <2>5, <3>2, <4>1, <4>3
    <3> QED BY <2>2, <3>1, <3>2
  <2> QED BY <1>3, <2>1, <2>2, <2>4, <2>6, WireKeeps
<1>17. CASE K!SessionClosed
  BY <1>17, SessionClosedDoes DEF Typed, TypedWire, ServerType, K!None, Keyboards, NewsInOrder,
     KeysThere
<1>18. CASE K!ServerAnswersPing
  <2>1. /\ sent # <<>> /\ sent' = Tail(sent) /\ Head(sent).sync \in Nat
        /\ events' = Append(events, K!Pong(Head(sent).sync)) /\ UNCHANGED <<main, ses, server>>
    BY <1>18, ServerAnswersPingDoes
  <2> DEFINE e == K!Pong(Head(sent).sync)
  <2>2. e \in News /\ e.type \notin {"added", "resumed", "removed"} /\ events' = Append(events, e)
    BY <2>1, PingType
  <2> HIDE DEF e
  <2>3. NewsInOrder'
    BY <1>1, <2>1, <2>2, NewsAppendInOrder
  <2>4. \A i \in DOMAIN sent' : \E j \in DOMAIN sent : sent'[i] = sent[j]
    BY <1>1, <2>1, TailFacts
  <2> QED BY <1>3, <2>1, <2>3, <2>4, WireKeeps
<1>19. CASE K!ServerTakesKey
  <2> DEFINE msg == Head(sent)
  <2>1. /\ sent # <<>> /\ msg \in Message /\ msg.type = "key" /\ msg = sent[1]
        /\ sent' = Tail(sent)
        /\ server'.keyboard = server.keyboard /\ server'.plugs = server.plugs
        /\ server'.lock \in BOOLEAN
        /\ server'.down = IF ~Current(msg) THEN server.down
                          ELSE IF msg.down THEN server.down \cup {msg.key}
                          ELSE server.down \ {msg.key}
        /\ \/ events' = events
           \/ events' = Append(events, Modifiers(server'.lock))
        /\ UNCHANGED <<main, ses>>
    BY <1>19, ServerTakesKeyDoes DEF ServerType, Modifiers
  <2> HIDE DEF msg
  <2>2. NewsInOrder'
    <3>1. CASE events' = events
      BY <1>1, <2>1, <3>1 DEF NewsInOrder, Settled, Arrival, Precedes
    <3>2. CASE events' = Append(events, Modifiers(server'.lock))
      <4> DEFINE e == Modifiers(server'.lock)
      <4>1. e \in News /\ e.type \notin {"added", "resumed", "removed"} /\ events' = Append(events, e)
        BY <2>1, <3>2, NewsType DEF Modifiers
      <4> HIDE DEF e
      <4> QED BY <1>1, <2>1, <4>1, NewsAppendInOrder
    <3> QED BY <2>1, <3>1, <3>2
  <2>3. \A i \in DOMAIN sent' : \E j \in DOMAIN sent : sent'[i] = sent[j]
    BY <1>1, <2>1, TailFacts
  <2>4. server'.down # {} => KeysThere /\ server.keyboard # K!None
    <3>1. CASE ~Current(msg)
      BY <1>3, <2>1, <3>1
    <3>2. CASE Current(msg)
      BY <1>1, <2>1, <3>2, TailFacts, MessageFacts, InputAssumption DEF KeysThere, Current, K!None
    <3> QED BY <3>1, <3>2
  <2> QED BY <2>1, <2>2, <2>3, <2>4, WireKeeps
<1>20. CASE K!ServerAddsKeyboard
  <2> DEFINE new == server.plugs + 1
  <2>1. /\ server.keyboard = K!None /\ new \in 1 .. MaxPlugs
        /\ server'.keyboard = new /\ server'.plugs = new /\ server'.down = server.down
        /\ server' \in ServerType
        /\ Added(new) \in News /\ Resumed(new) \in News /\ Modifiers(server.lock) \in News
        /\ events' = Append(Append(Append(events, Added(new)), Resumed(new)), Modifiers(server.lock))
        /\ UNCHANGED <<main, ses, sent>>
    BY <1>20, ServerAddsKeyboardDoes
  <2>2. /\ server.plugs \in Nat /\ server.plugs < new /\ ses.keyboard \in Nat /\ new \in Nat
        /\ new # K!None /\ server.down = {}
    BY <2>1, InputAssumption DEF Typed, TypedWire, TypedSession, ServerType, SesType, Keyboards, K!None
  <2> HIDE DEF new
  <2>3. \A i \in DOMAIN sent' : sent[i].type = "key" => sent[i].keyboard <= new /\ sent[i].keyboard # new
    BY <2>1, <1>1, MessageFacts, ElementOfSeq, LenProperties, InputAssumption, <2>2 DEF Keyboards
  <2>4. ~KeysThere'
    BY <2>1, <2>2, <2>3 DEF KeysThere, Current
  <2>5. ses.keyboard <= new /\ ses.keyboard # new
    BY <2>2 DEF Keyboards
  <2>6. ~Settled'
    BY <2>1, <2>5 DEF Settled
  <2>7. NewsInOrder'
    <3> DEFINE mid == Append(events, Added(new))
               more == Append(mid, Resumed(new))
    <3>1. /\ mid \in Seq(News) /\ Len(mid) = Len(events) + 1 /\ DOMAIN mid = 1 .. (Len(events) + 1)
          /\ Len(events) \in Nat /\ DOMAIN events = 1 .. Len(events)
          /\ \A i \in DOMAIN events : mid[i] = events[i]
          /\ mid[Len(events) + 1] = Added(new)
      BY <1>1, <2>1, AppendFacts
    <3>2. events' = Append(more, Modifiers(server.lock))
      BY <2>1
    <3> HIDE DEF mid
    <3>3. /\ more \in Seq(News) /\ Len(more) = Len(events) + 2 /\ DOMAIN more = 1 .. (Len(events) + 2)
          /\ \A i \in DOMAIN mid : more[i] = mid[i]
          /\ more[Len(events) + 2] = Resumed(new)
      BY <2>1, <3>1, AppendFacts
    <3> HIDE DEF more
    <3>4. /\ DOMAIN events' = 1 .. (Len(events) + 3)
          /\ \A i \in DOMAIN more : events'[i] = more[i]
          /\ events'[Len(events) + 3] = Modifiers(server.lock)
      BY <2>1, <3>2, <3>3, AppendFacts, <3>1
    <3>5. /\ \A i \in DOMAIN events : events'[i] = events[i]
          /\ events'[Len(events) + 1] = Added(new)
          /\ events'[Len(events) + 2] = Resumed(new)
          /\ events'[Len(events) + 3] = Modifiers(server.lock)
      BY <3>1, <3>3, <3>4
    <3>6. \A i \in DOMAIN events : events[i] \in News
      BY <1>1, ElementOfSeq, LenProperties
    <3>7. \A i \in DOMAIN events : Arrival(events[i]) \/ events[i].type = "removed" =>
            events[i].keyboard < new
      <4> TAKE i \in DOMAIN events
      <4> HAVE Arrival(events[i]) \/ events[i].type = "removed"
      <4>1. events[i].keyboard \in Nat
        BY <3>6, NewsFacts, InputAssumption DEF Arrival
      <4> QED BY <2>2, <4>1 DEF Keyboards, NewsInOrder
    <3>8. /\ Added(new).type = "added" /\ Added(new).keyboard = new
          /\ Resumed(new).type = "resumed" /\ Resumed(new).keyboard = new
          /\ Modifiers(server.lock).type = "modifiers"
      BY DEF Added, Resumed, Modifiers
    <3>9. ASSUME NEW i \in DOMAIN events'
          PROVE  /\ events'[i].type = "removed" => /\ events'[i].keyboard <= new
                                                   /\ events'[i].keyboard # new
                 /\ Arrival(events'[i]) =>
                      /\ events'[i].keyboard <= new
                      /\ \A j \in 1 .. (i - 1) : Arrival(events'[j]) => Precedes(events'[j], events'[i])
      <4>1. CASE i \in DOMAIN events
        <5>1. \A j \in 1 .. (i - 1) : j \in DOMAIN events
          BY <3>1, <4>1
        <5>2. events[i].type = "removed" \/ Arrival(events[i]) =>
                events[i].keyboard <= new /\ events[i].keyboard # new
          <6> HAVE events[i].type = "removed" \/ Arrival(events[i])
          <6>1. events[i].keyboard \in Nat
            BY <3>6, <4>1, NewsFacts, InputAssumption DEF Arrival
          <6> QED BY <2>2, <3>7, <4>1, <6>1
        <5>3. \A j \in 1 .. (i - 1) : Arrival(events[i]) /\ Arrival(events[j]) => Precedes(events[j], events[i])
          BY <1>1, <4>1 DEF NewsInOrder
        <5> QED BY <3>5, <4>1, <5>1, <5>2, <5>3
      <4>2. CASE i = Len(events) + 1  BY <3>1, <4>2, <3>5, <3>8, <3>7, <2>2 DEF Precedes
      <4>3. CASE i = Len(events) + 2  BY <3>1, <4>3, <3>5, <3>8, <3>7, <2>2 DEF Precedes
      <4>4. CASE i = Len(events) + 3
        BY <3>5, <3>8, <4>4 DEF Arrival
      <4> QED BY <3>1, <3>4, <4>1, <4>2, <4>3, <4>4
    <3>10. \A i \in DOMAIN events' :
             /\ events'[i].type = "removed" => events'[i].keyboard <= server'.plugs
                                               /\ events'[i].keyboard # server'.keyboard
             /\ Arrival(events'[i]) =>
                  /\ events'[i].keyboard <= server'.plugs /\ ~Settled'
                  /\ \A j \in 1 .. (i - 1) : Arrival(events'[j]) => Precedes(events'[j], events'[i])
      BY <2>1, <2>6, <3>9
    <3> QED BY <3>10 DEF NewsInOrder, Arrival, Precedes
  <2> QED BY <2>1, <2>2, <2>3, <2>4, <2>5, <2>7 DEF Keyboards
<1>21. CASE K!ServerRemovesKeyboard
  <2> DEFINE kb == server.keyboard
             e == Removed(kb)
  <2>1. /\ kb \in 1 .. MaxPlugs
        /\ server'.keyboard = K!None /\ server'.plugs = server.plugs /\ server'.down = {}
        /\ e \in News /\ events' = Append(events, e)
        /\ UNCHANGED <<main, ses, sent>>
    BY <1>21, ServerRemovesKeyboardDoes
  <2>2. kb = server.plugs /\ kb \in Nat /\ kb # K!None
    BY <2>1, InputAssumption DEF Keyboards, K!None
  <2>3. e.type = "removed" /\ e.keyboard = kb
    BY DEF Removed
  <2> HIDE DEF e, kb
  <2>4. ~Settled'
    BY <2>1 DEF Settled
  <2>5. \A i \in DOMAIN sent : sent[i].type = "key" => sent[i].keyboard # K!None
    <3> TAKE i \in DOMAIN sent
    <3> HAVE sent[i].type = "key"
    <3>1. sent[i].keyboard \in 1 .. MaxPlugs
      BY <1>1, MessageFacts, ElementOfSeq, LenProperties
    <3> QED BY <3>1, InputAssumption DEF K!None
  <2>6. ~KeysThere'
    BY <2>1, <2>5 DEF KeysThere, Current
  <2>7. NewsInOrder'
    <3>1. \A i \in DOMAIN events : events[i] \in News
      BY <1>1, ElementOfSeq, LenProperties
    <3>2. \A i \in DOMAIN events : events[i].type = "removed" => events[i].keyboard # K!None
      BY <3>1, NewsFacts, InputAssumption DEF K!None
    <3>3. /\ DOMAIN events' = DOMAIN events \cup {Len(events) + 1} /\ Len(events) + 1 \notin DOMAIN events
          /\ \A i \in DOMAIN events : events'[i] = events[i]
          /\ events'[Len(events) + 1] = e /\ DOMAIN events = 1 .. Len(events) /\ Len(events) \in Nat
      BY <1>1, <2>1, AppendFacts
    <3>4. ASSUME NEW i \in DOMAIN events'
          PROVE  /\ events'[i].type = "removed" => /\ events'[i].keyboard <= server.plugs
                                                   /\ events'[i].keyboard # K!None
                 /\ Arrival(events'[i]) =>
                      /\ events'[i].keyboard <= server.plugs
                      /\ \A j \in 1 .. (i - 1) : Arrival(events'[j]) => Precedes(events'[j], events'[i])
      <4>1. CASE i \in DOMAIN events
        <5>1. \A j \in 1 .. (i - 1) : j \in DOMAIN events
          BY <3>3, <4>1
        <5>2. \A j \in 1 .. (i - 1) : Arrival(events[i]) /\ Arrival(events[j]) => Precedes(events[j], events[i])
          BY <1>1, <4>1 DEF NewsInOrder
        <5>3. /\ events[i].type = "removed" => events[i].keyboard <= server.plugs
              /\ Arrival(events[i]) => events[i].keyboard <= server.plugs
          BY <1>1, <4>1 DEF NewsInOrder
        <5> QED BY <3>2, <3>3, <4>1, <5>1, <5>2, <5>3
      <4>2. CASE i = Len(events) + 1
        BY <2>2, <2>3, <3>3, <4>2 DEF Arrival
      <4> QED BY <3>3, <4>1, <4>2
    <3> QED BY <2>1, <2>4, <3>4 DEF NewsInOrder, Arrival, Precedes
  <2> QED BY <2>1, <2>6, <2>7 DEF Keyboards
<1> QED BY StepCases, <1>4, <1>5, <1>6, <1>7, <1>8, <1>9, <1>10, <1>11, <1>12, <1>13, <1>14, <1>15,
           <1>16, <1>17, <1>18, <1>19, <1>20, <1>21

-----------------------------------------------------------------------------
(* Pings and pongs. *)

\* The ping of a synchronization is asked or answered.
LEMMA OutstandingIs ==
  ASSUME Typed, NEW n
  PROVE  K!Outstanding(n) <=> Asked(n) \/ Answered(n)
BY LenProperties DEF Typed, TypedWire, K!Outstanding, K!Contains, Asked, Answered

\* The same after a step.
LEMMA OutstandingIsPrime ==
  ASSUME Typed', NEW n
  PROVE  K!Outstanding(n)' <=> Asked(n)' \/ Answered(n)'
<1>1. DOMAIN sent' = 1 .. Len(sent') /\ DOMAIN events' = 1 .. Len(events')
  BY LenProperties DEF Typed, TypedWire
<1> QED BY <1>1 DEF K!Outstanding, K!Contains, Asked, Answered

\* What is appended or taken changes what is under way.
LEMMA AskedAfter ==
  ASSUME Typed, NEW n
  PROVE  /\ UNCHANGED sent => (Asked(n)' <=> Asked(n))
         /\ \A msg \in Message : sent' = Append(sent, msg) => (Asked(n)' <=> Asked(n) \/ msg = K!Ping(n))
         /\ sent # <<>> /\ sent' = Tail(sent) => /\ Asked(n)' => Asked(n)
                                                 /\ Asked(n) => Asked(n)' \/ Head(sent) = K!Ping(n)
<1>1. sent \in Seq(Message)
  BY DEF Typed, TypedWire
<1>2. ASSUME NEW msg \in Message, sent' = Append(sent, msg)
      PROVE  Asked(n)' <=> Asked(n) \/ msg = K!Ping(n)
  BY <1>1, <1>2, AppendFacts DEF Asked
<1>3. ASSUME sent # <<>>, sent' = Tail(sent)
      PROVE  /\ Asked(n)' => Asked(n)
             /\ Asked(n) => Asked(n)' \/ Head(sent) = K!Ping(n)
  <2> DEFINE e == K!Ping(n)
             t == Tail(sent)
  <2> HIDE DEF e, t
  <2>1. /\ Head(sent) = sent[1]
        /\ \A i \in DOMAIN t : i + 1 \in DOMAIN sent /\ t[i] = sent[i + 1]
        /\ \A i \in DOMAIN sent : i # 1 => i - 1 \in DOMAIN t /\ sent[i] = t[i - 1]
    BY <1>1, <1>3, TailFacts DEF t
  <2>2. (\E i \in DOMAIN t : t[i] = e) => (\E i \in DOMAIN sent : sent[i] = e)
    BY <2>1
  <2>3. (\E i \in DOMAIN sent : sent[i] = e) => (\E i \in DOMAIN t : t[i] = e) \/ Head(sent) = e
    BY <2>1
  <2>4. sent' = t
    BY <1>3 DEF t
  <2> QED BY <2>2, <2>3, <2>4 DEF Asked, e
<1> QED BY <1>2, <1>3 DEF Asked

\* Which answers are under way after a step.
LEMMA AnsweredAfter ==
  ASSUME Typed, NEW n
  PROVE  /\ UNCHANGED events => (Answered(n)' <=> Answered(n))
         /\ \A e \in News : events' = Append(events, e) => (Answered(n)' <=> Answered(n) \/ e = K!Pong(n))
         /\ events # <<>> /\ events' = Tail(events) => /\ Answered(n)' => Answered(n)
                                                       /\ Answered(n) => Answered(n)' \/ Head(events) = K!Pong(n)
<1>1. events \in Seq(News)
  BY DEF Typed, TypedWire
<1>2. ASSUME NEW e \in News, events' = Append(events, e)
      PROVE  Answered(n)' <=> Answered(n) \/ e = K!Pong(n)
  BY <1>1, <1>2, AppendFacts DEF Answered
<1>3. ASSUME events # <<>>, events' = Tail(events)
      PROVE  /\ Answered(n)' => Answered(n)
             /\ Answered(n) => Answered(n)' \/ Head(events) = K!Pong(n)
  <2> DEFINE e == K!Pong(n)
             t == Tail(events)
  <2> HIDE DEF e, t
  <2>1. /\ Head(events) = events[1]
        /\ \A i \in DOMAIN t : i + 1 \in DOMAIN events /\ t[i] = events[i + 1]
        /\ \A i \in DOMAIN events : i # 1 => i - 1 \in DOMAIN t /\ events[i] = t[i - 1]
    BY <1>1, <1>3, TailFacts DEF t
  <2>2. (\E i \in DOMAIN t : t[i] = e) => (\E i \in DOMAIN events : events[i] = e)
    BY <2>1
  <2>3. (\E i \in DOMAIN events : events[i] = e) => (\E i \in DOMAIN t : t[i] = e) \/ Head(events) = e
    BY <2>1
  <2>4. events' = t
    BY <1>3 DEF t
  <2> QED BY <2>2, <2>3, <2>4 DEF Answered, e
<1> QED BY <1>2, <1>3 DEF Answered

\* Numbers that do not occur are not under way.
LEMMA NotUnderWay ==
  ASSUME Pings, NEW n, n \notin 1 .. sync.last
  PROVE  ~Asked(n) /\ ~Answered(n)
BY DEF K!Ping, K!Pong, Pings, Asked, Answered

\* Nothing is asked or answered.
LEMMA PingsKeep ==
  ASSUME Typed, Pings, NEW d \in Nat, NEW e \in Nat,
         \A i \in DOMAIN sent' : sent'[i].type = "ping" => i + d \in DOMAIN sent /\ sent'[i] = sent[i + d],
         \A i \in DOMAIN events' : events'[i].type = "pong" => i + e \in DOMAIN events /\ events'[i] = events[i + e],
         DOMAIN sent' \subseteq Nat, DOMAIN events' \subseteq Nat,
         sync'.pending = sync.pending, sync'.last = sync.last, sync'.cancelled = sync.cancelled,
         ~sync'.excused => ~sync.excused
  PROVE  Pings'
<1>1. \A n : K!Ping(n).type = "ping" /\ K!Pong(n).type = "pong"
  BY DEF K!Ping, K!Pong
<1>2. /\ \A i \in DOMAIN sent' : sent'[i].type = "ping" => sent'[i].sync \in 1 .. sync'.last
      /\ \A i \in DOMAIN events' : events'[i].type = "pong" => events'[i].sync \in 1 .. sync'.last
  BY DEF Pings
<1>3. ASSUME ~sync'.excused
      PROVE  Accounted'
  <2>1. Accounted
    BY <1>3 DEF Pings
  <2>2. /\ \A i \in DOMAIN sent' : sent'[i].type = "ping" => sent'[i].sync \in sync'.cancelled \cup {sync'.pending}
        /\ \A i \in DOMAIN events' : events'[i].type = "pong" => events'[i].sync \in sync'.cancelled \cup {sync'.pending}
    BY <2>1 DEF Accounted
  <2> DEFINE ping == K!Ping(sync.pending)
             pong == K!Pong(sync.pending)
  <2>3. ping.type = "ping" /\ pong.type = "pong"
    BY <1>1
  <2>4. /\ \A i, j \in DOMAIN sent : sent[i] = ping /\ sent[j] = ping => i = j
        /\ \A i, j \in DOMAIN events : events[i] = pong /\ events[j] = pong => i = j
        /\ ~(\E i \in DOMAIN sent : sent[i] = ping) \/ ~(\E i \in DOMAIN events : events[i] = pong)
    BY <2>1 DEF Accounted, Asked, Answered
  <2>5. K!Ping(sync'.pending) = ping /\ K!Pong(sync'.pending) = pong
    OBVIOUS
  <2> HIDE DEF ping, pong
  <2>6. ASSUME NEW i \in DOMAIN sent', NEW j \in DOMAIN sent', sent'[i] = ping, sent'[j] = ping
        PROVE  i = j
    BY <2>3, <2>6, <2>4
  <2>7. ASSUME NEW i \in DOMAIN events', NEW j \in DOMAIN events', events'[i] = pong, events'[j] = pong
        PROVE  i = j
    BY <2>3, <2>7, <2>4
  <2>8. (\E i \in DOMAIN sent' : sent'[i] = ping) => (\E i \in DOMAIN sent : sent[i] = ping)
    BY <2>3
  <2>9. (\E i \in DOMAIN events' : events'[i] = pong) => (\E i \in DOMAIN events : events[i] = pong)
    BY <2>3
  <2> QED BY <2>2, <2>4, <2>5, <2>6, <2>7, <2>8, <2>9 DEF Accounted, Asked, Answered
<1> QED BY <1>2, <1>3 DEF Pings

\* Where the messages and the news of a step come from.
LEMMA Shifts ==
  ASSUME NEW S, NEW s \in Seq(S)
  PROVE  /\ DOMAIN s = 1 .. Len(s) /\ Len(s) \in Nat /\ DOMAIN s \subseteq Nat
         /\ \A i \in DOMAIN s : s[i] \in S /\ i + 0 = i
         /\ s # <<>> => /\ s[1] = Head(s) /\ 1 \in DOMAIN s
                        /\ \A i \in DOMAIN Tail(s) : i + 1 \in DOMAIN s /\ Tail(s)[i] = s[i + 1] /\ i + 1 # 1
         /\ \A e \in S : /\ DOMAIN Append(s, e) = DOMAIN s \cup {Len(s) + 1}
                         /\ Append(s, e)[Len(s) + 1] = e
                         /\ \A i \in DOMAIN s : Append(s, e)[i] = s[i]
BY LenProperties, ElementOfSeq, TailFacts, AppendFacts

\* A sequence that got elements of another type only.
LEMMA OthersAppended ==
  ASSUME NEW S, NEW s \in Seq(S), NEW e \in S, NEW type, e.type # type
  PROVE  \A i \in DOMAIN Append(s, e) : Append(s, e)[i].type = type => i + 0 \in DOMAIN s /\ Append(s, e)[i] = s[i + 0]
BY Shifts

\* The ping is sent once more.
LEMMA PingsReping ==
  ASSUME Typed, Pings, Repings,
         events' = events \/ (events # <<>> /\ events' = Tail(events))
  PROVE  Pings'
<1> DEFINE p == sync.pending
           e == K!Ping(p)
<1>1. /\ sent \in Seq(Message) /\ events \in Seq(News)
      /\ p \in {K!None, sync.last} /\ p \in Nat /\ p # K!None /\ sync.last \in Nat
  BY DEF Typed, TypedWire, TypedSession, SyncType, Repings
<1>2. p \in 1 .. sync.last
  BY <1>1 DEF K!None
<1>3. /\ sent' = Append(sent, e)
      /\ sync'.pending = p /\ sync'.last = sync.last /\ sync'.cancelled = sync.cancelled
      /\ ~sync'.excused => sync' = sync /\ ~K!Outstanding(p)
  BY DEF Repings
<1>4. e \in Message /\ e.type = "ping" /\ e.sync = p
  BY <1>1, PingType
<1>5. ~K!Outstanding(p) => ~Asked(p) /\ ~Answered(p)
  BY <1>1, OutstandingIs
<1>6. K!Ping(sync'.pending) = e
  BY <1>3
<1> HIDE DEF e
<1>7. \A i \in DOMAIN sent' : (i \in DOMAIN sent /\ sent'[i] = sent[i]) \/ (i = Len(sent) + 1 /\ sent'[i] = e)
  BY <1>1, <1>3, <1>4, Shifts
<1>8. \A i \in DOMAIN events' : \E j \in DOMAIN events : events'[i] = events[j]
  BY <1>1, Shifts
<1>9. /\ \A i \in DOMAIN sent' : sent'[i].type = "ping" => sent'[i].sync \in 1 .. sync'.last
      /\ \A i \in DOMAIN events' : events'[i].type = "pong" => events'[i].sync \in 1 .. sync'.last
  BY <1>2, <1>3, <1>4, <1>7, <1>8 DEF Pings
<1>10. sync'.pending \notin sync'.cancelled
  BY <1>3 DEF Pings
<1>11. ASSUME ~sync'.excused
       PROVE  Accounted'
  BY <1>3, <1>5, <1>11, <1>4, <1>7, <1>8, <1>6 DEF Pings, Accounted, Asked, e, Answered
<1> QED BY <1>9, <1>10, <1>11 DEF Pings

\* A synchronization has a number of its own.
LEMMA PingsSync ==
  ASSUME Typed, Pings, K!ProcessSync
  PROVE  Pings'
<1> DEFINE p == sync.last + 1
           e == K!Ping(p)
<1>1. /\ sent \in Seq(Message) /\ events \in Seq(News) /\ sync.last \in Nat
      /\ sync.cancelled \subseteq 1 .. sync.last
  BY DEF Typed, TypedWire, TypedSession, SyncType
<1>2. p \in Nat /\ p \in 1 .. p /\ p \notin 1 .. sync.last /\ \A n \in 1 .. sync.last : n \in 1 .. p /\ n # K!None
  BY <1>1 DEF K!None
<1>3. /\ sync'.pending = p /\ sync'.last = p
      /\ sync'.cancelled = (IF sync.pending = K!None THEN sync.cancelled
                            ELSE sync.cancelled \cup {sync.pending})
      /\ sync'.cancelled \subseteq 1 .. sync.last
      /\ ~sync'.excused => ~sync.excused
      /\ sent' = sent \/ sent' = Append(sent, e)
      /\ events' = events
  BY ProcessSyncDoes
<1>4. e \in Message /\ e.type = "ping" /\ e.sync = p
  BY <1>2, PingType
<1>5. ~Asked(p) /\ ~Answered(p)
  BY <1>2, NotUnderWay
<1>6. K!Ping(sync'.pending) = e
  BY <1>3
<1> HIDE DEF e, p
<1>7. \A i \in DOMAIN sent' : (i \in DOMAIN sent /\ sent'[i] = sent[i]) \/ (i = Len(sent) + 1 /\ sent'[i] = e)
  BY <1>1, <1>3, <1>4, Shifts
<1>8. /\ \A i \in DOMAIN sent' : sent'[i].type = "ping" => sent'[i].sync \in 1 .. sync'.last
      /\ \A i \in DOMAIN events' : events'[i].type = "pong" => events'[i].sync \in 1 .. sync'.last
  BY <1>2, <1>3, <1>4, <1>7 DEF Pings
<1>9. sync'.pending \notin sync'.cancelled
  BY <1>2, <1>3
<1>10. ASSUME ~sync'.excused
       PROVE  Accounted'
  BY <1>3, <1>10, <1>2, <1>4, <1>7, <1>5, <1>6 DEF Pings, Accounted, Asked, e, Answered
<1> QED BY <1>8, <1>9, <1>10 DEF Pings

\* The answer to the pending synchronization is the only one that is under way.
LEMMA PongIsLast ==
  ASSUME Typed, Pings, ~sync.excused, events # <<>>, NEW n \in Nat, Head(events) = K!Pong(n),
         n \notin sync.cancelled
  PROVE  /\ n = sync.pending /\ n # K!None
         /\ \A i \in DOMAIN sent : sent[i].type = "ping" => sent[i].sync \in sync.cancelled
         /\ \A i \in DOMAIN Tail(events) : Tail(events)[i].type = "pong" => Tail(events)[i].sync \in sync.cancelled
<1>1. /\ sent \in Seq(Message) /\ events \in Seq(News)
  BY DEF Typed, TypedWire
<1>2. Accounted
  BY DEF Pings
<1>3. /\ 1 \in DOMAIN events /\ events[1] = K!Pong(n)
      /\ \A i \in DOMAIN Tail(events) : i + 1 \in DOMAIN events /\ Tail(events)[i] = events[i + 1] /\ i + 1 # 1
  BY <1>1, Shifts
<1>4. K!Pong(n).type = "pong" /\ K!Pong(n).sync = n
  BY PingType
<1>5. n = sync.pending /\ n # K!None
  BY <1>2, <1>3, <1>4 DEF Accounted, Pings, K!None
<1>6. Answered(sync.pending)
  BY <1>3, <1>5 DEF Answered
<1>7. ASSUME NEW i \in DOMAIN sent, sent[i].type = "ping"
      PROVE  sent[i].sync \in sync.cancelled
  BY <1>1, <1>7, Shifts, MessageFacts, <1>2, <1>6 DEF Accounted, Asked
<1>8. ASSUME NEW i \in DOMAIN Tail(events), Tail(events)[i].type = "pong"
      PROVE  Tail(events)[i].sync \in sync.cancelled
  BY <1>3, <1>1, <1>8, Shifts, NewsFacts, <1>2, <1>5 DEF Accounted
<1> QED BY <1>5, <1>7, <1>8

\* An answer is received; the pending one is completed.
LEMMA PingsPong ==
  ASSUME Typed, Pings, K!PongReceived
  PROVE  Pings'
<1> DEFINE n == Head(events).sync
<1>1. /\ sent \in Seq(Message) /\ events \in Seq(News) /\ sync.cancelled \subseteq 1 .. sync.last
      /\ sync.last \in Nat
  BY DEF Typed, TypedWire, TypedSession, SyncType
<1>2. /\ events # <<>> /\ events' = Tail(events) /\ events' \in Seq(News)
  BY ReceiveDoes DEF K!PongReceived
<1>3. /\ n \in Nat /\ Head(events) = K!Pong(n) /\ sent' \in Seq(Message)
      /\ sync'.last = sync.last /\ sync'.cancelled = sync.cancelled
      /\ ~sync'.excused => ~sync.excused
      /\ n \in sync.cancelled => UNCHANGED <<sync, sent>>
      /\ n \notin sync.cancelled =>
           /\ sync'.pending = K!None
           /\ IF (sync.expected # sync.reported) /\ K!HasKeyboard
              THEN sent' = Append(Append(sent, LockPress), LockRelease) ELSE sent' = sent
  BY PongReceivedDoes
<1> HIDE DEF n
<1>4. DOMAIN sent' \subseteq Nat /\ DOMAIN events' \subseteq Nat
      /\ \A i \in DOMAIN events' : i + 1 \in DOMAIN events /\ events'[i] = events[i + 1]
  BY <1>1, <1>2, <1>3, Shifts
<1>5. CASE n \in sync.cancelled
  <2>1. sent' = sent /\ sync' = sync
    BY <1>3, <1>5
  <2>2. \A i \in DOMAIN sent' : i + 0 \in DOMAIN sent /\ sent'[i] = sent[i + 0]
    BY <2>1, <1>1, Shifts
  <2> QED BY <1>4, <2>1, <2>2, PingsKeep
<1>6. CASE n \notin sync.cancelled
  <2>1. \A i \in DOMAIN sent' : sent'[i].type = "ping" => i \in DOMAIN sent /\ sent'[i] = sent[i]
    <3>1. CASE sent' = sent
      BY <3>1
    <3>2. CASE K!HasKeyboard /\ sent' = Append(Append(sent, LockPress), LockRelease)
      <4>1. /\ LockPress \in Message /\ LockPress.type = "key"
            /\ LockRelease \in Message /\ LockRelease.type = "key"
        BY <3>2, KeySentType, InputAssumption DEF LockPress, LockRelease, K!AnyKey
      <4>2. \A i \in DOMAIN Append(sent, LockPress) :
              Append(sent, LockPress)[i].type = "ping" => i \in DOMAIN sent /\ Append(sent, LockPress)[i] = sent[i]
        BY <1>1, <4>1, Shifts
      <4>3. Append(sent, LockPress) \in Seq(Message)
        BY <1>1, <4>1, AppendFacts
      <4>4. \A i \in DOMAIN sent' : sent'[i].type = "ping" =>
              i \in DOMAIN Append(sent, LockPress) /\ sent'[i] = Append(sent, LockPress)[i]
        BY <3>2, <4>1, <4>3, Shifts
      <4> QED BY <4>2, <4>4
    <3> QED BY <1>3, <1>6, <3>1, <3>2
  <2>2. /\ \A i \in DOMAIN sent' : sent'[i].type = "ping" => sent'[i].sync \in 1 .. sync'.last
        /\ \A i \in DOMAIN events' : events'[i].type = "pong" => events'[i].sync \in 1 .. sync'.last
    BY <1>3, <1>4, <2>1 DEF Pings
  <2>3. sync'.pending \notin sync'.cancelled
    BY <1>1, <1>3, <1>6 DEF K!None
  <2>4. ASSUME ~sync'.excused
        PROVE  Accounted'
    <3>1. /\ \A i \in DOMAIN sent' : sent'[i].type = "ping" => sent'[i].sync \in sync'.cancelled
          /\ \A i \in DOMAIN events' : events'[i].type = "pong" => events'[i].sync \in sync'.cancelled
      BY <1>2, <1>3, <1>6, <2>4, PongIsLast, <2>1
    <3>2. sync'.pending = K!None /\ K!None \notin sync'.cancelled
      BY <1>3, <1>6, <2>3
    <3>3. /\ K!Ping(K!None).type = "ping" /\ K!Ping(K!None).sync = K!None
          /\ K!Pong(K!None).type = "pong" /\ K!Pong(K!None).sync = K!None
      BY PingType DEF K!None
    <3>4. /\ \A i \in DOMAIN sent' : sent'[i] # K!Ping(sync'.pending)
          /\ \A i \in DOMAIN events' : events'[i] # K!Pong(sync'.pending)
      BY <3>1, <3>2, <3>3
    <3> QED BY <3>1, <3>4 DEF Accounted, Asked
  <2> QED BY <2>2, <2>3, <2>4 DEF Pings
<1> QED BY <1>5, <1>6

\* A ping becomes a pong.
LEMMA PingsAnswer ==
  ASSUME Typed, Pings, K!ServerAnswersPing
  PROVE  Pings'
<1> DEFINE n == Head(sent).sync
           e == K!Pong(n)
<1>1. /\ sent \in Seq(Message) /\ events \in Seq(News)
  BY DEF Typed, TypedWire
<1>2. /\ sent # <<>> /\ Head(sent) = K!Ping(n) /\ n \in Nat
      /\ sent' = Tail(sent) /\ events' = Append(events, e) /\ e \in News
      /\ UNCHANGED sync
  BY ServerAnswersPingDoes
<1>3. e.type = "pong" /\ e.sync = n /\ K!Ping(n).type = "ping" /\ K!Ping(n).sync = n
  BY <1>2, PingType
<1>4. n = sync.pending <=> e = K!Pong(sync.pending)
  BY <1>3 DEF K!Pong
<1>5. n = sync.pending => Head(sent) = K!Ping(sync.pending)
  BY <1>2
<1> HIDE DEF e, n
<1>6. /\ 1 \in DOMAIN sent /\ sent[1] = Head(sent)
      /\ \A i \in DOMAIN sent' : i \in Nat /\ i + 1 \in DOMAIN sent /\ sent'[i] = sent[i + 1] /\ i + 1 # 1
  BY <1>1, <1>2, TailFacts
<1>7. \A i \in DOMAIN events' : (i \in DOMAIN events /\ events'[i] = events[i]) \/ (i = Len(events) + 1 /\ events'[i] = e)
  BY <1>1, <1>2, Shifts
<1>8. /\ \A i \in DOMAIN sent' : sent'[i].type = "ping" => sent'[i].sync \in 1 .. sync'.last
      /\ \A i \in DOMAIN events' : events'[i].type = "pong" => events'[i].sync \in 1 .. sync'.last
  BY <1>2, <1>3, <1>6, <1>7 DEF Pings
<1>9. sync'.pending \notin sync'.cancelled
  BY <1>2 DEF Pings
<1>10. ASSUME ~sync.excused
       PROVE  Accounted'
  <2>1. Accounted
    BY <1>10 DEF Pings
  <2> DEFINE ping == K!Ping(sync.pending)
             pong == K!Pong(sync.pending)
  <2>2. /\ \A i, j \in DOMAIN sent : sent[i] = ping /\ sent[j] = ping => i = j
        /\ \A i, j \in DOMAIN events : events[i] = pong /\ events[j] = pong => i = j
        /\ ~((\E i \in DOMAIN sent : sent[i] = ping) /\ (\E i \in DOMAIN events : events[i] = pong))
    BY <2>1 DEF Accounted, Asked, Answered
  <2>3. K!Ping(sync'.pending) = ping /\ K!Pong(sync'.pending) = pong
    BY <1>2
  <2>4. n = sync.pending <=> e = pong
    BY <1>4
  <2>5. n = sync.pending => sent[1] = ping
    BY <1>5, <1>6
  <2> HIDE DEF ping, pong
  <2>6. ASSUME NEW i \in DOMAIN sent', NEW j \in DOMAIN sent', sent'[i] = ping, sent'[j] = ping
        PROVE  i = j
    BY <2>2, <2>6, <1>6
  <2>7. ASSUME NEW i \in DOMAIN events', NEW j \in DOMAIN events', events'[i] = pong, events'[j] = pong
        PROVE  i = j
    BY <2>2, <2>4, <2>5, <2>7, <1>6, <1>7
  <2>8. ~((\E i \in DOMAIN sent' : sent'[i] = ping) /\ (\E i \in DOMAIN events' : events'[i] = pong))
    BY <2>2, <2>4, <2>5, <1>6, <1>7
  <2>9. /\ \A i \in DOMAIN sent' : sent'[i].type = "ping" => sent'[i].sync \in sync'.cancelled \cup {sync'.pending}
        /\ \A i \in DOMAIN events' : events'[i].type = "pong" => events'[i].sync \in sync'.cancelled \cup {sync'.pending}
    BY <2>1, <1>2, <1>3, <1>6, <1>7 DEF Accounted
  <2> QED BY <2>3, <2>6, <2>7, <2>8, <2>9 DEF Accounted, Asked, Answered
<1> QED BY <1>2, <1>8, <1>9, <1>10 DEF Pings

\* Steps that leave the wire and the synchronization alone.
Quiet ==
  \/ K!PduIgnored \/ K!WakeSource \/ K!ClientGone \/ K!SocketExits
  \/ K!SynchronizeEvent \/ (\E k \in Key, down \in BOOLEAN : K!KeyboardEvent(k, down)) \/ K!QueueEvent
  \/ K!FlushDispatch \/ K!StopSession \/ K!ViewOnlyChanged
  \/ K!UnlockQueue \/ K!ReleaseKeys

\* What quiet steps leave alone.
LEMMA QuietSteps ==
  ASSUME Typed, Flow, Quiet
  PROVE  /\ UNCHANGED <<sync, sent, events, server>>
         /\ ses'.ready = ses.ready /\ ses'.started = ses.started
         /\ ses'.keyboard = ses.keyboard /\ ses'.emulating = ses.emulating
         /\ main' # "stopped" => main # "stopped" /\ ses'.ei = ses.ei
         /\ queue' # <<>> /\ main' = "loop" =>
              \/ client'.wakes \/ armed'
              \/ queue # <<>> /\ main = "loop" /\ ~armed /\ ~client.wakes
<1>1. CASE K!PduIgnored \/ K!WakeSource \/ K!ClientGone \/ K!SocketExits
  <2>1. /\ ~client'.wakes => ~client.wakes \/ armed'
        /\ armed => armed'
        /\ UNCHANGED <<table, queue, main, sync, ses, sent, events, server>>
    BY <1>1, SocketSteps
  <2> QED BY ONLY <2>1
<1>2. CASE K!SynchronizeEvent
  <2>1. client'.wakes = client.wakes /\ UNCHANGED <<flags, queue, armed, main, sync, ses, sent, events, server>>
    BY <1>2, SynchronizeEventDoes
  <2> QED BY ONLY <2>1
<1>3. ASSUME NEW k \in Key, NEW down \in BOOLEAN, K!KeyboardEvent(k, down)
      PROVE  client'.wakes = client.wakes /\ UNCHANGED <<flags, queue, armed, main, sync, ses, sent, events, server>>
  BY <1>3, KeyboardEventDoes
<1>4. CASE K!QueueEvent
  <2>1. client'.wakes /\ UNCHANGED <<flags, table, armed, main, sync, ses, sent, events, server>>
    BY <1>4, QueueEventDoes
  <2> QED BY ONLY <2>1
<1>5. CASE K!FlushDispatch \/ K!StopSession \/ K!ViewOnlyChanged
  <2>1. /\ main = "loop" /\ main' \in {"loop", "drain", "join"}
        /\ main' = "loop" => armed' = armed
        /\ UNCHANGED <<client, table, queue, sync, ses, sent, events, server>>
    BY <1>5, MainSteps
  <2> QED BY ONLY <2>1
<1>6. CASE K!UnlockQueue
  <2>1. /\ main \in {"drain", "drain_last"} /\ queue = <<>>
        /\ main' = IF main = "drain" THEN "loop" ELSE "stopped"
        /\ ses' \in SesType /\ ses'.ready = ses.ready /\ ses'.started = ses.started
        /\ ses'.keyboard = ses.keyboard /\ ses'.emulating = ses.emulating
        /\ main = "drain" => ses'.ei = ses.ei
        /\ UNCHANGED <<client, flags, table, queue, armed, sync, sent, events, server>>
    BY <1>6, UnlockQueueDoes
  <2> QED BY ONLY <2>1
<1>7. CASE K!ReleaseKeys
  <2>1. /\ main = "join" /\ main' = "drain_last"
        /\ UNCHANGED <<client, flags, sync, ses, sent, events, server>>
    BY <1>7, ReleaseKeysDoes
  <2> QED BY ONLY <2>1
<1>8. CASE \E k \in Key, down \in BOOLEAN : K!KeyboardEvent(k, down)
  <2>1. client'.wakes = client.wakes /\ UNCHANGED <<flags, queue, armed, main, sync, ses, sent, events, server>>
    BY <1>3, <1>8
  <2> QED BY ONLY <2>1
<1> QED BY <1>1, <1>2, <1>4, <1>5, <1>6, <1>7, <1>8 DEF Quiet

\* The steps of the keyboard, the quiet ones together.
LEMMA NoisyCases ==
  ASSUME K!Next
  PROVE  \/ Quiet
         \/ K!ProcessKey \/ K!ProcessSync
         \/ K!Connected \/ K!StartAnswered \/ DeviceNews \/ K!KeyboardModifiers \/ K!PongReceived
         \/ K!SessionClosed
         \/ K!ServerAnswersPing \/ K!ServerTakesKey
         \/ K!ServerAddsKeyboard \/ K!ServerRemovesKeyboard
BY StepCases DEF Quiet

\* What the server tells of a keyboard that comes.
LEMMA KeyboardTold ==
  ASSUME Typed, K!ServerAddsKeyboard
  PROVE  LET new == server.plugs + 1
         IN  /\ Len(events) \in Nat /\ DOMAIN events = 1 .. Len(events)
             /\ Len(events') = Len(events) + 3 /\ DOMAIN events' = 1 .. (Len(events) + 3)
             /\ \A i \in DOMAIN events : i \in DOMAIN events' /\ events'[i] = events[i]
             /\ \A i \in DOMAIN events' : i \in DOMAIN events \/ i \in (Len(events) + 1) .. (Len(events) + 3)
             /\ events'[Len(events) + 1] = Added(new)
             /\ events'[Len(events) + 2] = Resumed(new)
             /\ events'[Len(events) + 3] = Modifiers(server.lock)
<1> DEFINE new == server.plugs + 1
           mid == Append(events, Added(new))
           more == Append(mid, Resumed(new))
<1>1. events \in Seq(News)
  BY DEF Typed, TypedWire
<1>2. /\ Added(new) \in News /\ Resumed(new) \in News /\ Modifiers(server.lock) \in News
      /\ events' = Append(more, Modifiers(server.lock))
  BY ServerAddsKeyboardDoes
<1>3. /\ mid \in Seq(News) /\ Len(events) \in Nat /\ DOMAIN events = 1 .. Len(events)
      /\ Len(mid) = Len(events) + 1 /\ DOMAIN mid = 1 .. (Len(events) + 1)
      /\ \A i \in DOMAIN events : mid[i] = events[i]
      /\ mid[Len(events) + 1] = Added(new)
  BY <1>1, <1>2, AppendFacts
<1> HIDE DEF mid
<1>4. /\ more \in Seq(News)
      /\ Len(more) = Len(mid) + 1 /\ DOMAIN more = 1 .. (Len(mid) + 1)
      /\ \A i \in DOMAIN mid : more[i] = mid[i]
      /\ more[Len(mid) + 1] = Resumed(new)
  BY <1>2, <1>3, AppendFacts
<1> HIDE DEF more
<1>5. /\ Len(events') = Len(more) + 1 /\ DOMAIN events' = 1 .. (Len(more) + 1)
      /\ \A i \in DOMAIN more : events'[i] = more[i]
      /\ events'[Len(more) + 1] = Modifiers(server.lock)
  BY <1>2, <1>4, AppendFacts
<1> HIDE DEF new
<1>6. Len(mid) = Len(events) + 1 /\ Len(more) = Len(events) + 2 /\ Len(events') = Len(events) + 3
  BY <1>3, <1>4, <1>5
<1>7. \A i \in DOMAIN events : i \in DOMAIN mid /\ i \in DOMAIN more /\ i \in DOMAIN events'
  BY <1>3, <1>4, <1>5, <1>6
<1>8. Len(events) + 1 \in DOMAIN mid /\ Len(events) + 1 \in DOMAIN more /\ Len(events) + 2 \in DOMAIN more
  BY <1>3, <1>4, <1>6
<1>9. \A i \in DOMAIN events : events'[i] = events[i]
  BY <1>3, <1>4, <1>5, <1>7
<1>10. /\ events'[Len(events) + 1] = Added(new)
       /\ events'[Len(events) + 2] = Resumed(new)
       /\ events'[Len(events) + 3] = Modifiers(server.lock)
  BY <1>3, <1>4, <1>5, <1>6, <1>8
<1>11. DOMAIN events' = 1 .. (Len(events) + 3)
  BY <1>3, <1>5, <1>6
<1>12. \A i \in DOMAIN events' : i \in DOMAIN events \/ i \in (Len(events) + 1) .. (Len(events) + 3)
  BY <1>3, <1>11
<1> QED BY <1>3, <1>6, <1>7, <1>9, <1>10, <1>11, <1>12 DEF new

\* The pings stay accounted for.
LEMMA PingsStep ==
  ASSUME Typed, Flow, Pings, K!Next
  PROVE  Pings'
<1>1. /\ sent \in Seq(Message) /\ events \in Seq(News)
  BY DEF Typed, TypedWire
<1>2. /\ \A i \in DOMAIN sent : i + 0 \in DOMAIN sent /\ sent[i + 0] = sent[i]
      /\ \A i \in DOMAIN events : i + 0 \in DOMAIN events /\ events[i + 0] = events[i]
      /\ DOMAIN sent \subseteq Nat /\ DOMAIN events \subseteq Nat
  BY <1>1, Shifts
<1>3. DOMAIN sent' \subseteq Nat /\ DOMAIN events' \subseteq Nat
  BY TypedStep, Shifts DEF Typed, TypedWire
<1>4. CASE Quiet  BY <1>4, QuietSteps DEF Pings, Accounted, Asked, Answered
<1>5. CASE K!ProcessKey
  <2> DEFINE e == K!KeySent(Head(queue).key, Head(queue).down)
  <2>1. /\ sent' = IF K!HasKeyboard THEN Append(sent, e) ELSE sent
        /\ events' = events
        /\ Head(queue).key \in K!AnyKey /\ Head(queue).down \in BOOLEAN
        /\ sync'.pending = sync.pending /\ sync'.last = sync.last /\ sync'.cancelled = sync.cancelled
        /\ ~sync'.excused => ~sync.excused
    BY <1>5, ProcessKeyDoes
  <2>2. K!HasKeyboard => e \in Message /\ e.type # "ping"
    BY <2>1, KeySentType
  <2> HIDE DEF e
  <2>3. \A i \in DOMAIN sent' : sent'[i].type = "ping" => i + 0 \in DOMAIN sent /\ sent'[i] = sent[i + 0]
    <3>1. sent' = sent \/ (e \in Message /\ e.type # "ping" /\ sent' = Append(sent, e))
      BY <2>1, <2>2
    <3>2. CASE sent' = sent
      BY <1>2, <3>2
    <3>3. ASSUME e \in Message, e.type # "ping", sent' = Append(sent, e)
          PROVE  \A i \in DOMAIN sent' : sent'[i].type = "ping" => i + 0 \in DOMAIN sent /\ sent'[i] = sent[i + 0]
      BY <1>1, <3>3, OthersAppended
    <3> QED BY <3>1, <3>2, <3>3
  <2>4. \A i \in DOMAIN events' : i + 0 \in DOMAIN events /\ events'[i] = events[i + 0]
    BY <1>2, <2>1
  <2>5. /\ sync'.pending = sync.pending /\ sync'.last = sync.last /\ sync'.cancelled = sync.cancelled
        /\ ~sync'.excused => ~sync.excused
    BY <2>1
  <2> QED BY ONLY <1>3, <2>3, <2>4, <2>5, Typed, Pings, PingsKeep
<1>6. CASE K!ProcessSync
  BY <1>6, PingsSync
<1>7. CASE K!Connected
  <2>1. /\ events # <<>> /\ events' = Tail(events)
        /\ Repings \/ UNCHANGED <<sync, sent>>
    BY <1>7, ConnectedDoes
  <2>2. \A i \in DOMAIN events' : i + 1 \in DOMAIN events /\ events'[i] = events[i + 1]
    BY <1>1, <2>1, Shifts
  <2>3. CASE UNCHANGED <<sync, sent>>
    BY <1>2, <1>3, <2>2, <2>3, PingsKeep
  <2> QED BY <2>1, <2>3, PingsReping
<1>8. CASE K!StartAnswered
  BY <1>8, StartAnsweredDoes, PingsReping DEF Pings, Accounted, Asked, Answered
<1>9. CASE DeviceNews \/ K!KeyboardModifiers
  <2>1. /\ events # <<>> /\ events' = Tail(events) /\ sent' = sent
        /\ sync'.pending = sync.pending /\ sync'.last = sync.last
        /\ sync'.cancelled = sync.cancelled /\ sync'.excused = sync.excused
    BY <1>9, DeviceNewsDoes, KeyboardModifiersDoes
  <2>2. \A i \in DOMAIN events' : i + 1 \in DOMAIN events /\ events'[i] = events[i + 1]
    BY <1>1, <2>1, Shifts
  <2> QED BY <1>2, <1>3, <2>1, <2>2, PingsKeep
<1>10. CASE K!PongReceived
  BY <1>10, PingsPong
<1>11. CASE K!SessionClosed  BY <1>11, SessionClosedDoes, <1>3, PingsKeep
<1>12. CASE K!ServerAnswersPing
  BY <1>12, PingsAnswer
<1>13. CASE K!ServerTakesKey
  <2>1. /\ sent # <<>> /\ sent' = Tail(sent)
        /\ events' = events \/ events' = Append(events, Modifiers(server'.lock))
        /\ server'.lock \in BOOLEAN
        /\ sync'.pending = sync.pending /\ sync'.last = sync.last
        /\ sync'.cancelled = sync.cancelled /\ (~sync'.excused => ~sync.excused)
    BY <1>13, ServerTakesKeyDoes DEF Modifiers, ServerType
  <2> DEFINE e == Modifiers(server'.lock)
  <2>2. e \in News /\ e.type # "pong"
    BY <2>1, NewsType DEF Modifiers
  <2> HIDE DEF e
  <2>3. \A i \in DOMAIN events' : events'[i].type = "pong" => i + 0 \in DOMAIN events /\ events'[i] = events[i + 0]
    <3>1. events' = events \/ events' = Append(events, e)
      BY <2>1 DEF e
    <3> QED BY <1>1, <1>2, <2>2, <3>1, OthersAppended
  <2>4. \A i \in DOMAIN sent' : i + 1 \in DOMAIN sent /\ sent'[i] = sent[i + 1]
    BY <1>1, <2>1, Shifts
  <2> QED BY <1>2, <1>3, <2>1, <2>3, <2>4, PingsKeep
<1>14. CASE K!ServerAddsKeyboard
  <2>1. UNCHANGED <<sent, sync>>
    BY <1>14, ServerAddsKeyboardDoes
  <2> DEFINE new == server.plugs + 1
  <2>2. /\ \A i \in DOMAIN events : events'[i] = events[i]
        /\ \A i \in DOMAIN events' : i \in DOMAIN events \/ i \in (Len(events) + 1) .. (Len(events) + 3)
        /\ events'[Len(events) + 1] = Added(new)
        /\ events'[Len(events) + 2] = Resumed(new)
        /\ events'[Len(events) + 3] = Modifiers(server.lock)
        /\ Len(events) \in Nat
    BY <1>14, KeyboardTold
  <2>3. Added(new).type # "pong" /\ Resumed(new).type # "pong" /\ Modifiers(server.lock).type # "pong"
    BY DEF Added, Resumed, Modifiers
  <2> HIDE DEF new
  <2>4. \A i \in (Len(events) + 1) .. (Len(events) + 3) : events'[i].type # "pong"  BY <2>2, <2>3
  <2>5. \A i \in DOMAIN events' : events'[i].type = "pong" => i + 0 \in DOMAIN events /\ events'[i] = events[i + 0]
    BY <1>2, <2>2, <2>4
  <2> QED BY <1>2, <1>3, <2>1, <2>5, PingsKeep
<1>15. CASE K!ServerRemovesKeyboard
  <2> DEFINE e == Removed(server.keyboard)
  <2>1. UNCHANGED <<sent, sync>> /\ e \in News /\ events' = Append(events, e)
    BY <1>15, ServerRemovesKeyboardDoes
  <2>2. e.type # "pong"
    BY DEF Removed
  <2> HIDE DEF e
  <2>3. \A i \in DOMAIN events' : events'[i].type = "pong" => i + 0 \in DOMAIN events /\ events'[i] = events[i + 0]
    BY <1>1, <2>1, <2>2, OthersAppended
  <2> QED BY <1>2, <1>3, <2>1, <2>3, PingsKeep
<1> QED BY NoisyCases, <1>4, <1>5, <1>6, <1>7, <1>8, <1>9, <1>10, <1>11, <1>12, <1>13, <1>14, <1>15

\* What is under way stays so until it arrives.
LEMMA UnderWayStays ==
  ASSUME Typed, NEW n, Asked(n) \/ Answered(n),
         sent' = sent \/ (\E msg \in Message : sent' = Append(sent, msg))
                      \/ (sent # <<>> /\ sent' = Tail(sent) /\ Head(sent) # K!Ping(n)),
         events' = events \/ (\E e \in News : events' = Append(events, e))
                          \/ (events # <<>> /\ events' = Tail(events) /\ Head(events) # K!Pong(n))
  PROVE  Asked(n)' \/ Answered(n)'
BY AskedAfter, AnsweredAfter

\* What is under way of the pending synchronization stays so.
LEMMA PendingStays ==
  ASSUME Typed, Asked(sync.pending) \/ Answered(sync.pending), sync'.pending = sync.pending,
         sent' = sent \/ (\E msg \in Message : sent' = Append(sent, msg))
                      \/ (sent # <<>> /\ sent' = Tail(sent) /\ Head(sent).type # "ping"),
         events' = events \/ (\E e \in News : events' = Append(events, e))
                          \/ (events # <<>> /\ events' = Tail(events) /\ Head(events) # K!Pong(sync.pending))
  PROVE  (Asked(sync.pending) \/ Answered(sync.pending))'
<1>1. PICK n : n = sync.pending
  OBVIOUS
<1>2. K!Ping(n).type = "ping"
  BY DEF K!Ping
<1>3. Head(sent).type # "ping" => Head(sent) # K!Ping(n)
  BY <1>2
<1>4. Asked(n)' \/ Answered(n)'
  BY <1>1, <1>3, UnderWayStays
<1> QED BY <1>1, <1>4 DEF Asked, Answered

\* The pings that are sent are under way.
LEMMA AskedNow ==
  ASSUME Typed, NEW msg \in Message, sent' = Append(sent, msg), msg = K!Ping(sync'.pending)
  PROVE  Asked(sync.pending)'
<1>1. sent \in Seq(Message)
  BY DEF Typed, TypedWire
<1> QED BY <1>1, Shifts DEF Asked

\* Every step keeps a pending synchronization under way, and the source ready.
LEMMA ForgottenStep ==
  ASSUME Typed, Flow, Pings, K!NothingForgotten, K!Next
  PROVE  K!NothingForgotten'
<1> DEFINE Waits == sync.pending # K!None /\ ses.ready /\ ses.started /\ ses.ei /\ main # "stopped"
           Under == Asked(sync.pending) \/ Answered(sync.pending)
           Armed == queue # <<>> /\ main = "loop" => armed \/ client.wakes
<1>1. Typed' /\ Flow'
  BY TypedStep, FlowStep
<1>2. /\ sent \in Seq(Message) /\ events \in Seq(News)
      /\ sync.pending \in {K!None, sync.last} /\ sync.pending \in Nat
  BY DEF Typed, TypedWire, TypedSession, SyncType
<1>3. (Waits => Under) /\ Armed
  BY <1>1, OutstandingIs DEF K!NothingForgotten
<1>4. main = "stopped" => ~ses.ei
  BY DEF Flow
<1> SUFFICES (Waits' => Under') /\ Armed'  BY <1>1, OutstandingIsPrime DEF K!NothingForgotten
<1>5. CASE Quiet  BY <1>5, QuietSteps, <1>3 DEF Asked, Answered
<1>6. CASE K!ProcessKey
  <2> DEFINE e == K!KeySent(Head(queue).key, Head(queue).down)
  <2>1. /\ sent' = IF K!HasKeyboard THEN Append(sent, e) ELSE sent
        /\ Head(queue).key \in K!AnyKey /\ Head(queue).down \in BOOLEAN
        /\ UNCHANGED <<events, ses, main>> /\ sync'.pending = sync.pending
        /\ main \in {"drain", "drain_last"}
    BY <1>6, ProcessKeyDoes
  <2>2. sent' = sent \/ (\E msg \in Message : sent' = Append(sent, msg))
    BY <2>1, KeySentType
  <2>3. Under => Under'
    BY <2>1, <2>2, PendingStays
  <2>4. (Waits' => Waits) /\ Armed'
    BY <2>1
  <2> QED BY <1>3, <2>3, <2>4
<1>7. CASE K!ProcessSync
  <2>1. /\ main \in {"drain", "drain_last"} /\ ses' = ses
        /\ sync'.pending = sync.last + 1
        /\ \/ ~ses.ready /\ sent' = sent /\ main' = main
           \/ /\ ses.ready /\ ses.ei /\ main' = main
              /\ sent' = Append(sent, K!Ping(sync'.pending))
           \/ ses.ready /\ ~ses.ei /\ sent' = sent /\ main' = "crashed"
    BY <1>7, ProcessSyncDoes
  <2>2. sync'.pending \in Nat
    BY <2>1 DEF Typed, TypedSession, SyncType
  <2>3. Waits' => Under'
    <3> HAVE Waits'
    <3>1. K!Ping(sync'.pending) \in Message /\ sent' = Append(sent, K!Ping(sync'.pending))
      BY <2>1, <2>2, PingType
    <3> QED BY <3>1, AskedNow
  <2>4. main' # "loop"
    BY <2>1
  <2> QED BY <2>3, <2>4
<1>8. ASSUME Repings
      PROVE  Under'
  BY <1>2, <1>8, PingType, AskedNow DEF Repings
<1>9. CASE K!Connected  BY <1>9, ConnectedDoes, <1>8, <1>3
<1>10. CASE K!StartAnswered  BY <1>10, StartAnsweredDoes, <1>8, <1>3
<1>11. CASE DeviceNews \/ K!KeyboardModifiers
  <2>1. /\ events # <<>> /\ events' = Tail(events) /\ sent' = sent /\ Head(events).type # "pong"
        /\ sync'.pending = sync.pending
        /\ ses'.ready = ses.ready /\ ses'.started = ses.started /\ ses'.ei = ses.ei
        /\ UNCHANGED <<queue, armed, client, main>>
    BY <1>11, DeviceNewsDoes, KeyboardModifiersDoes
  <2>2. Head(events) # K!Pong(sync.pending)
    BY <2>1 DEF K!Pong
  <2>3. Under => Under'
    BY <2>1, <2>2, PendingStays
  <2> QED BY <1>3, <2>1, <2>3
<1>12. CASE K!PongReceived
  <2> DEFINE n == Head(events).sync
  <2>1. /\ events # <<>> /\ events' = Tail(events) /\ UNCHANGED <<client, queue, armed>>
    BY <1>12, ReceiveDoes DEF K!PongReceived
  <2>2. /\ Head(events) = K!Pong(n)
        /\ n \in sync.cancelled => UNCHANGED <<sync, sent>>
        /\ n \notin sync.cancelled => sync'.pending = K!None
        /\ UNCHANGED <<main, ses>>
    BY <1>12, PongReceivedDoes
  <2>3. n \in sync.cancelled => Head(events) # K!Pong(sync.pending)
    BY <2>2 DEF K!Pong, Pings
  <2> HIDE DEF n
  <2>4. n \in sync.cancelled => (Under => Under')
    BY <2>1, <2>2, <2>3, PendingStays
  <2>5. Waits' => Waits /\ n \in sync.cancelled
    BY <2>2
  <2>6. Armed'
    BY <1>3, <2>1, <2>2
  <2> QED BY <1>3, <2>4, <2>5, <2>6
<1>13. CASE K!SessionClosed
  BY <1>13, SessionClosedDoes
<1>14. CASE K!ServerAnswersPing
  <2> DEFINE n == Head(sent).sync
  <2>1. /\ sent # <<>> /\ Head(sent) = K!Ping(n) /\ n \in Nat /\ sent' = Tail(sent)
        /\ K!Pong(n) \in News /\ events' = Append(events, K!Pong(n))
        /\ UNCHANGED <<client, flags, table, queue, armed, main, sync, ses, server>>
    BY <1>14, ServerAnswersPingDoes
  <2>2. n = sync.pending => Under'
    BY <1>2, <2>1, Shifts DEF Answered
  <2>3. ASSUME n # sync.pending, Under
        PROVE  Under'
    BY <2>1, <2>3, UnderWayStays DEF K!Ping, Asked, Answered
  <2>4. (Waits' => Waits) /\ Armed'
    BY <1>3, <2>1
  <2> QED BY <1>3, <2>2, <2>3, <2>4
<1>15. CASE K!ServerTakesKey
  BY <1>15, ServerTakesKeyDoes, NewsType, PendingStays, <1>3 DEF Modifiers, ServerType
<1>16. CASE K!ServerAddsKeyboard
  BY <1>16, ServerAddsKeyboardDoes, KeyboardTold, <1>3 DEF Asked, Answered
<1>17. CASE K!ServerRemovesKeyboard  BY <1>17, ServerRemovesKeyboardDoes, PendingStays, <1>3
<1> QED BY NoisyCases, <1>5, <1>6, <1>7, <1>9, <1>10, <1>11, <1>12, <1>13, <1>14, <1>15, <1>16, <1>17

-----------------------------------------------------------------------------
(* No key is stuck. *)

\* The events about a key, and what becomes of it when they are handled.
OfKey(e, k) == e.type = "key" /\ e.key = k
Of(s, k) == {i \in DOMAIN s : OfKey(s[i], k)}
After(s, k, before) == K!Outcome(s, Of(s, k), before)

\* One more event.
LEMMA AfterAppend ==
  ASSUME NEW s \in Seq(Event), NEW e \in Event, NEW k, NEW before
  PROVE  After(Append(s, e), k, before) <=> IF OfKey(e, k) THEN e.down ELSE After(s, k, before)
<1>1. Of(s, k) \in SUBSET DOMAIN s
  BY DEF Of
<1>2. Of(Append(s, e), k) = IF OfKey(e, k) THEN Of(s, k) \cup {Len(s) + 1} ELSE Of(s, k)
  BY AppendFacts DEF Of
<1>3. CASE OfKey(e, k)
  BY <1>1, <1>2, <1>3, OutcomeLast DEF After
<1>4. CASE ~OfKey(e, k)
  BY <1>1, <1>2, <1>4, OutcomeOther DEF After
<1> QED BY <1>3, <1>4

\* The first event is handled.
LEMMA AfterTail ==
  ASSUME NEW s \in Seq(Event), s # <<>>, NEW k, NEW before
  PROVE  After(s, k, before)
         <=> After(Tail(s), k, IF OfKey(Head(s), k) THEN Head(s).down ELSE before)
<1>1. Of(s, k) \in SUBSET DOMAIN s
  BY DEF Of
<1>2. Of(Tail(s), k) = {i \in DOMAIN Tail(s) : i + 1 \in Of(s, k)}
  BY TailFacts DEF Of
<1>3. 1 \in Of(s, k) <=> OfKey(Head(s), k)
  BY TailFacts DEF Of
<1>4. s[1] = Head(s)
  BY TailFacts
<1>5. K!Outcome(s, Of(s, k), before)
      <=> K!Outcome(Tail(s), Of(Tail(s), k), IF 1 \in Of(s, k) THEN s[1].down ELSE before)
  BY <1>1, <1>2, OutcomeTail
<1>6. (IF 1 \in Of(s, k) THEN s[1].down ELSE before) <=> (IF OfKey(Head(s), k) THEN Head(s).down ELSE before)
  BY <1>3, <1>4
<1> QED BY <1>5, <1>6 DEF After, K!Outcome

\* What is up before can only be up after.
LEMMA AfterMonotone ==
  ASSUME NEW s, NEW k, NEW before, NEW sooner, before => sooner, After(s, k, before)
  PROVE  After(s, k, sooner)
BY DEF After, K!Outcome

\* Releases at the end leave a key down only if they are not about it.
LEMMA AfterReleases ==
  ASSUME NEW s \in Seq(Event), NEW t \in Seq(Event), NEW k, NEW before,
         \A i \in DOMAIN t : t[i].type = "key" => ~t[i].down,
         After(s \o t, k, before)
  PROVE  After(s, k, before) /\ \A i \in DOMAIN t : ~OfKey(t[i], k)
<1>1. /\ Len(s) \in Nat /\ DOMAIN s = 1 .. Len(s) /\ Len(t) \in Nat /\ DOMAIN t = 1 .. Len(t)
      /\ \A i \in DOMAIN s : i \in DOMAIN (s \o t) /\ (s \o t)[i] = s[i]
      /\ \A i \in DOMAIN t : Len(s) + i \in DOMAIN (s \o t) /\ (s \o t)[Len(s) + i] = t[i]
      /\ \A i \in DOMAIN (s \o t) : i \in DOMAIN s \/ \E j \in DOMAIN t : i = Len(s) + j
  BY ConcatFacts
<1> DEFINE all == s \o t
<1>2. (Of(all, k) = {} /\ before) \/ \E i \in Of(all, k) : all[i].down /\ \A j \in Of(all, k) : j <= i
  BY DEF After, K!Outcome
<1>3. \A i \in DOMAIN t : ~OfKey(t[i], k)
  <2> SUFFICES ASSUME NEW n \in DOMAIN t, OfKey(t[n], k)
               PROVE  FALSE
    OBVIOUS
  <2>1. Len(s) + n \in Of(all, k)
    BY <1>1 DEF Of
  <2>2. PICK i \in Of(all, k) : all[i].down /\ \A j \in Of(all, k) : j <= i
    BY <1>2, <2>1
  <2>3. i \in DOMAIN all /\ all[i].type = "key" /\ Len(s) + n <= i
    BY <2>1, <2>2 DEF Of, OfKey
  <2>4. i \notin DOMAIN s
    BY <1>1, <2>3
  <2>5. PICK j \in DOMAIN t : i = Len(s) + j
    BY <1>1, <2>3, <2>4
  <2> QED BY <1>1, <2>2, <2>3, <2>5
<1>4. Of(all, k) = Of(s, k)
  <2> HIDE DEF all
  <2>1. /\ \A i \in DOMAIN s : i \in DOMAIN all /\ all[i] = s[i]
        /\ \A i \in DOMAIN t : Len(s) + i \in DOMAIN all /\ all[Len(s) + i] = t[i]
        /\ \A i \in DOMAIN all : i \in DOMAIN s \/ \E j \in DOMAIN t : i = Len(s) + j
    BY <1>1 DEF all
  <2> QED BY <1>3, <2>1 DEF Of
<1>5. \A i \in Of(s, k) : all[i] = s[i]
  BY <1>1 DEF Of
<1> QED BY <1>2, <1>3, <1>4, <1>5 DEF After, K!Outcome

\* Two messages are sent.
LEMMA HeldTwice ==
  ASSUME NEW k, Typed, NEW a \in Message, NEW b \in Message, sent' = Append(Append(sent, a), b),
         UNCHANGED server
  PROVE  K!IsHeld(k)' <=> IF Concerns(b, k) THEN b.down
                          ELSE IF Concerns(a, k) THEN a.down ELSE K!IsHeld(k)
<1> DEFINE mid == Append(sent, a)
           among == {i \in DOMAIN mid : Concerns(mid[i], k)}
<1>1. sent \in Seq(Message)
  BY DEF Typed, TypedWire
<1>2. mid \in Seq(Message)
  BY <1>1, AppendFacts
<1>3. Heard(k) \in SUBSET DOMAIN sent /\ among \in SUBSET DOMAIN mid
  BY DEF Heard
<1>4. among = IF Concerns(a, k) THEN Heard(k) \cup {Len(sent) + 1} ELSE Heard(k)
  BY <1>1, AppendFacts DEF Heard, Concerns, Current
<1>5. sent' = Append(mid, b)
  OBVIOUS
<1>6. K!Outcome(mid, among, k \in server.down) <=> IF Concerns(a, k) THEN a.down ELSE K!IsHeld(k)
  <2>1. CASE Concerns(a, k)
    BY <1>1, <1>3, <1>4, <2>1, OutcomeLast
  <2>2. CASE ~Concerns(a, k)  BY <1>1, <1>3, OutcomeOther, <1>4, <2>2, HeldIs
  <2> QED BY <2>1, <2>2
<1> HIDE DEF mid
<1>7. Heard(k)' = IF Concerns(b, k) THEN among \cup {Len(mid) + 1} ELSE among
  BY <1>2, <1>5, AppendFacts DEF Heard, Concerns, Current
<1>8. CASE Concerns(b, k)  BY <1>2, <1>3, OutcomeLast, <1>5, <1>7, <1>8, HeldIsPrime
<1>9. CASE ~Concerns(b, k)
  <2>1. K!Outcome(Append(mid, b), among, k \in server.down) <=> K!Outcome(mid, among, k \in server.down)
    BY <1>2, <1>3, OutcomeOther
  <2> QED BY <1>5, <1>6, <1>7, <1>9, <2>1, HeldIsPrime
<1> QED BY <1>8, <1>9

\* Without a keyboard in use, nothing is held.
LEMMA HeldNeedsKeyboard ==
  ASSUME Typed, Keyboards, NEW k, K!IsHeld(k), main \notin {"stopped", "crashed"}
  PROVE  Settled /\ K!HasKeyboard
<1>1. KeysThere
  BY HeldNowhere
<1> QED BY <1>1, KeysThereSettled DEF Settled, K!HasKeyboard, Keyboards

\* A key that is told is held as it says, at most.
LEMMA HeldAfterKey ==
  ASSUME Typed, Keyboards, NEW k, K!ProcessKey, K!IsHeld(k)'
  PROVE  IF OfKey(Head(queue), k) THEN Head(queue).down ELSE K!IsHeld(k)
<1> DEFINE e == Head(queue)
           msg == K!KeySent(e.key, e.down)
<1>1. /\ main \in {"drain", "drain_last"} /\ e.type = "key"
      /\ e.key \in K!AnyKey /\ e.down \in BOOLEAN
      /\ sent' = IF K!HasKeyboard THEN Append(sent, msg) ELSE sent
      /\ server' = server
  BY ProcessKeyDoes
<1>2. K!HasKeyboard => msg \in Message /\ msg.key = e.key /\ msg.down = e.down
  BY <1>1, KeySentType
<1> HIDE DEF e, msg
<1>3. CASE ~K!HasKeyboard
  <2>1. K!IsHeld(k)
    BY <1>1, <1>3, HeldSame
  <2> QED BY <1>1, <1>3, <2>1, HeldNeedsKeyboard
<1>4. CASE K!HasKeyboard
  <2>1. IF Concerns(msg, k) THEN msg.down ELSE K!IsHeld(k)
    BY <1>1, <1>2, <1>4, HeldAppend
  <2>2. CASE OfKey(e, k)
    <3>1. CASE Concerns(msg, k)
      BY <1>2, <1>4, <2>1, <2>2, <3>1 DEF e
    <3>2. CASE ~Concerns(msg, k)
      BY <2>1, <3>2, <1>1, HeldNeedsKeyboard, <1>2, <1>4, <2>2 DEF Concerns, Current, Settled,
         OfKey, msg, K!KeySent
    <3> QED BY <3>1, <3>2
  <2>3. CASE ~OfKey(e, k)  BY <1>1, <1>2, <1>4, <2>3, <2>1 DEF Concerns, OfKey, e
  <2> QED BY <2>2, <2>3
<1> QED BY <1>3, <1>4

\* Nothing else makes a key held.
LEMMA HeldBefore ==
  ASSUME Typed, Flow, Keyboards, K!Next, ~K!ProcessKey, NEW k, K!IsHeld(k)'
  PROVE  K!IsHeld(k)
<1>1. /\ sent \in Seq(Message) /\ events \in Seq(News) /\ server \in ServerType
      /\ sync.pending \in Nat /\ sync.last \in Nat
  BY DEF Typed, TypedWire, TypedSession, SyncType
<1>2. ASSUME NEW n \in Nat, sent' = Append(sent, K!Ping(n)), server' = server
      PROVE  K!IsHeld(k)
  BY PingType, <1>2, HeldAppend DEF Concerns, Current
<1>3. CASE UNCHANGED <<sent, server>>
  BY <1>3, HeldSame
<1>4. CASE Quiet
  BY <1>3, <1>4, QuietSteps
<1>5. CASE K!ProcessSync  BY <1>5, ProcessSyncDoes, <1>1, <1>2, <1>3
<1>6. CASE K!Connected \/ K!StartAnswered
  BY <1>6, ConnectedDoes, StartAnsweredDoes, <1>1, <1>2, <1>3 DEF Repings
<1>7. CASE DeviceNews \/ K!KeyboardModifiers
  BY <1>3, <1>7, DeviceNewsDoes, KeyboardModifiersDoes
<1>8. CASE K!PongReceived
  <2>1. /\ sent' = sent \/ (K!HasKeyboard /\ sent' = Append(Append(sent, LockPress), LockRelease))
        /\ server' = server
    BY <1>8, PongReceivedDoes, ReceiveDoes DEF K!PongReceived
  <2>2. CASE K!HasKeyboard /\ sent' = Append(Append(sent, LockPress), LockRelease)
    <3>1. /\ LockPress \in Message /\ LockRelease \in Message /\ ~LockRelease.down
          /\ LockPress.type = "key" /\ LockPress.key = LockKey /\ LockPress.keyboard = ses.keyboard
          /\ LockRelease.type = "key" /\ LockRelease.key = LockKey /\ LockRelease.keyboard = ses.keyboard
      BY <2>2, KeySentType, InputAssumption DEF LockPress, LockRelease, K!AnyKey
    <3>2. Concerns(LockPress, k) <=> Concerns(LockRelease, k)
      BY <3>1 DEF Concerns, Current
    <3> QED BY <2>1, <2>2, <3>1, <3>2, HeldTwice
  <2> QED BY <1>3, <2>1, <2>2
<1>9. CASE K!SessionClosed  BY <1>9, SessionClosedDoes, HeldNowherePrime DEF KeysThere
<1>10. CASE K!ServerAnswersPing
  BY <1>10, ServerAnswersPingDoes, HeldTail DEF K!Ping, Concerns, Current
<1>11. CASE K!ServerTakesKey
  <2> DEFINE msg == Head(sent)
  <2>1. /\ sent # <<>> /\ sent' = Tail(sent) /\ server'.keyboard = server.keyboard
        /\ server'.down = IF ~Current(msg) THEN server.down
                          ELSE IF msg.down THEN server.down \cup {msg.key}
                          ELSE server.down \ {msg.key}
    BY <1>11, ServerTakesKeyDoes
  <2>2. k \in server'.down <=> IF Concerns(msg, k) THEN msg.down ELSE k \in server.down
    BY <2>1 DEF Concerns
  <2> QED BY <2>1, <2>2, HeldTail
<1>12. CASE K!ServerAddsKeyboard
  BY <1>12, ServerAddsKeyboardDoes, <1>1, InputAssumption, HeldNowherePrime DEF Keyboards,
     ServerType, KeysThere, Current
<1>13. CASE K!ServerRemovesKeyboard
  <2>1. /\ server'.keyboard = K!None /\ server'.down = {} /\ sent' = sent
    BY <1>13, ServerRemovesKeyboardDoes
  <2>2. \A i \in DOMAIN sent : sent[i].type = "key" => sent[i].keyboard # K!None
    <3> TAKE i \in DOMAIN sent
    <3> HAVE sent[i].type = "key"
    <3>1. sent[i].keyboard \in 1 .. MaxPlugs
      BY <1>1, Shifts, MessageFacts
    <3> QED BY <3>1, InputAssumption DEF K!None
  <2>3. ~KeysThere'
    BY <2>1, <2>2 DEF KeysThere, Current
  <2> QED BY <2>3, HeldNowherePrime
<1> QED BY NoisyCases, <1>4, <1>5, <1>6, <1>7, <1>8, <1>9, <1>10, <1>11, <1>12, <1>13

\* The first of the queue is the first of what comes.
LEMMA ComingFacts ==
  ASSUME Typed
  PROVE  /\ Coming \in Seq(Event) /\ queue \in Seq(Event) /\ client.todo \in Seq(Event)
         /\ queue # <<>> => /\ Coming # <<>> /\ Head(Coming) = Head(queue)
                            /\ Tail(Coming) = Tail(queue) \o client.todo
         /\ client.todo = <<>> => Coming = queue
<1>1. queue \in Seq(Event) /\ client.todo \in Seq(Event)
  BY DEF Typed, TypedQueue, TypedClient, ClientType
<1>2. Coming \in Seq(Event) /\ Len(Coming) = Len(queue) + Len(client.todo)
      /\ Len(queue) \in Nat /\ Len(client.todo) \in Nat
  BY <1>1, ConcatFacts DEF Coming
<1>3. client.todo = <<>> => Coming = queue
  BY <1>1 DEF Coming
<1>4. ASSUME queue # <<>>
      PROVE  /\ Coming # <<>> /\ Head(Coming) = Head(queue)
             /\ Tail(Coming) = Tail(queue) \o client.todo
  <2>1. /\ Coming = <<Head(queue)>> \o (Tail(queue) \o client.todo)
        /\ Tail(queue) \o client.todo \in Seq(Event) /\ Head(queue) \in Event
    BY <1>1, <1>4, TailFacts DEF Coming
  <2> QED BY <2>1, <1>2
<1> QED BY <1>1, <1>2, <1>3, <1>4

ToCome == IF main \in {"stopped", "crashed"} THEN <<>> ELSE Coming

\* A key is held when everything arrived only if the table names it.
LEMMA NoStuckIs ==
  K!NoStuckKey <=> \A k \in K!AnyKey : After(ToCome, k, K!IsHeld(k)) => k \in table \/ main = "crashed"
BY DEF K!NoStuckKey, After, Of, OfKey, ToCome, Coming

\* The same after a step.
LEMMA NoStuckIsPrime ==
  K!NoStuckKey' <=> \A k \in K!AnyKey : After(ToCome', k, K!IsHeld(k)') => k \in table' \/ main' = "crashed"
BY DEF K!NoStuckKey, After, Of, OfKey, ToCome, Coming

\* Nothing is pushed or taken that concerns a key.
LEMMA NoStuckKeeps ==
  ASSUME K!NoStuckKey, ToCome' = ToCome, table' = table, main = "crashed" => main' = "crashed",
         \A k \in K!AnyKey : K!IsHeld(k)' => K!IsHeld(k)
  PROVE  K!NoStuckKey'
BY NoStuckIsPrime, AfterMonotone, NoStuckIs

\* What an event of a key says.
LEMMA KeyEventFacts ==
  ASSUME NEW k, NEW down
  PROVE  LET e == K!KeyEvent(k, down) IN e.type = "key" /\ e.key = k /\ e.down = down
BY DEF K!KeyEvent

\* The releases of a set of keys, and what follows of other events.
LEMMA AfterReleased ==
  ASSUME NEW s \in Seq(Event), NEW keys, IsFiniteSet(keys), keys \subseteq Key,
         NEW k, NEW before, After(s \o K!Releases(keys), k, before)
  PROVE  After(s, k, before) /\ k \notin keys
<1>1. /\ K!Releases(keys) \in Seq(Event)
      /\ \A i \in DOMAIN K!Releases(keys) : \E m \in keys : K!Releases(keys)[i] = K!KeyEvent(m, FALSE)
      /\ \A m \in keys : \E i \in DOMAIN K!Releases(keys) : K!Releases(keys)[i] = K!KeyEvent(m, FALSE)
  BY ReleasesFacts
<1>0. \A m : LET e == K!KeyEvent(m, FALSE) IN e.type = "key" /\ e.key = m /\ ~e.down
  BY DEF K!KeyEvent
<1>2. \A i \in DOMAIN K!Releases(keys) : ~K!Releases(keys)[i].down
  BY <1>0, <1>1
<1>3. After(s, k, before) /\ \A i \in DOMAIN K!Releases(keys) : ~OfKey(K!Releases(keys)[i], k)
  BY <1>1, <1>2, AfterReleases
<1>4. k \notin keys
  <2> SUFFICES ASSUME k \in keys
               PROVE  FALSE
    OBVIOUS
  <2>1. PICK i \in DOMAIN K!Releases(keys) : K!Releases(keys)[i] = K!KeyEvent(k, FALSE)
    BY <1>1
  <2>2. ~OfKey(K!KeyEvent(k, FALSE), k)
    BY <1>3, <2>1
  <2> QED BY <1>0, <2>2 DEF OfKey
<1> QED BY <1>3, <1>4

\* The input handlers push what they change in the table.
LEMMA NoStuckSocket ==
  ASSUME Typed, Flow, Keyboards, K!NoStuckKey,
         K!SynchronizeEvent \/ \E k \in Key, down \in BOOLEAN : K!KeyboardEvent(k, down)
  PROVE  K!NoStuckKey'
<1>1. /\ client.runs /\ client.todo = <<>> /\ UNCHANGED <<queue, main, sent, server>>
      /\ client' \in ClientType
  BY SynchronizeEventDoes, KeyboardEventDoes
<1>2. queue \in Seq(Event) /\ Coming = queue /\ Coming' = queue \o client'.todo
      /\ client'.todo \in Seq(Event)
  BY <1>1, ComingFacts DEF Coming, ClientType
<1>3. main \notin {"stopped", "crashed"}
  BY <1>1 DEF Flow
<1>4. ToCome = queue /\ ToCome' = queue \o client'.todo
  BY <1>1, <1>2, <1>3 DEF ToCome
<1> SUFFICES ASSUME NEW k \in K!AnyKey, After(ToCome', k, K!IsHeld(k)')
             PROVE  k \in table'
  BY NoStuckIsPrime
<1>5. K!IsHeld(k)' <=> K!IsHeld(k)
  BY <1>1, HeldSame
<1>6. After(queue \o client'.todo, k, K!IsHeld(k))
  BY <1>4, <1>5, AfterMonotone
<1>7. After(queue, k, K!IsHeld(k)) => k \in table
  BY <1>3, <1>4, NoStuckIs
<1>8. CASE K!SynchronizeEvent
  <2>1. PICK lock \in BOOLEAN : client'.todo = K!Releases(table) \o <<K!SyncEvent(lock)>>
    BY <1>8, SynchronizeEventDoes
  <2> DEFINE e == K!SyncEvent(lock)
  <2>2. e \in Event /\ e.type = "sync"
    BY EventsType DEF K!SyncEvent
  <2>3. K!Releases(table) \in Seq(Event) /\ table \subseteq Key /\ IsFiniteSet(table)
    BY ReleasesFacts DEF Typed, TypedClient
  <2> HIDE DEF e
  <2>4. queue \o (K!Releases(table) \o <<e>>) = Append(queue \o K!Releases(table), e)
    BY <1>2, <2>2, <2>3
  <2>5. After(Append(queue \o K!Releases(table), e), k, K!IsHeld(k))
    BY <1>6, <2>1, <2>4 DEF e
  <2>6. queue \o K!Releases(table) \in Seq(Event) /\ ~OfKey(e, k)
    BY <1>2, <2>2, <2>3, ConcatFacts DEF OfKey
  <2>7. After(queue \o K!Releases(table), k, K!IsHeld(k))
    BY <2>2, <2>5, <2>6, AfterAppend
  <2>8. After(queue, k, K!IsHeld(k)) /\ k \notin table
    BY <1>2, <2>3, <2>7, AfterReleased
  <2> QED BY <1>7, <2>8
<1>9. ASSUME NEW m \in Key, NEW down \in BOOLEAN, K!KeyboardEvent(m, down)
      PROVE  k \in table'
  <2> DEFINE press == K!KeyEvent(PauseKey, TRUE)
             release == K!KeyEvent(PauseKey, FALSE)
             e == K!KeyEvent(m, down)
  <2>1. \/ client'.todo = <<>> /\ table' = table
        \/ client'.todo = <<press, release>> /\ table' = table
        \/ /\ client'.todo = <<e>>
           /\ IF down THEN m \notin table /\ table' = table \cup {m}
                      ELSE m \in table /\ table' = table \ {m}
    BY <1>9, KeyboardEventDoes
  <2>2. /\ press \in Event /\ release \in Event /\ e \in Event
        /\ press.type = "key" /\ press.key = PauseKey
        /\ release.type = "key" /\ release.key = PauseKey /\ ~release.down
        /\ e.type = "key" /\ e.key = m /\ e.down = down
    BY EventsType, KeyEventFacts DEF K!AnyKey
  <2> HIDE DEF press, release, e
  <2>3. CASE client'.todo = <<>> /\ table' = table
    BY <1>2, <1>6, <1>7, <2>3
  <2>4. CASE client'.todo = <<press, release>> /\ table' = table
    <3>1. /\ queue \o <<press, release>> = Append(Append(queue, press), release)
          /\ Append(queue, press) \in Seq(Event)
      BY <1>2, <2>2, AppendTwice, AppendFacts
    <3>2. ~OfKey(release, k) /\ After(Append(queue, press), k, K!IsHeld(k))
      BY <1>6, <2>2, <2>4, <3>1, AfterAppend
    <3>3. ~OfKey(press, k)
      BY <2>2, <3>2 DEF OfKey
    <3> QED BY <1>2, <1>7, <2>2, <2>4, <3>2, <3>3, AfterAppend
  <2>5. CASE /\ client'.todo = <<e>>
             /\ IF down THEN m \notin table /\ table' = table \cup {m}
                        ELSE m \in table /\ table' = table \ {m}
    <3>1. queue \o <<e>> = Append(queue, e)
      BY <1>2, <2>2
    <3>2. IF OfKey(e, k) THEN e.down ELSE After(queue, k, K!IsHeld(k))
      BY <1>2, <1>6, <2>2, <2>5, <3>1, AfterAppend
    <3> QED BY <1>7, <2>2, <2>5, <3>2 DEF OfKey
  <2> QED BY <2>1, <2>3, <2>4, <2>5
<1> QED BY <1>8, <1>9

\* The other steps leave alone what comes.
LEMMA ComingStays ==
  ASSUME Typed, Flow, K!Next,
         ~K!SynchronizeEvent, ~(\E k \in Key, down \in BOOLEAN : K!KeyboardEvent(k, down)),
         ~K!ProcessKey, ~K!ProcessSync, ~K!ReleaseKeys
  PROVE  /\ Coming' = Coming /\ ToCome' = ToCome /\ table' = table
         /\ main = "crashed" => main' = "crashed"
<1>1. CASE K!PduIgnored \/ K!WakeSource \/ K!ClientGone \/ K!SocketExits
  BY <1>1, SocketSteps DEF ToCome, Coming
<1>2. CASE K!QueueEvent  BY <1>2, QueueEventDoes DEF ToCome
<1>3. CASE K!FlushDispatch \/ K!StopSession \/ K!ViewOnlyChanged
  BY <1>3, MainSteps DEF ToCome, Coming
<1>4. CASE K!UnlockQueue  BY <1>4, UnlockQueueDoes, ComingFacts DEF Flow, ToCome, Coming
<1>5. CASE K!Connected \/ K!StartAnswered
  BY <1>5, ConnectedDoes, StartAnsweredDoes DEF ToCome, Coming
<1>6. CASE DeviceNews \/ K!KeyboardModifiers
  BY <1>6, DeviceNewsDoes, KeyboardModifiersDoes DEF ToCome, Coming
<1>7. CASE K!PongReceived
  BY <1>7, PongReceivedDoes, ReceiveDoes DEF K!PongReceived, ToCome, Coming
<1>8. CASE K!SessionClosed  BY <1>8, SessionClosedDoes DEF ToCome, Coming
<1>9. CASE K!ServerAnswersPing \/ K!ServerTakesKey \/ K!ServerAddsKeyboard \/ K!ServerRemovesKeyboard
  BY <1>9, ServerAnswersPingDoes, ServerTakesKeyDoes, ServerAddsKeyboardDoes,
     ServerRemovesKeyboardDoes DEF ToCome, Coming
<1> QED BY StepCases, <1>1, <1>2, <1>3, <1>4, <1>5, <1>6, <1>7, <1>8, <1>9

\* Every step keeps keys from being stuck.
LEMMA NoStuckStep ==
  ASSUME Typed, Flow, Keyboards, K!NoStuckKey, K!Next
  PROVE  K!NoStuckKey'
<1>1. CASE K!SynchronizeEvent \/ \E k \in Key, down \in BOOLEAN : K!KeyboardEvent(k, down)
  BY <1>1, NoStuckSocket
<1>2. CASE K!ProcessKey
  <2> DEFINE e == Head(queue)
  <2>1. /\ main \in {"drain", "drain_last"} /\ queue # <<>> /\ e.type = "key"
        /\ queue' = Tail(queue)
        /\ UNCHANGED <<client, table, main>>
    BY <1>2, ProcessKeyDoes
  <2>2. /\ Coming \in Seq(Event) /\ Coming # <<>> /\ Head(Coming) = e /\ Coming' = Tail(Coming)
    BY <2>1, ComingFacts DEF Coming
  <2>3. ToCome = Coming /\ ToCome' = Tail(Coming) /\ main # "crashed"
    BY <2>1, <2>2 DEF ToCome
  <2> HIDE DEF e
  <2> SUFFICES ASSUME NEW k \in K!AnyKey, After(ToCome', k, K!IsHeld(k)')
               PROVE  k \in table'
    BY NoStuckIsPrime
  <2>4. K!IsHeld(k)' => IF OfKey(e, k) THEN e.down ELSE K!IsHeld(k)
    BY <1>2, HeldAfterKey DEF e
  <2>5. After(Tail(Coming), k, IF OfKey(e, k) THEN e.down ELSE K!IsHeld(k))
    BY <2>3, <2>4, AfterMonotone
  <2>6. After(Coming, k, K!IsHeld(k))
    BY <2>2, <2>5, AfterTail
  <2> QED BY <2>1, <2>3, <2>6, NoStuckIs
<1>3. CASE K!ProcessSync
  <2> DEFINE e == Head(queue)
  <2>1. /\ main \in {"drain", "drain_last"} /\ queue # <<>> /\ e.type = "sync"
        /\ queue' = Tail(queue) /\ main' \in {main, "crashed"}
        /\ UNCHANGED <<client, table>>
    BY <1>3, ProcessSyncDoes
  <2>2. /\ Coming \in Seq(Event) /\ Coming # <<>> /\ Head(Coming) = e /\ Coming' = Tail(Coming)
    BY <2>1, ComingFacts DEF Coming
  <2>3. ToCome = Coming /\ (main' # "crashed" => ToCome' = Tail(Coming)) /\ main # "crashed"
    BY <2>1, <2>2 DEF ToCome
  <2> HIDE DEF e
  <2> SUFFICES ASSUME NEW k \in K!AnyKey, After(ToCome', k, K!IsHeld(k)'), main' # "crashed"
               PROVE  k \in table'
    BY NoStuckIsPrime
  <2>4. K!IsHeld(k)' => K!IsHeld(k)
    <3>1. ~K!ProcessKey
      BY <2>1 DEF K!ProcessKey, e
    <3> QED BY <3>1, HeldBefore
  <2>5. After(Tail(Coming), k, K!IsHeld(k))
    <3>1. After(Tail(Coming), k, K!IsHeld(k)')
      BY <2>3
    <3> QED BY <2>4, <3>1, AfterMonotone
  <2>6. ~OfKey(e, k)
    BY <2>1 DEF OfKey
  <2>7. After(Coming, k, K!IsHeld(k))
    BY <2>2, <2>5, <2>6, AfterTail
  <2> QED BY <2>1, <2>3, <2>7, NoStuckIs
<1>4. CASE K!ReleaseKeys
  <2>1. /\ main = "join" /\ main' = "drain_last" /\ client.todo = <<>>
        /\ queue' = queue \o K!Releases(table)
        /\ UNCHANGED <<client, sent, server>>
    BY <1>4, ReleaseKeysDoes
  <2>2. table \subseteq Key /\ IsFiniteSet(table) /\ queue \in Seq(Event) /\ K!Releases(table) \in Seq(Event)
    BY ComingFacts, ReleasesFacts DEF Typed, TypedClient
  <2>3. ToCome = queue /\ ToCome' = queue \o K!Releases(table)
    <3>1. queue \o K!Releases(table) \in Seq(Event)
      BY <2>2, ConcatFacts
    <3>2. Coming' = queue \o K!Releases(table)
      <4>1. Coming' = (queue \o K!Releases(table)) \o <<>>
        BY <2>1 DEF Coming
      <4> QED BY <3>1, <4>1
    <3> QED BY <2>1, <3>2, ComingFacts DEF ToCome
  <2> SUFFICES ASSUME NEW k \in K!AnyKey, After(ToCome', k, K!IsHeld(k)')
               PROVE  FALSE
    BY NoStuckIsPrime
  <2>4. K!IsHeld(k)' => K!IsHeld(k)
    BY <2>1, HeldSame
  <2>5. After(queue \o K!Releases(table), k, K!IsHeld(k))
    BY <2>3, <2>4, AfterMonotone
  <2>6. After(queue, k, K!IsHeld(k)) /\ k \notin table
    BY <2>2, <2>5, AfterReleased
  <2> QED BY <2>1, <2>3, <2>6, NoStuckIs
<1>5. ASSUME ~K!SynchronizeEvent, ~(\E k \in Key, down \in BOOLEAN : K!KeyboardEvent(k, down)),
             ~K!ProcessKey, ~K!ProcessSync, ~K!ReleaseKeys
      PROVE  K!NoStuckKey'
  BY <1>5, HeldBefore, ComingStays, NoStuckKeeps
<1> QED BY <1>1, <1>2, <1>3, <1>4, <1>5

-----------------------------------------------------------------------------
(* The lock key is pressed and released in turn. *)

\* The lock key is not pressed when it is down already, neither of what comes ...
Presses(s) == {i \in DOMAIN s : Press(s[i])}
Before(about, j) == {i \in about : i < j}
Alternate(s, about, before) == \A j \in Presses(s) : ~K!Outcome(s, Before(about, j), before)

EventsAlternate == Alternate(Coming, Of(Coming, LockKey), K!IsHeld(LockKey))

\* ... nor of what was sent.
MessagesAlternate ==
  ~sync.excused /\ ~Doomed => Alternate(sent, Heard(LockKey), LockKey \in server.down)

\* When a sequence gets longer, what is pressed next has to be up at its end.
LEMMA AlternateMore ==
  ASSUME NEW S, NEW s \in Seq(S), NEW t \in Seq(S), \A i \in DOMAIN s : t[i] = s[i],
         NEW about \in SUBSET DOMAIN s, NEW more \in SUBSET Nat, about \subseteq more,
         \A i \in more : i \in about \/ i > Len(s),
         NEW before, Alternate(s, about, before),
         \A j \in Presses(t) : j \in DOMAIN s \/ (j = Len(s) + 1 /\ ~K!Outcome(s, about, before))
  PROVE  Alternate(t, more, before)
<1>1. DOMAIN s = 1 .. Len(s) /\ Len(s) \in Nat
  BY LenProperties
<1> SUFFICES ASSUME NEW j \in Presses(t), K!Outcome(t, Before(more, j), before)
             PROVE  FALSE
  BY DEF Alternate
<1>2. \A b \in SUBSET DOMAIN s : K!Outcome(t, b, before) <=> K!Outcome(s, b, before)
  BY DEF K!Outcome
<1>3. CASE j \in DOMAIN s
  <2>1. j \in Presses(s)
    BY <1>3 DEF Presses
  <2>2. Before(more, j) = Before(about, j)
    <3>1. \A i \in more : i < j => i \in about
      BY <1>1, <1>3
    <3> QED BY <3>1 DEF Before
  <2>3. Before(about, j) \in SUBSET DOMAIN s
    BY DEF Before
  <2> QED BY <1>2, <2>1, <2>2, <2>3 DEF Alternate
<1>4. CASE j = Len(s) + 1 /\ ~K!Outcome(s, about, before)
  <2>1. Before(more, j) = about
    <3>1. \A i \in about : i \in Nat /\ i < j
      BY <1>1, <1>4
    <3>2. \A i \in more : i < j => i \in about
      BY <1>1, <1>4
    <3> QED BY <3>1, <3>2 DEF Before
  <2> QED BY <1>2, <1>4, <2>1
<1> QED BY <1>3, <1>4

\* When the first has arrived, it is what was before.
LEMMA AlternateTail ==
  ASSUME NEW S, NEW s \in Seq(S), s # <<>>, NEW about \in SUBSET DOMAIN s, NEW before,
         Alternate(s, about, before)
  PROVE  Alternate(Tail(s), {i \in DOMAIN Tail(s) : i + 1 \in about},
                   IF 1 \in about THEN s[1].down ELSE before)
<1> DEFINE rest == {i \in DOMAIN Tail(s) : i + 1 \in about}
           start == IF 1 \in about THEN s[1].down ELSE before
<1> SUFFICES ASSUME NEW j \in Presses(Tail(s)), K!Outcome(Tail(s), Before(rest, j), start)
             PROVE  FALSE
  BY DEF Alternate
<1>1. /\ \A i \in DOMAIN Tail(s) : i \in Nat \ {0} /\ i + 1 \in DOMAIN s /\ Tail(s)[i] = s[i + 1]
      /\ \A i \in DOMAIN s : i \in Nat
  BY TailFacts
<1>2. j \in DOMAIN Tail(s) /\ j \in Nat \ {0} /\ j + 1 \in Presses(s)
  BY <1>1 DEF Presses
<1> DEFINE sooner == Before(about, j + 1)
<1>3. sooner \in SUBSET DOMAIN s /\ ~K!Outcome(s, sooner, before)
  BY <1>2 DEF Before, Alternate
<1>4. {i \in DOMAIN Tail(s) : i + 1 \in sooner} = Before(rest, j)  BY <1>1, <1>2 DEF Before
<1>5. 1 \in sooner <=> 1 \in about
  BY <1>2 DEF Before
<1> HIDE DEF sooner
<1>6. K!Outcome(s, sooner, before)
      <=> K!Outcome(Tail(s), Before(rest, j), IF 1 \in sooner THEN s[1].down ELSE before)
  <2>1. K!Outcome(s, sooner, before)
        <=> K!Outcome(Tail(s), {i \in DOMAIN Tail(s) : i + 1 \in sooner},
                      IF 1 \in sooner THEN s[1].down ELSE before)
    BY <1>3, OutcomeTail
  <2> QED BY <1>4, <2>1
<1>7. (IF 1 \in sooner THEN s[1].down ELSE before) <=> start
  BY <1>5
<1> QED BY <1>3, <1>6, <1>7 DEF K!Outcome

\* A key that was up before alternates all the more.
LEMMA AlternateMonotone ==
  ASSUME NEW s, NEW about, NEW before, NEW sooner, sooner => before, Alternate(s, about, before)
  PROVE  Alternate(s, about, sooner)
BY DEF Alternate, K!Outcome

\* The first press finds the key as it is.
LEMMA AlternateFirst ==
  ASSUME NEW s, NEW about \in SUBSET (Nat \ {0}), NEW before, Alternate(s, about, before), 1 \in Presses(s)
  PROVE  ~before
<1>1. Before(about, 1) = {}
  <2>1. \A i \in Nat \ {0} : ~(i < 1)
    OBVIOUS
  <2> QED BY <2>1 DEF Before
<1> QED BY <1>1 DEF Alternate, K!Outcome

\* What comes after the queue, if it is not pressed twice.
LEMMA EventsMore ==
  ASSUME NEW s \in Seq(Event), NEW t \in Seq(Event), NEW before,
         Alternate(s, Of(s, LockKey), before),
         \A i \in DOMAIN t : Press(t[i]) => i = 1 /\ ~After(s, LockKey, before)
  PROVE  Alternate(s \o t, Of(s \o t, LockKey), before)
<1> DEFINE all == s \o t
<1>1. /\ Len(s) \in Nat /\ DOMAIN s = 1 .. Len(s) /\ DOMAIN t = 1 .. Len(t)
      /\ all \in Seq(Event) /\ DOMAIN all = 1 .. (Len(s) + Len(t)) /\ Len(t) \in Nat
      /\ \A i \in DOMAIN s : i \in DOMAIN all /\ all[i] = s[i]
      /\ \A i \in DOMAIN t : Len(s) + i \in DOMAIN all /\ all[Len(s) + i] = t[i]
      /\ \A i \in DOMAIN all : i \in DOMAIN s \/ \E j \in DOMAIN t : i = Len(s) + j
  BY ConcatFacts
<1> HIDE DEF all
<1>2. /\ Of(s, LockKey) \in SUBSET DOMAIN s /\ Of(all, LockKey) \in SUBSET Nat
      /\ Of(s, LockKey) \subseteq Of(all, LockKey)
  BY <1>1 DEF Of
<1>3. \A i \in Of(all, LockKey) : i \in Of(s, LockKey) \/ i > Len(s)
  BY <1>1 DEF Of
<1>4. ASSUME NEW j \in Presses(all)
      PROVE  j \in DOMAIN s \/ (j = Len(s) + 1 /\ ~K!Outcome(s, Of(s, LockKey), before))
  BY <1>1 DEF Presses, After
<1>5. Alternate(all, Of(all, LockKey), before)
  BY <1>1, <1>2, <1>3, <1>4, AlternateMore
<1> QED BY <1>5 DEF all

\* The first event is handled: what follows alternates with what it says.
LEMMA EventsTail ==
  ASSUME NEW s \in Seq(Event), s # <<>>, NEW before, Alternate(s, Of(s, LockKey), before)
  PROVE  Alternate(Tail(s), Of(Tail(s), LockKey),
                   IF OfKey(Head(s), LockKey) THEN Head(s).down ELSE before)
<1>1. Of(s, LockKey) \in SUBSET DOMAIN s
  BY DEF Of
<1>2. Of(Tail(s), LockKey) = {i \in DOMAIN Tail(s) : i + 1 \in Of(s, LockKey)}
  BY TailFacts DEF Of
<1>3. 1 \in Of(s, LockKey) <=> OfKey(Head(s), LockKey)
  BY TailFacts DEF Of
<1>4. s[1] = Head(s)
  BY TailFacts
<1>5. Alternate(Tail(s), Of(Tail(s), LockKey), IF 1 \in Of(s, LockKey) THEN s[1].down ELSE before)
  <2>1. Alternate(Tail(s), {i \in DOMAIN Tail(s) : i + 1 \in Of(s, LockKey)},
                  IF 1 \in Of(s, LockKey) THEN s[1].down ELSE before)
    BY <1>1, AlternateTail
  <2> QED BY <1>2, <2>1
<1>6. (IF 1 \in Of(s, LockKey) THEN s[1].down ELSE before) <=> (IF OfKey(Head(s), LockKey) THEN Head(s).down ELSE before)
  BY <1>3, <1>4
<1> QED BY <1>5, <1>6, AlternateMonotone

\* Every step keeps what is to come alternating.
LEMMA EventsStep ==
  ASSUME Typed, Flow, Keyboards, K!NoStuckKey, EventsAlternate, K!Next
  PROVE  EventsAlternate'
<1>1. LockKey \in K!AnyKey /\ LockKey \in Key /\ PauseKey # LockKey
  BY InputAssumption DEF K!AnyKey
<1>2. CASE K!ProcessKey
  <2> DEFINE e == Head(queue)
  <2>1. queue # <<>> /\ queue' = Tail(queue) /\ client' = client
    BY <1>2, ProcessKeyDoes
  <2>2. /\ Coming \in Seq(Event) /\ Coming # <<>> /\ Head(Coming) = e /\ Coming' = Tail(Coming)
    BY <2>1, ComingFacts DEF Coming
  <2> HIDE DEF e
  <2>3. K!IsHeld(LockKey)' => IF OfKey(e, LockKey) THEN e.down ELSE K!IsHeld(LockKey)
    BY <1>2, HeldAfterKey DEF e
  <2>4. Alternate(Tail(Coming), Of(Tail(Coming), LockKey), IF OfKey(e, LockKey) THEN e.down ELSE K!IsHeld(LockKey))
    BY <2>2, EventsTail DEF EventsAlternate
  <2>5. Alternate(Tail(Coming), Of(Tail(Coming), LockKey), K!IsHeld(LockKey)')
    BY <2>3, <2>4, AlternateMonotone
  <2> QED BY <2>2, <2>5 DEF EventsAlternate
<1>3. ASSUME ~K!ProcessKey
      PROVE  K!IsHeld(LockKey)' => K!IsHeld(LockKey)
  BY <1>3, HeldBefore
<1>4. CASE K!ProcessSync
  <2> DEFINE e == Head(queue)
  <2>1. queue # <<>> /\ e.type = "sync" /\ queue' = Tail(queue) /\ client' = client
    BY <1>4, ProcessSyncDoes
  <2>2. /\ Coming \in Seq(Event) /\ Coming # <<>> /\ Head(Coming) = e /\ Coming' = Tail(Coming)
    BY <2>1, ComingFacts DEF Coming
  <2>3. ~OfKey(e, LockKey) /\ ~K!ProcessKey
    BY <2>1 DEF OfKey, K!ProcessKey
  <2> HIDE DEF e
  <2>4. Alternate(Tail(Coming), Of(Tail(Coming), LockKey), IF OfKey(e, LockKey) THEN e.down ELSE K!IsHeld(LockKey))
    BY <2>2, EventsTail DEF EventsAlternate
  <2>5. Alternate(Tail(Coming), Of(Tail(Coming), LockKey), K!IsHeld(LockKey)')
    BY <1>3, <2>3, <2>4, AlternateMonotone
  <2> QED BY <2>2, <2>5 DEF EventsAlternate
<1>5. ASSUME NEW t \in Seq(Event), Coming' = Coming \o t, K!IsHeld(LockKey)' <=> K!IsHeld(LockKey),
             \A i \in DOMAIN t : Press(t[i]) => i = 1 /\ ~After(Coming, LockKey, K!IsHeld(LockKey))
      PROVE  EventsAlternate'
  BY <1>5, ComingFacts, EventsMore, AlternateMonotone DEF EventsAlternate
<1>6. \A m : LET e == K!KeyEvent(m, FALSE) IN ~Press(e)
  BY DEF K!KeyEvent, Press
<1>7. /\ K!Releases(table) \in Seq(Event)
      /\ \A i \in DOMAIN K!Releases(table) : ~Press(K!Releases(table)[i])
  <2>1. table \subseteq Key /\ IsFiniteSet(table)
    BY DEF Typed, TypedClient
  <2>2. /\ K!Releases(table) \in Seq(Event)
        /\ \A i \in DOMAIN K!Releases(table) : \E m \in table : K!Releases(table)[i] = K!KeyEvent(m, FALSE)
    BY <2>1, ReleasesFacts
  <2> QED BY <1>6, <2>2
<1>8. CASE K!SynchronizeEvent
  <2>1. PICK lock \in BOOLEAN : client'.todo = K!Releases(table) \o <<K!SyncEvent(lock)>>
    BY <1>8, SynchronizeEventDoes
  <2> DEFINE e == K!SyncEvent(lock)
             t == K!Releases(table) \o <<e>>
  <2>2. e \in Event /\ ~Press(e)
    BY EventsType DEF K!SyncEvent, Press, OfLock
  <2>3. client.todo = <<>> /\ UNCHANGED <<queue, sent, server>>
    BY <1>8, SynchronizeEventDoes
  <2>4. Coming' = Coming \o t
    BY <2>1, <2>3, ComingFacts DEF Coming
  <2>5. t \in Seq(Event) /\ \A i \in DOMAIN t : ~Press(t[i])
    <3>1. t = Append(K!Releases(table), e)
      BY <1>7, <2>2
    <3> HIDE DEF t, e
    <3> QED BY <1>7, <2>2, <3>1, AppendFacts
  <2> HIDE DEF t
  <2>6. K!IsHeld(LockKey)' <=> K!IsHeld(LockKey)
    BY <2>3, HeldSame
  <2> QED BY <1>5, <2>4, <2>5, <2>6
<1>9. CASE K!ReleaseKeys
  <2>1. /\ client.todo = <<>> /\ queue' = queue \o K!Releases(table) /\ UNCHANGED <<client, sent, server>>
    BY <1>9, ReleaseKeysDoes
  <2>2. Coming = queue /\ queue \in Seq(Event)
    BY <2>1, ComingFacts
  <2>3. Coming' = Coming \o K!Releases(table)
    <3>1. Coming' = (queue \o K!Releases(table)) \o <<>>
      BY <2>1 DEF Coming
    <3>2. queue \o K!Releases(table) \in Seq(Event)
      BY <1>7, <2>2, ConcatFacts
    <3> QED BY <2>2, <3>1, <3>2
  <2>4. K!IsHeld(LockKey)' <=> K!IsHeld(LockKey)
    BY <2>1, HeldSame
  <2> QED BY <1>5, <1>7, <2>3, <2>4
<1>10. ASSUME NEW m \in Key, NEW down \in BOOLEAN, K!KeyboardEvent(m, down)
       PROVE  EventsAlternate'
  <2> DEFINE press == K!KeyEvent(PauseKey, TRUE)
             release == K!KeyEvent(PauseKey, FALSE)
             e == K!KeyEvent(m, down)
  <2>1. /\ \/ client'.todo = <<>>
           \/ client'.todo = <<press, release>>
           \/ client'.todo = <<e>> /\ (down => m \notin table)
        /\ client.runs /\ client.todo = <<>> /\ UNCHANGED <<queue, main, sent, server>>
    BY <1>10, KeyboardEventDoes
  <2>2. /\ press \in Event /\ release \in Event /\ e \in Event
        /\ ~Press(press) /\ ~Press(release)
        /\ Press(e) => m = LockKey /\ down
    BY <1>1, EventsType DEF K!AnyKey, K!KeyEvent, Press, OfLock
  <2> HIDE DEF press, release, e
  <2>3. Coming = queue /\ queue \in Seq(Event)
    BY <2>1, ComingFacts
  <2>4. Coming' = Coming \o client'.todo
    BY <2>1, <2>3 DEF Coming
  <2>5. K!IsHeld(LockKey)' <=> K!IsHeld(LockKey)
    BY <2>1, HeldSame
  <2>6. CASE client'.todo = <<>>
    <3>1. <<>> \in Seq(Event) /\ DOMAIN <<>> = {}
      OBVIOUS
    <3> QED BY <1>5, <2>4, <2>5, <2>6, <3>1
  <2>7. CASE client'.todo = <<press, release>>
    <3>1. <<press, release>> \in Seq(Event) /\ \A i \in DOMAIN <<press, release>> : ~Press(<<press, release>>[i])
      BY <2>2
    <3> QED BY <1>5, <2>4, <2>5, <2>7, <3>1
  <2>8. CASE client'.todo = <<e>> /\ (down => m \notin table)
    <3>1. <<e>> \in Seq(Event) /\ \A i \in DOMAIN <<e>> : i = 1 /\ <<e>>[i] = e
      BY <2>2
    <3>2. Press(e) => ~After(Coming, LockKey, K!IsHeld(LockKey))
      BY <2>1, <1>1, NoStuckIs, <2>2, <2>8 DEF Flow, ToCome
    <3> QED BY <1>5, <2>4, <2>5, <2>8, <3>1, <3>2
  <2> QED BY <2>1, <2>6, <2>7, <2>8
<1>11. ASSUME ~K!SynchronizeEvent, ~(\E k \in Key, down \in BOOLEAN : K!KeyboardEvent(k, down)),
              ~K!ProcessKey, ~K!ProcessSync, ~K!ReleaseKeys
       PROVE  EventsAlternate'
  BY <1>11, ComingStays, <1>3, AlternateMonotone DEF EventsAlternate
<1> QED BY <1>2, <1>4, <1>8, <1>9, <1>10, <1>11

\* An excuse is not taken back.
LEMMA ExcusedStays ==
  ASSUME Typed, Flow, K!Next, ~sync'.excused
  PROVE  ~sync.excused
<1>1. CASE Quiet
  BY <1>1, QuietSteps
<1>2. CASE K!ProcessKey
  BY <1>2, ProcessKeyDoes
<1>3. CASE K!ProcessSync
  BY <1>3, ProcessSyncDoes
<1>4. CASE K!Connected \/ K!StartAnswered
  <2>1. Repings \/ UNCHANGED sync
    BY <1>4, ConnectedDoes, StartAnsweredDoes
  <2> QED BY <2>1 DEF Repings
<1>5. CASE DeviceNews \/ K!KeyboardModifiers
  BY <1>5, DeviceNewsDoes, KeyboardModifiersDoes
<1>6. CASE K!PongReceived
  BY <1>6, PongReceivedDoes
<1>7. CASE K!SessionClosed
  BY <1>7, SessionClosedDoes
<1>8. CASE K!ServerAnswersPing
  BY <1>8, ServerAnswersPingDoes
<1>9. CASE K!ServerTakesKey
  <2>1. sync' = sync
    BY <1>9, ServerTakesKeyDoes
  <2> QED BY <2>1
<1>10. CASE K!ServerAddsKeyboard \/ K!ServerRemovesKeyboard
  BY <1>10, ServerAddsKeyboardDoes, ServerRemovesKeyboardDoes
<1> QED BY NoisyCases, <1>1, <1>2, <1>3, <1>4, <1>5, <1>6, <1>7, <1>8, <1>9, <1>10

\* What is sent with a correction.
LEMMA CorrectionFacts ==
  ASSUME Typed, K!HasKeyboard
  PROVE  /\ LockPress \in Message /\ LockRelease \in Message
         /\ Press(LockPress) /\ ~Press(LockRelease)
         /\ LockPress.type = "key" /\ LockRelease.type = "key"
         /\ Append(sent, LockPress) \in Seq(Message) /\ Len(Append(sent, LockPress)) = Len(sent) + 1
         /\ Len(sent) \in Nat /\ DOMAIN sent = 1 .. Len(sent)
         /\ LET s == Append(Append(sent, LockPress), LockRelease)
            IN  /\ s \in Seq(Message) /\ DOMAIN s = 1 .. (Len(sent) + 2) /\ Len(s) = Len(sent) + 2
                /\ \A i \in DOMAIN sent : i \in DOMAIN s /\ s[i] = sent[i]
                /\ s[Len(sent) + 1] = LockPress /\ s[Len(sent) + 2] = LockRelease
                /\ \A i \in DOMAIN s : i \in DOMAIN sent \/ i = Len(sent) + 1 \/ i = Len(sent) + 2
<1> DEFINE mid == Append(sent, LockPress)
           s == Append(mid, LockRelease)
<1>1. sent \in Seq(Message)
  BY DEF Typed, TypedWire
<1>2. /\ LockPress \in Message /\ LockRelease \in Message
      /\ Press(LockPress) /\ ~Press(LockRelease)
      /\ LockPress.type = "key" /\ LockRelease.type = "key"
  BY KeySentType, InputAssumption DEF LockPress, LockRelease, Press, OfLock, K!AnyKey
<1>3. /\ mid \in Seq(Message) /\ Len(mid) = Len(sent) + 1 /\ Len(sent) \in Nat
      /\ DOMAIN sent = 1 .. Len(sent) /\ DOMAIN mid = 1 .. (Len(sent) + 1)
      /\ \A i \in DOMAIN sent : mid[i] = sent[i]
      /\ mid[Len(sent) + 1] = LockPress
  BY <1>1, <1>2, AppendFacts
<1> HIDE DEF mid
<1>4. /\ s \in Seq(Message) /\ DOMAIN s = 1 .. (Len(mid) + 1) /\ Len(s) = Len(mid) + 1
      /\ \A i \in DOMAIN mid : s[i] = mid[i]
      /\ s[Len(mid) + 1] = LockRelease
  BY <1>2, <1>3, AppendFacts
<1> HIDE DEF s
<1>5. Len(mid) + 1 = Len(sent) + 2 /\ Len(sent) + 1 \in DOMAIN mid
  BY <1>3
<1>6. \A i \in DOMAIN sent : i \in DOMAIN mid /\ i \in 1 .. (Len(sent) + 2)
  BY <1>3
<1>7. \A i \in 1 .. (Len(sent) + 2) : i \in 1 .. Len(sent) \/ i = Len(sent) + 1 \/ i = Len(sent) + 2
  BY <1>3
<1>8. /\ DOMAIN s = 1 .. (Len(sent) + 2) /\ Len(s) = Len(sent) + 2
      /\ \A i \in DOMAIN sent : i \in DOMAIN s /\ s[i] = sent[i]
      /\ s[Len(sent) + 1] = LockPress /\ s[Len(sent) + 2] = LockRelease
  BY <1>3, <1>4, <1>5, <1>6
<1>9. \A i \in DOMAIN s : i \in DOMAIN sent \/ i = Len(sent) + 1 \/ i = Len(sent) + 2
  BY <1>3, <1>7, <1>8
<1> QED BY <1>2, <1>3, <1>4, <1>8, <1>9 DEF s, mid

\* A press that the server will not take stays until it is excused.
LEMMA DoomedStays ==
  ASSUME Typed, Flow, Keyboards, K!Next, ~K!SessionClosed, ~sync'.excused, Doomed
  PROVE  Doomed'
<1>1. /\ sent \in Seq(Message) /\ DOMAIN sent = 1 .. Len(sent) /\ server \in ServerType
  BY LenProperties DEF Typed, TypedWire
<1>2. PICK d \in DOMAIN sent : Press(sent[d]) /\ ~Current(sent[d])
  BY DEF Doomed
<1>3. sent[d].type = "key"
  BY <1>2 DEF Press, OfLock
<1>4. ASSUME NEW i \in DOMAIN sent', sent'[i] = sent[d], server'.keyboard # sent[d].keyboard
      PROVE  Doomed'
  BY <1>2, <1>4 DEF Doomed, Current
<1>5. server.keyboard # sent[d].keyboard
  BY <1>2, <1>3 DEF Current
<1>6. ASSUME server' = server, sent' = sent \/ \E msg \in Message : sent' = Append(sent, msg)
      PROVE  Doomed'
  BY <1>1, <1>6, Shifts, <1>4, <1>5
<1>7. CASE Quiet
  BY <1>6, <1>7, QuietSteps
<1>8. CASE K!ProcessKey
  <2> DEFINE msg == K!KeySent(Head(queue).key, Head(queue).down)
  <2>1. /\ sent' = IF K!HasKeyboard THEN Append(sent, msg) ELSE sent
        /\ server' = server /\ Head(queue).key \in K!AnyKey /\ Head(queue).down \in BOOLEAN
    BY <1>8, ProcessKeyDoes
  <2>2. K!HasKeyboard => msg \in Message
    BY <2>1, KeySentType
  <2> QED BY <1>6, <2>1, <2>2
<1>9. CASE K!ProcessSync
  BY <1>9, ProcessSyncDoes, <1>6, PingType DEF Typed, TypedSession, SyncType
<1>10. CASE K!Connected \/ K!StartAnswered
  BY <1>10, ConnectedDoes, StartAnsweredDoes, <1>6, PingType DEF Typed, TypedSession, SyncType,
     Repings
<1>11. CASE DeviceNews \/ K!KeyboardModifiers
  BY <1>6, <1>11, DeviceNewsDoes, KeyboardModifiersDoes
<1>12. CASE K!PongReceived
  <2>1. /\ sent' = sent \/ (K!HasKeyboard /\ sent' = Append(Append(sent, LockPress), LockRelease))
        /\ server' = server
    BY <1>12, PongReceivedDoes, ReceiveDoes DEF K!PongReceived
  <2>2. CASE K!HasKeyboard /\ sent' = Append(Append(sent, LockPress), LockRelease)
    BY <2>2, CorrectionFacts, <1>4, <1>5, <2>1
  <2> QED BY <1>6, <2>1, <2>2
<1>13. CASE K!ServerAnswersPing \/ K!ServerTakesKey
  <2>1. /\ sent # <<>> /\ sent' = Tail(sent) /\ server'.keyboard = server.keyboard
        /\ Head(sent).type = "ping" \/ (Press(Head(sent)) => Current(Head(sent)))
    BY <1>13, ServerAnswersPingDoes, ServerTakesKeyDoes DEF K!Ping
  <2>2. d # 1
    BY <1>1, <1>2, <1>3, <2>1, Shifts
  <2>3. d - 1 \in DOMAIN sent' /\ sent'[d - 1] = sent[d]
    BY <1>1, <2>1, <2>2, TailFacts
  <2> QED BY <1>4, <1>5, <2>1, <2>3
<1>14. CASE K!ServerAddsKeyboard
  BY <1>14, ServerAddsKeyboardDoes, <1>1, <1>2, <1>3, InputAssumption, <1>4 DEF Keyboards,
     ServerType
<1>15. CASE K!ServerRemovesKeyboard
  BY <1>15, ServerRemovesKeyboardDoes, <1>1, <1>2, <1>3, Shifts, MessageFacts, InputAssumption, <1>4
     DEF K!None
<1> QED BY NoisyCases, <1>7, <1>8, <1>9, <1>10, <1>11, <1>12, <1>13, <1>14, <1>15

\* The lock key is up when a press that comes next is told to the display server.
LEMMA NextPress ==
  ASSUME Typed, EventsAlternate, queue # <<>>, Press(Head(queue))
  PROVE  ~K!IsHeld(LockKey)
BY ComingFacts, TailFacts, AlternateFirst DEF Presses, Of, EventsAlternate

\* One message more.
LEMMA MessagesMore ==
  ASSUME Typed, MessagesAlternate, ~sync.excused /\ ~Doomed, server' = server,
         NEW msg \in Message, sent' = Append(sent, msg), Press(msg) => ~K!IsHeld(LockKey)
  PROVE  MessagesAlternate'
<1> DEFINE down == LockKey \in server.down
<1>1. /\ sent \in Seq(Message) /\ sent' \in Seq(Message) /\ Len(sent) \in Nat
      /\ DOMAIN sent = 1 .. Len(sent) /\ DOMAIN sent' = DOMAIN sent \cup {Len(sent) + 1}
      /\ \A i \in DOMAIN sent : sent'[i] = sent[i]
      /\ sent'[Len(sent) + 1] = msg
  BY AppendFacts DEF Typed, TypedWire
<1>2. Alternate(sent, Heard(LockKey), down)
  BY DEF MessagesAlternate
<1>3. /\ Heard(LockKey) \in SUBSET DOMAIN sent /\ Heard(LockKey)' \in SUBSET Nat
      /\ Heard(LockKey) \subseteq Heard(LockKey)'
      /\ \A i \in Heard(LockKey)' : i \in Heard(LockKey) \/ i > Len(sent)
  BY <1>1 DEF Heard, Concerns, Current
<1>4. \A j \in Presses(sent') : j \in DOMAIN sent \/ (j = Len(sent) + 1 /\ ~K!Outcome(sent, Heard(LockKey), down))
  BY <1>1, HeldIs DEF Presses
<1>5. Alternate(sent', Heard(LockKey)', down)
  BY <1>1, <1>2, <1>3, <1>4, AlternateMore
<1> QED BY <1>5 DEF MessagesAlternate

\* One message less.
LEMMA MessagesLess ==
  ASSUME Typed, MessagesAlternate, ~sync.excused /\ ~Doomed, sent # <<>>, sent' = Tail(sent),
         server'.keyboard = server.keyboard,
         LockKey \in server'.down => IF Concerns(Head(sent), LockKey) THEN Head(sent).down ELSE LockKey \in server.down
  PROVE  MessagesAlternate'
<1>1. sent \in Seq(Message)
  BY DEF Typed, TypedWire
<1>2. Alternate(sent, Heard(LockKey), LockKey \in server.down)
  BY DEF MessagesAlternate
<1>3. Heard(LockKey) \in SUBSET DOMAIN sent
  BY DEF Heard
<1>4. Heard(LockKey)' = {i \in DOMAIN Tail(sent) : i + 1 \in Heard(LockKey)}
  BY <1>1, TailFacts DEF Heard, Concerns, Current
<1>5. 1 \in Heard(LockKey) <=> Concerns(Head(sent), LockKey)
  BY <1>1, TailFacts DEF Heard
<1>6. sent[1] = Head(sent)
  BY <1>1, TailFacts
<1>7. Alternate(sent', Heard(LockKey)', IF 1 \in Heard(LockKey) THEN sent[1].down ELSE LockKey \in server.down)
  <2>1. Alternate(Tail(sent), {i \in DOMAIN Tail(sent) : i + 1 \in Heard(LockKey)},
                  IF 1 \in Heard(LockKey) THEN sent[1].down ELSE LockKey \in server.down)
    BY <1>1, <1>2, <1>3, AlternateTail
  <2> QED BY <1>4, <2>1
<1>8. LockKey \in server'.down => IF 1 \in Heard(LockKey) THEN sent[1].down ELSE LockKey \in server.down
  BY <1>5, <1>6
<1>9. Alternate(sent', Heard(LockKey)', LockKey \in server'.down)
  BY <1>7, <1>8, AlternateMonotone
<1> QED BY <1>9 DEF MessagesAlternate

\* A keyboard that nothing was sent for.
LEMMA MessagesNone ==
  ASSUME sent' = sent, \A i \in DOMAIN sent : sent[i].type = "key" => sent[i].keyboard # server'.keyboard
  PROVE  MessagesAlternate'
BY DEF MessagesAlternate, Alternate, Presses, Doomed, Current, Press, OfLock

\* Every step keeps what was sent alternating.
LEMMA MessagesStep ==
  ASSUME Typed, Flow, Keyboards, EventsAlternate, MessagesAlternate, K!Next
  PROVE  MessagesAlternate'
<1>1. /\ sent \in Seq(Message) /\ DOMAIN sent = 1 .. Len(sent) /\ server \in ServerType
      /\ sync.pending \in Nat /\ sync.last \in Nat
  BY LenProperties DEF Typed, TypedWire, TypedSession, SyncType
<1>2. CASE K!SessionClosed
  <2>1. sent' = <<>>
    BY <1>2, SessionClosedDoes
  <2> QED BY <2>1 DEF MessagesAlternate, Alternate, Presses
<1> SUFFICES ASSUME ~sync'.excused, ~Doomed', ~K!SessionClosed
             PROVE  MessagesAlternate'
  BY <1>2 DEF MessagesAlternate
<1>3. ~sync.excused /\ ~Doomed
  BY ExcusedStays, DoomedStays
<1>4. ASSUME UNCHANGED <<sent, server>>
      PROVE  MessagesAlternate'
  BY <1>4, <1>3 DEF Heard, Concerns, Current, MessagesAlternate
<1>5. ASSUME NEW n \in Nat, sent' = Append(sent, K!Ping(n)), server' = server
      PROVE  MessagesAlternate'
  BY PingType, <1>3, <1>5, MessagesMore DEF Press, OfLock
<1>6. CASE Quiet
  BY <1>4, <1>6, QuietSteps
<1>7. CASE K!ProcessKey
  <2> DEFINE e == Head(queue)
             msg == K!KeySent(e.key, e.down)
  <2>1. /\ queue # <<>> /\ sent' = IF K!HasKeyboard THEN Append(sent, msg) ELSE sent
        /\ server' = server /\ e.key \in K!AnyKey /\ e.down \in BOOLEAN /\ e.type = "key"
    BY <1>7, ProcessKeyDoes
  <2>2. ASSUME K!HasKeyboard
        PROVE  msg \in Message /\ (Press(msg) => ~K!IsHeld(LockKey))
    BY <2>1, <2>2, KeySentType, NextPress DEF Press, OfLock
  <2> HIDE DEF msg
  <2> QED BY <1>3, <1>4, <2>1, <2>2, MessagesMore
<1>8. CASE K!ProcessSync  BY <1>8, ProcessSyncDoes, <1>1, <1>4, <1>5
<1>9. CASE K!Connected \/ K!StartAnswered
  BY <1>9, ConnectedDoes, StartAnsweredDoes, <1>1, <1>4, <1>5 DEF Repings
<1>10. CASE DeviceNews \/ K!KeyboardModifiers
  BY <1>4, <1>10, DeviceNewsDoes, KeyboardModifiersDoes
<1>11. CASE K!PongReceived
  <2> DEFINE n == Head(events).sync
             corrects == sync.expected # sync.reported
  <2>1. /\ n \in sync.cancelled => UNCHANGED <<sync, sent>>
        /\ n \notin sync.cancelled =>
             /\ ~sync'.excused => sync.valid /\ (corrects => K!HasKeyboard /\ ~K!IsHeld(LockKey))
             /\ IF corrects /\ K!HasKeyboard
                THEN sent' = Append(Append(sent, LockPress), LockRelease) ELSE sent' = sent
        /\ server' = server
    BY <1>11, PongReceivedDoes, ReceiveDoes DEF K!PongReceived
  <2>2. \/ sent' = sent
        \/ /\ K!HasKeyboard /\ ~K!IsHeld(LockKey)
           /\ sent' = Append(Append(sent, LockPress), LockRelease)
    BY <2>1
  <2>3. CASE /\ K!HasKeyboard /\ ~K!IsHeld(LockKey)
             /\ sent' = Append(Append(sent, LockPress), LockRelease)
    <3> DEFINE down == LockKey \in server.down
    <3>1. /\ sent' \in Seq(Message) /\ DOMAIN sent' = 1 .. (Len(sent) + 2) /\ Len(sent) \in Nat
          /\ \A i \in DOMAIN sent : i \in DOMAIN sent' /\ sent'[i] = sent[i]
          /\ sent'[Len(sent) + 1] = LockPress /\ sent'[Len(sent) + 2] = LockRelease
          /\ ~Press(LockRelease)
          /\ \A i \in DOMAIN sent' : i \in DOMAIN sent \/ i = Len(sent) + 1 \/ i = Len(sent) + 2
      BY <2>3, CorrectionFacts
    <3>2. Alternate(sent, Heard(LockKey), down)
      BY <1>3 DEF MessagesAlternate
    <3>3. /\ Heard(LockKey) \in SUBSET DOMAIN sent
          /\ Heard(LockKey) \subseteq Heard(LockKey)'
          /\ \A i \in Heard(LockKey)' : i \in Heard(LockKey) \/ i > Len(sent)
      BY <2>1, <3>1 DEF Heard, Concerns, Current
    <3>4. Heard(LockKey)' \in SUBSET Nat
      BY <3>1 DEF Heard
    <3>5. \A j \in Presses(sent') : j \in DOMAIN sent \/ (j = Len(sent) + 1 /\ ~K!Outcome(sent, Heard(LockKey), down))
      BY <2>3, <3>1, HeldIs DEF Presses
    <3>6. Alternate(sent', Heard(LockKey)', down)
      BY <1>1, <3>1, <3>2, <3>3, <3>4, <3>5, AlternateMore
    <3> QED BY <2>1, <3>6 DEF MessagesAlternate
  <2> QED BY <1>4, <2>1, <2>2, <2>3
<1>12. CASE K!ServerAnswersPing
  BY <1>12, ServerAnswersPingDoes, <1>3, MessagesLess DEF K!Ping, Concerns, Current
<1>13. CASE K!ServerTakesKey
  <2> DEFINE msg == Head(sent)
  <2>1. /\ sent # <<>> /\ sent' = Tail(sent) /\ server'.keyboard = server.keyboard
        /\ server'.down = IF ~Current(msg) THEN server.down
                          ELSE IF msg.down THEN server.down \cup {msg.key}
                          ELSE server.down \ {msg.key}
    BY <1>13, ServerTakesKeyDoes
  <2>2. LockKey \in server'.down => IF Concerns(msg, LockKey) THEN msg.down ELSE LockKey \in server.down
    BY <2>1 DEF Concerns
  <2> QED BY <1>3, <2>1, <2>2, MessagesLess
<1>14. CASE K!ServerAddsKeyboard
  <2>1. server'.keyboard = server.plugs + 1 /\ sent' = sent
    BY <1>14, ServerAddsKeyboardDoes
  <2>2. \A i \in DOMAIN sent : sent[i].type = "key" => sent[i].keyboard <= server.plugs
    BY DEF Keyboards
  <2>3. server.plugs \in Nat /\ MaxPlugs \in Nat
    BY <1>1, InputAssumption DEF ServerType
  <2>4. \A i \in DOMAIN sent : sent[i].type = "key" => sent[i].keyboard # server'.keyboard
    <3> TAKE i \in DOMAIN sent
    <3> HAVE sent[i].type = "key"
    <3>1. sent[i].keyboard \in 1 .. MaxPlugs
      BY <1>1, Shifts, MessageFacts
    <3> QED BY <2>1, <2>2, <2>3, <3>1
  <2> QED BY <2>1, <2>4, MessagesNone
<1>15. CASE K!ServerRemovesKeyboard
  <2>1. server'.keyboard = K!None /\ sent' = sent
    BY <1>15, ServerRemovesKeyboardDoes
  <2>2. \A i \in DOMAIN sent : sent[i].type = "key" => sent[i].keyboard # server'.keyboard
    <3> TAKE i \in DOMAIN sent
    <3> HAVE sent[i].type = "key"
    <3>1. sent[i].keyboard \in 1 .. MaxPlugs
      BY <1>1, Shifts, MessageFacts
    <3> QED BY <2>1, <3>1, InputAssumption DEF K!None
  <2> QED BY <2>1, <2>2, MessagesNone
<1> QED BY NoisyCases, <1>6, <1>7, <1>8, <1>9, <1>10, <1>11, <1>12, <1>13, <1>14, <1>15

-----------------------------------------------------------------------------
(* The lock. *)

\* After which of the messages the lock is on, and after which of the news the
\* session was told that it is (or is not): 0 stands for what is so already.
Path(s, lock, L) ==
  /\ 0 \in L <=> lock
  /\ \A i \in DOMAIN s : i \in L <=> IF Press(s[i]) THEN i - 1 \notin L ELSE i - 1 \in L
Report(s, told, lock, B) ==
  /\ 0 \in B <=> told
  /\ \A i \in DOMAIN s : i \in B <=> IF s[i].type = "modifiers" THEN s[i].lock = lock ELSE i - 1 \in B

Reports(On, Off) ==
  /\ Report(events, sync.valid /\ sync.reported, TRUE, On)
  /\ Report(events, sync.valid /\ ~sync.reported, FALSE, Off)
  /\ Len(events) \in On => server.lock
  /\ Len(events) \in Off => ~server.lock

\* The lock will be as it should, but for what the pending synchronization corrects when
\* its ping is answered: then the session compares what it was told with what is expected.
Owed == ~(sync.due <=> sync.expected)
LockFollows(L, On, Off) ==
  sync.last > 0 =>
    /\ sync.pending = K!None => (Len(sent) \in L <=> sync.due)
    /\ sync.pending # K!None =>
         /\ ~Asked(sync.pending) /\ ~Answered(sync.pending) => ~Owed
         /\ \A p \in DOMAIN sent : sent[p] = K!Ping(sync.pending) =>
              (Owed <=> ~(Len(sent) \in L <=> p \in L))
         /\ \A q \in DOMAIN events : events[q] = K!Pong(sync.pending) =>
              /\ q \in On => (Owed <=> Len(sent) \notin L)
              /\ q \in Off => (Owed <=> Len(sent) \in L)

LockIs(L, On, Off) == Path(sent, server.lock, L) /\ Reports(On, Off) /\ LockFollows(L, On, Off)
Lock ==
  main \in {"loop", "drain"} /\ ~sync.excused /\ ~Doomed => \E L, On, Off : LockIs(L, On, Off)

\* The lock after one more message.
LEMMA PathAppend ==
  ASSUME NEW S, NEW s \in Seq(S), NEW e \in S, NEW lock, NEW L, Path(s, lock, L)
  PROVE  \E M : /\ Path(Append(s, e), lock, M)
                /\ \A i \in 0 .. Len(s) : i \in M <=> i \in L
                /\ Len(s) + 1 \in M <=> IF Press(e) THEN Len(s) \notin L ELSE Len(s) \in L
<1> DEFINE n == Len(s)
           on == IF Press(e) THEN n \notin L ELSE n \in L
           M == {i \in 0 .. (n + 1) : IF i = n + 1 THEN on ELSE i \in L}
           t == Append(s, e)
<1>1. /\ n \in Nat /\ DOMAIN s = 1 .. n /\ DOMAIN t = 1 .. (n + 1)
      /\ \A i \in DOMAIN s : t[i] = s[i]
      /\ t[n + 1] = e
  BY AppendFacts
<1> HIDE DEF n, t
<1>2. \A i \in 0 .. n : i \in M <=> i \in L
  BY <1>1
<1>3. n + 1 \in M <=> on
  BY <1>1
<1>4. 0 \in M <=> lock
  BY <1>1, <1>2 DEF Path
<1> HIDE DEF M
<1>5. ASSUME NEW i \in DOMAIN t
      PROVE  i \in M <=> IF Press(t[i]) THEN i - 1 \notin M ELSE i - 1 \in M
  <2>1. CASE i \in DOMAIN s  BY <1>1, <2>1, <1>2 DEF Path
  <2>2. CASE i = n + 1  BY <1>1, <2>2, <1>2, <1>3
  <2> QED BY <1>1, <2>1, <2>2
<1>6. Path(t, lock, M)
  BY <1>4, <1>5 DEF Path
<1> QED BY <1>2, <1>3, <1>6 DEF n, t

\* The lock after the first message.
LEMMA PathTail ==
  ASSUME NEW S, NEW s \in Seq(S), s # <<>>, NEW lock, NEW L, Path(s, lock, L)
  PROVE  \E M : /\ Path(Tail(s), IF Press(Head(s)) THEN ~lock ELSE lock, M)
                /\ \A i \in Nat : i \in M <=> i + 1 \in L
<1> DEFINE M == {i \in Nat : i + 1 \in L}
           t == Tail(s)
<1>1. /\ 1 \in DOMAIN s /\ Head(s) = s[1]
      /\ \A i \in DOMAIN t : i \in Nat \ {0} /\ i + 1 \in DOMAIN s /\ t[i] = s[i + 1]
  BY TailFacts
<1> HIDE DEF t
<1>2. \A i \in Nat : i \in M <=> i + 1 \in L
  OBVIOUS
<1> HIDE DEF M
<1>3. 0 \in M <=> IF Press(Head(s)) THEN ~lock ELSE lock  BY <1>1, <1>2 DEF Path
<1>4. ASSUME NEW i \in DOMAIN t
      PROVE  i \in M <=> IF Press(t[i]) THEN i - 1 \notin M ELSE i - 1 \in M
  <2>1. i \in Nat /\ i - 1 \in Nat /\ (i + 1) - 1 = i /\ (i - 1) + 1 = i
    BY <1>1
  <2>2. i + 1 \in L <=> IF Press(s[i + 1]) THEN (i + 1) - 1 \notin L ELSE (i + 1) - 1 \in L
    BY <1>1 DEF Path
  <2> QED BY <1>1, <1>2, <2>1, <2>2
<1>5. Path(t, IF Press(Head(s)) THEN ~lock ELSE lock, M)
  BY <1>3, <1>4 DEF Path
<1> QED BY <1>2, <1>5 DEF t

\* What the session was told with one more of the news.
LEMMA ReportAppend ==
  ASSUME NEW S, NEW s \in Seq(S), NEW e \in S, NEW told, NEW lock, NEW B, Report(s, told, lock, B)
  PROVE  \E C : /\ Report(Append(s, e), told, lock, C)
                /\ \A i \in 0 .. Len(s) : i \in C <=> i \in B
                /\ Len(s) + 1 \in C <=> IF e.type = "modifiers" THEN e.lock = lock ELSE Len(s) \in B
<1> DEFINE n == Len(s)
           on == IF e.type = "modifiers" THEN e.lock = lock ELSE n \in B
           C == {i \in 0 .. (n + 1) : IF i = n + 1 THEN on ELSE i \in B}
           t == Append(s, e)
<1>1. /\ n \in Nat /\ DOMAIN s = 1 .. n /\ DOMAIN t = 1 .. (n + 1)
      /\ \A i \in DOMAIN s : t[i] = s[i]
      /\ t[n + 1] = e
  BY AppendFacts
<1> HIDE DEF n, t
<1>2. \A i \in 0 .. n : i \in C <=> i \in B
  BY <1>1
<1>3. n + 1 \in C <=> on
  BY <1>1
<1>4. 0 \in C <=> told
  BY <1>1, <1>2 DEF Report
<1> HIDE DEF C
<1>5. ASSUME NEW i \in DOMAIN t
      PROVE  i \in C <=> IF t[i].type = "modifiers" THEN t[i].lock = lock ELSE i - 1 \in C
  <2>1. CASE i \in DOMAIN s  BY <1>1, <2>1, <1>2 DEF Report
  <2>2. CASE i = n + 1  BY <1>1, <2>2, <1>2, <1>3
  <2> QED BY <1>1, <2>1, <2>2
<1>6. Report(t, told, lock, C)
  BY <1>4, <1>5 DEF Report
<1> QED BY <1>2, <1>3, <1>6 DEF n, t

\* What the session was told with the first of the news.
LEMMA ReportTail ==
  ASSUME NEW S, NEW s \in Seq(S), s # <<>>, NEW told, NEW lock, NEW B, Report(s, told, lock, B)
  PROVE  \E C : /\ Report(Tail(s), IF Head(s).type = "modifiers" THEN Head(s).lock = lock ELSE told, lock, C)
                /\ \A i \in Nat : i \in C <=> i + 1 \in B
<1> DEFINE C == {i \in Nat : i + 1 \in B}
           t == Tail(s)
<1>1. /\ 1 \in DOMAIN s /\ Head(s) = s[1]
      /\ \A i \in DOMAIN t : i \in Nat \ {0} /\ i + 1 \in DOMAIN s /\ t[i] = s[i + 1]
  BY TailFacts
<1> HIDE DEF t
<1>2. \A i \in Nat : i \in C <=> i + 1 \in B
  OBVIOUS
<1> HIDE DEF C
<1>3. 0 \in C <=> IF Head(s).type = "modifiers" THEN Head(s).lock = lock ELSE told
  BY <1>1, <1>2 DEF Report
<1>4. ASSUME NEW i \in DOMAIN t
      PROVE  i \in C <=> IF t[i].type = "modifiers" THEN t[i].lock = lock ELSE i - 1 \in C
  <2>1. i \in Nat /\ i - 1 \in Nat /\ (i + 1) - 1 = i /\ (i - 1) + 1 = i
    BY <1>1
  <2>2. i + 1 \in B <=> IF s[i + 1].type = "modifiers" THEN s[i + 1].lock = lock ELSE (i + 1) - 1 \in B
    BY <1>1 DEF Report
  <2> QED BY <1>1, <1>2, <2>1, <2>2
<1>5. Report(t, IF Head(s).type = "modifiers" THEN Head(s).lock = lock ELSE told, lock, C)
  BY <1>3, <1>4 DEF Report
<1> QED BY <1>2, <1>5 DEF t

\* Only the truth of what was told counts.
LEMMA ReportCongruent ==
  ASSUME NEW s, NEW told, NEW heard, NEW lock, NEW B, Report(s, told, lock, B), told <=> heard
  PROVE  Report(s, heard, lock, B)
BY DEF Report

\* Only the truth of the lock counts.
LEMMA PathCongruent ==
  ASSUME NEW s, NEW on, NEW lock, NEW L, Path(s, on, L), on <=> lock
  PROVE  Path(s, lock, L)
BY DEF Path

\* What the session was told when it received the first of the news, and with one more.
LEMMA ReportsLess ==
  ASSUME Typed, NEW On, NEW Off, Reports(On, Off), events # <<>>, events' = Tail(events),
         server'.lock = server.lock,
         (sync'.valid /\ sync'.reported) <=>
           IF Head(events).type = "modifiers" THEN Head(events).lock = TRUE ELSE sync.valid /\ sync.reported,
         (sync'.valid /\ ~sync'.reported) <=>
           IF Head(events).type = "modifiers" THEN Head(events).lock = FALSE ELSE sync.valid /\ ~sync.reported
  PROVE  \E B, C : /\ Reports(B, C)'
                   /\ \A i \in Nat : (i \in B <=> i + 1 \in On) /\ (i \in C <=> i + 1 \in Off)
<1>1. /\ events \in Seq(News) /\ Len(events) \in Nat \ {0} /\ Len(events') = Len(events) - 1
  BY TailFacts DEF Typed, TypedWire
<1>2. PICK B : /\ Report(Tail(events), IF Head(events).type = "modifiers" THEN Head(events).lock = TRUE
                                       ELSE sync.valid /\ sync.reported, TRUE, B)
               /\ \A i \in Nat : i \in B <=> i + 1 \in On
  BY <1>1, ReportTail DEF Reports
<1>3. PICK C : /\ Report(Tail(events), IF Head(events).type = "modifiers" THEN Head(events).lock = FALSE
                                       ELSE sync.valid /\ ~sync.reported, FALSE, C)
               /\ \A i \in Nat : i \in C <=> i + 1 \in Off
  BY <1>1, ReportTail DEF Reports
<1>4. Report(events', sync'.valid /\ sync'.reported, TRUE, B)
  BY <1>2, ReportCongruent
<1>5. Report(events', sync'.valid /\ ~sync'.reported, FALSE, C)
  BY <1>3, ReportCongruent
<1>6. Len(events') \in Nat /\ Len(events') + 1 = Len(events)
  BY <1>1
<1>7. (Len(events') \in B <=> Len(events) \in On) /\ (Len(events') \in C <=> Len(events) \in Off)
  BY <1>2, <1>3, <1>6
<1>8. Reports(B, C)'
  BY <1>4, <1>5, <1>7 DEF Reports
<1> QED BY <1>2, <1>3, <1>8

\* One more of the news, which has the lock as it is now if it has it.
LEMMA ReportsMore ==
  ASSUME Typed, NEW On, NEW Off, Reports(On, Off), NEW e \in News, events' = Append(events, e),
         sync'.valid = sync.valid, sync'.reported = sync.reported, server'.lock \in BOOLEAN,
         IF e.type = "modifiers" THEN e.lock = server'.lock ELSE server'.lock = server.lock
  PROVE  \E B, C : /\ Reports(B, C)'
                   /\ \A i \in 0 .. Len(events) : (i \in B <=> i \in On) /\ (i \in C <=> i \in Off)
                   /\ e.type # "modifiers" => /\ Len(events) + 1 \in B => server.lock
                                              /\ Len(events) + 1 \in C => ~server.lock
<1>1. /\ events \in Seq(News) /\ Len(events) \in Nat /\ Len(events') = Len(events) + 1
  BY AppendFacts DEF Typed, TypedWire
<1> DEFINE on == sync.valid /\ sync.reported
           off == sync.valid /\ ~sync.reported
<1>0. Report(events, on, TRUE, On) /\ Report(events, off, FALSE, Off)
  BY DEF Reports
<1> HIDE DEF on, off
<1>a. \A told, lock, B : Report(events, told, lock, B) =>
        \E C : /\ Report(Append(events, e), told, lock, C)
               /\ \A i \in 0 .. Len(events) : i \in C <=> i \in B
               /\ Len(events) + 1 \in C <=> IF e.type = "modifiers" THEN e.lock = lock ELSE Len(events) \in B
  BY <1>1, ReportAppend
<1>2. PICK B : /\ Report(Append(events, e), on, TRUE, B)
               /\ \A i \in 0 .. Len(events) : i \in B <=> i \in On
               /\ Len(events) + 1 \in B <=> IF e.type = "modifiers" THEN e.lock = TRUE ELSE Len(events) \in On
  BY <1>0, <1>a
<1>3. PICK C : /\ Report(Append(events, e), off, FALSE, C)
               /\ \A i \in 0 .. Len(events) : i \in C <=> i \in Off
               /\ Len(events) + 1 \in C <=> IF e.type = "modifiers" THEN e.lock = FALSE ELSE Len(events) \in Off
  BY <1>0, <1>a
<1>4. Report(events', sync'.valid /\ sync'.reported, TRUE, B)
  BY <1>2, ReportCongruent DEF on
<1>5. Report(events', sync'.valid /\ ~sync'.reported, FALSE, C)
  BY <1>3, ReportCongruent DEF off
<1>6. (Len(events) \in On => server.lock) /\ (Len(events) \in Off => ~server.lock)
  BY DEF Reports
<1>7. /\ Len(events) + 1 \in B => server'.lock
      /\ Len(events) + 1 \in C => ~server'.lock
  BY <1>2, <1>3, <1>6
<1>8. Reports(B, C)'
  BY <1>1, <1>4, <1>5, <1>7 DEF Reports
<1>9. e.type # "modifiers" => /\ Len(events) + 1 \in B => server.lock
                              /\ Len(events) + 1 \in C => ~server.lock
  BY <1>2, <1>3, <1>6
<1> QED BY <1>2, <1>3, <1>8, <1>9

\* No news.
LEMMA ReportsSame ==
  ASSUME NEW On, NEW Off, Reports(On, Off), events' = events, server'.lock = server.lock,
         sync'.valid = sync.valid, sync'.reported = sync.reported
  PROVE  Reports(On, Off)'
BY DEF Reports

\* A keyboard that comes is told of with the lock.
LEMMA ReportsKeyboard ==
  ASSUME Typed, NEW On, NEW Off, Reports(On, Off), K!ServerAddsKeyboard
  PROVE  \E B, C : /\ Reports(B, C)'
                   /\ \A i \in 0 .. Len(events) : (i \in B <=> i \in On) /\ (i \in C <=> i \in Off)
<1> DEFINE new == server.plugs + 1
           mid == Append(events, Added(new))
           more == Append(mid, Resumed(new))
           last == Modifiers(server.lock)
           n == Len(events)
<1>1. events \in Seq(News)
  BY DEF Typed, TypedWire
<1>2. /\ Added(new) \in News /\ Resumed(new) \in News /\ last \in News
      /\ events' = Append(more, last)
      /\ server'.lock = server.lock /\ sync' = sync /\ server.lock \in BOOLEAN
  BY ServerAddsKeyboardDoes DEF Typed, TypedWire, ServerType
<1>3. Len(events') = n + 3 /\ n \in Nat
  BY KeyboardTold
<1>4. mid \in Seq(News) /\ Len(mid) = n + 1
  BY <1>1, <1>2, AppendFacts
<1>5. more \in Seq(News) /\ Len(more) = n + 2
  <2> HIDE DEF mid
  <2>1. more \in Seq(News) /\ Len(more) = Len(mid) + 1
    BY <1>2, <1>4, AppendFacts
  <2> QED BY <1>3, <1>4, <2>1
<1>6. last.type = "modifiers" /\ last.lock = server.lock
  BY DEF Modifiers
<1>7. \A told, lock, B : Report(events, told, lock, B) =>
        \E C : /\ Report(events', told, lock, C)
               /\ \A i \in 0 .. n : i \in C <=> i \in B
               /\ n + 3 \in C <=> server.lock = lock
  <2> TAKE told, lock, B
  <2> HAVE Report(events, told, lock, B)
  <2>1. PICK C : Report(mid, told, lock, C) /\ \A i \in 0 .. n : i \in C <=> i \in B
    BY <1>1, <1>2, ReportAppend
  <2> HIDE DEF mid
  <2>2. PICK D : Report(more, told, lock, D) /\ \A i \in 0 .. Len(mid) : i \in D <=> i \in C
    BY <1>2, <1>4, <2>1, ReportAppend
  <2> HIDE DEF more, last
  <2>3. PICK E : /\ Report(events', told, lock, E) /\ \A i \in 0 .. Len(more) : i \in E <=> i \in D
                 /\ Len(more) + 1 \in E <=> last.lock = lock
    BY <1>2, <1>5, <1>6, <2>2, ReportAppend
  <2>4. \A i \in 0 .. n : i \in 0 .. Len(mid) /\ i \in 0 .. Len(more)
    BY <1>3, <1>4, <1>5
  <2>5. n + 3 \in E <=> server.lock = lock
    <3>1. Len(more) + 1 = n + 3
      BY <1>3, <1>5
    <3> QED BY <1>6, <2>3, <3>1
  <2> QED BY <2>1, <2>2, <2>3, <2>4, <2>5
<1> DEFINE on == sync.valid /\ sync.reported
           off == sync.valid /\ ~sync.reported
<1>0. Report(events, on, TRUE, On) /\ Report(events, off, FALSE, Off)
  BY DEF Reports
<1> HIDE DEF n, on, off
<1>8. PICK B : /\ Report(events', on, TRUE, B)
               /\ \A i \in 0 .. n : i \in B <=> i \in On
               /\ n + 3 \in B <=> server.lock = TRUE
  BY <1>0, <1>7
<1>9. PICK C : /\ Report(events', off, FALSE, C)
               /\ \A i \in 0 .. n : i \in C <=> i \in Off
               /\ n + 3 \in C <=> server.lock = FALSE
  BY <1>0, <1>7
<1>10. Report(events', sync'.valid /\ sync'.reported, TRUE, B) /\ Report(events', sync'.valid /\ ~sync'.reported, FALSE, C)
  BY <1>2, <1>8, <1>9, ReportCongruent DEF on, off
<1>11. Reports(B, C)'
  BY <1>2, <1>3, <1>8, <1>9, <1>10 DEF Reports
<1> QED BY <1>8, <1>9, <1>11 DEF n

\* Nothing is sent, received or told.
LEMMA LockSame ==
  ASSUME NEW L, NEW On, NEW Off, LockIs(L, On, Off), UNCHANGED <<sent, events>>,
         server'.lock = server.lock,
         sync'.valid = sync.valid, sync'.reported = sync.reported,
         sync'.pending = sync.pending, sync'.last = sync.last,
         sync'.due = sync.due, sync'.expected = sync.expected
  PROVE  LockIs(L, On, Off)'
BY ReportsSame DEF LockIs, LockFollows, Owed, Asked, Answered

\* A key is sent: it toggles the lock, and what is due, or neither.
LEMMA FollowsMore ==
  ASSUME Typed, NEW L, NEW On, NEW Off, LockFollows(L, On, Off), events' = events,
         NEW msg \in Message, msg.type = "key", sent' = Append(sent, msg), NEW M,
         \A i \in 0 .. Len(sent) : i \in M <=> i \in L,
         NEW toggles, Len(sent) + 1 \in M <=> IF toggles THEN Len(sent) \notin L ELSE Len(sent) \in L,
         sync'.due <=> IF toggles THEN ~sync.due ELSE sync.due,
         sync'.pending = sync.pending, sync'.last = sync.last, sync'.expected = sync.expected,
         toggles /\ sync.pending # K!None => Asked(sync.pending) \/ Answered(sync.pending)
  PROVE  LockFollows(M, On, Off)'
<1> DEFINE n == Len(sent)
           ping == K!Ping(sync.pending)
<1>1. /\ sent \in Seq(Message) /\ n \in Nat /\ DOMAIN sent = 1 .. n /\ Len(sent') = n + 1
      /\ \A i \in DOMAIN sent' : (i \in DOMAIN sent /\ sent'[i] = sent[i]) \/ (i = n + 1 /\ sent'[i] = msg)
      /\ \A i \in DOMAIN sent : i \in DOMAIN sent' /\ sent'[i] = sent[i] /\ i \in 0 .. n
  BY AppendFacts DEF Typed, TypedWire
<1>2. msg # ping /\ ping = K!Ping(sync'.pending)
  BY DEF K!Ping
<1> HIDE DEF ping
<1>3. (Asked(sync.pending)' <=> Asked(sync.pending)) /\ (Answered(sync.pending)' <=> Answered(sync.pending))
  BY <1>1, <1>2 DEF Asked, Answered, ping
<1> SUFFICES ASSUME sync.last > 0
             PROVE  /\ sync.pending = K!None => (n + 1 \in M <=> sync'.due)
                    /\ sync.pending # K!None =>
                         /\ ~Asked(sync.pending) /\ ~Answered(sync.pending) => ~Owed'
                         /\ \A p \in DOMAIN sent' : sent'[p] = ping =>
                              (Owed' <=> ~(n + 1 \in M <=> p \in M))
                         /\ \A q \in DOMAIN events : events[q] = K!Pong(sync.pending) =>
                              /\ q \in On => (Owed' <=> n + 1 \notin M)
                              /\ q \in Off => (Owed' <=> n + 1 \in M)
  BY <1>1, <1>2, <1>3 DEF LockFollows
<1>4. Owed' <=> IF toggles THEN ~Owed ELSE Owed
  BY DEF Owed
<1>5. n + 1 \in M <=> IF toggles THEN n \notin L ELSE n \in L
  OBVIOUS
<1> HIDE DEF n
<1>6. ASSUME sync.pending = K!None
      PROVE  n + 1 \in M <=> sync'.due
  <2>1. n \in L <=> sync.due
    BY <1>6 DEF LockFollows, n
  <2> QED BY <1>5, <2>1
<1>7. ASSUME sync.pending # K!None
      PROVE  /\ ~Asked(sync.pending) /\ ~Answered(sync.pending) => ~Owed
             /\ \A p \in DOMAIN sent : sent[p] = ping => (Owed <=> ~(n \in L <=> p \in L))
             /\ \A q \in DOMAIN events : events[q] = K!Pong(sync.pending) =>
                  /\ q \in On => (Owed <=> n \notin L)
                  /\ q \in Off => (Owed <=> n \in L)
  BY <1>7 DEF LockFollows, n, ping
<1>8. ASSUME sync.pending # K!None
      PROVE  /\ ~Asked(sync.pending) /\ ~Answered(sync.pending) => ~Owed'
             /\ \A p \in DOMAIN sent' : sent'[p] = ping => (Owed' <=> ~(n + 1 \in M <=> p \in M))
             /\ \A q \in DOMAIN events : events[q] = K!Pong(sync.pending) =>
                  /\ q \in On => (Owed' <=> n + 1 \notin M)
                  /\ q \in Off => (Owed' <=> n + 1 \in M)
  <2>1. ~Asked(sync.pending) /\ ~Answered(sync.pending) => ~Owed'
    BY <1>4, <1>7, <1>8
  <2>2. ASSUME NEW p \in DOMAIN sent', sent'[p] = ping
        PROVE  Owed' <=> ~(n + 1 \in M <=> p \in M)
    BY <1>1, <1>2, <2>2, <1>7, <1>8, <1>4, <1>5 DEF n
  <2>3. ASSUME NEW q \in DOMAIN events, events[q] = K!Pong(sync.pending)
        PROVE  /\ q \in On => (Owed' <=> n + 1 \notin M)
               /\ q \in Off => (Owed' <=> n + 1 \in M)
    BY <1>4, <1>5, <1>7, <1>8, <2>3
  <2> QED BY <2>1, <2>2, <2>3
<1> QED BY <1>6, <1>8

\* A key is taken from the queue: the lock key toggles what is due and what will be.
LEMMA LockProcessKey ==
  ASSUME Typed, NEW L, NEW On, NEW Off, LockIs(L, On, Off), K!ProcessKey, ~sync'.excused
  PROVE  \E M, B, C : LockIs(M, B, C)'
<1> DEFINE e == Head(queue)
           msg == K!KeySent(e.key, e.down)
<1>1. /\ e.key \in K!AnyKey /\ e.down \in BOOLEAN /\ e.type = "key"
      /\ sent' = IF K!HasKeyboard THEN Append(sent, msg) ELSE sent
      /\ sync'.pending = sync.pending /\ sync'.last = sync.last
      /\ sync'.expected = sync.expected /\ sync'.reported = sync.reported /\ sync'.valid = sync.valid
      /\ Press(e) => /\ sync'.due = ~sync.due /\ K!HasKeyboard
                     /\ sync.pending # K!None => K!Outstanding(sync.pending)
      /\ ~Press(e) => sync'.due = sync.due
      /\ events' = events /\ server' = server
  BY ProcessKeyDoes
<1>2. K!HasKeyboard => msg \in Message /\ msg.type = "key" /\ (Press(msg) <=> Press(e))
  BY <1>1, KeySentType DEF Press, OfLock
<1>3. CASE ~K!HasKeyboard
  <2>1. LockIs(L, On, Off)'
    BY <1>1, <1>3, LockSame
  <2> QED BY <2>1
<1>4. CASE K!HasKeyboard
  <2>1. sent \in Seq(Message)
    BY DEF Typed, TypedWire
  <2> HIDE DEF msg, e
  <2>2. PICK M : /\ Path(Append(sent, msg), server.lock, M)
                 /\ \A i \in 0 .. Len(sent) : i \in M <=> i \in L
                 /\ Len(sent) + 1 \in M <=> IF Press(msg) THEN Len(sent) \notin L ELSE Len(sent) \in L
    BY <1>2, <1>4, <2>1, PathAppend DEF LockIs
  <2>3. Path(sent', server'.lock, M)
    BY <1>1, <1>4, <2>2
  <2>4. Reports(On, Off)'
    BY <1>1, ReportsSame DEF LockIs
  <2>5. sync'.due <=> IF Press(msg) THEN ~sync.due ELSE sync.due
    BY <1>1, <1>2, <1>4
  <2>6. Press(msg) /\ sync.pending # K!None => Asked(sync.pending) \/ Answered(sync.pending)
    BY <1>1, <1>2, <1>4, OutstandingIs
  <2>7. LockFollows(M, On, Off)'
    BY <1>1, <1>2, <1>4, <2>2, <2>5, <2>6, FollowsMore DEF LockIs
  <2>8. LockIs(M, On, Off)'
    BY <2>3, <2>4, <2>7 DEF LockIs
  <2> QED BY <2>8
<1> QED BY <1>3, <1>4

\* A ping is sent that none was sent or answered for: nothing is owed.
LEMMA LockPing ==
  ASSUME Typed, NEW L, Path(sent, server.lock, L), NEW B, NEW C, Reports(B, C)',
         NEW msg \in Message, msg = K!Ping(sync'.pending), sent' = Append(sent, msg),
         server'.lock = server.lock, sync'.due = sync'.expected, sync'.pending # K!None,
         \A i \in DOMAIN sent : sent[i] # msg,
         \A i \in DOMAIN events' : events'[i] # K!Pong(sync'.pending)
  PROVE  \E M : LockIs(M, B, C)'
<1> DEFINE n == Len(sent)
<1>1. sent \in Seq(Message)
  BY DEF Typed, TypedWire
<1>2. PICK M : Path(Append(sent, msg), server.lock, M)
  BY <1>1, PathAppend
<1>3. Path(sent', server'.lock, M)
  BY <1>2
<1>4. /\ DOMAIN sent' = DOMAIN sent \cup {n + 1} /\ sent'[n + 1] = msg /\ Len(sent') = n + 1
      /\ \A i \in DOMAIN sent : sent'[i] = sent[i]
  BY <1>1, AppendFacts
<1>5. \A p \in DOMAIN sent' : sent'[p] = K!Ping(sync'.pending) => p = Len(sent')
  BY <1>4
<1>6. ~Owed'
  BY DEF Owed
<1>7. LockFollows(M, B, C)'
  BY <1>5, <1>6 DEF LockFollows
<1>8. LockIs(M, B, C)'
  BY <1>3, <1>7 DEF LockIs
<1> QED BY <1>8

\* What the session was told of the lock is kept.
LEMMA SyncToldStays ==
  ASSUME Typed, K!ProcessSync
  PROVE  sync'.reported = sync.reported /\ sync'.valid = sync.valid
<1>1. queue # <<>> /\ Head(queue).type = "sync" /\ Head(queue) \in Event
  BY ProcessSyncDoes
<1>2. Head(queue).lock \in BOOLEAN
  BY <1>1, EventFacts
<1> DEFINE s == K!Synchronized(Head(queue).lock)
<1>3. s \in SyncType /\ s.reported = sync.reported /\ s.valid = sync.valid
  <2>1. s \in SyncType
    BY <1>2, SynchronizedFacts DEF Typed
  <2>2. s.reported = sync.reported /\ s.valid = sync.valid
    BY DEF K!Synchronized, Typed, TypedSession, SyncType
  <2> QED BY <2>1, <2>2
<1>4. K!FlushSynchronization(s, main) \/ sync' = s
  BY DEF K!ProcessSync
<1> HIDE DEF s
<1>5. K!FlushSynchronization(s, main) => sync'.reported = s.reported /\ sync'.valid = s.valid
  BY <1>3, FlushDoes
<1> QED BY <1>3, <1>4, <1>5

\* A synchronization says anew what is due.
LEMMA LockProcessSync ==
  ASSUME Typed, Pings, NEW L, NEW On, NEW Off, LockIs(L, On, Off), K!ProcessSync, ~sync'.excused
  PROVE  \E M, B, C : LockIs(M, B, C)'
<1> DEFINE p == sync.last + 1
<1>1. /\ sync'.pending = p /\ sync'.due = sync'.expected
      /\ sent' = sent \/ sent' = Append(sent, K!Ping(p))
      /\ events' = events /\ server' = server
  BY ProcessSyncDoes
<1>2. sync'.reported = sync.reported /\ sync'.valid = sync.valid
  BY SyncToldStays
<1>3. p \in Nat /\ p \notin 1 .. sync.last /\ p # K!None
  BY DEF Typed, TypedSession, SyncType, K!None
<1> HIDE DEF p
<1>4. ~Asked(p) /\ ~Answered(p)
  BY <1>3, NotUnderWay
<1>5. Reports(On, Off)'
  BY <1>1, <1>2, ReportsSame DEF LockIs
<1>6. CASE sent' = sent
  BY <1>1, <1>6, <1>3, <1>4, <1>5 DEF LockIs, LockFollows, Owed, Asked, Answered
<1>7. CASE sent' = Append(sent, K!Ping(p))
  BY <1>3, PingType, <1>1, <1>4, <1>5, <1>7, LockPing DEF LockIs, Asked, Answered
<1> QED BY <1>1, <1>6, <1>7

\* The ping is sent once more, when something was received or not.
LEMMA LockReping ==
  ASSUME Typed, NEW L, NEW On, NEW Off, LockIs(L, On, Off), Repings, ~sync'.excused,
         events' = events \/ (events # <<>> /\ events' = Tail(events) /\ Head(events).type # "modifiers"),
         server' = server
  PROVE  \E M, B, C : LockIs(M, B, C)'
<1>1. /\ sync.pending # K!None /\ sync' = sync /\ sent' = Append(sent, K!Ping(sync.pending))
      /\ ~K!Outstanding(sync.pending)
  BY DEF Repings
<1>2. /\ events \in Seq(News) /\ sync.pending \in Nat
      /\ sync.pending \in {K!None, sync.last} /\ sync.last \in Nat
  BY DEF Typed, TypedWire, TypedSession, SyncType
<1>3. ~Asked(sync.pending) /\ ~Answered(sync.pending)
  BY <1>1, <1>2, OutstandingIs
<1>4. sync.due = sync.expected
  BY <1>1, <1>2, <1>3 DEF K!None, LockIs, LockFollows, Owed, Typed, TypedSession, SyncType
<1>5. \E B, C : Reports(B, C)'  BY <1>1, ReportsSame, ReportsLess DEF LockIs
<1>6. PICK B, C : Reports(B, C)'
  BY <1>5
<1>7. K!Ping(sync.pending) \in Message
  BY <1>2, PingType
<1>8. \A i \in DOMAIN events' : events'[i] # K!Pong(sync.pending)
  BY <1>2, <1>3, Shifts DEF Answered
<1>9. \E M : LockIs(M, B, C)'
  BY <1>1, <1>3, <1>4, <1>6, <1>7, <1>8, LockPing DEF LockIs, Asked
<1> QED BY <1>9

\* Something else than the answer to the pending synchronization is received.
LEMMA FollowsReceived ==
  ASSUME Typed, NEW L, NEW On, NEW Off, LockFollows(L, On, Off), sent' = sent,
         events # <<>>, events' = Tail(events), Head(events) # K!Pong(sync.pending),
         sync'.pending = sync.pending, sync'.last = sync.last,
         sync'.due = sync.due, sync'.expected = sync.expected,
         NEW B, NEW C, \A i \in Nat : (i \in B <=> i + 1 \in On) /\ (i \in C <=> i + 1 \in Off)
  PROVE  LockFollows(L, B, C)'
<1>1. events \in Seq(News)
  BY DEF Typed, TypedWire
<1>2. \A i \in DOMAIN events' : i \in Nat /\ i + 1 \in DOMAIN events /\ events'[i] = events[i + 1]
  <2> DEFINE t == Tail(events)
  <2>1. \A i \in DOMAIN t : i \in Nat /\ i + 1 \in DOMAIN events /\ t[i] = events[i + 1]
    BY <1>1, TailFacts
  <2>2. events' = t
    OBVIOUS
  <2> HIDE DEF t
  <2> QED BY <2>1, <2>2
<1>3. (Asked(sync.pending)' <=> Asked(sync.pending)) /\ (Answered(sync.pending)' <=> Answered(sync.pending))
  BY AskedAfter, AnsweredAfter DEF Asked, Answered
<1>4. Owed' <=> Owed
  BY DEF Owed
<1> SUFFICES ASSUME sync.last > 0
             PROVE  /\ sync.pending = K!None => (Len(sent) \in L <=> sync.due)
                    /\ sync.pending # K!None =>
                         /\ ~Asked(sync.pending) /\ ~Answered(sync.pending) => ~Owed
                         /\ \A p \in DOMAIN sent : sent[p] = K!Ping(sync.pending) =>
                              (Owed <=> ~(Len(sent) \in L <=> p \in L))
                         /\ \A q \in DOMAIN events' : events'[q] = K!Pong(sync.pending) =>
                              /\ q \in B => (Owed <=> Len(sent) \notin L)
                              /\ q \in C => (Owed <=> Len(sent) \in L)
  BY <1>3, <1>4 DEF LockFollows
<1>5. ASSUME sync.pending # K!None, NEW q \in DOMAIN events', events'[q] = K!Pong(sync.pending)
      PROVE  /\ q \in B => (Owed <=> Len(sent) \notin L)
             /\ q \in C => (Owed <=> Len(sent) \in L)
  BY <1>2, <1>5 DEF LockFollows
<1> QED BY <1>5 DEF LockFollows

\* Something else than the answer to the pending synchronization is received.
LEMMA LockReceived ==
  ASSUME Typed, NEW L, NEW On, NEW Off, LockIs(L, On, Off), sent' = sent, server' = server,
         events # <<>>, events' = Tail(events), Head(events) # K!Pong(sync.pending),
         sync'.pending = sync.pending, sync'.last = sync.last,
         sync'.due = sync.due, sync'.expected = sync.expected,
         (sync'.valid /\ sync'.reported) <=>
           IF Head(events).type = "modifiers" THEN Head(events).lock = TRUE ELSE sync.valid /\ sync.reported,
         (sync'.valid /\ ~sync'.reported) <=>
           IF Head(events).type = "modifiers" THEN Head(events).lock = FALSE ELSE sync.valid /\ ~sync.reported
  PROVE  \E M, B, C : LockIs(M, B, C)'
<1>1. PICK B, C : /\ Reports(B, C)'
                  /\ \A i \in Nat : (i \in B <=> i + 1 \in On) /\ (i \in C <=> i + 1 \in Off)
  BY ReportsLess DEF LockIs
<1>2. LockFollows(L, B, C)'
  BY <1>1, FollowsReceived DEF LockIs
<1>3. Path(sent', server'.lock, L)
  BY DEF LockIs
<1>4. LockIs(L, B, C)'
  BY <1>1, <1>2, <1>3 DEF LockIs
<1> QED BY <1>4

\* News of a keyboard are received.
LEMMA LockDeviceNews ==
  ASSUME Typed, NEW L, NEW On, NEW Off, LockIs(L, On, Off), DeviceNews
  PROVE  \E M, B, C : LockIs(M, B, C)'
<1>1. /\ events # <<>> /\ events' = Tail(events) /\ Head(events).type \in {"added", "resumed", "removed"}
      /\ UNCHANGED <<sync, sent, server>>
  BY DeviceNewsDoes
<1>2. Head(events) # K!Pong(sync.pending)
  BY <1>1 DEF K!Pong
<1> QED BY <1>1, <1>2, LockReceived

\* The lock is told.
LEMMA LockModifiers ==
  ASSUME Typed, NEW L, NEW On, NEW Off, LockIs(L, On, Off), K!KeyboardModifiers
  PROVE  \E M, B, C : LockIs(M, B, C)'
<1>1. /\ events # <<>> /\ events' = Tail(events) /\ Head(events).type = "modifiers"
      /\ Head(events) \in News
      /\ sync'.reported = Head(events).lock /\ sync'.valid = TRUE
      /\ sync'.pending = sync.pending /\ sync'.last = sync.last
      /\ sync'.expected = sync.expected /\ sync'.due = sync.due
      /\ UNCHANGED <<sent, server>>
  BY KeyboardModifiersDoes
<1>2. Head(events) # K!Pong(sync.pending)
  BY <1>1 DEF K!Pong
<1>3. Head(events).lock \in BOOLEAN
  BY <1>1, NewsFacts
<1>4. /\ (sync'.valid /\ sync'.reported) <=> Head(events).lock = TRUE
      /\ (sync'.valid /\ ~sync'.reported) <=> Head(events).lock = FALSE
  BY <1>1, <1>3
<1> QED BY <1>1, <1>2, <1>4, LockReceived

\* The session is ready: the ping is sent.
LEMMA LockConnected ==
  ASSUME Typed, NEW L, NEW On, NEW Off, LockIs(L, On, Off), K!Connected \/ K!StartAnswered,
         Flow, ~sync'.excused
  PROVE  \E M, B, C : LockIs(M, B, C)'
<1>1. CASE K!Connected
  <2>1. /\ events # <<>> /\ events' = Tail(events) /\ Head(events).type = "connect"
        /\ Repings \/ UNCHANGED <<sync, sent>>
        /\ server' = server
    BY <1>1, ConnectedDoes
  <2>2. Head(events) # K!Pong(sync.pending)
    BY <2>1 DEF K!Pong
  <2>3. CASE Repings
    BY <2>1, <2>3, LockReping
  <2>4. CASE UNCHANGED <<sync, sent>>
    BY <2>1, <2>2, <2>4, LockReceived
  <2> QED BY <2>1, <2>3, <2>4
<1>2. CASE K!StartAnswered
  <2>1. /\ Repings \/ UNCHANGED <<sync, sent>>
        /\ UNCHANGED <<events, server>>
    BY <1>2, StartAnsweredDoes
  <2>2. CASE Repings
    BY <2>1, <2>2, LockReping
  <2>3. CASE UNCHANGED <<sync, sent>>
    <3>1. LockIs(L, On, Off)'
      BY <2>1, <2>3, LockSame
    <3> QED BY <3>1
  <2> QED BY <2>1, <2>2, <2>3
<1> QED BY <1>1, <1>2

\* A correction toggles the lock once.
LEMMA PathCorrection ==
  ASSUME Typed, K!HasKeyboard, NEW lock, NEW L, Path(sent, lock, L)
  PROVE  \E M : /\ Path(Append(Append(sent, LockPress), LockRelease), lock, M)
                /\ Len(Append(Append(sent, LockPress), LockRelease)) \in M <=> Len(sent) \notin L
<1> DEFINE mid == Append(sent, LockPress)
           s == Append(mid, LockRelease)
           n == Len(sent)
<1>1. /\ LockPress \in Message /\ LockRelease \in Message
      /\ Press(LockPress) /\ ~Press(LockRelease)
      /\ mid \in Seq(Message) /\ Len(mid) = n + 1 /\ n \in Nat
      /\ Len(s) = n + 2
  BY CorrectionFacts
<1>2. sent \in Seq(Message)
  BY DEF Typed, TypedWire
<1>3. PICK M : Path(mid, lock, M) /\ (n + 1 \in M <=> IF Press(LockPress) THEN n \notin L ELSE n \in L)
  BY <1>1, <1>2, PathAppend
<1> HIDE DEF mid
<1>4. PICK N : /\ Path(s, lock, N)
               /\ Len(mid) + 1 \in N <=> IF Press(LockRelease) THEN Len(mid) \notin M ELSE Len(mid) \in M
  BY <1>1, <1>3, PathAppend
<1> HIDE DEF s, n
<1>5. Len(s) = Len(mid) + 1
  BY <1>1
<1>6. Len(s) \in N <=> n \notin L
  BY <1>1, <1>3, <1>4, <1>5
<1>7. \E X : Path(s, lock, X) /\ (Len(s) \in X <=> n \notin L)
  BY <1>4, <1>6
<1> QED BY <1>7 DEF s, mid, n

\* What is compared when the pending ping is answered tells whether to correct.
LEMMA Corrects ==
  ASSUME Typed, NEW L, NEW On, NEW Off, LockIs(L, On, Off), events # <<>>,
         sync.pending # K!None, Head(events) = K!Pong(sync.pending), sync.valid
  PROVE  (sync.expected # sync.reported) <=> ~(Len(sent) \in L <=> sync.due)
<1>1. /\ sync.pending \in {K!None, sync.last} /\ sync.last \in Nat
      /\ sync.expected \in BOOLEAN /\ sync.reported \in BOOLEAN /\ sync.due \in BOOLEAN
      /\ sync.valid \in BOOLEAN
  BY DEF Typed, TypedSession, SyncType
<1>2. sync.last > 0
  BY <1>1 DEF K!None
<1>3. 1 \in DOMAIN events /\ events[1] = K!Pong(sync.pending)
  <2>1. events \in Seq(News)
    BY DEF Typed, TypedWire
  <2> QED BY <2>1, Shifts
<1>4. /\ 1 \in On => (Owed <=> Len(sent) \notin L)
      /\ 1 \in Off => (Owed <=> Len(sent) \in L)
  BY <1>2, <1>3 DEF LockIs, LockFollows
<1>5. events[1].type # "modifiers"
  BY <1>3 DEF K!Pong
<1>6. (1 \in On <=> 1 - 1 \in On) /\ (1 \in Off <=> 1 - 1 \in Off)
  BY <1>3, <1>5 DEF LockIs, Reports, Report
<1>7. (0 \in On <=> sync.valid /\ sync.reported) /\ (0 \in Off <=> sync.valid /\ ~sync.reported)
  BY DEF LockIs, Reports, Report
<1>8. (sync.reported => 1 \in On) /\ (~sync.reported => 1 \in Off)
  BY <1>6, <1>7
<1>9. (sync.expected # sync.reported) <=> ~(sync.expected <=> sync.reported)
  BY <1>1
<1>10. Owed <=> ~(sync.due <=> sync.expected)
  BY DEF Owed
<1> QED BY ONLY <1>4, <1>8, <1>9, <1>10

\* The answer to the pending synchronization comes: what is owed is sent.
LEMMA LockPong ==
  ASSUME Typed, Pings, NEW L, NEW On, NEW Off, LockIs(L, On, Off), K!PongReceived, ~sync'.excused
  PROVE  \E M, B, C : LockIs(M, B, C)'
<1> DEFINE n == Head(events).sync
           corrects == sync.expected # sync.reported
<1>1. /\ n \in Nat /\ Head(events) = K!Pong(n)
      /\ sync'.last = sync.last /\ sync'.cancelled = sync.cancelled
      /\ sync'.expected = sync.expected /\ sync'.reported = sync.reported
      /\ sync'.valid = sync.valid
      /\ ~sync.excused /\ sync'.due = sync.due
      /\ n \in sync.cancelled => UNCHANGED <<sync, sent>>
      /\ n \notin sync.cancelled =>
           /\ sync'.pending = K!None
           /\ sync.valid /\ (corrects => K!HasKeyboard)
           /\ IF corrects /\ K!HasKeyboard
              THEN sent' = Append(Append(sent, LockPress), LockRelease) ELSE sent' = sent
  BY PongReceivedDoes
<1>2. /\ events # <<>> /\ events' = Tail(events) /\ server' = server
  BY ReceiveDoes DEF K!PongReceived
<1>3. Head(events).type # "modifiers"
  BY <1>1 DEF K!Pong
<1> HIDE DEF n
<1>4. CASE n \in sync.cancelled  BY <1>1, <1>4, <1>2, <1>3, LockReceived DEF Pings, K!Pong
<1>5. CASE n \notin sync.cancelled
  <2>1. n = sync.pending /\ n # K!None
    BY <1>1, <1>2, <1>5, PongIsLast
  <2>2. corrects <=> ~(Len(sent) \in L <=> sync.due)
    BY <1>1, <1>2, <1>5, <2>1, Corrects
  <2> HIDE DEF corrects
  <2>3. \E M : Path(sent', server.lock, M) /\ (Len(sent') \in M <=> sync.due)
    <3>1. CASE corrects  BY <1>1, <1>5, <3>1, PathCorrection, <2>2 DEF LockIs
    <3>2. CASE ~corrects  BY <1>1, <1>5, <3>2, <2>2 DEF LockIs
    <3> QED BY <3>1, <3>2
  <2>4. PICK M : Path(sent', server.lock, M) /\ (Len(sent') \in M <=> sync.due)
    BY <2>3
  <2>5. PICK B, C : Reports(B, C)'
    BY <1>1, <1>2, <1>3, ReportsLess DEF LockIs
  <2>6. LockFollows(M, B, C)'
    BY <1>1, <1>5, <2>4 DEF LockFollows
  <2>7. LockIs(M, B, C)'
    BY <1>2, <2>4, <2>5, <2>6 DEF LockIs
  <2> QED BY <2>7
<1> QED BY <1>4, <1>5

\* The display server takes the first message: what the lock will be is the same.
LEMMA FollowsTaken ==
  ASSUME Typed, NEW L, NEW On, NEW Off, LockFollows(L, On, Off), NEW M, NEW B, NEW C,
         sent # <<>>, sent' = Tail(sent), sync' = sync, \A i \in Nat : i \in M <=> i + 1 \in L,
         \A q \in DOMAIN events : q \in DOMAIN events' /\ events'[q] = events[q],
         \A q \in DOMAIN events' :
           \/ q \in DOMAIN events /\ events'[q] = events[q] /\ (q \in B <=> q \in On) /\ (q \in C <=> q \in Off)
           \/ events'[q] = K!Pong(sync.pending) =>
                Head(sent) = K!Ping(sync.pending) /\ (q \in B => 1 \in L) /\ (q \in C => 1 \notin L),
         Head(sent) = K!Ping(sync.pending) => \E q \in DOMAIN events' : events'[q] = K!Pong(sync.pending)
  PROVE  LockFollows(M, B, C)'
<1> DEFINE n == Len(sent)
<1>1. /\ sent \in Seq(Message) /\ Len(sent') \in Nat /\ Len(sent') + 1 = n
      /\ 1 \in DOMAIN sent /\ sent[1] = Head(sent)
  BY TailFacts DEF Typed, TypedWire
<1>2. \A i \in DOMAIN sent' : i \in Nat /\ i + 1 \in DOMAIN sent /\ sent'[i] = sent[i + 1]
  <2> DEFINE t == Tail(sent)
  <2>1. \A i \in DOMAIN t : i \in Nat /\ i + 1 \in DOMAIN sent /\ t[i] = sent[i + 1]
    BY <1>1, TailFacts
  <2>2. sent' = t
    OBVIOUS
  <2> HIDE DEF t
  <2> QED BY <2>1, <2>2
<1>3. Len(sent') \in M <=> n \in L
  BY <1>1
<1>4. Owed' <=> Owed
  BY DEF Owed
<1> HIDE DEF n
<1> SUFFICES ASSUME sync.last > 0
             PROVE  /\ sync.pending = K!None => (n \in L <=> sync.due)
                    /\ sync.pending # K!None =>
                         /\ ~Asked(sync.pending)' /\ ~Answered(sync.pending)' => ~Owed
                         /\ \A p \in DOMAIN sent' : sent'[p] = K!Ping(sync.pending) =>
                              (Owed <=> ~(n \in L <=> p \in M))
                         /\ \A q \in DOMAIN events' : events'[q] = K!Pong(sync.pending) =>
                              /\ q \in B => (Owed <=> n \notin L)
                              /\ q \in C => (Owed <=> n \in L)
  BY <1>3, <1>4 DEF LockFollows
<1>5. sync.pending = K!None => (n \in L <=> sync.due)
  BY DEF LockFollows, n
<1>6. ASSUME sync.pending # K!None
      PROVE  /\ ~Asked(sync.pending) /\ ~Answered(sync.pending) => ~Owed
             /\ \A p \in DOMAIN sent : sent[p] = K!Ping(sync.pending) => (Owed <=> ~(n \in L <=> p \in L))
             /\ \A q \in DOMAIN events : events[q] = K!Pong(sync.pending) =>
                  /\ q \in On => (Owed <=> n \notin L)
                  /\ q \in Off => (Owed <=> n \in L)
  BY <1>6 DEF LockFollows, n
<1>7. ASSUME ~Asked(sync.pending)', ~Answered(sync.pending)'
      PROVE  ~Asked(sync.pending) /\ ~Answered(sync.pending)
  BY <1>7, AskedAfter DEF Asked, Answered
<1>8. ASSUME sync.pending # K!None, NEW p \in DOMAIN sent', sent'[p] = K!Ping(sync.pending)
      PROVE  Owed <=> ~(n \in L <=> p \in M)
  BY <1>2, <1>6, <1>8
<1>9. ASSUME sync.pending # K!None, NEW q \in DOMAIN events', events'[q] = K!Pong(sync.pending)
      PROVE  /\ q \in B => (Owed <=> n \notin L)
             /\ q \in C => (Owed <=> n \in L)
  <2>1. CASE q \in DOMAIN events /\ events'[q] = events[q] /\ (q \in B <=> q \in On) /\ (q \in C <=> q \in Off)
    BY <1>6, <1>9, <2>1
  <2>2. CASE Head(sent) = K!Ping(sync.pending) /\ (q \in B => 1 \in L) /\ (q \in C => 1 \notin L)
    BY <1>1, <1>6, <1>9, <2>2
  <2> QED BY <1>9, <2>1, <2>2
<1> QED BY <1>5, <1>6, <1>7, <1>8, <1>9

\* The lock after the first message is the lock after the first step of the path.
LEMMA PathTaken ==
  ASSUME Typed, NEW L, Path(sent, server.lock, L), sent # <<>>, sent' = Tail(sent), server'.lock \in BOOLEAN,
         server'.lock <=> IF Press(Head(sent)) THEN ~server.lock ELSE server.lock
  PROVE  \E M : /\ Path(sent', server'.lock, M) /\ \A i \in Nat : i \in M <=> i + 1 \in L
                /\ 1 \in L <=> server'.lock
<1>1. sent \in Seq(Message)
  BY DEF Typed, TypedWire
<1>2. PICK M : /\ Path(Tail(sent), IF Press(Head(sent)) THEN ~server.lock ELSE server.lock, M)
               /\ \A i \in Nat : i \in M <=> i + 1 \in L
  BY <1>1, PathTail
<1>3. Path(sent', server'.lock, M)
  BY <1>2, PathCongruent
<1>4. (1 \in L <=> 0 \in M) /\ (0 \in M <=> server'.lock)  BY <1>2, <1>3 DEF Path
<1> QED BY <1>2, <1>3, <1>4

\* A ping is answered after the news that the session had been told until then.
LEMMA LockAnswers ==
  ASSUME Typed, NEW L, NEW On, NEW Off, LockIs(L, On, Off), K!ServerAnswersPing
  PROVE  \E M, B, C : LockIs(M, B, C)'
<1> DEFINE n == Head(sent).sync
           e == K!Pong(n)
<1>1. /\ sent # <<>> /\ Head(sent) = K!Ping(n) /\ sent' = Tail(sent)
      /\ events' = Append(events, e) /\ e \in News
      /\ sync' = sync /\ server' = server
  BY ServerAnswersPingDoes
<1>2. events \in Seq(News) /\ server.lock \in BOOLEAN
  BY DEF Typed, TypedWire, ServerType
<1>3. ~Press(Head(sent)) /\ e.type # "modifiers"
  BY <1>1 DEF Press, OfLock, K!Ping, K!Pong
<1>4. PICK M : /\ Path(sent', server'.lock, M) /\ \A i \in Nat : i \in M <=> i + 1 \in L
               /\ 1 \in L <=> server'.lock
  BY <1>1, <1>2, <1>3, PathTaken DEF LockIs
<1>5. e = K!Pong(sync.pending) => Head(sent) = K!Ping(sync.pending)
  BY <1>1 DEF K!Pong, K!Ping
<1>6. Head(sent) = K!Ping(sync.pending) => e = K!Pong(sync.pending)
  BY <1>1 DEF K!Pong, K!Ping
<1> HIDE DEF e, n
<1>7. PICK B, C : /\ Reports(B, C)'
                  /\ \A i \in 0 .. Len(events) : (i \in B <=> i \in On) /\ (i \in C <=> i \in Off)
                  /\ Len(events) + 1 \in B => server.lock
                  /\ Len(events) + 1 \in C => ~server.lock
  BY <1>1, <1>2, <1>3, ReportsMore DEF LockIs
<1>8. /\ DOMAIN events' = DOMAIN events \cup {Len(events) + 1} /\ events'[Len(events) + 1] = e
      /\ \A i \in DOMAIN events : events'[i] = events[i] /\ i \in 0 .. Len(events)
  BY <1>2, Shifts, <1>1, AppendFacts
<1>9. LockFollows(M, B, C)'
  <2>1. \A q \in DOMAIN events : q \in DOMAIN events' /\ events'[q] = events[q]
    BY <1>8
  <2>2. ASSUME NEW q \in DOMAIN events'
        PROVE  \/ q \in DOMAIN events /\ events'[q] = events[q] /\ (q \in B <=> q \in On) /\ (q \in C <=> q \in Off)
               \/ events'[q] = K!Pong(sync.pending) =>
                    Head(sent) = K!Ping(sync.pending) /\ (q \in B => 1 \in L) /\ (q \in C => 1 \notin L)
    BY <1>7, <1>8, <1>1, <1>4, <1>5
  <2>3. Head(sent) = K!Ping(sync.pending) => \E q \in DOMAIN events' : events'[q] = K!Pong(sync.pending)
    BY <1>6, <1>8
  <2>4. LockFollows(L, On, Off)
    BY DEF LockIs
  <2>5. \A i \in Nat : i \in M <=> i + 1 \in L
    BY <1>4
  <2>6. sent # <<>> /\ sent' = Tail(sent) /\ sync' = sync
    BY <1>1
  <2> QED BY ONLY Typed, <2>1, <2>2, <2>3, <2>4, <2>5, <2>6, FollowsTaken
<1>10. LockIs(M, B, C)'
  BY <1>4, <1>7, <1>9 DEF LockIs
<1> QED BY <1>10

\* The lock key is taken when it is up: every press toggles.
LEMMA PressesToggle ==
  ASSUME Typed, MessagesAlternate, ~sync.excused, ~Doomed, sent # <<>>,
         Press(Head(sent)), Current(Head(sent))
  PROVE  Toggles(Head(sent))
<1>1. sent \in Seq(Message)
  BY DEF Typed, TypedWire
<1>2. 1 \in Presses(sent) /\ DOMAIN sent \subseteq Nat \ {0}
  BY <1>1, TailFacts DEF Presses
<1>3. Alternate(sent, Heard(LockKey), LockKey \in server.down)
  BY DEF MessagesAlternate
<1>4. Heard(LockKey) \in SUBSET (Nat \ {0})
  BY <1>2 DEF Heard
<1> DEFINE down == LockKey \in server.down
<1>5. \A before : Alternate(sent, Heard(LockKey), before) => ~before
  BY <1>2, <1>4, AlternateFirst
<1>6. ~down
  BY <1>3, <1>5
<1> QED BY <1>6 DEF Toggles

\* The lock key is taken: the lock toggles, and the session is told.
LEMMA LockTakesKey ==
  ASSUME Typed, MessagesAlternate, ~sync.excused, ~Doomed,
         NEW L, NEW On, NEW Off, LockIs(L, On, Off), K!ServerTakesKey, ~sync'.excused
  PROVE  \E M, B, C : LockIs(M, B, C)'
<1> DEFINE msg == Head(sent)
           e == [type |-> "modifiers", lock |-> server'.lock]
<1>1. /\ sent # <<>> /\ msg \in Message /\ msg.type = "key"
      /\ sent' = Tail(sent) /\ server' \in ServerType
      /\ IF Toggles(msg) THEN server'.lock = ~server.lock /\ events' = Append(events, e)
                         ELSE server'.lock = server.lock /\ events' = events
      /\ sync' = sync /\ (Press(msg) => Current(msg))
  BY ServerTakesKeyDoes
<1>2. /\ events \in Seq(News) /\ server.lock \in BOOLEAN /\ server'.lock \in BOOLEAN
      /\ sync' = sync
  BY <1>1 DEF Typed, TypedWire, ServerType
<1>3. Toggles(msg) <=> Press(msg)
  BY <1>1, PressesToggle DEF Toggles
<1>4. PICK M : Path(sent', server'.lock, M) /\ \A i \in Nat : i \in M <=> i + 1 \in L
  BY <1>1, <1>3, <1>2, PathTaken DEF LockIs
<1>5. Head(sent) # K!Ping(sync.pending)
  BY <1>1 DEF K!Ping
<1>6. LockFollows(L, On, Off)
  BY DEF LockIs
<1>7. CASE ~Toggles(msg)
  <2>1. Reports(On, Off)'
    BY <1>1, <1>7, ReportsSame DEF LockIs
  <2>2. /\ \A q \in DOMAIN events : q \in DOMAIN events' /\ events'[q] = events[q]
        /\ \A q \in DOMAIN events' : q \in DOMAIN events /\ events'[q] = events[q]
    BY <1>1, <1>7
  <2>3. LockFollows(M, On, Off)'
    BY <1>1, <1>4, <1>5, <1>6, <2>2, FollowsTaken
  <2>4. LockIs(M, On, Off)'
    BY <1>4, <2>1, <2>3 DEF LockIs
  <2> QED BY <2>4
<1>8. CASE Toggles(msg)
  <2>1. /\ e \in News /\ e.type = "modifiers" /\ e.lock = server'.lock /\ e # K!Pong(sync.pending)
    BY <1>2 DEF News, K!Pong
  <2>2. events' = Append(events, e)
    BY <1>1, <1>8
  <2> HIDE DEF e
  <2>3. PICK B, C : /\ Reports(B, C)'
                    /\ \A i \in 0 .. Len(events) : (i \in B <=> i \in On) /\ (i \in C <=> i \in Off)
    BY <1>1, <1>2, <2>1, <2>2, ReportsMore DEF LockIs
  <2>4. /\ DOMAIN events' = DOMAIN events \cup {Len(events) + 1} /\ events'[Len(events) + 1] = e
        /\ \A i \in DOMAIN events : events'[i] = events[i] /\ i \in 0 .. Len(events)
    BY <1>2, Shifts, <2>1, <2>2, AppendFacts
  <2>5. \A q \in DOMAIN events : q \in DOMAIN events' /\ events'[q] = events[q]
    BY <2>4
  <2>6. \A q \in DOMAIN events' :
           \/ q \in DOMAIN events /\ events'[q] = events[q] /\ (q \in B <=> q \in On) /\ (q \in C <=> q \in Off)
           \/ events'[q] = K!Pong(sync.pending) =>
                Head(sent) = K!Ping(sync.pending) /\ (q \in B => 1 \in L) /\ (q \in C => 1 \notin L)
    BY <2>1, <2>3, <2>4
  <2>7. sent # <<>> /\ sent' = Tail(sent)
    BY <1>1
  <2>8. Head(sent) = K!Ping(sync.pending) => \E q \in DOMAIN events' : events'[q] = K!Pong(sync.pending)
    BY <1>5
  <2>9. \A i \in Nat : i \in M <=> i + 1 \in L
    BY <1>4
  <2>10. LockFollows(M, B, C)'
    BY ONLY Typed, <1>2, <1>6, <2>5, <2>6, <2>7, <2>8, <2>9, FollowsTaken
  <2>11. LockIs(M, B, C)'
    BY <1>4, <2>3, <2>10 DEF LockIs
  <2> QED BY <2>11
<1> QED BY <1>7, <1>8

\* The display server tells of something else than a ping.
LEMMA FollowsTold ==
  ASSUME NEW L, NEW On, NEW Off, LockFollows(L, On, Off), NEW B, NEW C, UNCHANGED <<sent, sync>>,
         \A q \in DOMAIN events : q \in DOMAIN events' /\ events'[q] = events[q],
         \A q \in DOMAIN events' :
           \/ q \in DOMAIN events /\ events'[q] = events[q] /\ (q \in B <=> q \in On) /\ (q \in C <=> q \in Off)
           \/ events'[q].type # "pong"
  PROVE  LockFollows(L, B, C)'
BY DEF K!Pong, Asked, Answered, Owed, LockFollows

\* A keyboard comes, and the lock is told.
LEMMA LockAdds ==
  ASSUME Typed, NEW L, NEW On, NEW Off, LockIs(L, On, Off), K!ServerAddsKeyboard
  PROVE  \E M, B, C : LockIs(M, B, C)'
<1>1. sync' = sync /\ sent' = sent /\ server'.lock = server.lock
  BY ServerAddsKeyboardDoes
<1>2. PICK B, C : /\ Reports(B, C)'
                  /\ \A i \in 0 .. Len(events) : (i \in B <=> i \in On) /\ (i \in C <=> i \in Off)
  BY ReportsKeyboard DEF LockIs
<1> DEFINE new == server.plugs + 1
           n == Len(events)
<1>3. /\ n \in Nat /\ DOMAIN events = 1 .. n
      /\ \A i \in DOMAIN events : i \in DOMAIN events' /\ events'[i] = events[i]
      /\ \A i \in DOMAIN events' : i \in DOMAIN events \/ i \in (n + 1) .. (n + 3)
      /\ events'[n + 1] = Added(new) /\ events'[n + 2] = Resumed(new)
      /\ events'[n + 3] = Modifiers(server.lock)
  BY KeyboardTold
<1>4. \A q \in DOMAIN events' :
           \/ q \in DOMAIN events /\ events'[q] = events[q] /\ (q \in B <=> q \in On) /\ (q \in C <=> q \in Off)
           \/ events'[q].type # "pong"
  <2> TAKE q \in DOMAIN events'
  <2>1. CASE q \in DOMAIN events  BY <1>3, <2>1, <1>2
  <2>2. CASE q \in (n + 1) .. (n + 3)  BY <1>3, <2>2 DEF Added, Resumed, Modifiers
  <2> QED BY <1>3, <2>1, <2>2
<1>5. LockFollows(L, B, C)'
  BY <1>1, <1>3, <1>4, FollowsTold DEF LockIs
<1>6. Path(sent', server'.lock, L)
  BY <1>1 DEF LockIs
<1>7. LockIs(L, B, C)'
  BY <1>2, <1>5, <1>6 DEF LockIs
<1> QED BY <1>7

\* A keyboard goes.
LEMMA LockRemoves ==
  ASSUME Typed, NEW L, NEW On, NEW Off, LockIs(L, On, Off), K!ServerRemovesKeyboard
  PROVE  \E M, B, C : LockIs(M, B, C)'
<1> DEFINE e == Removed(server.keyboard)
           n == Len(events)
<1>1. /\ sync' = sync /\ sent' = sent /\ server'.lock = server.lock
      /\ e \in News /\ events' = Append(events, e) /\ server'.lock \in BOOLEAN
  BY ServerRemovesKeyboardDoes DEF ServerType
<1>2. e.type = "removed"
  BY DEF Removed
<1>3. events \in Seq(News)
  BY DEF Typed, TypedWire
<1> HIDE DEF e
<1>4. PICK B, C : /\ Reports(B, C)'
                  /\ \A i \in 0 .. n : (i \in B <=> i \in On) /\ (i \in C <=> i \in Off)
  BY <1>1, <1>2, ReportsMore DEF LockIs
<1>5. /\ \A i \in DOMAIN events : i \in DOMAIN events' /\ events'[i] = events[i] /\ i \in 0 .. n
      /\ \A i \in DOMAIN events' : i \in DOMAIN events \/ events'[i] = e
  BY <1>3, Shifts, <1>1, AppendFacts
<1>6. \A q \in DOMAIN events' :
           \/ q \in DOMAIN events /\ events'[q] = events[q] /\ (q \in B <=> q \in On) /\ (q \in C <=> q \in Off)
           \/ events'[q].type # "pong"
  BY <1>2, <1>4, <1>5
<1>7. LockFollows(L, B, C)'
  BY <1>1, <1>5, <1>6, FollowsTold DEF LockIs
<1>8. Path(sent', server'.lock, L)
  BY <1>1 DEF LockIs
<1>9. LockIs(L, B, C)'
  BY <1>4, <1>7, <1>8 DEF LockIs
<1> QED BY <1>9

\* A session that stops does not start again.
LEMMA MainGoesOn ==
  ASSUME Typed, Flow, K!Next, main' \in {"loop", "drain"}
  PROVE  main \in {"loop", "drain"}
<1> DEFINE on == {"loop", "drain"}
<1>1. CASE K!PduIgnored \/ K!WakeSource \/ K!ClientGone \/ K!SocketExits
  BY <1>1, SocketSteps
<1>2. CASE K!SynchronizeEvent \/ K!QueueEvent
  BY <1>2, SynchronizeEventDoes, QueueEventDoes
<1>3. ASSUME NEW k \in Key, NEW down \in BOOLEAN, K!KeyboardEvent(k, down)
      PROVE  main \in on
  BY <1>3, KeyboardEventDoes
<1>4. CASE K!FlushDispatch \/ K!StopSession \/ K!ViewOnlyChanged
  BY <1>4, MainSteps
<1>5. CASE K!ProcessKey
  BY <1>5, ProcessKeyDoes
<1>6. CASE K!ProcessSync
  BY <1>6, ProcessSyncDoes
<1>7. CASE K!UnlockQueue
  BY <1>7, UnlockQueueDoes
<1>8. CASE K!Connected \/ K!StartAnswered
  BY <1>8, ConnectedDoes, StartAnsweredDoes
<1>9. CASE DeviceNews \/ K!KeyboardModifiers
  BY <1>9, DeviceNewsDoes, KeyboardModifiersDoes
<1>10. CASE K!PongReceived
  BY <1>10, PongReceivedDoes
<1>11. CASE K!SessionClosed \/ K!ReleaseKeys
  BY <1>11, SessionClosedDoes, ReleaseKeysDoes
<1>12. CASE K!ServerAnswersPing \/ K!ServerTakesKey
  BY <1>12, ServerAnswersPingDoes, ServerTakesKeyDoes
<1>13. CASE K!ServerAddsKeyboard \/ K!ServerRemovesKeyboard
  BY <1>13, ServerAddsKeyboardDoes, ServerRemovesKeyboardDoes
<1> QED
  BY StepCases, <1>1, <1>2, <1>3, <1>4, <1>5, <1>6, <1>7, <1>8, <1>9, <1>10, <1>11, <1>12, <1>13

\* Every step keeps the lock on its way to what is due.
LEMMA LockStep ==
  ASSUME Typed, Flow, Keyboards, Pings, MessagesAlternate, Lock, K!Next
  PROVE  Lock'
<1> SUFFICES ASSUME main' \in {"loop", "drain"}, ~sync'.excused, ~Doomed'
             PROVE  \E M, B, C : LockIs(M, B, C)'
  BY DEF Lock
<1>1. ~K!SessionClosed
  BY SessionClosedDoes
<1>2. ~sync.excused /\ ~Doomed
  BY <1>1, ExcusedStays, DoomedStays
<1>3. \E L, On, Off : LockIs(L, On, Off)
  BY <1>2, MainGoesOn DEF Lock
<1>4. PICK L, On, Off : LockIs(L, On, Off)
  BY <1>3
<1>5. CASE Quiet  BY <1>5, QuietSteps, <1>4, LockSame
<1>6. CASE K!ProcessKey
  BY <1>4, <1>6, LockProcessKey
<1>7. CASE K!ProcessSync
  BY <1>4, <1>7, LockProcessSync
<1>8. CASE K!Connected \/ K!StartAnswered
  BY <1>4, <1>8, LockConnected
<1>9. CASE DeviceNews
  BY <1>4, <1>9, LockDeviceNews
<1>10. CASE K!KeyboardModifiers
  BY <1>4, <1>10, LockModifiers
<1>11. CASE K!PongReceived
  BY <1>4, <1>11, LockPong
<1>12. CASE K!ServerAnswersPing
  BY <1>4, <1>12, LockAnswers
<1>13. CASE K!ServerTakesKey
  BY <1>2, <1>4, <1>13, LockTakesKey
<1>14. CASE K!ServerAddsKeyboard
  BY <1>4, <1>14, LockAdds
<1>15. CASE K!ServerRemovesKeyboard
  BY <1>4, <1>15, LockRemoves
<1> QED
  BY NoisyCases, <1>1, <1>5, <1>6, <1>7, <1>8, <1>9, <1>10, <1>11, <1>12, <1>13, <1>14, <1>15

-----------------------------------------------------------------------------
(* The invariant, and what follows. *)

KeyboardInv ==
  /\ Typed /\ Flow /\ Keyboards /\ Pings
  /\ K!NothingForgotten /\ K!NoStuckKey
  /\ EventsAlternate /\ MessagesAlternate /\ Lock

\* The lock is as it is, nothing was told of it, and nothing is due.
LEMMA LockInit == K!Init => Lock
<1> SUFFICES ASSUME K!Init
             PROVE  Lock
  OBVIOUS
<1> DEFINE L == IF server.lock THEN {0} ELSE {}
<1>1. /\ sent = <<>> /\ events = <<[type |-> "connect"]>>
      /\ sync.last = 0 /\ ~sync.valid
  <2>1. sent = <<>> /\ events = <<[type |-> "connect"]>>
    BY DEF K!Init
  <2>2. sync = [pending |-> 0, last |-> 0, cancelled |-> {}, expected |-> FALSE, reported |-> FALSE,
                valid |-> FALSE, due |-> FALSE, excused |-> FALSE]
    BY DEF K!Init, K!None
  <2>3. sync.last = 0 /\ sync.valid = FALSE
    BY ONLY <2>2
  <2> QED BY <2>1, <2>3
<1>2. Path(sent, server.lock, L)  BY <1>1 DEF Path
<1>3. Reports({}, {})  BY <1>1 DEF Reports, Report
<1>4. LockFollows(L, {}, {})
  BY <1>1 DEF LockFollows
<1>5. LockIs(L, {}, {})
  BY <1>2, <1>3, <1>4 DEF LockIs
<1>6. \E M, On, Off : LockIs(M, On, Off)
  BY <1>5
<1> QED BY <1>6 DEF Lock

\* The invariant of the keyboard holds at the start.
LEMMA KeyboardInit == K!Init => KeyboardInv
<1> SUFFICES ASSUME K!Init
             PROVE  KeyboardInv
  OBVIOUS
<1>1. /\ client.pdus \in Scripts
      /\ client = [pdus |-> client.pdus, runs |-> TRUE, todo |-> <<>>, wakes |-> FALSE, pause |-> "none"]
      /\ flags = [activated |-> TRUE, view |-> FALSE] /\ table = {} /\ queue = <<>> /\ armed = FALSE
      /\ main = "loop" /\ sent = <<>> /\ events = <<[type |-> "connect"]>>
      /\ sync = [pending |-> 0, last |-> 0, cancelled |-> {}, expected |-> FALSE, reported |-> FALSE,
                 valid |-> FALSE, due |-> FALSE, excused |-> FALSE]
      /\ ses = [ready |-> FALSE, started |-> FALSE, ei |-> TRUE, keyboard |-> 0, emulating |-> FALSE]
      /\ server.lock \in BOOLEAN
      /\ server = [lock |-> server.lock, keyboard |-> 0, plugs |-> 0, down |-> {}]
  BY DEF K!Init, K!None
<1>2. Scripts \subseteq Seq(({"sync"} \cup Key) \X BOOLEAN) /\ MaxPlugs \in Nat
  BY InputAssumption
<1>3. events \in Seq(News) /\ DOMAIN events = {1} /\ events[1] = [type |-> "connect"]
  BY <1>1 DEF News
<1>4. Coming = <<>>  BY <1>1 DEF Coming
<1>5. TypedClient
  <2>1. client \in ClientType
    <3>1. client.pdus \in Seq(({"sync"} \cup Key) \X BOOLEAN) /\ <<>> \in Seq(Event)
      BY <1>1, <1>2
    <3>2. \A p \in Seq(({"sync"} \cup Key) \X BOOLEAN) :
            [pdus |-> p, runs |-> TRUE, todo |-> <<>>, wakes |-> FALSE, pause |-> "none"] \in ClientType
      BY <3>1 DEF ClientType
    <3> QED BY <1>1, <3>1, <3>2
  <2>2. IsFiniteSet({})
    BY FS_EmptySet
  <2> QED BY <1>1, <2>1, <2>2 DEF TypedClient
<1>6. TypedQueue
  <2>1. armed \in BOOLEAN
    BY <1>1
  <2>2. queue \in Seq(Event)
    BY <1>1
  <2> QED BY <1>1, <2>1, <2>2 DEF TypedQueue
<1>7. TypedSession
  BY <1>1, <1>2 DEF TypedSession, SyncType, SesType, K!None
<1>8. TypedWire  BY <1>1, <1>2, <1>3 DEF ServerType, TypedWire
<1>9. Flow
  BY <1>1 DEF Flow
<1>10. Keyboards
  BY <1>1, <1>3 DEF Keyboards, NewsInOrder, KeysThere, Arrival, K!None
<1>11. Pings
  BY <1>1, <1>3 DEF Pings, Accounted, Asked, Answered, K!Pong, K!Ping
<1>12. K!NothingForgotten
  BY <1>1 DEF K!NothingForgotten, K!None
<1>13. ASSUME NEW k
       PROVE  ~K!IsHeld(k) /\ Of(Coming, k) = {}
  BY <1>1, <1>4, HeldIs DEF Heard, Of, K!Outcome
<1>14. K!NoStuckKey  BY <1>1, <1>13, NoStuckIs DEF ToCome, K!Outcome, After
<1>15. EventsAlternate /\ MessagesAlternate
  BY <1>1, <1>4 DEF Presses, EventsAlternate, MessagesAlternate, Alternate
<1> QED BY <1>5, <1>6, <1>7, <1>8, <1>9, <1>10, <1>11, <1>12, <1>14, <1>15, LockInit
        DEF KeyboardInv, Typed

\* Every step of the keyboard keeps its invariant.
LEMMA KeyboardStep ==
  ASSUME KeyboardInv, K!Next
  PROVE  KeyboardInv'
BY TypedStep, FlowStep, KeyboardsStep, PingsStep, ForgottenStep, NoStuckStep, EventsStep,
   MessagesStep, LockStep DEF KeyboardInv

\* The keyboard rests while the touches move.
LEMMA KeyboardStutters ==
  ASSUME KeyboardInv, UNCHANGED keyboardVars
  PROVE  KeyboardInv'
<1> USE DEF KeyboardInv, keyboardVars
<1>1. Typed'
  BY TypedUnchanged DEF Typed
<1>2. Flow'
  BY DEF Flow
<1>3. Keyboards'
  BY KeyboardsUnchanged
<1>4. Pings'
  BY DEF Pings, Accounted, Asked, Answered
<1>5. K!NothingForgotten'  BY DEF K!Outstanding, K!NothingForgotten
<1>6. ASSUME NEW k
      PROVE  K!IsHeld(k)' <=> K!IsHeld(k)
  <2>1. Heard(k)' = Heard(k)
    BY DEF Heard, Concerns, Current
  <2> QED BY <2>1, HeldIs, HeldIsPrime
<1>7. K!NoStuckKey'
  <2>1. ToCome' = ToCome
    BY DEF ToCome, Coming
  <2>2. ASSUME NEW k \in K!AnyKey, After(ToCome', k, K!IsHeld(k)')
        PROVE  k \in table' \/ main' = "crashed"
    BY <1>6, <2>1, <2>2, NoStuckIs DEF After, K!Outcome
  <2> QED BY <2>2, NoStuckIsPrime
<1>8. EventsAlternate'  BY <1>6, AlternateMonotone DEF Coming, EventsAlternate
<1>9. Doomed' <=> Doomed
  BY DEF Doomed, Current
<1>10. MessagesAlternate'  BY <1>9 DEF Heard, Concerns, Current, MessagesAlternate
<1>11. Lock'  BY <1>9, LockSame DEF Lock
<1> QED BY <1>1, <1>2, <1>3, <1>4, <1>5, <1>7, <1>8, <1>10, <1>11

\* The keyboard and the touches keep their invariants, whichever of them has the behaviour.
InputInv == KeyboardInv /\ TouchInv /\ scenario \in {"keyboard", "touch"}

\* The invariant holds in every state, for any keys, scripts, contacts and bounds.
THEOREM InputInvariant == Spec => []InputInv
<1>1. Init => InputInv
  BY KeyboardInit, TouchInit DEF Init, InputInv
<1>2. ASSUME InputInv, [Next]_vars
      PROVE  InputInv'
  BY <1>2, KeyboardStep, TouchStutters, TouchStep, KeyboardStutters DEF InputInv, OfKeyboard,
     OfTouch, vars, Next
<1> QED BY <1>1, <1>2, PTL DEF Spec

\* At rest the path of the lock has one place left: what the lock is, and what is due.
LEMMA LockIsDue ==
  ASSUME Typed, Lock
  PROVE  K!LockAgrees
<1> SUFFICES ASSUME main = "loop", sent = <<>>, sync.pending = K!None, sync.last > 0, ~sync.excused
             PROVE  server.lock = sync.due
  BY DEF K!LockAgrees
<1>1. ~Doomed /\ Len(sent) = 0
  BY DEF Doomed
<1>2. PICK L, On, Off : LockIs(L, On, Off)
  BY <1>1 DEF Lock
<1>3. (0 \in L <=> sync.due) /\ (0 \in L <=> server.lock)
  BY <1>1, <1>2 DEF LockIs, LockFollows, Path
<1>4. server.lock \in BOOLEAN /\ sync.due \in BOOLEAN
  BY DEF Typed, TypedWire, ServerType, TypedSession, SyncType
<1> QED BY <1>3, <1>4

\* What the invariant says is enough.
LEMMA InputInvSuffices == InputInv => InputSound
BY LockIsDue DEF InputInv, KeyboardInv, TouchInv, NoStuckInput, NothingForgotten, LockAgrees,
   InputSound

\* Nothing stays pressed in the session that the client does not hold, nothing is forgotten
\* in a queue, and the lock comes to be what the client asked for: what the input handlers,
\* the event queue, the libei side of the session and the touch automaton achieve together.
THEOREM InputCorrect == Spec => []InputSound
BY InputInvariant, InputInvSuffices, PTL

\* The types of the keyboard.
LEMMA TypedSuffices == Typed => K!TypeOK
<1> SUFFICES ASSUME Typed
             PROVE  K!TypeOK
  OBVIOUS
<1>1. /\ {client.runs, client.wakes} \subseteq BOOLEAN
      /\ client.pause \in {"none", "ctrl_down", "numlock_down", "ctrl_up"}
      /\ flags \in [activated : BOOLEAN, view : BOOLEAN]
      /\ table \subseteq Key
  BY DEF Typed, TypedClient, ClientType
<1>2. \A e \in K!ToSet(queue \o client.todo) :
        \/ e \in [type : {"key"}, key : K!AnyKey, down : BOOLEAN]
        \/ e \in [type : {"sync"}, lock : BOOLEAN]
  BY ComingFacts, Shifts DEF K!ToSet, Coming, Event
<1>3. armed \in BOOLEAN
  BY DEF Typed, TypedQueue
<1>4. main \in {"loop", "drain", "join", "drain_last", "stopped", "crashed"}
  BY DEF Typed, TypedQueue
<1>5. sync.pending \in {K!None, sync.last} /\ sync.cancelled \subseteq 1 .. sync.last
  BY DEF Typed, TypedSession
<1>6. {ses.ready, ses.started, ses.ei, ses.emulating} \subseteq BOOLEAN
  BY DEF Typed, TypedSession, SesType
<1>7. {ses.keyboard, server.keyboard} \subseteq 0 .. MaxPlugs /\ server.down \subseteq K!AnyKey
  BY DEF Typed, TypedSession, TypedWire, SesType, ServerType
<1> QED BY <1>1, <1>2, <1>3, <1>4, <1>5, <1>6, <1>7 DEF K!TypeOK

\* The variables have their types.
THEOREM TypeCorrect == Spec => []TypeOK
<1>1. InputInv => TypeOK
  BY TypedSuffices DEF InputInv, KeyboardInv, TouchInv, TypeOK
<1> QED BY <1>1, InputInvariant, PTL

==============================================================================
