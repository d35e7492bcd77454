--------------------------------- MODULE Input ---------------------------------
(***************************************************************************)
(* The input of an RDP client: the keyboard (EventQueue) and the touches   *)
(* (TouchInput).  They have threads, queues and devices of their own and   *)
(* meet in libei only, so a behaviour is one of the keyboard or one of the *)
(* touches, as its scenario says.                                          *)
(***************************************************************************)
EXTENDS Naturals, Sequences

CONSTANTS Key, LockKey, CtrlKey, PauseKey, Scripts, MaxPlugs, \* of EventQueue
          Contact, MaxTouches, MaxDevices                      \* of TouchInput

ASSUME InputAssumption ==
  /\ {LockKey, CtrlKey} \subseteq Key /\ LockKey # CtrlKey
  /\ PauseKey \notin Key
  /\ Scripts \subseteq Seq(({"sync"} \cup Key) \X BOOLEAN)
  /\ {MaxPlugs, MaxTouches, MaxDevices} \subseteq Nat

Sync(lock) == <<"sync", lock>>
Down(k) == <<k, TRUE>>
Up(k) == <<k, FALSE>>

\* A small set for Scripts.  None, or: two synchronizations, one while the lock key
\* is held, the keys of a Pause, and a key that only looks like the start of one.
SmallScripts ==
  {<<>>,
   <<Sync(TRUE), Sync(FALSE)>>,
   <<Down("num"), Sync(FALSE), Up("num")>>,
   <<Down("ctrl"), Down("num"), Up("ctrl"), Up("num")>>,
   <<Down("ctrl"), Down("ctrl")>>}

VARIABLES
  scenario, \* "keyboard" or "touch"
  client, flags, table, queue, armed, main, sync, ses, sent, events, server,
  pdus, wakes, touches, ready, input, context, device, news, screen

K == INSTANCE EventQueue
T == INSTANCE TouchInput

keyboardVars == <<client, flags, table, queue, armed, main, sync, ses, sent, events, server>>
touchVars == <<pdus, wakes, touches, ready, input, context, device, news, screen>>
vars == <<scenario, keyboardVars, touchVars>>

\* A client that has nothing to type has the touches.
Init ==
  /\ K!Init /\ T!Init
  /\ scenario \in {"keyboard", "touch"}
  /\ scenario = "touch" <=> client.pdus = <<>>

OfKeyboard == scenario = "keyboard" /\ UNCHANGED <<scenario, touchVars>>
OfTouch == scenario = "touch" /\ UNCHANGED <<scenario, keyboardVars>>

Next == (OfKeyboard /\ K!Next) \/ (OfTouch /\ T!Next)

Spec == Init /\ [][Next]_vars

\* The threads run and the display server handles what it is sent; nobody has to press
\* a key, to stop the session or to plug in a device.  A source that is ready time and
\* again is dispatched in the end, whatever other source was ready, too.
Fairness ==
  /\ WF_vars(OfKeyboard /\ K!QueueEvent)
  /\ WF_vars(OfKeyboard /\ K!WakeSource)
  /\ WF_vars(OfKeyboard /\ K!SocketExits)
  /\ SF_vars(OfKeyboard /\ K!FlushSource)
  /\ SF_vars(OfKeyboard /\ K!EiSource)
  /\ WF_vars(OfKeyboard /\ K!ReleaseKeys)
  /\ WF_vars(OfKeyboard /\ K!DisplayServer)
  /\ WF_vars(OfTouch /\ T!WakeTouchSource)
  /\ SF_vars(OfTouch /\ T!Handler)
  /\ SF_vars(OfTouch /\ T!EiSource)

FairSpec == Spec /\ Fairness

-----------------------------------------------------------------------------
(* Properties *)

TypeOK == K!TypeOK /\ T!TypeOK /\ scenario \in {"keyboard", "touch"}

\* Nothing stays pressed in the session that the client does not hold: no key that its
\* table does not name, no contact that is not engaged, and a contact has its object
\* (grd-session-rdp.c:577, 824-838, 1893; grd-rdp-dvc-input.c:373, 631, 688).
NoStuckInput == K!NoStuckKey /\ T!NoStuckTouch /\ T!ObjectInRange

\* Nothing is forgotten in a queue: a pending synchronization has its ping, and events have
\* a source that is ready, becomes so, or is made ready by the device they wait for.
NothingForgotten == K!NothingForgotten /\ T!NoStrandedTouch

\* When the keyboard comes to rest, the lock is what the client asked for and toggled
\* since, except where the code cannot know (see EventQueue).
LockAgrees == K!LockAgrees

\* What the session has of keys, contacts and locks is what the client did, and what is
\* missing is on its way.
InputSound == NoStuckInput /\ NothingForgotten /\ LockAgrees

\* Queues are drained, a synchronization of a session that started is completed, and a
\* touch channel that is disposed ends.
InputSettles == []<>(~K!KeysWait /\ ~T!TouchesWait)

================================================================================
