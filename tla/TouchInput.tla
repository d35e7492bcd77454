------------------------------- MODULE TouchInput -------------------------------
(***************************************************************************)
(* Touches from the client to the display server: GrdRdpDvcInput           *)
(* (src/src/grd-rdp-dvc-input.c) and the touch device of GrdSession        *)
(* (src/src/grd-session.c).                                                *)
(*                                                                         *)
(* The channel thread pushes what the client sends to an asynchronous      *)
(* queue and wakes the main thread, which runs an automaton per contact.   *)
(* As long as the display server offers no touch device events stay in the *)
(* queue.  The device comes and goes with the layout of the monitors.      *)
(*                                                                         *)
(* The flags of a contact are named after the transition they stand for in *)
(* [MS-RDPEI] 3.1.1.1.  Pairs that do the same are one: UP and UP |        *)
(* CANCELED are "up", UPDATE and UPDATE | CANCELED are "leave".  A frame   *)
(* has one contact.  A position can be transformed into one of a stream or *)
(* not, and its stream has a region of the device or not.  libei passes on *)
(* what a device that emulates is told; the display server is external.    *)
(***************************************************************************)
EXTENDS Naturals, Sequences

CONSTANTS
  Contact,    \* contact ids, MAX_TOUCH_CONTACTS of them
  MaxTouches, \* PDUs of the client, a bound of the model
  MaxDevices  \* touch devices of the display server, a bound of the model

Flags == {"down", "hover", "move", "up_hover", "up", "leave"}

VARIABLES
  pdus,    \* PDUs so far
  wakes,   \* the channel thread pushed an event and must still wake the source
  touches, \* event_queue
  ready,   \* event_source is ready
  input,   \* what the main thread does: rest, handle (handle_input_events), the same
           \* from dispose, or gone
  context, \* touch_contexts
  device,  \* ei_touch and whether it emulates
  news,    \* what the display server sent about its device
  screen   \* the display server: its device, and the contacts that are down

vars == <<pdus, wakes, touches, ready, input, context, device, news, screen>>

NoDevice == 0
Unused == [state |-> "out_of_range", object |-> FALSE, ignore |-> FALSE]

Init ==
  /\ pdus = 0 /\ wakes = FALSE /\ touches = <<>> /\ ready = FALSE
  /\ input = "rest"
  /\ context = [c \in Contact |-> Unused]
  /\ device = [id |-> NoDevice, emulating |-> FALSE]
  /\ news = <<>>
  /\ screen = [device |-> NoDevice, devices |-> 0, down |-> {}]

-----------------------------------------------------------------------------
(* The channel thread *)

\* input_touch, input_dismiss_hovering_touch_contact
QueueTouch(c, what) ==
  /\ input \in {"rest", "handle"} /\ ~wakes /\ pdus < MaxTouches
  /\ pdus' = pdus + 1
  /\ touches' = Append(touches, <<c, what>>)
  /\ wakes' = TRUE
  /\ UNCHANGED <<ready, input, context, device, news, screen>>

WakeTouchSource ==
  /\ wakes
  /\ wakes' = FALSE /\ ready' = TRUE
  /\ UNCHANGED <<pdus, touches, input, context, device, news, screen>>

-----------------------------------------------------------------------------
(* The main thread: handle_input_events *)

\* event_source_dispatch
DispatchTouches ==
  /\ input = "rest" /\ ready
  /\ ready' = FALSE
  /\ input' = IF device.id = NoDevice THEN "rest" ELSE "handle"
  /\ UNCHANGED <<pdus, wakes, touches, context, device, news, screen>>

\* What a contact does to the screen, when the device still exists there.
Reaches == device.emulating /\ device.id = screen.device
PutDown(c) == screen' = IF Reaches THEN [screen EXCEPT !.down = @ \cup {c}] ELSE screen
LiftUp(c) == screen' = IF Reaches THEN [screen EXCEPT !.down = @ \ {c}] ELSE screen

Becomes(c, state, object, ignore) ==
  context' = [context EXCEPT ![c] = [state |-> state, object |-> object, ignore |-> ignore]]

\* A contact that is not told to the display server runs through the states all the same.
Engages(c) ==
  \/ /\ Becomes(c, "engaged", TRUE, FALSE)
     /\ (PutDown(c) \/ UNCHANGED screen)
  \/ Becomes(c, "engaged", TRUE, TRUE) /\ UNCHANGED screen

OutOfRange(c, flags) ==
  \/ flags = "down" /\ Engages(c)
  \/ flags = "hover" /\ Becomes(c, "hovering", TRUE, FALSE) /\ UNCHANGED screen
  \/ flags \notin {"down", "hover"} /\ UNCHANGED <<context, screen>>

Hovering(c, flags) ==
  \/ flags = "down" /\ Engages(c)
  \/ flags = "leave" /\ Becomes(c, "out_of_range", FALSE, FALSE) /\ UNCHANGED screen
  \/ flags \notin {"down", "leave"} /\ UNCHANGED <<context, screen>>

\* Moving a contact does not change whether it is down.
Engaged(c, flags) ==
  \/ /\ flags \in {"up_hover", "up"}
     /\ IF context[c].ignore THEN UNCHANGED screen ELSE LiftUp(c)
     /\ IF flags = "up_hover" THEN Becomes(c, "hovering", TRUE, FALSE)
                              ELSE Becomes(c, "out_of_range", FALSE, FALSE)
  \/ flags \notin {"up_hover", "up"} /\ UNCHANGED <<context, screen>>

\* dismiss_touch_contact.  Whether the contact is ignored is not asked for.
DismissContact(c) ==
  \/ ~context[c].object /\ UNCHANGED <<context, screen>>
  \/ /\ context[c].object
     /\ Becomes(c, "out_of_range", FALSE, FALSE)
     /\ IF context[c].state = "engaged" THEN LiftUp(c) ELSE UNCHANGED screen

Handling == input \in {"handle", "dispose"}

\* process_touch_frame and dismiss_touch_contact, up to the device frame.
HandleTouch ==
  /\ Handling /\ touches # <<>>
  /\ touches' = Tail(touches)
  /\ \E c \in {Head(touches)[1]}, flags \in {Head(touches)[2]} :
       \/ flags = "dismiss" /\ DismissContact(c)
       \/ /\ flags # "dismiss"
          /\ \/ context[c].state = "out_of_range" /\ OutOfRange(c, flags)
             \/ context[c].state = "hovering" /\ Hovering(c, flags)
             \/ context[c].state = "engaged" /\ Engaged(c, flags)
  /\ UNCHANGED <<pdus, wakes, ready, input, device, news>>

TouchesHandled ==
  /\ input = "handle" /\ touches = <<>>
  /\ input' = "rest"
  /\ UNCHANGED <<pdus, wakes, touches, ready, context, device, news, screen>>

-----------------------------------------------------------------------------
(* The main thread: grd_ei_source_dispatch *)

\* on_touch_device_removed
ResetContacts ==
  context' = [c \in Contact |->
    IF context[c].state = "out_of_range" THEN context[c]
    ELSE [state |-> "out_of_range", object |-> FALSE, ignore |-> TRUE]]

Receive(type) ==
  /\ input = "rest" /\ news # <<>> /\ Head(news).type = type
  /\ news' = Tail(news)
  /\ UNCHANGED <<pdus, wakes, touches, input, screen>>

\* maybe_dispose_ei_touch comes first.
TouchDeviceAdded ==
  /\ Receive("added")
  /\ device' = [id |-> Head(news).id, emulating |-> FALSE]
  /\ ResetContacts
  /\ UNCHANGED ready

\* Mutant: the queue is not looked at when the device arrives.
TouchDeviceResumed_NoWake ==
  /\ Receive("resumed")
  /\ device' = IF device.id = Head(news).id THEN [device EXCEPT !.emulating = TRUE] ELSE device
  /\ UNCHANGED <<ready, context>>

TouchDeviceResumed ==
  /\ Receive("resumed")
  /\ \/ /\ device.id = Head(news).id
        /\ device' = [device EXCEPT !.emulating = TRUE]
        /\ ready' = TRUE
     \/ device.id # Head(news).id /\ UNCHANGED <<device, ready>>
  /\ UNCHANGED context

TouchDeviceRemoved ==
  /\ Receive("removed")
  /\ \/ /\ device.id = Head(news).id
        /\ device' = [id |-> NoDevice, emulating |-> FALSE]
        /\ ResetContacts
     \/ device.id # Head(news).id /\ UNCHANGED <<device, context>>
  /\ UNCHANGED ready

-----------------------------------------------------------------------------
(* The main thread: the channel is disposed *)

\* grd_rdp_dvc_input_dispose closes the channel and drops the source, and handles what
\* is in the queue if there is a device.
DisposeInput(dev) ==
  /\ input = "rest" /\ ~wakes
  /\ ready' = FALSE
  /\ device' = dev
  /\ input' = IF dev.id = NoDevice THEN "release" ELSE "dispose"

TearDownInput ==
  /\ DisposeInput(device)
  /\ UNCHANGED <<pdus, wakes, touches, context, news, screen>>

\* The display server closed the session: clear_ei came first.
CloseInput ==
  /\ DisposeInput([id |-> NoDevice, emulating |-> FALSE])
  /\ news' = <<>>
  /\ screen' = [screen EXCEPT !.device = NoDevice, !.devices = MaxDevices, !.down = {}]
  /\ UNCHANGED <<pdus, wakes, touches, context>>

\* The contacts that are left are released; libei lifts up those that are down.
ReleaseContacts ==
  /\ \/ input = "release"
     \/ input = "dispose" /\ touches = <<>>
  /\ input' = "gone"
  /\ touches' = <<>>
  /\ context' = [c \in Contact |-> [context[c] EXCEPT !.object = FALSE]]
  /\ screen' = IF Reaches
               THEN [screen EXCEPT !.down = @ \ {c \in Contact : context[c].object}]
               ELSE screen
  /\ UNCHANGED <<pdus, wakes, ready, device, news>>

-----------------------------------------------------------------------------
(* The display server *)

ScreenAddsDevice ==
  /\ screen.device = NoDevice /\ screen.devices < MaxDevices
  /\ LET new == screen.devices + 1
     IN  /\ screen' = [screen EXCEPT !.device = new, !.devices = new]
         /\ news' = news \o <<[type |-> "added", id |-> new], [type |-> "resumed", id |-> new]>>
  /\ UNCHANGED <<pdus, wakes, touches, ready, input, context, device>>

\* The contacts of a device that goes away are lifted up.
ScreenRemovesDevice ==
  /\ screen.device # NoDevice
  /\ screen' = [screen EXCEPT !.device = NoDevice, !.down = {}]
  /\ news' = Append(news, [type |-> "removed", id |-> screen.device])
  /\ UNCHANGED <<pdus, wakes, touches, ready, input, context, device>>

-----------------------------------------------------------------------------

Handler == DispatchTouches \/ HandleTouch \/ TouchesHandled \/ ReleaseContacts

EiSource == TouchDeviceAdded \/ TouchDeviceResumed \/ TouchDeviceRemoved

Next ==
  \/ \E c \in Contact, what \in Flags \cup {"dismiss"} : QueueTouch(c, what)
  \/ WakeTouchSource \/ Handler \/ EiSource \/ TearDownInput \/ CloseInput
  \/ ScreenAddsDevice \/ ScreenRemovesDevice

-----------------------------------------------------------------------------
(* Properties *)

TypeOK ==
  /\ pdus \in 0 .. MaxTouches
  /\ {wakes, ready} \subseteq BOOLEAN
  /\ input \in {"rest", "handle", "dispose", "release", "gone"}
  /\ touches \in Seq(Contact \X (Flags \cup {"dismiss"}))
  /\ context \in [Contact -> [state : {"out_of_range", "hovering", "engaged"},
                              object : BOOLEAN, ignore : BOOLEAN]]
  /\ device \in [id : 0 .. MaxDevices, emulating : BOOLEAN]
  /\ screen \in [device : 0 .. MaxDevices, devices : 0 .. MaxDevices, down : SUBSET Contact]

\* A contact has an object exactly as long as it is in range, which the automaton asserts
\* in every state (grd-rdp-dvc-input.c:373, 448, 518, 631), and is handled only while there
\* is a device (grd-session.c:778).
ObjectInRange ==
  /\ input # "gone" =>
       \A c \in Contact : context[c].object <=> context[c].state # "out_of_range"
  /\ Handling => device.id # NoDevice

\* No contact stays down on the screen when the client lifted it, left or was dismissed,
\* when its device was replaced, or when the channel is gone.
NoStuckTouch ==
  \A c \in screen.down :
    /\ context[c].state = "engaged" /\ context[c].object /\ ~context[c].ignore
    /\ input # "gone"

\* Events in the queue have a source that is ready or becomes so, or they wait for a
\* device, whose arrival makes it ready.
NoStrandedTouch ==
  touches # <<>> /\ input = "rest" =>
    \/ wakes \/ ready
    \/ device.id = NoDevice \/ ~device.emulating

\* Touches that a device takes wait to be handled, and a channel that is disposed waits to
\* be disposed of.
TouchesWait ==
  \/ touches # <<>> /\ device.emulating
  \/ input \in {"dispose", "release"}

================================================================================
