--------------------------- MODULE CameraEnumerator ---------------------------
(***************************************************************************)
(* The cameras of the client as they come and go                           *)
(* (grd-rdp-dvc-camera-enumerator.c), with the creation and the disposal   *)
(* of a device (grd-rdp-dvc-camera-device.c).                              *)
(*                                                                         *)
(* The channel thread of the enumerator queues what the client announces;  *)
(* the main thread adds and removes the devices, holding the mutex of the  *)
(* queues until it is done.  A device that fails asks for its removal from *)
(* the thread that it fails in, which takes the same mutex.                *)
(***************************************************************************)
EXTENDS Naturals, FiniteSets

CONSTANTS
  Names,    \* names of the channels of cameras
  MaxNews,  \* bound: notifications of the client and failures
  CalmFails \* the main thread does not manage devices while one of them fails

VARIABLES
  version,  \* the enumerator is initialized; "down" once its channel is torn down
  toAdd, toRemove, \* devices_to_add, devices_to_remove
  source,   \* device_source is ready
  manager,  \* the main thread in manage_devices: what is left to remove and to add, the
            \* device that it disposes of and how far it is
  table,    \* device_table
  failing,  \* threads of a device that are in on_device_error
  failed,   \* devices of the table that failed
  announced, \* what the client said last of each name
  stale,    \* keys of the queues that are freed
  misled,   \* names that were looked for with a key that is freed, and not found
  news

vars == <<version, toAdd, toRemove, source, manager, table, failing, failed, announced, stale, misled, news>>

Idle == [step |-> "idle", remove |-> {}, add |-> {}, device |-> "none"]
Threads == {"channel", "camera", "status"}
Locked == manager.step # "idle"

Init ==
  /\ version = "none"
  /\ toAdd = {} /\ toRemove = {} /\ source = FALSE
  /\ manager = Idle
  /\ table = {} /\ failing = {} /\ failed = {}
  /\ announced = {} /\ stale = {} /\ misled = {} /\ news = 0

\* enumerator_select_version_request: a second one, like everything before the first,
\* tears the channel down.
SelectVersionRequest ==
  /\ version # "down"
  /\ version' = IF version = "none" THEN "known" ELSE "down"
  /\ UNCHANGED <<toAdd, toRemove, source, manager, table, failing, failed, announced, stale, misled, news>>

\* g_hash_table_remove from one queue and g_hash_table_insert into the other.  A value has
\* the key of its entry, and an insertion replaces the value of the entry that is there,
\* frees the old one and keeps the key: a later look for that entry reads freed memory and
\* may find it or not.
Enqueue(n, kind) ==
  LET other == IF kind = "add" THEN "remove" ELSE "add"
      queue(k) == IF k = "add" THEN toAdd ELSE toRemove
  IN  \E found \in IF <<other, n>> \in stale THEN BOOLEAN ELSE {n \in queue(other)} :
        LET left == IF found THEN queue(other) \ {n} ELSE queue(other)
        IN  /\ toAdd' = IF kind = "add" THEN toAdd \cup {n} ELSE left
            /\ toRemove' = IF kind = "add" THEN left ELSE toRemove \cup {n}
            /\ stale' = (stale \ {<<other, m>> : m \in queue(other) \ left})
                        \cup {<<kind, m>> : m \in queue(kind) \cap {n}}
            /\ misled' = misled \cup ({n} \cap left)
            /\ source' = TRUE

\* enumerator_device_added_notification and enumerator_device_removed_notification; the
\* client may repeat itself.  A name that is too long or reserved is ignored.
Notification(n, kind) ==
  /\ version # "down" /\ ~Locked /\ news < MaxNews
  /\ news' = news + 1
  /\ IF version = "none" THEN version' = "down" /\ UNCHANGED <<toAdd, toRemove, source, announced, stale, misled>>
     ELSE /\ Enqueue(n, kind) /\ UNCHANGED version
          /\ announced' = IF kind = "add" THEN announced \cup {n} ELSE announced \ {n}
  /\ UNCHANGED <<manager, table, failing, failed>>

DeviceAddedNotification(n) == Notification(n, "add")
DeviceRemovedNotification(n) == Notification(n, "remove")

-----------------------------------------------------------------------------
(* Devices that fail *)

\* transition_into_fatal_error_state in the channel thread of the device, with its
\* state_mutex, in any state (device_error_response) until the channel is closed;
\* pipewire_core_error in its camera thread, until that is joined; dvc_creation_status_cb,
\* holding the mutex of the notifications.  A device may fail again.
Fails(n, thread) ==
  /\ n \in table /\ <<n, thread>> \notin failing /\ news < MaxNews
  /\ \/ manager.device # n \/ thread = "status"
     \/ thread = "channel" /\ manager.step # "unsubscribe"
     \/ thread = "camera" /\ manager.step \in {"state", "camera", "join"}
  /\ CalmFails => ~Locked
  /\ failing' = failing \cup {<<n, thread>>} /\ failed' = failed \cup {n}
  /\ news' = news + 1
  /\ UNCHANGED <<version, toAdd, toRemove, source, manager, table, announced, stale, misled>>

\* on_device_error, when the mutex is free: the fake of a notification.
OnDeviceError(n, thread) ==
  /\ <<n, thread>> \in failing /\ ~Locked
  /\ failing' = failing \ {<<n, thread>>}
  /\ Enqueue(n, "remove")
  /\ UNCHANGED <<version, manager, table, failed, announced, news>>

-----------------------------------------------------------------------------
(* The main thread *)

\* manage_devices takes the mutex.
ManageDevices ==
  /\ source /\ ~Locked /\ version # "gone"
  /\ CalmFails => failing = {}
  /\ source' = FALSE
  /\ manager' = [Idle EXCEPT !.step = "next", !.remove = toRemove, !.add = toAdd]
  /\ toRemove' = {} /\ toAdd' = {} /\ stale' = {}
  /\ UNCHANGED <<version, table, failing, failed, announced, misled, news>>

\* add_camera_device removes a device of this name first.
Replaced(n) == n \in table

\* remove_camera_device and add_camera_device, one device after the other; a new one may
\* fail to set up PipeWire or to open its channel (grd_rdp_dvc_camera_device_new).
NextDevice ==
  /\ manager.step = "next"
  /\ \/ \E n \in manager.remove :
          /\ manager' = IF n \in table THEN [manager EXCEPT !.step = "state", !.device = n, !.remove = @ \ {n}]
                        ELSE [manager EXCEPT !.remove = @ \ {n}]
          /\ UNCHANGED table
     \/ /\ manager.remove = {}
        /\ \E n \in manager.add :
             IF Replaced(n) THEN manager' = [manager EXCEPT !.step = "state", !.device = n] /\ UNCHANGED table
             ELSE /\ manager' = [manager EXCEPT !.add = @ \ {n}]
                  /\ \E opened \in BOOLEAN : table' = IF opened THEN table \cup {n} ELSE table
     \/ manager.remove \cup manager.add = {} /\ manager' = Idle /\ UNCHANGED table
  /\ UNCHANGED <<version, toAdd, toRemove, source, failing, failed, announced, stale, misled, news>>

\* grd_rdp_dvc_camera_device_dispose: the state (state_mutex), the streams in the camera
\* thread (sync_point), that thread joined, the channel closed with its thread, the status
\* unsubscribed.
DisposeStep ==
  /\ LET n == manager.device
     IN  \/ /\ manager.step = "state" /\ <<n, "channel">> \notin failing
            /\ manager' = [manager EXCEPT !.step = "camera"] /\ UNCHANGED <<table, failed>>
         \/ /\ manager.step = "camera" /\ <<n, "camera">> \notin failing
            /\ manager' = [manager EXCEPT !.step = "join"] /\ UNCHANGED <<table, failed>>
         \/ /\ manager.step = "join" /\ <<n, "camera">> \notin failing
            /\ manager' = [manager EXCEPT !.step = "close"] /\ UNCHANGED <<table, failed>>
         \/ /\ manager.step = "close" /\ <<n, "channel">> \notin failing
            /\ manager' = [manager EXCEPT !.step = "unsubscribe"] /\ UNCHANGED <<table, failed>>
         \/ /\ manager.step = "unsubscribe" /\ <<n, "status">> \notin failing
            /\ table' = table \ {n} /\ failed' = failed \ {n}
            /\ manager' = [manager EXCEPT !.step = "next", !.device = "none"]
  /\ UNCHANGED <<version, toAdd, toRemove, source, failing, announced, stale, misled, news>>

\* grd_rdp_dvc_camera_enumerator_dispose: the devices first, without the mutex.
Dispose ==
  /\ ~Locked /\ version \notin {"gone"} /\ failing = {}
  /\ version' = "gone" /\ source' = FALSE
  /\ table' = {} /\ failed' = {} /\ toAdd' = {} /\ toRemove' = {} /\ stale' = {}
  /\ UNCHANGED <<manager, failing, announced, misled, news>>

Next ==
  \/ SelectVersionRequest /\ version # "gone"
  \/ \E n \in Names :
       \/ version # "gone" /\ (DeviceAddedNotification(n) \/ DeviceRemovedNotification(n))
       \/ \E thread \in Threads : Fails(n, thread) \/ OnDeviceError(n, thread)
  \/ ManageDevices \/ NextDevice \/ DisposeStep \/ Dispose

-----------------------------------------------------------------------------
(* Properties *)

TypeOK ==
  /\ misled \subseteq Names /\ stale \subseteq ({"add"} \X toAdd) \cup ({"remove"} \X toRemove)
  /\ version \in {"none", "known", "down", "gone"}
  /\ toAdd \cup toRemove \cup table \subseteq Names
  /\ manager.step \in {"idle", "next", "state", "camera", "join", "close", "unsubscribe"}

\* A name is to be added or removed, not both, unless a key that is freed misled the code; a device that failed is about to leave the
\* table; nobody is in a device after it left.
QueuesAgree ==
  /\ toAdd \cap toRemove \subseteq misled
  /\ toAdd \cup toRemove # {} => source
  /\ \A n \in failed : n \in toRemove \cup toAdd \cup manager.remove \cup manager.add \cup {manager.device}
                       \/ \E t \in Threads : <<n, t>> \in failing
  /\ \A f \in failing : f[1] \in table

\* In the end no device is there that failed or, but for those keys, that the client removed.
DevicesRemoved == ~Locked /\ failed = {} /\ (version = "known" => table \subseteq announced \cup misled)
================================================================================
