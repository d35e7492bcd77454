------------------------------- MODULE EglThread -------------------------------
(***************************************************************************)
(* The EGL thread that all sessions of a daemon share:                     *)
(* src/src/grd-egl-thread.c.                                               *)
(*                                                                         *)
(* Clients queue tasks and the thread runs them one after the other, each  *)
(* with a callback at its end.  A stream has a slot of its own: a task in  *)
(* it that did not start yet is replaced by the next one, and its callback *)
(* says that it failed.  A stream that goes away queues a sync task, waits *)
(* for its callback and releases the slot, which the queue must not hold   *)
(* any more.                                                               *)
(***************************************************************************)
EXTENDS Naturals, Sequences

CONSTANTS
  Slot,       \* the slots of the streams
  TaskKinds,  \* the kinds of tasks that are looked at: each is one of Kinds
  MaxTasks    \* tasks queued, a bound of the model

VARIABLES
  egl,        \* the thread: starting, up, failed; quitting, drained, joined
  tasks,      \* the tasks so far: kind, slot, callbacks, success and whether it is freed
  queue,      \* task_queue: tasks by their number, and slots
  content,    \* the task in each slot, or 0
  user,       \* what the stream of a slot does: none, streams, syncs, released
  running,    \* the task that runs, or 0
  idle        \* the source that quits the loop is attached

eglVars == <<egl, tasks, queue, content, user, running, idle>>

Kinds == {"download", "upload", "allocate", "deallocate", "sync", "custom"}

\* GrdEglTask; the tasks that a slot holds read or write the pixels of a stream.
NewTask(kind, s) == [kind |-> kind, slot |-> s, calls |-> 0, ok |-> FALSE, freed |-> FALSE]

\* An entry of the queue: a task, or a slot whose task is looked up later.
OfSlot(s) == [slot |-> s, task |-> 0]
OfTask(t) == [slot |-> "none", task |-> t]

\* The callback of a task, and grd_egl_task_free after it.
Ended(list, t, ok) ==
  IF t = 0 THEN list
  ELSE [list EXCEPT ![t].calls = @ + 1, ![t].ok = ok, ![t].freed = TRUE]

Init ==
  /\ egl = "starting" /\ idle = FALSE
  /\ tasks = <<>> /\ queue = <<>> /\ running = 0
  /\ content = [s \in Slot |-> 0]
  /\ user = [s \in Slot |-> "none"]

\* initialize_egl_context with one platform: display, API, context, and then the modifiers
\* of the formats, the renderer and the node of the device, each of which may fail.
Platform == [display : BOOLEAN, modifiers : BOOLEAN, accelerated : BOOLEAN, node : BOOLEAN]
Initializes(platform) == \A field \in DOMAIN platform : platform[field]

\* grd_egl_thread_func starts, grd_egl_init_in_impl: Wayland first, the device next;
\* grd_egl_thread_new waits for it.
Initialize ==
  /\ egl = "starting"
  /\ \E wayland, device \in Platform :
       egl' = IF Initializes(wayland) \/ Initializes(device) THEN "up" ELSE "failed"
  /\ UNCHANGED <<tasks, queue, content, user, running, idle>>

\* grd_egl_thread_acquire_slot
AcquireSlot(s) ==
  /\ egl = "up" /\ ~idle /\ user[s] = "none"
  /\ user' = [user EXCEPT ![s] = "streams"]
  /\ UNCHANGED <<egl, tasks, queue, content, running, idle>>

\* replaceable_task_replace_task
Replaced(list, s) == Ended(list, content[s], FALSE)

\* push_replaceable_task, for grd_egl_thread_download and grd_egl_thread_upload
PushReplaceable(kind, s) ==
  /\ kind \in {"download", "upload"}
  /\ user[s] = "streams" /\ Len(tasks) < MaxTasks
  /\ tasks' = Append(Replaced(tasks, s), NewTask(kind, s))
  /\ content' = [content EXCEPT ![s] = Len(tasks) + 1]
  /\ queue' = Append(queue, OfSlot(s))
  /\ UNCHANGED <<egl, user, running, idle>>

\* grd_egl_thread_allocate, _deallocate and _run_custom_task, and a download without slot
Push(kind) ==
  /\ egl = "up" /\ ~idle /\ kind \notin {"upload", "sync"} /\ Len(tasks) < MaxTasks
  /\ tasks' = Append(tasks, NewTask(kind, "none"))
  /\ queue' = Append(queue, OfTask(Len(tasks) + 1))
  /\ UNCHANGED <<egl, content, user, running, idle>>

\* grd_egl_thread_sync: a stream pushes no more and waits.
Sync(s) ==
  /\ user[s] = "streams" /\ Len(tasks) < MaxTasks
  /\ tasks' = Append(tasks, NewTask("sync", s))
  /\ queue' = Append(queue, OfTask(Len(tasks) + 1))
  /\ user' = [user EXCEPT ![s] = "syncs"]
  /\ UNCHANGED <<egl, content, running, idle>>

\* on_sync_complete
Synced(s) == user[s] = "syncs" /\ \E t \in DOMAIN tasks :
                                    tasks[t].kind = "sync" /\ tasks[t].slot = s /\ tasks[t].calls = 1

\* grd_egl_thread_release_slot: replaceable_task_free replaces a task that is left.
ReleaseSlot(s) ==
  /\ Synced(s)
  /\ tasks' = Replaced(tasks, s) /\ content' = [content EXCEPT ![s] = 0]
  /\ user' = [user EXCEPT ![s] = "released"]
  /\ UNCHANGED <<egl, queue, running, idle>>

\* grd_thread_dispatch_in_impl: a task starts; run_replaceable_task_in_impl takes what the
\* slot holds now, which may be nothing.
Dispatch ==
  /\ egl = "up" /\ running = 0 /\ queue # <<>>
  /\ LET first == Head(queue) IN
       /\ running' = IF first.task # 0 THEN first.task ELSE content[first.slot]
       /\ content' = IF first.task # 0 THEN content ELSE [content EXCEPT ![first.slot] = 0]
  /\ queue' = Tail(queue)
  /\ UNCHANGED <<egl, tasks, user, idle>>

\* The ends of a task: what GL or a client's function refuses fails; to free and to sync
\* does not.
Outcomes(kind) == IF kind \in {"deallocate", "sync"} THEN {TRUE} ELSE BOOLEAN

\* download_in_impl, allocate_in_impl, deallocate_in_impl, upload_in_impl, sync_in_impl and
\* run_custom_task_in_impl: the work, the callback, and the destruction of the task.
RunTask ==
  /\ running # 0
  /\ \E ok \in Outcomes(tasks[running].kind) : tasks' = Ended(tasks, running, ok)
  /\ running' = 0
  /\ UNCHANGED <<egl, queue, content, user, idle>>

\* grd_egl_thread_free, when nobody uses the thread any more.
Free ==
  /\ egl = "up" /\ ~idle
  /\ \A s \in Slot : user[s] \in {"none", "released"}
  /\ idle' = TRUE
  /\ UNCHANGED <<egl, tasks, queue, content, user, running>>

\* quit_main_loop_in_impl: an idle source is dispatched when no task is queued.
QuitMainLoop ==
  /\ egl = "up" /\ idle /\ running = 0 /\ queue = <<>>
  /\ egl' = "quitting"
  /\ UNCHANGED <<tasks, queue, content, user, running, idle>>

\* The end of grd_egl_thread_func: what is queued is destroyed without a callback; then
\* grd_egl_thread_free joins the thread.
Join ==
  /\ egl = "quitting"
  /\ egl' = "joined" /\ queue' = <<>>
  /\ tasks' = [t \in DOMAIN tasks |->
                 [tasks[t] EXCEPT !.freed = @ \/ \E i \in DOMAIN queue : queue[i].task = t]]
  /\ UNCHANGED <<content, user, running, idle>>

Next ==
  \/ Initialize \/ Dispatch \/ RunTask \/ Free \/ QuitMainLoop \/ Join
  \/ \E kind \in TaskKinds : Push(kind)
  \/ \E s \in Slot :
       \/ AcquireSlot(s) \/ Sync(s) \/ ReleaseSlot(s)
       \/ \E kind \in TaskKinds : PushReplaceable(kind, s)

-----------------------------------------------------------------------------
(* Properties *)

TypeOK ==
  /\ egl \in {"starting", "up", "failed", "quitting", "joined"} /\ idle \in BOOLEAN
  /\ \A t \in DOMAIN tasks :
       tasks[t] \in [kind : Kinds, slot : Slot \cup {"none"}, calls : 0 .. 2, ok : BOOLEAN,
                     freed : BOOLEAN]
  /\ \A i \in DOMAIN queue : queue[i].slot \in Slot \/ queue[i].task \in DOMAIN tasks
  /\ content \in [Slot -> 0 .. MaxTasks] /\ running \in 0 .. MaxTasks
  /\ user \in [Slot -> {"none", "streams", "syncs", "released"}]

\* The client of a task hears of its end once, whether it ran or was replaced, and before
\* the task is freed; a task of a slot succeeds after those before it ended, and a sync task
\* after all that was queued before it, which is what a stream counts on when it waits for one
\* (grd-vnc-pipewire-stream.c:1245-1255).
TasksOnce ==
  \A t \in DOMAIN tasks :
    /\ tasks[t].calls = IF tasks[t].freed THEN 1 ELSE 0
    /\ \A u \in 1 .. t - 1 :
         tasks[t].ok /\ (tasks[t].kind = "sync" \/ tasks[t].slot = tasks[u].slot) =>
         tasks[u].freed

\* The queue refers to slots that exist only, and a task in a slot has an entry of the
\* queue after it: no slot is freed under the thread, nor left with a task that nobody
\* starts.  When the thread is gone no slot is left ("g_assert (g_hash_table_size
\* (egl_thread->slot_table) == 0)", grd-egl-thread.c:793).
SlotsLive ==
  /\ \A i \in DOMAIN queue : queue[i].task = 0 => user[queue[i].slot] \in {"streams", "syncs"}
  /\ \A s \in Slot : content[s] # 0 => \E i \in DOMAIN queue : queue[i] = OfSlot(s)
  /\ egl \in {"quitting", "joined"} => \A s \in Slot : user[s] \in {"none", "released"}

\* Every task ends.
TasksEnd == \A t \in DOMAIN tasks : tasks[t].freed
================================================================================
