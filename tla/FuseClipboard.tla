---------------------------- MODULE FuseClipboard ----------------------------
(***************************************************************************)
(* The files of the client as a file system of the session                 *)
(* (grd-rdp-fuse-clipboard.c).                                             *)
(*                                                                         *)
(* A selection of the client's files is a directory of a FUSE file system. *)
(* A client that can lock its clipboard data has its selections under ids  *)
(* that are locked at the client for as long as they are in use; of others *)
(* there is one selection at a time.  The FUSE thread asks the client for  *)
(* sizes and contents, the thread of the channel brings its answers, and   *)
(* the main thread makes, drops and clears selections.  To clear one it    *)
(* must wait for the operations on its files, without filesystem_mutex.    *)
(***************************************************************************)
EXTENDS Naturals, Sequences, FiniteSets

CONSTANTS
  MaxIds,   \* bound: ids for selections
  MaxFiles, \* bound: selections of files that were received, one file each
  MaxOps    \* bound: operations of the applications of the session

VARIABLES
  locking, \* the client can lock its clipboard data (canLockClipData)
  slots,   \* clip_data_table, and no_cdi_entry under 0
  inodes,  \* the files: the entry, whether the size is known, whether it is in inode_table
  ops,     \* operations of the kernel: kind, inode, and how often they were replied
  asks,    \* request_table: the operation of each stream id; who asks has the stream ids
  wire,    \* stream ids of requests that the client did not answer yet
  remote,  \* the ids that are locked at the client, and how often each was
  resets,  \* timeouts_to_reset; the source is ready when it is not empty
  work,    \* what the main thread still has to do in the function that it is in
  ended    \* "no", "exiting" once fuse_session_exit was called, "done"

vars == <<locking, slots, inodes, ops, asks, wire, remote, resets, work, ended>>

Id == 1..MaxIds
NoCdi == 0
Unused == [used |-> FALSE, dir |-> FALSE, requested |-> FALSE, timer |-> "none"]
NewEntry == [Unused EXCEPT !.used = TRUE]

Init ==
  /\ locking \in BOOLEAN
  /\ slots = [i \in {NoCdi} \cup Id |-> Unused]
  /\ inodes = <<>> /\ ops = <<>> /\ asks = {} /\ wire = {}
  /\ remote = [locked |-> {}, times |-> 0]
  /\ resets = {} /\ work = <<>> /\ ended = "no"

Free == work = <<>> /\ ended = "no"

\* The main thread has filesystem_mutex, except while it invalidates inodes and between
\* two functions that take it one after the other.
FsHeld_Always == work # <<>>
FsHeld == work # <<>> /\ Head(work).do \notin {"invalidate", "lazily", "dismiss", "exit"}

Item(do, i) == [do |-> do, id |-> i]
Drop(i) == <<Item("clear", i), Item("remove", i)>>

-----------------------------------------------------------------------------
(* The operations of the file system, with filesystem_mutex *)

Reply(o, S) == [n \in DOMAIN o |-> IF n \in S THEN [o[n] EXCEPT !.replies = @ + 1] ELSE o[n]]
OpenOn(n, S) == ops[n].ino \in S /\ ops[n].replies = 0

\* maybe_queue_clip_data_entry_timeout_reset: a timer that was set some time ago is reset.
QueueReset_Always(i) == resets' = resets \cup {i}
QueueReset(i) == resets' = IF slots[i].timer = "old" THEN resets \cup {i} ELSE resets

\* fuse_ll_lookup, fuse_ll_getattr, fuse_ll_read: what is known is replied, the rest is
\* requested from the client (rdp_fuse_file_contents_request_new).  A lookup does what a
\* getattr does.
FuseOperation(n) ==
  /\ ended # "done" /\ ~FsHeld
  /\ ops[n].replies = 0 /\ \A a \in asks : a.op # n
  /\ LET file == inodes[ops[n].ino]
         size == ops[n].kind = "getattr"
     IN  IF ~file.there \/ file.size = size
         THEN ops' = Reply(ops, {n}) /\ UNCHANGED <<slots, asks, wire, resets>>
         ELSE /\ asks' = asks \cup {[op |-> n, stream |-> n]}
              /\ wire' = wire \cup {n}
              /\ slots' = [slots EXCEPT ![file.id].requested = TRUE]
              /\ QueueReset(file.id)
              /\ UNCHANGED ops
  /\ UNCHANGED <<locking, inodes, remote, work, ended>>

\* grd_rdp_fuse_clipboard_submit_file_contents_response, from the thread of the channel; a
\* response to a request that was cleared is ignored.
SubmitFileContentsResponse(s) ==
  /\ ended = "no" /\ ~FsHeld /\ s \in wire
  /\ wire' = wire \ {s}
  /\ LET asked == {a \in asks : a.stream = s}
     IN  /\ asks' = asks \ asked
         /\ \/ /\ asked # {} /\ inodes' = inodes /\ resets' = resets  \* a failure
               /\ ops' = Reply(ops, {a.op : a \in asked})
            \/ /\ asked # {}
               /\ LET o == ops[s]
                  IN  /\ inodes' = IF o.kind = "read" THEN inodes ELSE [inodes EXCEPT ![o.ino].size = TRUE]
                      /\ QueueReset(inodes[o.ino].id)
               /\ ops' = Reply(ops, {a.op : a \in asked})
            \/ asked = {} /\ UNCHANGED <<ops, inodes, resets>>
  /\ UNCHANGED <<locking, slots, remote, work, ended>>

\* maybe_clear_rdp_fuse_request, for the requests on some files.
ClearRequests_None(S) == UNCHANGED <<asks, ops>>
ClearRequests(S) ==
  LET cleared == {a \in asks : ops[a.op].ino \in S}
  IN  /\ asks' = asks \ cleared
      /\ ops' = Reply(ops, {a.op : a \in cleared})

FilesOf(I) == {f \in DOMAIN inodes : inodes[f].there /\ inodes[f].id \in I}

-----------------------------------------------------------------------------
(* The main thread: what a function of it starts with *)

Start(items) == work = <<>> /\ work' = items

\* grd_rdp_fuse_clipboard_clip_data_id_new, for a request of the clipboard's content.
ClipDataIdNew ==
  /\ Free /\ locking
  /\ \E i \in Id :
       /\ ~slots[i].used /\ i = remote.times + 1
       /\ slots' = [slots EXCEPT ![i] = NewEntry]
       /\ remote' = [locked |-> remote.locked \cup {i}, times |-> i]
  /\ UNCHANGED <<locking, inodes, ops, asks, wire, resets, work, ended>>

\* grd_rdp_fuse_clipboard_clip_data_id_free, when the request is aborted.
ClipDataIdFree(i) ==
  /\ Free /\ slots[i].used /\ ~slots[i].dir
  /\ Start(Drop(i))
  /\ UNCHANGED <<locking, slots, inodes, ops, asks, wire, remote, resets, ended>>

\* grd_rdp_fuse_clipboard_set_cdi_selection, set_no_cdi_selection: the response arrived.
SetSelection(i) ==
  /\ Free /\ Len(inodes) < MaxFiles
  /\ IF i = NoCdi THEN ~locking ELSE slots[i].used /\ ~slots[i].dir
  /\ Start((IF slots[i].dir THEN <<Item("clear", i)>> ELSE <<>>) \o <<Item("set", i)>>)
  /\ slots' = [slots EXCEPT ![i].used = TRUE]
  /\ UNCHANGED <<locking, inodes, ops, asks, wire, remote, resets, ended>>

\* A new selection with files replaces the one of the client (send_mime_type_list), or a
\* new list of the client does (update_server_format_list): clear_no_cdi_selection, then
\* lazily_clear_all_cdi_selections; without locks a list ends what is requested, too.
NewSelection ==
  /\ Free
  /\ \E files, theirs \in BOOLEAN :
       LET items == (IF files /\ slots[NoCdi].used THEN <<Item("clear", NoCdi)>> ELSE <<>>)
                    \o (IF files THEN <<Item("lazily", NoCdi)>> ELSE <<>>)
                    \o (IF theirs /\ ~locking THEN <<Item("dismiss", NoCdi)>> ELSE <<>>)
       IN  items # <<>> /\ Start(items)
  /\ UNCHANGED <<locking, slots, inodes, ops, asks, wire, remote, resets, ended>>

\* drop_clip_data_entry: the timer fires, some time after it was set.
DropClipDataEntry(i) ==
  /\ Free /\ slots[i].timer = "old"
  /\ Start(Drop(i))
  /\ slots' = [slots EXCEPT ![i].timer = "none"]
  /\ UNCHANGED <<locking, inodes, ops, asks, wire, remote, resets, ended>>

\* reset_clip_data_entry_timeouts, with filesystem_mutex only.
ResetTimeouts ==
  /\ Free /\ resets # {}
  /\ slots' = [i \in DOMAIN slots |-> IF i \in resets /\ slots[i].timer # "none"
                                      THEN [slots[i] EXCEPT !.timer = "new"] ELSE slots[i]]
  /\ resets' = {}
  /\ UNCHANGED <<locking, inodes, ops, asks, wire, remote, work, ended>>

\* grd_rdp_fuse_clipboard_dispose
Dispose ==
  /\ Free
  /\ Start(<<Item("clearAll", NoCdi), Item("exit", NoCdi)>>)
  /\ UNCHANGED <<locking, slots, inodes, ops, asks, wire, remote, resets, ended>>

-----------------------------------------------------------------------------
(* And what it goes on with *)

Doing(do) == work # <<>> /\ Head(work).do = do
Cleared == [do |-> "invalidate", id |-> NoCdi, files |-> {}]

\* clear_selection up to the invalidation: the requests are answered and the files are
\* taken out of the table with the mutex held.
ClearSelection ==
  /\ Doing("clear") \/ Doing("clearAll")
  /\ LET i == Head(work).id
         S == IF Doing("clearAll") THEN FilesOf(DOMAIN slots) ELSE FilesOf({i})
     IN  /\ ClearRequests(S)
         /\ inodes' = [f \in DOMAIN inodes |-> [inodes[f] EXCEPT !.there = @ /\ f \notin S]]
         /\ slots' = IF Doing("clearAll") THEN slots ELSE [slots EXCEPT ![i].dir = FALSE]
         /\ work' = <<[Cleared EXCEPT !.files = S]>> \o Tail(work)
  /\ UNCHANGED <<locking, wire, remote, resets, ended>>

\* fuse_lowlevel_notify_inval_inode blocks until the operations on the inode are finished.
Invalidate ==
  /\ Doing("invalidate")
  /\ ~\E n \in DOMAIN ops : OpenOn(n, Head(work).files)
  /\ work' = Tail(work)
  /\ UNCHANGED <<locking, slots, inodes, ops, asks, wire, remote, resets, ended>>

\* g_hash_table_remove: clip_data_entry_free unlocks the id and ends the timer.
Remove ==
  /\ Doing("remove")
  /\ slots' = [slots EXCEPT ![Head(work).id] = Unused]
  /\ remote' = [remote EXCEPT !.locked = @ \ {Head(work).id}]
  /\ work' = Tail(work)
  /\ UNCHANGED <<locking, inodes, ops, asks, wire, resets, ended>>

\* clear_instant_droppable_clip_data_entries collects what nobody read from.
Lazily ==
  /\ Doing("lazily")
  /\ LET S == {i \in Id : slots[i].used /\ ~slots[i].requested}
         order == CHOOSE q \in [1..Cardinality(S) -> S] : {q[k] : k \in DOMAIN q} = S
     IN  work' = [k \in 1..(2 * Len(order)) |-> Drop(order[(k + 1) \div 2])[2 - (k % 2)]]
                 \o <<Item("timers", NoCdi)>> \o Tail(work)
  /\ UNCHANGED <<locking, slots, inodes, ops, asks, wire, remote, resets, ended>>

\* maybe_set_clip_data_entry_timeout, for every other id.
SetTimers ==
  /\ Doing("timers")
  /\ slots' = [i \in DOMAIN slots |-> IF i # NoCdi /\ slots[i].used /\ slots[i].timer = "none"
                                      THEN [slots[i] EXCEPT !.timer = "new"] ELSE slots[i]]
  /\ work' = Tail(work)
  /\ UNCHANGED <<locking, inodes, ops, asks, wire, remote, resets, ended>>

\* set_selection_for_clip_data_entry: the files, with or without their sizes; a selection
\* with a file that is not usable is cleared.
SetFiles ==
  /\ Doing("set")
  /\ slots' = [slots EXCEPT ![Head(work).id].dir = TRUE]
  /\ \E size, usable \in BOOLEAN :
       /\ inodes' = Append(inodes, [id |-> Head(work).id, size |-> size, there |-> TRUE])
       /\ work' = IF usable THEN Tail(work) ELSE <<Item("clear", Head(work).id)>> \o Tail(work)
  /\ UNCHANGED <<locking, ops, asks, wire, remote, resets, ended>>

\* grd_rdp_fuse_clipboard_dismiss_all_no_cdi_requests
DismissAllNoCdiRequests ==
  /\ Doing("dismiss")
  /\ ClearRequests(FilesOf({NoCdi}))
  /\ work' = Tail(work)
  /\ UNCHANGED <<locking, slots, inodes, wire, remote, resets, ended>>

\* fuse_session_exit; the FUSE thread handles one more operation and is joined.
SessionExit ==
  /\ Doing("exit") /\ ended = "no"
  /\ ended' = "exiting"
  /\ ClearRequests(DOMAIN inodes)
  /\ UNCHANGED <<locking, slots, inodes, wire, remote, resets, work>>
FinishDispose ==
  /\ ended = "exiting"
  /\ ended' = "done"
  /\ slots' = [i \in DOMAIN slots |-> Unused]
  /\ remote' = [remote EXCEPT !.locked = {}]
  /\ resets' = {} /\ work' = <<>>
  /\ UNCHANGED <<locking, inodes, ops, asks, wire>>

-----------------------------------------------------------------------------
(* The applications of the session, the client and time *)

\* An application looks a file up or reads it; it may know a file that is gone by now.
Operation ==
  /\ ended = "no" /\ Len(ops) < MaxOps
  /\ \E f \in DOMAIN inodes, kind \in {"getattr", "read"} :
       ops' = Append(ops, [kind |-> kind, ino |-> f, replies |-> 0])
  /\ UNCHANGED <<locking, slots, inodes, asks, wire, remote, resets, work, ended>>

TimePasses ==
  /\ \E i \in Id : slots[i].timer = "new"
  /\ slots' = [i \in DOMAIN slots |-> IF slots[i].timer = "new"
                                      THEN [slots[i] EXCEPT !.timer = "old"] ELSE slots[i]]
  /\ UNCHANGED <<locking, inodes, ops, asks, wire, remote, resets, work, ended>>

Main ==
  \/ ClearSelection \/ Invalidate \/ Remove \/ Lazily \/ SetTimers \/ SetFiles
  \/ DismissAllNoCdiRequests \/ SessionExit \/ FinishDispose

Next ==
  \/ \E n \in DOMAIN ops : FuseOperation(n)
  \/ \E s \in wire : SubmitFileContentsResponse(s)
  \/ \E i \in Id : ClipDataIdFree(i) \/ DropClipDataEntry(i)
  \/ \E i \in DOMAIN slots : SetSelection(i)
  \/ ClipDataIdNew \/ NewSelection \/ ResetTimeouts \/ Dispose
  \/ Main \/ Operation \/ TimePasses

AnyFuseOperation == \E n \in DOMAIN ops : FuseOperation(n)
AnyDrop == \E i \in Id : DropClipDataEntry(i)

-----------------------------------------------------------------------------
(* Properties *)

TypeOK ==
  /\ slots \in [{NoCdi} \cup Id -> [used : BOOLEAN, dir : BOOLEAN, requested : BOOLEAN,
                                   timer : {"none", "new", "old"}]]
  /\ \A n \in DOMAIN ops : ops[n].ino \in DOMAIN inodes
  /\ asks \subseteq [op : DOMAIN ops, stream : DOMAIN ops]
  /\ remote.locked \subseteq Id /\ resets \subseteq Id
  /\ ended \in {"no", "exiting", "done"}

\* Every operation is replied once, and not while its request is in the table.
RepliedOnce ==
  /\ \A n \in DOMAIN ops : ops[n].replies <= 1
  /\ \A a \in asks : ops[a.op].replies = 0

\* A request that a response may find has a file that exists, and its entry, too: both are
\* used with the response (grd-rdp-fuse-clipboard.c:863-873).
RequestsHaveFiles ==
  \A a \in asks : LET f == inodes[ops[a.op].ino] IN f.there /\ slots[f.id].used /\ slots[f.id].dir

\* An id is locked at the client exactly as long as it is in the table, and only an id that
\* is no longer the clipboard's has a timer.
LocksMatch ==
  /\ remote.locked = {i \in Id : slots[i].used}
  /\ \A f \in DOMAIN inodes : inodes[f].there => slots[inodes[f].id].used

\* The main thread is done, no selection waits to be dropped, and what was requested from
\* one that is gone is replied.
Quiet ==
  /\ work = <<>> /\ resets = {}
  /\ \A i \in Id : slots[i].timer = "none"
  /\ ended = "no" => \A n \in DOMAIN ops : ops[n].replies = 1 \/ inodes[ops[n].ino].there
=============================================================================
