---------------------------- MODULE ClipDataLocks ----------------------------
(***************************************************************************)
(* The locks of the client on the files of the session's clipboard         *)
(* (grd-clipboard-rdp.c).                                                  *)
(*                                                                         *)
(* With a lock the client keeps the files of the current selection for     *)
(* file contents requests after the selection changed.  The thread of the  *)
(* channel has a table from the client's ids to entries, the main thread   *)
(* one from the serials of the selections to the same entries, which owns  *)
(* them.  The thread lets the main thread fill or delete an entry, and     *)
(* waits until it did.  An entry shares the WinPR clipboard of the current *)
(* selection and owns it once the selection changed.                       *)
(***************************************************************************)
EXTENDS Naturals, Sequences, FiniteSets

CONSTANTS
  ClipId,   \* the ids that the client gives its locks
  MaxLists, \* bound: format lists of the server
  MaxLocks, \* bound: locks of the client
  Careful   \* no lock of the client takes over the id of one selection for another one
            \* that is locked, too; breaking one of the two rules at a time is possible

VARIABLES
  board,   \* the current selection: serial, WinPR clipboard, has_file_list, whether
           \* requests are allowed; shown are the selections whose files the client was told
  boards,  \* for each WinPR clipboard the serial whose files it has, and how often it was destroyed
  entries, \* the ClipDataEntry objects that were allocated
  byId,    \* clip_data_table, of the thread
  bySerial,\* serial_entry_table, of the main thread, the owner
  job,     \* what the thread does, the contexts it shares with the main thread, and, once it
           \* was woken by the disposal, the entry it freed while the main thread has it, too
  halt     \* "no", "stopping" once protocol_stopped is set, "done" after the disposal

vars == <<board, boards, entries, byId, bySerial, job, halt>>

None == 0 \* no object, and no id in a request
Idle == [op |-> "idle", id |-> None, entry |-> None, replace |-> None, source |-> "none",
         inUse |-> FALSE, completed |-> TRUE, woken |-> None]

Init ==
  /\ board = [serial |-> 0, system |-> 1, files |-> FALSE, allowed |-> FALSE, shown |-> {}]
  /\ boards = <<[files |-> 0, destroyed |-> 0]>>
  /\ entries = <<>>
  /\ byId = [i \in ClipId |-> None]
  /\ bySerial = [s \in 0..MaxLists |-> None]
  /\ job = Idle
  /\ halt = "no"

Live(e) == e \in DOMAIN entries /\ entries[e].freed = 0

\* g_free of an entry that was never in the main thread's table.
Free(es, e) == [es EXCEPT ![e].freed = @ + 1]

\* clip_data_entry_free, the table's destructor: an independent entry takes its WinPR
\* clipboard with it.
Destroyed(bs, E) ==
  [b \in DOMAIN bs |-> [bs[b] EXCEPT
     !.destroyed = @ + Cardinality({e \in E : entries[e].independent /\ entries[e].system = b})]]

-----------------------------------------------------------------------------
(* The thread of the channel *)

\* cliprdr_client_lock_clipboard_data up to its wait.
Lock(i) ==
  /\ halt = "no" /\ job.op = "idle" /\ Len(entries) < MaxLocks
  /\ Careful => byId[i] = None \/ bySerial[board.serial] \in {None, byId[i]}
  /\ entries' = Append(entries, [id |-> None, serial |-> 0, system |-> None, files |-> FALSE,
                                 allowed |-> FALSE, independent |-> FALSE, freed |-> 0])
  /\ job' = [op |-> "lock", id |-> i, entry |-> Len(entries'), replace |-> byId[i],
             source |-> "retrieval", inUse |-> FALSE, completed |-> FALSE, woken |-> None]
  /\ UNCHANGED <<board, boards, byId, bySerial, halt>>

\* The entries whose serial the search for a doubly locked serial reads.
ReadBySearch == {byId[i] : i \in {j \in ClipId : byId[j] # None}}

\* And after it.  Two locks on one selection share its entry, under the new id.  A thread
\* that was woken by the disposal frees the entry (g_autofree), also one that is in the main
\* thread's table by then, or that the main thread has yet to fill.
LockDone ==
  /\ job.op = "lock" /\ (job.completed \/ halt = "stopping")
  /\ IF halt = "stopping"
     THEN /\ entries' = Free(entries, job.entry)
          /\ job' = [job EXCEPT !.op = "idle", !.woken = IF job.inUse THEN None ELSE job.entry]
          /\ UNCHANGED byId
     ELSE LET same == CHOOSE e \in ReadBySearch : entries[e].serial = entries[job.entry].serial
              e == IF job.inUse THEN same ELSE job.entry
          IN  /\ entries' = [(IF job.inUse THEN Free(entries, job.entry) ELSE entries)
                             EXCEPT ![e].id = job.id]
              /\ byId' = [i \in ClipId |-> IF i = job.id THEN e
                                           ELSE IF byId[i] = e THEN None ELSE byId[i]]
              /\ job' = Idle
  /\ UNCHANGED <<board, boards, bySerial, halt>>

\* cliprdr_client_unlock_clipboard_data up to its wait; an unknown id is ignored.
Unlock(i) ==
  /\ halt = "no" /\ job.op = "idle" /\ byId[i] # None
  /\ job' = [Idle EXCEPT !.op = "unlock", !.id = i, !.entry = byId[i],
                         !.source = "destruction", !.completed = FALSE]
  /\ UNCHANGED <<board, boards, entries, byId, bySerial, halt>>

\* And after it.
UnlockDone ==
  /\ job.op = "unlock" /\ (job.completed \/ halt = "stopping")
  /\ byId' = [byId EXCEPT ![job.id] = None]
  /\ job' = IF job.completed THEN Idle ELSE [job EXCEPT !.op = "idle"]
  /\ UNCHANGED <<board, boards, entries, bySerial, halt>>

\* cliprdr_client_file_contents_request, with the id of a lock: the WinPR clipboard of its
\* entry is asked, if the entry has files and its requests are allowed.
Granted(i) ==
  /\ halt = "no" /\ job.op = "idle" /\ byId[i] # None
  /\ entries[byId[i]].allowed /\ entries[byId[i]].files

-----------------------------------------------------------------------------
(* The main thread *)

\* retrieve_current_clipboard: the entry gets the current selection, unless it has an
\* entry; an entry whose id is taken over is deleted.
RetrieveCurrentClipboard ==
  /\ halt = "no" /\ job.source = "retrieval"
  /\ LET r == job.replace
         E == IF r = None THEN {} ELSE {bySerial[entries[r].serial]} \ {None}
         freed == [e \in DOMAIN entries |->
                     IF e \in E THEN [entries[e] EXCEPT !.freed = @ + 1] ELSE entries[e]]
         table == IF r = None THEN bySerial ELSE [bySerial EXCEPT ![entries[r].serial] = None]
         inUse == table[board.serial] # None
     IN  /\ boards' = Destroyed(boards, E)
         /\ bySerial' = IF inUse THEN table ELSE [table EXCEPT ![board.serial] = job.entry]
         /\ entries' = [freed EXCEPT ![job.entry].serial = board.serial,
                                     ![job.entry].files = board.files,
                                     ![job.entry].allowed = board.allowed,
                                     ![job.entry].system = board.system]
         /\ job' = [job EXCEPT !.source = "none", !.inUse = inUse, !.completed = TRUE]
  /\ UNCHANGED <<board, byId, halt>>

\* handle_clip_data_entry_destruction
HandleClipDataEntryDestruction ==
  /\ halt = "no" /\ job.source = "destruction"
  /\ LET E == {bySerial[entries[job.entry].serial]} \ {None}
     IN  /\ boards' = Destroyed(boards, E)
         /\ entries' = [e \in DOMAIN entries |->
                          IF e \in E THEN [entries[e] EXCEPT !.freed = @ + 1] ELSE entries[e]]
  /\ bySerial' = [bySerial EXCEPT ![entries[job.entry].serial] = None]
  /\ job' = [job EXCEPT !.source = "none", !.completed = TRUE]
  /\ UNCHANGED <<board, byId, halt>>

\* send_mime_type_list: the entry of the last selection keeps its WinPR clipboard and a
\* new one is created (create_new_winpr_clipboard); update_clipboard_serial.
SendMimeTypeList ==
  /\ halt = "no" /\ board.serial < MaxLists
  /\ \E withFiles \in BOOLEAN :
       LET e == bySerial[board.serial]
           b == [board EXCEPT !.serial = @ + 1, !.allowed = IF withFiles THEN FALSE ELSE @]
       IN  IF e = None
           THEN board' = b /\ UNCHANGED <<entries, boards>>
           ELSE /\ board' = [b EXCEPT !.system = Len(boards) + 1, !.files = FALSE]
                /\ entries' = [entries EXCEPT ![e].independent = TRUE]
                /\ boards' = Append(boards, [files |-> 0, destroyed |-> 0])
  /\ UNCHANGED <<byId, bySerial, job, halt>>

\* update_allowed_server_formats, for a list with files that the client accepts.
AllowRequests ==
  /\ halt = "no" /\ ~board.allowed
  /\ board' = [board EXCEPT !.allowed = TRUE]
  /\ LET e == bySerial[board.serial]
     IN  entries' = IF e = None THEN entries ELSE [entries EXCEPT ![e].allowed = TRUE]
  /\ UNCHANGED <<boards, byId, bySerial, job, halt>>

\* grd_clipboard_rdp_submit_requested_server_content, for files: they are put on the
\* current WinPR clipboard.
SubmitFileList ==
  /\ halt = "no"
  /\ board' = [board EXCEPT !.files = TRUE, !.shown = @ \cup {board.serial}]
  /\ boards' = [boards EXCEPT ![board.system].files = board.serial]
  /\ LET e == bySerial[board.serial]
     IN  entries' = IF e = None THEN entries ELSE [entries EXCEPT ![e].files = TRUE]
  /\ UNCHANGED <<byId, bySerial, job, halt>>

\* grd_clipboard_rdp_dispose: the thread is woken and joined,
StopProtocol ==
  /\ halt = "no"
  /\ halt' = "stopping"
  /\ UNCHANGED <<board, boards, entries, byId, bySerial, job>>

\* then everything is freed: the entry that was not retrieved, the entries of the table,
\* and the current WinPR clipboard.
Dispose ==
  /\ halt = "stopping" /\ job.op = "idle"
  /\ LET left == {bySerial[s] : s \in DOMAIN bySerial} \ {None}
         mine == IF job.source = "retrieval" THEN {job.entry} ELSE {}
         all == Destroyed(boards, left)
     IN  /\ entries' = [e \in DOMAIN entries |->
                          [entries[e] EXCEPT !.freed = @ + (IF e \in left THEN 1 ELSE 0)
                                                         + (IF e \in mine THEN 1 ELSE 0)]]
         /\ boards' = [all EXCEPT ![board.system].destroyed = @ + 1]
  /\ bySerial' = [s \in DOMAIN bySerial |-> None]
  /\ byId' = [i \in ClipId |-> None]
  /\ job' = [Idle EXCEPT !.woken = job.woken]
  /\ halt' = "done"
  /\ UNCHANGED board

Thread == (\E i \in ClipId : Lock(i) \/ Unlock(i)) \/ LockDone \/ UnlockDone
Main ==
  \/ RetrieveCurrentClipboard \/ HandleClipDataEntryDestruction
  \/ SendMimeTypeList \/ AllowRequests \/ SubmitFileList
  \/ StopProtocol \/ Dispose

Next == Thread \/ Main


-----------------------------------------------------------------------------
(* Properties *)

TypeOK ==
  /\ board \in [serial : 0..MaxLists, system : DOMAIN boards, files : BOOLEAN,
                allowed : BOOLEAN, shown : SUBSET (0..MaxLists)]
  /\ byId \in [ClipId -> {None} \cup DOMAIN entries]
  /\ bySerial \in [0..MaxLists -> {None} \cup DOMAIN entries]
  /\ job.op \in {"idle", "lock", "unlock"}
  /\ halt \in {"no", "stopping", "done"}

\* The two tables name the same live entries, each under its id and its serial, whenever
\* the thread is between two PDUs (grd-clipboard-rdp.c:1335-1348, 1433-1452, 1466-1468).
LockTablesAgree ==
  halt = "no" /\ job.op = "idle" =>
    /\ \A i \in ClipId : byId[i] # None =>
         LET e == byId[i]
         IN  Live(e) /\ entries[e].id = i /\ bySerial[entries[e].serial] = e
    /\ \A s \in 0..MaxLists : bySerial[s] # None => \E i \in ClipId : byId[i] = bySerial[s]

\* A granted request is served from a WinPR clipboard that exists and, once the client was
\* told the files of the selection it locked, still has those (grd-clipboard-rdp.c:288-299).
LockKeepsFiles ==
  \A i \in ClipId : Granted(i) =>
    LET e == entries[byId[i]]
    IN  /\ boards[e.system].destroyed = 0
        /\ e.serial \in board.shown => boards[e.system].files = e.serial

\* No entry is freed twice, but for one: that of a lock that the disposal interrupts, which
\* the woken thread frees (grd-clipboard-rdp.c:1388, 1428-1429) and the main thread as well,
\* as the context of its source (:2524-2525) or in its table (:2552).  No WinPR clipboard is
\* destroyed twice, and none leaks.
FreedOnce ==
  /\ \A e \in DOMAIN entries : entries[e].freed <= IF e = job.woken THEN 2 ELSE 1
  /\ \A b \in DOMAIN boards : boards[b].destroyed <= 1
  /\ halt = "done" => \A b \in DOMAIN boards : boards[b].destroyed = 1

\* The search for a doubly locked serial reads no entry that was freed.
SearchReadsLive ==
  job.op = "lock" /\ job.completed /\ job.inUse /\ halt = "no" =>
    \A e \in ReadBySearch : Live(e)

\* The thread is not waiting for the main thread.
Returned == job.op = "idle"
=============================================================================
