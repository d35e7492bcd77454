--------------------------- MODULE Clipboard_proof ---------------------------
(***************************************************************************)
(* Proofs about the clipboard: the selection of the session at the client, *)
(* the clipboard of the client in the session, the client's locks and the  *)
(* files of the client, for any number of selections, lists, requests,     *)
(* transfers, locks, ids, files and operations.                            *)
(*                                                                         *)
(* The invariants say, beside the properties: of the locks, that each      *)
(* entry of the table of serials has its selection and its own WinPR       *)
(* clipboard (EntryOfSerial, OneSystemEach), and what the thread that      *)
(* waits and the main thread know of the entry they pass between them      *)
(* (NewEntry, OldEntry); of the files, what the things that are still to   *)
(* do rely on (RemovedCleared, SetUsed); of the two selections, that       *)
(* lists, responses and content follow one another in the order of the     *)
(* selections they are from (InOrder, SelectionsInOrder), wherever they    *)
(* are underway, that a transfer is at one place (AtOnePlace), and that    *)
(* the cache holds nothing that is older than what it may be written for   *)
(* (CacheFresh).                                                           *)
(***************************************************************************)
EXTENDS Clipboard, TLAPS, SequenceTheorems, FiniteSetTheorems, WellFoundedInduction

(***************************************************************************)
(* The locks of the client                                                 *)
(***************************************************************************)
Entry == [id : ClipId \cup {L!None}, serial : 0..MaxLists, system : Nat, files : BOOLEAN,
          allowed : BOOLEAN, independent : BOOLEAN, freed : Nat]
Board == [files : 0..MaxLists, destroyed : Nat]

Job(E) == [op : {"idle", "lock", "unlock"}, id : ClipId \cup {L!None},
           entry : {L!None} \cup E, replace : {L!None} \cup E, woken : {L!None} \cup E,
           source : {"none", "retrieval", "destruction"}, inUse : BOOLEAN, completed : BOOLEAN]

\* The types of the tables, and what job says of the thread: it waits for the main thread
\* as long as the context has a source.
LockTypes ==
  /\ L!TypeOK
  /\ boards \in Seq(Board) /\ entries \in Seq(Entry)
  /\ job \in Job(DOMAIN entries)
  /\ board.shown \subseteq 0..board.serial

LockJob ==
  /\ job.op \in {"lock", "unlock"} => job.id \in ClipId /\ job.entry \in DOMAIN entries
  /\ job.op = "lock" => /\ job.source = (IF job.completed THEN "none" ELSE "retrieval")
                        /\ entries[job.entry].freed = 0
  /\ job.op = "unlock" => job.source = (IF job.completed THEN "none" ELSE "destruction")
  /\ halt = "no" /\ job.op = "idle" => job.source = "none"
  /\ halt = "done" => job.op = "idle"

\* An entry that the main thread has yet to fill, or that it did not take, is in no table;
\* the thread that the disposal woke has freed it, unless it returned in time.
NotTaken ==
  /\ job.source = "retrieval" \/ job.inUse => \A s \in 0..MaxLists : bySerial[s] # job.entry
  /\ job.source = "retrieval" => ~job.inUse
  /\ job.op # "idle" => job.woken = L!None
  /\ halt = "stopping" /\ job.op = "idle" /\ job.source = "retrieval" => job.woken = job.entry

\* The entry of a serial has that serial and, for the current one, what the current
\* selection has; the others own their WinPR clipboard, each one of its own.
Held(s) == bySerial[s] # L!None
EntryOfSerial ==
  \A s \in 0..MaxLists : Held(s) =>
    LET e == entries[bySerial[s]]
    IN  /\ s <= board.serial /\ e.serial = s
        /\ e.system \in DOMAIN boards
        /\ e.independent <=> s # board.serial
        /\ s = board.serial <=> e.system = board.system
        /\ s \in board.shown => boards[e.system].files = s

OneSystemEach ==
  \A s, r \in 0..MaxLists :
    Held(s) /\ Held(r) /\ entries[bySerial[s]].system = entries[bySerial[r]].system => s = r

CurrentFiles == board.serial \in board.shown => boards[board.system].files = board.serial

\* A WinPR clipboard is there while it is the current one's or an entry's.
InUse(b) == b = board.system \/ \E s \in 0..MaxLists : Held(s) /\ entries[bySerial[s]].system = b
SystemsLive ==
  \A b \in DOMAIN boards :
    boards[b].destroyed = IF halt # "done" /\ InUse(b) THEN 0 ELSE 1

EntriesFreedOnce == \A e \in DOMAIN entries :
  entries[e].freed <= IF halt = "done" /\ e = job.woken THEN 2 ELSE 1
TableLive == halt # "done" => \A s \in 0..MaxLists : Held(s) =>
  entries[bySerial[s]].freed = 0 \/ (halt = "stopping" /\ bySerial[s] = job.woken)

\* The id whose entry the main thread dealt with, and the thread not yet.
Handled == IF job.op # "idle" /\ job.completed THEN {job.id} ELSE {}

IdsMatch ==
  halt = "no" => \A i \in ClipId \ Handled : byId[i] # L!None =>
    LET e == byId[i]
    IN  entries[e].id = i /\ bySerial[entries[e].serial] = e

SerialsMatch ==
  halt = "no" => \A s \in 0..MaxLists : Held(s) =>
    \/ \E i \in ClipId \ Handled : byId[i] = bySerial[s]
    \/ job.op = "lock" /\ job.completed /\ ~job.inUse /\ bySerial[s] = job.entry

\* A new entry is in no table until the main thread put it there, and the id that it
\* takes over is not that of another selection when the current one has an entry.
NewEntry ==
  halt = "no" /\ job.op = "lock" =>
    /\ \A i \in ClipId : byId[i] # job.entry
    /\ ~job.completed => /\ \A s \in 0..MaxLists : bySerial[s] # job.entry
                         /\ ~entries[job.entry].independent
                         /\ job.replace = byId[job.id]
                         /\ byId[job.id] # L!None =>
                              bySerial[board.serial] \in {L!None, byId[job.id]}
    /\ job.completed /\ job.inUse =>
         /\ \A s \in 0..MaxLists : bySerial[s] # job.entry
         /\ byId[job.id] = L!None /\ Held(entries[job.entry].serial)
    /\ job.completed /\ ~job.inUse => bySerial[entries[job.entry].serial] = job.entry

OldEntry ==
  halt = "no" /\ job.op = "unlock" /\ ~job.completed =>
    job.entry = byId[job.id] /\ byId[job.id] # L!None

LocksInv ==
  /\ LockTypes /\ LockJob /\ NotTaken /\ EntryOfSerial /\ OneSystemEach /\ CurrentFiles /\ SystemsLive
  /\ EntriesFreedOnce /\ TableLive /\ IdsMatch /\ SerialsMatch /\ NewEntry /\ OldEntry

(***************************************************************************)
(* The files of the client                                                 *)
(***************************************************************************)
Slot == {D!NoCdi} \cup D!Id
File == [id : Slot, size : BOOLEAN, there : BOOLEAN]
KernelOp == [kind : {"getattr", "read"}, ino : Nat, replies : Nat]
Todo == [do : {"clear", "clearAll", "remove", "set", "lazily", "timers", "dismiss", "exit"},
         id : Slot] \cup [do : {"invalidate"}, id : Slot, files : SUBSET Nat]

FuseTypes ==
  /\ D!TypeOK
  /\ inodes \in Seq(File) /\ ops \in Seq(KernelOp) /\ work \in Seq(Todo)
  /\ remote \in [locked : SUBSET D!Id, times : Nat]
  /\ slots[D!NoCdi].timer = "none"

NoFilesIn(files, i) == \A f \in DOMAIN files : files[f].there => files[f].id # i
NoFiles == \A f \in DOMAIN inodes : ~inodes[f].there

\* A file is in the table of inodes only in the selection of an entry that has one.
FilesHaveEntries ==
  \A f \in DOMAIN inodes : inodes[f].there => slots[inodes[f].id].used /\ slots[inodes[f].id].dir

LockedAreUsed == remote.locked = {i \in D!Id : slots[i].used}

\* A request is for a file of the table, under the operation's own stream id.
RequestsOpen ==
  /\ \A n \in DOMAIN ops : ops[n].replies <= 1
  /\ \A a \in asks : /\ a.stream = a.op /\ ops[a.op].replies = 0
                     /\ inodes[ops[a.op].ino].there

\* What the main thread still has to do: an entry is removed after its files were, none of
\* its files come back before that, and the last thing is the end of the file system.
RemovedCleared ==
  \A k \in DOMAIN work : work[k].do = "remove" =>
    /\ work[k].id \in D!Id
    /\ \/ NoFilesIn(inodes, work[k].id)
       \/ k > 1 /\ work[k - 1].do = "clear" /\ work[k - 1].id = work[k].id
SetUsed ==
  \A k \in DOMAIN work : work[k].do = "set" =>
    /\ slots[work[k].id].used
    /\ \A j \in DOMAIN work : work[j].do \notin {"remove", "lazily", "exit"}
LazilyFirst ==
  \A j, k \in DOMAIN work : work[j].do = "lazily" =>
    work[k].do # "remove" /\ (work[k].do = "lazily" => k = j)
ExitCleared ==
  \A k \in DOMAIN work : work[k].do = "exit" =>
    NoFiles \/ (k = 2 /\ work[1].do = "clearAll")
EndedEmpty ==
  /\ ended = "exiting" => work # <<>> /\ Head(work).do = "exit" /\ NoFiles
  /\ ended = "done" => work = <<>> /\ NoFiles

FilesInv ==
  /\ FuseTypes /\ FilesHaveEntries /\ LockedAreUsed /\ RequestsOpen
  /\ RemovedCleared /\ SetUsed /\ LazilyFirst /\ ExitCleared /\ EndedEmpty

(***************************************************************************)
(* The clipboard of the client                                             *)
(***************************************************************************)
Response == [ok : BOOLEAN, type : F!Type \cup {F!None}, n : 0..MaxCopies]
What == [type : F!Type \cup {F!None}, n : 0..MaxCopies]
ListPDU == [kind : {"list"}, n : 0..MaxCopies, types : Lists]
ResponsePDU == [kind : {"response"}, data : [ok : BOOLEAN, type : F!Type, n : 0..MaxCopies]]
ResponseSource == [kind |-> "response", n |-> 0, types |-> {}]

FetchTypes ==
  /\ F!TypeOK
  /\ up \in Seq(ListPDU \cup ResponsePDU) /\ down \in Seq(F!Type)
  /\ idles \in Seq(ListPDU \cup {ResponseSource})
  /\ lists \in [waiting : SUBSET ListPDU, completed : BOOLEAN]
  /\ \A x, y \in lists.waiting : x = y
  /\ transfers \in Seq([serial : Nat, type : F!Type])
  /\ fetch \in [current : F!Type \cup {F!None}, ordered : Seq(F!Type),
                pending : [F!Type -> SUBSET Nat], cache : [F!Type -> What],
                response : Response, timer : BOOLEAN, written : Seq(Seq(What)),
                since : Seq(0..MaxCopies)]
  /\ Len(fetch.since) = Len(fetch.written)

\* Lists and responses keep their order: each is from the clipboard of the lists before
\* it or from a later one.
Number(pdu) == IF pdu.kind = "list" THEN pdu.n ELSE pdu.data.n
Handed == {list.n : list \in lists.waiting}
Listing == {idles[i].n : i \in {j \in DOMAIN idles : idles[j].kind = "list"}}
InOrder ==
  /\ owned.n <= clip.n
  /\ \A m \in Listing : owned.n <= m /\ m <= clip.n
  /\ \A w \in Handed : owned.n <= w /\ w <= clip.n /\ \A m \in Listing : m <= w
  /\ \A i \in DOMAIN up : /\ Number(up[i]) <= clip.n
                          /\ \A m \in {owned.n} \cup Listing \cup Handed : m <= Number(up[i])
                          /\ \A j \in DOMAIN up : i < j /\ up[i].kind = "list" =>
                                                    Number(up[i]) <= Number(up[j])

\* There is one source for a response and one for a list at a time.
Sources ==
  /\ \A i, j \in DOMAIN idles : idles[i].kind = idles[j].kind => i = j
  /\ (\E i \in DOMAIN idles : idles[i].kind = "list") <=> ~(disposed \/ lists.completed)
  /\ (\E i \in DOMAIN idles : idles[i].kind = "response") =>
       /\ fetch.current # F!None /\ fetch.response # F!NoResponse
       /\ fetch.response.n >= owned.n
  /\ fetch.current = F!None => fetch.ordered = <<>>
  /\ fetch.timer <=> fetch.current # F!None
  /\ disposed => idles = <<>>

\* Each serial waits for one mime type at most, and is not written while it waits.
PendingOnce(f) ==
  \A t \in F!Type : \A s \in f.pending[t] :
    /\ s \in DOMAIN f.written /\ f.written[s] = <<>>
    /\ \A u \in F!Type : u # t => s \notin f.pending[u]

\* A mime type that somebody waits for is requested or queued.
Queued(f) == {f.current} \cup {f.ordered[i] : i \in DOMAIN f.ordered}
PendingQueued(f) == \A t \in F!Type : f.pending[t] # {} => t \in Queued(f)

\* A transfer is at one place: under way, waiting for one mime type, or written.
Underway(s) == \E i \in DOMAIN transfers : transfers[i].serial = s
AtOnePlace ==
  /\ \A i \in DOMAIN transfers :
       LET s == transfers[i].serial
       IN  /\ s \in F!Serial /\ fetch.written[s] = <<>>
           /\ \A j \in DOMAIN transfers : transfers[j].serial = s => j = i
           /\ \A t \in F!Type : s \notin fetch.pending[t]
  /\ PendingOnce(fetch) /\ PendingQueued(fetch)
  /\ \A s \in F!Serial :
       /\ Len(fetch.written[s]) <= 1
       /\ ~disposed /\ fetch.written[s] = <<>> =>
            Underway(s) \/ \E t \in F!Type : s \in fetch.pending[t]

\* What is written is not older than the selection that its transfer is for.
WrittenFresh ==
  \A s \in F!Serial :
    /\ fetch.since[s] <= owned.n
    /\ \A i \in DOMAIN fetch.written[s] :
         fetch.written[s][i] # F!Failed => fetch.since[s] <= fetch.written[s][i].n

\* What is in the cache is not older than the selection, nor than a transfer for it.
CacheFresh ==
  /\ \A t \in owned.types : fetch.cache[t] # F!Failed => owned.n <= fetch.cache[t].n
  /\ \A i \in DOMAIN transfers :
       LET t == transfers[i].type
       IN  fetch.cache[t] # F!Failed => fetch.since[transfers[i].serial] <= fetch.cache[t].n

FetchInv == FetchTypes /\ InOrder /\ Sources /\ AtOnePlace /\ WrittenFresh /\ CacheFresh

(***************************************************************************)
(* The selection of the session                                            *)
(***************************************************************************)
Called == {O!FormatOf(t) : t \in O!Type}
ServerPDU == [kind : {"response"}, flag : {"ok", "fail"}]
               \cup [kind : {"request"}, format : Called \cup {"other"}]
ClientPDU == [kind : {"list"}, n : 0..MaxSelections, formats : SUBSET Called]
               \cup [kind : {"data"}, n : 0..MaxSelections, ok : BOOLEAN]

OfferTypes ==
  /\ O!TypeOK
  /\ signals \in Seq([n : 0..MaxSelections, types : {{}} \cup Offers])
  /\ offer.unicode \in O!Type \cup {O!None}
  /\ toServer \in Seq(ServerPDU) /\ toClient \in Seq(ClientPDU)
  /\ peer \in [n : 0..MaxSelections, formats : SUBSET Called, asked : Nat, answered : Nat]

\* What is sent to the client is in turn: content is not older than the list before it.
InTurn(pdus) ==
  \A i, j \in DOMAIN pdus :
    i < j /\ pdus[i].kind = "list" /\ pdus[j].kind = "data" /\ pdus[j].ok => pdus[j].n >= pdus[i].n
ListsUpTo(pdus, m) == \A i \in DOMAIN pdus : pdus[i].kind = "list" => pdus[i].n <= m
Kinds(pdus, kind) == {i \in DOMAIN pdus : pdus[i].kind = kind}

\* The lists and the content follow the selections: what is sent and what is read is never
\* older than the list before.
SignalsInOrder ==
  \A i \in DOMAIN signals :
    /\ signals[i].n <= selection.n /\ offer.made <= signals[i].n /\ offer.waits <= signals[i].n
    /\ \A j \in DOMAIN signals : i < j => signals[i].n <= signals[j].n
SelectionsInOrder ==
  /\ offer.made <= selection.n /\ offer.waits <= selection.n
  /\ offer.queued # {} => offer.made <= offer.waits
  /\ ListsUpTo(toClient, offer.made) /\ InTurn(toClient)

\* A read is for a request, and of a selection that is not older than the lists.
ReadIsFor ==
  read # O!NoRead => /\ ~stopped /\ read.type # O!None
                     /\ offer.made <= read.n
                     /\ offer.queued # {} => offer.waits <= read.n

\* Each request is counted once.
Waiting == IF request.waiting # O!None THEN 1 ELSE 0
InHand == IF request.completed THEN 0 ELSE 1
RequestsCounted ==
  ~stopped => peer.asked = peer.answered + Cardinality(Kinds(toClient, "data"))
                           + Cardinality(Kinds(toServer, "request")) + Waiting + InHand

OfferInv ==
  OfferTypes /\ SignalsInOrder /\ SelectionsInOrder /\ ReadIsFor /\ O!RequestInHand /\ RequestsCounted

\* A function on the domain of a sequence is a sequence.
LEMMA MappedSeq ==
  ASSUME NEW S, NEW s \in Seq(S), NEW T, NEW f \in [DOMAIN s -> T]
  PROVE  f \in Seq(T) /\ Len(f) = Len(s) /\ DOMAIN f = DOMAIN s
BY LenProperties, SeqDef

\* Cardinality is the same in ClipDataLocks.
LEMMA LocksCardinality == \A S : L!Cardinality(S) = Cardinality(S)
BY DEF L!Cardinality, Cardinality, L!IsFiniteSet, IsFiniteSet

\* The entries and WinPR clipboards of the tables.
LEMMA LockObjects ==
  ASSUME LockTypes
  PROVE  /\ Len(entries) \in Nat /\ DOMAIN entries = 1 .. Len(entries)
         /\ Len(boards) \in Nat /\ DOMAIN boards = 1 .. Len(boards)
         /\ \A e \in DOMAIN entries : entries[e] \in Entry /\ e # L!None
         /\ \A b \in DOMAIN boards : boards[b] \in Board
         /\ \A s \in 0..MaxLists : Held(s) => bySerial[s] \in DOMAIN entries
         /\ \A i \in ClipId : byId[i] # L!None => byId[i] \in DOMAIN entries
         /\ board.serial \in 0..MaxLists /\ board.system \in DOMAIN boards
<1>1. entries \in Seq(Entry) /\ boards \in Seq(Board)  BY DEF LockTypes
<1>2. /\ Len(entries) \in Nat /\ DOMAIN entries = 1 .. Len(entries)
      /\ Len(boards) \in Nat /\ DOMAIN boards = 1 .. Len(boards)
      /\ \A e \in DOMAIN entries : entries[e] \in Entry
      /\ \A b \in DOMAIN boards : boards[b] \in Board
  BY <1>1, LenProperties, ElementOfSeq
<1>3. board.serial \in 0..MaxLists /\ board.system \in DOMAIN boards  BY DEF LockTypes, L!TypeOK
<1>4. \A s \in 0..MaxLists : Held(s) => bySerial[s] \in DOMAIN entries
  BY DEF LockTypes, L!TypeOK, Held
<1>5. \A i \in ClipId : byId[i] # L!None => byId[i] \in DOMAIN entries
  BY DEF LockTypes, L!TypeOK
<1>6. \A e \in DOMAIN entries : e # L!None  BY <1>2 DEF L!None
<1> QED  BY <1>2, <1>3, <1>4, <1>5, <1>6

\* What is destroyed with some entries, when no two of them own the same WinPR clipboard.
Owns(e, b) == entries[e].independent /\ entries[e].system = b
\* With some entries go the WinPR clipboards that they own.
LEMMA DestroyedWith ==
  ASSUME LockTypes, NEW E \in SUBSET DOMAIN entries,
         \A b \in DOMAIN boards : \A e, f \in E : Owns(e, b) /\ Owns(f, b) => e = f
  PROVE  /\ L!Destroyed(boards, E) \in Seq(Board)
         /\ DOMAIN L!Destroyed(boards, E) = DOMAIN boards
         /\ \A b \in DOMAIN boards :
              L!Destroyed(boards, E)[b] =
                [boards[b] EXCEPT !.destroyed = @ + (IF \E e \in E : Owns(e, b) THEN 1 ELSE 0)]
<1> DEFINE left == L!Destroyed(boards, E)
<1>1. left = [b \in DOMAIN boards |-> [boards[b] EXCEPT
             !.destroyed = @ + L!Cardinality({e \in E : Owns(e, b)})]]
  BY DEF L!Destroyed, Owns
<1>2. ASSUME NEW b \in DOMAIN boards
      PROVE  L!Cardinality({e \in E : Owns(e, b)}) = IF \E e \in E : Owns(e, b) THEN 1 ELSE 0
  <2>1. CASE \E e \in E : Owns(e, b)  BY <2>1, FS_Singleton, LocksCardinality
  <2>2. CASE ~\E e \in E : Owns(e, b)  BY <2>2, FS_EmptySet, LocksCardinality
  <2> QED  BY <2>1, <2>2
<1>3. \A b \in DOMAIN boards :
        left[b] = [boards[b] EXCEPT !.destroyed = @ + (IF \E e \in E : Owns(e, b) THEN 1 ELSE 0)]
  BY <1>1, <1>2
<1>4. \A b \in DOMAIN boards : boards[b] \in Board  BY LockObjects
<1>5. DOMAIN left = DOMAIN boards  BY <1>1
<1>6. \A b \in DOMAIN boards : left[b] \in Board
  <2> TAKE b \in DOMAIN boards
  <2>1. boards[b].destroyed \in Nat /\ boards[b] \in Board  BY <1>4 DEF Board
  <2> DEFINE n == IF \E e \in E : Owns(e, b) THEN 1 ELSE 0
  <2>2. n \in Nat  OBVIOUS
  <2>3. left[b] = [boards[b] EXCEPT !.destroyed = @ + n]  BY <1>3
  <2> HIDE DEF n, left
  <2> QED  BY <2>1, <2>2, <2>3 DEF Board
<1>7. left \in [DOMAIN boards -> Board]  BY <1>1, <1>5, <1>6
<1>8. left \in Seq(Board)  BY <1>7, MappedSeq DEF LockTypes
<1> QED  BY <1>3, <1>5, <1>8

\* There is no entry in the beginning.
LEMMA LocksInit == L!Init => LocksInv
<1> SUFFICES ASSUME L!Init PROVE LocksInv
  OBVIOUS
<1> USE DEF L!Init, L!None
<1>1. boards = <<[files |-> 0, destroyed |-> 0]>> /\ entries = <<>>
  OBVIOUS
<1>2. MaxLists \in Nat  BY ClipboardAssumption
<1>3. [files |-> 0, destroyed |-> 0] \in Board  BY <1>2 DEF Board
<1>4. boards \in Seq(Board) /\ Len(boards) = 1 /\ DOMAIN boards = {1}
  BY <1>1, <1>3
<1>5. entries \in Seq(Entry) /\ DOMAIN entries = {}
  BY <1>1
<1>6. board.serial = 0 /\ board.system = 1 /\ board.shown = {}
  OBVIOUS
<1>7. LockTypes  BY <1>2, <1>4, <1>5, <1>6 DEF L!TypeOK, L!Idle, LockTypes, Job
<1>8. \A s \in 0..MaxLists : ~Held(s)  BY DEF Held
<1>9. job.op = "idle" /\ job.source = "none" /\ job.woken = 0 /\ ~job.inUse  BY DEF L!Idle
<1>10. LockJob /\ NotTaken  BY <1>9 DEF LockJob, NotTaken
<1>11. EntryOfSerial /\ OneSystemEach /\ TableLive /\ SerialsMatch
  BY <1>8 DEF EntryOfSerial, OneSystemEach, TableLive, SerialsMatch
<1>12. CurrentFiles  BY <1>6 DEF CurrentFiles
<1>13. SystemsLive
  BY <1>1, <1>4, <1>6 DEF SystemsLive, InUse
<1>14. EntriesFreedOnce  BY <1>5 DEF EntriesFreedOnce
<1>15. IdsMatch  BY DEF IdsMatch
<1>16. NewEntry /\ OldEntry  BY <1>9 DEF NewEntry, OldEntry
<1> QED  BY <1>7, <1>10, <1>11, <1>12, <1>13, <1>14, <1>15, <1>16 DEF LocksInv

\* A lock: a new entry that is in no table yet, and the main thread is asked for the WinPR
\* clipboard.
LEMMA OfLock ==
  ASSUME Careful, LocksInv, NEW i \in ClipId, L!Lock(i)
  PROVE  LocksInv'
<1> DEFINE new == [id |-> L!None, serial |-> 0, system |-> L!None, files |-> FALSE,
                   allowed |-> FALSE, independent |-> FALSE, freed |-> 0]
           n == Len(entries) + 1
<1>1. /\ halt = "no" /\ job.op = "idle"
      /\ byId[i] = L!None \/ bySerial[board.serial] \in {L!None, byId[i]}
      /\ entries' = Append(entries, new)
      /\ job' = [op |-> "lock", id |-> i, entry |-> Len(entries'), replace |-> byId[i],
                 source |-> "retrieval", inUse |-> FALSE, completed |-> FALSE, woken |-> L!None]
      /\ UNCHANGED <<board, boards, byId, bySerial, halt>>
  BY DEF L!Lock
<1>2. LockTypes  BY DEF LocksInv
<1>3. entries \in Seq(Entry)  BY <1>2 DEF LockTypes
<1>4. MaxLists \in Nat  BY ClipboardAssumption
<1>5. new \in Entry  BY <1>4 DEF Entry, L!None
<1> HIDE DEF new
<1>6. /\ entries' \in Seq(Entry) /\ Len(entries') = n
      /\ \A e \in DOMAIN entries : entries'[e] = entries[e]
      /\ entries'[n] = new
      /\ DOMAIN entries' = DOMAIN entries \cup {n} /\ n \notin DOMAIN entries
  BY <1>3, LenProperties, <1>5, AppendProperties, <1>1
<1>7. n \in Nat \ {0}  BY <1>2, LockObjects
<1>8. /\ job'.op = "lock" /\ job'.id = i /\ job'.entry = n /\ job'.replace = byId[i]
      /\ job'.source = "retrieval" /\ ~job'.inUse /\ ~job'.completed /\ job'.woken = L!None
  BY <1>1, <1>6
<1>9. byId[i] \in {L!None} \cup DOMAIN entries  BY <1>2 DEF LockTypes, L!TypeOK
<1>10. /\ \A s \in 0..MaxLists : Held(s)' <=> Held(s)
       /\ \A s \in 0..MaxLists : Held(s) => bySerial[s] \in DOMAIN entries
       /\ \A j \in ClipId : byId[j] # L!None => byId[j] \in DOMAIN entries
  BY <1>1, <1>2, LockObjects DEF Held
<1>11. LockTypes'  BY <1>1, <1>2, <1>6, <1>8, <1>9 DEF LockTypes, L!TypeOK, Job
<1>12. new.freed = 0  BY DEF new
<1>13. LockJob' /\ NotTaken'
  BY <1>1, <1>6, <1>7, <1>8, <1>10, <1>12 DEF LockJob, NotTaken, Held, L!None
<1>14. EntryOfSerial'  BY <1>1, <1>6, <1>10 DEF EntryOfSerial, LocksInv
<1>15. OneSystemEach'  BY <1>1, <1>6, <1>10 DEF LocksInv, OneSystemEach
<1>16. CurrentFiles'  BY <1>1 DEF LocksInv, CurrentFiles
<1>17. \A b : InUse(b)' <=> InUse(b)  BY <1>1, <1>6, <1>10 DEF InUse
<1>18. SystemsLive'  BY <1>1, <1>17 DEF LocksInv, SystemsLive
<1>19. EntriesFreedOnce' /\ TableLive'
  BY <1>1, <1>6, <1>10, <1>12 DEF LocksInv, EntriesFreedOnce, TableLive
<1>20. Handled = {} /\ Handled' = {}  BY <1>1, <1>8 DEF Handled
<1>21. IdsMatch'  BY <1>1, <1>6, <1>10, <1>20 DEF LocksInv, IdsMatch
<1>22. SerialsMatch'  BY <1>1, <1>8, <1>10, <1>20 DEF LocksInv, SerialsMatch
<1>23. NewEntry'  BY <1>1, <1>6, <1>7, <1>10, <1>8 DEF L!None, Held, new, NewEntry
<1>24. OldEntry'  BY <1>8 DEF OldEntry
<1> QED  BY <1>11, <1>13, <1>14, <1>15, <1>16, <1>18, <1>19, <1>21, <1>22, <1>23, <1>24 DEF LocksInv

\* The parts of the invariant on the tables of the main thread, when only entries that are
\* in no table of it changed what they hold.
MainTables == EntryOfSerial /\ OneSystemEach /\ CurrentFiles /\ SystemsLive

\* What the entries are in the table for does not change.
LEMMA TablesKept ==
  ASSUME LockTypes, MainTables, UNCHANGED <<board, boards, bySerial, halt>>,
         \A s \in 0..MaxLists : Held(s) =>
           /\ entries'[bySerial[s]].serial = entries[bySerial[s]].serial
           /\ entries'[bySerial[s]].system = entries[bySerial[s]].system
           /\ entries'[bySerial[s]].independent = entries[bySerial[s]].independent
  PROVE  MainTables'
<1>1. \A s \in 0..MaxLists : Held(s)' <=> Held(s)  BY DEF Held
<1>2. EntryOfSerial'  BY <1>1 DEF EntryOfSerial, MainTables
<1>3. OneSystemEach'  BY <1>1 DEF MainTables, OneSystemEach
<1>4. CurrentFiles'  BY DEF MainTables, CurrentFiles
<1>5. \A b : InUse(b)' <=> InUse(b)  BY <1>1 DEF InUse
<1>6. SystemsLive'  BY <1>5 DEF MainTables, SystemsLive
<1> QED  BY <1>2, <1>3, <1>4, <1>6 DEF MainTables

\* The thread frees an entry that is in no table, or has freed all that it has.
LEMMA FreedEntry ==
  ASSUME LockTypes, NEW e \in DOMAIN entries
  PROVE  /\ L!Free(entries, e) \in Seq(Entry) /\ Len(L!Free(entries, e)) = Len(entries)
         /\ DOMAIN L!Free(entries, e) = DOMAIN entries
         /\ L!Free(entries, e)[e] = [entries[e] EXCEPT !.freed = @ + 1]
         /\ L!Free(entries, e)[e].freed = entries[e].freed + 1
         /\ \A f \in DOMAIN entries : f # e => L!Free(entries, e)[f] = entries[f]
         /\ \A f \in DOMAIN entries : /\ L!Free(entries, e)[f].serial = entries[f].serial
                                      /\ L!Free(entries, e)[f].system = entries[f].system
                                      /\ L!Free(entries, e)[f].independent = entries[f].independent
<1>1. entries \in Seq(Entry) /\ DOMAIN entries = 1 .. Len(entries) /\ entries[e] \in Entry
  BY LockObjects DEF LockTypes
<1>2. [entries[e] EXCEPT !.freed = @ + 1] \in Entry
  <2> DEFINE r == entries[e]
             m == r.freed + 1
  <2>1. r \in Entry /\ m \in Nat  BY <1>1 DEF Entry
  <2> HIDE DEF m
  <2>2. [r EXCEPT !.freed = m] \in Entry
    <3> HIDE DEF r
    <3> QED  BY <2>1 DEF Entry
  <2> QED  BY <2>2 DEF m
<1>3. L!Free(entries, e) = [entries EXCEPT ![e] = [entries[e] EXCEPT !.freed = @ + 1]]
  BY DEF L!Free
<1>4. /\ L!Free(entries, e) \in Seq(Entry) /\ Len(L!Free(entries, e)) = Len(entries)
      /\ \A f \in DOMAIN entries : L!Free(entries, e)[f] =
           IF f = e THEN [entries[e] EXCEPT !.freed = @ + 1] ELSE entries[f]
  BY <1>1, <1>2, <1>3, ExceptSeq
<1>5. DOMAIN L!Free(entries, e) = DOMAIN entries  BY <1>3
<1>6. [entries[e] EXCEPT !.freed = @ + 1].freed = entries[e].freed + 1  BY <1>1 DEF Entry
<1>7. /\ [entries[e] EXCEPT !.freed = @ + 1].serial = entries[e].serial
      /\ [entries[e] EXCEPT !.freed = @ + 1].system = entries[e].system
      /\ [entries[e] EXCEPT !.freed = @ + 1].independent = entries[e].independent
  BY <1>1 DEF Entry
<1> QED  BY <1>4, <1>5, <1>6, <1>7

\* The entry of another id for the current selection, when the thread finds there is one.
LEMMA SameEntry ==
  ASSUME LocksInv, job.op = "lock", job.completed, job.inUse, halt = "no",
         NEW same, same = CHOOSE e \in L!ReadBySearch : entries[e].serial = entries[job.entry].serial
  PROVE  /\ same = bySerial[entries[job.entry].serial] /\ same \in DOMAIN entries
         /\ same # job.entry /\ \E i \in ClipId \ {job.id} : byId[i] = same
         /\ entries[same].freed = 0
         /\ byId[job.id] = L!None
<1>1. LockTypes /\ IdsMatch /\ SerialsMatch /\ NewEntry /\ LockJob /\ EntryOfSerial /\ TableLive
  BY DEF LocksInv
<1>2. /\ byId[job.id] = L!None /\ Held(entries[job.entry].serial)
      /\ \A s \in 0..MaxLists : bySerial[s] # job.entry
  BY <1>1 DEF NewEntry
<1>3. Handled = {job.id}  BY DEF Handled
<1>4. job.entry \in DOMAIN entries  BY <1>1 DEF LockJob
<1>5. entries[job.entry].serial \in 0..MaxLists  BY <1>1, <1>4, LockObjects DEF Entry
<1> DEFINE s == entries[job.entry].serial
<1>6. PICK i \in ClipId \ {job.id} : byId[i] = bySerial[s]
  BY <1>1, <1>2, <1>3, <1>5 DEF SerialsMatch
<1>7. byId[i] \in L!ReadBySearch  BY <1>2, <1>6 DEF L!ReadBySearch, Held
<1>8. entries[byId[i]].serial = s  BY <1>1, <1>2, <1>5, <1>6 DEF EntryOfSerial
<1>9. same \in L!ReadBySearch /\ entries[same].serial = s  BY <1>7, <1>8
<1>10. PICK j \in ClipId : byId[j] # L!None /\ byId[j] = same  BY <1>9 DEF L!ReadBySearch
<1>11. j # job.id  BY <1>2, <1>10
<1>12. bySerial[s] = same  BY <1>1, <1>3, <1>9, <1>10, <1>11 DEF IdsMatch
<1>13. same \in DOMAIN entries /\ same # job.entry /\ entries[same].freed = 0
  BY <1>1, <1>2, <1>5, <1>12, LockObjects DEF TableLive
<1> QED  BY <1>2, <1>10, <1>11, <1>12, <1>13

\* The thread puts the entry under its id, or frees it when the selection has one or the
\* clipboard is disposed.
LEMMA OfLockDone ==
  ASSUME Careful, LocksInv, L!LockDone
  PROVE  LocksInv'
<1>1. LockTypes /\ LockJob /\ MainTables  BY DEF LocksInv, MainTables
<1>2. /\ job.op = "lock" /\ (job.completed \/ halt = "stopping")
      /\ UNCHANGED <<board, boards, bySerial, halt>>
  BY DEF L!LockDone
<1>3. job.entry \in DOMAIN entries /\ job.id \in ClipId /\ entries[job.entry].freed = 0
      /\ job.source = (IF job.completed THEN "none" ELSE "retrieval")
  BY <1>1, <1>2 DEF LockJob
<1>4. \A s \in 0..MaxLists : (Held(s)' <=> Held(s)) /\ (Held(s) => bySerial[s] \in DOMAIN entries)
  BY <1>1, <1>2, LockObjects DEF Held
<1>5. CASE halt = "stopping"
  <2>1. entries' = L!Free(entries, job.entry) /\ UNCHANGED byId
        /\ job' = [job EXCEPT !.op = "idle", !.woken = IF job.inUse THEN L!None ELSE job.entry]
    BY <1>5 DEF L!LockDone
  <2>2. MainTables'  BY <1>1, <1>2, <1>3, <1>4, <2>1, FreedEntry, TablesKept
  <2>3. /\ job' \in Job(DOMAIN entries) /\ job'.op = "idle"
        /\ job'.source = job.source /\ job'.inUse = job.inUse /\ job'.entry = job.entry
        /\ ~job.inUse => job'.woken = job.entry
    BY <1>1, <1>3, <2>1 DEF LockTypes, Job
  <2>4. entries' \in Seq(Entry) /\ DOMAIN entries' = DOMAIN entries
    BY <1>1, <1>3, <2>1, FreedEntry
  <2>5. LockTypes'  BY <1>1, <1>2, <2>1, <2>3, <2>4 DEF LockTypes, L!TypeOK
  <2>6. LockJob' /\ NotTaken'
    BY <1>1, <1>2, <1>5, <2>3 DEF LockJob, NotTaken, LocksInv
  <2>7. EntriesFreedOnce'
    <3> SUFFICES ASSUME NEW f \in DOMAIN entries PROVE entries'[f].freed <= 1
      BY <1>2, <1>5, <2>4 DEF EntriesFreedOnce
    <3>1. entries[f].freed <= 1  BY <1>5 DEF LocksInv, EntriesFreedOnce
    <3>2. CASE f = job.entry
      <4>1. entries'[f].freed = 0 + 1  BY <1>1, <1>3, <2>1, <3>2, FreedEntry
      <4> QED  BY <4>1
    <3>3. CASE f # job.entry
      <4>1. entries'[f] = entries[f]  BY <1>1, <1>3, <2>1, <3>3, FreedEntry
      <4> QED  BY <3>1, <4>1
    <3> QED  BY <3>2, <3>3
  <2>8. IdsMatch' /\ SerialsMatch' /\ NewEntry' /\ OldEntry'
    BY <1>2, <1>5 DEF IdsMatch, SerialsMatch, NewEntry, OldEntry
  <2>9. TableLive'
    <3> SUFFICES ASSUME NEW s \in 0..MaxLists, Held(s)
                 PROVE  entries'[bySerial[s]].freed = 0 \/ bySerial[s] = job'.woken
      BY <1>2, <1>4, <1>5 DEF TableLive
    <3>1. CASE bySerial[s] = job.entry  BY <2>3, <3>1 DEF LocksInv, NotTaken
    <3>2. CASE bySerial[s] # job.entry
      <4>1. entries'[bySerial[s]] = entries[bySerial[s]]  BY <1>1, <1>3, <1>4, <2>1, <3>2, FreedEntry
      <4>2. entries[bySerial[s]].freed = 0
        BY <1>2, <1>5 DEF LocksInv, TableLive, NotTaken, Held
      <4> QED  BY <4>1, <4>2
    <3> QED  BY <3>1, <3>2
  <2> QED  BY <2>2, <2>5, <2>6, <2>7, <2>8, <2>9 DEF LocksInv, MainTables
<1>6. CASE halt # "stopping"
  <2> DEFINE same == CHOOSE e \in L!ReadBySearch : entries[e].serial = entries[job.entry].serial
             es == IF job.inUse THEN L!Free(entries, job.entry) ELSE entries
             e == IF job.inUse THEN same ELSE job.entry
  <2>1. halt = "no" /\ job.completed
    BY <1>1, <1>2, <1>6 DEF LockJob, LockTypes, L!TypeOK
  <2>2. /\ entries' = [es EXCEPT ![e].id = job.id]
        /\ byId' = [i \in ClipId |-> IF i = job.id THEN e ELSE IF byId[i] = e THEN L!None ELSE byId[i]]
        /\ job' = L!Idle
    BY <1>6 DEF L!LockDone
  <2>3. job.inUse => /\ same = bySerial[entries[job.entry].serial] /\ same \in DOMAIN entries
                     /\ same # job.entry /\ entries[same].freed = 0
                     /\ \E i \in ClipId \ {job.id} : byId[i] = same
                     /\ byId[job.id] = L!None
    BY <1>2, <2>1, SameEntry
  <2>4. e \in DOMAIN entries  BY <1>3, <2>3
  <2>5. /\ es \in Seq(Entry) /\ DOMAIN es = DOMAIN entries
        /\ \A f \in DOMAIN entries : /\ f = job.entry \/ es[f] = entries[f]
                                     /\ es[f].serial = entries[f].serial
                                     /\ es[f].system = entries[f].system
                                     /\ es[f].independent = entries[f].independent
        /\ es[job.entry].freed = entries[job.entry].freed + (IF job.inUse THEN 1 ELSE 0)
    <3>1. CASE job.inUse  BY <1>1, <1>3, <3>1, FreedEntry
    <3>2. CASE ~job.inUse  BY <1>3, <1>1, <3>2 DEF LockTypes
    <3> QED  BY <3>1, <3>2
  <2> HIDE DEF es, same
  <2>6. [es[e] EXCEPT !.id = job.id] \in Entry
    <3>1. es[e] \in Entry  BY <2>4, <2>5, ElementOfSeq, LenProperties
    <3> QED  BY <1>3, <3>1 DEF Entry
  <2>7. /\ entries' \in Seq(Entry) /\ DOMAIN entries' = DOMAIN entries
        /\ \A f \in DOMAIN entries : f # e => entries'[f] = es[f]
        /\ entries'[e] = [es[e] EXCEPT !.id = job.id]
    BY <2>4, <2>5, LenProperties, <2>2, <2>6, ExceptSeq
  <2>8. es[e] \in Entry  BY <2>4, <2>5, ElementOfSeq, LenProperties
  <2>9. /\ entries'[e].id = job.id /\ entries'[e].freed = es[e].freed
        /\ entries'[e].serial = es[e].serial /\ entries'[e].system = es[e].system
        /\ entries'[e].independent = es[e].independent
    BY <2>7, <2>8 DEF Entry
  <2>10. \A f \in DOMAIN entries : /\ entries'[f].serial = entries[f].serial
                                   /\ entries'[f].system = entries[f].system
                                   /\ entries'[f].independent = entries[f].independent
                                   /\ f # e => entries'[f].id = es[f].id
                                   /\ entries'[f].freed = es[f].freed
    <3> TAKE f \in DOMAIN entries
    <3> HIDE DEF e
    <3>1. CASE f = e  BY <2>5, <2>9, <3>1
    <3>2. CASE f # e  BY <2>5, <2>7, <3>2
    <3> QED  BY <3>1, <3>2
  <2>11. MainTables'  BY <1>1, <1>2, <1>4, <2>10, TablesKept
  <2>12. /\ job'.op = "idle" /\ job'.source = "none" /\ Handled' = {} /\ Handled = {job.id}
         /\ job'.inUse = FALSE
    BY <1>2, <2>1, <2>2 DEF L!Idle, Handled
  <2>13. LockTypes'  BY <1>1, <1>2, <2>2, <2>4, <2>7, <2>12 DEF LockTypes, L!TypeOK, L!Idle, Job
  <2>14. LockJob' /\ NotTaken'  BY <1>2, <2>1, <2>12 DEF LockJob, NotTaken
  <2>15. EntriesFreedOnce'  BY <1>2, <2>7, <2>1, <1>3, <2>5, <2>10 DEF EntriesFreedOnce, LocksInv
  <2>16. TableLive'
    <3> SUFFICES ASSUME NEW s \in 0..MaxLists, Held(s) PROVE entries'[bySerial[s]].freed = 0
      BY <1>2, <1>4 DEF TableLive
    <3>1. entries[bySerial[s]].freed = 0 /\ bySerial[s] \in DOMAIN entries
      BY <1>4, <2>1 DEF LocksInv, TableLive
    <3>2. CASE job.inUse  BY <1>2, <2>1, <3>2, <2>5, <2>10, <3>1 DEF LocksInv, NewEntry
    <3>3. CASE ~job.inUse  BY <1>3, <2>5, <2>10, <3>1, <3>3
    <3> QED  BY <3>2, <3>3
  <2>17. bySerial[entries[job.entry].serial] = e  BY <2>3, <1>2, <2>1 DEF LocksInv, NewEntry
  <2>18. entries[e].serial = entries[job.entry].serial
    BY <1>1, <1>3, LockObjects, <2>4, <2>17 DEF Entry, Held, LocksInv, EntryOfSerial
  <2>19. IdsMatch'
    <3> SUFFICES ASSUME NEW i \in ClipId, byId'[i] # L!None
                 PROVE  entries'[byId'[i]].id = i /\ bySerial[entries'[byId'[i]].serial] = byId'[i]
      BY <1>2, <2>12 DEF IdsMatch
    <3>1. CASE i = job.id
      <4>1. byId'[i] = e  BY <2>2, <3>1
      <4> QED  BY <2>4, <2>9, <2>10, <2>17, <2>18, <3>1, <4>1
    <3>2. CASE i # job.id
      BY <2>2, <3>2, <2>1, <2>12, <1>1, LockObjects, <1>2, <2>5, <2>10 DEF LocksInv, IdsMatch,
         NewEntry
    <3> QED  BY <3>1, <3>2
  <2>20. SerialsMatch'
    <3> SUFFICES ASSUME NEW s \in 0..MaxLists, Held(s)
                 PROVE  \E i \in ClipId : byId'[i] = bySerial[s]
      BY <1>2, <1>4, <2>12 DEF SerialsMatch
    <3>1. CASE bySerial[s] = e  BY <1>3, <2>2, <3>1
    <3>2. CASE bySerial[s] # e  BY <2>1, <2>12, <3>2, <2>2 DEF LocksInv, SerialsMatch
    <3> QED  BY <3>1, <3>2
  <2>21. NewEntry' /\ OldEntry'  BY <2>12 DEF NewEntry, OldEntry
  <2> QED  BY <2>11, <2>13, <2>14, <2>15, <2>16, <2>19, <2>20, <2>21 DEF LocksInv, MainTables
<1> QED  BY <1>5, <1>6

\* An unlock: the main thread is asked to destroy the entry.
LEMMA OfUnlock ==
  ASSUME LocksInv, NEW i \in ClipId, L!Unlock(i)
  PROVE  LocksInv'
<1>1. LockTypes /\ LockJob /\ MainTables  BY DEF LocksInv, MainTables
<1>2. /\ halt = "no" /\ job.op = "idle" /\ byId[i] # L!None
      /\ job' = [L!Idle EXCEPT !.op = "unlock", !.id = i, !.entry = byId[i],
                               !.source = "destruction", !.completed = FALSE]
      /\ UNCHANGED <<board, boards, entries, byId, bySerial, halt>>
  BY DEF L!Unlock
<1>3. /\ job'.op = "unlock" /\ job'.id = i /\ job'.entry = byId[i]
      /\ job'.source = "destruction" /\ job'.completed = FALSE
      /\ job'.woken = L!None /\ ~job'.inUse
  BY <1>2 DEF L!Idle
<1>4. byId[i] \in DOMAIN entries  BY <1>1, <1>2, LockObjects
<1>5. MainTables'  BY <1>1, <1>2, TablesKept
<1>6. LockTypes'
  <2>1. job' \in Job(DOMAIN entries)  BY <1>2, <1>4, <1>1 DEF L!Idle, L!None, Job
  <2>2. L!TypeOK'  BY <1>1, <1>2, <1>3 DEF LockTypes, L!TypeOK
  <2> QED  BY <1>1, <1>2, <2>1, <2>2 DEF LockTypes
<1>7. LockJob' /\ NotTaken'  BY <1>2, <1>3, <1>4 DEF LockJob, NotTaken
<1>8. EntriesFreedOnce' /\ TableLive'
  BY <1>2 DEF LocksInv, EntriesFreedOnce, TableLive, Held
<1>9. Handled = {} /\ Handled' = {}  BY <1>2, <1>3 DEF Handled
<1>10. IdsMatch'  BY <1>2, <1>9 DEF LocksInv, IdsMatch
<1>11. SerialsMatch'  BY <1>2, <1>9 DEF LocksInv, SerialsMatch, Held
<1>12. NewEntry' /\ OldEntry'  BY <1>2, <1>3 DEF NewEntry, OldEntry
<1> QED  BY <1>5, <1>6, <1>7, <1>8, <1>10, <1>11, <1>12 DEF LocksInv, MainTables

\* The thread removes the id of the entry that was destroyed.
LEMMA OfUnlockDone ==
  ASSUME LocksInv, L!UnlockDone
  PROVE  LocksInv'
<1>1. LockTypes /\ LockJob /\ MainTables  BY DEF LocksInv, MainTables
<1>2. /\ job.op = "unlock" /\ (job.completed \/ halt = "stopping")
      /\ byId' = [byId EXCEPT ![job.id] = L!None]
      /\ job' = IF job.completed THEN L!Idle ELSE [job EXCEPT !.op = "idle"]
      /\ UNCHANGED <<board, boards, entries, bySerial, halt>>
  BY DEF L!UnlockDone
<1>3. job.id \in ClipId  BY <1>1, <1>2 DEF LockJob
<1>4. MainTables'  BY <1>1, <1>2, TablesKept
<1>5. /\ job'.op = "idle" /\ (job.completed => job'.source = "none") /\ Handled' = {}
      /\ job'.source # "retrieval" /\ job'.woken = L!None
      /\ job'.inUse => job.inUse /\ job'.entry = job.entry
  BY <1>1, <1>2 DEF L!Idle, LockTypes, Job, Handled, LockJob, LocksInv, NotTaken
<1>6. LockTypes'
  <2>1. job' \in Job(DOMAIN entries')  BY <1>2, <1>1 DEF L!Idle, LockTypes, Job
  <2>2. L!TypeOK'  BY <1>1, <1>2, <1>5 DEF LockTypes, L!TypeOK
  <2> QED  BY <1>1, <1>2, <2>1, <2>2 DEF LockTypes
<1>7. LockJob' /\ NotTaken'  BY <1>1, <1>2, <1>5 DEF LockJob, NotTaken, LocksInv
<1>8. EntriesFreedOnce' /\ TableLive'
  BY <1>2, <1>5 DEF LocksInv, EntriesFreedOnce, TableLive, Held, NotTaken
<1>9. halt = "no" => job.completed /\ Handled = {job.id}  BY <1>2 DEF Handled
<1>10. IdsMatch'
  BY <1>1, <1>2, <1>5, <1>9 DEF LocksInv, IdsMatch, LockTypes, L!TypeOK
<1>11. SerialsMatch'
  BY <1>2, <1>5, <1>9, <1>1 DEF SerialsMatch, Held, LocksInv, LockTypes, L!TypeOK
<1>12. NewEntry' /\ OldEntry'  BY <1>5 DEF NewEntry, OldEntry
<1> QED  BY <1>4, <1>6, <1>7, <1>8, <1>10, <1>11, <1>12 DEF LocksInv, MainTables

\* The main thread deletes the entry of one serial, or none: the WinPR clipboard goes with
\* it unless it is the current one, and nothing else does.
Freeing(E) == [e \in DOMAIN entries |->
                 IF e \in E THEN [entries[e] EXCEPT !.freed = @ + 1] ELSE entries[e]]

\* What freeing some entries changes.
LEMMA FreeingEntries ==
  ASSUME LockTypes, NEW E
  PROVE  /\ Freeing(E) \in Seq(Entry) /\ Len(Freeing(E)) = Len(entries)
         /\ DOMAIN Freeing(E) = DOMAIN entries
         /\ \A e \in DOMAIN entries :
              /\ e \notin E => Freeing(E)[e] = entries[e]
              /\ Freeing(E)[e].freed = entries[e].freed + (IF e \in E THEN 1 ELSE 0)
              /\ Freeing(E)[e].id = entries[e].id
              /\ Freeing(E)[e].serial = entries[e].serial
              /\ Freeing(E)[e].system = entries[e].system
              /\ Freeing(E)[e].independent = entries[e].independent
<1>1. \A e \in DOMAIN entries : entries[e] \in Entry  BY LockObjects
<1>2. ASSUME NEW e \in DOMAIN entries
      PROVE  /\ Freeing(E)[e] \in Entry
             /\ e \notin E => Freeing(E)[e] = entries[e]
             /\ Freeing(E)[e].freed = entries[e].freed + (IF e \in E THEN 1 ELSE 0)
             /\ Freeing(E)[e].id = entries[e].id
             /\ Freeing(E)[e].serial = entries[e].serial
             /\ Freeing(E)[e].system = entries[e].system
             /\ Freeing(E)[e].independent = entries[e].independent
  <2> DEFINE r == entries[e]
             m == r.freed + 1
  <2>1. r \in Entry /\ r.freed \in Nat  BY <1>1 DEF Entry
  <2>2. m \in Nat /\ r.freed + 0 = r.freed /\ m = r.freed + 1 BY <2>1
  <2>3. CASE e \in E
    <3>1. Freeing(E)[e] = [r EXCEPT !.freed = m]  BY <2>3 DEF Freeing
    <3> HIDE DEF r, m
    <3>2. /\ [r EXCEPT !.freed = m] \in Entry /\ [r EXCEPT !.freed = m].freed = m
          /\ [r EXCEPT !.freed = m].id = r.id /\ [r EXCEPT !.freed = m].serial = r.serial
          /\ [r EXCEPT !.freed = m].system = r.system
          /\ [r EXCEPT !.freed = m].independent = r.independent
      BY <2>1, <2>2 DEF Entry
    <3> QED  BY <2>2, <2>3, <3>1, <3>2 DEF r
  <2>4. CASE e \notin E
    <3>1. Freeing(E)[e] = r  BY <2>4 DEF Freeing
    <3> QED  BY <2>1, <2>2, <2>4, <3>1
  <2> QED  BY <2>3, <2>4
<1>3. DOMAIN Freeing(E) = DOMAIN entries  BY DEF Freeing
<1>4. Freeing(E) \in [DOMAIN entries -> Entry]  BY <1>2, <1>3 DEF Freeing
<1>5. Freeing(E) \in Seq(Entry) /\ Len(Freeing(E)) = Len(entries)
  BY <1>4, MappedSeq DEF LockTypes
<1> QED  BY <1>2, <1>3, <1>5

\* A WinPR clipboard goes with the entry that owns it, and with no other.
LEMMA DeletedEntry ==
  ASSUME LockTypes, MainTables, halt # "done", NEW r \in 0..MaxLists, Held(r)
  PROVE  /\ L!Destroyed(boards, {bySerial[r]}) \in Seq(Board)
         /\ DOMAIN L!Destroyed(boards, {bySerial[r]}) = DOMAIN boards
         /\ \A b \in DOMAIN boards :
              /\ L!Destroyed(boards, {bySerial[r]})[b].files = boards[b].files
              /\ L!Destroyed(boards, {bySerial[r]})[b].destroyed =
                   IF InUse(b) /\ (r = board.serial \/ entries[bySerial[r]].system # b) THEN 0 ELSE 1
<1> DEFINE E == {bySerial[r]}
<1>1. bySerial[r] \in DOMAIN entries  BY LockObjects
<1>2. /\ L!Destroyed(boards, E) \in Seq(Board)
      /\ DOMAIN L!Destroyed(boards, E) = DOMAIN boards
      /\ \A b \in DOMAIN boards :
           L!Destroyed(boards, E)[b] =
             [boards[b] EXCEPT !.destroyed = @ + (IF \E e \in E : Owns(e, b) THEN 1 ELSE 0)]
  BY <1>1, DestroyedWith
<1> HIDE DEF E
<1>3. ASSUME NEW b \in DOMAIN boards
      PROVE  /\ L!Destroyed(boards, E)[b].files = boards[b].files
             /\ L!Destroyed(boards, E)[b].destroyed =
                   IF InUse(b) /\ (r = board.serial \/ entries[bySerial[r]].system # b) THEN 0 ELSE 1
  <2> DEFINE c == boards[b]
             n == IF \E e \in E : Owns(e, b) THEN 1 ELSE 0
             m == c.destroyed + n
  <2>1. c \in Board  BY LockObjects
  <2>2. L!Destroyed(boards, E)[b] = [c EXCEPT !.destroyed = m]  BY <1>2
  <2>3. [c EXCEPT !.destroyed = m].files = c.files /\ [c EXCEPT !.destroyed = m].destroyed = m
    <3> HIDE DEF c, m
    <3> QED  BY <2>1 DEF Board
  <2>4. n = IF r # board.serial /\ entries[bySerial[r]].system = b THEN 1 ELSE 0
    BY <1>1 DEF MainTables, EntryOfSerial, Owns, E
  <2>5. c.destroyed = IF InUse(b) THEN 0 ELSE 1  BY DEF MainTables, SystemsLive
  <2>6. entries[bySerial[r]].system = b => InUse(b)  BY DEF InUse
  <2>7. n = 1 => InUse(b)  BY <2>4, <2>6
  <2>8. m = IF InUse(b) /\ (r = board.serial \/ entries[bySerial[r]].system # b) THEN 0 ELSE 1
    <3> HIDE DEF c, n
    <3> QED  BY <2>4, <2>5, <2>6
  <2> QED  BY <2>2, <2>3, <2>8
<1> QED  BY <1>2, <1>3 DEF E

\* The tables after the main thread deleted the entry of serial r (if there is one) and, or,
\* made an entry for the current selection.
LEMMA TablesChanged ==
  ASSUME LockTypes, MainTables, halt # "done", board' = board, halt' = halt,
         NEW r,
         DOMAIN boards' = DOMAIN boards,
         \A b \in DOMAIN boards :
           /\ boards'[b].files = boards[b].files
           /\ boards'[b].destroyed =
                IF InUse(b) /\ ~(/\ r \in 0..MaxLists /\ Held(r) /\ r # board.serial
                                 /\ entries[bySerial[r]].system = b) THEN 0 ELSE 1,
         \A s \in 0..MaxLists : Held(s)' =>
           \/ /\ Held(s) /\ s # r /\ bySerial'[s] = bySerial[s]
              /\ entries'[bySerial[s]].serial = entries[bySerial[s]].serial
              /\ entries'[bySerial[s]].system = entries[bySerial[s]].system
              /\ entries'[bySerial[s]].independent = entries[bySerial[s]].independent
           \/ /\ s = board.serial /\ entries'[bySerial'[s]].serial = s
              /\ entries'[bySerial'[s]].system = board.system
              /\ ~entries'[bySerial'[s]].independent,
         \A s \in 0..MaxLists : Held(s) /\ s # r =>
           /\ Held(s)' /\ bySerial'[s] = bySerial[s]
           /\ entries'[bySerial[s]].system = entries[bySerial[s]].system
  PROVE  MainTables'
<1>1. board.serial \in 0..MaxLists /\ board.system \in DOMAIN boards  BY LockObjects
<1>2. EntryOfSerial'  BY <1>1 DEF EntryOfSerial, MainTables, CurrentFiles
<1>3. OneSystemEach'
  <2> SUFFICES ASSUME NEW s \in 0..MaxLists, NEW t \in 0..MaxLists, Held(s)', Held(t)',
                      entries'[bySerial'[s]].system = entries'[bySerial'[t]].system
               PROVE  s = t
    BY DEF OneSystemEach
  <2>1. CASE s = board.serial \/ t = board.serial  BY <1>2, <2>1 DEF EntryOfSerial
  <2>2. CASE s # board.serial /\ t # board.serial
    BY <2>2 DEF MainTables, OneSystemEach
  <2> QED  BY <2>1, <2>2
<1>4. CurrentFiles'  BY <1>1 DEF MainTables, CurrentFiles
<1>5. SystemsLive'
  <2> SUFFICES ASSUME NEW b \in DOMAIN boards
               PROVE  boards'[b].destroyed = IF InUse(b)' THEN 0 ELSE 1
    BY DEF SystemsLive
  <2> DEFINE gone == /\ r \in 0..MaxLists /\ Held(r) /\ r # board.serial
                     /\ entries[bySerial[r]].system = b
  <2>1. ASSUME InUse(b)' PROVE InUse(b) /\ ~gone
    <3>1. CASE b = board.system
      <4>1. ~gone  BY <1>1, <3>1 DEF MainTables, EntryOfSerial
      <4> QED  BY <3>1, <4>1 DEF InUse
    <3>2. CASE b # board.system  BY <2>1, <3>2 DEF InUse, MainTables, OneSystemEach
    <3> QED  BY <3>1, <3>2
  <2>2. ASSUME InUse(b), ~gone PROVE InUse(b)'
    <3>1. CASE b = board.system  BY <3>1 DEF InUse
    <3>2. CASE b # board.system  BY <2>2, <3>2 DEF InUse, MainTables, EntryOfSerial
    <3> QED  BY <3>1, <3>2
  <2>3. InUse(b)' <=> InUse(b) /\ ~gone  BY <2>1, <2>2
  <2> QED  BY <2>3
<1> QED  BY <1>2, <1>3, <1>4, <1>5 DEF MainTables

\* The main thread destroys the entry of an id.
LEMMA OfHandleClipDataEntryDestruction ==
  ASSUME LocksInv, L!HandleClipDataEntryDestruction
  PROVE  LocksInv'
<1> DEFINE r == entries[job.entry].serial
<1>1. LockTypes /\ LockJob /\ MainTables /\ EntryOfSerial /\ IdsMatch /\ SerialsMatch /\ OldEntry
  BY DEF LocksInv, MainTables
<1>2. /\ halt = "no" /\ job.source = "destruction"
      /\ bySerial' = [bySerial EXCEPT ![r] = L!None]
      /\ job' = [job EXCEPT !.source = "none", !.completed = TRUE]
      /\ UNCHANGED <<board, byId, halt>>
  BY DEF L!HandleClipDataEntryDestruction
<1>3. job.op = "unlock" /\ ~job.completed
  BY <1>1, <1>2 DEF LockJob, LockTypes, L!TypeOK
<1>4. /\ job.entry = byId[job.id] /\ job.entry # L!None /\ job.id \in ClipId
      /\ job.entry \in DOMAIN entries
  BY <1>1, <1>2, <1>3 DEF OldEntry, LockJob
<1>5. Handled = {} /\ Handled' = {job.id}
  BY <1>1, <1>2, <1>3 DEF Handled, LockTypes, Job
<1>6. bySerial[r] = job.entry  BY <1>1, <1>2, <1>4, <1>5 DEF IdsMatch
<1>7. r \in 0..MaxLists /\ Held(r)  BY <1>1, <1>4, <1>6, LockObjects DEF Held, Entry
<1>8. entries' = Freeing({job.entry}) /\ boards' = L!Destroyed(boards, {bySerial[r]})
  BY <1>4, <1>6 DEF L!HandleClipDataEntryDestruction, Freeing
<1>9. /\ entries' \in Seq(Entry) /\ DOMAIN entries' = DOMAIN entries
      /\ \A e \in DOMAIN entries :
           /\ e # job.entry => entries'[e] = entries[e]
           /\ entries'[e].freed = entries[e].freed + (IF e = job.entry THEN 1 ELSE 0)
           /\ entries'[e].id = entries[e].id
           /\ entries'[e].serial = entries[e].serial
           /\ entries'[e].system = entries[e].system
           /\ entries'[e].independent = entries[e].independent
  BY <1>1, <1>8, FreeingEntries
<1>10. /\ boards' \in Seq(Board) /\ DOMAIN boards' = DOMAIN boards
       /\ \A b \in DOMAIN boards :
            /\ boards'[b].files = boards[b].files
            /\ boards'[b].destroyed =
                 IF InUse(b) /\ (r = board.serial \/ entries[bySerial[r]].system # b) THEN 0 ELSE 1
  BY <1>1, <1>2, <1>7, <1>8, DeletedEntry
<1>11. \A s \in 0..MaxLists : /\ Held(s)' <=> Held(s) /\ s # r
                              /\ s # r => bySerial'[s] = bySerial[s]
                              /\ Held(s) => bySerial[s] \in DOMAIN entries
                              /\ Held(s) /\ s # r => bySerial[s] # job.entry
  BY <1>1, <1>2, LockObjects DEF LockTypes, L!TypeOK, EntryOfSerial, Held
<1> HIDE DEF r
<1>12. MainTables'
  <2>1. \A b \in DOMAIN boards :
           /\ boards'[b].files = boards[b].files
           /\ boards'[b].destroyed =
                IF InUse(b) /\ ~(/\ r \in 0..MaxLists /\ Held(r) /\ r # board.serial
                                 /\ entries[bySerial[r]].system = b) THEN 0 ELSE 1
    BY <1>7, <1>10
  <2>2. halt # "done"  BY <1>2
  <2>3. \A s \in 0..MaxLists : Held(s)' =>
              /\ Held(s) /\ s # r /\ bySerial'[s] = bySerial[s]
              /\ entries'[bySerial[s]].serial = entries[bySerial[s]].serial
              /\ entries'[bySerial[s]].system = entries[bySerial[s]].system
              /\ entries'[bySerial[s]].independent = entries[bySerial[s]].independent
    BY <1>9, <1>11
  <2>4. \A s \in 0..MaxLists : Held(s) /\ s # r =>
           /\ Held(s)' /\ bySerial'[s] = bySerial[s]
           /\ entries'[bySerial[s]].system = entries[bySerial[s]].system
    BY <1>9, <1>11
  <2> QED  BY <1>1, <1>2, <1>10, <2>1, <2>2, <2>3, <2>4, TablesChanged
<1>13. /\ job'.op = "unlock" /\ job'.source = "none" /\ job'.completed
       /\ job'.id = job.id /\ job'.entry = job.entry /\ job'.woken = L!None
       /\ job'.inUse = job.inUse
  BY <1>1, <1>2, <1>3 DEF LockTypes, Job, LocksInv, NotTaken
<1>14. LockTypes'  BY <1>1, <1>2, <1>9, <1>10, <1>13 DEF LockTypes, L!TypeOK, Job
<1>15. LockJob' /\ NotTaken'
  BY <1>1, <1>2, <1>4, <1>6, <1>9, <1>13, <1>7 DEF LockJob, NotTaken, LocksInv
<1>16. entries[job.entry].freed = 0  BY <1>2, <1>6, <1>7 DEF LocksInv, TableLive
<1>17. EntriesFreedOnce'
  <2> SUFFICES ASSUME NEW e \in DOMAIN entries PROVE entries'[e].freed <= 1
    BY <1>2, <1>9 DEF EntriesFreedOnce
  <2>1. entries[e].freed <= 1  BY <1>2 DEF LocksInv, EntriesFreedOnce
  <2>2. CASE e = job.entry
    <3>1. entries'[e].freed = 0 + 1  BY <1>9, <1>16, <2>2
    <3> QED  BY <3>1
  <2>3. CASE e # job.entry  BY <1>9, <2>1, <2>3
  <2> QED  BY <2>2, <2>3
<1>18. TableLive'  BY <1>2, <1>9, <1>11 DEF LocksInv, TableLive
<1>19. IdsMatch'
  <2> SUFFICES ASSUME NEW i \in ClipId \ {job.id}, byId[i] # L!None
               PROVE  entries'[byId[i]].id = i /\ bySerial'[entries'[byId[i]].serial] = byId[i]
    BY <1>2, <1>5 DEF IdsMatch
  <2>1. entries[byId[i]].id = i /\ bySerial[entries[byId[i]].serial] = byId[i]
    BY <1>1, <1>2, <1>5 DEF IdsMatch
  <2>2. entries[job.entry].id = job.id  BY <1>1, <1>2, <1>4, <1>5 DEF IdsMatch
  <2>3. byId[i] # job.entry /\ byId[i] \in DOMAIN entries  BY <1>1, <2>1, <2>2, LockObjects
  <2>4. entries[byId[i]].serial \in 0..MaxLists  BY <1>1, <2>3, LockObjects DEF Entry
  <2>5. entries[byId[i]].serial # r  BY <1>6, <2>1, <2>3
  <2> QED  BY <1>9, <1>11, <2>1, <2>3, <2>4, <2>5
<1>20. SerialsMatch'
  <2> SUFFICES ASSUME NEW s \in 0..MaxLists, Held(s)'
               PROVE  \E i \in ClipId \ {job.id} : byId[i] = bySerial'[s]
    BY <1>2, <1>5 DEF SerialsMatch
  <2>1. Held(s) /\ s # r /\ bySerial'[s] = bySerial[s] /\ bySerial[s] # job.entry  BY <1>11
  <2>2. PICK i \in ClipId : byId[i] = bySerial[s]
    BY <1>1, <1>2, <1>3, <1>5, <2>1 DEF SerialsMatch
  <2> QED  BY <1>4, <2>1, <2>2
<1>21. NewEntry' /\ OldEntry'  BY <1>13 DEF NewEntry, OldEntry
<1> QED  BY <1>12, <1>14, <1>15, <1>17, <1>18, <1>19, <1>20, <1>21 DEF LocksInv, MainTables

\* The main thread puts a new entry, or the one it replaces, under the current serial.
LEMMA OfRetrieveCurrentClipboard ==
  ASSUME Careful, LocksInv, L!RetrieveCurrentClipboard
  PROVE  LocksInv'
<1> DEFINE p == job.replace
           r == IF p = L!None THEN -1 ELSE entries[p].serial
           E == IF p = L!None THEN {} ELSE {bySerial[entries[p].serial]} \ {L!None}
           freed == Freeing(E)
           table == IF p = L!None THEN bySerial ELSE [bySerial EXCEPT ![entries[p].serial] = L!None]
           inUse == table[board.serial] # L!None
           n == job.entry
<1>1. /\ LockTypes /\ LockJob /\ MainTables /\ EntryOfSerial /\ IdsMatch /\ SerialsMatch /\ NewEntry
      /\ TableLive
  BY DEF LocksInv, MainTables
<1>2. /\ halt = "no" /\ job.source = "retrieval"
      /\ boards' = L!Destroyed(boards, E)
      /\ bySerial' = IF inUse THEN table ELSE [table EXCEPT ![board.serial] = n]
      /\ entries' = [freed EXCEPT ![n].serial = board.serial, ![n].files = board.files,
                                  ![n].allowed = board.allowed, ![n].system = board.system]
      /\ job' = [job EXCEPT !.source = "none", !.inUse = inUse, !.completed = TRUE]
      /\ UNCHANGED <<board, byId, halt>>
  BY DEF L!RetrieveCurrentClipboard, Freeing
<1>3. job.op = "lock" /\ ~job.completed
  BY <1>1, <1>2 DEF LockJob, LockTypes, Job
<1>4. /\ job.id \in ClipId /\ n \in DOMAIN entries /\ entries[n].freed = 0
      /\ \A i \in ClipId : byId[i] # n
      /\ \A s \in 0..MaxLists : bySerial[s] # n
      /\ p = byId[job.id]
      /\ byId[job.id] # L!None => bySerial[board.serial] \in {L!None, byId[job.id]}
  BY <1>1, <1>2, <1>3 DEF LockJob, NewEntry
<1>5. board.serial \in 0..MaxLists /\ board.system \in DOMAIN boards /\ n # L!None
      /\ entries[n] \in Entry /\ board.system \in Nat
  BY <1>1, <1>4, LockObjects
<1>6. Handled = {} /\ Handled' = {job.id}
  BY <1>1, <1>2, <1>3 DEF Handled, LockTypes, Job
<1>7. p # L!None => /\ bySerial[r] = p /\ r \in 0..MaxLists /\ Held(r) /\ E = {bySerial[r]}
                    /\ p \in DOMAIN entries /\ entries[p].id = job.id
  <2> SUFFICES ASSUME p # L!None PROVE /\ bySerial[r] = p /\ r \in 0..MaxLists /\ Held(r) /\ E = {bySerial[r]}
                                       /\ p \in DOMAIN entries /\ entries[p].id = job.id
    OBVIOUS
  <2>1. bySerial[r] = p /\ entries[p].id = job.id
    <3>1. job.id \in ClipId \ Handled /\ byId[job.id] = p /\ byId[job.id] # L!None  BY <1>4, <1>6
    <3>2. LET e == byId[job.id] IN  entries[e].id = job.id /\ bySerial[entries[e].serial] = e
      BY <1>1, <1>2, <3>1 DEF IdsMatch
    <3> QED  BY <3>1, <3>2
  <2>2. p \in DOMAIN entries  BY <1>1, <1>4, LockObjects
  <2>3. r \in 0..MaxLists  BY <1>1, <2>2, LockObjects DEF Entry
  <2> QED  BY <2>1, <2>2, <2>3 DEF Held
<1>8. p = L!None => E = {} /\ r \notin 0..MaxLists
  BY ClipboardAssumption
<1>9. n \notin E  BY <1>4, <1>5, <1>7, <1>8
<1>10. \A s \in 0..MaxLists : table[s] = IF s = r THEN L!None ELSE bySerial[s]
  BY <1>1, <1>7, <1>8 DEF LockTypes, L!TypeOK
<1>11. inUse <=> Held(board.serial) /\ board.serial # r  BY <1>5, <1>10 DEF Held
<1>12. inUse => p = L!None /\ byId[job.id] = L!None
  BY <1>1, <1>4, <1>5, <1>7, <1>11 DEF Held, EntryOfSerial
<1>13. table \in [0..MaxLists -> {L!None} \cup DOMAIN entries]
  BY <1>1 DEF LockTypes, L!TypeOK
<1>14. \A s \in 0..MaxLists : bySerial'[s] =
         IF s = board.serial /\ ~inUse THEN n ELSE IF s = r THEN L!None ELSE bySerial[s]
  BY <1>2, <1>5, <1>10, <1>13
<1>15. bySerial' \in [0..MaxLists -> {L!None} \cup DOMAIN entries]
  BY <1>2, <1>4, <1>5, <1>13
<1>16. /\ freed \in Seq(Entry) /\ Len(freed) = Len(entries) /\ DOMAIN freed = DOMAIN entries
       /\ \A e \in DOMAIN entries :
              /\ e \notin E => freed[e] = entries[e]
              /\ freed[e].freed = entries[e].freed + (IF e \in E THEN 1 ELSE 0)
              /\ freed[e].id = entries[e].id
              /\ freed[e].serial = entries[e].serial
              /\ freed[e].system = entries[e].system
              /\ freed[e].independent = entries[e].independent
  BY <1>1, FreeingEntries
<1> DEFINE new == [entries[n] EXCEPT !.serial = board.serial, !.files = board.files,
                                     !.allowed = board.allowed, !.system = board.system]
<1>17. /\ new \in Entry /\ new.serial = board.serial /\ new.system = board.system
       /\ new.freed = entries[n].freed /\ new.id = entries[n].id
       /\ new.independent = entries[n].independent
  BY <1>1, <1>5 DEF Entry, LockTypes, L!TypeOK
<1>18. entries' = [freed EXCEPT ![n] = new]
  BY <1>2, <1>4, <1>9, <1>16
<1>19. /\ entries' \in Seq(Entry) /\ DOMAIN entries' = DOMAIN entries
       /\ entries'[n] = new
       /\ \A e \in DOMAIN entries : e # n => entries'[e] = freed[e]
  <2> HIDE DEF new, freed
  <2>1. n \in 1 .. Len(freed)  BY <1>4, <1>16, LenProperties
  <2>2. entries' \in Seq(Entry) /\ DOMAIN entries' = DOMAIN freed
    BY <1>16, <1>17, <1>18, <2>1, ExceptSeq
  <2> QED  BY <1>4, <1>16, <1>18, <2>1, <2>2
<1> HIDE DEF new, freed
<1>20. ~entries[n].independent
  BY <1>1, <1>2, <1>3 DEF NewEntry
<1>21. \A e \in DOMAIN entries : e # n =>
              /\ entries'[e].freed = entries[e].freed + (IF e \in E THEN 1 ELSE 0)
              /\ entries'[e].id = entries[e].id
              /\ entries'[e].serial = entries[e].serial
              /\ entries'[e].system = entries[e].system
              /\ entries'[e].independent = entries[e].independent
  BY <1>16, <1>19
<1>22. /\ boards' \in Seq(Board) /\ DOMAIN boards' = DOMAIN boards
       /\ \A b \in DOMAIN boards :
            /\ boards'[b].files = boards[b].files
            /\ boards'[b].destroyed =
                 IF InUse(b) /\ ~(/\ r \in 0..MaxLists /\ Held(r) /\ r # board.serial
                                  /\ entries[bySerial[r]].system = b) THEN 0 ELSE 1
  <2>1. CASE p = L!None
    <3>1. E = {} /\ r \notin 0..MaxLists  BY <1>8, <2>1
    <3>2. /\ boards' \in Seq(Board) /\ DOMAIN boards' = DOMAIN boards
          /\ \A b \in DOMAIN boards : boards'[b] = [boards[b] EXCEPT !.destroyed = @ + 0]
      BY <1>1, <1>2, <3>1, DestroyedWith
    <3> HIDE DEF E, r
    <3>3. ASSUME NEW b \in DOMAIN boards
          PROVE  boards'[b].files = boards[b].files /\ boards'[b].destroyed = boards[b].destroyed
      <4> DEFINE c == boards[b]
      <4>1. c \in Board /\ c.destroyed + 0 = c.destroyed  BY <1>1, LockObjects DEF Board
      <4>2. boards'[b] = [c EXCEPT !.destroyed = c.destroyed]  BY <3>2, <4>1
      <4> HIDE DEF c
      <4>3. [c EXCEPT !.destroyed = c.destroyed] = c  BY <4>1 DEF Board
      <4> QED  BY <4>2, <4>3 DEF c
    <3>4. \A b \in DOMAIN boards : boards[b].destroyed = IF InUse(b) THEN 0 ELSE 1
      BY <1>1, <1>2 DEF MainTables, SystemsLive
    <3> QED  BY <3>1, <3>2, <3>3, <3>4
  <2>2. CASE p # L!None
    <3>1. r \in 0..MaxLists /\ Held(r) /\ E = {bySerial[r]}  BY <1>7, <2>2
    <3>2. boards' = L!Destroyed(boards, {bySerial[r]}) /\ halt # "done"  BY <1>2, <3>1
    <3> HIDE DEF E, r
    <3> QED  BY <1>1, <3>1, <3>2, DeletedEntry
  <2> QED  BY <2>1, <2>2
<1>23. \A s \in 0..MaxLists : Held(s) => entries[bySerial[s]].serial = s /\ bySerial[s] \in DOMAIN entries
  BY <1>1, LockObjects DEF EntryOfSerial
<1>24. \A s \in 0..MaxLists :
         /\ Held(s)' <=> (Held(s) /\ s # r) \/ (s = board.serial /\ ~inUse)
         /\ Held(s) /\ s # r => /\ bySerial'[s] = bySerial[s] /\ bySerial[s] # n
                                /\ bySerial[s] \notin E
         /\ Held(s)' /\ ~(Held(s) /\ s # r) => s = board.serial /\ bySerial'[s] = n /\ ~inUse
  <2> TAKE s \in 0..MaxLists
  <2>1. Held(s) /\ s # r => bySerial[s] \notin E  BY <1>7, <1>8, <1>23 DEF Held
  <2> HIDE DEF E, r
  <2>2. s = board.serial /\ Held(s) /\ s # r => inUse  BY <1>11
  <2> QED  BY <1>4, <1>5, <1>14, <2>1, <2>2 DEF Held
<1>25. MainTables'
  <2> HIDE DEF E, r
  <2>1. \A s \in 0..MaxLists : Held(s)' =>
           \/ /\ Held(s) /\ s # r /\ bySerial'[s] = bySerial[s]
              /\ entries'[bySerial[s]].serial = entries[bySerial[s]].serial
              /\ entries'[bySerial[s]].system = entries[bySerial[s]].system
              /\ entries'[bySerial[s]].independent = entries[bySerial[s]].independent
           \/ /\ s = board.serial /\ entries'[bySerial'[s]].serial = s
              /\ entries'[bySerial'[s]].system = board.system
              /\ ~entries'[bySerial'[s]].independent
    BY <1>17, <1>19, <1>20, <1>21, <1>23, <1>24
  <2>2. \A s \in 0..MaxLists : Held(s) /\ s # r =>
           /\ Held(s)' /\ bySerial'[s] = bySerial[s]
           /\ entries'[bySerial[s]].system = entries[bySerial[s]].system
    BY <1>21, <1>23, <1>24
  <2>3. LockTypes /\ MainTables /\ halt # "done" /\ board' = board /\ halt' = halt  BY <1>1, <1>2
  <2>4. /\ DOMAIN boards' = DOMAIN boards
        /\ \A b \in DOMAIN boards :
             /\ boards'[b].files = boards[b].files
             /\ boards'[b].destroyed =
                  IF InUse(b) /\ ~(/\ r \in 0..MaxLists /\ Held(r) /\ r # board.serial
                                   /\ entries[bySerial[r]].system = b) THEN 0 ELSE 1
    BY <1>22
  <2> QED  BY <2>1, <2>2, <2>3, <2>4, TablesChanged
<1>26. /\ job'.op = "lock" /\ job'.source = "none" /\ job'.completed /\ job'.id = job.id
       /\ job'.entry = n /\ job'.inUse = inUse /\ job'.woken = L!None
  BY <1>1, <1>2, <1>3 DEF LockTypes, Job, LocksInv, NotTaken
<1>27. LockTypes'
  <2> HIDE DEF E, r, inUse, table
  <2>1. inUse \in BOOLEAN  BY DEF inUse
  <2>2. job' \in Job(DOMAIN entries')  BY <1>1, <1>2, <1>19, <2>1 DEF LockTypes, Job
  <2>3. L!TypeOK'
    BY <1>1, <1>2, <1>15, <1>19, <1>22, <1>26 DEF LockTypes, L!TypeOK
  <2> QED  BY <1>1, <1>2, <1>19, <1>22, <2>2, <2>3 DEF LockTypes
<1>28. entries'[n].freed = 0 /\ entries'[n].serial = board.serial  BY <1>4, <1>17, <1>19
<1>38. inUse => \A s \in 0..MaxLists : bySerial'[s] # n  BY <1>4, <1>5, <1>14
<1>29. LockJob'  BY <1>2, <1>4, <1>19, <1>26, <1>28 DEF LockJob
<1>39. NotTaken'
  <2> HIDE DEF inUse
  <2> QED  BY <1>26, <1>38 DEF NotTaken
<1>30. p # L!None => entries[p].freed = 0  BY <1>1, <1>2, <1>7 DEF TableLive
<1>31. EntriesFreedOnce'
  <2> SUFFICES ASSUME NEW e \in DOMAIN entries PROVE entries'[e].freed <= 1
    BY <1>2, <1>19 DEF EntriesFreedOnce
  <2>1. entries[e].freed <= 1 /\ entries[e].freed \in Nat
    BY <1>1, <1>2, LockObjects DEF LocksInv, EntriesFreedOnce, Entry
  <2>2. CASE e = n  BY <1>28, <2>2
  <2>3. CASE e # n /\ e \in E  BY <1>7, <1>8, <1>30, <2>3, <1>21
  <2>4. CASE e # n /\ e \notin E  BY <1>21, <2>4, <2>1
  <2> QED  BY <2>2, <2>3, <2>4
<1>32. TableLive'
  <2> SUFFICES ASSUME NEW s \in 0..MaxLists, Held(s)' PROVE entries'[bySerial'[s]].freed = 0
    BY <1>2 DEF TableLive
  <2>1. CASE Held(s) /\ s # r
    <3>1. entries[bySerial[s]].freed = 0  BY <1>1, <1>2, <2>1 DEF TableLive
    <3>2. entries'[bySerial[s]].freed = 0 + 0  BY <1>21, <1>23, <1>24, <2>1, <3>1
    <3> QED  BY <1>24, <2>1, <3>2
  <2>2. CASE ~(Held(s) /\ s # r)  BY <1>24, <1>28, <2>2
  <2> QED  BY <2>1, <2>2
<1>33. \A i \in ClipId \ {job.id} : byId[i] # L!None =>
         /\ entries'[byId[i]].id = i /\ bySerial'[entries'[byId[i]].serial] = byId[i]
         /\ byId[i] # p
  <2> SUFFICES ASSUME NEW i \in ClipId \ {job.id}, byId[i] # L!None
               PROVE  /\ entries'[byId[i]].id = i /\ bySerial'[entries'[byId[i]].serial] = byId[i]
                      /\ byId[i] # p
    OBVIOUS
  <2>1. entries[byId[i]].id = i /\ bySerial[entries[byId[i]].serial] = byId[i]
    BY <1>1, <1>2, <1>6 DEF IdsMatch
  <2>2. byId[i] \in DOMAIN entries /\ byId[i] # n  BY <1>1, <1>4, LockObjects
  <2>3. byId[i] # p  BY <1>7, <2>1
  <2>4. entries[byId[i]].serial \in 0..MaxLists  BY <1>1, <2>2, LockObjects DEF Entry
  <2>5. Held(entries[byId[i]].serial)  BY <2>1 DEF Held
  <2>6. entries[byId[i]].serial # r  BY <1>7, <1>8, <2>1, <2>3, <2>4
  <2> QED  BY <1>21, <1>24, <2>1, <2>2, <2>3, <2>4, <2>5, <2>6
<1>34. IdsMatch'
  <2>1. byId' = byId /\ Handled' = {job.id}  BY <1>2, <1>6
  <2> HIDE DEF p, r, E, table, inUse, n
  <2> SUFFICES ASSUME NEW i \in ClipId \ {job.id}, byId[i] # L!None
               PROVE  entries'[byId[i]].id = i /\ bySerial'[entries'[byId[i]].serial] = byId[i]
    BY <2>1 DEF IdsMatch
  <2> QED  BY <1>33
<1>35. SerialsMatch'
  <2> SUFFICES ASSUME NEW s \in 0..MaxLists, Held(s)'
               PROVE  \/ \E i \in ClipId \ {job.id} : byId[i] = bySerial'[s]
                      \/ ~inUse /\ bySerial'[s] = n
    BY <1>2, <1>6, <1>26 DEF SerialsMatch
  <2>1. CASE Held(s) /\ s # r
    <3>1. PICK i \in ClipId : byId[i] = bySerial[s]
      BY <1>1, <1>2, <1>3, <1>6, <2>1 DEF SerialsMatch
    <3>2. i # job.id  BY <1>4, <2>1, <3>1, <1>7, <1>24 DEF Held
    <3> QED  BY <1>24, <2>1, <3>1, <3>2
  <2>2. CASE ~(Held(s) /\ s # r)  BY <1>24, <2>2
  <2> QED  BY <2>1, <2>2
<1>36. NewEntry'
  <2>2. inUse => bySerial'[board.serial] # L!None  BY <1>5, <1>11, <1>14 DEF Held
  <2>3. ~inUse => bySerial'[board.serial] = n  BY <1>5, <1>14
  <2> HIDE DEF inUse, E, r
  <2>4. inUse => bySerial'[entries'[n].serial] # L!None  BY <1>28, <2>2
  <2>5. ~inUse => bySerial'[entries'[n].serial] = n  BY <1>28, <2>3
  <2> QED  BY <1>2, <1>4, <1>12, <1>26, <1>38, <2>4, <2>5 DEF NewEntry, Held
<1>37. OldEntry'  BY <1>26 DEF OldEntry
<1> QED  BY <1>25, <1>27, <1>29, <1>39, <1>31, <1>32, <1>34, <1>35, <1>36, <1>37 DEF LocksInv, MainTables

\* The selection of the session changes, or what is known of its files: nobody's entry is
\* freed or gets another id or serial.
LEMMA SameLocks ==
  ASSUME LocksInv, UNCHANGED <<byId, bySerial, job, halt>>, halt = "no",
         DOMAIN entries' = DOMAIN entries,
         \A e \in DOMAIN entries : /\ entries'[e].id = entries[e].id
                                   /\ entries'[e].serial = entries[e].serial
                                   /\ entries'[e].freed = entries[e].freed,
         \A e \in DOMAIN entries :
           (\A s \in 0..MaxLists : bySerial[s] # e) => entries'[e].independent = entries[e].independent,
         board'.serial = board.serial \/ bySerial[board'.serial] = L!None
  PROVE  /\ LockJob' /\ NotTaken' /\ EntriesFreedOnce' /\ TableLive' /\ IdsMatch' /\ SerialsMatch'
         /\ NewEntry' /\ OldEntry'
<1>1. LockTypes /\ LockJob  BY DEF LocksInv
<1>2. LockJob' /\ NotTaken'  BY <1>1 DEF LockJob, NotTaken, LocksInv
<1>3. EntriesFreedOnce'  BY DEF LocksInv, EntriesFreedOnce
<1>4. \A s \in 0..MaxLists : /\ Held(s)' <=> Held(s)
                             /\ Held(s) => bySerial[s] \in DOMAIN entries
  BY <1>1, LockObjects DEF Held
<1>5. TableLive'  BY <1>4 DEF LocksInv, TableLive
<1>6. Handled' = Handled  BY DEF Handled
<1>7. IdsMatch'  BY <1>6, <1>1, LockObjects DEF IdsMatch, LocksInv
<1>8. SerialsMatch'  BY <1>4, <1>6 DEF LocksInv, SerialsMatch
<1>9. NewEntry'  BY <1>1 DEF NewEntry, LockJob, LocksInv, Held
<1>10. OldEntry'  BY DEF LocksInv, OldEntry
<1> QED  BY <1>2, <1>3, <1>5, <1>7, <1>8, <1>9, <1>10

\* An entry gets a flag.
LEMMA FlaggedEntry ==
  ASSUME LockTypes, NEW e \in DOMAIN entries,
         NEW new \in Entry, new.id = entries[e].id, new.serial = entries[e].serial,
         new.freed = entries[e].freed, new.system = entries[e].system,
         entries' = [entries EXCEPT ![e] = new]
  PROVE  /\ entries' \in Seq(Entry) /\ DOMAIN entries' = DOMAIN entries
         /\ entries'[e] = new
         /\ \A f \in DOMAIN entries : /\ f # e => entries'[f] = entries[f]
                                      /\ entries'[f].id = entries[f].id
                                      /\ entries'[f].serial = entries[f].serial
                                      /\ entries'[f].freed = entries[f].freed
                                      /\ entries'[f].system = entries[f].system
BY LockObjects, ExceptSeq DEF LockTypes

\* A new selection: the entry of the last one keeps its WinPR clipboard, and the clipboard
\* gets a new one.
LEMMA OfSendMimeTypeList ==
  ASSUME LocksInv, L!SendMimeTypeList
  PROVE  LocksInv'
<1>1. LockTypes /\ LockJob /\ MainTables /\ EntryOfSerial /\ NewEntry
  BY DEF LocksInv, MainTables
<1>2. PICK withFiles \in BOOLEAN :
        LET e == bySerial[board.serial]
            b == [board EXCEPT !.serial = @ + 1, !.allowed = IF withFiles THEN FALSE ELSE @]
        IN  IF e = L!None
            THEN board' = b /\ UNCHANGED <<entries, boards>>
            ELSE /\ board' = [b EXCEPT !.system = Len(boards) + 1, !.files = FALSE]
                 /\ entries' = [entries EXCEPT ![e].independent = TRUE]
                 /\ boards' = Append(boards, [files |-> 0, destroyed |-> 0])
  BY DEF L!SendMimeTypeList
<1>3. halt = "no" /\ board.serial < MaxLists /\ UNCHANGED <<byId, bySerial, job, halt>>
  BY DEF L!SendMimeTypeList
<1>4. board \in [serial : 0..MaxLists, system : DOMAIN boards, files : BOOLEAN,
                 allowed : BOOLEAN, shown : SUBSET (0..MaxLists)]
  BY <1>1 DEF LockTypes, L!TypeOK
<1>5. MaxLists \in Nat  BY ClipboardAssumption
<1> DEFINE e == bySerial[board.serial]
           new == [entries[e] EXCEPT !.independent = TRUE]
           n == Len(boards) + 1
<1>6. /\ board'.serial = board.serial + 1 /\ board'.shown = board.shown
      /\ board'.serial \in 0..MaxLists
      /\ board'.files \in BOOLEAN /\ board'.allowed \in BOOLEAN
      /\ e = L!None => board'.system = board.system /\ entries' = entries /\ boards' = boards
      /\ e # L!None => /\ board'.system = n /\ entries' = [entries EXCEPT ![e] = new]
                       /\ boards' = Append(boards, [files |-> 0, destroyed |-> 0])
      /\ board' = [serial |-> board'.serial, system |-> board'.system, files |-> board'.files,
                   allowed |-> board'.allowed, shown |-> board.shown]
  <2> DEFINE q == board.serial + 1
             al == IF withFiles THEN FALSE ELSE board.allowed
  <2>1. q \in 0..MaxLists /\ al \in BOOLEAN
    <3>1. board.serial \in 0..MaxLists /\ board.allowed \in BOOLEAN  BY <1>4
    <3>2. q \in 0..MaxLists  BY <1>3, <1>5, <3>1
    <3>3. al \in BOOLEAN  BY <3>1
    <3> QED  BY <3>2, <3>3
  <2>2. CASE e = L!None
    <3>1. /\ board' = [board EXCEPT !.serial = q, !.allowed = al]
          /\ entries' = entries /\ boards' = boards
      BY <1>2, <2>2
    <3> HIDE DEF q, al
    <3>2. board' = [serial |-> q, system |-> board.system, files |-> board.files, allowed |-> al,
                    shown |-> board.shown]
      BY <1>4, <3>1
    <3> QED  BY <1>4, <2>1, <2>2, <3>1, <3>2 DEF q
  <2>3. CASE e # L!None
    <3>1. /\ board' = [[board EXCEPT !.serial = q, !.allowed = al]
                         EXCEPT !.system = n, !.files = FALSE]
          /\ boards' = Append(boards, [files |-> 0, destroyed |-> 0])
          /\ entries' = [entries EXCEPT ![e] = new]
      BY <1>2, <2>3
    <3> HIDE DEF q, al, n, new
    <3>2. board' = [serial |-> q, system |-> n, files |-> FALSE, allowed |-> al,
                    shown |-> board.shown]
      BY <1>4, <3>1
    <3> QED  BY <2>1, <2>3, <3>1, <3>2 DEF q
  <2> QED  BY <2>2, <2>3
<1>7. /\ Len(boards) \in Nat /\ DOMAIN boards = 1 .. Len(boards)
      /\ \A s \in 0..MaxLists : Held(s) => bySerial[s] \in DOMAIN entries
      /\ board.system \in DOMAIN boards /\ board.serial \in 0..MaxLists
  BY <1>1, LockObjects
<1>8. ~Held(board'.serial)  BY <1>1, <1>6, <1>7 DEF EntryOfSerial
<1>9. \A s \in 0..MaxLists : Held(s)' <=> Held(s)  BY <1>3 DEF Held
<1>10. CASE e = L!None
  <2>1. board'.system = board.system /\ entries' = entries /\ boards' = boards  BY <1>6, <1>10
  <2>2. LockTypes'
    <3>1. board' \in [serial : 0..MaxLists, system : DOMAIN boards', files : BOOLEAN,
                      allowed : BOOLEAN, shown : SUBSET (0..MaxLists)]
      BY <1>4, <1>6, <2>1
    <3>2. L!TypeOK'  BY <1>1, <1>3, <2>1, <3>1 DEF LockTypes, L!TypeOK
    <3>3. board'.shown \subseteq 0..board'.serial  BY <1>1, <1>6, <1>7 DEF LockTypes
    <3> QED  BY <1>1, <1>3, <2>1, <3>2, <3>3 DEF LockTypes
  <2>3. EntryOfSerial'
    <3> SUFFICES ASSUME NEW s \in 0..MaxLists, Held(s)
               PROVE  LET x == entries[bySerial[s]]
                      IN /\ s <= board'.serial /\ x.serial = s
                         /\ x.system \in DOMAIN boards
                         /\ x.independent <=> s # board'.serial
                         /\ s = board'.serial <=> x.system = board.system
                         /\ s \in board.shown => boards[x.system].files = s
      BY <1>3, <1>6, <1>9, <2>1 DEF EntryOfSerial
    <3>1. s # board.serial /\ s # board'.serial  BY <1>8, <1>10 DEF Held
    <3> QED  BY <1>1, <1>6, <1>7, <3>1 DEF EntryOfSerial
  <2>4. OneSystemEach'  BY <1>1, <1>3, <1>9, <2>1 DEF MainTables, OneSystemEach
  <2>5. CurrentFiles'  BY <1>1, <1>6, <1>7 DEF LockTypes, CurrentFiles
  <2>6. SystemsLive'  BY <1>3, <1>9, <2>1, <1>1 DEF InUse, MainTables, SystemsLive
  <2>7. bySerial[board'.serial] = L!None  BY <1>8 DEF Held
  <2>8. /\ LockJob' /\ NotTaken' /\ EntriesFreedOnce' /\ TableLive' /\ IdsMatch' /\ SerialsMatch'
        /\ NewEntry' /\ OldEntry'
    BY <1>3, <2>1, <2>7, SameLocks
  <2> QED  BY <2>2, <2>3, <2>4, <2>5, <2>6, <2>8 DEF LocksInv
<1>11. CASE e # L!None
  <2>1. /\ board'.system = n /\ entries' = [entries EXCEPT ![e] = new]
        /\ boards' = Append(boards, [files |-> 0, destroyed |-> 0])
    BY <1>6, <1>11
  <2>2. Held(board.serial) /\ e \in DOMAIN entries  BY <1>7, <1>11 DEF Held
  <2>3. /\ new \in Entry /\ new.id = entries[e].id /\ new.serial = entries[e].serial
        /\ new.freed = entries[e].freed /\ new.system = entries[e].system /\ new.independent
    <3>1. entries[e] \in Entry  BY <1>1, <2>2, LockObjects
    <3> QED  BY <3>1 DEF Entry
  <2> HIDE DEF new, e
  <2>4. /\ entries' \in Seq(Entry) /\ DOMAIN entries' = DOMAIN entries
        /\ entries'[e] = new
        /\ \A f \in DOMAIN entries : /\ f # e => entries'[f] = entries[f]
                                     /\ entries'[f].id = entries[f].id
                                     /\ entries'[f].serial = entries[f].serial
                                     /\ entries'[f].freed = entries[f].freed
                                     /\ entries'[f].system = entries[f].system
    BY <1>1, <2>1, <2>2, <2>3, FlaggedEntry
  <2>5. /\ boards' \in Seq(Board) /\ DOMAIN boards' = DOMAIN boards \cup {n} /\ n \notin DOMAIN boards
        /\ \A b \in DOMAIN boards : boards'[b] = boards[b]
        /\ boards'[n] = [files |-> 0, destroyed |-> 0]
    BY <1>5, <1>1, <2>1, AppendProperties, LenProperties, <1>7 DEF Board, LockTypes
  <2>6. LockTypes'
    <3>1. board' \in [serial : 0..MaxLists, system : DOMAIN boards', files : BOOLEAN,
                      allowed : BOOLEAN, shown : SUBSET (0..MaxLists)]
      BY <1>4, <1>6, <2>1, <2>5
    <3>2. L!TypeOK'  BY <1>1, <1>3, <2>4, <3>1 DEF LockTypes, L!TypeOK
    <3>3. board'.shown \subseteq 0..board'.serial  BY <1>1, <1>6, <1>7 DEF LockTypes
    <3> QED  BY <1>1, <1>3, <2>4, <2>5, <3>2, <3>3 DEF LockTypes
  <2>7. \A s \in 0..MaxLists : Held(s) => (bySerial[s] = e <=> s = board.serial)
    BY <1>1, <1>7, <2>2 DEF EntryOfSerial, e
  <2>8. EntryOfSerial'
    <3> SUFFICES ASSUME NEW s \in 0..MaxLists, Held(s)
               PROVE  LET x == entries'[bySerial[s]]
                      IN /\ s <= board'.serial /\ x.serial = s
                         /\ x.system \in DOMAIN boards'
                         /\ x.independent <=> s # board'.serial
                         /\ s = board'.serial <=> x.system = n
                         /\ s \in board.shown => boards'[x.system].files = s
      BY <1>3, <1>6, <1>9, <2>1 DEF EntryOfSerial
    <3> DEFINE x == entries[bySerial[s]]
    <3>1. /\ s <= board.serial /\ x.serial = s /\ x.system \in DOMAIN boards
          /\ x.independent <=> s # board.serial
          /\ s \in board.shown => boards[x.system].files = s
          /\ bySerial[s] \in DOMAIN entries
      BY <1>1, <1>7 DEF EntryOfSerial
    <3>2. s # board'.serial /\ s <= board'.serial  BY <1>6, <1>7, <3>1
    <3>3. entries'[bySerial[s]].serial = x.serial /\ entries'[bySerial[s]].system = x.system
      BY <2>4, <3>1
    <3>4. entries'[bySerial[s]].independent  BY <2>3, <2>4, <2>7, <3>1
    <3>5. x.system # n /\ boards'[x.system] = boards[x.system]  BY <2>5, <3>1
    <3> QED  BY <2>5, <3>1, <3>2, <3>3, <3>4, <3>5
  <2>9. \A s \in 0..MaxLists : Held(s) => entries'[bySerial[s]].system = entries[bySerial[s]].system
    BY <1>7, <2>4
  <2>10. OneSystemEach'  BY <1>1, <1>3, <1>9, <2>9 DEF MainTables, OneSystemEach
  <2>11. CurrentFiles'  BY <1>1, <1>6, <1>7 DEF LockTypes, CurrentFiles
  <2>12. SystemsLive'
    <3> SUFFICES ASSUME NEW b \in DOMAIN boards' PROVE boards'[b].destroyed = IF InUse(b)' THEN 0 ELSE 1
      BY <1>3 DEF SystemsLive
    <3>1. CASE b = n  BY <2>1, <2>5, <3>1 DEF InUse
    <3>2. CASE b # n
      BY <2>5, <3>2, <1>1, <1>7, <2>2, <1>3, <1>9, <2>1, <2>9 DEF EntryOfSerial, InUse, MainTables,
         SystemsLive
    <3> QED  BY <3>1, <3>2
  <2>13. bySerial[board'.serial] = L!None  BY <1>8 DEF Held
  <2>14. \A f \in DOMAIN entries :
           (\A s \in 0..MaxLists : bySerial[s] # f) => entries'[f].independent = entries[f].independent
    BY <1>7, <2>4 DEF e
  <2>15. /\ LockJob' /\ NotTaken' /\ EntriesFreedOnce' /\ TableLive' /\ IdsMatch' /\ SerialsMatch'
         /\ NewEntry' /\ OldEntry'
    BY <1>3, <2>4, <2>13, <2>14, SameLocks
  <2> QED  BY <2>6, <2>8, <2>10, <2>11, <2>12, <2>15 DEF LocksInv
<1> QED  BY <1>10, <1>11

\* The client accepts a list: requests are allowed, also for the entry of the selection.
LEMMA OfAllowRequests ==
  ASSUME LocksInv, L!AllowRequests
  PROVE  LocksInv'
<1>1. LockTypes /\ MainTables  BY DEF LocksInv, MainTables
<1> DEFINE e == bySerial[board.serial]
           new == [entries[e] EXCEPT !.allowed = TRUE]
<1>2. /\ halt = "no" /\ UNCHANGED <<boards, byId, bySerial, job, halt>>
      /\ board' = [board EXCEPT !.allowed = TRUE]
      /\ e = L!None => entries' = entries
      /\ e # L!None => entries' = [entries EXCEPT ![e] = new]
  BY DEF L!AllowRequests
<1>3. board \in [serial : 0..MaxLists, system : DOMAIN boards, files : BOOLEAN,
                 allowed : BOOLEAN, shown : SUBSET (0..MaxLists)]
  BY <1>1 DEF LockTypes, L!TypeOK
<1>4. /\ board'.serial = board.serial /\ board'.system = board.system /\ board'.shown = board.shown
      /\ board' \in [serial : 0..MaxLists, system : DOMAIN boards, files : BOOLEAN,
                     allowed : BOOLEAN, shown : SUBSET (0..MaxLists)]
  BY <1>2, <1>3
<1>5. /\ entries' \in Seq(Entry) /\ DOMAIN entries' = DOMAIN entries
      /\ \A f \in DOMAIN entries : /\ entries'[f].id = entries[f].id
                                   /\ entries'[f].serial = entries[f].serial
                                   /\ entries'[f].freed = entries[f].freed
                                   /\ entries'[f].system = entries[f].system
                                   /\ entries'[f].independent = entries[f].independent
  <2>1. CASE e = L!None  BY <1>1, <1>2, <2>1 DEF LockTypes
  <2>2. CASE e # L!None
    <3>1. e \in DOMAIN entries  BY <1>1, <2>2, LockObjects DEF Held
    <3>2. /\ new \in Entry /\ new.id = entries[e].id /\ new.serial = entries[e].serial
          /\ new.freed = entries[e].freed /\ new.system = entries[e].system
          /\ new.independent = entries[e].independent
      <4>1. entries[e] \in Entry  BY <1>1, <3>1, LockObjects
      <4> QED  BY <4>1 DEF Entry
    <3>3. entries' = [entries EXCEPT ![e] = new]  BY <1>2, <2>2
    <3> HIDE DEF e, new
    <3> QED  BY <1>1, <3>1, <3>2, <3>3, FlaggedEntry
  <2> QED  BY <2>1, <2>2
<1>6. LockTypes'  BY <1>1, <1>2, <1>4, <1>5 DEF LockTypes, L!TypeOK
<1>7. \A s \in 0..MaxLists : /\ Held(s)' <=> Held(s)
                             /\ Held(s) => bySerial[s] \in DOMAIN entries
  BY <1>1, <1>2, LockObjects DEF Held
<1>8. EntryOfSerial'  BY <1>2, <1>4, <1>7, <1>1, <1>5 DEF EntryOfSerial, MainTables
<1>9. OneSystemEach'  BY <1>1, <1>2, <1>5, <1>7 DEF MainTables, OneSystemEach
<1>10. CurrentFiles'  BY <1>1, <1>2, <1>4 DEF MainTables, CurrentFiles
<1>11. \A b : InUse(b)' <=> InUse(b)  BY <1>2, <1>4, <1>5, <1>7 DEF InUse
<1>12. SystemsLive'  BY <1>1, <1>2, <1>11 DEF MainTables, SystemsLive
<1>13. /\ LockJob' /\ NotTaken' /\ EntriesFreedOnce' /\ TableLive' /\ IdsMatch' /\ SerialsMatch'
       /\ NewEntry' /\ OldEntry'
  BY <1>2, <1>4, <1>5, SameLocks
<1> QED  BY <1>6, <1>8, <1>9, <1>10, <1>12, <1>13 DEF LocksInv

\* The files of the selection are put in the current WinPR clipboard.
LEMMA OfSubmitFileList ==
  ASSUME LocksInv, L!SubmitFileList
  PROVE  LocksInv'
<1>1. LockTypes /\ MainTables  BY DEF LocksInv, MainTables
<1> DEFINE e == bySerial[board.serial]
           new == [entries[e] EXCEPT !.files = TRUE]
           b0 == board.system
           put == [boards[b0] EXCEPT !.files = board.serial]
<1>2. /\ halt = "no" /\ UNCHANGED <<byId, bySerial, job, halt>>
      /\ board' = [board EXCEPT !.files = TRUE, !.shown = @ \cup {board.serial}]
      /\ boards' = [boards EXCEPT ![b0] = put]
      /\ e = L!None => entries' = entries
      /\ e # L!None => entries' = [entries EXCEPT ![e] = new]
  BY DEF L!SubmitFileList
<1>3. board \in [serial : 0..MaxLists, system : DOMAIN boards, files : BOOLEAN,
                 allowed : BOOLEAN, shown : SUBSET (0..MaxLists)]
  BY <1>1 DEF LockTypes, L!TypeOK
<1>4. /\ board'.serial = board.serial /\ board'.system = board.system
      /\ board'.shown = board.shown \cup {board.serial}
      /\ board' \in [serial : 0..MaxLists, system : DOMAIN boards, files : BOOLEAN,
                     allowed : BOOLEAN, shown : SUBSET (0..MaxLists)]
  BY <1>2, <1>3
<1>5. /\ entries' \in Seq(Entry) /\ DOMAIN entries' = DOMAIN entries
      /\ \A f \in DOMAIN entries : /\ entries'[f].id = entries[f].id
                                   /\ entries'[f].serial = entries[f].serial
                                   /\ entries'[f].freed = entries[f].freed
                                   /\ entries'[f].system = entries[f].system
                                   /\ entries'[f].independent = entries[f].independent
  <2>1. CASE e = L!None  BY <1>1, <1>2, <2>1 DEF LockTypes
  <2>2. CASE e # L!None
    <3>1. e \in DOMAIN entries  BY <1>1, <2>2, LockObjects DEF Held
    <3>2. /\ new \in Entry /\ new.id = entries[e].id /\ new.serial = entries[e].serial
          /\ new.freed = entries[e].freed /\ new.system = entries[e].system
          /\ new.independent = entries[e].independent
      <4>1. entries[e] \in Entry  BY <1>1, <3>1, LockObjects
      <4> QED  BY <4>1 DEF Entry
    <3>3. entries' = [entries EXCEPT ![e] = new]  BY <1>2, <2>2
    <3> HIDE DEF e, new
    <3> QED  BY <1>1, <3>1, <3>2, <3>3, FlaggedEntry
  <2> QED  BY <2>1, <2>2
<1>6. /\ boards' \in Seq(Board) /\ DOMAIN boards' = DOMAIN boards
      /\ \A b \in DOMAIN boards : /\ boards'[b].destroyed = boards[b].destroyed
                                  /\ b # b0 => boards'[b] = boards[b]
      /\ boards'[b0].files = board.serial
  <2>1. boards \in Seq(Board) /\ b0 \in 1 .. Len(boards) /\ DOMAIN boards = 1 .. Len(boards)
    BY <1>1, LockObjects DEF LockTypes
  <2>2. /\ put \in Board /\ put.destroyed = boards[b0].destroyed /\ put.files = board.serial
    BY <1>1, LockObjects DEF Board
  <2>3. boards' = [boards EXCEPT ![b0] = put]  BY <1>2
  <2> HIDE DEF put, b0
  <2>4. boards' \in Seq(Board) /\ DOMAIN boards' = DOMAIN boards  BY <2>1, <2>2, <2>3, ExceptSeq
  <2> QED  BY <2>1, <2>2, <2>3, <2>4
<1>7. LockTypes'  BY <1>1, <1>2, <1>4, <1>5, <1>6, <1>3 DEF LockTypes, L!TypeOK
<1>8. \A s \in 0..MaxLists : /\ Held(s)' <=> Held(s)
                             /\ Held(s) => bySerial[s] \in DOMAIN entries
  BY <1>1, <1>2, LockObjects DEF Held
<1>9. EntryOfSerial'
  <2> SUFFICES ASSUME NEW s \in 0..MaxLists, Held(s)
               PROVE  LET x == entries'[bySerial[s]]
                      IN /\ s <= board.serial /\ x.serial = s
                         /\ x.system \in DOMAIN boards
                         /\ x.independent <=> s # board.serial
                         /\ s = board.serial <=> x.system = board.system
                         /\ s \in board'.shown => boards'[x.system].files = s
    BY <1>2, <1>4, <1>6, <1>8 DEF EntryOfSerial
  <2> DEFINE y == entries[bySerial[s]]
  <2>1. /\ s <= board.serial /\ y.serial = s /\ y.system \in DOMAIN boards
        /\ y.independent <=> s # board.serial
        /\ s = board.serial <=> y.system = board.system
        /\ s \in board.shown => boards[y.system].files = s
    BY <1>1 DEF MainTables, EntryOfSerial
  <2>2. s \in board'.shown => boards'[y.system].files = s  BY <1>6, <2>1, <1>4
  <2> QED  BY <1>5, <1>8, <2>1, <2>2
<1>10. OneSystemEach'  BY <1>1, <1>2, <1>5, <1>8 DEF MainTables, OneSystemEach
<1>11. CurrentFiles'  BY <1>4, <1>6 DEF CurrentFiles
<1>12. \A b : InUse(b)' <=> InUse(b)  BY <1>2, <1>4, <1>5, <1>8 DEF InUse
<1>13. SystemsLive'  BY <1>1, <1>2, <1>6, <1>12 DEF MainTables, SystemsLive
<1>14. /\ LockJob' /\ NotTaken' /\ EntriesFreedOnce' /\ TableLive' /\ IdsMatch' /\ SerialsMatch'
       /\ NewEntry' /\ OldEntry'
  BY <1>2, <1>4, <1>5, SameLocks
<1> QED  BY <1>7, <1>9, <1>10, <1>11, <1>13, <1>14 DEF LocksInv

\* The thread is stopped before the disposal.
LEMMA OfStopProtocol ==
  ASSUME LocksInv, L!StopProtocol
  PROVE  LocksInv'
<1>1. LockTypes /\ MainTables /\ LockJob  BY DEF LocksInv, MainTables
<1>2. halt = "no" /\ halt' = "stopping" /\ UNCHANGED <<board, boards, entries, byId, bySerial, job>>
  BY DEF L!StopProtocol
<1>3. LockTypes'  BY <1>1, <1>2 DEF LockTypes, L!TypeOK
<1>4. LockJob' /\ NotTaken'  BY <1>1, <1>2 DEF LockJob, NotTaken, LocksInv
<1>5. \A s \in 0..MaxLists : Held(s)' <=> Held(s)  BY <1>2 DEF Held
<1>6. EntryOfSerial' /\ OneSystemEach' /\ CurrentFiles'
  BY <1>1, <1>2, <1>5 DEF MainTables, EntryOfSerial, OneSystemEach, CurrentFiles
<1>7. \A b : InUse(b)' <=> InUse(b)  BY <1>2, <1>5 DEF InUse
<1>8. SystemsLive'  BY <1>1, <1>2, <1>7 DEF MainTables, SystemsLive
<1>9. EntriesFreedOnce' /\ TableLive'
  BY <1>2, <1>5 DEF LocksInv, EntriesFreedOnce, TableLive
<1>10. IdsMatch' /\ SerialsMatch' /\ NewEntry' /\ OldEntry'
  BY <1>2 DEF IdsMatch, SerialsMatch, NewEntry, OldEntry
<1> QED  BY <1>3, <1>4, <1>6, <1>8, <1>9, <1>10 DEF LocksInv

\* The disposal frees all entries and all WinPR clipboards.
LEMMA OfLocksDispose ==
  ASSUME LocksInv, L!Dispose
  PROVE  LocksInv'
<1> DEFINE left == {bySerial[s] : s \in DOMAIN bySerial} \ {L!None}
           mine == IF job.source = "retrieval" THEN {job.entry} ELSE {}
           all == L!Destroyed(boards, left)
<1>1. LockTypes /\ MainTables  BY DEF LocksInv, MainTables
<1>2. /\ halt = "stopping" /\ halt' = "done" /\ UNCHANGED board
      /\ entries' = [e \in DOMAIN entries |->
                       [entries[e] EXCEPT !.freed = @ + (IF e \in left THEN 1 ELSE 0)
                                                      + (IF e \in mine THEN 1 ELSE 0)]]
      /\ boards' = [all EXCEPT ![board.system].destroyed = @ + 1]
      /\ bySerial' = [s \in DOMAIN bySerial |-> L!None]
      /\ byId' = [i \in ClipId |-> L!None]
      /\ job.op = "idle" /\ job' = [L!Idle EXCEPT !.woken = job.woken]
  BY DEF L!Dispose
<1>3. DOMAIN bySerial = 0..MaxLists  BY <1>1 DEF LockTypes, L!TypeOK
<1>4. left \subseteq DOMAIN entries
      /\ \A e \in left : \E s \in 0..MaxLists : Held(s) /\ bySerial[s] = e
  BY <1>1, <1>3, LockObjects DEF Held
<1>5. \A b \in DOMAIN boards : \A e, f \in left : Owns(e, b) /\ Owns(f, b) => e = f
  BY <1>4, <1>1 DEF MainTables, OneSystemEach, Owns
<1>6. /\ all \in Seq(Board) /\ DOMAIN all = DOMAIN boards
      /\ \A b \in DOMAIN boards :
           all[b] = [boards[b] EXCEPT !.destroyed = @ + (IF \E e \in left : Owns(e, b) THEN 1 ELSE 0)]
  <2> HIDE DEF left
  <2> QED  BY <1>1, <1>4, <1>5, DestroyedWith
<1>7. board.system \in DOMAIN boards  BY <1>1, LockObjects
<1> HIDE DEF all
<1>8. \A b \in DOMAIN boards : all[b].destroyed = IF b = board.system THEN 0 ELSE 1
  <2> SUFFICES ASSUME NEW b \in DOMAIN boards
               PROVE  all[b].destroyed = IF b = board.system THEN 0 ELSE 1
    OBVIOUS
  <2> DEFINE c == boards[b]
             n == IF \E e \in left : Owns(e, b) THEN 1 ELSE 0
             m == c.destroyed + n
  <2>1. c \in Board  BY <1>1, LockObjects
  <2>2. all[b] = [c EXCEPT !.destroyed = m]  BY <1>6
  <2>3. all[b].destroyed = m
    <3> HIDE DEF c, m
    <3> QED  BY <2>1, <2>2 DEF Board
  <2>4. c.destroyed = IF InUse(b) THEN 0 ELSE 1  BY <1>1, <1>2 DEF MainTables, SystemsLive
  <2>5. (\E e \in left : Owns(e, b)) <=> InUse(b) /\ b # board.system
    <3>1. ASSUME NEW e \in left, Owns(e, b) PROVE InUse(b) /\ b # board.system
      BY <1>4, <1>1, <3>1 DEF MainTables, EntryOfSerial, Owns, InUse
    <3>2. ASSUME InUse(b), b # board.system PROVE \E e \in left : Owns(e, b)
      BY <3>2, <1>3, <1>1 DEF InUse, Held, MainTables, EntryOfSerial, Owns
    <3> QED  BY <3>1, <3>2
  <2>6. b = board.system => InUse(b)  BY DEF InUse
  <2>7. n = IF InUse(b) /\ b # board.system THEN 1 ELSE 0  BY <2>5
  <2>8. m = IF b = board.system THEN 0 ELSE 1
    <3> HIDE DEF c, n
    <3> QED  BY <2>4, <2>6, <2>7
  <2> QED  BY <2>3, <2>8
<1>9. /\ boards' \in Seq(Board) /\ DOMAIN boards' = DOMAIN boards
      /\ \A b \in DOMAIN boards : boards'[b].destroyed = 1
  <2> DEFINE x == board.system
             put == [all[x] EXCEPT !.destroyed = @ + 1]
  <2>1. all \in Seq(Board) /\ x \in 1 .. Len(all) /\ DOMAIN all = 1 .. Len(all) /\ all[x].destroyed = 0
    BY <1>6, <1>7, <1>8, LenProperties
  <2>2. put \in Board /\ put.destroyed = 1
    <3>1. all[x] \in Board  BY <2>1, ElementOfSeq
    <3>2. put = [all[x] EXCEPT !.destroyed = 1]  BY <2>1
    <3> QED  BY <3>1, <3>2 DEF Board
  <2>3. boards' = [all EXCEPT ![x] = put]  BY <1>2
  <2> HIDE DEF x, put
  <2>4. boards' \in Seq(Board) /\ DOMAIN boards' = DOMAIN all  BY <2>1, <2>2, <2>3, ExceptSeq
  <2>5. \A b \in DOMAIN boards : boards'[b].destroyed = 1
    BY <1>6, <1>8, <2>1, <2>2, <2>3 DEF x
  <2> QED  BY <1>6, <2>4, <2>5
<1>10. entries' \in Seq(Entry) /\ DOMAIN entries' = DOMAIN entries
  <2>1. ASSUME NEW e \in DOMAIN entries PROVE entries'[e] \in Entry
    <3> DEFINE r == entries[e]
               m == r.freed + (IF e \in left THEN 1 ELSE 0) + (IF e \in mine THEN 1 ELSE 0)
    <3>1. r \in Entry  BY <1>1, LockObjects
    <3>2. m \in Nat  BY <3>1 DEF Entry
    <3>3. entries'[e] = [r EXCEPT !.freed = m]  BY <1>2
    <3> HIDE DEF r, m
    <3> QED  BY <3>1, <3>2, <3>3 DEF Entry
  <2>2. DOMAIN entries' = DOMAIN entries  BY <1>2
  <2>3. entries' \in [DOMAIN entries -> Entry]  BY <1>2, <2>1
  <2> QED  BY <1>1, <2>2, <2>3, MappedSeq DEF LockTypes
<1>11. job'.op = "idle" /\ job'.source = "none" /\ ~job'.inUse /\ job'.woken = job.woken
  BY <1>2 DEF L!Idle
<1>19. EntriesFreedOnce'
  <2> SUFFICES ASSUME NEW e \in DOMAIN entries
               PROVE  entries'[e].freed <= IF e = job.woken THEN 2 ELSE 1
    BY <1>2, <1>10, <1>11 DEF EntriesFreedOnce
  <2> DEFINE x == entries[e].freed
             m == x + (IF e \in left THEN 1 ELSE 0) + (IF e \in mine THEN 1 ELSE 0)
  <2>1. entries[e] \in Entry  BY <1>1, LockObjects
  <2>2. x \in Nat /\ x <= 1  BY <1>2, <2>1 DEF LocksInv, EntriesFreedOnce, Entry
  <2>3. e \in left => x = 0 \/ e = job.woken  BY <1>2, <1>4 DEF LocksInv, TableLive
  <2>4. e \in mine => e = job.woken /\ e \notin left
    BY <1>2, <1>4 DEF LocksInv, LockJob, NotTaken
  <2>5. entries'[e].freed = m
    <3>1. entries'[e] = [entries[e] EXCEPT !.freed = m]  BY <1>2
    <3> HIDE DEF m
    <3> QED  BY <2>1, <3>1 DEF Entry
  <2> HIDE DEF x, left, mine
  <2> QED  BY <2>2, <2>3, <2>4, <2>5
<1> HIDE DEF left, mine
<1>12. LockTypes'  BY <1>2, <1>1, <1>9, <1>3, <1>11, <1>10 DEF L!Idle, LockTypes, L!TypeOK, Job
<1>13. LockJob' /\ NotTaken'  BY <1>2, <1>11 DEF LockJob, NotTaken
<1>14. \A s \in 0..MaxLists : ~Held(s)'  BY <1>2, <1>3 DEF Held
<1>15. EntryOfSerial' /\ OneSystemEach'  BY <1>14 DEF EntryOfSerial, OneSystemEach
<1>16. CurrentFiles'
  <2> DEFINE x == board.system
  <2>1. boards'[x].files = boards[x].files
    <3> DEFINE n == IF \E e \in left : Owns(e, x) THEN 1 ELSE 0
               c == boards[x]
               k == c.destroyed + n
               j == all[x].destroyed + 1
    <3>1. c \in Board  BY <1>1, LockObjects
    <3>2. all[x] = [c EXCEPT !.destroyed = k]  BY <1>6, <1>7
    <3>3. boards'[x] = [all[x] EXCEPT !.destroyed = j]  BY <1>2, <1>6, <1>7
    <3>4. all[x] \in Board  BY <1>6, <1>7, ElementOfSeq, LenProperties
    <3> HIDE DEF k, j, x
    <3>5. boards'[x].files = all[x].files  BY <3>3, <3>4 DEF Board
    <3> HIDE DEF c
    <3>6. all[x].files = c.files  BY <3>1, <3>2 DEF Board
    <3> QED  BY <3>5, <3>6 DEF c
  <2> QED  BY <1>1, <1>2, <2>1 DEF MainTables, CurrentFiles
<1>17. SystemsLive'  BY <1>2, <1>9 DEF SystemsLive
<1>18. TableLive' /\ IdsMatch' /\ SerialsMatch' /\ NewEntry' /\ OldEntry'
  BY <1>2 DEF TableLive, IdsMatch, SerialsMatch, NewEntry, OldEntry
<1> QED  BY <1>12, <1>13, <1>15, <1>16, <1>17, <1>18, <1>19 DEF LocksInv

\* The steps of the locks.
LEMMA LocksStep ==
  ASSUME Careful, LocksInv, L!Next
  PROVE  LocksInv'
<1>1. CASE \E i \in ClipId : L!Lock(i)  BY <1>1, OfLock
<1>2. CASE \E i \in ClipId : L!Unlock(i)  BY <1>2, OfUnlock
<1>3. CASE L!LockDone  BY <1>3, OfLockDone
<1>4. CASE L!UnlockDone  BY <1>4, OfUnlockDone
<1>5. CASE L!RetrieveCurrentClipboard  BY <1>5, OfRetrieveCurrentClipboard
<1>6. CASE L!HandleClipDataEntryDestruction  BY <1>6, OfHandleClipDataEntryDestruction
<1>7. CASE L!SendMimeTypeList  BY <1>7, OfSendMimeTypeList
<1>8. CASE L!AllowRequests  BY <1>8, OfAllowRequests
<1>9. CASE L!SubmitFileList  BY <1>9, OfSubmitFileList
<1>10. CASE L!StopProtocol  BY <1>10, OfStopProtocol
<1>11. CASE L!Dispose  BY <1>11, OfLocksDispose
<1> QED
  BY <1>1, <1>2, <1>3, <1>4, <1>5, <1>6, <1>7, <1>8, <1>9, <1>10, <1>11
     DEF L!Next, L!Thread, L!Main

\* The other parts of the clipboard do not disturb the locks.
LEMMA LocksStutter ==
  ASSUME LocksInv, UNCHANGED lockVars
  PROVE  LocksInv'
<1> USE DEF lockVars
<1>1. LockTypes' /\ LockJob' /\ NotTaken'
  BY DEF LocksInv, LockTypes, L!TypeOK, LockJob, NotTaken
<1>2. EntryOfSerial' /\ OneSystemEach' /\ CurrentFiles' /\ SystemsLive'
  BY DEF LocksInv, EntryOfSerial, OneSystemEach, CurrentFiles, SystemsLive, InUse, Held
<1>3. EntriesFreedOnce' /\ TableLive' /\ IdsMatch' /\ SerialsMatch' /\ NewEntry' /\ OldEntry'
  BY DEF LocksInv, EntriesFreedOnce, TableLive, IdsMatch, SerialsMatch, NewEntry, OldEntry, Handled, Held
<1> QED  BY <1>1, <1>2, <1>3 DEF LocksInv

\* What the invariant of the locks says is enough.
LEMMA LocksResults ==
  ASSUME LocksInv
  PROVE  /\ L!TypeOK /\ L!LockTablesAgree /\ L!FreedOnce /\ L!SearchReadsLive /\ L!LockKeepsFiles
<1>1. LockTypes /\ IdsMatch /\ SerialsMatch /\ EntryOfSerial /\ TableLive /\ SystemsLive /\ NewEntry
  BY DEF LocksInv
<1>2. ASSUME halt = "no", job.op = "idle" PROVE Handled = {}  BY <1>2 DEF Handled
<1>3. ASSUME halt = "no", NEW i \in ClipId \ Handled, byId[i] # L!None
      PROVE  /\ byId[i] \in DOMAIN entries /\ entries[byId[i]].freed = 0 /\ entries[byId[i]].id = i
             /\ bySerial[entries[byId[i]].serial] = byId[i]
             /\ entries[byId[i]].serial \in 0..MaxLists /\ Held(entries[byId[i]].serial)
  BY <1>1, <1>3, LockObjects DEF IdsMatch, Entry, Held, TableLive
<1>4. L!LockTablesAgree  BY <1>2, <1>3, <1>1 DEF L!LockTablesAgree, L!Live, SerialsMatch, Held
<1>5. L!FreedOnce
  <2>1. \A e \in DOMAIN entries : entries[e].freed <= IF e = job.woken THEN 2 ELSE 1
    <3>1. \A e \in DOMAIN entries : entries[e].freed \in Nat  BY <1>1, LockObjects DEF Entry
    <3> QED  BY <3>1 DEF LocksInv, EntriesFreedOnce
  <2> QED  BY <1>1, <2>1 DEF SystemsLive, L!FreedOnce
<1>6. L!SearchReadsLive
  BY <1>1, <1>3 DEF L!SearchReadsLive, L!ReadBySearch, Handled, NewEntry, L!Live
<1>7. L!LockKeepsFiles
  <2> SUFFICES ASSUME NEW i \in ClipId, L!Granted(i)
               PROVE  LET e == entries[byId[i]]
                      IN  /\ boards[e.system].destroyed = 0
                          /\ e.serial \in board.shown => boards[e.system].files = e.serial
    BY DEF L!LockKeepsFiles
  <2>1. halt = "no" /\ job.op = "idle" /\ byId[i] # L!None  BY DEF L!Granted
  <2>2. Handled = {}  BY <1>2, <2>1
  <2> DEFINE s == entries[byId[i]].serial
  <2>3. s \in 0..MaxLists /\ Held(s) /\ bySerial[s] = byId[i]  BY <1>3, <2>1, <2>2
  <2>4. /\ entries[byId[i]].system \in DOMAIN boards
        /\ s \in board.shown => boards[entries[byId[i]].system].files = s
    BY <1>1, <2>3 DEF EntryOfSerial
  <2>5. InUse(entries[byId[i]].system)  BY <2>3 DEF InUse
  <2>6. boards[entries[byId[i]].system].destroyed = 0
    BY <1>1, <2>1, <2>4, <2>5 DEF SystemsLive
  <2> QED  BY <2>4, <2>6
<1>8. L!TypeOK  BY <1>1 DEF LockTypes
<1> QED  BY <1>4, <1>5, <1>6, <1>7, <1>8

(* The files of the client. *)

\* The files, operations and things to do, and the entries.
LEMMA FuseObjects ==
  ASSUME FuseTypes
  PROVE  /\ Len(inodes) \in Nat /\ DOMAIN inodes = 1 .. Len(inodes)
         /\ Len(ops) \in Nat /\ DOMAIN ops = 1 .. Len(ops)
         /\ Len(work) \in Nat /\ DOMAIN work = 1 .. Len(work)
         /\ \A f \in DOMAIN inodes : inodes[f] \in File
         /\ \A n \in DOMAIN ops : ops[n] \in KernelOp /\ ops[n].ino \in DOMAIN inodes
         /\ \A k \in DOMAIN work : work[k] \in Todo /\ work[k].id \in Slot
         /\ DOMAIN slots = Slot
         /\ \A i \in Slot : slots[i] \in [used : BOOLEAN, dir : BOOLEAN, requested : BOOLEAN,
                                          timer : {"none", "new", "old"}]
BY LenProperties, ElementOfSeq DEF FuseTypes, Todo, D!TypeOK, Slot

\* The selection without an id is not one with an id.
LEMMA NoCdiIsNoId == D!NoCdi \notin D!Id /\ D!NoCdi = 0 /\ D!Id \subseteq Nat \ {0} /\ D!Id \subseteq Slot
BY DEF D!NoCdi, D!Id, Slot

\* There are no files in the beginning.
LEMMA FuseInit == D!Init => FilesInv
<1> SUFFICES ASSUME D!Init PROVE FilesInv
  OBVIOUS
<1> USE DEF D!Init
<1>1. D!Unused \in [used : BOOLEAN, dir : BOOLEAN, requested : BOOLEAN, timer : {"none", "new", "old"}]
      /\ ~D!Unused.used /\ D!Unused.timer = "none"
  BY DEF D!Unused
<1>2. D!TypeOK  BY <1>1 DEF D!TypeOK
<1>3. inodes \in Seq(File) /\ ops \in Seq(KernelOp) /\ work \in Seq(Todo)
  OBVIOUS
<1>4. DOMAIN inodes = {} /\ DOMAIN ops = {} /\ DOMAIN work = {}
  OBVIOUS
<1>5. FuseTypes  BY <1>1, <1>2, <1>3 DEF FuseTypes
<1>6. FilesHaveEntries /\ RequestsOpen /\ RemovedCleared /\ SetUsed /\ LazilyFirst /\ ExitCleared
  BY <1>4 DEF FilesHaveEntries, RequestsOpen, RemovedCleared, SetUsed, LazilyFirst, ExitCleared
<1>7. LockedAreUsed  BY <1>1, NoCdiIsNoId DEF LockedAreUsed
<1>8. EndedEmpty  BY DEF EndedEmpty
<1> QED  BY <1>5, <1>6, <1>7, <1>8 DEF FilesInv

\* What the files, the entries and the work of the main thread say of each other.
FilesAndWork ==
  /\ FilesHaveEntries /\ LockedAreUsed
  /\ RemovedCleared /\ SetUsed /\ LazilyFirst /\ ExitCleared /\ EndedEmpty

SameFiles ==
  /\ DOMAIN inodes' = DOMAIN inodes
  /\ \A f \in DOMAIN inodes : inodes'[f].id = inodes[f].id /\ inodes'[f].there = inodes[f].there
SameEntries ==
  /\ DOMAIN slots' = DOMAIN slots
  /\ \A i \in Slot : slots'[i].used = slots[i].used /\ slots'[i].dir = slots[i].dir

\* What is said of files and of things to do, when files and entries stay.
LEMMA FilesAndWorkKept ==
  ASSUME FuseTypes, FilesAndWork, SameFiles, SameEntries, UNCHANGED <<remote, work, ended>>
  PROVE  FilesAndWork'
<1> USE DEF SameFiles, SameEntries
<1>1. /\ \A f \in DOMAIN inodes : inodes[f].id \in Slot
      /\ \A k \in DOMAIN work : work[k].id \in Slot
  BY FuseObjects DEF File
<1>2. FilesHaveEntries'  BY <1>1 DEF FilesAndWork, FilesHaveEntries
<1>3. LockedAreUsed'  BY NoCdiIsNoId DEF FilesAndWork, LockedAreUsed
<1>4. \A i : NoFilesIn(inodes, i) => NoFilesIn(inodes', i)  BY DEF NoFilesIn
<1>5. NoFiles => NoFiles'  BY DEF NoFiles
<1>6. RemovedCleared'  BY <1>4 DEF FilesAndWork, RemovedCleared
<1>7. SetUsed'  BY <1>1 DEF FilesAndWork, SetUsed
<1>8. LazilyFirst' /\ ExitCleared' /\ EndedEmpty'
  BY <1>5 DEF FilesAndWork, LazilyFirst, ExitCleared, EndedEmpty
<1> QED  BY <1>2, <1>3, <1>6, <1>7, <1>8 DEF FilesAndWork

\* Some operations are replied that were not replied before.
LEMMA RepliedOps ==
  ASSUME FuseTypes, NEW S
  PROVE  /\ D!Reply(ops, S) \in Seq(KernelOp) /\ DOMAIN D!Reply(ops, S) = DOMAIN ops
         /\ \A n \in DOMAIN ops :
              /\ D!Reply(ops, S)[n].ino = ops[n].ino /\ D!Reply(ops, S)[n].kind = ops[n].kind
              /\ D!Reply(ops, S)[n].replies = ops[n].replies + (IF n \in S THEN 1 ELSE 0)
<1> DEFINE R == D!Reply(ops, S)
<1>1. DOMAIN R = DOMAIN ops  BY DEF D!Reply
<1>2. ASSUME NEW n \in DOMAIN ops
      PROVE  /\ R[n] \in KernelOp /\ R[n].ino = ops[n].ino /\ R[n].kind = ops[n].kind
             /\ R[n].replies = ops[n].replies + (IF n \in S THEN 1 ELSE 0)
  <2> DEFINE o == ops[n]
             m == o.replies + 1
  <2>1. o \in KernelOp  BY FuseObjects
  <2>2. m \in Nat /\ o.replies + 0 = o.replies  BY <2>1 DEF KernelOp
  <2>3. CASE n \in S
    <3>1. R[n] = [o EXCEPT !.replies = m]  BY <2>3 DEF D!Reply
    <3>2. m = o.replies + (IF n \in S THEN 1 ELSE 0)  BY <2>3
    <3> HIDE DEF o, m, R
    <3>3. /\ R[n] \in KernelOp /\ R[n].ino = o.ino /\ R[n].kind = o.kind /\ R[n].replies = m
      BY <2>1, <2>2, <3>1 DEF KernelOp
    <3> QED  BY <3>2, <3>3 DEF o
  <2>4. CASE n \notin S
    <3>1. R[n] = o  BY <2>4 DEF D!Reply
    <3> QED  BY <2>1, <2>2, <2>4, <3>1
  <2> QED  BY <2>3, <2>4
<1>3. R \in [DOMAIN ops -> KernelOp]  BY <1>2 DEF D!Reply
<1>4. R \in Seq(KernelOp)  BY <1>3, MappedSeq DEF FuseTypes
<1> QED  BY <1>1, <1>2, <1>4

\* Operations that were not replied yet are, and their requests leave the table.
LEMMA RepliesKept ==
  ASSUME FuseTypes, RequestsOpen, NEW S, ops' = D!Reply(ops, S),
         \A n \in S \cap DOMAIN ops : ops[n].replies = 0,
         asks' \subseteq asks, \A a \in asks' : a.op \notin S /\ inodes'[ops[a.op].ino].there
  PROVE  RequestsOpen' /\ ops' \in Seq(KernelOp) /\ DOMAIN ops' = DOMAIN ops
         /\ \A n \in DOMAIN ops : ops'[n].ino = ops[n].ino
<1>1. /\ ops' \in Seq(KernelOp) /\ DOMAIN ops' = DOMAIN ops
      /\ \A n \in DOMAIN ops : /\ ops'[n].ino = ops[n].ino
                               /\ ops'[n].replies = ops[n].replies + (IF n \in S THEN 1 ELSE 0)
  BY RepliedOps
<1>2. \A a \in asks : a.op \in DOMAIN ops  BY DEF FuseTypes, D!TypeOK
<1>3. \A n \in DOMAIN ops : ops[n].replies \in Nat  BY FuseObjects DEF KernelOp
<1>4. ASSUME NEW n \in DOMAIN ops PROVE ops'[n].replies <= 1
  <2>1. ops[n].replies <= 1  BY DEF RequestsOpen
  <2>2. CASE n \in S
    <3>1. ops'[n].replies = 0 + 1  BY <1>1, <2>2
    <3> QED  BY <3>1
  <2>3. CASE n \notin S  BY <1>1, <2>3, <1>3, <2>1
  <2> QED  BY <2>2, <2>3
<1>5. ASSUME NEW a \in asks'
      PROVE  a.stream = a.op /\ ops'[a.op].replies = 0 /\ inodes'[ops'[a.op].ino].there
  BY <1>2, <1>1 DEF RequestsOpen
<1>6. RequestsOpen'  BY <1>1, <1>4, <1>5 DEF RequestsOpen
<1> QED  BY <1>1, <1>6

\* The requests for some files leave the table and are replied.
LEMMA ClearedRequests ==
  ASSUME FuseTypes, RequestsOpen, NEW S, D!ClearRequests(S),
         DOMAIN inodes' = DOMAIN inodes,
         \A f \in DOMAIN inodes \ S : inodes'[f].there = inodes[f].there
  PROVE  /\ RequestsOpen' /\ ops' \in Seq(KernelOp) /\ DOMAIN ops' = DOMAIN ops
         /\ \A n \in DOMAIN ops : ops'[n].ino = ops[n].ino
         /\ asks' \subseteq asks
         /\ \A a \in asks' : ops[a.op].ino \notin S
<1> DEFINE cleared == {a \in asks : ops[a.op].ino \in S}
           R == {a.op : a \in cleared}
<1>1. asks' = asks \ cleared /\ ops' = D!Reply(ops, R)  BY DEF D!ClearRequests
<1>2. \A n \in R : ops[n].replies = 0  BY DEF RequestsOpen
<1>3. \A a \in asks' : a \in asks /\ ops[a.op].ino \notin S  BY <1>1
<1>4. \A a \in asks' : a.op \notin R  BY <1>3
<1>5. \A a \in asks : a.op \in DOMAIN ops /\ ops[a.op].ino \in DOMAIN inodes
  BY FuseObjects DEF FuseTypes, D!TypeOK
<1>6. \A a \in asks' : inodes'[ops[a.op].ino].there  BY <1>3, <1>5 DEF RequestsOpen
<1>7. asks' \subseteq asks  BY <1>1
<1> HIDE DEF R
<1> QED  BY <1>1, <1>2, <1>3, <1>4, <1>6, <1>7, RepliesKept

\* The entry of an id.
SlotEntry == [used : BOOLEAN, dir : BOOLEAN, requested : BOOLEAN, timer : {"none", "new", "old"}]

\* The types of the files of the client, in parts.
LEMMA FuseParts ==
  ASSUME FuseTypes
  PROVE  /\ slots \in [Slot -> SlotEntry] /\ slots[D!NoCdi].timer = "none"
         /\ inodes \in Seq(File) /\ ops \in Seq(KernelOp) /\ work \in Seq(Todo)
         /\ \A n \in DOMAIN ops : ops[n].ino \in DOMAIN inodes
         /\ asks \subseteq [op : DOMAIN ops, stream : DOMAIN ops]
         /\ remote \in [locked : SUBSET D!Id, times : Nat]
         /\ resets \subseteq D!Id /\ ended \in {"no", "exiting", "done"}
BY DEF FuseTypes, D!TypeOK, SlotEntry, Slot

\* The types follow from those of the parts.
LEMMA FuseTypesFrom ==
  ASSUME slots' \in [Slot -> SlotEntry], slots'[D!NoCdi].timer = "none",
         inodes' \in Seq(File), ops' \in Seq(KernelOp), work' \in Seq(Todo),
         \A n \in DOMAIN ops' : ops'[n].ino \in DOMAIN inodes',
         asks' \subseteq [op : DOMAIN ops', stream : DOMAIN ops'],
         remote' \in [locked : SUBSET D!Id, times : Nat],
         resets' \subseteq D!Id, ended' \in {"no", "exiting", "done"}
  PROVE  FuseTypes'
<1>1. D!TypeOK'  BY DEF D!TypeOK, SlotEntry, Slot
<1> QED  BY <1>1 DEF FuseTypes

\* What the file system does with a slot or its timer alone.
LEMMA OfFuseOperation ==
  ASSUME FilesInv, NEW n \in DOMAIN ops, D!FuseOperation(n)
  PROVE  FilesInv'
<1> DEFINE file == inodes[ops[n].ino]
<1> USE FuseParts, FuseObjects DEF FilesInv
<1>1. /\ UNCHANGED <<inodes, remote, work, ended>> /\ ops[n].replies = 0
      /\ n \in DOMAIN ops /\ file \in File /\ file.id \in Slot
  BY DEF D!FuseOperation, File
<1>2. FilesAndWork  BY DEF FilesAndWork
<1>3. SameFiles  BY <1>1 DEF SameFiles
<1>4. CASE /\ ops' = D!Reply(ops, {n}) /\ UNCHANGED <<slots, asks, wire, resets>>
           /\ \A a \in asks : a.op # n
  <2>1. SameEntries  BY <1>4 DEF SameEntries
  <2>2. FilesAndWork'  BY <1>1, <1>2, <1>3, <2>1, FilesAndWorkKept
  <2>3. /\ \A m \in {n} \cap DOMAIN ops : ops[m].replies = 0
        /\ asks' \subseteq asks
        /\ \A a \in asks' : a.op \notin {n} /\ inodes'[ops[a.op].ino].there
    BY <1>1, <1>4 DEF RequestsOpen
  <2>4. RequestsOpen' /\ ops' \in Seq(KernelOp) /\ DOMAIN ops' = DOMAIN ops
        /\ \A m \in DOMAIN ops : ops'[m].ino = ops[m].ino
    BY <1>4, <2>3, RepliesKept
  <2>5. FuseTypes'  BY <1>1, <1>4, <2>4, FuseTypesFrom
  <2> QED  BY <2>2, <2>4, <2>5 DEF FilesAndWork
<1>5. CASE /\ file.there
           /\ asks' = asks \cup {[op |-> n, stream |-> n]}
           /\ slots' = [slots EXCEPT ![file.id].requested = TRUE]
           /\ D!QueueReset(file.id) /\ UNCHANGED ops
  <2>1. /\ slots' \in [Slot -> SlotEntry] /\ slots'[D!NoCdi].timer = "none"
        /\ \A i \in Slot : slots'[i].used = slots[i].used /\ slots'[i].dir = slots[i].dir
    <3> DEFINE i == file.id
               r == [slots[i] EXCEPT !.requested = TRUE]
    <3>1. slots' = [slots EXCEPT ![i] = r]  BY <1>5
    <3>2. r \in SlotEntry /\ r.used = slots[i].used /\ r.dir = slots[i].dir
          /\ r.timer = slots[i].timer
      BY <1>1 DEF SlotEntry
    <3>3. i \in Slot  BY <1>1
    <3> HIDE DEF i, r
    <3> QED  BY <3>1, <3>2, <3>3 DEF Slot
  <2>2. SameEntries  BY <2>1 DEF SameEntries
  <2>3. FilesAndWork'  BY <1>1, <1>2, <1>3, <2>2, FilesAndWorkKept
  <2>4. resets' \subseteq D!Id
    <3>1. CASE slots[file.id].timer = "old"  BY <3>1, <1>1, <1>5 DEF D!QueueReset, Slot
    <3> QED  BY <1>5, <3>1 DEF D!QueueReset
  <2>5. asks' \subseteq [op : DOMAIN ops', stream : DOMAIN ops']  BY <1>5
  <2>6. FuseTypes'  BY <1>1, <1>5, <2>1, <2>4, <2>5, FuseTypesFrom
  <2>7. RequestsOpen'  BY <1>1, <1>5 DEF RequestsOpen
  <2> QED  BY <2>3, <2>6, <2>7 DEF FilesAndWork
<1> QED  BY <1>4, <1>5 DEF D!FuseOperation

\* A response of the client serves its request, or finds none.
LEMMA OfSubmitFileContentsResponse ==
  ASSUME FilesInv, NEW s \in wire, D!SubmitFileContentsResponse(s)
  PROVE  FilesInv'
<1> DEFINE asked == {a \in asks : a.stream = s}
           R == {a.op : a \in asked}
<1> USE FuseParts, FuseObjects DEF FilesInv
<1>1. UNCHANGED <<slots, remote, work, ended>> /\ asks' = asks \ asked
  BY DEF D!SubmitFileContentsResponse
<1>2. FilesAndWork  BY DEF FilesAndWork
<1>3. SameEntries  BY <1>1 DEF SameEntries
<1>4. \A a \in asks : a.stream = a.op /\ a.op \in DOMAIN ops  BY DEF RequestsOpen
<1>5. CASE /\ asked # {} /\ ops' = D!Reply(ops, R)
           /\ \/ inodes' = inodes /\ resets' = resets
              \/ LET o == ops[s]
                 IN  /\ inodes' = IF o.kind = "read" THEN inodes
                                  ELSE [inodes EXCEPT ![o.ino].size = TRUE]
                     /\ D!QueueReset(inodes[o.ino].id)
  <2>1. s \in DOMAIN ops /\ ops[s].ino \in DOMAIN inodes  BY <1>4, <1>5
  <2>2. /\ inodes' \in Seq(File) /\ DOMAIN inodes' = DOMAIN inodes
        /\ \A f \in DOMAIN inodes : inodes'[f].id = inodes[f].id /\ inodes'[f].there = inodes[f].there
    <3> DEFINE f == ops[s].ino
               r == [inodes[f] EXCEPT !.size = TRUE]
    <3>1. inodes' = inodes \/ inodes' = [inodes EXCEPT ![f] = r]  BY <1>5
    <3>2. r \in File /\ r.id = inodes[f].id /\ r.there = inodes[f].there  BY <2>1 DEF File
    <3>3. f \in 1 .. Len(inodes) /\ inodes \in Seq(File)  BY <2>1
    <3> HIDE DEF f, r
    <3>4. CASE inodes' = [inodes EXCEPT ![f] = r]  BY <3>2, <3>3, <3>4, ExceptSeq
    <3> QED  BY <3>1, <3>4
  <2>3. SameFiles  BY <2>2 DEF SameFiles
  <2>4. FilesAndWork'  BY <1>1, <1>2, <1>3, <2>3, FilesAndWorkKept
  <2>5. /\ \A m \in R \cap DOMAIN ops : ops[m].replies = 0
        /\ asks' \subseteq asks
        /\ \A a \in asks' : a.op \notin R
    BY <1>1, <1>4 DEF RequestsOpen
  <2>6. \A a \in asks' : inodes'[ops[a.op].ino].there
    BY <1>4, <2>2, <2>5 DEF RequestsOpen
  <2> HIDE DEF R
  <2>7. RequestsOpen' /\ ops' \in Seq(KernelOp) /\ DOMAIN ops' = DOMAIN ops
        /\ \A m \in DOMAIN ops : ops'[m].ino = ops[m].ino
    BY <1>5, <2>5, <2>6, RepliesKept
  <2>8. resets' \subseteq D!Id
    <3> DEFINE i == inodes[ops[s].ino].id
    <3>1. i \in Slot  BY <2>1 DEF File
    <3>2. resets' = resets \/ D!QueueReset(i)  BY <1>5
    <3> HIDE DEF i
    <3>3. slots[i].timer = "old" => i \in D!Id  BY <3>1 DEF Slot
    <3> QED  BY <3>2, <3>3 DEF D!QueueReset
  <2>9. FuseTypes'  BY <1>1, <2>2, <2>5, <2>7, <2>8, FuseTypesFrom
  <2> QED  BY <2>4, <2>7, <2>9 DEF FilesAndWork
<1>6. CASE asked = {} /\ UNCHANGED <<ops, inodes, resets>>
  BY <1>1, <1>6, <1>2, <1>3, FilesAndWorkKept, FuseTypesFrom DEF SameFiles, RequestsOpen,
     FilesAndWork
<1> QED  BY <1>5, <1>6 DEF D!SubmitFileContentsResponse

\* The timers of the entries change alone.
LEMMA TimersOnly ==
  ASSUME FuseTypes, FilesAndWork, RequestsOpen,
         slots' \in [Slot -> SlotEntry], slots'[D!NoCdi].timer = "none",
         \A i \in Slot : slots'[i].used = slots[i].used /\ slots'[i].dir = slots[i].dir,
         resets' \subseteq resets,
         UNCHANGED <<locking, inodes, ops, asks, wire, remote, work, ended>>
  PROVE  FilesInv'
<1> USE FuseParts, FuseObjects
<1>1. SameFiles /\ SameEntries  BY DEF SameFiles, SameEntries
<1>2. FilesAndWork'  BY <1>1, FilesAndWorkKept
<1>3. FuseTypes'  BY FuseTypesFrom
<1>4. RequestsOpen'  BY DEF RequestsOpen
<1> QED  BY <1>2, <1>3, <1>4 DEF FilesInv, FilesAndWork

\* The timers of entries that are read from start again.
LEMMA OfResetTimeouts == ASSUME FilesInv, D!ResetTimeouts PROVE FilesInv'
<1> USE FuseParts, FuseObjects DEF FilesInv
<1>1. /\ UNCHANGED <<locking, inodes, ops, asks, wire, remote, work, ended>> /\ resets' = {}
      /\ slots' = [i \in DOMAIN slots |-> IF i \in resets /\ slots[i].timer # "none"
                                          THEN [slots[i] EXCEPT !.timer = "new"] ELSE slots[i]]
  BY DEF D!ResetTimeouts
<1>2. slots' \in [Slot -> SlotEntry]
      /\ \A i \in Slot : slots'[i].used = slots[i].used /\ slots'[i].dir = slots[i].dir
  BY <1>1 DEF SlotEntry
<1>3. slots'[D!NoCdi].timer = "none"  BY <1>1 DEF Slot
<1> QED  BY <1>1, <1>2, <1>3, TimersOnly DEF FilesAndWork

\* Timers get old.
LEMMA OfTimePasses == ASSUME FilesInv, D!TimePasses PROVE FilesInv'
<1> USE FuseParts, FuseObjects DEF FilesInv
<1>1. /\ UNCHANGED <<locking, inodes, ops, asks, wire, remote, resets, work, ended>>
      /\ slots' = [i \in DOMAIN slots |-> IF slots[i].timer = "new"
                                          THEN [slots[i] EXCEPT !.timer = "old"] ELSE slots[i]]
  BY DEF D!TimePasses
<1>2. slots' \in [Slot -> SlotEntry]
      /\ \A i \in Slot : slots'[i].used = slots[i].used /\ slots'[i].dir = slots[i].dir
  BY <1>1 DEF SlotEntry
<1>3. slots'[D!NoCdi].timer = "none"  BY <1>1 DEF Slot
<1> QED  BY <1>1, <1>2, <1>3, TimersOnly DEF FilesAndWork

\* An application starts an operation.
LEMMA OfOperation == ASSUME FilesInv, D!Operation PROVE FilesInv'
<1> USE FuseParts, FuseObjects DEF FilesInv
<1>1. UNCHANGED <<locking, slots, inodes, asks, wire, remote, resets, work, ended>>
  BY DEF D!Operation
<1>2. PICK f \in DOMAIN inodes, kind \in {"getattr", "read"} :
        ops' = Append(ops, [kind |-> kind, ino |-> f, replies |-> 0])
  BY DEF D!Operation
<1> DEFINE o == [kind |-> kind, ino |-> f, replies |-> 0]
<1>3. o \in KernelOp /\ o.ino = f /\ o.replies = 0  BY DEF KernelOp
<1>4. ops' = Append(ops, o)  BY <1>2
<1> HIDE DEF o
<1>5. /\ ops' \in Seq(KernelOp) /\ Len(ops') = Len(ops) + 1
      /\ \A n \in 1 .. Len(ops) : ops'[n] = ops[n]
      /\ ops'[Len(ops) + 1] = o
  BY <1>3, <1>4, AppendProperties
<1>6. DOMAIN ops' = 1 .. Len(ops) + 1  BY <1>5, LenProperties
<1>7. \A n \in DOMAIN ops' : n \in DOMAIN ops \/ n = Len(ops) + 1  BY <1>6
<1>8. DOMAIN ops \subseteq DOMAIN ops'  BY <1>6
<1>9. FuseTypes'  BY <1>1, <1>3, <1>5, <1>7, <1>8, FuseTypesFrom
<1>10. SameFiles /\ SameEntries  BY <1>1 DEF SameFiles, SameEntries
<1>11. FilesAndWork'  BY <1>1, <1>10, FilesAndWorkKept DEF FilesAndWork
<1>12. RequestsOpen'
  <2>1. \A n \in DOMAIN ops' : ops'[n].replies <= 1  BY <1>3, <1>5, <1>7 DEF RequestsOpen
  <2>2. \A a \in asks : a.op \in DOMAIN ops /\ ops'[a.op] = ops[a.op]  BY <1>5
  <2> QED  BY <1>1, <2>1, <2>2 DEF RequestsOpen
<1> QED  BY <1>9, <1>11, <1>12 DEF FilesAndWork

\* The main thread starts a function.
LEMMA Starting ==
  ASSUME FilesInv, ended = "no", UNCHANGED <<inodes, ops, asks, remote, resets, ended>>,
         slots' \in [Slot -> SlotEntry], slots'[D!NoCdi].timer = "none",
         \A i \in Slot : (slots[i].used => slots'[i].used) /\ slots'[i].dir = slots[i].dir,
         \A i \in D!Id : slots'[i].used = slots[i].used,
         work' \in Seq(Todo), RemovedCleared', SetUsed', LazilyFirst', ExitCleared'
  PROVE  FilesInv'
<1> USE FuseParts, FuseObjects DEF FilesInv
<1>1. FuseTypes'  BY FuseTypesFrom
<1>2. FilesHaveEntries'  BY DEF FilesHaveEntries, File
<1>3. LockedAreUsed'  BY DEF LockedAreUsed
<1>4. RequestsOpen'  BY DEF RequestsOpen
<1>5. EndedEmpty'  BY DEF EndedEmpty
<1> QED  BY <1>1, <1>2, <1>3, <1>4, <1>5

\* Dropping an entry is to clear its selection and to remove it then.
LEMMA DropItems ==
  ASSUME NEW i \in D!Id
  PROVE  /\ D!Drop(i) \in Seq(Todo) /\ Len(D!Drop(i)) = 2
         /\ D!Drop(i)[1] = D!Item("clear", i) /\ D!Drop(i)[2] = D!Item("remove", i)
BY NoCdiIsNoId DEF D!Item, Todo, D!Drop

\* An entry is dropped while nothing else is to do.
LEMMA StartingDrop ==
  ASSUME FilesInv, ended = "no", UNCHANGED <<inodes, ops, asks, remote, resets, ended>>,
         slots' \in [Slot -> SlotEntry], slots'[D!NoCdi].timer = "none",
         \A j \in Slot : slots'[j].used = slots[j].used /\ slots'[j].dir = slots[j].dir,
         NEW i \in D!Id, work' = D!Drop(i)
  PROVE  FilesInv'
<1>1. /\ work' \in Seq(Todo) /\ Len(work') = 2 /\ DOMAIN work' = 1 .. 2
      /\ work'[1] = D!Item("clear", i) /\ work'[2] = D!Item("remove", i)
  BY DropItems, LenProperties
<1>2. /\ \A k \in DOMAIN work' : k = 1 \/ k = 2
      /\ work'[1].do = "clear" /\ work'[1].id = i /\ work'[2].do = "remove" /\ work'[2].id = i
  BY <1>1 DEF D!Item
<1>3. RemovedCleared'  BY <1>1, <1>2 DEF RemovedCleared
<1>4. SetUsed' /\ LazilyFirst' /\ ExitCleared'
  BY <1>2 DEF SetUsed, LazilyFirst, ExitCleared
<1>5. D!Id \subseteq Slot  BY NoCdiIsNoId
<1> QED  BY <1>1, <1>3, <1>4, <1>5, Starting

\* A new id is locked at the client, for a request.
LEMMA OfClipDataIdNew == ASSUME FilesInv, D!ClipDataIdNew PROVE FilesInv'
<1> USE FuseParts, FuseObjects DEF FilesInv
<1>1. PICK i \in D!Id :
        /\ ~slots[i].used /\ i = remote.times + 1
        /\ slots' = [slots EXCEPT ![i] = D!NewEntry]
        /\ remote' = [locked |-> remote.locked \cup {i}, times |-> i]
  BY DEF D!ClipDataIdNew
<1>2. UNCHANGED <<inodes, ops, asks, resets, work, ended>> /\ work = <<>> /\ ended = "no"
  BY DEF D!ClipDataIdNew, D!Free
<1>3. i \in Slot /\ i # D!NoCdi /\ i \in Nat  BY NoCdiIsNoId
<1>4. D!NewEntry \in SlotEntry /\ D!NewEntry.used /\ ~D!NewEntry.dir
  BY DEF D!NewEntry, D!Unused, SlotEntry
<1>5. /\ slots' \in [Slot -> SlotEntry] /\ slots'[D!NoCdi] = slots[D!NoCdi]
      /\ \A j \in Slot : slots'[j] = IF j = i THEN D!NewEntry ELSE slots[j]
  BY <1>1, <1>3, <1>4 DEF Slot
<1>6. remote' \in [locked : SUBSET D!Id, times : Nat]  BY <1>1, <1>3
<1>7. FuseTypes'  BY <1>2, <1>5, <1>6, FuseTypesFrom
<1>8. NoFilesIn(inodes, i)  BY <1>1 DEF NoFilesIn, FilesHaveEntries
<1>9. FilesHaveEntries'  BY <1>2, <1>5, <1>8 DEF FilesHaveEntries, NoFilesIn, File
<1>10. LockedAreUsed'  BY <1>1, <1>4, <1>5, NoCdiIsNoId DEF LockedAreUsed
<1>11. RequestsOpen'  BY <1>2 DEF RequestsOpen
<1>12. DOMAIN work' = {}  BY <1>2
<1>13. RemovedCleared' /\ SetUsed' /\ LazilyFirst' /\ ExitCleared' /\ EndedEmpty'
  BY <1>2, <1>12 DEF RemovedCleared, SetUsed, LazilyFirst, ExitCleared, EndedEmpty
<1> QED  BY <1>7, <1>9, <1>10, <1>11, <1>13

\* The request that an id was for is aborted.
LEMMA OfClipDataIdFree ==
  ASSUME FilesInv, NEW i \in D!Id, D!ClipDataIdFree(i) PROVE FilesInv'
BY FuseParts, StartingDrop DEF D!ClipDataIdFree, D!Free, D!Start, FilesInv

\* The timer of an entry ran out.
LEMMA OfDropClipDataEntry ==
  ASSUME FilesInv, NEW i \in D!Id, D!DropClipDataEntry(i) PROVE FilesInv'
<1> DEFINE r == [slots[i] EXCEPT !.timer = "none"]
<1> USE FuseParts, FuseObjects DEF FilesInv
<1>1. /\ UNCHANGED <<inodes, ops, asks, remote, resets, ended>> /\ ended = "no"
      /\ work' = D!Drop(i) /\ slots' = [slots EXCEPT ![i] = r]
  BY DEF D!DropClipDataEntry, D!Free, D!Start
<1>2. i \in Slot  BY NoCdiIsNoId
<1>3. r \in SlotEntry /\ r.used = slots[i].used /\ r.dir = slots[i].dir /\ r.timer = "none"
  BY <1>2 DEF SlotEntry
<1> HIDE DEF r
<1>4. /\ slots' \in [Slot -> SlotEntry] /\ slots'[D!NoCdi].timer = "none"
      /\ \A j \in Slot : slots'[j].used = slots[j].used /\ slots'[j].dir = slots[j].dir
  BY <1>1, <1>2, <1>3 DEF Slot
<1> QED  BY <1>1, <1>4, StartingDrop

\* The files of a new selection are to replace those of the entry.
LEMMA OfSetSelection ==
  ASSUME FilesInv, NEW i \in Slot, D!SetSelection(i) PROVE FilesInv'
<1> DEFINE A == IF slots[i].dir THEN <<D!Item("clear", i)>> ELSE <<>>
           B == <<D!Item("set", i)>>
           r == [slots[i] EXCEPT !.used = TRUE]
<1> USE DEF FilesInv
<1>1. /\ UNCHANGED <<inodes, ops, asks, remote, resets, ended>> /\ ended = "no"
      /\ work' = A \o B /\ slots' = [slots EXCEPT ![i] = r]
      /\ i # D!NoCdi => slots[i].used
  BY DEF D!SetSelection, D!Free, D!Start
<1>2. r \in SlotEntry /\ r.used /\ r.dir = slots[i].dir /\ r.timer = slots[i].timer
  BY FuseParts DEF SlotEntry
<1>3. /\ A \in Seq(Todo) /\ B \in Seq(Todo) /\ Len(A) \in {0, 1} /\ Len(B) = 1
      /\ \A k \in 1 .. Len(A) : A[k] = D!Item("clear", i)
      /\ B[1] = D!Item("set", i)
  <2>1. D!Item("clear", i) \in Todo /\ D!Item("set", i) \in Todo  BY DEF D!Item, Todo
  <2> QED  BY <2>1
<1>4. ~(i # D!NoCdi /\ ~slots[i].used)  BY <1>1
<1> HIDE DEF A, B, r
<1>5. /\ work' \in Seq(Todo) /\ Len(work') = Len(A) + 1 /\ DOMAIN work' = 1 .. Len(A) + 1
      /\ \A k \in 1 .. Len(A) + 1 : work'[k] = IF k <= Len(A) THEN A[k] ELSE B[k - Len(A)]
  BY <1>3, ConcatProperties, <1>1, LenProperties
<1>6. \A k \in DOMAIN work' : work'[k].id = i /\ work'[k].do \in {"clear", "set"}
  <2> SUFFICES ASSUME NEW k \in DOMAIN work'
               PROVE  work'[k] = D!Item("clear", i) \/ work'[k] = D!Item("set", i)
    BY DEF D!Item
  <2>1. CASE k <= Len(A)  BY <1>3, <1>5, <2>1
  <2>2. CASE ~(k <= Len(A))  BY <1>3, <1>5, <2>2
  <2> QED  BY <2>1, <2>2
<1>7. /\ slots' \in [Slot -> SlotEntry] /\ slots'[D!NoCdi].timer = "none" /\ slots'[i].used
      /\ \A j \in Slot : (slots[j].used => slots'[j].used) /\ slots'[j].dir = slots[j].dir
      /\ \A j \in D!Id : slots'[j].used = slots[j].used
  BY <1>1, <1>2, FuseParts, NoCdiIsNoId DEF Slot
<1>8. RemovedCleared'  BY <1>6 DEF RemovedCleared
<1>9. SetUsed'  BY <1>6, <1>7 DEF SetUsed
<1>10. LazilyFirst' /\ ExitCleared'  BY <1>6 DEF LazilyFirst, ExitCleared
<1> QED  BY <1>1, <1>5, <1>7, <1>8, <1>9, <1>10, Starting

\* A new selection, or a new list of the client: what is to do for it.
LEMMA OfNewSelection == ASSUME FilesInv, D!NewSelection PROVE FilesInv'
<1> USE DEF FilesInv
<1>1. UNCHANGED <<slots, inodes, ops, asks, remote, resets, ended>> /\ ended = "no"
  BY DEF D!NewSelection, D!Free
<1>2. PICK files, theirs \in BOOLEAN :
        work' = ((IF files /\ slots[D!NoCdi].used THEN <<D!Item("clear", D!NoCdi)>> ELSE <<>>)
                 \o (IF files THEN <<D!Item("lazily", D!NoCdi)>> ELSE <<>>))
                \o (IF theirs /\ ~locking THEN <<D!Item("dismiss", D!NoCdi)>> ELSE <<>>)
  BY DEF D!NewSelection, D!Start
<1> DEFINE A == IF files /\ slots[D!NoCdi].used THEN <<D!Item("clear", D!NoCdi)>> ELSE <<>>
           B == IF files THEN <<D!Item("lazily", D!NoCdi)>> ELSE <<>>
           C == IF theirs /\ ~locking THEN <<D!Item("dismiss", D!NoCdi)>> ELSE <<>>
<1>3. /\ A \in Seq(Todo) /\ B \in Seq(Todo) /\ C \in Seq(Todo)
      /\ Len(A) \in Nat /\ Len(B) \in {0, 1} /\ Len(C) \in Nat
      /\ \A k \in 1 .. Len(A) : A[k].do = "clear"
      /\ \A k \in 1 .. Len(B) : B[k].do = "lazily"
      /\ \A k \in 1 .. Len(C) : C[k].do = "dismiss"
  <2>1. D!NoCdi \in Slot  BY DEF Slot
  <2>2. \A do \in {"clear", "lazily", "dismiss"} : D!Item(do, D!NoCdi) \in Todo /\ D!Item(do, D!NoCdi).do = do
    BY <2>1 DEF D!Item, Todo
  <2>3. A \in Seq(Todo) /\ Len(A) \in Nat /\ \A k \in 1 .. Len(A) : A[k].do = "clear"
    BY <2>2
  <2>4. B \in Seq(Todo) /\ Len(B) \in {0, 1} /\ \A k \in 1 .. Len(B) : B[k].do = "lazily"
    BY <2>2
  <2>5. C \in Seq(Todo) /\ Len(C) \in Nat /\ \A k \in 1 .. Len(C) : C[k].do = "dismiss"
    BY <2>2
  <2> QED  BY <2>3, <2>4, <2>5
<1>4. work' = (A \o B) \o C  BY <1>2
<1> HIDE DEF A, B, C
<1>5. /\ A \o B \in Seq(Todo) /\ Len(A \o B) = Len(A) + Len(B)
      /\ \A k \in 1 .. Len(A) + Len(B) : (A \o B)[k] = IF k <= Len(A) THEN A[k] ELSE B[k - Len(A)]
  BY <1>3, ConcatProperties
<1>6. /\ work' \in Seq(Todo) /\ Len(work') = Len(A \o B) + Len(C)
      /\ \A k \in 1 .. Len(A \o B) + Len(C) :
           work'[k] = IF k <= Len(A \o B) THEN (A \o B)[k] ELSE C[k - Len(A \o B)]
  BY <1>3, <1>4, <1>5, ConcatProperties
<1>7. DOMAIN work' = 1 .. Len(A \o B) + Len(C)  BY <1>6, LenProperties
<1>8. ASSUME NEW k \in DOMAIN work'
      PROVE  /\ work'[k].do \in {"clear", "lazily", "dismiss"}
             /\ work'[k].do = "lazily" => k = Len(A) + 1
  <2>0. k \in 1 .. Len(A) + Len(B) + Len(C)  BY <1>5, <1>7
  <2>1. CASE k <= Len(A)  BY <1>3, <1>5, <1>6, <1>7, <2>0, <2>1
  <2>2. CASE ~(k <= Len(A)) /\ k <= Len(A) + Len(B)
    <3>0. Len(B) = 0 \/ Len(B) = 1  BY <1>3
    <3>1. k = Len(A) + 1 /\ Len(B) = 1 /\ k - Len(A) = 1
      <4>1. k \in Nat /\ Len(A) \in Nat  BY <1>3, <2>0
      <4> DEFINE a == Len(A)
                 b == Len(B)
      <4>2. k \in Nat /\ a \in Nat /\ (b = 0 \/ b = 1) /\ ~(k <= a) /\ k <= a + b
        BY <2>2, <3>0, <4>1
      <4>3. k = a + 1 /\ b = 1 /\ k - a = 1
        <5> HIDE DEF a, b
        <5> QED  BY <4>2
      <4> QED  BY <4>3
    <3>2. work'[k] = B[1]  BY <1>3, <1>5, <1>6, <1>7, <2>0, <2>2, <3>1
    <3> QED  BY <1>3, <3>1, <3>2
  <2>3. CASE ~(k <= Len(A) + Len(B))
    <3> DEFINE j == k - (Len(A) + Len(B))
    <3>1. j \in 1 .. Len(C)  BY <1>3, <2>0, <2>3
    <3>2. work'[k] = C[j]  BY <1>5, <1>6, <1>7, <2>3
    <3> HIDE DEF j
    <3> QED  BY <1>3, <3>1, <3>2
  <2> QED  BY <2>1, <2>2, <2>3
<1>9. RemovedCleared' /\ SetUsed' /\ ExitCleared'
  BY <1>8 DEF RemovedCleared, SetUsed, ExitCleared
<1>10. LazilyFirst'  BY <1>8 DEF LazilyFirst
<1>11. D!Id \subseteq Slot  BY NoCdiIsNoId
<1>12. slots' \in [Slot -> SlotEntry] /\ slots'[D!NoCdi].timer = "none"  BY <1>1, FuseParts
<1>13. \A i \in Slot : (slots[i].used => slots'[i].used) /\ slots'[i].dir = slots[i].dir
  BY <1>1
<1>14. \A i \in D!Id : slots'[i].used = slots[i].used  BY <1>1
<1> QED  BY <1>1, <1>6, <1>9, <1>10, <1>12, <1>13, <1>14, Starting

\* The disposal: everything is to be cleared, and the session of FUSE to exit.
LEMMA OfFilesDispose == ASSUME FilesInv, D!Dispose PROVE FilesInv'
<1> USE FuseParts, FuseObjects DEF FilesInv
<1> DEFINE A == D!Item("clearAll", D!NoCdi)
           B == D!Item("exit", D!NoCdi)
<1>1. /\ UNCHANGED <<slots, inodes, ops, asks, remote, resets, ended>> /\ ended = "no"
      /\ work' = <<A, B>>
  BY DEF D!Dispose, D!Free, D!Start
<1>2. A \in Todo /\ B \in Todo /\ A.do = "clearAll" /\ B.do = "exit"
  BY DEF D!Item, Todo, Slot
<1> HIDE DEF A, B
<1>3. work' \in Seq(Todo) /\ DOMAIN work' = 1 .. 2 /\ work'[1] = A /\ work'[2] = B
  BY <1>1, <1>2
<1>4. \A k \in DOMAIN work' : k = 1 \/ k = 2  BY <1>3
<1>5. RemovedCleared' /\ SetUsed' /\ LazilyFirst' /\ ExitCleared'
  BY <1>2, <1>3, <1>4 DEF RemovedCleared, SetUsed, LazilyFirst, ExitCleared
<1>6. /\ slots' \in [Slot -> SlotEntry] /\ slots'[D!NoCdi].timer = "none"
      /\ \A i \in Slot : (slots[i].used => slots'[i].used) /\ slots'[i].dir = slots[i].dir
  BY <1>1
<1>7. \A i \in D!Id : slots'[i].used = slots[i].used  BY <1>1
<1> QED  BY <1>1, <1>3, <1>5, <1>6, <1>7, Starting

\* What the main thread does now, and what it does after that.
LEMMA FirstWork ==
  ASSUME FuseTypes, work # <<>>
  PROVE  /\ 1 \in DOMAIN work /\ Head(work) = work[1] /\ work[1] \in Todo /\ work[1].id \in Slot
         /\ Tail(work) \in Seq(Todo) /\ DOMAIN Tail(work) = 1 .. Len(work) - 1
         /\ \A k \in DOMAIN Tail(work) : k + 1 \in DOMAIN work /\ Tail(work)[k] = work[k + 1]
BY HeadTailProperties, EmptySeq, LenProperties, FuseObjects DEF FuseTypes

\* Before the exit the file system runs.
LEMMA StillRunning ==
  ASSUME FilesInv, work # <<>>, Head(work).do # "exit"
  PROVE  ended = "no"
BY FuseParts DEF FilesInv, EndedEmpty

\* It is done with the first thing,
LEMMA WorkDone ==
  ASSUME FilesInv, work # <<>>, work' = Tail(work),
         \A i \in Slot : NoFilesIn(inodes, i) => NoFilesIn(inodes', i), NoFiles => NoFiles',
         \A k \in DOMAIN work : work[k].do = "set" => slots'[work[k].id].used,
         Head(work).do # "clear", Head(work).do # "clearAll", Head(work).do # "exit",
         ended' = ended
  PROVE  RemovedCleared' /\ SetUsed' /\ LazilyFirst' /\ ExitCleared' /\ EndedEmpty'
<1> USE DEF FilesInv
<1>1. /\ 1 \in DOMAIN work /\ Head(work) = work[1]
      /\ work[1].do \notin {"clear", "clearAll", "exit"}
      /\ DOMAIN work' = 1 .. Len(work) - 1 /\ Len(work) \in Nat
      /\ \A k \in DOMAIN work' : k + 1 \in DOMAIN work /\ work'[k] = work[k + 1] /\ k \in Nat \ {0}
  BY FirstWork, FuseObjects
<1>2. RemovedCleared'
  <2> SUFFICES ASSUME NEW k \in DOMAIN work', work'[k].do = "remove"
               PROVE  /\ work'[k].id \in D!Id
                      /\ \/ NoFilesIn(inodes', work'[k].id)
                         \/ k > 1 /\ work'[k - 1].do = "clear" /\ work'[k - 1].id = work'[k].id
    BY DEF RemovedCleared
  <2> DEFINE i == work'[k].id
  <2>1. k + 1 \in DOMAIN work /\ work[k + 1].do = "remove" /\ work[k + 1].id = i /\ (k + 1) - 1 = k
    BY <1>1
  <2>2. /\ i \in D!Id
        /\ NoFilesIn(inodes, i) \/ (k + 1 > 1 /\ work[k].do = "clear" /\ work[k].id = i)
    BY <2>1 DEF RemovedCleared
  <2>3. CASE NoFilesIn(inodes, i)
    <3>1. i \in Slot  BY <2>2, NoCdiIsNoId
    <3> QED  BY <2>2, <2>3, <3>1
  <2>4. CASE work[k].do = "clear" /\ work[k].id = i  BY <1>1, <2>4, <2>2
  <2> QED  BY <2>2, <2>3, <2>4
<1>3. SetUsed'  BY <1>1 DEF SetUsed
<1>4. LazilyFirst'  BY <1>1 DEF LazilyFirst
<1>5. ExitCleared'  BY <1>1 DEF ExitCleared
<1>6. EndedEmpty'  BY StillRunning DEF EndedEmpty
<1> QED  BY <1>2, <1>3, <1>4, <1>5, <1>6

\* or has cleared a selection and has to invalidate its files.
LEMMA WorkReplaced ==
  ASSUME FilesInv, work # <<>>, Head(work).do \in {"clear", "clearAll"},
         NEW c \in Todo, c.do = "invalidate", work' = <<c>> \o Tail(work),
         \A i \in Slot : NoFilesIn(inodes, i) => NoFilesIn(inodes', i), NoFiles => NoFiles',
         Head(work).do = "clear" => NoFilesIn(inodes', Head(work).id),
         Head(work).do = "clearAll" => NoFiles',
         \A i \in Slot : slots'[i].used = slots[i].used,
         ended' = ended
  PROVE  work' \in Seq(Todo)
         /\ RemovedCleared' /\ SetUsed' /\ LazilyFirst' /\ ExitCleared' /\ EndedEmpty'
<1> USE DEF FilesInv
<1>1. /\ 1 \in DOMAIN work /\ Head(work) = work[1] /\ work[1].do \in {"clear", "clearAll"}
      /\ Tail(work) \in Seq(Todo) /\ DOMAIN Tail(work) = 1 .. Len(work) - 1
      /\ \A k \in DOMAIN Tail(work) : Tail(work)[k] = work[k + 1]
      /\ Len(work) \in Nat \ {0} /\ DOMAIN work = 1 .. Len(work)
  BY FirstWork, FuseObjects
<1>2. <<c>> \in Seq(Todo) /\ Len(<<c>>) = 1 /\ <<c>>[1] = c  OBVIOUS
<1>3. Len(Tail(work)) = Len(work) - 1  BY <1>1, LenProperties
<1> DEFINE s == <<c>>
           t == Tail(work)
<1>4. work' = s \o t /\ s \in Seq(Todo) /\ t \in Seq(Todo) /\ Len(s) = 1
      /\ Len(t) = Len(work) - 1 /\ s[1] = c
      /\ \A k \in 1 .. Len(work) - 1 : t[k] = work[k + 1]
  BY <1>1, <1>2, <1>3
<1> HIDE DEF s, t
<1>5. /\ work' \in Seq(Todo) /\ Len(work') = 1 + (Len(work) - 1)
      /\ \A k \in 1 .. 1 + (Len(work) - 1) : work'[k] = IF k <= 1 THEN s[k] ELSE t[k - 1]
  <2>1. /\ s \o t \in Seq(Todo) /\ Len(s \o t) = Len(s) + Len(t)
        /\ \A k \in 1 .. Len(s) + Len(t) : (s \o t)[k] = IF k <= Len(s) THEN s[k] ELSE t[k - Len(s)]
    BY <1>4, ConcatProperties
  <2> QED  BY <1>4, <2>1
<1>6. Len(work') = Len(work) /\ DOMAIN work' = DOMAIN work  BY <1>1, <1>5, LenProperties
<1>7. work'[1] = c  BY <1>1, <1>4, <1>5
<1>8. ASSUME NEW k \in DOMAIN work, k # 1 PROVE work'[k] = work[k]  BY <1>1, <1>8, <1>5, <1>4
<1>9. RemovedCleared'
  <2> SUFFICES ASSUME NEW k \in DOMAIN work, work'[k].do = "remove"
               PROVE  /\ work'[k].id \in D!Id
                      /\ \/ NoFilesIn(inodes', work'[k].id)
                         \/ k > 1 /\ work'[k - 1].do = "clear" /\ work'[k - 1].id = work'[k].id
    BY <1>6 DEF RemovedCleared
  <2>1. k # 1 /\ work'[k] = work[k]  BY <1>7, <1>8
  <2> DEFINE i == work[k].id
  <2>2. /\ i \in D!Id
        /\ NoFilesIn(inodes, i) \/ (k > 1 /\ work[k - 1].do = "clear" /\ work[k - 1].id = i)
    BY <2>1 DEF RemovedCleared
  <2>3. i \in Slot  BY <2>2, NoCdiIsNoId
  <2>4. CASE NoFilesIn(inodes, i)  BY <2>1, <2>2, <2>3, <2>4
  <2>5. CASE k > 1 /\ work[k - 1].do = "clear" /\ work[k - 1].id = i
    <3>1. k - 1 \in DOMAIN work  BY <1>1, <2>5
    <3>2. CASE k - 1 = 1
      <4>1. NoFilesIn(inodes', i)  BY <1>1, <2>5, <3>2
      <4> QED  BY <2>1, <2>2, <4>1
    <3>3. CASE k - 1 # 1  BY <1>8, <2>1, <2>2, <2>5, <3>1, <3>3
    <3> QED  BY <3>2, <3>3
  <2> QED  BY <2>2, <2>4, <2>5
<1>10. \A k \in DOMAIN work : work'[k].do # "invalidate" => k # 1 /\ work'[k] = work[k]
  BY <1>7, <1>8
<1>11. \A k \in DOMAIN work : work[k].id \in Slot  BY FuseObjects
<1>12. SetUsed'  BY <1>6, <1>10, <1>11 DEF SetUsed
<1>13. LazilyFirst'  BY <1>6, <1>10 DEF LazilyFirst
<1>14. ExitCleared'  BY <1>6, <1>10, <1>1 DEF ExitCleared
<1>15. EndedEmpty'  BY StillRunning DEF EndedEmpty
<1> QED  BY <1>5, <1>9, <1>12, <1>13, <1>14, <1>15

\* A selection is cleared: its files leave the table and their requests are replied.
LEMMA OfClearSelection == ASSUME FilesInv, D!ClearSelection PROVE FilesInv'
<1> USE DEF FilesInv
<1> DEFINE i == Head(work).id
           all == D!Doing("clearAll")
           S == IF all THEN D!FilesOf(DOMAIN slots) ELSE D!FilesOf({i})
           c == [D!Cleared EXCEPT !.files = S]
<1>1. /\ work # <<>> /\ Head(work).do \in {"clear", "clearAll"}
      /\ all <=> Head(work).do = "clearAll"
      /\ D!ClearRequests(S)
      /\ inodes' = [f \in DOMAIN inodes |-> [inodes[f] EXCEPT !.there = @ /\ f \notin S]]
      /\ slots' = IF all THEN slots ELSE [slots EXCEPT ![i].dir = FALSE]
      /\ work' = <<c>> \o Tail(work)
      /\ UNCHANGED <<locking, wire, remote, resets, ended>>
  BY DEF D!ClearSelection, D!Doing
<1>2. i \in Slot  BY <1>1, FirstWork
<1>3. S \subseteq DOMAIN inodes  BY DEF D!FilesOf
<1>4. c \in Todo /\ c.do = "invalidate"
  <2> HIDE DEF S
  <2>1. S \subseteq Nat  BY FuseObjects, <1>3
  <2>2. D!NoCdi \in Slot  BY DEF Slot
  <2> QED  BY <2>1, <2>2 DEF D!Cleared, Todo
<1>5. \A f \in DOMAIN inodes : inodes[f] \in File  BY FuseObjects
<1>6. /\ DOMAIN inodes' = DOMAIN inodes
      /\ \A f \in DOMAIN inodes : /\ inodes'[f] \in File /\ inodes'[f].id = inodes[f].id
                                  /\ inodes'[f].there <=> inodes[f].there /\ f \notin S
  <2> HIDE DEF S
  <2> QED  BY <1>1, <1>5 DEF File
<1>7. inodes' \in Seq(File)  BY <1>1, <1>6, FuseParts, MappedSeq
<1>8. RequestsOpen' /\ ops' \in Seq(KernelOp) /\ DOMAIN ops' = DOMAIN ops
      /\ (\A n \in DOMAIN ops : ops'[n].ino = ops[n].ino) /\ asks' \subseteq asks
  <2>1. \A f \in DOMAIN inodes \ S : inodes'[f].there = inodes[f].there  BY <1>6, <1>5 DEF File
  <2> HIDE DEF S
  <2>2. FuseTypes /\ RequestsOpen /\ D!ClearRequests(S) /\ DOMAIN inodes' = DOMAIN inodes
    BY <1>1, <1>6
  <2> QED  BY <2>1, <2>2, ClearedRequests
<1>9. /\ slots' \in [Slot -> SlotEntry] /\ slots'[D!NoCdi].timer = "none"
      /\ \A j \in Slot : /\ slots'[j].used = slots[j].used
                         /\ (slots'[j].dir = slots[j].dir \/ (~all /\ j = i))
  <2> DEFINE r == [slots[i] EXCEPT !.dir = FALSE]
  <2>1. (slots' = slots /\ all) \/ (~all /\ slots' = [slots EXCEPT ![i] = r])  BY <1>1
  <2> HIDE DEF i, all
  <2>2. slots \in [Slot -> SlotEntry] /\ slots[D!NoCdi].timer = "none"  BY FuseParts
  <2>3. slots[i] \in SlotEntry  BY <1>2, <2>2
  <2>4. r \in SlotEntry /\ r.used = slots[i].used /\ r.timer = slots[i].timer
    BY <2>3 DEF SlotEntry
  <2> HIDE DEF r
  <2>5. CASE slots' = slots /\ all  BY <2>2, <2>5
  <2>6. CASE ~all /\ slots' = [slots EXCEPT ![i] = r]  BY <1>2, <2>2, <2>4, <2>6
  <2> QED  BY <2>1, <2>5, <2>6
<1>10. ~all => S = {f \in DOMAIN inodes : inodes[f].there /\ inodes[f].id = i}
  BY DEF D!FilesOf
<1>11. ~all => NoFilesIn(inodes', i)  BY <1>6, <1>10 DEF NoFilesIn
<1>12. all => NoFiles'  BY <1>5, FuseObjects, <1>6 DEF D!FilesOf, File, NoFiles
<1>13. (\A j \in Slot : NoFilesIn(inodes, j) => NoFilesIn(inodes', j)) /\ (NoFiles => NoFiles')
  BY <1>6 DEF NoFilesIn, NoFiles
<1>14. Head(work).do = "clear" => NoFilesIn(inodes', Head(work).id)  BY <1>1, <1>11
<1>15. Head(work).do = "clearAll" => NoFiles'  BY <1>1, <1>12
<1>16. FilesHaveEntries'
  <2> SUFFICES ASSUME NEW f \in DOMAIN inodes, inodes'[f].there
               PROVE  slots'[inodes'[f].id].used /\ slots'[inodes'[f].id].dir
    BY <1>6 DEF FilesHaveEntries
  <2> DEFINE j == inodes[f].id
  <2>1. j \in Slot /\ inodes'[f].id = j /\ inodes[f].there /\ f \notin S
    BY <1>5, <1>6 DEF File
  <2>2. slots[j].used /\ slots[j].dir  BY <2>1 DEF FilesHaveEntries
  <2>3. all \/ j # i  BY <1>10, <2>1
  <2> HIDE DEF j, i, all
  <2> QED  BY <1>9, <2>1, <2>2, <2>3
<1>17. LockedAreUsed'  BY <1>1, <1>9, NoCdiIsNoId DEF LockedAreUsed
<1> HIDE DEF c, S, all, i
<1>18. \A j \in Slot : slots'[j].used = slots[j].used  BY <1>9
<1>19. ended' = ended /\ work' = <<c>> \o Tail(work)  BY <1>1
<1>20. work' \in Seq(Todo)
       /\ RemovedCleared' /\ SetUsed' /\ LazilyFirst' /\ ExitCleared' /\ EndedEmpty'
  BY <1>1, <1>4, <1>13, <1>14, <1>15, <1>18, <1>19, WorkReplaced
<1>21. FuseTypes'  BY <1>6, <1>8, FuseParts, <1>1, <1>7, <1>9, <1>20, FuseTypesFrom
<1> QED  BY <1>8, <1>16, <1>17, <1>20, <1>21

\* What only takes the first thing off, and leaves the files and what is used.
LEMMA OnlyDone ==
  ASSUME FilesInv, work # <<>>, work' = Tail(work),
         Head(work).do \notin {"clear", "clearAll", "exit"},
         UNCHANGED <<inodes, remote, resets, ended>>,
         slots' \in [Slot -> SlotEntry], slots'[D!NoCdi].timer = "none",
         \A i \in Slot : slots'[i].used = slots[i].used /\ slots'[i].dir = slots[i].dir,
         RequestsOpen', ops' \in Seq(KernelOp), DOMAIN ops' = DOMAIN ops, asks' \subseteq asks,
         \A n \in DOMAIN ops : ops'[n].ino = ops[n].ino
  PROVE  FilesInv'
<1> USE DEF FilesInv
<1>1. work' \in Seq(Todo)  BY FirstWork
<1>2. FuseTypes'  BY FuseParts, <1>1, FuseTypesFrom
<1>3. FilesHaveEntries'  BY FuseObjects DEF File, FilesHaveEntries
<1>4. LockedAreUsed'  BY NoCdiIsNoId DEF LockedAreUsed
<1>5. (\A j \in Slot : NoFilesIn(inodes, j) => NoFilesIn(inodes', j)) /\ (NoFiles => NoFiles')
  BY DEF NoFilesIn, NoFiles
<1>6. \A k \in DOMAIN work : work[k].do = "set" => slots'[work[k].id].used
  BY FuseObjects DEF SetUsed
<1>7. /\ Head(work).do # "clear" /\ Head(work).do # "clearAll" /\ Head(work).do # "exit"
      /\ ended' = ended
  OBVIOUS
<1>8. RemovedCleared' /\ SetUsed' /\ LazilyFirst' /\ ExitCleared' /\ EndedEmpty'
  BY <1>5, <1>6, <1>7, WorkDone
<1> QED  BY <1>2, <1>3, <1>4, <1>8

\* The kernel is told of the files that are gone, when their operations are finished.
LEMMA OfInvalidate == ASSUME FilesInv, D!Invalidate PROVE FilesInv'
BY FuseParts, OnlyDone DEF D!Invalidate, D!Doing, FilesInv, RequestsOpen

\* The timers of entries that are no longer the current one are set.
LEMMA OfSetTimers == ASSUME FilesInv, D!SetTimers PROVE FilesInv'
<1>1. /\ work # <<>> /\ Head(work).do = "timers" /\ work' = Tail(work)
      /\ slots' = [i \in DOMAIN slots |-> IF i # D!NoCdi /\ slots[i].used /\ slots[i].timer = "none"
                                          THEN [slots[i] EXCEPT !.timer = "new"] ELSE slots[i]]
      /\ UNCHANGED <<locking, inodes, ops, asks, wire, remote, resets, ended>>
  BY DEF D!SetTimers, D!Doing
<1>2. DOMAIN slots = Slot  BY FuseObjects DEF FilesInv
<1>3. /\ slots' \in [Slot -> SlotEntry] /\ slots'[D!NoCdi].timer = "none"
      /\ \A i \in Slot : slots'[i].used = slots[i].used /\ slots'[i].dir = slots[i].dir
  BY <1>1, <1>2, FuseParts DEF FilesInv, SlotEntry, Slot
<1>4. /\ ops' \in Seq(KernelOp) /\ DOMAIN ops' = DOMAIN ops /\ asks' \subseteq asks
      /\ \A n \in DOMAIN ops : ops'[n].ino = ops[n].ino
  BY <1>1, FuseParts DEF FilesInv
<1>5. RequestsOpen'  BY <1>1 DEF FilesInv, RequestsOpen
<1>6. Head(work).do \notin {"clear", "clearAll", "exit"}
      /\ UNCHANGED <<inodes, remote, resets, ended>>
  BY <1>1
<1> QED  BY <1>1, <1>3, <1>4, <1>5, <1>6, OnlyDone

\* Without locks a new list of the client ends what is requested.
LEMMA OfDismissAllNoCdiRequests == ASSUME FilesInv, D!DismissAllNoCdiRequests PROVE FilesInv'
<1> DEFINE S == D!FilesOf({D!NoCdi})
<1>1. /\ work # <<>> /\ Head(work).do = "dismiss" /\ work' = Tail(work)
      /\ D!ClearRequests(S)
      /\ UNCHANGED <<locking, slots, inodes, wire, remote, resets, ended>>
  BY DEF D!DismissAllNoCdiRequests, D!Doing
<1> HIDE DEF S
<1>2. /\ slots' \in [Slot -> SlotEntry] /\ slots'[D!NoCdi].timer = "none"
      /\ \A i \in Slot : slots'[i].used = slots[i].used /\ slots'[i].dir = slots[i].dir
  BY <1>1, FuseParts DEF FilesInv
<1>3. FuseTypes /\ RequestsOpen /\ DOMAIN inodes' = DOMAIN inodes
      /\ \A f \in DOMAIN inodes \ S : inodes'[f].there = inodes[f].there
  BY <1>1 DEF FilesInv
<1>4. RequestsOpen' /\ ops' \in Seq(KernelOp) /\ DOMAIN ops' = DOMAIN ops
      /\ (\A n \in DOMAIN ops : ops'[n].ino = ops[n].ino) /\ asks' \subseteq asks
  BY <1>1, <1>3, ClearedRequests
<1>5. Head(work).do \notin {"clear", "clearAll", "exit"}
      /\ UNCHANGED <<inodes, remote, resets, ended>>
  BY <1>1
<1> QED  BY <1>1, <1>2, <1>4, <1>5, OnlyDone

\* An entry is removed and unlocked at the client, after its files.
LEMMA OfRemove == ASSUME FilesInv, D!Remove PROVE FilesInv'
<1> USE DEF FilesInv
<1> DEFINE i == Head(work).id
<1>1. /\ work # <<>> /\ Head(work).do = "remove" /\ work' = Tail(work)
      /\ slots' = [slots EXCEPT ![i] = D!Unused]
      /\ remote' = [remote EXCEPT !.locked = @ \ {i}]
      /\ UNCHANGED <<locking, inodes, ops, asks, wire, resets, ended>>
  BY DEF D!Remove, D!Doing
<1>2. 1 \in DOMAIN work /\ Head(work) = work[1] /\ work' \in Seq(Todo)  BY <1>1, FirstWork
<1>3. i \in D!Id /\ NoFilesIn(inodes, i)  BY <1>1, <1>2 DEF RemovedCleared
<1>4. i \in Slot /\ i # D!NoCdi  BY <1>3, NoCdiIsNoId
<1>5. D!Unused \in SlotEntry /\ ~D!Unused.used  BY DEF D!Unused, SlotEntry
<1> HIDE DEF i
<1>6. /\ slots' \in [Slot -> SlotEntry] /\ slots'[D!NoCdi].timer = "none"
      /\ \A j \in Slot : slots'[j] = IF j = i THEN D!Unused ELSE slots[j]
  BY <1>1, <1>4, <1>5, FuseParts DEF Slot
<1>7. remote' \in [locked : SUBSET D!Id, times : Nat] /\ remote'.locked = remote.locked \ {i}
  BY <1>1, FuseParts
<1>8. FuseTypes'  BY <1>1, FuseParts, <1>2, <1>6, <1>7, FuseTypesFrom
<1>9. FilesHaveEntries'  BY FuseObjects, <1>1, <1>3, <1>6 DEF File, FilesHaveEntries, NoFilesIn
<1>10. LockedAreUsed'  BY <1>5, <1>6, NoCdiIsNoId, <1>7 DEF LockedAreUsed
<1>11. RequestsOpen'  BY <1>1 DEF RequestsOpen
<1>12. (\A j \in Slot : NoFilesIn(inodes, j) => NoFilesIn(inodes', j)) /\ (NoFiles => NoFiles')
  BY <1>1 DEF NoFilesIn, NoFiles
<1>13. \A k \in DOMAIN work : work[k].do = "set" => slots'[work[k].id].used
  BY <1>1, <1>2 DEF SetUsed
<1>14. Head(work).do # "clear" /\ Head(work).do # "clearAll" /\ Head(work).do # "exit"
       /\ ended' = ended
  BY <1>1
<1>15. RemovedCleared' /\ SetUsed' /\ LazilyFirst' /\ ExitCleared' /\ EndedEmpty'
  BY <1>1, <1>12, <1>13, <1>14, WorkDone
<1> QED  BY <1>8, <1>9, <1>10, <1>11, <1>15

\* The session of FUSE exits, and what still waits is replied.
LEMMA OfSessionExit == ASSUME FilesInv, D!SessionExit PROVE FilesInv'
<1> USE DEF FilesInv
<1> DEFINE S == DOMAIN inodes
<1>1. /\ work # <<>> /\ Head(work).do = "exit" /\ ended' = "exiting"
      /\ D!ClearRequests(S)
      /\ UNCHANGED <<locking, slots, inodes, wire, remote, resets, work>>
  BY DEF D!SessionExit, D!Doing
<1>2. 1 \in DOMAIN work /\ Head(work) = work[1]  BY <1>1, FirstWork
<1>3. NoFiles  BY <1>1, <1>2 DEF ExitCleared
<1>4. FuseTypes /\ RequestsOpen /\ DOMAIN inodes' = DOMAIN inodes
      /\ \A f \in DOMAIN inodes \ S : inodes'[f].there = inodes[f].there
  BY <1>1
<1> HIDE DEF S
<1>5. RequestsOpen' /\ ops' \in Seq(KernelOp) /\ DOMAIN ops' = DOMAIN ops
      /\ (\A n \in DOMAIN ops : ops'[n].ino = ops[n].ino) /\ asks' \subseteq asks
  BY <1>1, <1>4, ClearedRequests
<1>6. FuseTypes'  BY <1>1, FuseParts, <1>5, <1>4, FuseTypesFrom
<1>7. FilesHaveEntries' /\ LockedAreUsed'  BY <1>1 DEF FilesHaveEntries, LockedAreUsed
<1>8. NoFiles' /\ \A j : NoFilesIn(inodes', j)  BY <1>1, <1>3 DEF NoFiles, NoFilesIn
<1>9. RemovedCleared'  BY <1>1, <1>8 DEF RemovedCleared
<1>10. SetUsed' /\ LazilyFirst'  BY <1>1 DEF SetUsed, LazilyFirst
<1>11. ExitCleared' /\ EndedEmpty'  BY <1>1, <1>8 DEF ExitCleared, EndedEmpty
<1> QED  BY <1>5, <1>6, <1>7, <1>9, <1>10, <1>11

\* The entries go with the clipboard.
LEMMA OfFinishDispose == ASSUME FilesInv, D!FinishDispose PROVE FilesInv'
<1> USE DEF FilesInv
<1>1. /\ ended = "exiting" /\ ended' = "done" /\ resets' = {} /\ work' = <<>>
      /\ slots' = [i \in DOMAIN slots |-> D!Unused]
      /\ remote' = [remote EXCEPT !.locked = {}]
      /\ UNCHANGED <<locking, inodes, ops, asks, wire>>
  BY DEF D!FinishDispose
<1>2. NoFiles  BY <1>1 DEF EndedEmpty
<1>3. D!Unused \in SlotEntry /\ ~D!Unused.used /\ D!Unused.timer = "none"
  BY DEF D!Unused, SlotEntry
<1>4. /\ slots' \in [Slot -> SlotEntry] /\ slots'[D!NoCdi].timer = "none"
      /\ \A j \in Slot : ~slots'[j].used
  BY FuseObjects, <1>1, <1>3 DEF Slot
<1>5. remote' \in [locked : SUBSET D!Id, times : Nat] /\ remote'.locked = {}
  BY <1>1, FuseParts
<1>6. DOMAIN work' = {} /\ work' \in Seq(Todo)  BY <1>1
<1>7. FuseTypes'  BY <1>1, FuseParts, <1>4, <1>5, <1>6, FuseTypesFrom
<1>8. NoFiles'  BY <1>1, <1>2 DEF NoFiles
<1>9. FilesHaveEntries'  BY <1>8 DEF FilesHaveEntries, NoFiles
<1>10. LockedAreUsed'  BY <1>4, <1>5, NoCdiIsNoId DEF LockedAreUsed
<1>11. RequestsOpen'  BY <1>1 DEF RequestsOpen
<1>12. RemovedCleared' /\ SetUsed' /\ LazilyFirst' /\ ExitCleared' /\ EndedEmpty'
  BY <1>1, <1>6, <1>8 DEF RemovedCleared, SetUsed, LazilyFirst, ExitCleared, EndedEmpty
<1> QED  BY <1>7, <1>9, <1>10, <1>11, <1>12

\* The files of a selection get inodes.
LEMMA OfSetFiles == ASSUME FilesInv, D!SetFiles PROVE FilesInv'
<1> USE DEF FilesInv
<1> DEFINE i == Head(work).id
           c == D!Item("clear", i)
           r == [slots[i] EXCEPT !.dir = TRUE]
<1>1. /\ work # <<>> /\ Head(work).do = "set" /\ slots' = [slots EXCEPT ![i] = r]
      /\ UNCHANGED <<locking, ops, asks, wire, remote, resets, ended>>
  BY DEF D!SetFiles, D!Doing
<1>2. PICK size, usable \in BOOLEAN :
        /\ inodes' = Append(inodes, [id |-> i, size |-> size, there |-> TRUE])
        /\ work' = IF usable THEN Tail(work) ELSE <<c>> \o Tail(work)
  BY DEF D!SetFiles
<1> DEFINE file == [id |-> i, size |-> size, there |-> TRUE]
<1>3. /\ 1 \in DOMAIN work /\ Head(work) = work[1] /\ Tail(work) \in Seq(Todo)
      /\ DOMAIN Tail(work) = 1 .. Len(work) - 1 /\ Len(work) \in Nat \ {0}
      /\ DOMAIN work = 1 .. Len(work)
      /\ \A k \in DOMAIN Tail(work) : k + 1 \in DOMAIN work /\ Tail(work)[k] = work[k + 1]
  BY <1>1, FirstWork, FuseObjects
<1>4. i \in Slot  BY <1>1, FirstWork
<1>5. /\ slots[i].used
      /\ \A j \in DOMAIN work : work[j].do \notin {"remove", "lazily", "exit"}
  BY <1>1, <1>3 DEF SetUsed
<1> HIDE DEF i
<1>6. r \in SlotEntry /\ r.used /\ r.dir /\ r.timer = slots[i].timer
  <2>1. slots[i] \in SlotEntry  BY <1>4, FuseParts
  <2> QED  BY <1>5, <2>1 DEF SlotEntry
<1>7. file \in File /\ file.id = i /\ file.there  BY <1>4 DEF File
<1>8. c \in Todo /\ c.do = "clear"  BY <1>4 DEF D!Item, Todo
<1>9. inodes' = Append(inodes, file)  BY <1>2
<1> HIDE DEF r, file, c
<1>10. /\ slots' \in [Slot -> SlotEntry] /\ slots'[D!NoCdi].timer = "none"
       /\ slots'[i].used /\ slots'[i].dir
       /\ \A j \in Slot : slots'[j].used = slots[j].used /\ (slots[j].dir => slots'[j].dir)
  BY FuseParts, <1>1, <1>4, <1>6, <1>5 DEF SlotEntry, Slot
<1>11. /\ inodes' \in Seq(File) /\ DOMAIN inodes \subseteq DOMAIN inodes'
       /\ \A f \in DOMAIN inodes : inodes'[f] = inodes[f]
       /\ \A f \in DOMAIN inodes' : f \in DOMAIN inodes \/ inodes'[f] = file
  BY FuseObjects, FuseParts, <1>7, <1>9, AppendProperties, LenProperties
<1>12. /\ work' \in Seq(Todo)
       /\ \A k \in DOMAIN work' : work'[k] = c \/ \E j \in DOMAIN work : work'[k] = work[j]
  <2>1. CASE usable  BY <1>2, <1>3, <2>1
  <2>2. CASE ~usable
    <3> DEFINE s == <<c>>
               t == Tail(work)
    <3>1. work' = s \o t /\ s \in Seq(Todo) /\ t \in Seq(Todo) /\ Len(s) = 1 /\ s[1] = c
          /\ DOMAIN t = 1 .. Len(work) - 1
          /\ \A k \in DOMAIN t : k + 1 \in DOMAIN work /\ t[k] = work[k + 1]
      BY <1>2, <1>3, <1>8, <2>2
    <3> HIDE DEF s, t
    <3>2. /\ s \o t \in Seq(Todo) /\ Len(s \o t) = Len(s) + Len(t)
          /\ \A k \in 1 .. Len(s) + Len(t) : (s \o t)[k] = IF k <= Len(s) THEN s[k] ELSE t[k - Len(s)]
      BY <3>1, ConcatProperties
    <3>3. Len(t) \in Nat /\ DOMAIN t = 1 .. Len(t)  BY <3>1, LenProperties
    <3>4. work' \in Seq(Todo) /\ DOMAIN work' = 1 .. 1 + Len(t)  BY <3>1, <3>2, LenProperties
    <3>5. ASSUME NEW k \in DOMAIN work', k # 1
          PROVE  \E j \in DOMAIN work : work'[k] = work[j]
      <4>1. k - 1 \in DOMAIN t /\ ~(k <= 1) /\ (k - 1) + 1 = k  BY <3>3, <3>4, <3>5
      <4>2. work'[k] = t[k - 1]  BY <3>1, <3>2, <3>4, <4>1
      <4> QED  BY <3>1, <4>1, <4>2
    <3>6. work'[1] = c  BY <3>1, <3>2, <3>3
    <3> QED  BY <3>4, <3>5, <3>6
  <2> QED  BY <2>1, <2>2
<1>13. \A k \in DOMAIN work' : work'[k].do \notin {"remove", "lazily", "exit"}
  BY <1>5, <1>8, <1>12
<1>14. RemovedCleared' /\ LazilyFirst' /\ ExitCleared'
  BY <1>13 DEF RemovedCleared, LazilyFirst, ExitCleared
<1>15. SetUsed'
  <2>1. ASSUME NEW k \in DOMAIN work', work'[k].do = "set" PROVE slots'[work'[k].id].used
    BY <1>8, <1>12, <2>1, FuseObjects, <1>10 DEF SetUsed
  <2> QED  BY <1>13, <2>1 DEF SetUsed
<1>16. EndedEmpty'  BY <1>1, StillRunning DEF EndedEmpty
<1>17. FuseTypes'  BY <1>1, FuseParts, <1>11, <1>10, <1>12, FuseTypesFrom
<1>18. FilesHaveEntries'
  <2> SUFFICES ASSUME NEW f \in DOMAIN inodes', inodes'[f].there
               PROVE  slots'[inodes'[f].id].used /\ slots'[inodes'[f].id].dir
    BY DEF FilesHaveEntries
  <2>1. CASE f \in DOMAIN inodes  BY <2>1, FuseObjects, <1>10, <1>11 DEF File, FilesHaveEntries
  <2>2. CASE inodes'[f] = file  BY <1>7, <1>10, <2>2
  <2> QED  BY <1>11, <2>1, <2>2
<1>19. LockedAreUsed'  BY <1>1, <1>10, NoCdiIsNoId DEF LockedAreUsed
<1>20. RequestsOpen'  BY FuseParts, <1>1, <1>11 DEF RequestsOpen
<1> QED  BY <1>14, <1>15, <1>16, <1>17, <1>18, <1>19, <1>20

\* The selections that nobody read from are cleared and removed, one after the other.
LEMMA Halves ==
  ASSUME NEW n \in Nat, NEW k \in 1 .. 2 * n
  PROVE  /\ (k + 1) \div 2 \in 1 .. n
         /\ \/ k % 2 = 1
            \/ /\ k % 2 = 0 /\ k - 1 \in 1 .. 2 * n /\ (k - 1) % 2 = 1
               /\ ((k - 1) + 1) \div 2 = (k + 1) \div 2
OBVIOUS

\* The drops of some entries, one after the other.
LEMMA DropAll ==
  ASSUME NEW S \in SUBSET D!Id
  PROVE  LET q == CHOOSE q \in [1 .. D!Cardinality(S) -> S] : {q[k] : k \in DOMAIN q} = S
             A == [k \in 1 .. 2 * Len(q) |-> D!Drop(q[(k + 1) \div 2])[2 - (k % 2)]]
         IN  /\ A \in Seq(Todo) /\ Len(A) \in Nat /\ DOMAIN A = 1 .. Len(A)
             /\ \A k \in 1 .. Len(A) :
                  \/ A[k].do = "clear"
                  \/ /\ A[k].do = "remove" /\ A[k].id \in D!Id /\ k - 1 \in 1 .. Len(A)
                     /\ A[k - 1].do = "clear" /\ A[k - 1].id = A[k].id
<1> DEFINE n == D!Cardinality(S)
           q == CHOOSE q \in [1 .. n -> S] : {q[k] : k \in DOMAIN q} = S
           A == [k \in 1 .. 2 * Len(q) |-> D!Drop(q[(k + 1) \div 2])[2 - (k % 2)]]
<1>1. IsFiniteSet(S)
  <2>1. MaxIds \in Nat  BY ClipboardAssumption
  <2>2. IsFiniteSet(1 .. MaxIds)  BY <2>1, FS_Interval
  <2> QED  BY <2>2, FS_Subset DEF D!Id
<1>2. n = Cardinality(S)  BY DEF D!Cardinality, Cardinality, D!IsFiniteSet, IsFiniteSet
<1>3. n \in Nat /\ ExistsBijection(1 .. n, S)  BY <1>1, <1>2, FS_CardinalityType
<1> HIDE DEF n
<1>4. \E f \in [1 .. n -> S] : {f[k] : k \in DOMAIN f} = S
  BY <1>3 DEF ExistsBijection, Bijection, Surjection, IsInjective
<1>5. q \in [1 .. n -> S]  BY <1>4
<1> HIDE DEF q
<1>6. q \in Seq(S)  BY <1>3, <1>5, SeqDef
<1>7. DOMAIN q = 1 .. Len(q) /\ Len(q) \in Nat  BY <1>6, LenProperties
<1>8. DOMAIN A = 1 .. 2 * Len(q) /\ 2 * Len(q) \in Nat  BY <1>7
<1>9. ASSUME NEW k \in 1 .. 2 * Len(q), k % 2 = 1
      PROVE  A[k] = D!Item("clear", q[(k + 1) \div 2]) /\ q[(k + 1) \div 2] \in D!Id
  BY <1>7, Halves, <1>6, ElementOfSeq, <1>9, <1>8, DropItems
<1>10. ASSUME NEW k \in 1 .. 2 * Len(q), k % 2 = 0
       PROVE  A[k] = D!Item("remove", q[(k + 1) \div 2]) /\ q[(k + 1) \div 2] \in D!Id
  BY <1>7, Halves, <1>6, ElementOfSeq, <1>10, <1>8, DropItems
<1>11. ASSUME NEW i \in D!Id
       PROVE  /\ D!Item("clear", i) \in Todo /\ D!Item("clear", i).do = "clear"
              /\ D!Item("clear", i).id = i
              /\ D!Item("remove", i) \in Todo /\ D!Item("remove", i).do = "remove"
              /\ D!Item("remove", i).id = i
  BY NoCdiIsNoId DEF D!Item, Todo
<1>12. \A k \in 1 .. 2 * Len(q) : k % 2 = 1 \/ k % 2 = 0  BY <1>7, Halves
<1>13. \A k \in 1 .. 2 * Len(q) : A[k] \in Todo
  <2> HIDE DEF A
  <2> QED  BY <1>9, <1>10, <1>11, <1>12
<1>14. A \in [1 .. 2 * Len(q) -> Todo]
  <2> DEFINE B == A
  <2>1. A = [k \in DOMAIN A |-> A[k]]  OBVIOUS
  <2> HIDE DEF A
  <2> QED  BY <1>8, <1>13, <2>1
<1> HIDE DEF A
<1>15. A \in Seq(Todo)  BY <1>8, <1>14, SeqDef
<1>16. Len(A) \in Nat /\ DOMAIN A = 1 .. Len(A)  BY <1>15, LenProperties
<1>17. Len(A) = 2 * Len(q)  BY <1>8, <1>16
<1>18. ASSUME NEW k \in 1 .. Len(A), k % 2 = 0
       PROVE  /\ A[k].do = "remove" /\ A[k].id \in D!Id /\ k - 1 \in 1 .. Len(A)
              /\ A[k - 1].do = "clear" /\ A[k - 1].id = A[k].id
  <2>1. /\ k - 1 \in 1 .. 2 * Len(q) /\ (k - 1) % 2 = 1
        /\ ((k - 1) + 1) \div 2 = (k + 1) \div 2
    BY <1>7, <1>17, <1>18, Halves
  <2> DEFINE i == q[(k + 1) \div 2]
  <2>2. A[k] = D!Item("remove", i) /\ i \in D!Id  BY <1>10, <1>17, <1>18
  <2>3. A[k - 1] = D!Item("clear", i)  BY <1>9, <2>1
  <2> HIDE DEF i
  <2> QED  BY <1>11, <1>17, <2>1, <2>2, <2>3
<1>19. ASSUME NEW k \in 1 .. Len(A), k % 2 = 1 PROVE A[k].do = "clear"
  BY <1>9, <1>11, <1>17, <1>19
<1>20. /\ A \in Seq(Todo) /\ Len(A) \in Nat /\ DOMAIN A = 1 .. Len(A)
       /\ \A k \in 1 .. Len(A) :
            \/ A[k].do = "clear"
            \/ /\ A[k].do = "remove" /\ A[k].id \in D!Id /\ k - 1 \in 1 .. Len(A)
               /\ A[k - 1].do = "clear" /\ A[k - 1].id = A[k].id
  BY <1>12, <1>15, <1>16, <1>17, <1>18, <1>19
<1> QED  BY <1>20 DEF A, q, n

\* Entries that nobody read from are to be dropped at once, the others to get timers.
LEMMA OfLazily == ASSUME FilesInv, D!Lazily PROVE FilesInv'
<1> USE DEF FilesInv
<1> DEFINE S == {i \in D!Id : slots[i].used /\ ~slots[i].requested}
           q == CHOOSE q \in [1 .. D!Cardinality(S) -> S] : {q[k] : k \in DOMAIN q} = S
           A == [k \in 1 .. 2 * Len(q) |-> D!Drop(q[(k + 1) \div 2])[2 - (k % 2)]]
           B == <<D!Item("timers", D!NoCdi)>>
           C == Tail(work)
<1>1. /\ work # <<>> /\ Head(work).do = "lazily"
      /\ UNCHANGED <<locking, slots, inodes, ops, asks, wire, remote, resets, ended>>
  BY DEF D!Lazily, D!Doing
<1>2. work' = (A \o B) \o C  BY DEF D!Lazily
<1>3. S \in SUBSET D!Id  OBVIOUS
<1> HIDE DEF S
<1>4. /\ A \in Seq(Todo) /\ Len(A) \in Nat
      /\ \A k \in 1 .. Len(A) :
           \/ A[k].do = "clear"
           \/ /\ A[k].do = "remove" /\ A[k].id \in D!Id /\ k - 1 \in 1 .. Len(A)
              /\ A[k - 1].do = "clear" /\ A[k - 1].id = A[k].id
  BY <1>3, DropAll
<1>5. B \in Seq(Todo) /\ Len(B) = 1 /\ B[1].do = "timers"
  BY DEF D!Item, Todo, Slot
<1>6. /\ 1 \in DOMAIN work /\ work[1].do = "lazily" /\ Len(work) \in Nat
      /\ C \in Seq(Todo) /\ DOMAIN C = 1 .. Len(work) - 1
      /\ \A k \in DOMAIN C : k + 1 \in DOMAIN work /\ C[k] = work[k + 1]
  BY <1>1, FirstWork, FuseObjects
<1>7. DOMAIN C = 1 .. Len(C) /\ Len(C) \in Nat  BY <1>6, LenProperties
<1>8. ASSUME NEW k \in 1 .. Len(C)
      PROVE  /\ C[k].do \notin {"remove", "lazily", "set"}
             /\ C[k].do = "exit" => NoFiles
  BY <1>6, <1>7 DEF LazilyFirst, SetUsed, ExitCleared
<1> HIDE DEF q, A, B, C
<1>9. /\ A \o B \in Seq(Todo) /\ Len(A \o B) = Len(A) + Len(B)
      /\ \A k \in 1 .. Len(A) + Len(B) : (A \o B)[k] = IF k <= Len(A) THEN A[k] ELSE B[k - Len(A)]
  <2>1. A \in Seq(Todo) /\ B \in Seq(Todo)  BY <1>4, <1>5
  <2> QED  BY <2>1, ConcatProperties
<1>10. /\ work' \in Seq(Todo) /\ Len(work') = Len(A \o B) + Len(C)
       /\ \A k \in 1 .. Len(A \o B) + Len(C) :
            work'[k] = IF k <= Len(A \o B) THEN (A \o B)[k] ELSE C[k - Len(A \o B)]
  BY <1>2, <1>6, <1>9, ConcatProperties
<1>11. Len(A \o B) = Len(A) + 1 /\ DOMAIN work' = 1 .. Len(A) + 1 + Len(C)
  BY <1>5, <1>9, <1>10, LenProperties
<1>12. \A k \in 1 .. Len(A) : work'[k] = A[k]
  BY <1>4, <1>5, <1>7, <1>9, <1>10, <1>11
<1>13. work'[Len(A) + 1].do = "timers"  BY <1>4, <1>5, <1>9, <1>7, <1>10, <1>11
<1>14. \A k \in DOMAIN work' : \/ k \in 1 .. Len(A) \/ k = Len(A) + 1
                               \/ \E j \in 1 .. Len(C) : work'[k] = C[j]
  <2> SUFFICES ASSUME NEW k \in DOMAIN work', k \notin 1 .. Len(A), k # Len(A) + 1
               PROVE  \E j \in 1 .. Len(C) : work'[k] = C[j]
    OBVIOUS
  <2>1. k - (Len(A) + 1) \in 1 .. Len(C) /\ ~(k <= Len(A) + 1)  BY <1>4, <1>7, <1>11
  <2>2. work'[k] = C[k - (Len(A) + 1)]  BY <1>10, <1>11, <2>1
  <2> QED  BY <2>1, <2>2
<1>15. ASSUME NEW k \in DOMAIN work'
       PROVE  /\ work'[k].do \notin {"lazily", "set"} /\ (work'[k].do = "exit" => NoFiles)
              /\ work'[k].do = "remove" => k \in 1 .. Len(A)
  <2>1. CASE k \in 1 .. Len(A)  BY <1>4, <1>12, <2>1
  <2>2. CASE k = Len(A) + 1  BY <1>13, <2>2
  <2>3. CASE \E j \in 1 .. Len(C) : work'[k] = C[j]  BY <1>8, <2>3
  <2> QED  BY <1>14, <2>1, <2>2, <2>3
<1>16. RemovedCleared'  BY <1>15, <1>12, <1>4 DEF RemovedCleared
<1>17. SetUsed' /\ LazilyFirst'  BY <1>15 DEF SetUsed, LazilyFirst
<1>18. ExitCleared'  BY <1>1, <1>15 DEF ExitCleared, NoFiles
<1>19. EndedEmpty'  BY <1>1, StillRunning DEF EndedEmpty
<1>20. FuseTypes'  BY <1>1, FuseParts, <1>10, FuseTypesFrom
<1>21. FilesHaveEntries' /\ LockedAreUsed' /\ RequestsOpen'
  BY <1>1 DEF FilesHaveEntries, LockedAreUsed, RequestsOpen
<1> QED  BY <1>16, <1>17, <1>18, <1>19, <1>20, <1>21

\* The steps of the files of the client.
LEMMA FilesStep == ASSUME FilesInv, D!Next PROVE FilesInv'
<1>1. CASE \E n \in DOMAIN ops : D!FuseOperation(n)  BY <1>1, OfFuseOperation
<1>2. CASE \E s \in wire : D!SubmitFileContentsResponse(s)
  BY <1>2, OfSubmitFileContentsResponse
<1>3. CASE \E i \in D!Id : D!ClipDataIdFree(i) \/ D!DropClipDataEntry(i)
  BY <1>3, OfClipDataIdFree, OfDropClipDataEntry
<1>4. CASE \E i \in DOMAIN slots : D!SetSelection(i)
  <2>1. DOMAIN slots = Slot  BY FuseObjects DEF FilesInv
  <2> QED  BY <1>4, <2>1, OfSetSelection
<1>5. CASE D!ClipDataIdNew \/ D!NewSelection \/ D!ResetTimeouts \/ D!Dispose
  BY <1>5, OfClipDataIdNew, OfNewSelection, OfResetTimeouts, OfFilesDispose
<1>6. CASE D!Main
  BY <1>6, OfClearSelection, OfInvalidate, OfRemove, OfLazily, OfSetTimers, OfSetFiles,
     OfDismissAllNoCdiRequests, OfSessionExit, OfFinishDispose DEF D!Main
<1>7. CASE D!Operation \/ D!TimePasses  BY <1>7, OfOperation, OfTimePasses
<1> QED  BY <1>1, <1>2, <1>3, <1>4, <1>5, <1>6, <1>7 DEF D!Next

\* The other parts of the clipboard do not disturb the files.
LEMMA FilesStutter == ASSUME FilesInv, UNCHANGED fileVars PROVE FilesInv'
<1> USE DEF fileVars, FilesInv
<1>1. FuseTypes'  BY DEF FuseTypes, D!TypeOK
<1>2. FilesHaveEntries' /\ LockedAreUsed' /\ RequestsOpen'
  BY DEF FilesHaveEntries, LockedAreUsed, RequestsOpen
<1>3. RemovedCleared'  BY DEF RemovedCleared
<1>4. SetUsed' /\ LazilyFirst'  BY DEF SetUsed, LazilyFirst
<1>5. ExitCleared' /\ EndedEmpty'  BY DEF ExitCleared, EndedEmpty, NoFiles
<1> QED  BY <1>1, <1>2, <1>3, <1>4, <1>5

\* What the invariant of the files says is enough.
LEMMA FilesResults ==
  ASSUME FilesInv
  PROVE  D!TypeOK /\ D!RepliedOnce /\ D!RequestsHaveFiles /\ D!LocksMatch
<1> USE DEF FilesInv
<1>1. D!TypeOK  BY DEF FuseTypes
<1>2. D!RepliedOnce  BY DEF RequestsOpen, D!RepliedOnce
<1>3. D!RequestsHaveFiles  BY FuseParts DEF RequestsOpen, FilesHaveEntries, D!RequestsHaveFiles
<1>4. D!LocksMatch  BY DEF LockedAreUsed, FilesHaveEntries, D!LocksMatch
<1> QED  BY <1>1, <1>2, <1>3, <1>4

(* The selection of the session. *)

OfferRec == [pending : SUBSET O!Type, queued : SUBSET O!Type, allowed : SUBSET O!Type,
             timer : BOOLEAN, unicode : (Unicode \cup {O!None}) \cap (O!Type \cup {O!None}),
             made : 0..MaxSelections, waits : 0..MaxSelections]
RequestRec == [waiting : O!Type \cup {O!None, O!Unknown}, type : O!Type \cup {O!None},
               source : BOOLEAN, completed : BOOLEAN]
ReadRec == [n : 0..MaxSelections, type : O!Type \cup {O!None}, timer : BOOLEAN,
            result : {O!None, "ok", "failed"}]
SelectionRec == [n : 0..MaxSelections, types : {{}} \cup Offers]
PeerRec == [n : 0..MaxSelections, formats : SUBSET Called, asked : Nat, answered : Nat]

\* The types of the selection of the session, in parts.
LEMMA OfferParts ==
  ASSUME OfferTypes
  PROVE  /\ selection \in SelectionRec /\ signals \in Seq(SelectionRec) /\ offer \in OfferRec
         /\ reply \in {O!None, "ok", "fail"} /\ request \in RequestRec /\ read \in ReadRec
         /\ toServer \in Seq(ServerPDU) /\ toClient \in Seq(ClientPDU)
         /\ peer \in PeerRec /\ stopped \in BOOLEAN
BY DEF OfferTypes, O!TypeOK, OfferRec, SelectionRec, RequestRec, ReadRec, PeerRec

\* The types follow from those of the parts.
LEMMA OfferTypesFrom ==
  ASSUME selection' \in SelectionRec, signals' \in Seq(SelectionRec), offer' \in OfferRec,
         reply' \in {O!None, "ok", "fail"}, request' \in RequestRec, read' \in ReadRec,
         toServer' \in Seq(ServerPDU), toClient' \in Seq(ClientPDU),
         peer' \in PeerRec, stopped' \in BOOLEAN
  PROVE  OfferTypes'
BY DEF OfferRec, O!TypeOK, SelectionRec, RequestRec, ReadRec, OfferTypes, PeerRec

\* The values for no mime type are none.
LEMMA NoneIsNoType == /\ O!None \notin O!Type /\ O!Unknown \notin O!Type /\ O!None # O!Unknown
                      /\ F!None \notin F!Type /\ MaxSelections \in Nat
BY ClipboardAssumption DEF O!Type, F!Type, O!None, O!Unknown, F!None

\* How many PDUs of a kind there are in a queue.
LEMMA KindsFinite ==
  ASSUME NEW S, NEW s \in Seq(S), NEW kind
  PROVE  IsFiniteSet(Kinds(s, kind)) /\ Cardinality(Kinds(s, kind)) \in Nat
<1>1. Len(s) \in Nat /\ DOMAIN s = 1 .. Len(s)  BY LenProperties
<1>2. IsFiniteSet(1 .. Len(s))  BY <1>1, FS_Interval
<1>3. Kinds(s, kind) \subseteq 1 .. Len(s)  BY <1>1 DEF Kinds
<1>4. IsFiniteSet(Kinds(s, kind))  BY <1>2, <1>3, FS_Subset
<1> QED  BY <1>4, FS_CardinalityType

\* One PDU more of a kind.
LEMMA CountAppend ==
  ASSUME NEW S, NEW s \in Seq(S), NEW x \in S, NEW kind
  PROVE  Cardinality(Kinds(Append(s, x), kind)) =
           Cardinality(Kinds(s, kind)) + (IF x.kind = kind THEN 1 ELSE 0)
<1> DEFINE t == Append(s, x)
           n == Len(s) + 1
<1>1. /\ t \in Seq(S) /\ Len(t) = Len(s) + 1 /\ t[n] = x
      /\ \A i \in 1 .. Len(s) : t[i] = s[i]
  BY AppendProperties
<1>2. DOMAIN t = 1 .. n /\ DOMAIN s = 1 .. Len(s) /\ Len(s) \in Nat  BY <1>1, LenProperties
<1> HIDE DEF t
<1>3. n \notin Kinds(s, kind)  BY <1>2 DEF Kinds
<1>4. IsFiniteSet(Kinds(s, kind)) /\ Cardinality(Kinds(s, kind)) \in Nat  BY KindsFinite
<1>5. CASE x.kind = kind
  <2>1. Kinds(t, kind) = Kinds(s, kind) \cup {n}  BY <1>1, <1>2, <1>5 DEF Kinds
  <2>2. Cardinality(Kinds(s, kind) \cup {n}) = Cardinality(Kinds(s, kind)) + 1
    BY <1>3, <1>4, FS_AddElement
  <2> QED  BY <1>5, <2>1, <2>2 DEF t
<1>6. CASE x.kind # kind
  <2>1. Kinds(t, kind) = Kinds(s, kind)  BY <1>1, <1>2, <1>6 DEF Kinds
  <2> QED  BY <1>4, <1>6, <2>1 DEF t
<1> QED  BY <1>5, <1>6

\* One PDU less of a kind.
LEMMA CountTail ==
  ASSUME NEW S, NEW s \in Seq(S), s # <<>>, NEW kind
  PROVE  Cardinality(Kinds(s, kind)) =
           Cardinality(Kinds(Tail(s), kind)) + (IF Head(s).kind = kind THEN 1 ELSE 0)
<1> DEFINE t == Tail(s)
           K == Kinds(t, kind)
           T == {i + 1 : i \in K}
           f == [i \in K |-> i + 1]
<1>1. /\ t \in Seq(S) /\ Len(t) = Len(s) - 1 /\ \A i \in 1 .. Len(t) : t[i] = s[i + 1]
      /\ Len(s) \in Nat \ {0} /\ Head(s) = s[1]
  BY HeadTailProperties, EmptySeq
<1>2. DOMAIN t = 1 .. Len(t) /\ DOMAIN s = 1 .. Len(s) /\ Len(t) \in Nat  BY <1>1, LenProperties
<1>3. K \subseteq Nat  BY <1>2 DEF Kinds
<1>4. IsFiniteSet(K) /\ Cardinality(K) \in Nat  BY <1>1, KindsFinite
<1> HIDE DEF t
<1>5. T = {i \in DOMAIN s : i # 1 /\ s[i].kind = kind}
  <2>1. ASSUME NEW i \in K PROVE i + 1 \in DOMAIN s /\ i + 1 # 1 /\ s[i + 1].kind = kind
    BY <1>1, <1>2 DEF Kinds
  <2>2. ASSUME NEW i \in DOMAIN s, i # 1, s[i].kind = kind PROVE i - 1 \in K /\ i = (i - 1) + 1
    BY <1>1, <1>2, <2>2 DEF Kinds
  <2>3. ASSUME NEW i, i \in T PROVE i \in DOMAIN s /\ i # 1 /\ s[i].kind = kind
    <3>1. PICK j \in K : i = j + 1  BY <2>3
    <3> QED  BY <2>1, <3>1
  <2>4. ASSUME NEW i \in DOMAIN s, i # 1, s[i].kind = kind PROVE i \in T
    BY <2>2, <2>4
  <2> HIDE DEF T, K
  <2> QED  BY <2>3, <2>4
<1>6. IsFiniteSet(T) /\ Cardinality(T) = Cardinality(K)
  <2> HIDE DEF K
  <2>1. f \in Bijection(K, T)
    <3>1. f \in [K -> T]  OBVIOUS
    <3>2. \A i, j \in K : f[i] = f[j] => i = j  BY <1>3
    <3>3. \A y \in T : \E i \in K : f[i] = y  OBVIOUS
    <3> HIDE DEF f, T
    <3> QED  BY <3>1, <3>2, <3>3 DEF Bijection, Injection, Surjection, IsInjective
  <2>2. ExistsBijection(K, T)  BY <2>1 DEF ExistsBijection
  <2> QED  BY <1>4, <2>2, FS_Bijection
<1> HIDE DEF T, f, K
<1>7. 1 \notin T /\ 1 \in DOMAIN s  BY <1>1, <1>2, <1>5
<1>8. CASE Head(s).kind = kind
  <2>1. Kinds(s, kind) = T \cup {1}  BY <1>1, <1>5, <1>7, <1>8 DEF Kinds
  <2>2. Cardinality(T \cup {1}) = Cardinality(T) + 1  BY <1>6, <1>7, FS_AddElement
  <2> QED  BY <1>6, <1>8, <2>1, <2>2 DEF K, t
<1>9. CASE Head(s).kind # kind
  <2>1. Kinds(s, kind) = T  BY <1>1, <1>5, <1>7, <1>9 DEF Kinds
  <2>2. Cardinality(K) = Cardinality(K) + 0  BY <1>4
  <2> QED  BY <1>6, <1>9, <2>1, <2>2 DEF K, t
<1> QED  BY <1>8, <1>9

\* What is sent to the client stays in turn: content that is not older than the lists, a
\* list that is not older than them, and what the client receives.
LEMMA SentData ==
  ASSUME NEW s \in Seq(ClientPDU), NEW m \in Nat, InTurn(s), ListsUpTo(s, m),
         NEW x \in ClientPDU, x.kind = "data", x.ok => m <= x.n
  PROVE  /\ Append(s, x) \in Seq(ClientPDU) /\ InTurn(Append(s, x)) /\ ListsUpTo(Append(s, x), m)
         /\ Cardinality(Kinds(Append(s, x), "data")) = Cardinality(Kinds(s, "data")) + 1
<1> DEFINE t == Append(s, x)
<1>1. /\ t \in Seq(ClientPDU) /\ Len(t) = Len(s) + 1 /\ t[Len(s) + 1] = x
      /\ \A i \in 1 .. Len(s) : t[i] = s[i]
  BY AppendProperties
<1>2. DOMAIN t = 1 .. Len(s) + 1 /\ DOMAIN s = 1 .. Len(s) /\ Len(s) \in Nat
  BY <1>1, LenProperties
<1>3. Cardinality(Kinds(t, "data")) = Cardinality(Kinds(s, "data")) + 1  BY CountAppend
<1> HIDE DEF t
<1>4. \A i \in DOMAIN s : s[i] \in ClientPDU  BY <1>2, ElementOfSeq
<1>5. \A i \in DOMAIN t : i = Len(s) + 1 \/ i \in DOMAIN s  BY <1>2
<1>6. ListsUpTo(t, m)  BY <1>1, <1>2, <1>5 DEF ListsUpTo
<1>7. InTurn(t)
  <2> SUFFICES ASSUME NEW i \in DOMAIN t, NEW j \in DOMAIN t, i < j,
                      t[i].kind = "list", t[j].kind = "data", t[j].ok
               PROVE  t[j].n >= t[i].n
    BY DEF InTurn
  <2>1. i \in DOMAIN s  BY <1>1, <1>2, <1>5
  <2>2. CASE j \in DOMAIN s  BY <1>1, <1>2, <2>1, <2>2 DEF InTurn
  <2>3. CASE j = Len(s) + 1  BY <1>1, <1>2, <2>1, <2>3, <1>4 DEF ListsUpTo, ClientPDU
  <2> QED  BY <1>5, <2>2, <2>3
<1> QED  BY <1>1, <1>3, <1>6, <1>7 DEF t

\* A list that is not older than those before may be sent.
LEMMA SentList ==
  ASSUME NEW s \in Seq(ClientPDU), NEW m \in Nat, InTurn(s), ListsUpTo(s, m),
         NEW x \in ClientPDU, x.kind = "list", m <= x.n
  PROVE  /\ Append(s, x) \in Seq(ClientPDU) /\ InTurn(Append(s, x)) /\ ListsUpTo(Append(s, x), x.n)
         /\ Cardinality(Kinds(Append(s, x), "data")) = Cardinality(Kinds(s, "data"))
<1> DEFINE t == Append(s, x)
<1>1. /\ t \in Seq(ClientPDU) /\ Len(t) = Len(s) + 1 /\ t[Len(s) + 1] = x
      /\ \A i \in 1 .. Len(s) : t[i] = s[i]
  BY AppendProperties
<1>2. DOMAIN t = 1 .. Len(s) + 1 /\ DOMAIN s = 1 .. Len(s) /\ Len(s) \in Nat
  BY <1>1, LenProperties
<1>3. Cardinality(Kinds(t, "data")) = Cardinality(Kinds(s, "data"))
  <2>1. Cardinality(Kinds(t, "data")) = Cardinality(Kinds(s, "data")) + 0  BY CountAppend
  <2>2. Cardinality(Kinds(s, "data")) \in Nat  BY KindsFinite
  <2> HIDE DEF t
  <2> QED  BY <2>1, <2>2
<1> HIDE DEF t
<1>4. \A i \in DOMAIN s : s[i].n \in Nat  BY <1>2, ElementOfSeq DEF ClientPDU
<1>5. \A i \in DOMAIN t : i = Len(s) + 1 \/ i \in DOMAIN s  BY <1>2
<1>6. x.n \in Nat  BY DEF ClientPDU
<1>7. ListsUpTo(t, x.n)
  <2> SUFFICES ASSUME NEW i \in DOMAIN t, t[i].kind = "list" PROVE t[i].n <= x.n
    BY DEF ListsUpTo
  <2>1. CASE i \in DOMAIN s  BY <1>1, <1>2, <2>1, <1>4, <1>6 DEF ListsUpTo
  <2>2. CASE i = Len(s) + 1  BY <1>1, <1>6, <2>2
  <2> QED  BY <1>5, <2>1, <2>2
<1>8. InTurn(t)  BY <1>1, <1>5, <1>2 DEF InTurn
<1> QED  BY <1>1, <1>3, <1>7, <1>8 DEF t

\* What is left when the client took one PDU.
LEMMA Received ==
  ASSUME NEW s \in Seq(ClientPDU), NEW m, s # <<>>, InTurn(s), ListsUpTo(s, m)
  PROVE  /\ Tail(s) \in Seq(ClientPDU) /\ InTurn(Tail(s)) /\ ListsUpTo(Tail(s), m)
         /\ Head(s) \in ClientPDU
<1> DEFINE t == Tail(s)
<1>1. /\ t \in Seq(ClientPDU) /\ Len(t) = Len(s) - 1 /\ \A i \in 1 .. Len(t) : t[i] = s[i + 1]
      /\ Head(s) \in ClientPDU
  BY HeadTailProperties
<1>2. DOMAIN t = 1 .. Len(s) - 1 /\ DOMAIN s = 1 .. Len(s) /\ Len(s) \in Nat
  BY <1>1, LenProperties
<1> HIDE DEF t
<1>3. \A i \in DOMAIN t : i + 1 \in DOMAIN s /\ t[i] = s[i + 1]  BY <1>1, <1>2
<1>4. \A i, j \in DOMAIN t : i < j => i + 1 < j + 1  BY <1>2
<1>5. InTurn(t)  BY <1>3, <1>4 DEF InTurn
<1>6. ListsUpTo(t, m)  BY <1>3 DEF ListsUpTo
<1> QED  BY <1>1, <1>5, <1>6 DEF t

\* What an aborted read leaves: nothing without a read, and one response with one.
LEMMA Aborted ==
  ASSUME OfferTypes, SelectionsInOrder, ReadIsFor, NEW r \in O!AbortResults
  PROVE  /\ toClient \o r \in Seq(ClientPDU) /\ InTurn(toClient \o r)
         /\ ListsUpTo(toClient \o r, offer.made)
         /\ Cardinality(Kinds(toClient \o r, "data")) =
              Cardinality(Kinds(toClient, "data")) + (IF read = O!NoRead THEN 0 ELSE 1)
<1>1. /\ toClient \in Seq(ClientPDU) /\ offer.made \in Nat /\ read.n \in 0..MaxSelections
      /\ MaxSelections \in Nat
  BY OfferParts, NoneIsNoType DEF OfferRec, ReadRec
<1>2. InTurn(toClient) /\ ListsUpTo(toClient, offer.made)  BY DEF SelectionsInOrder
<1>3. CASE read = O!NoRead  BY <1>3, <1>1, ConcatEmptySeq, KindsFinite, <1>2 DEF O!AbortResults
<1>4. CASE read # O!NoRead
  <2>1. PICK x \in {O!Content(read.n), O!Failure} : r = <<x>>
    BY <1>4 DEF O!AbortResults, O!ResponseTo
  <2>2. x \in ClientPDU /\ x.kind = "data" /\ (x.ok => x.n = read.n)
    <3>1. CASE x = O!Content(read.n)  BY <3>1, <1>1 DEF O!Content, ClientPDU
    <3>2. CASE x = O!Failure  BY <3>2, <1>1 DEF O!Failure, ClientPDU
    <3> QED  BY <2>1, <3>1, <3>2
  <2>3. x.ok => offer.made <= x.n  BY <1>4, <2>2 DEF ReadIsFor
  <2>4. toClient \o r = Append(toClient, x)  BY <1>1, <2>1, <2>2, AppendIsConcat
  <2>5. /\ Append(toClient, x) \in Seq(ClientPDU) /\ InTurn(Append(toClient, x))
        /\ ListsUpTo(Append(toClient, x), offer.made)
        /\ Cardinality(Kinds(Append(toClient, x), "data")) = Cardinality(Kinds(toClient, "data")) + 1
    BY <1>1, <1>2, <2>2, <2>3, SentData
  <2> QED  BY <1>4, <2>4, <2>5
<1> QED  BY <1>3, <1>4

\* The request that an aborted read was for is answered.
LEMMA ReadRequest ==
  ASSUME OfferInv, read # O!NoRead
  PROVE  /\ ~stopped /\ ~request.completed /\ ~request.source /\ request.type # O!None
         /\ O!Answered(request) = [request EXCEPT !.type = O!None, !.completed = TRUE]
BY DEF OfferInv, ReadIsFor, O!RequestInHand, O!Answered

\* A request that was answered.
LEMMA AnsweredRequest ==
  ASSUME OfferTypes, ~request.completed
  PROVE  LET r == O!Answered(request)
         IN  /\ r \in RequestRec
             /\ r.waiting = request.waiting /\ r.type = O!None /\ r.source = request.source
             /\ r.completed
BY OfferParts DEF O!Answered, RequestRec

\* There is no selection in the beginning.
LEMMA OfferInit == O!Init => OfferInv
<1> SUFFICES ASSUME O!Init PROVE OfferInv
  OBVIOUS
<1> USE DEF O!Init
<1>1. MaxSelections \in Nat /\ 0 \in 0..MaxSelections  BY NoneIsNoType
<1>2. OfferTypes
  <2>1. O!TypeOK  BY <1>1 DEF O!TypeOK, O!NoRead
  <2> QED  BY <1>1, <2>1 DEF OfferTypes
<1>3. DOMAIN signals = {} /\ DOMAIN toClient = {} /\ DOMAIN toServer = {}  OBVIOUS
<1>4. SignalsInOrder  BY <1>3 DEF SignalsInOrder
<1>5. SelectionsInOrder  BY <1>3 DEF SelectionsInOrder, ListsUpTo, InTurn
<1>6. ReadIsFor  BY DEF ReadIsFor
<1>7. O!RequestInHand  BY DEF O!RequestInHand
<1>8. RequestsCounted
  <2>1. Kinds(toClient, "data") = {} /\ Kinds(toServer, "request") = {}  BY <1>3 DEF Kinds
  <2>2. Cardinality({}) = 0  BY FS_EmptySet
  <2>3. Waiting = 0 /\ InHand = 0  BY DEF Waiting, InHand
  <2>4. peer.asked = 0 /\ peer.answered = 0  OBVIOUS
  <2>5. 0 = 0 + 0 + 0 + 0 + 0  OBVIOUS
  <2> HIDE DEF O!Init
  <2> QED  BY <2>1, <2>2, <2>3, <2>4, <2>5 DEF RequestsCounted
<1> QED  BY <1>2, <1>4, <1>5, <1>6, <1>7, <1>8 DEF OfferInv

\* A read that is aborted leaves no request in hand that nobody answers.
LEMMA AbortedRead ==
  ASSUME OfferInv, ~stopped, O!AbortRead
  PROVE  /\ read' = O!NoRead /\ read' \in ReadRec /\ request' \in RequestRec
         /\ Waiting' = Waiting /\ Waiting \in Nat /\ InHand' \in Nat
         /\ InHand = InHand' + (IF read = O!NoRead THEN 0 ELSE 1)
         /\ request'.source => request'.type # O!None
         /\ request'.completed <=> request'.type = O!None
         /\ request'.type # O!None => request'.source
<1> USE DEF OfferInv
<1>1. read' = O!NoRead /\ request' = IF read = O!NoRead THEN request ELSE O!Answered(request)
  BY DEF O!AbortRead
<1>2. read' \in ReadRec  BY <1>1, NoneIsNoType DEF O!NoRead, ReadRec
<1>3. CASE read = O!NoRead  BY <1>1, <1>3, <1>2, OfferParts DEF Waiting, InHand, O!RequestInHand
<1>4. CASE read # O!NoRead  BY <1>4, ReadRequest, <1>1, AnsweredRequest, <1>2 DEF Waiting, InHand
<1> QED  BY <1>3, <1>4

\* A list is announced to the client.
LEMMA ListedOffer ==
  ASSUME NEW o \in OfferRec, NEW types \in SUBSET O!Type, NEW n \in 0..MaxSelections
  PROVE  /\ O!Listed(o, types, n) \in OfferRec
         /\ O!Listed(o, types, n).pending = types /\ O!Listed(o, types, n).queued = {}
         /\ O!Listed(o, types, n).timer = o.timer /\ O!Listed(o, types, n).made = n
         /\ O!Listed(o, types, n).waits = o.waits
         /\ O!ListPDU(types, n) \in ClientPDU /\ O!ListPDU(types, n).kind = "list"
         /\ O!ListPDU(types, n).n = n
<1> DEFINE u == IF types \cap Unicode # {} THEN CHOOSE t \in types \cap Unicode : TRUE
                ELSE o.unicode
           a == o.allowed \ types
<1>1. u \in (Unicode \cup {O!None}) \cap (O!Type \cup {O!None})  BY DEF OfferRec
<1>2. a \in SUBSET O!Type  BY DEF OfferRec
<1>3. O!Listed(o, types, n) =
        [o EXCEPT !.pending = types, !.queued = {}, !.allowed = a, !.unicode = u, !.made = n]
  BY DEF O!Listed
<1> HIDE DEF u, a
<1>4. /\ O!Listed(o, types, n) \in OfferRec
      /\ O!Listed(o, types, n).pending = types /\ O!Listed(o, types, n).queued = {}
      /\ O!Listed(o, types, n).timer = o.timer /\ O!Listed(o, types, n).made = n
      /\ O!Listed(o, types, n).waits = o.waits
  BY <1>1, <1>2, <1>3 DEF OfferRec
<1>5. {O!FormatOf(t) : t \in types} \in SUBSET Called  BY DEF Called
<1>6. O!ListPDU(types, n) \in ClientPDU /\ O!ListPDU(types, n).kind = "list"
      /\ O!ListPDU(types, n).n = n
  BY <1>5 DEF O!ListPDU, ClientPDU
<1> QED  BY <1>4, <1>6

\* The orders of the selections when the lists change.
LEMMA OrderKept ==
  ASSUME OfferTypes, SignalsInOrder, SelectionsInOrder, ReadIsFor,
         UNCHANGED <<selection, signals, read, stopped>>,
         offer'.made = offer.made, offer'.waits = offer.waits,
         offer'.queued # {} => offer.queued # {},
         ListsUpTo(toClient', offer.made), InTurn(toClient')
  PROVE  SignalsInOrder' /\ SelectionsInOrder' /\ ReadIsFor'
BY DEF SignalsInOrder, SelectionsInOrder, ReadIsFor

\* The queued list is sent, if there is one.
LEMMA SendingQueued ==
  ASSUME OfferTypes, SignalsInOrder, SelectionsInOrder, ReadIsFor,
         NEW o \in OfferRec, o.made = offer.made, o.waits = offer.waits,
         o.queued = offer.queued, ~o.timer,
         O!SendQueued(o), UNCHANGED <<selection, signals, read, stopped>>
  PROVE  /\ offer' \in OfferRec /\ toClient' \in Seq(ClientPDU)
         /\ offer'.queued = {} /\ ~offer'.timer
         /\ SignalsInOrder' /\ SelectionsInOrder' /\ ReadIsFor'
         /\ Cardinality(Kinds(toClient', "data")) = Cardinality(Kinds(toClient, "data"))
<1>1. toClient \in Seq(ClientPDU)  BY OfferParts
<1>2. CASE o.queued = {}  BY <1>2, OrderKept, <1>1 DEF O!SendQueued, SelectionsInOrder
<1>3. CASE o.queued # {}
  <2> DEFINE x == O!ListPDU(o.queued, o.waits)
  <2>1. offer' = O!Listed(o, o.queued, o.waits) /\ toClient' = Append(toClient, x)
    BY <1>3 DEF O!SendQueued
  <2>2. o.queued \in SUBSET O!Type /\ o.waits \in 0..MaxSelections /\ offer.made \in Nat
        /\ offer.waits \in Nat
    BY OfferParts, NoneIsNoType DEF OfferRec
  <2>3. /\ offer' \in OfferRec /\ offer'.queued = {} /\ ~offer'.timer
        /\ offer'.made = offer.waits /\ offer'.waits = offer.waits
        /\ x \in ClientPDU /\ x.kind = "list" /\ x.n = offer.waits
    <3> DEFINE types == o.queued
               n == o.waits
    <3>1. types \in SUBSET O!Type /\ n \in 0..MaxSelections  BY <2>2
    <3>2. x = O!ListPDU(types, n) /\ offer' = O!Listed(o, types, n)  BY <2>1
    <3>3. n = offer.waits /\ o.waits = offer.waits /\ ~o.timer  OBVIOUS
    <3> HIDE DEF types, n, x
    <3>4. /\ O!Listed(o, types, n) \in OfferRec /\ O!Listed(o, types, n).queued = {}
          /\ O!Listed(o, types, n).timer = o.timer /\ O!Listed(o, types, n).made = n
          /\ O!Listed(o, types, n).waits = o.waits
          /\ O!ListPDU(types, n) \in ClientPDU /\ O!ListPDU(types, n).kind = "list"
          /\ O!ListPDU(types, n).n = n
      BY <3>1, ListedOffer
    <3> QED  BY <3>2, <3>3, <3>4
  <2>4. offer.made <= x.n /\ ListsUpTo(toClient, offer.made) /\ InTurn(toClient)
    BY <1>3, <2>3 DEF SelectionsInOrder
  <2> HIDE DEF x
  <2>5. /\ Append(toClient, x) \in Seq(ClientPDU) /\ InTurn(Append(toClient, x))
        /\ ListsUpTo(Append(toClient, x), x.n)
        /\ Cardinality(Kinds(Append(toClient, x), "data")) = Cardinality(Kinds(toClient, "data"))
    BY <1>1, <2>2, <2>3, <2>4, SentList
  <2>6. SignalsInOrder'  BY <2>3 DEF SignalsInOrder
  <2>7. SelectionsInOrder'  BY <2>1, <2>3, <2>5 DEF SelectionsInOrder
  <2>8. ReadIsFor'  BY <1>3, <2>3 DEF ReadIsFor
  <2> QED  BY <2>1, <2>3, <2>5, <2>6, <2>7, <2>8
<1> QED  BY <1>2, <1>3

\* A step that aborts the read, if there is one, and sends what it left.
LEMMA AbortStep ==
  ASSUME OfferInv, ~stopped, O!AbortRead, UNCHANGED <<reply, toServer, peer, stopped>>,
         selection' \in SelectionRec, signals' \in Seq(SelectionRec), offer' \in OfferRec,
         toClient' \in Seq(ClientPDU),
         Cardinality(Kinds(toClient', "data")) =
           Cardinality(Kinds(toClient, "data")) + (IF read = O!NoRead THEN 0 ELSE 1),
         SignalsInOrder', SelectionsInOrder',
         offer'.queued # {} => offer'.pending # {}, offer'.queued # {} <=> offer'.timer
  PROVE  OfferInv'
<1> USE DEF OfferInv
<1>1. /\ read' = O!NoRead /\ read' \in ReadRec /\ request' \in RequestRec
      /\ Waiting' = Waiting /\ Waiting \in Nat /\ InHand' \in Nat
      /\ InHand = InHand' + (IF read = O!NoRead THEN 0 ELSE 1)
      /\ request'.source => request'.type # O!None
      /\ request'.completed <=> request'.type = O!None
      /\ request'.type # O!None => request'.source
  BY AbortedRead
<1>2. OfferTypes'  BY <1>1, OfferParts, OfferTypesFrom
<1>3. ReadIsFor'  BY <1>1 DEF ReadIsFor
<1>4. O!RequestInHand'  BY <1>1 DEF O!RequestInHand
<1>5. RequestsCounted'
  <2> DEFINE d == Cardinality(Kinds(toClient, "data"))
             d1 == Cardinality(Kinds(toClient', "data"))
             q == Cardinality(Kinds(toServer, "request"))
             b == IF read = O!NoRead THEN 0 ELSE 1
             w == Waiting
             h == InHand
             h1 == InHand'
  <2>1. d \in Nat /\ q \in Nat /\ peer.asked \in Nat /\ peer.answered \in Nat
    BY OfferParts, KindsFinite DEF PeerRec
  <2>2. b \in Nat /\ w \in Nat /\ h1 \in Nat /\ d1 = d + b /\ h = h1 + b /\ Waiting' = w
    BY <1>1
  <2>3. peer.asked = peer.answered + d + q + w + h  BY DEF RequestsCounted
  <2> HIDE DEF d, d1, q, b, w, h, h1
  <2>4. peer.asked = peer.answered + d1 + q + w + h1  BY <2>1, <2>2, <2>3
  <2> QED  BY <2>2, <2>4 DEF RequestsCounted, d1, q, w, h1
<1> QED  BY <1>2, <1>3, <1>4, <1>5

\* The session has a new selection: its list is sent now, or queued, and the read that is
\* under way is given up.
LEMMA OfSelectionOwnerChanged == ASSUME OfferInv, O!SelectionOwnerChanged PROVE OfferInv'
<1> USE DEF OfferInv
<1> DEFINE new == Head(signals)
           types == O!Advertised(new.types)
<1>1. /\ ~stopped /\ signals # <<>> /\ signals' = Tail(signals) /\ O!AbortRead
      /\ UNCHANGED <<selection, reply, toServer, peer, stopped>>
  BY DEF O!SelectionOwnerChanged
<1>2. PICK r \in O!AbortResults :
        IF types = {} THEN offer' = offer /\ toClient' = toClient \o r
        ELSE IF offer.pending # {}
        THEN /\ offer' = [offer EXCEPT !.queued = types, !.timer = TRUE, !.waits = new.n]
             /\ toClient' = toClient \o r
        ELSE /\ offer' = O!Listed(offer, types, new.n)
             /\ toClient' = (toClient \o r) \o <<O!ListPDU(types, new.n)>>
  BY DEF O!SelectionOwnerChanged
<1>3. /\ toClient \o r \in Seq(ClientPDU) /\ InTurn(toClient \o r)
      /\ ListsUpTo(toClient \o r, offer.made)
      /\ Cardinality(Kinds(toClient \o r, "data")) =
           Cardinality(Kinds(toClient, "data")) + (IF read = O!NoRead THEN 0 ELSE 1)
  BY Aborted
<1>4. /\ new \in SelectionRec /\ signals' \in Seq(SelectionRec)
      /\ Len(signals) \in Nat \ {0} /\ DOMAIN signals = 1 .. Len(signals) /\ new = signals[1]
      /\ DOMAIN signals' = 1 .. Len(signals) - 1
      /\ \A i \in DOMAIN signals' : i + 1 \in DOMAIN signals /\ signals'[i] = signals[i + 1]
  BY OfferParts, <1>1, HeadTailProperties, EmptySeq, LenProperties
<1>5. types \in SUBSET O!Type /\ new.n \in 0..MaxSelections
  BY <1>4 DEF SelectionRec, O!Advertised, O!Type
<1>6. 1 \in DOMAIN signals  BY <1>4
<1>7. /\ new.n <= selection.n /\ offer.made <= new.n /\ offer.waits <= new.n
      /\ \A i \in DOMAIN signals' : /\ new.n <= signals'[i].n /\ signals'[i].n <= selection.n
                                    /\ offer.made <= signals'[i].n /\ offer.waits <= signals'[i].n
  <2>1. /\ new.n <= selection.n /\ offer.made <= new.n /\ offer.waits <= new.n
    BY <1>4, <1>6 DEF SignalsInOrder
  <2>2. ASSUME NEW i \in DOMAIN signals'
        PROVE  /\ new.n <= signals'[i].n /\ signals'[i].n <= selection.n
               /\ offer.made <= signals'[i].n /\ offer.waits <= signals'[i].n
    BY <1>4, <1>6 DEF SignalsInOrder
  <2> QED  BY <2>1, <2>2
<1>8. \A i, j \in DOMAIN signals' : i < j => signals'[i].n <= signals'[j].n
  BY <1>4 DEF SignalsInOrder
<1>9. selection' = selection  BY <1>1
<1>10. /\ offer \in OfferRec /\ offer.made \in Nat /\ offer.waits \in Nat
       /\ (offer.queued # {} => offer.pending # {}) /\ (offer.queued # {} <=> offer.timer)
  BY <1>1, OfferParts, NoneIsNoType DEF OfferRec, O!RequestInHand
<1>11. /\ offer' \in OfferRec /\ toClient' \in Seq(ClientPDU)
       /\ offer'.made \in {offer.made, new.n} /\ offer'.waits \in {offer.waits, new.n}
       /\ offer'.queued # {} => offer'.made <= offer'.waits
       /\ ListsUpTo(toClient', offer'.made) /\ InTurn(toClient')
       /\ offer'.queued # {} => offer'.pending # {}
       /\ offer'.queued # {} <=> offer'.timer
       /\ Cardinality(Kinds(toClient', "data")) = Cardinality(Kinds(toClient \o r, "data"))
  <2> DEFINE n == new.n
             s == toClient \o r
             x == O!ListPDU(types, n)
  <2> HIDE DEF types, new
  <2>1. CASE types = {}  BY <1>2, <2>1, <1>3, <1>10 DEF SelectionsInOrder
  <2>2. CASE types # {} /\ offer.pending # {}
    <3>1. offer' = [offer EXCEPT !.queued = types, !.timer = TRUE, !.waits = n]
          /\ toClient' = toClient \o r
      BY <1>2, <2>2
    <3>2. /\ offer' \in OfferRec /\ offer'.queued = types /\ offer'.timer /\ offer'.waits = n
          /\ offer'.made = offer.made /\ offer'.pending = offer.pending
      <4> HIDE DEF n
      <4>1. n \in 0..MaxSelections  BY <1>5 DEF n
      <4> QED  BY <1>5, <1>10, <3>1, <4>1 DEF OfferRec
    <3> QED  BY <1>3, <1>7, <2>2, <3>1, <3>2
  <2>3. CASE types # {} /\ offer.pending = {}
    <3>1. offer' = O!Listed(offer, types, n) /\ toClient' = s \o <<x>>  BY <1>2, <2>3
    <3>2. /\ O!Listed(offer, types, n) \in OfferRec
          /\ O!Listed(offer, types, n).pending = types /\ O!Listed(offer, types, n).queued = {}
          /\ O!Listed(offer, types, n).timer = offer.timer /\ O!Listed(offer, types, n).made = n
          /\ O!Listed(offer, types, n).waits = offer.waits
          /\ x \in ClientPDU /\ x.kind = "list" /\ x.n = n
      <4> HIDE DEF n
      <4>1. n \in 0..MaxSelections /\ types \in SUBSET O!Type /\ offer \in OfferRec
        BY <1>5, <1>10 DEF n
      <4> QED  BY <4>1, ListedOffer
    <3>3. s \in Seq(ClientPDU) /\ InTurn(s) /\ ListsUpTo(s, offer.made) /\ offer.made <= x.n
      BY <1>3, <1>7, <3>2
    <3> HIDE DEF n, s, x
    <3>4. s \o <<x>> = Append(s, x)  BY <3>2, <3>3, AppendIsConcat
    <3>5. /\ Append(s, x) \in Seq(ClientPDU) /\ InTurn(Append(s, x)) /\ ListsUpTo(Append(s, x), x.n)
          /\ Cardinality(Kinds(Append(s, x), "data")) = Cardinality(Kinds(s, "data"))
      BY <1>10, <3>2, <3>3, SentList
    <3>6. offer'.queued = {} /\ ~offer'.timer  BY <1>10, <2>3, <3>1, <3>2
    <3> QED  BY <3>1, <3>2, <3>4, <3>5, <3>6 DEF n, s
  <2> QED  BY <2>1, <2>2, <2>3
<1> HIDE DEF types, new
<1>12. SignalsInOrder'  BY <1>7, <1>8, <1>9, <1>11 DEF SignalsInOrder
<1>13. SelectionsInOrder'  BY <1>7, <1>9, <1>11 DEF SelectionsInOrder
<1>14. selection' \in SelectionRec  BY <1>9, OfferParts
<1> QED  BY <1>1, <1>3, <1>4, <1>11, <1>12, <1>13, <1>14, AbortStep

\* A step that only sends a queued list, if there is one.
LEMMA QueuedStep ==
  ASSUME OfferInv, NEW o \in OfferRec, o.made = offer.made, o.waits = offer.waits,
         o.queued = offer.queued, ~o.timer, O!SendQueued(o), reply' \in {O!None, "ok", "fail"},
         UNCHANGED <<selection, signals, request, read, toServer, peer, stopped>>
  PROVE  OfferInv'
<1> USE DEF OfferInv
<1>1. /\ offer' \in OfferRec /\ toClient' \in Seq(ClientPDU)
      /\ offer'.queued = {} /\ ~offer'.timer
      /\ SignalsInOrder' /\ SelectionsInOrder' /\ ReadIsFor'
      /\ Cardinality(Kinds(toClient', "data")) = Cardinality(Kinds(toClient, "data"))
  BY SendingQueued
<1>2. OfferTypes'  BY <1>1, OfferParts, OfferTypesFrom
<1>3. O!RequestInHand'  BY <1>1 DEF O!RequestInHand
<1>4. RequestsCounted'  BY <1>1 DEF RequestsCounted, Waiting, InHand
<1> QED  BY <1>1, <1>2, <1>3, <1>4

\* What the answer to a list allows.
LEMMA AllowedOffer ==
  ASSUME OfferTypes, NEW flag
  PROVE  /\ O!Allowed(offer, flag) \in OfferRec
         /\ O!Allowed(offer, flag).made = offer.made /\ O!Allowed(offer, flag).waits = offer.waits
         /\ O!Allowed(offer, flag).queued = offer.queued
<1>1. offer \in OfferRec  BY OfferParts
<1> DEFINE a == offer.allowed \cup offer.pending
<1>2. a \in SUBSET O!Type /\ {} \in SUBSET O!Type  BY <1>1 DEF OfferRec
<1>3. O!Allowed(offer, flag) = [offer EXCEPT !.allowed = a, !.pending = {}]
      \/ O!Allowed(offer, flag) = [offer EXCEPT !.allowed = {}, !.pending = {}]
  BY DEF O!Allowed
<1> HIDE DEF a
<1> QED  BY <1>1, <1>2, <1>3 DEF OfferRec

\* The timer of a list is removed.
LEMMA UntimedOffer ==
  ASSUME NEW o \in OfferRec
  PROVE  /\ [o EXCEPT !.timer = FALSE] \in OfferRec
         /\ [o EXCEPT !.timer = FALSE].made = o.made /\ [o EXCEPT !.timer = FALSE].waits = o.waits
         /\ [o EXCEPT !.timer = FALSE].queued = o.queued /\ ~[o EXCEPT !.timer = FALSE].timer
BY DEF OfferRec

\* The client answered a list, and the queued one is sent.
LEMMA OfHandleFormatListResponse ==
  ASSUME OfferInv, O!HandleFormatListResponse PROVE OfferInv'
<1> DEFINE a == IF offer.pending # {} THEN O!Allowed(offer, reply) ELSE offer
           o == [a EXCEPT !.timer = FALSE]
<1>1. /\ reply' = O!None /\ O!SendQueued(o)
      /\ UNCHANGED <<selection, signals, request, read, toServer, peer, stopped>>
  BY DEF O!HandleFormatListResponse
<1>2. a \in OfferRec /\ a.made = offer.made /\ a.waits = offer.waits /\ a.queued = offer.queued
  BY OfferParts, AllowedOffer DEF OfferInv
<1> HIDE DEF a
<1>3. o \in OfferRec /\ o.made = offer.made /\ o.waits = offer.waits /\ o.queued = offer.queued
      /\ ~o.timer
  BY <1>2, UntimedOffer
<1> HIDE DEF o
<1>4. reply' \in {O!None, "ok", "fail"}  BY <1>1
<1> QED  BY <1>1, <1>3, <1>4, QueuedStep

\* The client did not answer a list in time.
LEMMA OfDropPending == ASSUME OfferInv, O!DropPending PROVE OfferInv'
<1> DEFINE a == O!Allowed(offer, O!None)
           o == [a EXCEPT !.timer = FALSE]
<1>1. /\ O!SendQueued(o)
      /\ UNCHANGED <<selection, signals, reply, request, read, toServer, peer, stopped>>
  BY DEF O!DropPending
<1>2. a \in OfferRec /\ a.made = offer.made /\ a.waits = offer.waits /\ a.queued = offer.queued
  BY AllowedOffer DEF OfferInv
<1> HIDE DEF a
<1>3. o \in OfferRec /\ o.made = offer.made /\ o.waits = offer.waits /\ o.queued = offer.queued
      /\ ~o.timer
  BY <1>2, UntimedOffer
<1> HIDE DEF o
<1>4. reply' \in {O!None, "ok", "fail"}  BY <1>1, OfferParts DEF OfferInv
<1>5. UNCHANGED <<selection, signals, request, read, toServer, peer, stopped>>  BY <1>1
<1> QED  BY <1>1, <1>3, <1>4, <1>5, QueuedStep

\* Reading the content took too long.
LEMMA OfReadTimeout == ASSUME OfferInv, O!ReadTimeout PROVE OfferInv'
BY Aborted, OfferParts, AbortStep DEF OfferInv, O!ReadTimeout, SignalsInOrder, SelectionsInOrder,
   O!RequestInHand

\* The content was read and is sent.
LEMMA OfReadComplete == ASSUME OfferInv, O!ReadComplete PROVE OfferInv'
<1> USE DEF OfferInv
<1>1. /\ ~stopped /\ read.result # O!None /\ request' = O!Answered(request) /\ read' = O!NoRead
      /\ toClient' = Append(toClient, O!ResponseTo(read.result, read.n))
      /\ UNCHANGED <<selection, signals, offer, reply, toServer, peer, stopped>>
  BY DEF O!ReadComplete
<1>2. read # O!NoRead  BY <1>1 DEF O!NoRead
<1>3. O!AbortRead  BY <1>1, <1>2 DEF O!AbortRead
<1> DEFINE x == O!ResponseTo(read.result, read.n)
<1>4. toClient \in Seq(ClientPDU) /\ x \in ClientPDU  /\ <<x>> \in O!AbortResults
  <2>1. toClient \in Seq(ClientPDU) /\ read.n \in 0..MaxSelections /\ 0 \in 0..MaxSelections
    BY OfferParts, NoneIsNoType DEF ReadRec
  <2>2. x = [kind |-> "data", n |-> read.n, ok |-> TRUE]
        \/ x = [kind |-> "data", n |-> 0, ok |-> FALSE]
    BY DEF O!ResponseTo, O!Content, O!Failure
  <2>3. x \in ClientPDU
    <3>1. [kind |-> "data", n |-> read.n, ok |-> TRUE] \in ClientPDU  BY <2>1 DEF ClientPDU
    <3>2. [kind |-> "data", n |-> 0, ok |-> FALSE] \in ClientPDU  BY <2>1 DEF ClientPDU
    <3> HIDE DEF x
    <3> QED  BY <2>2, <3>1, <3>2
  <2>4. <<x>> \in O!AbortResults  BY <1>1, <1>2 DEF O!AbortResults
  <2> QED  BY <2>1, <2>3, <2>4
<1>5. toClient \o <<x>> = Append(toClient, x)
  <2> HIDE DEF x
  <2> QED  BY <1>4, AppendIsConcat
<1>6. /\ toClient' \in Seq(ClientPDU) /\ InTurn(toClient') /\ ListsUpTo(toClient', offer.made)
      /\ Cardinality(Kinds(toClient', "data")) =
           Cardinality(Kinds(toClient, "data")) + (IF read = O!NoRead THEN 0 ELSE 1)
  <2> DEFINE r == <<x>>
  <2>1. toClient' = toClient \o r /\ r \in O!AbortResults  BY <1>1, <1>4, <1>5
  <2> HIDE DEF r
  <2> QED  BY <2>1, Aborted
<1>7. SignalsInOrder'  BY <1>1 DEF SignalsInOrder
<1>8. SelectionsInOrder'  BY <1>1, <1>6 DEF SelectionsInOrder
<1>9. /\ selection' \in SelectionRec /\ signals' \in Seq(SelectionRec) /\ offer' \in OfferRec
  BY <1>1, OfferParts
<1>10. (offer'.queued # {} => offer'.pending # {}) /\ (offer'.queued # {} <=> offer'.timer)
  BY <1>1 DEF O!RequestInHand
<1> QED  BY <1>1, <1>3, <1>6, <1>7, <1>8, <1>9, <1>10, AbortStep

\* The client has the selection: the read and the queued list are given up.
LEMMA OfClientTakesSelection == ASSUME OfferInv, O!ClientTakesSelection PROVE OfferInv'
<1> USE DEF OfferInv
<1>1. /\ ~stopped /\ O!AbortRead /\ selection' = [selection EXCEPT !.types = {}]
      /\ UNCHANGED <<signals, reply, toServer, peer, stopped>>
  BY DEF O!ClientTakesSelection
<1>2. PICK types \in Offers, r \in O!AbortResults :
        offer' = [offer EXCEPT !.allowed = @ \ types] /\ toClient' = toClient \o r
  BY DEF O!ClientTakesSelection
<1>3. /\ toClient' \in Seq(ClientPDU) /\ InTurn(toClient') /\ ListsUpTo(toClient', offer.made)
      /\ Cardinality(Kinds(toClient', "data")) =
           Cardinality(Kinds(toClient, "data")) + (IF read = O!NoRead THEN 0 ELSE 1)
  BY <1>2, Aborted
<1>4. /\ offer' \in OfferRec /\ offer'.made = offer.made /\ offer'.waits = offer.waits
      /\ offer'.queued = offer.queued /\ offer'.pending = offer.pending /\ offer'.timer = offer.timer
  <2> DEFINE a == offer.allowed \ types
  <2>1. offer \in OfferRec /\ offer' = [offer EXCEPT !.allowed = a]  BY <1>2, OfferParts
  <2>2. a \in SUBSET O!Type  BY <2>1 DEF OfferRec
  <2> HIDE DEF a
  <2> QED  BY <2>1, <2>2 DEF OfferRec
<1>5. selection' \in SelectionRec /\ selection'.n = selection.n
  BY <1>1, OfferParts DEF SelectionRec
<1>6. SignalsInOrder'  BY <1>1, <1>4, <1>5 DEF SignalsInOrder
<1>7. SelectionsInOrder'  BY <1>3, <1>4, <1>5 DEF SelectionsInOrder
<1>8. signals' \in Seq(SelectionRec)  BY <1>1, OfferParts
<1>9. (offer'.queued # {} => offer'.pending # {}) /\ (offer'.queued # {} <=> offer'.timer)
  BY <1>1, <1>4 DEF O!RequestInHand
<1> QED  BY <1>1, <1>3, <1>4, <1>5, <1>6, <1>7, <1>8, <1>9, AbortStep

\* The thread that reads has a result.
LEMMA OfReadThread == ASSUME OfferInv, O!ReadThread PROVE OfferInv'
<1> USE DEF OfferInv
<1>1. /\ read # O!NoRead /\ read.result = O!None
      /\ UNCHANGED <<selection, signals, offer, reply, request, toServer, toClient, peer, stopped>>
  BY DEF O!ReadThread
<1>2. PICK x \in {"ok", "failed"} : read' = [read EXCEPT !.result = x]  BY DEF O!ReadThread
<1>3. /\ read' \in ReadRec /\ read'.n = read.n /\ read'.type = read.type
  BY <1>2, OfferParts DEF ReadRec
<1>4. OfferTypes'  BY <1>1, <1>3, OfferParts, OfferTypesFrom
<1>5. SignalsInOrder' /\ SelectionsInOrder'  BY <1>1 DEF SignalsInOrder, SelectionsInOrder
<1>6. ReadIsFor'  BY <1>1, <1>3 DEF ReadIsFor
<1>7. O!RequestInHand'
  <2>1. read' # O!NoRead
    <3>1. read'.type # O!None  BY <1>1, <1>3 DEF ReadIsFor
    <3> QED  BY <3>1 DEF O!NoRead
  <2> QED  BY <1>1, <1>3, <2>1 DEF O!RequestInHand
<1>8. RequestsCounted'  BY <1>1 DEF RequestsCounted, Waiting, InHand
<1> QED  BY <1>4, <1>5, <1>6, <1>7, <1>8

\* The main thread starts to read the content, or the request fails.
LEMMA OfRequestServerFormatData == ASSUME OfferInv, O!RequestServerFormatData PROVE OfferInv'
<1> USE DEF OfferInv
<1>1. /\ ~stopped /\ request.source
      /\ UNCHANGED <<selection, signals, offer, reply, toServer, peer, stopped>>
  BY DEF O!RequestServerFormatData
<1>2. read = O!NoRead /\ request.type # O!None /\ ~request.completed
  BY <1>1 DEF O!RequestInHand
<1>3. SignalsInOrder'  BY <1>1 DEF SignalsInOrder
<1>4. request \in RequestRec /\ offer \in OfferRec /\ toClient \in Seq(ClientPDU)  BY OfferParts
<1>5. CASE /\ request.type \in offer.allowed
           /\ \E r \in O!AbortResults : toClient' = toClient \o r
           /\ request' = [request EXCEPT !.source = FALSE]
           /\ read' = [n |-> selection.n, type |-> request.type, timer |-> TRUE,
                       result |-> O!None]
  <2>1. toClient' = toClient  BY <1>2, <1>4, <1>5, ConcatEmptySeq DEF O!AbortResults
  <2>2. /\ request' \in RequestRec /\ ~request'.source /\ request'.type = request.type
        /\ request'.completed = request.completed /\ request'.waiting = request.waiting
    BY <1>4, <1>5 DEF RequestRec
  <2>3. read' \in ReadRec /\ read'.n = selection.n /\ read'.type = request.type
    BY <1>4, <1>5, OfferParts DEF ReadRec, RequestRec, SelectionRec
  <2>4. OfferTypes'  BY <1>1, <2>1, <2>2, <2>3, OfferParts, OfferTypesFrom
  <2>5. SelectionsInOrder'  BY <1>1, <2>1 DEF SelectionsInOrder
  <2>6. ReadIsFor'  BY <1>1, <1>2, <2>3 DEF ReadIsFor, SelectionsInOrder
  <2>7. read' # O!NoRead  BY <1>2, <2>3 DEF O!NoRead
  <2>8. O!RequestInHand'  BY <1>1, <1>2, <2>2, <2>3, <2>7 DEF O!RequestInHand
  <2>9. RequestsCounted'  BY <1>1, <2>1, <2>2 DEF RequestsCounted, Waiting, InHand
  <2> QED  BY <1>3, <2>4, <2>5, <2>6, <2>8, <2>9
<1>6. CASE /\ toClient' = Append(toClient, O!Failure)
           /\ request' = [O!Answered(request) EXCEPT !.source = FALSE]
           /\ UNCHANGED read
  <2> DEFINE x == O!Failure
             a == O!Answered(request)
  <2>1. x \in ClientPDU /\ x.kind = "data" /\ ~x.ok
    <3>1. 0 \in 0..MaxSelections  BY NoneIsNoType
    <3> QED  BY <3>1 DEF O!Failure, ClientPDU
  <2>2. a \in RequestRec /\ a.waiting = request.waiting /\ a.type = O!None /\ a.completed
    BY <1>2, AnsweredRequest
  <2>3. request' = [a EXCEPT !.source = FALSE] /\ toClient' = Append(toClient, x)  BY <1>6
  <2> HIDE DEF x, a
  <2>4. /\ request' \in RequestRec /\ request'.waiting = request.waiting
        /\ request'.type = O!None /\ request'.completed /\ ~request'.source
    BY <2>2, <2>3 DEF RequestRec
  <2>5. /\ toClient' \in Seq(ClientPDU) /\ InTurn(toClient') /\ ListsUpTo(toClient', offer.made)
        /\ Cardinality(Kinds(toClient', "data")) = Cardinality(Kinds(toClient, "data")) + 1
    BY <1>4, NoneIsNoType, <2>1, <2>3, SentData DEF OfferRec, SelectionsInOrder
  <2>6. OfferTypes'  BY <1>1, <1>6, <2>4, <2>5, OfferParts, OfferTypesFrom
  <2>7. SelectionsInOrder'  BY <1>1, <2>5 DEF SelectionsInOrder
  <2>8. ReadIsFor'  BY <1>2, <1>6 DEF ReadIsFor
  <2>9. O!RequestInHand'  BY <1>1, <1>2, <1>6, <2>4 DEF O!RequestInHand
  <2>10. RequestsCounted'
    <3> DEFINE d == Cardinality(Kinds(toClient, "data"))
               d1 == Cardinality(Kinds(toClient', "data"))
               q == Cardinality(Kinds(toServer, "request"))
               w == Waiting
    <3>1. d \in Nat /\ q \in Nat /\ peer.asked \in Nat /\ peer.answered \in Nat
      BY OfferParts, KindsFinite DEF PeerRec
    <3>2. w \in Nat /\ Waiting' = w /\ InHand = 1 /\ InHand' = 0
      BY <1>2, <2>4 DEF Waiting, InHand
    <3>3. peer.asked = peer.answered + d + q + w + 1  BY <1>1, <3>2 DEF RequestsCounted
    <3>4. d1 = d + 1  BY <2>5
    <3> HIDE DEF d, d1, q, w
    <3>5. peer.asked = peer.answered + d1 + q + w + 0  BY <3>1, <3>2, <3>3, <3>4
    <3> QED  BY <1>1, <3>2, <3>5 DEF RequestsCounted, d1, q, w
  <2> QED  BY <1>3, <2>6, <2>7, <2>8, <2>9, <2>10
<1> QED  BY <1>5, <1>6 DEF O!RequestServerFormatData

\* The disposal.
LEMMA OfOfferDispose == ASSUME OfferInv, O!Dispose PROVE OfferInv'
<1> USE DEF OfferInv
<1>1. /\ stopped' = TRUE /\ reply' = O!None /\ read' = O!NoRead
      /\ request' = [waiting |-> O!None, type |-> O!None, source |-> FALSE,
                     completed |-> request.completed]
      /\ offer' = [offer EXCEPT !.pending = {}, !.queued = {}, !.allowed = {}, !.timer = FALSE]
      /\ UNCHANGED <<selection, signals, toServer, toClient, peer>>
  BY DEF O!Dispose
<1>2. read' \in ReadRec  BY <1>1, NoneIsNoType DEF O!NoRead, ReadRec
<1>3. request' \in RequestRec  BY <1>1, OfferParts DEF RequestRec
<1>4. /\ offer' \in OfferRec /\ offer'.made = offer.made /\ offer'.waits = offer.waits
      /\ offer'.queued = {}
  BY OfferParts, <1>1 DEF OfferRec
<1>5. OfferTypes'  BY <1>1, <1>2, <1>3, <1>4, OfferParts, OfferTypesFrom
<1>6. SignalsInOrder'  BY <1>1, <1>4 DEF SignalsInOrder
<1>7. SelectionsInOrder'  BY <1>1, <1>4 DEF SelectionsInOrder
<1>8. ReadIsFor' /\ O!RequestInHand' /\ RequestsCounted'
  BY <1>1 DEF ReadIsFor, O!RequestInHand, RequestsCounted
<1> QED  BY <1>5, <1>6, <1>7, <1>8

\* The requests of the client are counted where they are.
LEMMA FirstToServer ==
  ASSUME OfferTypes, toServer # <<>>
  PROVE  /\ Tail(toServer) \in Seq(ServerPDU) /\ Head(toServer) \in ServerPDU
         /\ Cardinality(Kinds(toServer, "request")) =
              Cardinality(Kinds(Tail(toServer), "request"))
                + (IF Head(toServer).kind = "request" THEN 1 ELSE 0)
         /\ Cardinality(Kinds(Tail(toServer), "request")) \in Nat
BY OfferParts, HeadTailProperties, CountTail, KindsFinite

\* The thread of the channel hands the answer to a list on.
LEMMA OfClientFormatListResponse ==
  ASSUME OfferInv, O!ClientFormatListResponse PROVE OfferInv'
<1> USE DEF OfferInv
<1>1. /\ ~stopped /\ toServer # <<>> /\ Head(toServer).kind = "response"
      /\ toServer' = Tail(toServer)
      /\ reply' = IF reply = O!None THEN Head(toServer).flag ELSE reply
      /\ UNCHANGED <<selection, signals, offer, request, read, toClient, peer, stopped>>
  BY DEF O!ClientFormatListResponse
<1>2. /\ toServer' \in Seq(ServerPDU) /\ Head(toServer) \in ServerPDU
      /\ Cardinality(Kinds(toServer, "request")) = Cardinality(Kinds(toServer', "request")) + 0
      /\ Cardinality(Kinds(toServer', "request")) \in Nat
  BY <1>1, FirstToServer
<1>3. reply' \in {O!None, "ok", "fail"}  BY <1>1, <1>2, OfferParts DEF ServerPDU
<1>4. OfferTypes'  BY <1>1, <1>2, <1>3, OfferParts, OfferTypesFrom
<1>5. SignalsInOrder' /\ SelectionsInOrder' /\ ReadIsFor' /\ O!RequestInHand'
  BY <1>1 DEF SignalsInOrder, SelectionsInOrder, ReadIsFor, O!RequestInHand
<1>6. Cardinality(Kinds(toServer, "request")) = Cardinality(Kinds(toServer', "request"))
  BY <1>2
<1>7. RequestsCounted'  BY <1>1, <1>6 DEF RequestsCounted, Waiting, InHand
<1> QED  BY <1>4, <1>5, <1>7

\* The thread of the channel takes a request of the client, or refuses it.
LEMMA OfClientFormatDataRequest ==
  ASSUME OfferInv, O!ClientFormatDataRequest PROVE OfferInv'
<1> USE DEF OfferInv
<1> DEFINE t == O!TypeOf(Head(toServer).format)
<1>1. /\ ~stopped /\ request.waiting = O!None /\ toServer # <<>>
      /\ Head(toServer).kind = "request" /\ toServer' = Tail(toServer)
      /\ request' = [request EXCEPT !.waiting = t]
      /\ UNCHANGED <<selection, signals, offer, reply, read, toClient, peer, stopped>>
  BY DEF O!ClientFormatDataRequest
<1>2. /\ toServer' \in Seq(ServerPDU)
      /\ Cardinality(Kinds(toServer, "request")) = Cardinality(Kinds(toServer', "request")) + 1
      /\ Cardinality(Kinds(toServer', "request")) \in Nat
  BY <1>1, FirstToServer
<1>3. t \in O!Type \cup {O!Unknown} /\ t # O!None
  <2>1. offer.unicode \in O!Type \cup {O!None}  BY OfferParts DEF OfferRec
  <2>2. t \in O!Type \cup {O!Unknown}  BY <2>1 DEF O!TypeOf
  <2> HIDE DEF t
  <2> QED  BY <2>2, NoneIsNoType
<1> HIDE DEF t
<1>4. /\ request' \in RequestRec /\ request'.waiting = t /\ request'.type = request.type
      /\ request'.source = request.source /\ request'.completed = request.completed
  BY <1>1, <1>3, OfferParts DEF RequestRec
<1>5. OfferTypes'  BY <1>1, <1>2, <1>4, OfferParts, OfferTypesFrom
<1>6. SignalsInOrder' /\ SelectionsInOrder' /\ ReadIsFor'
  BY <1>1 DEF SignalsInOrder, SelectionsInOrder, ReadIsFor
<1>7. O!RequestInHand'  BY <1>1, <1>4 DEF O!RequestInHand
<1>8. RequestsCounted'
  <2> DEFINE d == Cardinality(Kinds(toClient, "data"))
             q == Cardinality(Kinds(toServer, "request"))
             q1 == Cardinality(Kinds(toServer', "request"))
             h == InHand
  <2>1. d \in Nat /\ q1 \in Nat /\ q = q1 + 1 /\ peer.asked \in Nat /\ peer.answered \in Nat
    BY <1>2, OfferParts, KindsFinite DEF PeerRec
  <2>2. h \in Nat /\ InHand' = h /\ Waiting = 0 /\ Waiting' = 1
    BY <1>1, <1>3, <1>4 DEF Waiting, InHand
  <2>3. peer.asked = peer.answered + d + q + 0 + h  BY <1>1, <2>2 DEF RequestsCounted
  <2> HIDE DEF d, q, q1, h
  <2>4. peer.asked = peer.answered + d + q1 + 1 + h  BY <2>1, <2>2, <2>3
  <2> QED  BY <1>1, <2>2, <2>4 DEF RequestsCounted, d, q1, h
<1> QED  BY <1>5, <1>6, <1>7, <1>8

\* The thread of the channel hands the request on, when the last one is completed.
LEMMA OfTakeRequest == ASSUME OfferInv, O!TakeRequest PROVE OfferInv'
<1> USE DEF OfferInv
<1>1. /\ ~stopped /\ request.waiting # O!None /\ request.completed
      /\ UNCHANGED <<selection, signals, offer, reply, read, toServer, peer, stopped>>
  BY DEF O!TakeRequest
<1>2. request.type = O!None /\ read = O!NoRead
  BY <1>1 DEF O!RequestInHand, ReadIsFor
<1>3. SignalsInOrder' /\ ReadIsFor'  BY <1>1, <1>2 DEF SignalsInOrder, ReadIsFor
<1>4. request \in RequestRec /\ toClient \in Seq(ClientPDU) /\ offer \in OfferRec  BY OfferParts
<1> DEFINE d == Cardinality(Kinds(toClient, "data"))
           q == Cardinality(Kinds(toServer, "request"))
<1>5. d \in Nat /\ q \in Nat /\ peer.asked \in Nat /\ peer.answered \in Nat
  BY OfferParts, KindsFinite DEF PeerRec
<1>6. Waiting = 1 /\ InHand = 0  BY <1>1 DEF Waiting, InHand
<1>7. peer.asked = peer.answered + d + q + 1 + 0  BY <1>1, <1>6 DEF RequestsCounted
<1>8. CASE /\ request.waiting = O!Unknown /\ request' = [request EXCEPT !.waiting = O!None]
           /\ toClient' = Append(toClient, O!Failure)
  <2> DEFINE x == O!Failure
             d1 == Cardinality(Kinds(toClient', "data"))
  <2>1. x \in ClientPDU /\ x.kind = "data" /\ ~x.ok
    <3>1. 0 \in 0..MaxSelections  BY NoneIsNoType
    <3> QED  BY <3>1 DEF O!Failure, ClientPDU
  <2>2. toClient' = Append(toClient, x)  BY <1>8
  <2> HIDE DEF x
  <2>3. /\ toClient' \in Seq(ClientPDU) /\ InTurn(toClient') /\ ListsUpTo(toClient', offer.made)
        /\ d1 = d + 1
    BY <1>4, NoneIsNoType, <2>1, <2>2, SentData DEF OfferRec, SelectionsInOrder
  <2>4. /\ request' \in RequestRec /\ request'.waiting = O!None /\ request'.type = request.type
        /\ request'.source = request.source /\ request'.completed = request.completed
    BY <1>4, <1>8 DEF RequestRec
  <2>5. OfferTypes'  BY <1>1, <2>3, <2>4, OfferParts, OfferTypesFrom
  <2>6. SelectionsInOrder'  BY <1>1, <2>3 DEF SelectionsInOrder
  <2>7. O!RequestInHand'  BY <1>1, <2>4 DEF O!RequestInHand
  <2>8. RequestsCounted'
    <3>1. Waiting' = 0 /\ InHand' = 0  BY <1>1, <2>4 DEF Waiting, InHand
    <3> HIDE DEF d, d1, q
    <3>2. peer.asked = peer.answered + d1 + q + 0 + 0  BY <1>5, <1>7, <2>3
    <3> QED  BY <1>1, <3>1, <3>2 DEF RequestsCounted, d1, q
  <2> QED  BY <1>3, <2>5, <2>6, <2>7, <2>8
<1>9. CASE /\ request.waiting # O!Unknown /\ UNCHANGED toClient
           /\ request' = [waiting |-> O!None, type |-> request.waiting,
                          source |-> TRUE, completed |-> FALSE]
  <2>1. request.waiting \in O!Type  BY <1>1, <1>4, <1>9 DEF RequestRec
  <2>2. request' \in RequestRec  BY <1>9, <2>1 DEF RequestRec
  <2>3. OfferTypes'  BY <1>1, <1>9, <2>2, OfferParts, OfferTypesFrom
  <2>4. SelectionsInOrder'  BY <1>1, <1>9 DEF SelectionsInOrder
  <2>5. O!RequestInHand'  BY <1>1, <1>2, <1>9 DEF O!RequestInHand
  <2>6. RequestsCounted'
    <3>1. Waiting' = 0 /\ InHand' = 1  BY <1>9 DEF Waiting, InHand
    <3> HIDE DEF d, q
    <3>2. peer.asked = peer.answered + d + q + 0 + 1  BY <1>5, <1>7
    <3> QED  BY <1>1, <1>9, <3>1, <3>2 DEF RequestsCounted, d, q
  <2> QED  BY <1>3, <2>3, <2>4, <2>5, <2>6
<1> QED  BY <1>8, <1>9 DEF O!TakeRequest

\* An application of the session has a new selection.
LEMMA OfNewOffer == ASSUME OfferInv, O!NewSelection PROVE OfferInv'
<1> USE DEF OfferInv
<1>1. /\ selection.n < MaxSelections /\ signals' = Append(signals, selection')
      /\ UNCHANGED <<offer, reply, request, read, toServer, toClient, peer, stopped>>
  BY DEF O!NewSelection
<1>2. PICK types \in Offers : selection' = [n |-> selection.n + 1, types |-> types]
  BY DEF O!NewSelection
<1>3. MaxSelections \in Nat /\ selection.n \in 0..MaxSelections /\ selection.n \in Nat
      /\ offer.made \in Nat /\ offer.waits \in Nat
  BY NoneIsNoType, OfferParts DEF SelectionRec, OfferRec
<1>4. selection' \in SelectionRec /\ selection'.n = selection.n + 1
  BY <1>1, <1>2, <1>3 DEF SelectionRec
<1>5. signals \in Seq(SelectionRec) /\ Len(signals) \in Nat /\ DOMAIN signals = 1 .. Len(signals)
  BY OfferParts, LenProperties
<1>6. /\ signals' \in Seq(SelectionRec) /\ Len(signals') = Len(signals) + 1
      /\ \A i \in 1 .. Len(signals) : signals'[i] = signals[i]
      /\ signals'[Len(signals) + 1] = selection'
  BY <1>1, <1>4, <1>5, AppendProperties
<1>7. DOMAIN signals' = 1 .. Len(signals) + 1  BY <1>6, LenProperties
<1>8. OfferTypes'  BY <1>1, <1>4, <1>6, OfferParts, OfferTypesFrom
<1>9. ASSUME NEW i \in DOMAIN signals
      PROVE  /\ signals[i].n \in Nat /\ signals[i].n <= selection.n
             /\ offer.made <= signals[i].n /\ offer.waits <= signals[i].n
             /\ signals'[i] = signals[i]
  <2>1. signals[i] \in SelectionRec  BY <1>5, ElementOfSeq
  <2> QED  BY <1>3, <1>5, <1>6, <2>1 DEF SelectionRec, SignalsInOrder
<1>10. \A i \in DOMAIN signals' : i \in DOMAIN signals \/ (i = Len(signals) + 1 /\ signals'[i] = selection')
  BY <1>5, <1>6, <1>7
<1>11. offer.made <= selection.n /\ offer.waits <= selection.n  BY DEF SelectionsInOrder
<1>12. ASSUME NEW i \in DOMAIN signals'
       PROVE  /\ signals'[i].n <= selection'.n /\ offer.made <= signals'[i].n
              /\ offer.waits <= signals'[i].n
  BY <1>3, <1>4, <1>9, <1>10, <1>11
<1>13. ASSUME NEW i \in DOMAIN signals', NEW j \in DOMAIN signals', i < j
       PROVE  signals'[i].n <= signals'[j].n
  BY <1>5, <1>7, <1>13, <1>9, <1>12, <1>10 DEF SignalsInOrder
<1>14. SignalsInOrder'  BY <1>1, <1>12, <1>13 DEF SignalsInOrder
<1>15. SelectionsInOrder'  BY <1>1, <1>3, <1>4, <1>11 DEF SelectionsInOrder
<1>16. ReadIsFor' /\ O!RequestInHand'  BY <1>1 DEF ReadIsFor, O!RequestInHand
<1>17. RequestsCounted'  BY <1>1 DEF RequestsCounted, Waiting, InHand
<1> QED  BY <1>8, <1>14, <1>15, <1>16, <1>17

\* The client takes a PDU and may answer a list.
LEMMA OfClientReceives == ASSUME OfferInv, O!ClientReceives PROVE OfferInv'
<1> USE DEF OfferInv
<1> DEFINE pdu == Head(toClient)
           d == Cardinality(Kinds(toClient, "data"))
           d1 == Cardinality(Kinds(toClient', "data"))
           q == Cardinality(Kinds(toServer, "request"))
           q1 == Cardinality(Kinds(toServer', "request"))
           w == Waiting
           h == InHand
<1>1. /\ toClient # <<>> /\ toClient' = Tail(toClient)
      /\ UNCHANGED <<selection, signals, offer, reply, request, read, stopped>>
  BY DEF O!ClientReceives
<1>2. toClient \in Seq(ClientPDU) /\ toServer \in Seq(ServerPDU) /\ peer \in PeerRec
  BY OfferParts
<1>3. /\ toClient' \in Seq(ClientPDU) /\ InTurn(toClient') /\ ListsUpTo(toClient', offer.made)
      /\ pdu \in ClientPDU
  BY <1>1, <1>2, Received DEF SelectionsInOrder
<1>4. d = d1 + (IF pdu.kind = "data" THEN 1 ELSE 0) /\ d1 \in Nat /\ q \in Nat
  BY <1>1, <1>2, <1>3, CountTail, KindsFinite
<1>5. w \in Nat /\ h \in Nat /\ Waiting' = w /\ InHand' = h  BY <1>1 DEF Waiting, InHand
<1>6. SignalsInOrder' /\ SelectionsInOrder' /\ ReadIsFor' /\ O!RequestInHand'
  BY <1>1, <1>3 DEF SignalsInOrder, SelectionsInOrder, ReadIsFor, O!RequestInHand
<1>7. ~stopped => peer.asked = peer.answered + d + q + w + h  BY DEF RequestsCounted
<1>8. peer.asked \in Nat /\ peer.answered \in Nat  BY <1>2 DEF PeerRec
<1>9. CASE pdu.kind = "data" /\ peer' = [peer EXCEPT !.answered = @ + 1] /\ UNCHANGED toServer
  <2> DEFINE a == peer.answered + 1
  <2>1. a \in Nat /\ peer' = [peer EXCEPT !.answered = a]  BY <1>8, <1>9
  <2>2. peer' \in PeerRec /\ peer'.asked = peer.asked /\ peer'.answered = a
    <3> HIDE DEF a
    <3> QED  BY <1>2, <2>1 DEF PeerRec
  <2>3. OfferTypes'  BY <1>1, <1>3, <1>9, <2>2, OfferParts, OfferTypesFrom
  <2>4. d = d1 + 1 /\ q1 = q  BY <1>4, <1>9
  <2> HIDE DEF pdu, d, d1, q, q1, w, h
  <2>5. ASSUME ~stopped PROVE peer.asked = a + d1 + q1 + w + h
    BY <1>7, <2>5, <1>4, <1>5, <1>8, <2>4
  <2>6. RequestsCounted'  BY <1>1, <1>5, <2>2, <2>5 DEF RequestsCounted, d1, q1
  <2> QED  BY <1>6, <2>3, <2>6
<1>10. CASE /\ pdu.kind = "list" /\ peer' = [peer EXCEPT !.n = pdu.n, !.formats = pdu.formats]
            /\ \/ UNCHANGED toServer
               \/ \E f \in {"ok", "fail"} :
                    toServer' = Append(toServer, [kind |-> "response", flag |-> f])
  <2>1. pdu.n \in 0..MaxSelections /\ pdu.formats \in SUBSET Called  BY <1>3, <1>10 DEF ClientPDU
  <2>2. peer' \in PeerRec /\ peer'.asked = peer.asked /\ peer'.answered = peer.answered
    <3> HIDE DEF pdu
    <3> QED  BY <1>2, <1>10, <2>1 DEF PeerRec
  <2>3. d = d1  BY <1>4, <1>10
  <2>4. toServer' \in Seq(ServerPDU) /\ q1 = q
    <3>1. CASE UNCHANGED toServer  BY <1>2, <3>1
    <3>2. CASE \E f \in {"ok", "fail"} :
                    toServer' = Append(toServer, [kind |-> "response", flag |-> f])
      <4>1. PICK f \in {"ok", "fail"} :
              toServer' = Append(toServer, [kind |-> "response", flag |-> f])
        BY <3>2
      <4> DEFINE x == [kind |-> "response", flag |-> f]
      <4>2. x \in ServerPDU /\ x.kind # "request" /\ toServer' = Append(toServer, x)
        BY <4>1 DEF ServerPDU
      <4> HIDE DEF x
      <4>3. toServer' \in Seq(ServerPDU) /\ q1 = q + 0  BY <1>2, <4>2, AppendProperties, CountAppend
      <4> HIDE DEF q, q1
      <4> QED  BY <1>4, <4>3
    <3> QED  BY <1>10, <3>1, <3>2
  <2>5. OfferTypes'  BY <1>1, <1>3, <2>2, <2>4, OfferParts, OfferTypesFrom
  <2> HIDE DEF pdu, d, d1, q, q1, w, h
  <2>6. ~stopped => peer.asked = peer.answered + d1 + q1 + w + h  BY <1>7, <2>3, <2>4
  <2>7. RequestsCounted'  BY <1>1, <1>5, <2>2, <2>6 DEF RequestsCounted, d1, q1
  <2> QED  BY <1>6, <2>5, <2>7
<1>11. pdu.kind # "data" => pdu.kind = "list"  BY <1>3 DEF ClientPDU
<1> QED  BY <1>9, <1>10, <1>11 DEF O!ClientReceives

\* The client asks for content.
LEMMA OfClientAsks == ASSUME OfferInv, O!ClientAsks PROVE OfferInv'
<1> USE DEF OfferInv
<1>1. /\ peer' = [peer EXCEPT !.asked = @ + 1]
      /\ UNCHANGED <<selection, signals, offer, reply, request, read, toClient, stopped>>
  BY DEF O!ClientAsks
<1>2. PICK f \in peer.formats \cup {"other"} :
        toServer' = Append(toServer, [kind |-> "request", format |-> f])
  BY DEF O!ClientAsks
<1> DEFINE x == [kind |-> "request", format |-> f]
           a == peer.asked + 1
           d == Cardinality(Kinds(toClient, "data"))
           q == Cardinality(Kinds(toServer, "request"))
           q1 == Cardinality(Kinds(toServer', "request"))
           w == Waiting
           h == InHand
<1>3. toClient \in Seq(ClientPDU) /\ toServer \in Seq(ServerPDU) /\ peer \in PeerRec
  BY OfferParts
<1>4. peer.asked \in Nat /\ peer.answered \in Nat /\ f \in Called \cup {"other"}
  BY <1>2, <1>3 DEF PeerRec
<1>5. x \in ServerPDU /\ x.kind = "request" /\ toServer' = Append(toServer, x)
  BY <1>2, <1>4 DEF ServerPDU
<1>6. peer' \in PeerRec /\ peer'.asked = a /\ peer'.answered = peer.answered
  <2>1. a \in Nat /\ peer' = [peer EXCEPT !.asked = a]  BY <1>1, <1>4
  <2> HIDE DEF a
  <2> QED  BY <1>3, <2>1 DEF PeerRec
<1> HIDE DEF x
<1>7. toServer' \in Seq(ServerPDU) /\ q1 = q + 1  BY <1>3, <1>5, AppendProperties, CountAppend
<1>8. d \in Nat /\ q \in Nat  BY <1>3, KindsFinite
<1>9. w \in Nat /\ h \in Nat /\ Waiting' = w /\ InHand' = h  BY <1>1 DEF Waiting, InHand
<1>10. OfferTypes'  BY <1>1, <1>6, <1>7, OfferParts, OfferTypesFrom
<1>11. SignalsInOrder' /\ SelectionsInOrder' /\ ReadIsFor' /\ O!RequestInHand'
  BY <1>1 DEF SignalsInOrder, SelectionsInOrder, ReadIsFor, O!RequestInHand
<1>12. ~stopped => peer.asked = peer.answered + d + q + w + h  BY DEF RequestsCounted
<1>13. RequestsCounted'
  <2> HIDE DEF d, q, q1, w, h
  <2>1. ASSUME ~stopped PROVE a = peer.answered + d + q1 + w + h
    <3>1. peer.asked = peer.answered + d + q + w + h  BY <1>12, <2>1
    <3>2. peer.asked \in Nat /\ peer.answered \in Nat /\ w \in Nat /\ h \in Nat  BY <1>4, <1>9
    <3>3. q1 = q + 1  BY <1>7
    <3> QED  BY <1>8, <3>1, <3>2, <3>3
  <2> HIDE DEF a
  <2> QED  BY <1>1, <1>6, <1>9, <2>1 DEF RequestsCounted, d, q1
<1> QED  BY <1>10, <1>11, <1>13

\* The steps of the selection of the session.
LEMMA OfferStep == ASSUME OfferInv, O!Next PROVE OfferInv'
<1>1. CASE O!Main
  BY <1>1, OfSelectionOwnerChanged, OfHandleFormatListResponse, OfDropPending,
     OfRequestServerFormatData, OfReadComplete, OfReadTimeout, OfClientTakesSelection,
     OfOfferDispose DEF O!Main
<1>2. CASE O!ReadThread  BY <1>2, OfReadThread
<1>3. CASE O!Channel
  BY <1>3, OfClientFormatListResponse, OfClientFormatDataRequest, OfTakeRequest DEF O!Channel
<1>4. CASE O!Environment
  BY <1>4, OfNewOffer, OfClientReceives, OfClientAsks DEF O!Environment
<1> QED  BY <1>1, <1>2, <1>3, <1>4 DEF O!Next

\* The other parts of the clipboard do not disturb the selection of the session.
LEMMA OfferStutter == ASSUME OfferInv, UNCHANGED offerVars PROVE OfferInv'
<1> USE DEF offerVars, OfferInv
<1>1. OfferTypes'  BY DEF OfferTypes, O!TypeOK
<1>2. SignalsInOrder' /\ SelectionsInOrder' /\ ReadIsFor' /\ O!RequestInHand'
  BY DEF SignalsInOrder, SelectionsInOrder, ReadIsFor, O!RequestInHand
<1>3. RequestsCounted'  BY DEF RequestsCounted, Waiting, InHand
<1> QED  BY <1>1, <1>2, <1>3

\* What the invariant of the selection of the session says is enough.
LEMMA OfferResults ==
  ASSUME OfferInv
  PROVE  O!TypeOK /\ O!RequestInHand /\ O!OneResponse /\ O!ContentBeforeList
<1> USE DEF OfferInv
<1>1. O!TypeOK  BY DEF OfferTypes
<1>2. \A S : O!Cardinality(S) = Cardinality(S)
  BY DEF O!Cardinality, Cardinality, O!IsFiniteSet, IsFiniteSet
<1>3. O!OneResponse  BY <1>2 DEF Kinds, O!OneResponse, RequestsCounted, Waiting, InHand
<1>4. O!ContentBeforeList  BY DEF SelectionsInOrder, InTurn, O!ContentBeforeList
<1> QED  BY <1>1, <1>3, <1>4

(* The clipboard of the client. *)

FetchRec == [current : F!Type \cup {F!None}, ordered : Seq(F!Type),
             pending : [F!Type -> SUBSET Nat], cache : [F!Type -> What],
             response : Response, timer : BOOLEAN, written : Seq(Seq(What)),
             since : Seq(0..MaxCopies)]
ListsRec == [waiting : SUBSET ListPDU, completed : BOOLEAN]
OwnedRec == [n : 0..MaxCopies, types : {{}} \cup Lists]
TransferRec == [serial : Nat, type : F!Type]

\* Of the serials, some that waited are written with one of what; the others stay.
Stays(f, g, s) ==
  g.written[s] = f.written[s] /\ \A t \in F!Type : s \in g.pending[t] <=> s \in f.pending[t]
Leaves(f, g, s, what) ==
  /\ f.written[s] = <<>> /\ \E t \in F!Type : s \in f.pending[t]
  /\ \E w \in what : g.written[s] = <<w>>
  /\ \A t \in F!Type : s \notin g.pending[t]
Moves(f, g, what) ==
  /\ DOMAIN g.written = DOMAIN f.written /\ g.since = f.since
  /\ \A s \in DOMAIN f.written : Stays(f, g, s) \/ Leaves(f, g, s, what)
  /\ \A t \in F!Type : g.pending[t] \subseteq f.pending[t]

\* The values for no mime type and for no content.
LEMMA NoneIsNoMimeType == /\ F!None \notin F!Type /\ MaxCopies \in Nat
                          /\ F!Failed \in What /\ F!NoResponse \in Response
<1>1. F!None \notin F!Type  BY ClipboardAssumption DEF F!Type, F!None
<1>2. MaxCopies \in Nat  BY ClipboardAssumption
<1>3. 0 \in 0..MaxCopies  BY <1>2
<1> QED  BY <1>1, <1>2, <1>3 DEF F!Failed, F!NoResponse, What, Response

\* Cardinality is the same in ClipboardFetch.
LEMMA FetchCardinality == \A S : F!Cardinality(S) = Cardinality(S)
BY DEF F!Cardinality, Cardinality, F!IsFiniteSet, IsFiniteSet

\* The types of the clipboard of the client, in parts.
LEMMA FetchParts ==
  ASSUME FetchTypes
  PROVE  /\ clip \in OwnedRec /\ up \in Seq(ListPDU \cup ResponsePDU) /\ down \in Seq(F!Type)
         /\ idles \in Seq(ListPDU \cup {ResponseSource}) /\ lists \in ListsRec
         /\ (\A x, y \in lists.waiting : x = y)
         /\ owned \in OwnedRec /\ transfers \in Seq(TransferRec)
         /\ tables \subseteq F!Type /\ fetch \in FetchRec
         /\ (\A t \in F!Type : fetch.pending[t] \subseteq F!Serial)
         /\ disposed \in BOOLEAN /\ Len(fetch.since) = Len(fetch.written)
BY DEF FetchTypes, F!TypeOK, OwnedRec, FetchRec, ListsRec, TransferRec

\* The types follow from those of the parts.
LEMMA FetchTypesFrom ==
  ASSUME clip' \in OwnedRec, up' \in Seq(ListPDU \cup ResponsePDU), down' \in Seq(F!Type),
         idles' \in Seq(ListPDU \cup {ResponseSource}), lists' \in ListsRec,
         \A x, y \in lists'.waiting : x = y,
         owned' \in OwnedRec, transfers' \in Seq(TransferRec),
         tables' \subseteq F!Type, fetch' \in FetchRec,
         \A t \in F!Type : fetch'.pending[t] \subseteq F!Serial',
         disposed' \in BOOLEAN, Len(fetch'.since) = Len(fetch'.written)
  PROVE  FetchTypes'
<1>1. F!Cardinality(lists'.waiting) <= 1
  <2>1. CASE lists'.waiting = {}
    <3>1. Cardinality({}) = 0  BY FS_EmptySet
    <3> QED  BY <2>1, <3>1, FetchCardinality
  <2>2. CASE lists'.waiting # {}
    <3>1. PICK x : lists'.waiting = {x}  BY <2>2
    <3>2. Cardinality({x}) = 1  BY FS_Singleton
    <3> QED  BY <3>1, <3>2, FetchCardinality
  <2> QED  BY <2>1, <2>2
<1>2. fetch'.pending \in [F!Type -> SUBSET F!Serial']  BY DEF FetchRec
<1>3. /\ fetch'.current \in F!Type \cup {F!None} /\ fetch'.ordered \in Seq(F!Type)
      /\ fetch'.cache \in [F!Type -> What] /\ fetch'.timer \in BOOLEAN
      /\ lists'.completed \in BOOLEAN
  BY DEF FetchRec, ListsRec
<1>4. F!TypeOK'  BY <1>1, <1>2, <1>3 DEF F!TypeOK, OwnedRec, What
<1>5. /\ fetch' \in [current : F!Type \cup {F!None}, ordered : Seq(F!Type),
                    pending : [F!Type -> SUBSET Nat], cache : [F!Type -> What],
                    response : Response, timer : BOOLEAN, written : Seq(Seq(What)),
                    since : Seq(0..MaxCopies)]
      /\ lists' \in [waiting : SUBSET ListPDU, completed : BOOLEAN]
      /\ transfers' \in Seq([serial : Nat, type : F!Type])
  BY DEF FetchRec, ListsRec, TransferRec
<1> QED  BY <1>4, <1>5 DEF FetchTypes

\* The transfers that were made, and what was written for each.
LEMMA Transferred ==
  ASSUME NEW f \in FetchRec
  PROVE  /\ Len(f.written) \in Nat /\ DOMAIN f.written = 1 .. Len(f.written)
         /\ \A s \in DOMAIN f.written : f.written[s] \in Seq(What)
         /\ Len(f.ordered) \in Nat /\ DOMAIN f.ordered = 1 .. Len(f.ordered)
         /\ \A i \in DOMAIN f.ordered : f.ordered[i] \in F!Type
BY LenProperties, ElementOfSeq DEF FetchRec

\* What Write changes.
LEMMA Writes ==
  ASSUME NEW f \in FetchRec, NEW S, NEW what \in What
  PROVE  LET g == F!Write(f, S, what)
         IN  /\ g \in FetchRec /\ DOMAIN g.written = DOMAIN f.written
             /\ Len(g.written) = Len(f.written)
             /\ \A s \in DOMAIN f.written :
                  g.written[s] = IF s \in S THEN Append(f.written[s], what) ELSE f.written[s]
             /\ g.current = f.current /\ g.ordered = f.ordered /\ g.pending = f.pending
             /\ g.cache = f.cache /\ g.response = f.response /\ g.timer = f.timer
             /\ g.since = f.since
<1> DEFINE w == [i \in DOMAIN f.written |->
                   IF i \in S THEN Append(f.written[i], what) ELSE f.written[i]]
           g == F!Write(f, S, what)
<1>1. g = [f EXCEPT !.written = w]  BY DEF F!Write, FetchRec
<1>2. \A s \in DOMAIN f.written : Append(f.written[s], what) \in Seq(What)
  BY Transferred, AppendProperties
<1>3. w \in [DOMAIN f.written -> Seq(What)]  BY <1>2, Transferred
<1>4. f.written \in Seq(Seq(What))  BY DEF FetchRec
<1>5. \A s \in DOMAIN f.written :
        w[s] = IF s \in S THEN Append(f.written[s], what) ELSE f.written[s]
  OBVIOUS
<1> HIDE DEF w
<1>6. w \in Seq(Seq(What)) /\ Len(w) = Len(f.written) /\ DOMAIN w = DOMAIN f.written
  BY <1>3, <1>4, MappedSeq
<1>7. g \in FetchRec /\ g.written = w  BY <1>1, <1>6 DEF FetchRec
<1>8. /\ g.current = f.current /\ g.ordered = f.ordered /\ g.pending = f.pending
      /\ g.cache = f.cache /\ g.response = f.response /\ g.timer = f.timer
      /\ g.since = f.since
  BY <1>1 DEF FetchRec
<1> QED  BY <1>5, <1>6, <1>7, <1>8

\* What Serve changes: whoever waited for the mime types has what is written.
Served(f, g, types, what) ==
  /\ g \in FetchRec /\ Moves(f, g, {what}) /\ Len(g.written) = Len(f.written)
  /\ \A t \in F!Type : g.pending[t] = IF t \in types THEN {} ELSE f.pending[t]
  /\ g.current = f.current /\ g.ordered = f.ordered
  /\ g.cache = f.cache /\ g.response = f.response /\ g.timer = f.timer

\* Serve does what Served says.
LEMMA Serves ==
  ASSUME NEW f \in FetchRec, PendingOnce(f), NEW types \in SUBSET F!Type, NEW what \in What
  PROVE  Served(f, F!Serve(f, types, what), types, what)
<1> DEFINE S == UNION {f.pending[t] : t \in types}
           h == F!Write(f, S, what)
           p == [t \in F!Type |-> IF t \in types THEN {} ELSE h.pending[t]]
           g == F!Serve(f, types, what)
<1>1. /\ h \in FetchRec /\ DOMAIN h.written = DOMAIN f.written
      /\ Len(h.written) = Len(f.written)
      /\ \A s \in DOMAIN f.written :
           h.written[s] = IF s \in S THEN Append(f.written[s], what) ELSE f.written[s]
      /\ h.current = f.current /\ h.ordered = f.ordered /\ h.pending = f.pending
      /\ h.cache = f.cache /\ h.response = f.response /\ h.timer = f.timer
      /\ h.since = f.since
  BY Writes
<1>2. g = [h EXCEPT !.pending = p]  BY <1>1 DEF F!Serve, FetchRec
<1>3. f.pending \in [F!Type -> SUBSET Nat]  BY DEF FetchRec
<1>4. /\ p \in [F!Type -> SUBSET Nat]
      /\ \A t \in F!Type : p[t] = IF t \in types THEN {} ELSE f.pending[t]
  BY <1>1, <1>3
<1>5. \A s : s \in S <=> \E t \in types : s \in f.pending[t]  OBVIOUS
<1> HIDE DEF p, h, S
<1>6. /\ g \in FetchRec /\ g.pending = p /\ g.written = h.written
      /\ g.current = f.current /\ g.ordered = f.ordered
      /\ g.cache = f.cache /\ g.response = f.response /\ g.timer = f.timer
      /\ g.since = f.since
  BY <1>1, <1>2, <1>4 DEF FetchRec
<1> HIDE DEF g
<1>7. ASSUME NEW s \in DOMAIN f.written PROVE Stays(f, g, s) \/ Leaves(f, g, s, {what})
  <2>1. CASE s \in S
    <3>1. PICK t \in types : s \in f.pending[t]  BY <1>5, <2>1
    <3>2. f.written[s] = <<>> /\ \A u \in F!Type : u # t => s \notin f.pending[u]
      BY <3>1 DEF PendingOnce
    <3>3. Append(<<>>, what) = <<what>>  OBVIOUS
    <3>4. g.written[s] = <<what>>  BY <1>1, <1>6, <2>1, <3>2, <3>3
    <3>5. \A u \in F!Type : s \notin g.pending[u]  BY <1>4, <1>6, <3>1, <3>2
    <3> QED  BY <3>1, <3>2, <3>4, <3>5 DEF Leaves
  <2>2. CASE s \notin S
    <3>1. g.written[s] = f.written[s]  BY <1>1, <1>6, <2>2
    <3>2. \A t \in F!Type : s \in g.pending[t] <=> s \in f.pending[t]  BY <1>4, <1>5, <1>6, <2>2
    <3> QED  BY <3>1, <3>2 DEF Stays
  <2> QED  BY <2>1, <2>2
<1>8. \A t \in F!Type : g.pending[t] \subseteq f.pending[t]  BY <1>4, <1>6
<1>9. Moves(f, g, {what})  BY <1>1, <1>6, <1>7, <1>8 DEF Moves
<1> QED  BY <1>1, <1>4, <1>6, <1>9 DEF g, Served

\* Moves compose, and leave every serial waiting for one mime type at most.
LEMMA MovesCompose ==
  ASSUME NEW f, NEW g, NEW h, NEW C, Moves(f, g, C), Moves(g, h, C)
  PROVE  Moves(f, h, C)
<1>1. ASSUME NEW s \in DOMAIN f.written PROVE Stays(f, h, s) \/ Leaves(f, h, s, C)
  BY DEF Moves, Stays, Leaves
<1>2. \A t \in F!Type : h.pending[t] \subseteq f.pending[t]  BY DEF Moves
<1> QED  BY <1>1, <1>2 DEF Moves

\* A serial still waits for one mime type at most.
LEMMA MovesPending ==
  ASSUME NEW f, NEW g, NEW C, PendingOnce(f), Moves(f, g, C)
  PROVE  PendingOnce(g)
BY DEF PendingOnce, Moves, Leaves, Stays

\* What is written only as a failure is also written as one of what.
LEMMA MovesWeaken ==
  ASSUME NEW f, NEW g, NEW B, NEW C, Moves(f, g, B), B \subseteq C
  PROVE  Moves(f, g, C)
BY DEF Leaves, Moves

\* What the next request leaves: mime types that nobody waits for any more are skipped,
\* and whoever waits for one that cannot be requested gets a failure.
LEMMA LeastIndex ==
  ASSUME NEW T \in SUBSET Nat, T # {}
  PROVE  \E x \in T : \A y \in T : x <= y
<1> DEFINE R == OpToRel(<, Nat)
<1>1. IsWellFoundedOn(R, Nat)
  BY NatLessThanWellFounded
<1>2. PICK x \in T : \A y \in T : ~ (<<y, x>> \in R)
  <2> HIDE DEF R
  <2> QED BY <1>1, WFMin
<1>3. ASSUME NEW y \in T
      PROVE  x <= y
  <2>1. x \in Nat /\ y \in Nat
    OBVIOUS
  <2>2. ~ (y < x)
    BY <1>2, <2>1 DEF OpToRel
  <2> QED BY <2>1, <2>2
<1> QED BY <1>3

\* What the next request changes: nobody else waits for the mime types that are skipped.
LEMMA SendsNext ==
  ASSUME NEW f \in FetchRec, PendingOnce(f), PendingQueued(f),
         f.current = F!None, f.timer = FALSE, NEW g \in F!SendNext(f)
  PROVE  /\ g \in FetchRec /\ Moves(f, g, {F!Failed}) /\ Len(g.written) = Len(f.written)
         /\ g.cache = f.cache /\ g.response = f.response
         /\ g.timer <=> g.current # F!None
         /\ g.current = F!None => g.ordered = <<>>
         /\ PendingQueued(g)
<1> DEFINE waits == {i \in DOMAIN f.ordered : /\ f.pending[f.ordered[i]] # {}
                                              /\ \A j \in 1..(i - 1) : f.ordered[j] # f.ordered[i]}
           types(to) == {f.ordered[i] : i \in {j \in waits : j < to}}
           after(to) == F!Serve(f, types(to), F!Failed)
           n == Len(f.ordered)
<1>1. /\ F!None \notin F!Type /\ F!Failed \in What  BY NoneIsNoMimeType
<1>2. /\ n \in Nat /\ DOMAIN f.ordered = 1 .. n /\ f.ordered \in Seq(F!Type)
      /\ \A i \in DOMAIN f.ordered : f.ordered[i] \in F!Type
  BY Transferred DEF FetchRec
<1>3. ASSUME NEW to
      PROVE  LET h == after(to)
             IN  /\ h \in FetchRec /\ Moves(f, h, {F!Failed})
                 /\ Len(h.written) = Len(f.written)
                 /\ \A t \in F!Type : h.pending[t] = IF t \in types(to) THEN {} ELSE f.pending[t]
                 /\ h.current = f.current /\ h.ordered = f.ordered
                 /\ h.cache = f.cache /\ h.response = f.response /\ h.timer = f.timer
  <2> DEFINE T == types(to)
  <2>1. T \in SUBSET F!Type  BY <1>2
  <2> HIDE DEF T
  <2>2. Served(f, F!Serve(f, T, F!Failed), T, F!Failed)  BY <1>1, <2>1, Serves
  <2> QED  BY <2>2 DEF T, Served
\* A mime type that somebody still waits for has a first place in the queue from there on.
<1>4. ASSUME NEW t \in F!Type, f.pending[t] # {}, NEW to \in Nat, t \notin types(to)
      PROVE  \E i \in waits : to <= i /\ f.ordered[i] = t
  <2> DEFINE P == {i \in DOMAIN f.ordered : f.ordered[i] = t}
  <2>1. P # {} /\ P \in SUBSET Nat  BY <1>1, <1>2, <1>4 DEF PendingQueued, Queued
  <2>2. PICK i \in P : \A j \in P : i <= j  BY <2>1, LeastIndex
  <2>3. i \in DOMAIN f.ordered /\ f.ordered[i] = t /\ i \in 1 .. n  BY <1>2, <2>2
  <2>4. \A j \in 1 .. (i - 1) : f.ordered[j] # f.ordered[i]  BY <1>2, <2>3, <2>2
  <2>5. i \in waits  BY <1>4, <2>3, <2>4
  <2>6. ~(i < to)  BY <1>4, <2>3, <2>5
  <2> QED  BY <1>2, <2>3, <2>5, <2>6
<1>5. \/ \E i \in waits : g = [after(i) EXCEPT !.current = f.ordered[i], !.timer = TRUE,
                                 !.ordered = SubSeq(f.ordered, i + 1, n)]
      \/ g = [after(n + 1) EXCEPT !.ordered = <<>>]
  BY DEF F!SendNext
<1> HIDE DEF types, after
<1>6. CASE \E i \in waits : g = [after(i) EXCEPT !.current = f.ordered[i], !.timer = TRUE,
                                   !.ordered = SubSeq(f.ordered, i + 1, n)]
  <2>1. PICK i \in waits : g = [after(i) EXCEPT !.current = f.ordered[i], !.timer = TRUE,
                                  !.ordered = SubSeq(f.ordered, i + 1, n)]
    BY <1>6
  <2> DEFINE h == after(i)
             rest == SubSeq(f.ordered, i + 1, n)
  <2>2. i \in 1 .. n /\ f.ordered[i] \in F!Type  BY <1>2
  <2>3. /\ h \in FetchRec /\ Moves(f, h, {F!Failed}) /\ Len(h.written) = Len(f.written)
        /\ \A t \in F!Type : h.pending[t] = IF t \in types(i) THEN {} ELSE f.pending[t]
        /\ h.cache = f.cache /\ h.response = f.response
    BY <1>3
  <2>4. /\ rest \in Seq(F!Type) /\ Len(rest) = IF i + 1 <= n THEN n - (i + 1) + 1 ELSE 0
        /\ \A k \in 1 .. n - (i + 1) + 1 : rest[k] = f.ordered[i + 1 + k - 1]
    <3> DEFINE m == i + 1
               N == Len(f.ordered)
    <3>1. m \in Int /\ N \in Int /\ \A k \in m .. N : f.ordered[k] \in F!Type
      BY <1>2, <2>2
    <3> HIDE DEF m, N
    <3>2. /\ SubSeq(f.ordered, m, N) \in Seq(F!Type)
          /\ Len(SubSeq(f.ordered, m, N)) = IF m <= N THEN N - m + 1 ELSE 0
          /\ \A k \in 1 .. N - m + 1 : SubSeq(f.ordered, m, N)[k] = f.ordered[m + k - 1]
      BY <3>1, SubSeqProperties
    <3> QED  BY <3>2 DEF m, N
  <2>5. DOMAIN rest = 1 .. n - i  BY <2>4, LenProperties, <1>2, <2>2
  <2> HIDE DEF h, rest
  <2>6. g = [h EXCEPT !.current = f.ordered[i], !.timer = TRUE, !.ordered = rest]
    BY <2>1 DEF h, rest
  <2>7. /\ g \in FetchRec /\ g.pending = h.pending /\ g.written = h.written /\ g.since = h.since
        /\ g.cache = h.cache /\ g.response = h.response
        /\ g.current = f.ordered[i] /\ g.timer = TRUE /\ g.ordered = rest
    BY <2>2, <2>3, <2>4, <2>6 DEF FetchRec
  <2>8. Moves(f, g, {F!Failed})  BY <2>3, <2>7 DEF Moves, Stays, Leaves
  <2>9. PendingQueued(g)
    <3> SUFFICES ASSUME NEW t \in F!Type, g.pending[t] # {} PROVE t \in Queued(g)
      BY DEF PendingQueued
    <3>1. t \notin types(i) /\ f.pending[t] # {}  BY <2>3, <2>7
    <3>2. PICK k \in waits : i <= k /\ f.ordered[k] = t  BY <1>2, <1>4, <2>2, <3>1
    <3>3. k \in 1 .. n  BY <1>2
    <3>4. CASE k = i  BY <2>7, <3>2, <3>4 DEF Queued
    <3>5. CASE k # i
      <4>1. k - i \in 1 .. n - i /\ i + 1 + (k - i) - 1 = k /\ n - (i + 1) + 1 = n - i
        BY <1>2, <2>2, <3>2, <3>3, <3>5
      <4>2. rest[k - i] = f.ordered[k] /\ k - i \in DOMAIN rest  BY <2>4, <2>5, <4>1
      <4> QED  BY <2>7, <3>2, <4>2 DEF Queued
    <3> QED  BY <3>4, <3>5
  <2> QED  BY <1>1, <2>2, <2>3, <2>7, <2>8, <2>9
<1>7. CASE g = [after(n + 1) EXCEPT !.ordered = <<>>]
  <2> DEFINE h == after(n + 1)
  <2>1. /\ h \in FetchRec /\ Moves(f, h, {F!Failed}) /\ Len(h.written) = Len(f.written)
        /\ \A t \in F!Type : h.pending[t] = IF t \in types(n + 1) THEN {} ELSE f.pending[t]
        /\ h.current = f.current
        /\ h.cache = f.cache /\ h.response = f.response /\ h.timer = f.timer
    BY <1>3
  <2> HIDE DEF h
  <2>2. g = [h EXCEPT !.ordered = <<>>] /\ <<>> \in Seq(F!Type)  BY <1>7 DEF h
  <2>3. /\ g \in FetchRec /\ g.pending = h.pending /\ g.written = h.written /\ g.since = h.since
        /\ g.cache = h.cache /\ g.response = h.response
        /\ g.current = h.current /\ g.timer = h.timer /\ g.ordered = <<>>
    BY <2>1, <2>2 DEF FetchRec
  <2>4. Moves(f, g, {F!Failed})  BY <2>1, <2>3 DEF Moves, Stays, Leaves
  <2>5. \A t \in F!Type : g.pending[t] = {}  BY <2>1, <2>3, <1>2, <1>4
  <2> QED  BY <2>1, <2>3, <2>4, <2>5 DEF PendingQueued
<1> QED  BY <1>5, <1>6, <1>7

\* A part of one item.
LEMMA SubSeqOfOne ==
  ASSUME NEW T, NEW s \in Seq(T), NEW k \in 1 .. Len(s)
  PROVE  SubSeq(s, k, k) = <<s[k]>>
<1> DEFINE r == SubSeq(s, k, k)
<1>1. Len(s) \in Nat /\ s[k] \in T  BY LenProperties, ElementOfSeq
<1>2. k \in Int /\ \A i \in k .. k : s[i] \in T  BY <1>1
<1>3. /\ r \in Seq(T) /\ Len(r) = IF k <= k THEN k - k + 1 ELSE 0
      /\ \A i \in 1 .. k - k + 1 : r[i] = s[k + i - 1]
  BY <1>2, SubSeqProperties
<1> HIDE DEF r
<1>4. Len(r) = 1 /\ r[1] = s[k]
  <2>1. k <= k /\ k - k + 1 = 1 /\ k + 1 - 1 = k  BY <1>2
  <2>2. 1 \in 1 .. k - k + 1  BY <2>1
  <2>3. r[1] = s[k + 1 - 1]  BY <1>3, <2>2
  <2>4. Len(r) = k - k + 1  BY <1>3, <2>1
  <2> QED  BY <2>1, <2>3, <2>4
<1>5. <<s[k]>> \in Seq(T) /\ Len(<<s[k]>>) = 1 /\ <<s[k]>>[1] = s[k]  BY <1>1
<1>6. r = <<s[k]>>  BY <1>4, <1>5, <1>3, SeqEqual
<1> QED  BY <1>6 DEF r

\* Without the source of a response, the source of a list stays, and nothing else.
OnlyList(s, r) ==
  \/ r = <<>> /\ \A i \in DOMAIN s : s[i].kind # "list"
  \/ \E i \in DOMAIN s : s[i].kind = "list" /\ s[i] \in ListPDU /\ r = <<s[i]>>

\* What WithoutResponse leaves of the sources.
LEMMA WithoutTheResponse ==
  ASSUME NEW s \in Seq(ListPDU \cup {ResponseSource}),
         \A i, j \in DOMAIN s : s[i].kind = s[j].kind => i = j
  PROVE  OnlyList(s, F!WithoutResponse(s))
<1> DEFINE r == F!WithoutResponse(s)
           n == Len(s)
           T == ListPDU \cup {ResponseSource}
<1>1. n \in Nat /\ DOMAIN s = 1 .. n /\ \A i \in DOMAIN s : s[i] \in T
  BY LenProperties, ElementOfSeq
<1>2. \A i \in DOMAIN s : /\ s[i].kind = "list" /\ s[i] \in ListPDU
                          \/ s[i].kind = "response"
  BY <1>1 DEF ListPDU, ResponseSource
<1>3. n <= 2  BY <1>1, <1>2
<1>4. CASE \A i \in DOMAIN s : s[i].kind # "response"
  <2>1. r = s  BY <1>4 DEF F!WithoutResponse
  <2>2. CASE n = 0
    <3>1. s = <<>>  BY <2>2, EmptySeq
    <3> QED  BY <1>1, <2>1, <2>2, <3>1 DEF OnlyList
  <2>3. CASE n # 0
    <3>1. 1 \in DOMAIN s /\ s[1].kind = "list" /\ s[1] \in ListPDU  BY <1>1, <1>2, <1>4, <2>3
    <3>2. n = 1  BY <1>1, <1>3, <2>3, <1>2, <1>4, <3>1
    <3>3. s = <<s[1]>>
      <4>1. <<s[1]>> \in Seq(T) /\ Len(<<s[1]>>) = 1 /\ <<s[1]>>[1] = s[1]  BY <1>1, <3>1
      <4>2. \A i \in 1 .. Len(s) : s[i] = <<s[1]>>[i]  BY <3>2, <4>1
      <4> HIDE DEF T
      <4> QED  BY <3>2, <4>1, <4>2, SeqEqual DEF T
    <3> QED  BY <2>1, <3>1, <3>3 DEF OnlyList
  <2> QED  BY <2>2, <2>3
<1>5. CASE \E i \in DOMAIN s : s[i].kind = "response"
  <2> DEFINE c == CHOOSE i \in DOMAIN s : s[i].kind = "response"
  <2>1. c \in DOMAIN s /\ s[c].kind = "response" /\ c \in 1 .. n  BY <1>1, <1>5
  <2>2. r = SubSeq(s, 1, c - 1) \o SubSeq(s, c + 1, Len(s))  BY <1>5 DEF F!WithoutResponse
  <2> HIDE DEF c
  <2> DEFINE u == SubSeq(s, 1, c - 1)
             v == SubSeq(s, c + 1, n)
  <2>3. r = u \o v  BY <2>2
  <2>4. n = 1 => u = <<>> /\ v = <<>>  BY <2>1, SubSeqEmpty
  <2>5. CASE n = 1  BY ConcatEmptySeq, EmptySeq, <1>1, <2>1, <2>5, <2>3, <2>4 DEF OnlyList
  <2>6. CASE n = 2
    <3> DEFINE o == IF c = 1 THEN 2 ELSE 1
    <3>1. o \in DOMAIN s /\ o # c /\ (c = 1 \/ c = 2)  BY <1>1, <2>1, <2>6
    <3>2. s[o].kind = "list" /\ s[o] \in ListPDU /\ s[o] \in T  BY <1>2, <2>1, <3>1
    <3>3. <<s[o]>> \in Seq(T) /\ <<s[o]>> \o <<>> = <<s[o]>> /\ <<>> \o <<s[o]>> = <<s[o]>>
      <4>1. <<s[o]>> \in Seq(T)  BY <3>2
      <4> HIDE DEF o, T
      <4> QED  BY <4>1, ConcatEmptySeq
    <3>4. CASE c = 1
      <4>1. u = <<>>  BY <3>4, SubSeqEmpty
      <4>2. v = <<s[o]>>
        <5>1. v = SubSeq(s, 2, 2) /\ o = 2  BY <2>6, <3>4
        <5>2. o \in 1 .. Len(s)  BY <1>1, <3>1
        <5> HIDE DEF o
        <5> QED  BY <5>1, <5>2, SubSeqOfOne
      <4> HIDE DEF o, u, v, r
      <4>3. r = <<s[o]>>  BY <2>3, <3>3, <4>1, <4>2
      <4> QED  BY <3>1, <3>2, <4>3 DEF r, OnlyList
    <3>5. CASE c = 2
      <4>1. v = <<>>  BY <2>6, <3>5, <1>1, SubSeqEmpty
      <4>2. u = <<s[o]>>
        <5>1. u = SubSeq(s, 1, 1) /\ o = 1  BY <3>5
        <5>2. o \in 1 .. Len(s)  BY <1>1, <3>1
        <5> HIDE DEF o
        <5> QED  BY <5>1, <5>2, SubSeqOfOne
      <4> HIDE DEF o, u, v, r
      <4>3. r = <<s[o]>>  BY <2>3, <3>3, <4>1, <4>2
      <4> QED  BY <3>1, <3>2, <4>3 DEF r, OnlyList
    <3> QED  BY <3>1, <3>4, <3>5
  <2> QED  BY <1>1, <1>3, <2>1, <2>5, <2>6
<1> QED  BY <1>4, <1>5

\* What is left of sources of different kinds.
LEMMA TailKinds ==
  ASSUME NEW T, NEW s \in Seq(T), s # <<>>, \A i, j \in DOMAIN s : s[i].kind = s[j].kind => i = j
  PROVE  /\ Tail(s) \in Seq(T) /\ Head(s) = s[1] /\ 1 \in DOMAIN s
         /\ \A i \in DOMAIN Tail(s) : /\ i + 1 \in DOMAIN s /\ Tail(s)[i] = s[i + 1]
                                      /\ Tail(s)[i].kind # Head(s).kind
         /\ \A i, j \in DOMAIN Tail(s) : Tail(s)[i].kind = Tail(s)[j].kind => i = j
<1> DEFINE t == Tail(s)
<1>1. /\ t \in Seq(T) /\ Len(t) = Len(s) - 1 /\ \A i \in 1 .. Len(t) : t[i] = s[i + 1]
      /\ Len(s) \in Nat \ {0}
  BY HeadTailProperties, EmptySeq
<1>2. DOMAIN t = 1 .. Len(t) /\ DOMAIN s = 1 .. Len(s) /\ Head(s) = s[1]  BY <1>1, LenProperties
<1> HIDE DEF t
<1>3. \A i \in DOMAIN t : i + 1 \in DOMAIN s /\ t[i] = s[i + 1] /\ i \in Nat /\ i + 1 # 1
  BY <1>1, <1>2
<1>4. 1 \in DOMAIN s  BY <1>1, <1>2
<1>5. \A i \in DOMAIN t : t[i].kind # s[1].kind  BY <1>3, <1>4
<1>6. \A i, j \in DOMAIN t : t[i].kind = t[j].kind => i = j  BY <1>3
<1> QED  BY <1>1, <1>2, <1>3, <1>4, <1>5, <1>6 DEF t

\* What is left when the source of the response was first.
LEMMA TailOfResponse ==
  ASSUME NEW s \in Seq(ListPDU \cup {ResponseSource}), s # <<>>, Head(s).kind = "response",
         \A i, j \in DOMAIN s : s[i].kind = s[j].kind => i = j
  PROVE  OnlyList(s, Tail(s))
<1> DEFINE t == Tail(s)
           T == ListPDU \cup {ResponseSource}
<1>1. /\ t \in Seq(T) /\ Head(s) = s[1] /\ 1 \in DOMAIN s
      /\ \A i \in DOMAIN t : i + 1 \in DOMAIN s /\ t[i] = s[i + 1] /\ t[i].kind # Head(s).kind
      /\ \A i, j \in DOMAIN t : t[i].kind = t[j].kind => i = j
  BY TailKinds
<1>2. Len(t) \in Nat /\ DOMAIN t = 1 .. Len(t) /\ \A i \in DOMAIN t : t[i] \in T
  BY <1>1, LenProperties, ElementOfSeq
<1>3. Len(t) = Len(s) - 1 /\ Len(s) \in Nat /\ DOMAIN s = 1 .. Len(s)
  BY HeadTailProperties, LenProperties
<1> HIDE DEF t
<1>4. \A i \in DOMAIN t : t[i].kind = "list" /\ t[i] \in ListPDU
  BY <1>1, <1>2 DEF ListPDU, ResponseSource
<1>5. Len(t) <= 1  BY <1>2, <1>1, <1>4
<1>6. CASE Len(t) = 0  BY <1>1, <1>6, EmptySeq, <1>3 DEF t, OnlyList
<1>7. CASE Len(t) = 1
  <2>1. 1 \in DOMAIN t /\ 1 + 1 \in DOMAIN s /\ t[1] = s[1 + 1]  BY <1>1, <1>2, <1>7
  <2>2. t = <<t[1]>>
    <3>1. <<t[1]>> \in Seq(T) /\ Len(<<t[1]>>) = 1 /\ <<t[1]>>[1] = t[1]  BY <1>2, <2>1
    <3>2. \A i \in 1 .. Len(t) : t[i] = <<t[1]>>[i]  BY <1>7, <3>1
    <3> HIDE DEF T
    <3> QED  BY <1>1, <1>7, <3>1, <3>2, SeqEqual
  <2>3. t[1].kind = "list" /\ t[1] \in ListPDU  BY <1>4, <2>1
  <2>4. \E i \in DOMAIN s : s[i].kind = "list" /\ s[i] \in ListPDU /\ t = <<s[i]>>
    BY <2>1, <2>2, <2>3
  <2> QED  BY <2>4 DEF t, OnlyList
<1> QED  BY <1>2, <1>5, <1>6, <1>7

\* What stays of the sources and their order then.
LEMMA OnlyListLeft ==
  ASSUME OnlyList(idles, idles')
  PROVE  /\ idles' \in Seq(ListPDU \cup {ResponseSource})
         /\ \A i, j \in DOMAIN idles' : idles'[i].kind = idles'[j].kind => i = j
         /\ (\E i \in DOMAIN idles' : idles'[i].kind = "list")
              <=> \E i \in DOMAIN idles : idles[i].kind = "list"
         /\ ~\E i \in DOMAIN idles' : idles'[i].kind = "response"
         /\ Listing' \subseteq Listing
<1>1. CASE idles' = <<>> /\ \A i \in DOMAIN idles : idles[i].kind # "list"  BY <1>1 DEF Listing
<1>2. CASE \E i \in DOMAIN idles : idles[i].kind = "list" /\ idles[i] \in ListPDU
                                   /\ idles' = <<idles[i]>>
  BY <1>2 DEF Listing
<1> QED  BY <1>1, <1>2 DEF OnlyList

\* The lists stay in order when sources are removed.
LEMMA StaysInOrder ==
  ASSUME InOrder, Listing' \subseteq Listing, UNCHANGED <<clip, up, lists, owned>>
  PROVE  InOrder'
BY DEF Handed, Number, InOrder

\* Transfers whose mime types are served leave the place where they waited.
LEMMA MovesPlaces ==
  ASSUME FetchTypes, AtOnePlace, NEW C, Moves(fetch, fetch', C), fetch' \in FetchRec,
         PendingQueued(fetch'), UNCHANGED <<transfers, disposed>>
  PROVE  AtOnePlace'
<1>1. F!Serial' = F!Serial  BY DEF F!Serial, Moves
<1>2. \A s : Underway(s)' <=> Underway(s)  BY DEF Underway
<1>3. \A s \in F!Serial : Stays(fetch, fetch', s) \/ Leaves(fetch, fetch', s, C)
  BY DEF F!Serial, Moves
<1>4. ASSUME NEW i \in DOMAIN transfers
      PROVE  LET s == transfers[i].serial
             IN  /\ s \in F!Serial /\ fetch'.written[s] = <<>>
                 /\ \A j \in DOMAIN transfers : transfers[j].serial = s => j = i
                 /\ \A t \in F!Type : s \notin fetch'.pending[t]
  <2> DEFINE s == transfers[i].serial
  <2>1. /\ s \in F!Serial /\ fetch.written[s] = <<>>
        /\ \A j \in DOMAIN transfers : transfers[j].serial = s => j = i
        /\ \A t \in F!Type : s \notin fetch.pending[t]
    BY DEF AtOnePlace
  <2> HIDE DEF s
  <2>2. Stays(fetch, fetch', s)  BY <1>3, <2>1 DEF Leaves
  <2>3. fetch'.written[s] = <<>> /\ \A t \in F!Type : s \notin fetch'.pending[t]
    BY <2>1, <2>2 DEF Stays
  <2> QED  BY <2>1, <2>3 DEF s
<1>5. PendingOnce(fetch')  BY MovesPending DEF AtOnePlace
<1>6. ASSUME NEW s \in F!Serial
      PROVE  /\ Len(fetch'.written[s]) <= 1
             /\ ~disposed /\ fetch'.written[s] = <<>> =>
                  Underway(s) \/ \E t \in F!Type : s \in fetch'.pending[t]
  <2>1. /\ Len(fetch.written[s]) <= 1
        /\ ~disposed /\ fetch.written[s] = <<>> =>
             Underway(s) \/ \E t \in F!Type : s \in fetch.pending[t]
    BY DEF AtOnePlace
  <2>2. CASE Stays(fetch, fetch', s)  BY <2>1, <2>2 DEF Stays
  <2>3. CASE Leaves(fetch, fetch', s, C)  BY <2>3 DEF Leaves
  <2> QED  BY <1>3, <2>2, <2>3
<1>7. ASSUME NEW i \in DOMAIN transfers'
      PROVE  LET s == transfers'[i].serial
             IN  /\ s \in F!Serial' /\ fetch'.written[s] = <<>>
                 /\ \A j \in DOMAIN transfers' : transfers'[j].serial = s => j = i
                 /\ \A t \in F!Type : s \notin fetch'.pending[t]
  BY <1>1, <1>4
<1>8. ASSUME NEW s \in F!Serial'
      PROVE  /\ Len(fetch'.written[s]) <= 1
             /\ ~disposed' /\ fetch'.written[s] = <<>> =>
                  Underway(s)' \/ \E t \in F!Type : s \in fetch'.pending[t]
  BY <1>1, <1>2, <1>6
<1> QED  BY <1>5, <1>7, <1>8 DEF AtOnePlace

\* What is written is not older than what is selected.
LEMMA MovesFresh ==
  ASSUME FetchTypes, WrittenFresh, NEW C, Moves(fetch, fetch', C),
         owned.n <= owned'.n, owned' \in OwnedRec,
         \A w \in C : w # F!Failed => owned.n <= w.n, C \subseteq What
  PROVE  WrittenFresh'
<1>1. F!Serial' = F!Serial /\ fetch'.since = fetch.since  BY DEF F!Serial, Moves
<1>2. owned.n \in 0..MaxCopies /\ owned'.n \in 0..MaxCopies /\ MaxCopies \in Nat
  BY FetchParts, NoneIsNoMimeType DEF OwnedRec
<1>3. ASSUME NEW s \in F!Serial
      PROVE  /\ fetch.since[s] <= owned'.n
             /\ \A i \in DOMAIN fetch'.written[s] :
                  fetch'.written[s][i] # F!Failed => fetch.since[s] <= fetch'.written[s][i].n
  <2>1. /\ fetch.since[s] <= owned.n
        /\ \A i \in DOMAIN fetch.written[s] :
             fetch.written[s][i] # F!Failed => fetch.since[s] <= fetch.written[s][i].n
    BY DEF WrittenFresh
  <2>2. fetch.since[s] \in 0..MaxCopies
    BY FetchParts, Transferred, ElementOfSeq DEF FetchRec, F!Serial
  <2>3. CASE Stays(fetch, fetch', s)  BY <1>2, <2>1, <2>2, <2>3 DEF Stays
  <2>4. CASE Leaves(fetch, fetch', s, C)  BY <2>4, <1>2, <2>1, <2>2 DEF Leaves, What
  <2> QED  BY <2>3, <2>4 DEF F!Serial, Moves
<1>4. ASSUME NEW s \in F!Serial'
      PROVE  /\ fetch'.since[s] <= owned'.n
             /\ \A i \in DOMAIN fetch'.written[s] :
                  fetch'.written[s][i] # F!Failed => fetch'.since[s] <= fetch'.written[s][i].n
  BY <1>1, <1>3
<1> QED  BY <1>4 DEF WrittenFresh

\* Whoever waited for the current request is served, and the next request is sent.
ServesCurrent(b, f, T, w) ==
  /\ b \in FetchRec /\ b.pending = fetch.pending /\ b.written = fetch.written
  /\ b.since = fetch.since /\ b.ordered = fetch.ordered
  /\ T \in SUBSET F!Type /\ fetch.current \in T
  /\ w \in What /\ (w # F!Failed => owned.n <= w.n)
  /\ f \in FetchRec /\ Moves(b, f, {w}) /\ Len(f.written) = Len(b.written)
  /\ \A t \in F!Type : f.pending[t] = IF t \in T THEN {} ELSE b.pending[t]
  /\ f.ordered = b.ordered /\ f.current = F!None /\ f.timer = FALSE

\* The current request is done and the next one sent.
LEMMA ServedThenNext ==
  ASSUME FetchInv, NEW b, NEW f, NEW T, NEW w, ServesCurrent(b, f, T, w),
         fetch' \in F!SendNext(f), UNCHANGED <<transfers, disposed, owned>>
  PROVE  /\ fetch' \in FetchRec /\ Moves(fetch, fetch', {w, F!Failed})
         /\ Len(fetch'.written) = Len(fetch.written)
         /\ fetch'.cache = f.cache /\ fetch'.response = f.response
         /\ fetch'.timer <=> fetch'.current # F!None
         /\ fetch'.current = F!None => fetch'.ordered = <<>>
         /\ AtOnePlace' /\ WrittenFresh'
<1> USE DEF ServesCurrent
<1>0. FetchTypes /\ AtOnePlace /\ WrittenFresh  BY DEF FetchInv
<1>1. PendingOnce(fetch) /\ PendingQueued(fetch)  BY <1>0 DEF AtOnePlace
<1>2. PendingOnce(b)  BY <1>1 DEF PendingOnce
<1>3. PendingOnce(f)  BY <1>2, MovesPending
<1>4. PendingQueued(f)  BY <1>1 DEF PendingQueued, Queued
<1>5. /\ fetch' \in FetchRec /\ Moves(f, fetch', {F!Failed}) /\ Len(fetch'.written) = Len(f.written)
      /\ fetch'.cache = f.cache /\ fetch'.response = f.response
      /\ fetch'.timer <=> fetch'.current # F!None
      /\ fetch'.current = F!None => fetch'.ordered = <<>>
      /\ PendingQueued(fetch')
  BY <1>3, <1>4, SendsNext
<1>6. Moves(fetch, f, {w})  BY DEF Moves, Stays, Leaves
<1>7. Moves(fetch, f, {w, F!Failed})  BY <1>6, MovesWeaken
<1>8. Moves(f, fetch', {w, F!Failed})  BY <1>5, MovesWeaken
<1>9. Moves(fetch, fetch', {w, F!Failed})  BY <1>7, <1>8, MovesCompose
<1> DEFINE C == {w, F!Failed}
<1>10. C \subseteq What /\ \A v \in C : v # F!Failed => owned.n <= v.n  BY NoneIsNoMimeType
<1>11. owned.n <= owned'.n /\ owned' \in OwnedRec
  BY <1>0, FetchParts, NoneIsNoMimeType DEF OwnedRec
<1>12. Moves(fetch, fetch', C)  BY <1>9
<1> HIDE DEF C
<1>13. AtOnePlace'  BY <1>0, <1>5, <1>12, MovesPlaces
<1>14. WrittenFresh'  BY <1>0, <1>10, <1>11, <1>12, MovesFresh
<1> QED  BY <1>5, <1>9, <1>13, <1>14

\* The types of what a response or its absence leaves.
LEMMA NextRequest ==
  ASSUME FetchTypes, fetch' \in FetchRec, F!Requested(fetch'.current)
  PROVE  down' \in Seq(F!Type)
<1>1. down \in Seq(F!Type) /\ fetch'.current \in F!Type \cup {F!None}
  BY FetchParts DEF FetchRec
<1>2. CASE fetch'.current = F!None  BY <1>1, <1>2 DEF F!Requested
<1>3. CASE fetch'.current # F!None  BY <1>1, <1>3, AppendProperties DEF F!Requested
<1> QED  BY <1>2, <1>3

\* Who waits is a transfer.
LEMMA PendingSerials ==
  ASSUME NEW f, PendingOnce(f)
  PROVE  \A t \in F!Type : f.pending[t] \subseteq DOMAIN f.written
BY DEF PendingOnce

\* Each transfer has its selection.
LEMMA SinceLength ==
  ASSUME FetchTypes, NEW C, Moves(fetch, fetch', C), Len(fetch'.written) = Len(fetch.written)
  PROVE  Len(fetch'.since) = Len(fetch'.written)
BY FetchParts DEF Moves

\* The client did not answer in time.
LEMMA AbortedCurrent ==
  ASSUME FetchInv, F!AbortCurrent
  PROVE  FetchInv'
<1>0. /\ FetchTypes /\ InOrder /\ Sources /\ AtOnePlace /\ WrittenFresh /\ CacheFresh
  BY DEF FetchInv
<1>1. /\ ~disposed /\ fetch.timer /\ idles' = F!WithoutResponse(idles)
      /\ UNCHANGED <<clip, up, lists, owned, transfers, tables, disposed>>
  BY DEF F!AbortCurrent
<1> DEFINE h == F!Serve(fetch, {fetch.current}, F!Failed)
           f == [h EXCEPT !.current = F!None, !.timer = FALSE]
<1>2. fetch' \in F!SendNext(f) /\ F!Requested(fetch'.current)  BY DEF F!AbortCurrent
<1>3. /\ fetch \in FetchRec /\ PendingOnce(fetch) /\ {fetch.current} \in SUBSET F!Type
      /\ F!Failed \in What
  BY <1>0, <1>1, FetchParts, NoneIsNoMimeType DEF Sources, AtOnePlace, FetchRec
<1>4. Served(fetch, h, {fetch.current}, F!Failed)
  <2> DEFINE T == {fetch.current}
  <2>1. T \in SUBSET F!Type  BY <1>3
  <2> HIDE DEF T
  <2>2. Served(fetch, F!Serve(fetch, T, F!Failed), T, F!Failed)  BY <1>3, <2>1, Serves
  <2> QED  BY <2>2 DEF T
<1> HIDE DEF h
<1>5. /\ f \in FetchRec /\ f.pending = h.pending /\ f.written = h.written /\ f.since = h.since
      /\ f.ordered = h.ordered /\ f.cache = h.cache /\ f.response = h.response
      /\ f.current = F!None /\ f.timer = FALSE
  BY <1>4 DEF Served, FetchRec
<1> HIDE DEF f
<1>6. /\ Moves(fetch, f, {F!Failed}) /\ Len(f.written) = Len(fetch.written)
      /\ \A t \in F!Type : f.pending[t] = IF t \in {fetch.current} THEN {} ELSE fetch.pending[t]
      /\ f.ordered = fetch.ordered /\ f.cache = fetch.cache /\ f.response = fetch.response
  BY <1>4, <1>5 DEF Served, Moves, Stays, Leaves
<1>7. /\ fetch' \in FetchRec /\ Moves(fetch, fetch', {F!Failed, F!Failed})
      /\ Len(fetch'.written) = Len(fetch.written)
      /\ fetch'.cache = f.cache /\ fetch'.response = f.response
      /\ fetch'.timer <=> fetch'.current # F!None
      /\ fetch'.current = F!None => fetch'.ordered = <<>>
      /\ AtOnePlace' /\ WrittenFresh'
  <2>1. UNCHANGED <<transfers, disposed, owned>>  BY <1>1
  <2>2. F!Failed # F!Failed => owned.n <= F!Failed.n  OBVIOUS
  <2>3. fetch.current \in {fetch.current}  OBVIOUS
  <2>4. ServesCurrent(fetch, f, {fetch.current}, F!Failed)
    BY <1>3, <1>5, <1>6, <2>2, <2>3 DEF ServesCurrent
  <2> QED  BY <1>2, <2>1, <2>4, ServedThenNext
<1>8. OnlyList(idles, idles')
  <2>1. idles \in Seq(ListPDU \cup {ResponseSource})  BY <1>0, FetchParts
  <2>2. \A i, j \in DOMAIN idles : idles[i].kind = idles[j].kind => i = j  BY <1>0 DEF Sources
  <2> QED  BY <1>1, <2>1, <2>2, WithoutTheResponse
<1>9. /\ idles' \in Seq(ListPDU \cup {ResponseSource})
      /\ \A i, j \in DOMAIN idles' : idles'[i].kind = idles'[j].kind => i = j
      /\ (\E i \in DOMAIN idles' : idles'[i].kind = "list")
           <=> \E i \in DOMAIN idles : idles[i].kind = "list"
      /\ ~\E i \in DOMAIN idles' : idles'[i].kind = "response"
      /\ Listing' \subseteq Listing
  BY <1>8, OnlyListLeft
<1>10. InOrder'  BY <1>0, <1>1, <1>9, StaysInOrder
<1>11. Sources'  BY <1>0, <1>1, <1>7, <1>9 DEF Sources
<1>12. CacheFresh'  BY <1>6, <1>7, <1>0, <1>1 DEF Moves, CacheFresh
<1>13. FetchTypes'
  BY <1>0, <1>2, <1>7, NextRequest, PendingSerials, SinceLength, FetchParts, <1>1, <1>9,
     FetchTypesFrom DEF AtOnePlace, F!Serial
<1> QED  BY <1>7, <1>10, <1>11, <1>12, <1>13 DEF FetchInv

\* The main thread handles a response.
LEMMA HandledResponse ==
  ASSUME FetchInv, F!HandleFormatDataResponse
  PROVE  FetchInv'
<1>0. /\ FetchTypes /\ InOrder /\ Sources /\ AtOnePlace /\ WrittenFresh /\ CacheFresh
  BY DEF FetchInv
<1> DEFINE t == fetch.current
           r == fetch.response
           types == IF t \in FileTypes THEN FileTypes ELSE {t}
           content == [type |-> r.type, n |-> r.n]
           taken == [fetch EXCEPT !.current = F!None, !.response = F!NoResponse, !.timer = FALSE]
           cache == [x \in F!Type |-> IF x \in types THEN content ELSE taken.cache[x]]
           cached == [taken EXCEPT !.cache = cache]
<1>1. /\ ~disposed /\ idles # <<>> /\ Head(idles).kind = "response" /\ idles' = Tail(idles)
      /\ UNCHANGED <<clip, up, lists, owned, transfers, tables, disposed>>
  BY DEF F!HandleFormatDataResponse
<1>2. fetch \in FetchRec /\ PendingOnce(fetch) /\ owned \in OwnedRec
  BY <1>0, FetchParts DEF AtOnePlace
<1>3. /\ idles \in Seq(ListPDU \cup {ResponseSource})
      /\ \A i, j \in DOMAIN idles : idles[i].kind = idles[j].kind => i = j
  BY <1>0, FetchParts DEF Sources
<1>4. \E i \in DOMAIN idles : idles[i].kind = "response"  BY <1>1, <1>3, TailKinds
<1>5. t # F!None /\ r.n >= owned.n /\ t \in F!Type /\ r \in Response
  BY <1>0, <1>2, <1>4 DEF Sources, FetchRec
<1>6. types \in SUBSET F!Type /\ t \in types
  <2>1. CASE t \in FileTypes  BY <1>5, <2>1, ClipboardAssumption DEF F!Type
  <2> QED  BY <1>5, <2>1
<1>7. content \in What /\ owned.n <= content.n /\ F!Failed \in What /\ F!NoResponse \in Response
  BY <1>5, <1>2, NoneIsNoMimeType DEF Response, OwnedRec, What
<1>8. PICK f \in {F!Serve(taken, {t}, F!Failed)}
                   \cup (IF r.ok THEN {F!Serve(cached, types, content)} ELSE {}) :
        fetch' \in F!SendNext(f) /\ F!Requested(fetch'.current)
  BY <1>2 DEF F!HandleFormatDataResponse, FetchRec
<1> HIDE DEF types, content
<1>9. /\ taken \in FetchRec /\ taken.pending = fetch.pending /\ taken.written = fetch.written
      /\ taken.since = fetch.since /\ taken.ordered = fetch.ordered /\ taken.cache = fetch.cache
      /\ taken.current = F!None /\ taken.timer = FALSE
  BY <1>2, <1>7 DEF FetchRec
<1> HIDE DEF taken
<1>10. /\ cache \in [F!Type -> What]
       /\ \A x \in F!Type : cache[x] = IF x \in types THEN content ELSE fetch.cache[x]
  <2>1. fetch.cache \in [F!Type -> What]  BY <1>2 DEF FetchRec
  <2> QED  BY <1>7, <1>9, <2>1
<1> HIDE DEF cache
<1>11. /\ cached \in FetchRec /\ cached.pending = fetch.pending /\ cached.written = fetch.written
       /\ cached.since = fetch.since /\ cached.ordered = fetch.ordered /\ cached.cache = cache
       /\ cached.current = F!None /\ cached.timer = FALSE
  BY <1>9, <1>10 DEF FetchRec
<1> HIDE DEF cached
<1>12. UNCHANGED <<transfers, disposed, owned>>  BY <1>1
<1>13. /\ fetch' \in FetchRec /\ fetch'.since = fetch.since /\ PendingOnce(fetch')
       /\ Len(fetch'.since) = Len(fetch'.written)
       /\ fetch'.timer <=> fetch'.current # F!None
       /\ fetch'.current = F!None => fetch'.ordered = <<>>
       /\ AtOnePlace' /\ WrittenFresh'
       /\ fetch'.cache = fetch.cache \/ fetch'.cache = cache
  <2>1. CASE f = F!Serve(taken, {t}, F!Failed)
    <3> DEFINE T == {t}
    <3>1. T \in SUBSET F!Type /\ t \in T  BY <1>5
    <3>2. PendingOnce(taken)  BY <1>2, <1>9 DEF PendingOnce
    <3>3. f = F!Serve(taken, T, F!Failed)  BY <2>1
    <3> HIDE DEF T
    <3>4. Served(taken, f, T, F!Failed)  BY <1>7, <1>9, <3>1, <3>2, <3>3, Serves
    <3>5. /\ f \in FetchRec /\ Moves(taken, f, {F!Failed}) /\ Len(f.written) = Len(taken.written)
          /\ \A x \in F!Type : f.pending[x] = IF x \in T THEN {} ELSE taken.pending[x]
          /\ f.ordered = taken.ordered /\ f.current = F!None /\ f.timer = FALSE
          /\ f.cache = fetch.cache
      BY <1>9, <3>4 DEF Served
    <3>6. F!Failed # F!Failed => owned.n <= F!Failed.n  OBVIOUS
    <3>7. /\ fetch' \in FetchRec /\ Moves(fetch, fetch', {F!Failed, F!Failed})
          /\ Len(fetch'.written) = Len(fetch.written)
          /\ fetch'.cache = f.cache
          /\ fetch'.timer <=> fetch'.current # F!None
          /\ fetch'.current = F!None => fetch'.ordered = <<>>
          /\ AtOnePlace' /\ WrittenFresh'
      <4>1. ServesCurrent(taken, f, T, F!Failed)
        BY <1>7, <1>9, <3>1, <3>5, <3>6 DEF ServesCurrent
      <4> QED  BY <1>8, <1>12, <4>1, ServedThenNext
    <3>8. Len(fetch'.since) = Len(fetch'.written)  BY <1>0, <3>7, SinceLength
    <3> QED  BY <3>5, <3>7, <3>8 DEF AtOnePlace, Moves
  <2>2. CASE f = F!Serve(cached, types, content)
    <3>1. PendingOnce(cached)  BY <1>2, <1>11 DEF PendingOnce
    <3>2. Served(cached, f, types, content)  BY <1>6, <1>7, <1>11, <2>2, <3>1, Serves
    <3>3. /\ f \in FetchRec /\ Moves(cached, f, {content}) /\ Len(f.written) = Len(cached.written)
          /\ \A x \in F!Type : f.pending[x] = IF x \in types THEN {} ELSE cached.pending[x]
          /\ f.ordered = cached.ordered /\ f.current = F!None /\ f.timer = FALSE
          /\ f.cache = cache
      BY <1>11, <3>2 DEF Served
    <3>4. content # F!Failed => owned.n <= content.n  BY <1>7
    <3>5. /\ fetch' \in FetchRec /\ Moves(fetch, fetch', {content, F!Failed})
          /\ Len(fetch'.written) = Len(fetch.written)
          /\ fetch'.cache = f.cache
          /\ fetch'.timer <=> fetch'.current # F!None
          /\ fetch'.current = F!None => fetch'.ordered = <<>>
          /\ AtOnePlace' /\ WrittenFresh'
      <4>1. ServesCurrent(cached, f, types, content)
        BY <1>6, <1>7, <1>11, <3>3, <3>4 DEF ServesCurrent
      <4> QED  BY <1>8, <1>12, <4>1, ServedThenNext
    <3>6. Len(fetch'.since) = Len(fetch'.written)  BY <1>0, <3>5, SinceLength
    <3> QED  BY <3>3, <3>5, <3>6 DEF AtOnePlace, Moves
  <2> QED  BY <1>8, <2>1, <2>2
<1>14. OnlyList(idles, idles')  BY <1>1, <1>3, TailOfResponse
<1>15. /\ idles' \in Seq(ListPDU \cup {ResponseSource})
       /\ \A i, j \in DOMAIN idles' : idles'[i].kind = idles'[j].kind => i = j
       /\ (\E i \in DOMAIN idles' : idles'[i].kind = "list")
            <=> \E i \in DOMAIN idles : idles[i].kind = "list"
       /\ ~\E i \in DOMAIN idles' : idles'[i].kind = "response"
       /\ Listing' \subseteq Listing
  BY <1>14, OnlyListLeft
<1>16. InOrder'  BY <1>0, <1>1, <1>15, StaysInOrder
<1>17. Sources'  BY <1>0, <1>1, <1>13, <1>15 DEF Sources
<1>18. CacheFresh'
  <2>1. CASE fetch'.cache = fetch.cache  BY <1>0, <1>1, <1>13, <2>1 DEF CacheFresh
  <2>2. CASE fetch'.cache = cache
    <3>1. ASSUME NEW x \in owned.types, fetch'.cache[x] # F!Failed
          PROVE  owned.n <= fetch'.cache[x].n
      <4>1. x \in F!Type  BY <1>2 DEF OwnedRec, F!Type
      <4> QED  BY <1>0, <1>7, <1>10, <2>2, <3>1, <4>1 DEF CacheFresh
    <3>2. ASSUME NEW i \in DOMAIN transfers, fetch'.cache[transfers[i].type] # F!Failed
          PROVE  fetch.since[transfers[i].serial] <= fetch'.cache[transfers[i].type].n
      <4> DEFINE x == transfers[i].type
                 s == transfers[i].serial
      <4>1. x \in F!Type
        <5>1. transfers \in Seq(TransferRec)  BY <1>0, FetchParts
        <5>2. transfers[i] \in TransferRec  BY <5>1, LenProperties, ElementOfSeq
        <5> QED  BY <5>2 DEF TransferRec
      <4>2. s \in F!Serial  BY <1>0 DEF AtOnePlace
      <4>3. fetch.since[s] <= owned.n  BY <1>0, <4>2 DEF WrittenFresh
      <4>4. fetch.since[s] \in Nat
        <5>1. fetch.since \in Seq(0..MaxCopies) /\ Len(fetch.since) = Len(fetch.written)
          BY <1>0, <1>2, FetchParts DEF FetchRec
        <5>2. s \in 1 .. Len(fetch.since)  BY <1>2, <4>2, <5>1, Transferred DEF F!Serial
        <5>3. fetch.since[s] \in 0..MaxCopies  BY <5>1, <5>2, ElementOfSeq
        <5> QED  BY <5>3
      <4>5. content.n \in Nat /\ owned.n \in Nat
        BY <1>2, <1>7, NoneIsNoMimeType DEF What, OwnedRec
      <4>6. CASE x \in types
        <5>1. fetch'.cache[x] = content  BY <1>10, <2>2, <4>1, <4>6
        <5> HIDE DEF s
        <5>2. fetch.since[s] <= content.n  BY <1>7, <4>3, <4>4, <4>5
        <5> QED  BY <5>1, <5>2 DEF s
      <4>7. CASE x \notin types
        BY <1>0, <1>10, <2>2, <3>2, <4>1, <4>7 DEF CacheFresh
      <4> QED  BY <4>6, <4>7
    <3> QED  BY <1>1, <1>13, <3>1, <3>2 DEF CacheFresh
  <2> QED  BY <1>13, <2>1, <2>2
<1>19. FetchTypes'
  BY <1>0, <1>8, <1>13, NextRequest, PendingSerials, FetchParts, <1>1, <1>15, FetchTypesFrom
     DEF F!Serial
<1> QED  BY <1>13, <1>16, <1>17, <1>18, <1>19 DEF FetchInv

\* The selection that a transfer is for is a number.
LEMMA SinceTypes ==
  ASSUME FetchTypes, NEW s \in F!Serial
  PROVE  fetch.since[s] \in 0..MaxCopies /\ fetch.since[s] \in Nat /\ s \in Nat
BY FetchParts, Transferred, ElementOfSeq, NoneIsNoMimeType DEF FetchRec, F!Serial

\* The selection becomes the client's: what waits is aborted, and the cache forgets what the
\* new list names.
LEMMA ListUpdated ==
  ASSUME FetchInv, F!UpdateServerFormatList
  PROVE  FetchInv'
<1>0. /\ FetchTypes /\ InOrder /\ Sources /\ AtOnePlace /\ WrittenFresh /\ CacheFresh
  BY DEF FetchInv
<1> DEFINE list == Head(idles)
           a == F!AbortAll(fetch)
           h == F!Serve(fetch, F!Type, F!Failed)
           c == F!Forgotten(a.cache, list.types)
<1>1. /\ ~disposed /\ idles # <<>> /\ list.kind = "list"
      /\ fetch' = [a EXCEPT !.cache = F!Forgotten(@, list.types)]
      /\ tables' = tables \cup list.types
      /\ owned' = [n |-> list.n, types |-> list.types]
      /\ idles' = F!WithoutResponse(Tail(idles))
      /\ lists' = [lists EXCEPT !.completed = TRUE]
      /\ UNCHANGED <<clip, up, down, transfers, disposed>>
  BY DEF F!UpdateServerFormatList
<1>2. fetch \in FetchRec /\ PendingOnce(fetch) /\ owned \in OwnedRec /\ lists \in ListsRec
  BY <1>0, FetchParts DEF AtOnePlace
<1>3. /\ idles \in Seq(ListPDU \cup {ResponseSource})
      /\ \A i, j \in DOMAIN idles : idles[i].kind = idles[j].kind => i = j
  BY <1>0, FetchParts DEF Sources
<1>4. /\ Tail(idles) \in Seq(ListPDU \cup {ResponseSource}) /\ list = idles[1] /\ 1 \in DOMAIN idles
      /\ \A i \in DOMAIN Tail(idles) : Tail(idles)[i].kind # list.kind
      /\ \A i, j \in DOMAIN Tail(idles) : Tail(idles)[i].kind = Tail(idles)[j].kind => i = j
  BY <1>1, <1>3, TailKinds
<1>5. list \in ListPDU  BY <1>1, <1>3, HeadTailProperties DEF ResponseSource
<1>6. idles' = <<>>  BY <1>1, <1>4, WithoutTheResponse DEF OnlyList
<1>7. list.n \in 0..MaxCopies /\ list.types \in Lists /\ list.types \subseteq F!Type
  BY <1>5 DEF ListPDU, F!Type
<1>8. list.n \in Listing  BY <1>1, <1>4 DEF Listing
<1> HIDE DEF list
<1>9. Served(fetch, h, F!Type, F!Failed)
  <2> DEFINE T == F!Type
  <2>1. T \in SUBSET F!Type /\ F!Failed \in What  BY NoneIsNoMimeType
  <2> HIDE DEF T
  <2>2. Served(fetch, F!Serve(fetch, T, F!Failed), T, F!Failed)  BY <1>2, <2>1, Serves
  <2> QED  BY <2>2 DEF T
<1> HIDE DEF h
<1>10. a = [h EXCEPT !.ordered = <<>>, !.current = F!None, !.timer = FALSE]  BY DEF F!AbortAll, h
<1>11. /\ a \in FetchRec /\ a.pending = h.pending /\ a.written = h.written /\ a.since = h.since
       /\ a.cache = h.cache /\ a.ordered = <<>> /\ a.current = F!None /\ a.timer = FALSE
  <2>1. <<>> \in Seq(F!Type)  OBVIOUS
  <2> QED  BY <1>9, <1>10, <2>1 DEF Served, FetchRec
<1> HIDE DEF a
<1>12. /\ c \in [F!Type -> What]
       /\ \A x \in F!Type : c[x] = IF x \in list.types THEN F!Failed ELSE fetch.cache[x]
  BY <1>2, <1>9, <1>11, NoneIsNoMimeType DEF FetchRec, Served, F!Forgotten
<1>13. fetch' = [a EXCEPT !.cache = c]  BY <1>1, <1>11 DEF FetchRec
<1> HIDE DEF c
<1>14. /\ fetch' \in FetchRec /\ fetch'.pending = h.pending /\ fetch'.written = h.written
       /\ fetch'.since = h.since /\ fetch'.cache = c
       /\ fetch'.ordered = <<>> /\ fetch'.current = F!None /\ fetch'.timer = FALSE
  BY <1>11, <1>12, <1>13 DEF FetchRec
<1>15. /\ Moves(fetch, fetch', {F!Failed}) /\ Len(fetch'.written) = Len(fetch.written)
       /\ \A t \in F!Type : fetch'.pending[t] = {}
  BY <1>9, <1>14 DEF Served, Moves, Stays, Leaves
<1>16. owned.n <= list.n /\ list.n <= clip.n /\ \A w \in Handed : list.n <= w
  BY <1>0, <1>8 DEF InOrder
<1>17. owned' \in OwnedRec /\ owned'.n = list.n /\ owned'.types = list.types
  BY <1>1, <1>7 DEF OwnedRec
<1>18. Listing' = {} /\ Handed' = Handed /\ \A p : Number(p)' = Number(p)
  BY <1>1, <1>2, <1>6 DEF ListsRec, Listing, Handed, Number
<1>19. InOrder'  BY <1>0, <1>8, <1>1, <1>16, <1>17, <1>18 DEF InOrder
<1>20. Sources'  BY <1>1, <1>2, <1>6, <1>14 DEF ListsRec, Sources
<1>21. AtOnePlace'
  <2>1. PendingQueued(fetch')  BY <1>15 DEF PendingQueued
  <2> QED  BY <1>0, <1>1, <1>14, <1>15, <2>1, MovesPlaces
<1>22. WrittenFresh'
  <2> DEFINE C == {F!Failed}
  <2>1. C \subseteq What /\ \A w \in C : w # F!Failed => owned.n <= w.n  BY NoneIsNoMimeType
  <2>2. Moves(fetch, fetch', C)  BY <1>15
  <2> HIDE DEF C
  <2> QED  BY <1>0, <1>16, <1>17, <2>1, <2>2, MovesFresh
<1>23. CacheFresh'
  <2>1. ASSUME NEW x \in list.types PROVE fetch'.cache[x] = F!Failed
    BY <1>7, <1>12, <1>14
  <2>2. ASSUME NEW i \in DOMAIN transfers, fetch'.cache[transfers[i].type] # F!Failed
        PROVE  fetch.since[transfers[i].serial] <= fetch'.cache[transfers[i].type].n
    <3>1. transfers \in Seq(TransferRec)  BY <1>0, FetchParts
    <3>2. transfers[i] \in TransferRec  BY <3>1, LenProperties, ElementOfSeq
    <3>3. transfers[i].type \in F!Type  BY <3>2 DEF TransferRec
    <3> QED  BY <1>0, <1>12, <1>14, <2>2, <3>3 DEF CacheFresh
  <2> QED  BY <1>1, <1>15, <1>17, <2>1, <2>2 DEF CacheFresh, Moves
<1>24. FetchTypes'
  <2>1. \A x \in F!Type : fetch'.pending[x] \subseteq F!Serial'  BY <1>15
  <2>2. Len(fetch'.since) = Len(fetch'.written)  BY <1>0, <1>15, SinceLength
  <2>3. lists' \in ListsRec /\ lists'.waiting = lists.waiting  BY <1>1, <1>2 DEF ListsRec
  <2>4. /\ clip \in OwnedRec /\ up \in Seq(ListPDU \cup ResponsePDU) /\ down \in Seq(F!Type)
        /\ (\A x, y \in lists.waiting : x = y) /\ transfers \in Seq(TransferRec)
        /\ tables \subseteq F!Type /\ disposed \in BOOLEAN
    BY <1>0, FetchParts
  <2>5. /\ clip' \in OwnedRec /\ up' \in Seq(ListPDU \cup ResponsePDU) /\ down' \in Seq(F!Type)
        /\ (\A x, y \in lists'.waiting : x = y) /\ transfers' \in Seq(TransferRec)
        /\ tables' \subseteq F!Type /\ disposed' \in BOOLEAN
    BY <1>1, <1>7, <2>3, <2>4
  <2>6. idles' \in Seq(ListPDU \cup {ResponseSource})  BY <1>6
  <2> QED  BY <1>14, <1>17, <2>1, <2>2, <2>3, <2>5, <2>6, FetchTypesFrom
<1> QED  BY <1>19, <1>20, <1>21, <1>22, <1>23, <1>24 DEF FetchInv

\* An application of the session has the selection.
LEMMA TookSelection ==
  ASSUME FetchInv, F!SessionTakesSelection
  PROVE  FetchInv'
<1>0. /\ FetchTypes /\ InOrder /\ Sources /\ AtOnePlace /\ WrittenFresh /\ CacheFresh
  BY DEF FetchInv
<1>1. PICK types : fetch' = [fetch EXCEPT !.cache = F!Forgotten(@, types)]
  BY DEF F!SessionTakesSelection
<1>2. /\ ~disposed /\ owned' = [owned EXCEPT !.types = {}] /\ tables' = {}
      /\ UNCHANGED <<clip, up, down, lists, idles, transfers, disposed>>
  BY DEF F!SessionTakesSelection
<1>3. fetch \in FetchRec /\ owned \in OwnedRec  BY <1>0, FetchParts
<1> DEFINE c == F!Forgotten(fetch.cache, types)
<1>4. /\ c \in [F!Type -> What]
      /\ \A x \in F!Type : c[x] = IF x \in types THEN F!Failed ELSE fetch.cache[x]
  BY <1>3, NoneIsNoMimeType DEF FetchRec, F!Forgotten
<1>5. fetch' = [fetch EXCEPT !.cache = c]  BY <1>1, <1>3 DEF FetchRec
<1> HIDE DEF c
<1>6. /\ fetch' \in FetchRec /\ fetch'.pending = fetch.pending /\ fetch'.written = fetch.written
      /\ fetch'.since = fetch.since /\ fetch'.cache = c /\ fetch'.response = fetch.response
      /\ fetch'.ordered = fetch.ordered /\ fetch'.current = fetch.current
      /\ fetch'.timer = fetch.timer
  BY <1>3, <1>4, <1>5 DEF FetchRec
<1>7. owned' \in OwnedRec /\ owned'.n = owned.n /\ owned'.types = {}  BY <1>2, <1>3 DEF OwnedRec
<1>8. F!Serial' = F!Serial  BY <1>6 DEF F!Serial
<1>9. InOrder'  BY <1>2, <1>0, <1>7 DEF Listing, Handed, Number, InOrder
<1>10. Sources'  BY <1>0, <1>2, <1>6, <1>7 DEF Sources
<1>11. AtOnePlace'
  BY <1>0, <1>2, <1>6, <1>8
  DEF AtOnePlace, PendingOnce, PendingQueued, Queued, Underway
<1>12. WrittenFresh'  BY <1>0, <1>6, <1>7, <1>8 DEF WrittenFresh
<1>13. CacheFresh'
  <2>1. ASSUME NEW i \in DOMAIN transfers, fetch'.cache[transfers[i].type] # F!Failed
        PROVE  fetch.since[transfers[i].serial] <= fetch'.cache[transfers[i].type].n
    <3>1. transfers \in Seq(TransferRec)  BY <1>0, FetchParts
    <3>2. transfers[i] \in TransferRec  BY <3>1, LenProperties, ElementOfSeq
    <3>3. transfers[i].type \in F!Type  BY <3>2 DEF TransferRec
    <3> QED  BY <1>0, <1>4, <1>6, <2>1, <3>3 DEF CacheFresh
  <2> QED  BY <1>2, <1>6, <1>7, <2>1 DEF CacheFresh
<1>14. FetchTypes'  BY <1>0, FetchParts, <1>2, <1>6, <1>8, <1>7, FetchTypesFrom
<1> QED  BY <1>9, <1>10, <1>11, <1>12, <1>13, <1>14 DEF FetchInv

\* The disposal.
LEMMA FetchDisposed ==
  ASSUME FetchInv, F!Dispose
  PROVE  FetchInv'
<1>0. /\ FetchTypes /\ InOrder /\ Sources /\ AtOnePlace /\ WrittenFresh /\ CacheFresh
  BY DEF FetchInv
<1> DEFINE p == [t \in F!Type |-> {}]
           c == [t \in F!Type |-> F!Failed]
<1>1. /\ ~disposed /\ disposed' = TRUE /\ idles' = <<>>
      /\ lists' = [lists EXCEPT !.waiting = {}]
      /\ fetch' = [fetch EXCEPT !.current = F!None, !.response = F!NoResponse, !.timer = FALSE,
                                !.ordered = <<>>, !.pending = p, !.cache = c]
      /\ UNCHANGED <<clip, up, down, owned, transfers, tables>>
  BY DEF F!Dispose
<1>2. fetch \in FetchRec /\ owned \in OwnedRec /\ lists \in ListsRec  BY <1>0, FetchParts
<1>3. /\ p \in [F!Type -> SUBSET Nat] /\ c \in [F!Type -> What] /\ <<>> \in Seq(F!Type)
      /\ \A t \in F!Type : p[t] = {} /\ c[t] = F!Failed
  BY NoneIsNoMimeType
<1> HIDE DEF p, c
<1>4. /\ fetch' \in FetchRec /\ fetch'.pending = p /\ fetch'.written = fetch.written
      /\ fetch'.since = fetch.since /\ fetch'.cache = c
      /\ fetch'.ordered = <<>> /\ fetch'.current = F!None /\ fetch'.timer = FALSE
  BY <1>1, <1>2, <1>3, NoneIsNoMimeType DEF FetchRec
<1>5. lists' \in ListsRec /\ lists'.waiting = {}  BY <1>1, <1>2 DEF ListsRec
<1>6. F!Serial' = F!Serial  BY <1>4 DEF F!Serial
<1>7. InOrder'  BY <1>1, <1>5, <1>0 DEF Listing, Handed, Number, InOrder
<1>8. Sources'
  <2>1. DOMAIN idles' = {}  BY <1>1
  <2> QED  BY <1>1, <1>4, <2>1 DEF Sources
<1>9. AtOnePlace'  BY <1>3, <1>4, <1>0, <1>1, <1>6 DEF PendingOnce, PendingQueued, AtOnePlace
<1>10. WrittenFresh'  BY <1>0, <1>1, <1>4, <1>6 DEF WrittenFresh
<1>11. CacheFresh'
  <2>1. \A t \in owned.types : t \in F!Type  BY <1>2 DEF OwnedRec, F!Type
  <2>2. \A i \in DOMAIN transfers : transfers[i].type \in F!Type
    <3>1. transfers \in Seq(TransferRec)  BY <1>0, FetchParts
    <3>2. \A i \in DOMAIN transfers : transfers[i] \in TransferRec
      BY <3>1, LenProperties, ElementOfSeq
    <3> QED  BY <3>2 DEF TransferRec
  <2> QED  BY <1>1, <1>3, <1>4, <2>1, <2>2 DEF CacheFresh
<1>12. FetchTypes'  BY <1>0, FetchParts, <1>1, <1>2, <1>4, <1>3, <1>5, FetchTypesFrom
<1> QED  BY <1>7, <1>8, <1>9, <1>10, <1>11, <1>12 DEF FetchInv

\* What is left when the first item was taken.
LEMMA TailItems ==
  ASSUME NEW T, NEW s \in Seq(T), s # <<>>
  PROVE  /\ Tail(s) \in Seq(T) /\ Head(s) = s[1] /\ 1 \in DOMAIN s /\ Head(s) \in T
         /\ \A i \in DOMAIN Tail(s) : /\ i \in Nat /\ 1 < i + 1 /\ i + 1 \in DOMAIN s
                                      /\ Tail(s)[i] = s[i + 1]
<1> DEFINE t == Tail(s)
<1>1. /\ t \in Seq(T) /\ Len(t) = Len(s) - 1 /\ \A i \in 1 .. Len(t) : t[i] = s[i + 1]
      /\ Len(s) \in Nat \ {0} /\ Head(s) \in T
  BY HeadTailProperties, EmptySeq
<1>2. DOMAIN t = 1 .. Len(t) /\ DOMAIN s = 1 .. Len(s) /\ Head(s) = s[1]  BY <1>1, LenProperties
<1> HIDE DEF t
<1>3. \A i \in DOMAIN t : i \in Nat /\ 1 < i + 1 /\ i + 1 \in DOMAIN s /\ t[i] = s[i + 1]
  BY <1>1, <1>2
<1> QED  BY <1>1, <1>2, <1>3 DEF t

\* One item more.
LEMMA AppendItems ==
  ASSUME NEW T, NEW s \in Seq(T), NEW x \in T
  PROVE  LET t == Append(s, x)
             n == Len(s) + 1
         IN  /\ t \in Seq(T) /\ n \in Nat /\ DOMAIN t = DOMAIN s \cup {n} /\ Len(t) = n
             /\ t[n] = x /\ n \notin DOMAIN s
             /\ \A i \in DOMAIN s : t[i] = s[i] /\ i \in Nat /\ i < n
<1> DEFINE t == Append(s, x)
<1>1. /\ t \in Seq(T) /\ Len(t) = Len(s) + 1 /\ t[Len(s) + 1] = x
      /\ \A i \in 1 .. Len(s) : t[i] = s[i]
  BY AppendProperties
<1>2. DOMAIN t = 1 .. Len(t) /\ DOMAIN s = 1 .. Len(s) /\ Len(s) \in Nat
  BY <1>1, LenProperties
<1> HIDE DEF t
<1> QED  BY <1>1, <1>2 DEF t

\* The channel's thread and the client leave transfers, requests and cache alone.
LEMMA FetchKept ==
  ASSUME AtOnePlace, WrittenFresh, CacheFresh, UNCHANGED <<owned, transfers, disposed>>,
         fetch'.pending = fetch.pending, fetch'.written = fetch.written,
         fetch'.since = fetch.since, fetch'.cache = fetch.cache,
         fetch'.current = fetch.current, fetch'.ordered = fetch.ordered
  PROVE  AtOnePlace' /\ WrittenFresh' /\ CacheFresh'
BY DEF F!Serial, AtOnePlace, PendingOnce, PendingQueued, Queued, Underway, WrittenFresh, CacheFresh

\* What the client sent in order stays so when its first PDU is taken.
Numbers == {owned.n} \cup Listing \cup Handed
\* The thread takes a PDU of the client.
LEMMA TakenPDU ==
  ASSUME FetchTypes, InOrder, up # <<>>, up' = Tail(up)
  PROVE  /\ up' \in Seq(ListPDU \cup ResponsePDU) /\ Head(up) \in ListPDU \cup ResponsePDU
         /\ Number(Head(up)) <= clip.n /\ \A m \in Numbers : m <= Number(Head(up))
         /\ \A i \in DOMAIN up' : /\ Number(up'[i]) <= clip.n
                                  /\ \A m \in Numbers : m <= Number(up'[i])
                                  /\ Head(up).kind = "list" => Number(Head(up)) <= Number(up'[i])
                                  /\ \A j \in DOMAIN up' : i < j /\ up'[i].kind = "list" =>
                                                            Number(up'[i]) <= Number(up'[j])
<1>1. up \in Seq(ListPDU \cup ResponsePDU)  BY FetchParts
<1>2. /\ up' \in Seq(ListPDU \cup ResponsePDU) /\ Head(up) = up[1] /\ 1 \in DOMAIN up
      /\ Head(up) \in ListPDU \cup ResponsePDU
      /\ \A i \in DOMAIN up' : /\ i \in Nat /\ 1 < i + 1 /\ i + 1 \in DOMAIN up
                               /\ up'[i] = up[i + 1]
  <2> DEFINE T == ListPDU \cup ResponsePDU
  <2>1. up \in Seq(T)  BY <1>1
  <2> HIDE DEF T
  <2>2. /\ Tail(up) \in Seq(T) /\ Head(up) = up[1] /\ 1 \in DOMAIN up /\ Head(up) \in T
        /\ \A i \in DOMAIN Tail(up) : /\ i \in Nat /\ 1 < i + 1 /\ i + 1 \in DOMAIN up
                                      /\ Tail(up)[i] = up[i + 1]
    BY <2>1, TailItems
  <2> QED  BY <2>2 DEF T
<1>3. \A i \in DOMAIN up : /\ Number(up[i]) <= clip.n
                           /\ \A m \in Numbers : m <= Number(up[i])
                           /\ \A j \in DOMAIN up : i < j /\ up[i].kind = "list" =>
                                                    Number(up[i]) <= Number(up[j])
  BY DEF InOrder, Numbers
<1>4. ASSUME NEW i \in DOMAIN up'
      PROVE  /\ Number(up'[i]) <= clip.n
             /\ \A m \in Numbers : m <= Number(up'[i])
             /\ Head(up).kind = "list" => Number(Head(up)) <= Number(up'[i])
  BY <1>2, <1>3
<1>5. ASSUME NEW i \in DOMAIN up', NEW j \in DOMAIN up', i < j, up'[i].kind = "list"
      PROVE  Number(up'[i]) <= Number(up'[j])
  <2>1. i + 1 < j + 1  BY <1>2, <1>5
  <2> QED  BY <1>2, <1>3, <1>5, <2>1
<1> QED  BY <1>2, <1>3, <1>4, <1>5

\* The thread holds a list.
LEMMA TookClientFormatList ==
  ASSUME FetchInv, F!ClientFormatList
  PROVE  FetchInv'
<1>0. /\ FetchTypes /\ InOrder /\ Sources /\ AtOnePlace /\ WrittenFresh /\ CacheFresh
  BY DEF FetchInv
<1>1. /\ ~disposed /\ lists.waiting = {} /\ up # <<>> /\ Head(up).kind = "list" /\ up' = Tail(up)
      /\ lists' = [lists EXCEPT !.waiting = {Head(up)}]
      /\ UNCHANGED <<clip, down, idles, owned, transfers, tables, fetch, disposed>>
  BY DEF F!ClientFormatList
<1>2. /\ up' \in Seq(ListPDU \cup ResponsePDU) /\ Head(up) \in ListPDU \cup ResponsePDU
      /\ Number(Head(up)) <= clip.n /\ \A m \in Numbers : m <= Number(Head(up))
      /\ \A i \in DOMAIN up' : /\ Number(up'[i]) <= clip.n
                               /\ \A m \in Numbers : m <= Number(up'[i])
                               /\ Head(up).kind = "list" => Number(Head(up)) <= Number(up'[i])
                               /\ \A j \in DOMAIN up' : i < j /\ up'[i].kind = "list" =>
                                                         Number(up'[i]) <= Number(up'[j])
  BY <1>0, <1>1, TakenPDU
<1> DEFINE x == Head(up)
<1>3. x \in ListPDU /\ Number(x) = x.n  BY <1>1, <1>2 DEF ResponsePDU, Number
<1> HIDE DEF x
<1>4. lists' \in ListsRec /\ lists'.waiting = {x} /\ lists'.completed = lists.completed
  <2>1. lists \in ListsRec  BY <1>0, FetchParts
  <2> QED  BY <1>1, <1>3, <2>1 DEF ListsRec, x
<1>5. Listing' = Listing /\ Handed' = {x.n} /\ \A p : Number(p)' = Number(p)
  BY <1>1, <1>4 DEF Listing, Handed, Number
<1>6. InOrder'  BY <1>1, <1>2, <1>3, <1>0, <1>5 DEF Numbers, x, InOrder
<1>7. Sources'  BY <1>0, <1>1, <1>4 DEF Sources
<1>8. AtOnePlace' /\ WrittenFresh' /\ CacheFresh'  BY <1>0, <1>1, FetchKept
<1>9. FetchTypes'  BY <1>0, FetchParts, <1>1, <1>4, <1>2, FetchTypesFrom DEF F!Serial
<1> QED  BY <1>6, <1>7, <1>8, <1>9 DEF FetchInv

\* The thread hands the list on when the last one is completed.
LEMMA QueuedListUpdate ==
  ASSUME FetchInv, F!QueueListUpdate
  PROVE  FetchInv'
<1>0. /\ FetchTypes /\ InOrder /\ Sources /\ AtOnePlace /\ WrittenFresh /\ CacheFresh
  BY DEF FetchInv
<1>1. /\ ~disposed /\ lists.completed /\ lists' = [waiting |-> {}, completed |-> FALSE]
      /\ UNCHANGED <<clip, up, down, owned, transfers, tables, fetch, disposed>>
  BY DEF F!QueueListUpdate
<1>2. PICK x \in lists.waiting : idles' = Append(idles, x)  BY DEF F!QueueListUpdate
<1>3. x \in ListPDU /\ x.kind = "list"
  <2>1. lists \in ListsRec  BY <1>0, FetchParts
  <2> QED  BY <2>1 DEF ListsRec, ListPDU
<1> DEFINE n == Len(idles) + 1
<1>4. /\ idles' \in Seq(ListPDU \cup {ResponseSource})
      /\ DOMAIN idles' = DOMAIN idles \cup {n} /\ idles'[n] = x /\ n \notin DOMAIN idles
      /\ \A i \in DOMAIN idles : idles'[i] = idles[i]
  <2> DEFINE T == ListPDU \cup {ResponseSource}
  <2>1. idles \in Seq(T) /\ x \in T  BY <1>0, <1>3, FetchParts
  <2> HIDE DEF T
  <2>2. LET t == Append(idles, x)
        IN  /\ t \in Seq(T) /\ n \in Nat /\ DOMAIN t = DOMAIN idles \cup {n} /\ Len(t) = n
            /\ t[n] = x /\ n \notin DOMAIN idles
            /\ \A i \in DOMAIN idles : t[i] = idles[i] /\ i \in Nat /\ i < n
    BY <2>1, AppendItems
  <2> QED  BY <1>2, <2>2 DEF T
<1> HIDE DEF n
<1>5. \A i \in DOMAIN idles : idles[i].kind # "list"  BY <1>0, <1>1 DEF Sources
<1>6. Listing' = {x.n} /\ Handed' = {} /\ \A p : Number(p)' = Number(p)
  BY <1>3, <1>4, <1>5, <1>1 DEF Listing, Handed, Number
<1>7. x.n \in Handed  BY DEF Handed
<1>8. InOrder'  BY <1>0, <1>7, <1>1, <1>6 DEF InOrder
<1>9. Sources'  BY <1>1, <1>0, <1>3, <1>4, <1>5 DEF Sources
<1>10. AtOnePlace' /\ WrittenFresh' /\ CacheFresh'  BY <1>0, <1>1, FetchKept
<1>11. FetchTypes'  BY <1>0, FetchParts, <1>1, <1>4, FetchTypesFrom DEF F!Serial, ListsRec
<1> QED  BY <1>8, <1>9, <1>10, <1>11 DEF FetchInv

\* The thread hands a response on.
LEMMA TookClientResponse ==
  ASSUME FetchInv, F!ClientFormatDataResponse
  PROVE  FetchInv'
<1>0. /\ FetchTypes /\ InOrder /\ Sources /\ AtOnePlace /\ WrittenFresh /\ CacheFresh
  BY DEF FetchInv
<1> DEFINE x == [kind |-> "response", n |-> 0, types |-> {}]
<1>1. /\ ~disposed /\ up # <<>> /\ Head(up).kind = "response" /\ up' = Tail(up)
      /\ IF fetch.current = F!None
         THEN UNCHANGED <<fetch, idles>>
         ELSE /\ fetch' = [fetch EXCEPT !.response = Head(up).data]
              /\ idles' = IF \E i \in DOMAIN idles : idles[i].kind = "response" THEN idles
                          ELSE Append(idles, x)
      /\ UNCHANGED <<clip, down, lists, owned, transfers, tables, disposed>>
  BY DEF F!ClientFormatDataResponse
<1> DEFINE r == Head(up).data
<1>2. /\ up' \in Seq(ListPDU \cup ResponsePDU) /\ Head(up) \in ListPDU \cup ResponsePDU
      /\ Number(Head(up)) <= clip.n /\ \A m \in Numbers : m <= Number(Head(up))
      /\ \A i \in DOMAIN up' : /\ Number(up'[i]) <= clip.n
                               /\ \A m \in Numbers : m <= Number(up'[i])
                               /\ \A j \in DOMAIN up' : i < j /\ up'[i].kind = "list" =>
                                                         Number(up'[i]) <= Number(up'[j])
  BY <1>0, <1>1, TakenPDU
<1>3. /\ r \in [ok : BOOLEAN, type : F!Type, n : 0..MaxCopies]
      /\ Number(Head(up)) = r.n
  BY <1>1, <1>2 DEF ResponsePDU, ListPDU, Number
<1>4. r \in Response /\ r # F!NoResponse /\ owned.n <= r.n /\ r.n >= owned.n
  <2>1. r \in Response /\ r.type # F!None  BY <1>3, NoneIsNoMimeType DEF Response
  <2>2. r # F!NoResponse  BY <2>1 DEF F!NoResponse
  <2>3. owned.n <= r.n  BY <1>2, <1>3 DEF Numbers
  <2>4. owned.n \in Nat /\ r.n \in Nat
    <3>1. owned \in OwnedRec  BY <1>0, FetchParts
    <3> QED  BY <1>3, <3>1, NoneIsNoMimeType DEF OwnedRec
  <2> QED  BY <2>1, <2>2, <2>3, <2>4
<1> HIDE DEF r
<1>5. fetch \in FetchRec /\ idles \in Seq(ListPDU \cup {ResponseSource})  BY <1>0, FetchParts
<1>6. /\ fetch' \in FetchRec
      /\ fetch'.pending = fetch.pending /\ fetch'.written = fetch.written
      /\ fetch'.since = fetch.since /\ fetch'.cache = fetch.cache
      /\ fetch'.current = fetch.current /\ fetch'.ordered = fetch.ordered
      /\ fetch'.timer = fetch.timer
      /\ IF fetch.current = F!None THEN fetch'.response = fetch.response ELSE fetch'.response = r
  <2>1. CASE fetch.current = F!None  BY <1>1, <1>5, <2>1
  <2>2. CASE fetch.current # F!None  BY <1>1, <2>2, <1>4, <1>5 DEF r, FetchRec
  <2> QED  BY <2>1, <2>2
<1>7. /\ idles' \in Seq(ListPDU \cup {ResponseSource})
      /\ \A i, j \in DOMAIN idles' : idles'[i].kind = idles'[j].kind => i = j
      /\ (\E i \in DOMAIN idles' : idles'[i].kind = "list")
           <=> \E i \in DOMAIN idles : idles[i].kind = "list"
      /\ (\E i \in DOMAIN idles' : idles'[i].kind = "response") =>
           fetch.current # F!None
      /\ Listing' \subseteq Listing
  <2>1. CASE idles' = idles  BY <2>1, <1>0, <1>5 DEF Listing, Sources
  <2>2. CASE /\ fetch.current # F!None /\ idles' = Append(idles, x)
             /\ \A i \in DOMAIN idles : idles[i].kind # "response"
    <3> DEFINE n == Len(idles) + 1
    <3>1. x = ResponseSource /\ x.kind = "response"  BY DEF ResponseSource
    <3>2. /\ idles' \in Seq(ListPDU \cup {ResponseSource})
          /\ DOMAIN idles' = DOMAIN idles \cup {n} /\ idles'[n] = x /\ n \notin DOMAIN idles
          /\ \A i \in DOMAIN idles : idles'[i] = idles[i]
      <4> DEFINE T == ListPDU \cup {ResponseSource}
      <4>1. idles \in Seq(T) /\ x \in T  BY <1>5, <3>1
      <4> HIDE DEF T, x
      <4>2. LET t == Append(idles, x)
            IN  /\ t \in Seq(T) /\ n \in Nat /\ DOMAIN t = DOMAIN idles \cup {n} /\ Len(t) = n
                /\ t[n] = x /\ n \notin DOMAIN idles
                /\ \A i \in DOMAIN idles : t[i] = idles[i] /\ i \in Nat /\ i < n
        BY <4>1, AppendItems
      <4> QED  BY <2>2, <4>2 DEF T
    <3> HIDE DEF n, x
    <3>3. \A i, j \in DOMAIN idles' : idles'[i].kind = idles'[j].kind => i = j
      BY <1>0, <2>2, <3>1, <3>2 DEF Sources
    <3>4. {j \in DOMAIN idles' : idles'[j].kind = "list"}
             = {j \in DOMAIN idles : idles[j].kind = "list"}
      BY <3>1, <3>2
    <3>5. Listing' \subseteq Listing  BY <3>2, <3>4 DEF Listing
    <3> QED  BY <2>2, <3>2, <3>3, <3>4, <3>5
  <2> QED  BY <1>1, <2>1, <2>2
<1> HIDE DEF x
<1>8. InOrder'  BY <1>1, <1>2, <1>7, <1>0 DEF Handed, Number, Numbers, InOrder
<1>9. Sources'  BY <1>1, <1>4, <1>6, <1>7, <1>0 DEF Sources
<1>10. AtOnePlace' /\ WrittenFresh' /\ CacheFresh'  BY <1>0, <1>1, <1>6, FetchKept
<1>11. FetchTypes'  BY <1>0, FetchParts, <1>6, <1>1, <1>2, <1>7, FetchTypesFrom DEF F!Serial
<1> QED  BY <1>8, <1>9, <1>10, <1>11 DEF FetchInv

\* What lists and responses are numbered with.
LEMMA NumbersTyped ==
  ASSUME FetchTypes
  PROVE  /\ \A m \in Numbers : m \in Nat
         /\ \A i \in DOMAIN up : Number(up[i]) \in Nat
         /\ clip.n \in Nat /\ owned.n \in Nat
<1>1. /\ up \in Seq(ListPDU \cup ResponsePDU) /\ idles \in Seq(ListPDU \cup {ResponseSource})
      /\ lists \in ListsRec /\ clip \in OwnedRec /\ owned \in OwnedRec
  BY FetchParts
<1>2. MaxCopies \in Nat  BY NoneIsNoMimeType
<1>3. \A i \in DOMAIN idles : idles[i].n \in Nat
  BY <1>1, LenProperties, ElementOfSeq, <1>2 DEF ListPDU, ResponseSource
<1>4. \A i \in DOMAIN up : Number(up[i]) \in Nat
  BY <1>1, LenProperties, ElementOfSeq, <1>2 DEF ListPDU, Number, ResponsePDU
<1>5. clip.n \in Nat /\ owned.n \in Nat  BY <1>1, <1>2 DEF OwnedRec
<1>6. \A m \in Handed : m \in Nat  BY <1>1, <1>2 DEF Handed, ListsRec, ListPDU
<1>7. \A m \in Listing : m \in Nat  BY <1>3 DEF Listing
<1> QED  BY <1>4, <1>5, <1>6, <1>7 DEF Numbers

\* What the client sends comes from the clipboard that it has.
LEMMA SentPDU ==
  ASSUME FetchTypes, InOrder, NEW x \in ListPDU \cup ResponsePDU, up' = Append(up, x),
         clip'.n \in Nat, clip.n <= clip'.n, Number(x) = clip'.n,
         UNCHANGED <<lists, idles, owned>>
  PROVE  InOrder' /\ up' \in Seq(ListPDU \cup ResponsePDU)
<1> DEFINE n == Len(up) + 1
<1>1. /\ up' \in Seq(ListPDU \cup ResponsePDU) /\ n \in Nat /\ DOMAIN up' = DOMAIN up \cup {n}
      /\ up'[n] = x /\ n \notin DOMAIN up
      /\ \A i \in DOMAIN up : up'[i] = up[i] /\ i \in Nat /\ i < n
  <2> DEFINE T == ListPDU \cup ResponsePDU
  <2>1. up \in Seq(T) /\ x \in T  BY FetchParts
  <2> HIDE DEF T
  <2>2. LET t == Append(up, x)
        IN  /\ t \in Seq(T) /\ n \in Nat /\ DOMAIN t = DOMAIN up \cup {n} /\ Len(t) = n
            /\ t[n] = x /\ n \notin DOMAIN up
            /\ \A i \in DOMAIN up : t[i] = up[i] /\ i \in Nat /\ i < n
    BY <2>1, AppendItems
  <2> QED  BY <2>2 DEF T
<1> HIDE DEF n
<1>2. /\ Listing' = Listing /\ Handed' = Handed /\ Numbers' = Numbers
      /\ \A p : Number(p)' = Number(p)
  BY DEF Listing, Handed, Numbers, Number
<1>3. /\ \A m \in Numbers : m \in Nat
      /\ \A i \in DOMAIN up : Number(up[i]) \in Nat
      /\ clip.n \in Nat
  BY NumbersTyped
<1>4. \A m \in Numbers : m <= clip.n  BY DEF InOrder, Numbers
<1>5. \A m \in Numbers : m <= clip'.n  BY <1>3, <1>4
<1>6. \A i \in DOMAIN up : Number(up[i]) <= clip'.n /\ \A m \in Numbers : m <= Number(up[i])
  BY <1>3 DEF InOrder, Numbers
<1>7. clip'.n <= clip'.n  OBVIOUS
<1>8. ASSUME NEW i \in DOMAIN up', NEW j \in DOMAIN up', i < j, up'[i].kind = "list"
      PROVE  Number(up'[i]) <= Number(up'[j])
  BY <1>1, <1>8, <1>6 DEF InOrder
<1>9. \A i \in DOMAIN up' : Number(up'[i]) <= clip'.n /\ \A m \in Numbers : m <= Number(up'[i])
  BY <1>1, <1>5, <1>6, <1>7
<1>10. InOrder'  BY <1>8, <1>9, <1>5, <1>2 DEF Numbers, InOrder
<1> QED  BY <1>1, <1>10

\* The client has a new clipboard.
LEMMA CopiedByClient ==
  ASSUME FetchInv, F!ClientCopies
  PROVE  FetchInv'
<1>0. /\ FetchTypes /\ InOrder /\ Sources /\ AtOnePlace /\ WrittenFresh /\ CacheFresh
  BY DEF FetchInv
<1>1. /\ clip.n < MaxCopies
      /\ UNCHANGED <<down, lists, idles, owned, transfers, tables, fetch, disposed>>
  BY DEF F!ClientCopies
<1>2. PICK types \in Lists : clip' = [n |-> clip.n + 1, types |-> types]  BY DEF F!ClientCopies
<1> DEFINE x == [kind |-> "list", n |-> clip'.n, types |-> clip'.types]
<1>3. up' = Append(up, x)  BY DEF F!ClientCopies
<1>4. clip.n \in Nat /\ MaxCopies \in Nat  BY <1>0, NumbersTyped, NoneIsNoMimeType
<1>5. /\ clip' \in OwnedRec /\ clip'.n \in 0..MaxCopies /\ clip'.types \in Lists
      /\ clip'.n \in Nat /\ clip.n <= clip'.n
  BY <1>1, <1>2, <1>4 DEF OwnedRec
<1>6. x \in ListPDU  BY <1>5 DEF ListPDU
<1>7. Number(x) = clip'.n  BY DEF Number
<1> HIDE DEF x
<1>8. InOrder' /\ up' \in Seq(ListPDU \cup ResponsePDU)
  BY <1>1, <1>6, <1>0, <1>3, <1>5, <1>7, SentPDU
<1>9. Sources'  BY <1>0, <1>1 DEF Sources
<1>10. AtOnePlace' /\ WrittenFresh' /\ CacheFresh'  BY <1>0, <1>1, FetchKept
<1>11. FetchTypes'  BY <1>0, FetchParts, <1>1, <1>5, <1>8, FetchTypesFrom DEF F!Serial
<1> QED  BY <1>8, <1>9, <1>10, <1>11 DEF FetchInv

\* The client answers a request from the clipboard it has by then.
LEMMA AnsweredByClient ==
  ASSUME FetchInv, F!ClientAnswers
  PROVE  FetchInv'
<1>0. /\ FetchTypes /\ InOrder /\ Sources /\ AtOnePlace /\ WrittenFresh /\ CacheFresh
  BY DEF FetchInv
<1> DEFINE t == Head(down)
           x == [kind |-> "response", data |-> [ok |-> t \in clip.types, type |-> t, n |-> clip.n]]
<1>1. /\ down # <<>> /\ down' = Tail(down) /\ (up' = up \/ up' = Append(up, x))
      /\ UNCHANGED <<clip, lists, idles, owned, transfers, tables, fetch, disposed>>
  BY DEF F!ClientAnswers
<1>2. t \in F!Type /\ down' \in Seq(F!Type)
  <2>1. down \in Seq(F!Type)  BY <1>0, FetchParts
  <2> QED  BY <1>1, <2>1, HeadTailProperties
<1>3. clip \in OwnedRec /\ clip.n \in Nat  BY <1>0, FetchParts, NumbersTyped
<1>4. x \in ResponsePDU /\ Number(x) = clip.n  BY <1>2, <1>3 DEF OwnedRec, ResponsePDU, Number
<1> HIDE DEF x
<1>5. InOrder' /\ up' \in Seq(ListPDU \cup ResponsePDU)
  <2>1. CASE up' = up
    <3>1. InOrder'  BY <1>0, <1>1, <2>1 DEF InOrder, Listing, Handed, Number
    <3> QED  BY <1>0, <2>1, <3>1, FetchParts
  <2>2. CASE up' = Append(up, x)  BY <1>1, <1>3, <1>4, <1>0, <2>2, SentPDU
  <2> QED  BY <1>1, <2>1, <2>2
<1>6. Sources'  BY <1>0, <1>1 DEF Sources
<1>7. AtOnePlace' /\ WrittenFresh' /\ CacheFresh'  BY <1>0, <1>1, FetchKept
<1>8. FetchTypes'  BY <1>0, FetchParts, <1>1, <1>2, <1>5, FetchTypesFrom DEF F!Serial
<1> QED  BY <1>5, <1>6, <1>7, <1>8 DEF FetchInv

\* An application pastes: the transfer is for the selection that the display server knows.
LEMMA NewTransfer ==
  ASSUME FetchInv, F!Transfer
  PROVE  FetchInv'
<1>0. /\ FetchTypes /\ InOrder /\ Sources /\ AtOnePlace /\ WrittenFresh /\ CacheFresh
  BY DEF FetchInv
<1> DEFINE n == Len(fetch.written) + 1
<1>1. /\ ~disposed
      /\ fetch' = [fetch EXCEPT !.written = Append(@, <<>>), !.since = Append(@, owned.n)]
      /\ UNCHANGED <<clip, up, down, lists, idles, owned, tables, disposed>>
  BY DEF F!Transfer
<1>2. PICK t \in owned.types : transfers' = Append(transfers, [serial |-> n, type |-> t])
  BY DEF F!Transfer
<1> DEFINE x == [serial |-> n, type |-> t]
<1>3. /\ fetch \in FetchRec /\ owned \in OwnedRec /\ transfers \in Seq(TransferRec)
      /\ Len(fetch.since) = Len(fetch.written) /\ (\A u \in F!Type : fetch.pending[u] \subseteq F!Serial)
  BY <1>0, FetchParts
<1>4. t \in F!Type /\ n \in Nat /\ owned.n \in 0..MaxCopies
  BY <1>3, Transferred DEF OwnedRec, F!Type
<1>5. x \in TransferRec /\ x.serial = n /\ x.type = t  BY <1>4 DEF TransferRec
<1> DEFINE k == Len(transfers) + 1
<1>6. /\ transfers' \in Seq(TransferRec) /\ DOMAIN transfers' = DOMAIN transfers \cup {k}
      /\ transfers'[k] = x /\ k \notin DOMAIN transfers
      /\ \A i \in DOMAIN transfers : transfers'[i] = transfers[i]
  <2> HIDE DEF x
  <2>1. LET s == Append(transfers, x)
        IN  /\ s \in Seq(TransferRec) /\ k \in Nat /\ DOMAIN s = DOMAIN transfers \cup {k}
            /\ Len(s) = k /\ s[k] = x /\ k \notin DOMAIN transfers
            /\ \A i \in DOMAIN transfers : s[i] = transfers[i] /\ i \in Nat /\ i < k
    BY <1>3, <1>5, AppendItems
  <2>2. transfers' = Append(transfers, x)  BY <1>2 DEF x
  <2> QED  BY <2>1, <2>2
<1> DEFINE w == Append(fetch.written, <<>>)
           c == Append(fetch.since, owned.n)
<1>7. /\ w \in Seq(Seq(What)) /\ DOMAIN w = DOMAIN fetch.written \cup {n} /\ Len(w) = n
      /\ w[n] = <<>> /\ n \notin DOMAIN fetch.written
      /\ \A i \in DOMAIN fetch.written : w[i] = fetch.written[i]
  <2>1. fetch.written \in Seq(Seq(What)) /\ <<>> \in Seq(What)  BY <1>3 DEF FetchRec
  <2> DEFINE T == Seq(What)
             e == <<>>
  <2>2. fetch.written \in Seq(T) /\ e \in T  BY <2>1
  <2> HIDE DEF T, e
  <2>3. LET s == Append(fetch.written, e)
        IN  /\ s \in Seq(T) /\ n \in Nat /\ DOMAIN s = DOMAIN fetch.written \cup {n} /\ Len(s) = n
            /\ s[n] = e /\ n \notin DOMAIN fetch.written
            /\ \A i \in DOMAIN fetch.written : s[i] = fetch.written[i] /\ i \in Nat /\ i < n
    BY <2>2, AppendItems
  <2> QED  BY <2>3 DEF T, e
<1>8. /\ c \in Seq(0..MaxCopies) /\ Len(c) = n /\ c[n] = owned.n
      /\ \A i \in DOMAIN fetch.written : c[i] = fetch.since[i]
  <2>1. fetch.since \in Seq(0..MaxCopies)  BY <1>3 DEF FetchRec
  <2>2. DOMAIN fetch.since = DOMAIN fetch.written
    BY <1>3, <2>1, LenProperties, Transferred
  <2> DEFINE T == 0..MaxCopies
             e == owned.n
             m == Len(fetch.since) + 1
  <2>3. fetch.since \in Seq(T) /\ e \in T  BY <1>4, <2>1
  <2> HIDE DEF T, e
  <2>4. LET s == Append(fetch.since, e)
        IN  /\ s \in Seq(T) /\ m \in Nat /\ DOMAIN s = DOMAIN fetch.since \cup {m} /\ Len(s) = m
            /\ s[m] = e /\ m \notin DOMAIN fetch.since
            /\ \A i \in DOMAIN fetch.since : s[i] = fetch.since[i] /\ i \in Nat /\ i < m
    BY <2>3, AppendItems
  <2> QED  BY <1>3, <2>2, <2>4 DEF T, e
<1>9. fetch' = [fetch EXCEPT !.written = w, !.since = c]  BY <1>1, <1>3 DEF FetchRec
<1> HIDE DEF w, c
<1>10. /\ fetch' \in FetchRec /\ fetch'.written = w /\ fetch'.since = c
       /\ fetch'.pending = fetch.pending /\ fetch'.cache = fetch.cache
       /\ fetch'.current = fetch.current /\ fetch'.ordered = fetch.ordered
       /\ fetch'.timer = fetch.timer /\ fetch'.response = fetch.response
  BY <1>3, <1>7, <1>8, <1>9 DEF FetchRec
<1>11. F!Serial' = F!Serial \cup {n} /\ n \notin F!Serial  BY <1>7, <1>10 DEF F!Serial
<1> HIDE DEF n, k, x
<1>12. InOrder'  BY <1>0, <1>1, StaysInOrder DEF Listing
<1>13. Sources'  BY <1>0, <1>1, <1>10 DEF Sources
<1>14. ASSUME NEW i \in DOMAIN transfers
       PROVE  /\ transfers[i].serial \in F!Serial /\ fetch.written[transfers[i].serial] = <<>>
              /\ \A j \in DOMAIN transfers : transfers[j].serial = transfers[i].serial => j = i
              /\ \A u \in F!Type : transfers[i].serial \notin fetch.pending[u]
  BY <1>0 DEF AtOnePlace
<1>15. AtOnePlace'
  <2>1. PendingOnce(fetch')
    <3>1. PendingOnce(fetch)  BY <1>0 DEF AtOnePlace
    <3> QED  BY <1>7, <1>10, <3>1 DEF PendingOnce
  <2>2. PendingQueued(fetch')  BY <1>0, <1>10 DEF AtOnePlace, PendingQueued, Queued
  <2>3. ASSUME NEW i \in DOMAIN transfers'
        PROVE  LET s == transfers'[i].serial
               IN  /\ s \in F!Serial' /\ fetch'.written[s] = <<>>
                   /\ \A j \in DOMAIN transfers' : transfers'[j].serial = s => j = i
                   /\ \A u \in F!Type : s \notin fetch'.pending[u]
    <3>1. CASE i \in DOMAIN transfers
      <4> DEFINE s == transfers[i].serial
      <4>1. s = transfers'[i].serial /\ s \in F!Serial  BY <1>6, <1>14, <3>1
      <4>2. fetch'.written[s] = <<>>  BY <1>7, <1>10, <1>14, <3>1 DEF F!Serial
      <4>3. \A j \in DOMAIN transfers' : transfers'[j].serial = s => j = i
        BY <1>5, <1>6, <1>11, <1>14, <3>1
      <4>4. \A u \in F!Type : s \notin fetch'.pending[u]  BY <1>10, <1>14, <3>1
      <4> QED  BY <1>11, <4>1, <4>2, <4>3, <4>4
    <3>2. CASE i = k  BY <1>5, <1>6, <3>2, <1>11, <1>14, <1>3, <1>10, <1>7
    <3> QED  BY <1>6, <3>1, <3>2
  <2>4. \A s : Underway(s) => Underway(s)'  BY <1>6 DEF Underway
  <2>5. ASSUME NEW s \in F!Serial'
        PROVE  /\ Len(fetch'.written[s]) <= 1
               /\ ~disposed' /\ fetch'.written[s] = <<>> =>
                    Underway(s)' \/ \E u \in F!Type : s \in fetch'.pending[u]
    <3>1. CASE s \in F!Serial  BY <1>7, <1>10, <3>1, <1>0, <1>1, <2>4 DEF F!Serial, AtOnePlace
    <3>2. CASE s = n
      <4>1. Underway(s)'  BY <1>5, <1>6, <3>2 DEF Underway
      <4>2. Len(<<>>) <= 1  OBVIOUS
      <4> QED  BY <1>7, <1>10, <3>2, <4>1, <4>2
    <3> QED  BY <1>11, <3>1, <3>2
  <2> QED  BY <2>1, <2>2, <2>3, <2>5 DEF AtOnePlace
<1>16. WrittenFresh'
  <2>1. ASSUME NEW s \in F!Serial'
        PROVE  /\ fetch'.since[s] <= owned.n
               /\ \A i \in DOMAIN fetch'.written[s] :
                    fetch'.written[s][i] # F!Failed => fetch'.since[s] <= fetch'.written[s][i].n
    <3>1. CASE s \in F!Serial  BY <1>7, <1>8, <1>10, <3>1, <1>0 DEF F!Serial, WrittenFresh
    <3>2. CASE s = n  BY <1>4, <1>7, <1>8, <1>10, <3>2
    <3> QED  BY <1>11, <3>1, <3>2
  <2> QED  BY <1>1, <2>1 DEF WrittenFresh
<1>17. CacheFresh'
  <2>1. ASSUME NEW i \in DOMAIN transfers', fetch'.cache[transfers'[i].type] # F!Failed
        PROVE  fetch'.since[transfers'[i].serial] <= fetch'.cache[transfers'[i].type].n
    <3>1. CASE i \in DOMAIN transfers
      BY <1>6, <1>14, <3>1, <1>0, <1>8, <1>10, <2>1 DEF F!Serial, CacheFresh
    <3>2. CASE i = k  BY <1>5, <1>6, <3>2, <1>0, <1>8, <1>10, <2>1 DEF CacheFresh
    <3> QED  BY <1>6, <3>1, <3>2
  <2> QED  BY <1>0, <1>1, <1>10, <2>1 DEF CacheFresh
<1>18. FetchTypes'
  BY <1>0, FetchParts, <1>1, <1>3, <1>7, <1>8, <1>10, <1>11, <1>6, FetchTypesFrom
<1> QED  BY <1>12, <1>13, <1>15, <1>16, <1>17, <1>18 DEF FetchInv

\* The first transfer is taken; the others stay under way.
LEMMA RestOfTransfers ==
  ASSUME FetchTypes, AtOnePlace, CacheFresh, transfers # <<>>, transfers' = Tail(transfers)
  PROVE  LET x == Head(transfers)
         IN  /\ transfers' \in Seq(TransferRec) /\ x \in TransferRec
             /\ x.serial \in F!Serial /\ fetch.written[x.serial] = <<>>
             /\ \A t \in F!Type : x.serial \notin fetch.pending[t]
             /\ fetch.cache[x.type] # F!Failed => fetch.since[x.serial] <= fetch.cache[x.type].n
             /\ \A i \in DOMAIN transfers' :
                  LET s == transfers'[i].serial
                  IN  /\ s \in F!Serial /\ s # x.serial /\ fetch.written[s] = <<>>
                      /\ \A j \in DOMAIN transfers' : transfers'[j].serial = s => j = i
                      /\ \A t \in F!Type : s \notin fetch.pending[t]
                      /\ fetch.cache[transfers'[i].type] # F!Failed =>
                           fetch.since[s] <= fetch.cache[transfers'[i].type].n
             /\ \A s : Underway(s) => s = x.serial \/ Underway(s)'
<1>1. transfers \in Seq(TransferRec)  BY FetchParts
<1>2. /\ transfers' \in Seq(TransferRec) /\ Head(transfers) = transfers[1] /\ 1 \in DOMAIN transfers
      /\ Head(transfers) \in TransferRec
      /\ \A i \in DOMAIN transfers' : /\ i \in Nat /\ 1 < i + 1 /\ i + 1 \in DOMAIN transfers
                                      /\ transfers'[i] = transfers[i + 1]
  BY <1>1, TailItems
<1> DEFINE x == Head(transfers)
<1>3. ASSUME NEW i \in DOMAIN transfers
      PROVE  LET s == transfers[i].serial
             IN  /\ s \in F!Serial /\ fetch.written[s] = <<>>
                 /\ \A j \in DOMAIN transfers : transfers[j].serial = s => j = i
                 /\ \A t \in F!Type : s \notin fetch.pending[t]
                 /\ fetch.cache[transfers[i].type] # F!Failed =>
                      fetch.since[s] <= fetch.cache[transfers[i].type].n
  BY DEF AtOnePlace, CacheFresh
<1>4. ASSUME NEW i \in DOMAIN transfers'
      PROVE  LET s == transfers'[i].serial
             IN  /\ s \in F!Serial /\ s # x.serial /\ fetch.written[s] = <<>>
                 /\ \A j \in DOMAIN transfers' : transfers'[j].serial = s => j = i
                 /\ \A t \in F!Type : s \notin fetch.pending[t]
                 /\ fetch.cache[transfers'[i].type] # F!Failed =>
                      fetch.since[s] <= fetch.cache[transfers'[i].type].n
  <2> DEFINE s == transfers'[i].serial
  <2>1. /\ i + 1 \in DOMAIN transfers /\ transfers'[i] = transfers[i + 1] /\ i + 1 # 1 /\ i \in Nat
    BY <1>2
  <2>2. s # x.serial  BY <1>2, <1>3, <2>1
  <2>3. \A j \in DOMAIN transfers' : transfers'[j].serial = s => j = i  BY <1>2, <1>3, <2>1
  <2> QED  BY <1>3, <2>1, <2>2, <2>3
<1>5. ASSUME NEW s, Underway(s) PROVE s = x.serial \/ Underway(s)'
  <2>1. PICK i \in DOMAIN transfers : transfers[i].serial = s  BY <1>5 DEF Underway
  <2>2. CASE i = 1  BY <1>2, <2>1, <2>2
  <2>3. CASE i # 1
    <3>1. /\ DOMAIN transfers = 1 .. Len(transfers) /\ Len(transfers) \in Nat
          /\ Len(transfers') = Len(transfers) - 1 /\ DOMAIN transfers' = 1 .. Len(transfers')
      BY <1>1, <1>2, HeadTailProperties, LenProperties
    <3>2. i - 1 \in DOMAIN transfers' /\ (i - 1) + 1 = i  BY <2>3, <3>1
    <3>3. transfers'[i - 1] = transfers[i]  BY <1>2, <3>2
    <3> QED  BY <2>1, <3>2, <3>3 DEF Underway
  <2> QED  BY <2>2, <2>3
<1> QED  BY <1>2, <1>3, <1>4, <1>5

\* Its serial is written, or waits for the mime type that is requested or queued.
LEMMA OfSelectionTransfer ==
  ASSUME FetchInv, F!SelectionTransfer
  PROVE  FetchInv'
<1>0. /\ FetchTypes /\ InOrder /\ Sources /\ AtOnePlace /\ WrittenFresh /\ CacheFresh
  BY DEF FetchInv
<1> DEFINE x == Head(transfers)
           s == x.serial
           t == x.type
           tracked(f) == [f EXCEPT !.pending[t] = @ \cup {s}]
<1>1. /\ ~disposed /\ transfers # <<>> /\ transfers' = Tail(transfers)
      /\ \/ fetch' = F!Write(fetch, {s}, F!Failed) /\ UNCHANGED down
         \/ fetch.cache[t] # F!Failed /\ fetch' = F!Write(fetch, {s}, fetch.cache[t]) /\ UNCHANGED down
         \/ /\ fetch.current # F!None
            /\ fetch' = [tracked(fetch) EXCEPT !.ordered = Append(@, t)] /\ UNCHANGED down
         \/ /\ fetch.current = F!None
            /\ fetch' = [tracked(fetch) EXCEPT !.current = t, !.timer = TRUE] /\ F!Requested(t)
      /\ UNCHANGED <<clip, up, lists, idles, owned, tables, disposed>>
  BY DEF F!SelectionTransfer
<1>2. /\ fetch \in FetchRec /\ owned \in OwnedRec /\ Len(fetch.since) = Len(fetch.written)
      /\ (\A u \in F!Type : fetch.pending[u] \subseteq F!Serial) /\ PendingOnce(fetch)
      /\ PendingQueued(fetch)
  BY <1>0, FetchParts DEF AtOnePlace
<1>3. /\ transfers' \in Seq(TransferRec) /\ x \in TransferRec
      /\ s \in F!Serial /\ fetch.written[s] = <<>>
      /\ \A u \in F!Type : s \notin fetch.pending[u]
      /\ fetch.cache[t] # F!Failed => fetch.since[s] <= fetch.cache[t].n
      /\ \A i \in DOMAIN transfers' :
           LET r == transfers'[i].serial
           IN  /\ r \in F!Serial /\ r # s /\ fetch.written[r] = <<>>
               /\ \A j \in DOMAIN transfers' : transfers'[j].serial = r => j = i
               /\ \A u \in F!Type : r \notin fetch.pending[u]
               /\ fetch.cache[transfers'[i].type] # F!Failed =>
                    fetch.since[r] <= fetch.cache[transfers'[i].type].n
      /\ \A r : Underway(r) => r = s \/ Underway(r)'
  BY <1>0, <1>1, RestOfTransfers
<1>4. t \in F!Type /\ t # F!None /\ s \in Nat  BY <1>3, NoneIsNoMimeType DEF TransferRec
<1> HIDE DEF x
\* What changes, and what does not.
<1>5. /\ fetch' \in FetchRec /\ fetch'.cache = fetch.cache /\ fetch'.since = fetch.since
      /\ fetch'.response = fetch.response
      /\ DOMAIN fetch'.written = DOMAIN fetch.written /\ Len(fetch'.written) = Len(fetch.written)
      /\ \A r \in F!Serial : r # s => fetch'.written[r] = fetch.written[r]
      /\ \/ /\ \E w \in What : /\ fetch'.written[s] = <<w>>
                               /\ w # F!Failed => fetch.since[s] <= w.n
            /\ fetch'.pending = fetch.pending /\ fetch'.current = fetch.current
            /\ fetch'.ordered = fetch.ordered /\ fetch'.timer = fetch.timer
            /\ down' = down
         \/ /\ fetch'.written = fetch.written
            /\ \A u \in F!Type : fetch'.pending[u] = IF u = t THEN fetch.pending[u] \cup {s}
                                                     ELSE fetch.pending[u]
            /\ \A u \in Queued(fetch) : u = F!None \/ u \in Queued(fetch')
            /\ t \in Queued(fetch') /\ fetch'.current # F!None /\ fetch'.timer = TRUE
            /\ down' \in Seq(F!Type)
  <2>1. ASSUME NEW w \in What, w # F!Failed => fetch.since[s] <= w.n,
               fetch' = F!Write(fetch, {s}, w), down' = down
        PROVE  <1>5
    <3> DEFINE S == {s}
    <3>1. s \in S /\ \A r : r # s => r \notin S  OBVIOUS
    <3>2. fetch' = F!Write(fetch, S, w)  BY <2>1
    <3> HIDE DEF S
    <3>3. LET g == F!Write(fetch, S, w)
          IN  /\ g \in FetchRec /\ DOMAIN g.written = DOMAIN fetch.written
              /\ Len(g.written) = Len(fetch.written)
              /\ \A r \in DOMAIN fetch.written :
                   g.written[r] = IF r \in S THEN Append(fetch.written[r], w) ELSE fetch.written[r]
              /\ g.current = fetch.current /\ g.ordered = fetch.ordered /\ g.pending = fetch.pending
              /\ g.cache = fetch.cache /\ g.response = fetch.response /\ g.timer = fetch.timer
              /\ g.since = fetch.since
      BY <1>2, <2>1, Writes
    <3>4. Append(<<>>, w) = <<w>>  OBVIOUS
    <3>5. fetch'.written[s] = <<w>>  BY <1>3, <3>1, <3>2, <3>3, <3>4 DEF F!Serial
    <3>6. \A r \in F!Serial : r # s => fetch'.written[r] = fetch.written[r]
      BY <3>1, <3>2, <3>3 DEF F!Serial
    <3> QED  BY <2>1, <3>2, <3>3, <3>5, <3>6
  <2> DEFINE p == [fetch.pending EXCEPT ![t] = @ \cup {s}]
  <2>2. /\ p \in [F!Type -> SUBSET Nat]
        /\ \A u \in F!Type : p[u] = IF u = t THEN fetch.pending[u] \cup {s} ELSE fetch.pending[u]
    BY <1>2, <1>4 DEF FetchRec
  <2>3. tracked(fetch) = [fetch EXCEPT !.pending = p]  BY <1>2 DEF FetchRec
  <2> HIDE DEF p, tracked
  <2>4. /\ tracked(fetch) \in FetchRec /\ tracked(fetch).ordered = fetch.ordered
        /\ tracked(fetch).pending = p /\ tracked(fetch).written = fetch.written
        /\ tracked(fetch).since = fetch.since /\ tracked(fetch).cache = fetch.cache
        /\ tracked(fetch).response = fetch.response /\ tracked(fetch).current = fetch.current
        /\ tracked(fetch).timer = fetch.timer
    BY <1>2, <2>2, <2>3 DEF FetchRec
  <2>5. CASE fetch' = F!Write(fetch, {s}, F!Failed) /\ UNCHANGED down
    BY <2>1, <2>5, NoneIsNoMimeType
  <2>6. CASE fetch.cache[t] # F!Failed /\ fetch' = F!Write(fetch, {s}, fetch.cache[t]) /\ UNCHANGED down
    <3>1. fetch.cache[t] \in What  BY <1>2, <1>4 DEF FetchRec
    <3> QED  BY <1>3, <2>1, <2>6, <3>1
  <2>7. CASE /\ fetch.current # F!None
             /\ fetch' = [tracked(fetch) EXCEPT !.ordered = Append(@, t)] /\ UNCHANGED down
    <3> DEFINE o == Append(fetch.ordered, t)
               n == Len(fetch.ordered) + 1
    <3>1. /\ o \in Seq(F!Type) /\ DOMAIN o = DOMAIN fetch.ordered \cup {n} /\ o[n] = t
          /\ \A i \in DOMAIN fetch.ordered : o[i] = fetch.ordered[i]
      <4> DEFINE T == F!Type
      <4>1. fetch.ordered \in Seq(T) /\ t \in T  BY <1>2, <1>4 DEF FetchRec
      <4> HIDE DEF T, t
      <4>2. LET q == Append(fetch.ordered, t)
            IN  /\ q \in Seq(T) /\ n \in Nat /\ DOMAIN q = DOMAIN fetch.ordered \cup {n}
                /\ Len(q) = n /\ q[n] = t /\ n \notin DOMAIN fetch.ordered
                /\ \A i \in DOMAIN fetch.ordered : q[i] = fetch.ordered[i] /\ i \in Nat /\ i < n
        BY <4>1, AppendItems
      <4> QED  BY <4>2 DEF T
    <3>2. fetch' = [tracked(fetch) EXCEPT !.ordered = o]  BY <2>4, <2>7
    <3> HIDE DEF o, n
    <3>3. /\ fetch' \in FetchRec /\ fetch'.ordered = o /\ fetch'.pending = p
          /\ fetch'.written = fetch.written /\ fetch'.since = fetch.since
          /\ fetch'.cache = fetch.cache /\ fetch'.response = fetch.response
          /\ fetch'.current = fetch.current /\ fetch'.timer = fetch.timer
      BY <2>4, <3>1, <3>2 DEF FetchRec
    <3>4. \A u \in Queued(fetch) : u \in Queued(fetch')  BY <3>1, <3>3 DEF Queued
    <3>5. t \in Queued(fetch')  BY <3>1, <3>3 DEF Queued
    <3>6. fetch.timer = TRUE  BY <1>2, <1>0, <2>7 DEF FetchRec, Sources
    <3>7. down' \in Seq(F!Type)  BY <1>0, <2>7, FetchParts
    <3> QED  BY <2>2, <2>7, <3>3, <3>4, <3>5, <3>6, <3>7
  <2>8. CASE /\ fetch.current = F!None
             /\ fetch' = [tracked(fetch) EXCEPT !.current = t, !.timer = TRUE] /\ F!Requested(t)
    <3>1. /\ fetch' \in FetchRec /\ fetch'.ordered = fetch.ordered /\ fetch'.pending = p
          /\ fetch'.written = fetch.written /\ fetch'.since = fetch.since
          /\ fetch'.cache = fetch.cache /\ fetch'.response = fetch.response
          /\ fetch'.current = t /\ fetch'.timer = TRUE
      BY <1>4, <2>4, <2>8 DEF FetchRec
    <3>2. down' \in Seq(F!Type)
      <4>1. down \in Seq(F!Type)  BY <1>0, FetchParts
      <4>2. down' = Append(down, t)  BY <1>4, <2>8 DEF F!Requested
      <4> HIDE DEF t
      <4> QED  BY <1>4, <4>1, <4>2, AppendProperties
    <3>3. \A u \in Queued(fetch) : u = F!None \/ u \in Queued(fetch')
      BY <2>8, <3>1 DEF Queued
    <3>4. t \in Queued(fetch')  BY <3>1 DEF Queued
    <3> QED  BY <1>4, <2>2, <3>1, <3>2, <3>3, <3>4
  <2> QED  BY <1>1, <2>5, <2>6, <2>7, <2>8
<1> HIDE DEF s, t, tracked
<1>6. F!Serial' = F!Serial  BY <1>5 DEF F!Serial
<1>7. InOrder'  BY <1>0, <1>1, StaysInOrder DEF Listing
<1>8. Sources'  BY <1>0, <1>1, <1>5 DEF Sources
<1>9. PendingOnce(fetch') /\ PendingQueued(fetch')
  <2>1. CASE /\ \E w \in What : fetch'.written[s] = <<w>>
             /\ fetch'.pending = fetch.pending /\ fetch'.current = fetch.current
             /\ fetch'.ordered = fetch.ordered
    <3>1. \A u \in F!Type : \A r \in fetch.pending[u] : r # s /\ r \in F!Serial
      BY <1>2, <1>3 DEF PendingOnce, F!Serial
    <3>2. \A r \in F!Serial : r # s => r \in DOMAIN fetch'.written /\ fetch'.written[r] = fetch.written[r]
      BY <1>5 DEF F!Serial
    <3>3. PendingOnce(fetch')  BY <1>2, <2>1, <3>1, <3>2 DEF PendingOnce
    <3>4. PendingQueued(fetch')  BY <1>2, <2>1 DEF PendingQueued, Queued
    <3> QED  BY <3>3, <3>4
  <2>2. CASE /\ fetch'.written = fetch.written
             /\ \A u \in F!Type : fetch'.pending[u] = IF u = t THEN fetch.pending[u] \cup {s}
                                                      ELSE fetch.pending[u]
             /\ \A u \in Queued(fetch) : u = F!None \/ u \in Queued(fetch')
             /\ t \in Queued(fetch')
    <3>1. PendingOnce(fetch')
      <4> SUFFICES ASSUME NEW u \in F!Type, NEW r \in fetch'.pending[u]
                   PROVE  /\ r \in DOMAIN fetch'.written /\ fetch'.written[r] = <<>>
                          /\ \A v \in F!Type : v # u => r \notin fetch'.pending[v]
        BY DEF PendingOnce
      <4>1. CASE r = s  BY <1>3, <2>2, <4>1 DEF F!Serial
      <4>2. CASE r # s
        <5>1. r \in fetch.pending[u]  BY <2>2, <4>2
        <5> QED  BY <1>2, <2>2, <4>2, <5>1 DEF PendingOnce
      <4> QED  BY <4>1, <4>2
    <3>2. PendingQueued(fetch')
      <4> SUFFICES ASSUME NEW u \in F!Type, fetch'.pending[u] # {} PROVE u \in Queued(fetch')
        BY DEF PendingQueued
      <4>1. CASE u = t  BY <2>2, <4>1
      <4>2. CASE u # t  BY <1>2, <2>2, <4>2, NoneIsNoMimeType DEF PendingQueued
      <4> QED  BY <4>1, <4>2
    <3> QED  BY <3>1, <3>2
  <2> QED  BY <1>5, <2>1, <2>2
<1>10. AtOnePlace'
  <2>1. ASSUME NEW i \in DOMAIN transfers'
        PROVE  LET r == transfers'[i].serial
               IN  /\ r \in F!Serial' /\ fetch'.written[r] = <<>>
                   /\ \A j \in DOMAIN transfers' : transfers'[j].serial = r => j = i
                   /\ \A u \in F!Type : r \notin fetch'.pending[u]
    <3> DEFINE r == transfers'[i].serial
    <3>1. /\ r \in F!Serial /\ r # s /\ fetch.written[r] = <<>>
          /\ \A j \in DOMAIN transfers' : transfers'[j].serial = r => j = i
          /\ \A u \in F!Type : r \notin fetch.pending[u]
      BY <1>3
    <3> HIDE DEF r
    <3>2. fetch'.written[r] = <<>>  BY <1>5, <3>1
    <3>3. \A u \in F!Type : r \notin fetch'.pending[u]  BY <1>5, <3>1
    <3> QED  BY <1>6, <3>1, <3>2, <3>3 DEF r
  <2>2. ASSUME NEW r \in F!Serial'
        PROVE  /\ Len(fetch'.written[r]) <= 1
               /\ ~disposed' /\ fetch'.written[r] = <<>> =>
                    Underway(r)' \/ \E u \in F!Type : r \in fetch'.pending[u]
    <3>1. CASE r = s
      <4>1. CASE \E w \in What : fetch'.written[s] = <<w>>
        <5>1. PICK w : fetch'.written[s] = <<w>>  BY <4>1
        <5>2. Len(<<w>>) = 1 /\ <<w>> # <<>>  OBVIOUS
        <5> QED  BY <3>1, <5>1, <5>2
      <4>2. CASE /\ fetch'.written = fetch.written /\ s \in fetch'.pending[t]
        <5>1. Len(<<>>) <= 1  OBVIOUS
        <5> QED  BY <1>3, <1>4, <3>1, <4>2, <5>1
      <4> QED  BY <1>4, <1>5, <4>1, <4>2
    <3>2. CASE r # s
      <4>1. fetch'.written[r] = fetch.written[r]  BY <1>5, <1>6, <3>2
      <4>2. \A u \in F!Type : r \in fetch.pending[u] => r \in fetch'.pending[u]  BY <1>5
      <4>3. Underway(r) => Underway(r)'  BY <1>3, <3>2
      <4> QED  BY <1>0, <1>1, <1>6, <4>1, <4>2, <4>3 DEF AtOnePlace
    <3> QED  BY <3>1, <3>2
  <2> QED  BY <1>9, <2>1, <2>2 DEF AtOnePlace
<1>11. WrittenFresh'
  <2>1. ASSUME NEW r \in F!Serial'
        PROVE  /\ fetch'.since[r] <= owned.n
               /\ \A i \in DOMAIN fetch'.written[r] :
                    fetch'.written[r][i] # F!Failed => fetch'.since[r] <= fetch'.written[r][i].n
    <3>1. CASE fetch'.written[r] = fetch.written[r]
      BY <1>0, <1>5, <1>6, <3>1 DEF WrittenFresh
    <3>2. CASE r = s /\ \E w \in What : /\ fetch'.written[s] = <<w>>
                                        /\ w # F!Failed => fetch.since[s] <= w.n
      BY <3>2, <1>0, <1>3, <1>5 DEF WrittenFresh
    <3> QED  BY <1>5, <1>6, <3>1, <3>2
  <2> QED  BY <1>1, <2>1 DEF WrittenFresh
<1>12. CacheFresh'  BY <1>3, <1>5, <1>0, <1>1 DEF CacheFresh
<1>13. FetchTypes'
  BY <1>0, FetchParts, <1>1, <1>2, <1>5, <1>9, PendingSerials, <1>3, FetchTypesFrom DEF F!Serial
<1> QED  BY <1>7, <1>8, <1>10, <1>11, <1>12, <1>13 DEF FetchInv

\* The client has no clipboard in the beginning.
LEMMA FetchInit == ASSUME F!Init PROVE FetchInv
<1>1. /\ clip = [n |-> 0, types |-> {}] /\ up = <<>> /\ down = <<>> /\ idles = <<>>
      /\ transfers = <<>> /\ lists = [waiting |-> {}, completed |-> TRUE]
      /\ owned = [n |-> 0, types |-> {}] /\ tables = {} /\ disposed = FALSE
      /\ fetch = [current |-> F!None, ordered |-> <<>>, pending |-> [t \in F!Type |-> {}],
                  cache |-> [t \in F!Type |-> F!Failed], response |-> F!NoResponse,
                  timer |-> FALSE, written |-> <<>>, since |-> <<>>]
  BY DEF F!Init
<1>2. 0 \in 0..MaxCopies  BY NoneIsNoMimeType
<1>3. /\ DOMAIN <<>> = {} /\ Len(<<>>) = 0
      /\ \A S : <<>> \in Seq(S)
  OBVIOUS
<1>4. F!Serial = {}  BY <1>1, <1>3 DEF F!Serial
<1>5. fetch \in FetchRec  BY <1>1, <1>3, NoneIsNoMimeType DEF FetchRec
<1>6. FetchTypes
  <2>1. F!Cardinality({}) = 0  BY FS_EmptySet, FetchCardinality
  <2>2. /\ clip \in OwnedRec /\ owned \in OwnedRec /\ lists \in ListsRec
        /\ (\A x, y \in lists.waiting : x = y) /\ Len(fetch.since) = Len(fetch.written)
    BY <1>1, <1>2 DEF OwnedRec, ListsRec
  <2>3. F!TypeOK
    <3>1. fetch.pending \in [F!Type -> SUBSET F!Serial]  BY <1>1
    <3>2. /\ fetch.current \in F!Type \cup {F!None} /\ fetch.ordered \in Seq(F!Type)
          /\ fetch.cache \in [F!Type -> What] /\ fetch.timer \in BOOLEAN
          /\ lists.completed \in BOOLEAN /\ lists.waiting = {}
      BY <1>1, <1>5 DEF FetchRec
    <3>3. F!Cardinality(lists.waiting) <= 1  BY <2>1, <3>2
    <3>4. disposed \in BOOLEAN /\ tables \subseteq F!Type  BY <1>1
    <3>5. fetch.cache \in [F!Type -> [type : F!Type \cup {F!None}, n : 0..MaxCopies]]
      BY <3>2 DEF What
    <3>6. /\ clip \in [n : 0..MaxCopies, types : {{}} \cup Lists]
          /\ owned \in [n : 0..MaxCopies, types : {{}} \cup Lists]
      BY <2>2 DEF OwnedRec
    <3> QED  BY <3>1, <3>2, <3>3, <3>4, <3>5, <3>6 DEF F!TypeOK
  <2>4. /\ up \in Seq(ListPDU \cup ResponsePDU) /\ down \in Seq(F!Type)
        /\ idles \in Seq(ListPDU \cup {ResponseSource})
        /\ transfers \in Seq([serial : Nat, type : F!Type])
    BY <1>1, <1>3
  <2> QED  BY <1>5, <2>2, <2>3, <2>4 DEF FetchTypes, FetchRec, ListsRec
<1>7. InOrder  BY <1>1, <1>3 DEF Handed, Listing, InOrder
<1>8. Sources  BY <1>1, <1>3 DEF Sources
<1>9. AtOnePlace  BY <1>1, <1>3, <1>4 DEF AtOnePlace, PendingOnce, PendingQueued
<1>10. WrittenFresh  BY <1>4 DEF WrittenFresh
<1>11. CacheFresh  BY <1>1, <1>3 DEF CacheFresh
<1> QED  BY <1>6, <1>7, <1>8, <1>9, <1>10, <1>11 DEF FetchInv

\* The steps of the clipboard of the client.
LEMMA FetchStep == ASSUME FetchInv, F!Next PROVE FetchInv'
BY ListUpdated, OfSelectionTransfer, HandledResponse, AbortedCurrent, TookSelection,
   FetchDisposed, TookClientFormatList, QueuedListUpdate, TookClientResponse,
   CopiedByClient, AnsweredByClient, NewTransfer DEF F!Next

\* The other parts of the clipboard do not disturb the clipboard of the client.
LEMMA FetchStutter == ASSUME FetchInv, UNCHANGED fetchVars PROVE FetchInv'
<1> USE DEF FetchInv, fetchVars
<1>1. FetchTypes'  BY DEF FetchTypes, F!TypeOK, F!Serial
<1>2. InOrder'  BY DEF InOrder, Handed, Listing
<1>3. Sources'  BY DEF Sources
<1>4. AtOnePlace'  BY DEF AtOnePlace, PendingOnce, PendingQueued, Queued, Underway, F!Serial
<1>5. WrittenFresh' /\ CacheFresh'  BY DEF WrittenFresh, CacheFresh, F!Serial
<1> QED  BY <1>1, <1>2, <1>3, <1>4, <1>5

\* What the invariant of the clipboard of the client says is enough.
LEMMA FetchResults ==
  ASSUME FetchInv
  PROVE  F!TypeOK /\ F!OneCurrentRequest /\ F!WrittenOnce /\ F!NothingOlder
<1>0. FetchTypes /\ Sources /\ AtOnePlace /\ WrittenFresh  BY DEF FetchInv
<1>1. F!TypeOK  BY <1>0 DEF FetchTypes
<1>2. F!OneCurrentRequest
  <2> DEFINE I == {i \in DOMAIN idles : idles[i].kind = "list"}
  <2>1. I # {} <=> ~(disposed \/ lists.completed)  BY <1>0 DEF Sources
  <2>2. F!Cardinality(I) = IF disposed \/ lists.completed THEN 0 ELSE 1
    <3>1. CASE I = {}
      <4>1. Cardinality({}) = 0  BY FS_EmptySet
      <4>2. disposed \/ lists.completed  BY <2>1, <3>1
      <4> HIDE DEF I
      <4>3. F!Cardinality(I) = 0  BY <3>1, <4>1, FetchCardinality
      <4> QED  BY <4>2, <4>3
    <3>2. CASE I # {}
      <4>1. PICK i \in I : TRUE  BY <3>2
      <4>2. I = {i}  BY <1>0, <4>1 DEF Sources
      <4>3. Cardinality({i}) = 1  BY FS_Singleton
      <4>4. ~(disposed \/ lists.completed)  BY <2>1, <3>2
      <4> HIDE DEF I
      <4>5. F!Cardinality(I) = 1  BY <4>2, <4>3, FetchCardinality
      <4> QED  BY <4>4, <4>5
    <3> QED  BY <3>1, <3>2
  <2>3. \A i \in DOMAIN idles : idles[i].kind = "response" =>
          fetch.current # F!None /\ fetch.response # F!NoResponse
    BY <1>0 DEF Sources
  <2>4. /\ fetch.current = F!None => fetch.ordered = <<>>
        /\ fetch.timer <=> fetch.current # F!None
    BY <1>0 DEF Sources
  <2> QED  BY <2>2, <2>3, <2>4 DEF F!OneCurrentRequest
<1>3. F!WrittenOnce
  BY <1>0 DEF F!WrittenOnce, Queued, F!Range, AtOnePlace, PendingQueued, Underway
<1>4. F!NothingOlder
  <2> SUFFICES ASSUME NEW s \in F!Serial, NEW i \in DOMAIN fetch.written[s],
                      fetch.written[s][i] # F!Failed
               PROVE  fetch.written[s][i].n >= fetch.since[s]
    BY DEF F!NothingOlder
  <2>1. fetch.since[s] <= fetch.written[s][i].n  BY <1>0 DEF WrittenFresh
  <2>2. fetch \in FetchRec /\ Len(fetch.since) = Len(fetch.written)  BY <1>0, FetchParts
  <2>3. fetch.written[s] \in Seq(What)  BY <2>2, Transferred DEF F!Serial
  <2>4. fetch.written[s][i] \in What  BY <2>3, ElementOfSeq, LenProperties
  <2>5. fetch.since[s] \in 0..MaxCopies  BY <2>2, Transferred, ElementOfSeq DEF FetchRec, F!Serial
  <2> QED  BY <2>1, <2>4, <2>5, NoneIsNoMimeType DEF What
<1> QED  BY <1>1, <1>2, <1>3, <1>4

(***************************************************************************)
(* The clipboard of a session                                              *)
(***************************************************************************)

\* The three parts of which the invariant holds whatever the client does.
AnswersInv == OfferInv /\ FetchInv /\ FilesInv

\* The invariant of the two selections and of the files of the client: every request is at
\* one place, what is sent and what is written follows the selections in their order, and
\* files and requests are in the tables only with the entries they belong to.
THEOREM AnswersInvariant == Spec => []AnswersInv
<1>1. Init => AnswersInv
  BY OfferInit, FetchInit, FuseInit DEF Init, AnswersInv
<1>2. AnswersInv /\ [Next]_vars => AnswersInv'
  BY OfferStep, FetchStutter, FilesStutter, OfferStutter, FetchStep, FilesStep DEF AnswersInv,
     OfOffer, OfFetch, OfFiles, OfLocks, vars, Next
<1> QED  BY <1>1, <1>2, PTL DEF Spec

\* The invariant of the client's locks, when no lock takes over the id of one selection for
\* another one: the two tables name the same entries, and a WinPR clipboard is there as long
\* as the current selection or an entry has it.
THEOREM LocksInvariant ==
  ASSUME Careful
  PROVE  Spec => []LocksInv
<1>1. Init => LocksInv  BY LocksInit DEF Init
<1>2. LocksInv /\ [Next]_vars => LocksInv'
  BY LocksStep, LocksStutter DEF OfOffer, OfFetch, OfFiles, vars, Next
<1> QED  BY <1>1, <1>2, PTL DEF Spec

\* Whatever the client does: each request for content, of the client and of the display
\* server, is answered once, and each operation on a file is replied once; no content is sent
\* after the list of a later selection, and none that is older than the list that a transfer
\* is for; a request that a response may find has its file and its entry, and the ids in the
\* table are those that are locked at the client.
THEOREM RequestsAnswered == Spec => [](/\ AnsweredOnce
                                       /\ O!ContentBeforeList /\ F!NothingOlder
                                       /\ D!RequestsHaveFiles /\ D!LocksMatch)
<1>1. AnswersInv => /\ AnsweredOnce
                    /\ O!ContentBeforeList /\ F!NothingOlder
                    /\ D!RequestsHaveFiles /\ D!LocksMatch
  BY OfferResults, FetchResults, FilesResults DEF AnswersInv, AnsweredOnce
<1> QED  BY <1>1, AnswersInvariant, PTL

\* The types of the four parts.
THEOREM TypesCorrect ==
  ASSUME Careful
  PROVE  Spec => []TypeOK
<1>1. AnswersInv /\ LocksInv => TypeOK
  BY OfferResults, FetchResults, FilesResults, LocksResults DEF AnswersInv, TypeOK
<1> QED  BY <1>1, AnswersInvariant, LocksInvariant, PTL

\* Every request for content is answered once, and by content that it was for; a lock of the
\* client keeps the files it was taken for.
THEOREM TransfersCorrect ==
  ASSUME Careful
  PROVE  Spec => []TransfersSound
<1>1. AnswersInv /\ LocksInv => TransfersSound
  BY OfferResults, FetchResults, FilesResults, LocksResults
  DEF AnswersInv, TransfersSound, AnsweredOnce, ContentMatches
<1> QED  BY <1>1, AnswersInvariant, LocksInvariant, PTL

\* The entries of the locks, their WinPR clipboards, the files and the entries of requests
\* exist while they are in use and are released once.
THEOREM NothingDanglesHolds ==
  ASSUME Careful
  PROVE  Spec => []NothingDangles
<1>1. AnswersInv /\ LocksInv => NothingDangles
  BY FilesResults, LocksResults DEF AnswersInv, NothingDangles
<1> QED  BY <1>1, AnswersInvariant, LocksInvariant, PTL

==============================================================================
