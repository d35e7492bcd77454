------------------------------- MODULE Clipboard -------------------------------
(***************************************************************************)
(* The clipboard of an RDP session: the session's selection at the client  *)
(* (ClipboardOffer), the client's selection in the session                 *)
(* (ClipboardFetch), the client's locks on the session's files             *)
(* (ClipDataLocks) and the client's files in the session (FuseClipboard).  *)
(* The four have tables, requests and contexts of their own and meet in    *)
(* the calls that each of them models at its end, so that a behaviour is   *)
(* one of them, as its scenario says.                                      *)
(***************************************************************************)
EXTENDS Naturals, Sequences, FiniteSets

CONSTANTS Offers, Twin, Unicode, CopiedFiles, MaxSelections, MaxRequests, \* of ClipboardOffer
          Lists, FileTypes, MaxCopies, MaxTransfers,                      \* of ClipboardFetch
          ClipId, MaxLists, MaxLocks, Careful,                            \* of ClipDataLocks
          MaxIds, MaxFiles, MaxOps                                        \* of FuseClipboard

ASSUME ClipboardAssumption ==
  /\ {} \notin Offers /\ Twin \in Unicode /\ Cardinality(Unicode) = 2 /\ CopiedFiles \notin Unicode
  /\ {} \notin Lists
  /\ {"none", "unknown"} \cap UNION (Offers \cup Lists) = {}
  /\ \A l \in Lists : FileTypes \subseteq l \/ FileTypes \cap l = {}
  /\ Careful \in BOOLEAN
  /\ {MaxSelections, MaxRequests, MaxCopies, MaxTransfers, MaxLists, MaxLocks,
      MaxIds, MaxFiles, MaxOps} \subseteq Nat

\* Small sets for Offers and Lists: selections with and without text and files.
SmallOffers == {{"utf8", "string"}, {"string", "files"}, {"copied"}, {"utf8"}}
SmallLists == {{"uris", "copied"}, {"text", "png"}}

VARIABLES
  scenario, \* "offer", "fetch", "locks" or "files"
  selection, signals, offer, reply, request, read, toServer, toClient, peer, stopped,
  clip, up, down, lists, idles, owned, transfers, tables, fetch, disposed,
  board, boards, entries, byId, bySerial, job, halt,
  locking, slots, inodes, ops, asks, wire, remote, resets, work, ended

O == INSTANCE ClipboardOffer
F == INSTANCE ClipboardFetch
L == INSTANCE ClipDataLocks
D == INSTANCE FuseClipboard

offerVars == <<selection, signals, offer, reply, request, read, toServer, toClient, peer, stopped>>
fetchVars == <<clip, up, down, lists, idles, owned, transfers, tables, fetch, disposed>>
lockVars == <<board, boards, entries, byId, bySerial, job, halt>>
fileVars == <<locking, slots, inodes, ops, asks, wire, remote, resets, work, ended>>
vars == <<scenario, offerVars, fetchVars, lockVars, fileVars>>

Init ==
  /\ O!Init /\ F!Init /\ L!Init /\ D!Init
  /\ scenario \in {"offer", "fetch", "locks", "files"}
  /\ scenario # "files" => locking

OfOffer == scenario = "offer" /\ UNCHANGED <<scenario, fetchVars, lockVars, fileVars>>
OfFetch == scenario = "fetch" /\ UNCHANGED <<scenario, offerVars, lockVars, fileVars>>
OfLocks == scenario = "locks" /\ UNCHANGED <<scenario, offerVars, fetchVars, fileVars>>
OfFiles == scenario = "files" /\ UNCHANGED <<scenario, offerVars, fetchVars, lockVars>>

Next ==
  \/ OfOffer /\ O!Next
  \/ OfFetch /\ F!Next
  \/ OfLocks /\ L!Next
  \/ OfFiles /\ D!Next

Spec == Init /\ [][Next]_vars

\* The threads run, messages arrive and timers fire; nobody has to copy, to paste or to
\* lock anything, and a client may never answer.  The FUSE thread gets filesystem_mutex in
\* the end, and a source that is ready time and again is dispatched.
Fairness ==
  /\ WF_vars(OfOffer /\ O!SelectionOwnerChanged) /\ WF_vars(OfOffer /\ O!HandleFormatListResponse)
  /\ WF_vars(OfOffer /\ O!DropPending) /\ WF_vars(OfOffer /\ O!RequestServerFormatData)
  /\ WF_vars(OfOffer /\ O!ReadComplete) /\ WF_vars(OfOffer /\ O!ReadTimeout)
  /\ WF_vars(OfOffer /\ O!Channel) /\ WF_vars(OfOffer /\ O!ClientReceives)
  /\ WF_vars(OfFetch /\ F!UpdateServerFormatList) /\ WF_vars(OfFetch /\ F!SelectionTransfer)
  /\ WF_vars(OfFetch /\ F!HandleFormatDataResponse) /\ WF_vars(OfFetch /\ F!AbortCurrent)
  /\ WF_vars(OfFetch /\ (F!ClientFormatList \/ F!QueueListUpdate \/ F!ClientFormatDataResponse))
  /\ WF_vars(OfLocks /\ (L!LockDone \/ L!UnlockDone))
  /\ WF_vars(OfLocks /\ (L!RetrieveCurrentClipboard \/ L!HandleClipDataEntryDestruction))
  /\ WF_vars(OfLocks /\ L!Dispose)
  /\ SF_vars(OfFiles /\ D!AnyFuseOperation) /\ WF_vars(OfFiles /\ D!Main)
  /\ SF_vars(OfFiles /\ D!ResetTimeouts) /\ SF_vars(OfFiles /\ D!AnyDrop)
  /\ WF_vars(OfFiles /\ D!TimePasses)

FairSpec == Spec /\ Fairness

-----------------------------------------------------------------------------
(* Properties *)

TypeOK == O!TypeOK /\ F!TypeOK /\ L!TypeOK /\ D!TypeOK

\* Whoever asks is answered once: the client for content of the session, the display server
\* for content of the client, an application for a file; what waits for an answer is in the
\* hands of somebody who gives it (grd-clipboard-rdp.c:660-663, 1679-1682;
\* grd-rdp-fuse-clipboard.c:189-209, 826-832).
AnsweredOnce ==
  /\ O!RequestInHand /\ O!OneResponse
  /\ F!OneCurrentRequest /\ F!WrittenOnce
  /\ D!RepliedOnce

\* What is answered belongs to the selection that was asked for: no content is sent after
\* the list of a later selection, none is older than the list a transfer is for, and a lock
\* keeps the files it was taken for (grd-clipboard.c:379-382; grd-clipboard-rdp.c:288-299,
\* 1014-1018).
ContentMatches == O!ContentBeforeList /\ F!NothingOlder /\ L!LockKeepsFiles

\* Every request for content is answered once, and by content that it was for.
TransfersSound == AnsweredOnce /\ ContentMatches

\* What is in use exists, and what is not is released once: the entries of locks and their
\* tables, the files of requests, and the ids that are locked at the client
\* (grd-clipboard-rdp.c:1335-1348, 1433-1452; grd-rdp-fuse-clipboard.c:295-318, 863-873);
\* except for the one entry of a lock that the disposal interrupts, which is freed twice.
NothingDangles ==
  /\ L!LockTablesAgree /\ L!FreedOnce /\ L!SearchReadsLive
  /\ D!RequestsHaveFiles /\ D!LocksMatch

\* Requests are answered, the last selection of the session reaches the client, a thread
\* that waits for the main thread returns, and selections that are cleared are gone.
ClipboardSettles == []<>(O!Settled /\ F!Written /\ L!Returned /\ D!Quiet)

\* The content that is handled as the answer to a request was asked for with it: it is the
\* "response to our data request that we sent" (grd-clipboard-rdp.c:2143).
ResponseIsForRequest == F!ResponseIsForRequest
================================================================================
