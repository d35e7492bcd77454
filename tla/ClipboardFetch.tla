--------------------------- MODULE ClipboardFetch ---------------------------
(***************************************************************************)
(* The clipboard of the client as a selection of the session               *)
(* (grd-clipboard-rdp.c, grd-clipboard.c).                                 *)
(*                                                                         *)
(* The client announces its clipboard with a format list; the thread of    *)
(* the channel hands it to the main thread, which makes it the selection   *)
(* and answers.  The display server asks for the content of a mime type    *)
(* with a transfer; content that is not in the cache is requested from the *)
(* client, one request at a time, and given up after a time.  The content  *)
(* of the two mime types for files comes with one response.                *)
(***************************************************************************)
EXTENDS Naturals, Sequences, Functions, FiniteSets

CONSTANTS
  Lists,        \* the sets of mime types that a clipboard of the client may have
  FileTypes,    \* "text/uri-list" and "x-special/gnome-copied-files"
  MaxCopies,    \* bound: format lists of the client
  MaxTransfers  \* bound: transfers of the display server

VARIABLES
  clip,      \* the clipboard of the client: number and mime types
  up,        \* PDUs of the client that the channel's thread did not handle yet
  down,      \* data requests that the client did not handle yet
  lists,     \* the format list that the thread holds, and completed_format_list
  idles,     \* the idle sources of the main thread, first in first out
  owned,     \* the client's selection in the display server: number and mime types
  transfers, \* SelectionTransfer signals on their way
  tables,    \* client_mime_type_tables
  fetch,     \* the requests, the cache and what was written for each transfer
  disposed   \* the clipboard was disposed

vars == <<clip, up, down, lists, idles, owned, transfers, tables, fetch, disposed>>

Type == UNION Lists
None == "none"
Failed == [type |-> None, n |-> 0]
NoResponse == [ok |-> FALSE, type |-> None, n |-> 0]

Init ==
  /\ clip = [n |-> 0, types |-> {}]
  /\ up = <<>> /\ down = <<>> /\ idles = <<>> /\ transfers = <<>>
  /\ lists = [waiting |-> {}, completed |-> TRUE]
  /\ owned = [n |-> 0, types |-> {}]
  /\ tables = {}
  /\ fetch = [current |-> None, ordered |-> <<>>, pending |-> [t \in Type |-> {}],
              cache |-> [t \in Type |-> Failed], response |-> NoResponse,
              timer |-> FALSE, written |-> <<>>, since |-> <<>>]
  /\ disposed = FALSE

-----------------------------------------------------------------------------
(* Requests of the main thread *)

\* grd_clipboard_submit_client_content_for_mime_type, grd_session_selection_write: what is
\* written for some serials, content or Failed.
Write(f, serials, what) ==
  [f EXCEPT !.written = [i \in DOMAIN @ |-> IF i \in serials THEN Append(@[i], what) ELSE @[i]]]

\* serve_mime_type_content, abort_client_requests_for_mime_type, for some mime types.
Serve(f, types, what) ==
  [Write(f, UNION {f.pending[t] : t \in types}, what)
   EXCEPT !.pending = [t \in Type |-> IF t \in types THEN {} ELSE @[t]]]

\* maybe_send_next_mime_type_content_request: mime types that nobody waits for any more are
\* skipped; the requests of one that cannot be sent are aborted, and the next one is tried.
SendNext(f) ==
  LET waits == {i \in DOMAIN f.ordered : /\ f.pending[f.ordered[i]] # {}
                                         /\ \A j \in 1..(i - 1) : f.ordered[j] # f.ordered[i]}
      after(to) == Serve(f, {f.ordered[i] : i \in {j \in waits : j < to}}, Failed)
  IN  {[after(i) EXCEPT !.current = f.ordered[i], !.timer = TRUE,
                        !.ordered = SubSeq(f.ordered, i + 1, Len(f.ordered))] : i \in waits}
      \cup {[after(Len(f.ordered) + 1) EXCEPT !.ordered = <<>>]}

\* The request that goes to the client with it.
Requested(t) == down' = IF t = None THEN down ELSE Append(down, t)

\* abort_all_client_requests: whatever waits is answered with a failure, and the source
\* that would handle a response is removed.  The response itself stays.
AbortAll(f) ==
  [Serve(f, Type, Failed) EXCEPT !.ordered = <<>>, !.current = None, !.timer = FALSE]
WithoutResponse(s) ==
  LET at == CHOOSE i \in DOMAIN s : s[i].kind = "response"
  IN  IF \E i \in DOMAIN s : s[i].kind = "response"
      THEN SubSeq(s, 1, at - 1) \o SubSeq(s, at + 1, Len(s)) ELSE s

\* remove_clipboard_format_data_for_mime_type
Forgotten_Not(cache, types) == cache
Forgotten(cache, types) == [t \in Type |-> IF t \in types THEN Failed ELSE cache[t]]

\* update_server_format_list: the selection becomes the client's.
UpdateServerFormatList ==
  /\ ~disposed /\ idles # <<>> /\ Head(idles).kind = "list"
  /\ LET list == Head(idles)
     IN  /\ fetch' = [AbortAll(fetch) EXCEPT
                        !.cache = Forgotten(@, list.types)]
         /\ tables' = tables \cup list.types
         /\ owned' = [n |-> list.n, types |-> list.types]
  /\ idles' = WithoutResponse(Tail(idles))
  /\ lists' = [lists EXCEPT !.completed = TRUE]
  /\ UNCHANGED <<clip, up, down, transfers, disposed>>

\* on_remote_desktop_session_selection_transfer,
\* grd_clipboard_rdp_request_client_content_for_mime_type: the content is in the cache,
\* or is requested now, or later, or not at all when a new list waits.
SelectionTransfer ==
  /\ ~disposed /\ transfers # <<>>
  /\ transfers' = Tail(transfers)
  /\ LET s == Head(transfers).serial
         t == Head(transfers).type
         tracked(f) == [f EXCEPT !.pending[t] = @ \cup {s}]
     IN  IF t \notin tables
         THEN fetch' = Write(fetch, {s}, Failed) /\ UNCHANGED down
         ELSE IF fetch.cache[t] # Failed
         THEN fetch' = Write(fetch, {s}, fetch.cache[t]) /\ UNCHANGED down
         ELSE IF \E i \in DOMAIN idles : idles[i].kind = "list"
         THEN fetch' = Write(fetch, {s}, Failed) /\ UNCHANGED down
         ELSE IF fetch.current # None
         THEN fetch' = [tracked(fetch) EXCEPT !.ordered = Append(@, t)] /\ UNCHANGED down
         ELSE \/ fetch' = [tracked(fetch) EXCEPT !.current = t, !.timer = TRUE] /\ Requested(t)
              \/ fetch' = Write(fetch, {s}, Failed) /\ UNCHANGED down
  /\ UNCHANGED <<clip, up, lists, idles, owned, tables, disposed>>

\* handle_format_data_response: content is cached and serves whoever waits for it, and for
\* files the other mime type with it; it may be no content, or none that can be converted.
HandleFormatDataResponse ==
  /\ ~disposed /\ idles # <<>> /\ Head(idles).kind = "response"
  /\ idles' = Tail(idles)
  /\ LET t == fetch.current
         r == fetch.response
         types == IF t \in FileTypes THEN FileTypes ELSE {t}
         content == [type |-> r.type, n |-> r.n]
         taken == [fetch EXCEPT !.current = None, !.response = NoResponse, !.timer = FALSE]
         cached == [taken EXCEPT !.cache = [x \in Type |-> IF x \in types THEN content ELSE @[x]]]
     IN  \E f \in {Serve(taken, {t}, Failed)}
                    \cup (IF r.ok THEN {Serve(cached, types, content)} ELSE {}) :
           \E next \in SendNext(f) : fetch' = next /\ Requested(next.current)
  /\ UNCHANGED <<clip, up, lists, owned, transfers, tables, disposed>>

\* abort_current_client_request: the client did not answer in time.
AbortCurrent ==
  /\ ~disposed /\ fetch.timer
  /\ idles' = WithoutResponse(idles)
  /\ \E next \in SendNext([Serve(fetch, {fetch.current}, Failed)
                           EXCEPT !.current = None, !.timer = FALSE]) :
       fetch' = next /\ Requested(next.current)
  /\ UNCHANGED <<clip, up, lists, owned, transfers, tables, disposed>>

\* grd_clipboard_update_client_mime_type_list: an application of the session has the
\* selection; the mime types of its list leave the cache when it is sent (ClipboardOffer).
SessionTakesSelection ==
  /\ ~disposed /\ owned.types # {}
  /\ owned' = [owned EXCEPT !.types = {}]
  /\ tables' = {}
  /\ \E types \in Lists \cup {{}} :
       fetch' = [fetch EXCEPT !.cache = Forgotten(@, types)]
  /\ UNCHANGED <<clip, up, down, lists, idles, transfers, disposed>>

\* grd_clipboard_rdp_dispose: the thread is woken and joined, the sources are removed.
Dispose ==
  /\ ~disposed
  /\ disposed' = TRUE
  /\ idles' = <<>>
  /\ lists' = [lists EXCEPT !.waiting = {}]
  /\ fetch' = [fetch EXCEPT !.current = None, !.response = NoResponse, !.timer = FALSE,
                            !.ordered = <<>>, !.pending = [t \in Type |-> {}],
                            !.cache = [t \in Type |-> Failed]]
  /\ UNCHANGED <<clip, up, down, owned, transfers, tables>>

-----------------------------------------------------------------------------
(* The thread of the channel *)

\* cliprdr_client_format_list up to its wait.
ClientFormatList ==
  /\ ~disposed /\ lists.waiting = {}
  /\ up # <<>> /\ Head(up).kind = "list"
  /\ up' = Tail(up)
  /\ lists' = [lists EXCEPT !.waiting = {Head(up)}]
  /\ UNCHANGED <<clip, down, idles, owned, transfers, tables, fetch, disposed>>

\* And after it, when the main thread is done with the last list.
QueueListUpdate ==
  /\ ~disposed /\ lists.waiting # {} /\ lists.completed
  /\ \E list \in lists.waiting : idles' = Append(idles, list)
  /\ lists' = [waiting |-> {}, completed |-> FALSE]
  /\ UNCHANGED <<clip, up, down, owned, transfers, tables, fetch, disposed>>

\* cliprdr_client_format_data_response: a response that nobody waits for is dropped.
ClientFormatDataResponse ==
  /\ ~disposed /\ lists.waiting = {}
  /\ up # <<>> /\ Head(up).kind = "response"
  /\ up' = Tail(up)
  /\ IF fetch.current = None
     THEN UNCHANGED <<fetch, idles>>
     ELSE /\ fetch' = [fetch EXCEPT !.response = Head(up).data]
          /\ idles' = IF \E i \in DOMAIN idles : idles[i].kind = "response" THEN idles
                      ELSE Append(idles, [kind |-> "response", n |-> 0, types |-> {}])
  /\ UNCHANGED <<clip, down, lists, owned, transfers, tables, disposed>>

-----------------------------------------------------------------------------
(* The client and the display server *)

ClientCopies ==
  /\ clip.n < MaxCopies
  /\ \E types \in Lists : clip' = [n |-> clip.n + 1, types |-> types]
  /\ up' = Append(up, [kind |-> "list", n |-> clip'.n, types |-> clip'.types])
  /\ UNCHANGED <<down, lists, idles, owned, transfers, tables, fetch, disposed>>

\* The client answers a request from the clipboard it has by then, or never does.
ClientAnswers ==
  /\ down # <<>>
  /\ down' = Tail(down)
  /\ \/ UNCHANGED up
     \/ LET t == Head(down)
        IN  up' = Append(up, [kind |-> "response",
                              data |-> [ok |-> t \in clip.types, type |-> t, n |-> clip.n]])
  /\ UNCHANGED <<clip, lists, idles, owned, transfers, tables, fetch, disposed>>

\* An application of the session pastes: the display server asks for a mime type of the
\* selection it knows.  fetch.since is the selection that the transfer is for.
Transfer ==
  /\ ~disposed /\ Len(fetch.written) < MaxTransfers
  /\ \E t \in owned.types :
       transfers' = Append(transfers, [serial |-> Len(fetch.written) + 1, type |-> t])
  /\ fetch' = [fetch EXCEPT !.written = Append(@, <<>>), !.since = Append(@, owned.n)]
  /\ UNCHANGED <<clip, up, down, lists, idles, owned, tables, disposed>>

Next ==
  \/ UpdateServerFormatList \/ SelectionTransfer \/ HandleFormatDataResponse
  \/ AbortCurrent \/ SessionTakesSelection \/ Dispose
  \/ ClientFormatList \/ QueueListUpdate \/ ClientFormatDataResponse
  \/ ClientCopies \/ ClientAnswers \/ Transfer


-----------------------------------------------------------------------------
(* Properties *)

Serial == DOMAIN fetch.written

TypeOK ==
  /\ clip \in [n : 0..MaxCopies, types : {{}} \cup Lists]
  /\ lists.completed \in BOOLEAN /\ Cardinality(lists.waiting) <= 1
  /\ owned \in [n : 0..MaxCopies, types : {{}} \cup Lists]
  /\ tables \subseteq Type
  /\ fetch.current \in Type \cup {None} /\ fetch.ordered \in Seq(Type)
  /\ fetch.pending \in [Type -> SUBSET Serial]
  /\ fetch.cache \in [Type -> [type : Type \cup {None}, n : 0..MaxCopies]]
  /\ fetch.timer \in BOOLEAN /\ disposed \in BOOLEAN

\* The assertions of the main thread hold: without a current request there is no source
\* and no timer for one and nothing in the queue, and with one there is the timer; a
\* source has a response and a request (grd-clipboard-rdp.c:660-663, 748, 2103-2110).
OneCurrentRequest ==
  /\ fetch.current = None => fetch.ordered = <<>>
  /\ fetch.timer <=> fetch.current # None
  /\ \A i \in DOMAIN idles : idles[i].kind = "response" =>
       fetch.current # None /\ fetch.response # NoResponse
  /\ Cardinality({i \in DOMAIN idles : idles[i].kind = "list"})
       = (IF disposed \/ lists.completed THEN 0 ELSE 1)

\* A transfer is written once, and one that is not written yet is on its way or waits for
\* a mime type that is requested or queued.
WrittenOnce ==
  \A s \in Serial :
    /\ Len(fetch.written[s]) <= 1
    /\ ~disposed /\ fetch.written[s] = <<>> =>
         \/ \E i \in DOMAIN transfers : transfers[i].serial = s
         \/ \E t \in Type : s \in fetch.pending[t] /\ t \in {fetch.current} \cup Range(fetch.ordered)

\* No content is older than the list that the transfer is for: the cache forgets what a new
\* list names, and a response that was underway is handled before it or removed by it.
NothingOlder ==
  \A s \in Serial : \A i \in DOMAIN fetch.written[s] :
    LET what == fetch.written[s][i] IN what # Failed => what.n >= fetch.since[s]

\* Content that is written for a mime type was requested as that type: the response that is
\* handled is the "response to our data request that we sent" (grd-clipboard-rdp.c:2143).
ResponseIsForRequest ==
  \A i \in DOMAIN idles : idles[i].kind = "response" =>
    LET types == {fetch.response.type, fetch.current}
    IN  Cardinality(types) = 1 \/ types \subseteq FileTypes

\* Every transfer is written in the end, whether the client answers or not.
Written == disposed \/ \A s \in Serial : fetch.written[s] # <<>>
=============================================================================
