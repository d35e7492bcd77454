--------------------------- MODULE ClipboardOffer ---------------------------
(***************************************************************************)
(* The selection of the session offered to the client                      *)
(* (grd-clipboard-rdp.c, grd-clipboard.c).                                 *)
(*                                                                         *)
(* The display server announces each new selection with a signal.  The     *)
(* main thread sends its mime types as a format list; while the client has *)
(* not answered the last list, the newest one is queued.  The client asks  *)
(* for the content of a format; the thread of the channel hands the        *)
(* request to the main thread and waits with the next one until it is      *)
(* answered.  The main thread reads the content in a thread of its own,    *)
(* and gives up on it after a time, or for a new selection.                *)
(***************************************************************************)
EXTENDS Naturals, Sequences, FiniteSets

CONSTANTS
  Offers,        \* the sets of mime types that a selection may have
  Twin,          \* the mime type that is replaced when the other unicode one is there
  Unicode,       \* the mime types that are sent as CF_UNICODETEXT, with Twin
  CopiedFiles,   \* "x-special/gnome-copied-files", never sent
  MaxSelections, \* bound: selections of the session
  MaxRequests    \* bound: content requests of the client

VARIABLES
  selection, \* of the display server: number and mime types; number 0 is the client's own
  signals,   \* SelectionOwnerChanged signals on their way
  offer,     \* the format lists of the main thread
  reply,     \* the source that handles a format list response, with its flags
  request,   \* the content request in hand
  read,      \* the read operation of the session's selection
  toServer,  \* PDUs of the client that the channel's thread did not handle yet
  toClient,  \* PDUs for the client
  peer,      \* the client: the list it knows, its requests and the answers it got
  stopped    \* the clipboard was disposed

vars == <<selection, signals, offer, reply, request, read, toServer, toClient, peer, stopped>>

Type == UNION Offers
None == "none"
Unknown == "unknown"

\* What the client calls a mime type.
FormatOf(t) == IF t \in Unicode THEN "unicode" ELSE t
Format == {FormatOf(t) : t \in Type \ {CopiedFiles}}

\* remove_duplicated_clipboard_mime_types
Advertised(types) ==
  (types \ {CopiedFiles}) \ (IF Unicode \subseteq types THEN {Twin} ELSE {})

NoRead == [n |-> 0, type |-> None, timer |-> FALSE, result |-> None]

Init ==
  /\ selection = [n |-> 0, types |-> {}]
  /\ signals = <<>>
  /\ offer = [pending |-> {}, queued |-> {}, allowed |-> {}, timer |-> FALSE,
              unicode |-> None, made |-> 0, waits |-> 0]
  /\ reply = None
  /\ request = [waiting |-> None, type |-> None, source |-> FALSE, completed |-> TRUE]
  /\ read = NoRead
  /\ toServer = <<>> /\ toClient = <<>>
  /\ peer = [n |-> 0, formats |-> {}, asked |-> 0, answered |-> 0]
  /\ stopped = FALSE

-----------------------------------------------------------------------------
(* What the main thread sends *)

\* The offer and the PDU for a list of mime types of selection n: what it names is no
\* longer allowed and becomes pending.  offer.made is the selection the client was told of.
Listed(o, types, n) ==
  [o EXCEPT !.pending = types,
            !.queued = {},
            !.allowed = o.allowed \ types,
            !.unicode = IF types \cap Unicode # {} THEN CHOOSE t \in types \cap Unicode : TRUE
                        ELSE @,
            !.made = n]
ListPDU(types, n) == [kind |-> "list", n |-> n, formats |-> {FormatOf(t) : t \in types}]

\* A content response: of selection n, or a failure.
Content(n) == [kind |-> "data", n |-> n, ok |-> TRUE]
Failure == [kind |-> "data", n |-> 0, ok |-> FALSE]

\* grd_clipboard_rdp_submit_requested_server_content: the response, and the next request
\* may be taken.  Content that cannot be converted is a failure.
Answered(rq) == [rq EXCEPT !.type = None, !.completed = TRUE]
ResponseTo(result, n) == IF result = "ok" THEN Content(n) ELSE Failure

\* What abort_current_read_operation has sent: whatever the read thread found, or did not
\* find, when it noticed the cancellation.  The thread waits for nobody.
AbortResults == IF read = NoRead THEN {<<>>}
                ELSE IF read.result # None THEN {<<ResponseTo(read.result, read.n)>>}
                ELSE {<<ResponseTo(x, read.n)>> : x \in {"ok", "failed"}}
AbortRead ==
  /\ read' = NoRead
  /\ request' = IF read = NoRead THEN request ELSE Answered(request)

-----------------------------------------------------------------------------
(* The main thread *)

\* on_remote_desktop_session_selection_owner_changed,
\* grd_clipboard_update_client_mime_type_list: the read in progress is finished first,
\* then the list is sent, or queued while the last one is unanswered.
SelectionOwnerChanged ==
  /\ ~stopped /\ signals # <<>>
  /\ signals' = Tail(signals)
  /\ LET new == Head(signals)
         types == Advertised(new.types)
     IN  \E aborted \in AbortResults :
           /\ AbortRead
           /\ IF types = {}
              THEN offer' = offer /\ toClient' = toClient \o aborted
              ELSE IF offer.pending # {}
              THEN /\ offer' = [offer EXCEPT !.queued = types, !.timer = TRUE, !.waits = new.n]
                   /\ toClient' = toClient \o aborted
              ELSE /\ offer' = Listed(offer, types, new.n)
                   /\ toClient' = toClient \o aborted \o <<ListPDU(types, new.n)>>
  /\ UNCHANGED <<selection, reply, toServer, peer, stopped>>

\* update_allowed_server_formats
Allowed(o, flag) ==
  IF flag = "ok" THEN [o EXCEPT !.allowed = @ \cup o.pending, !.pending = {}]
  ELSE [o EXCEPT !.allowed = {}, !.pending = {}]

\* A queued list is sent when the last one is answered or given up.
SendQueued(o) ==
  IF o.queued = {} THEN offer' = o /\ UNCHANGED toClient
  ELSE /\ offer' = Listed(o, o.queued, o.waits)
       /\ toClient' = Append(toClient, ListPDU(o.queued, o.waits))

\* handle_format_list_response
HandleFormatListResponse ==
  /\ ~stopped /\ reply # None
  /\ reply' = None
  /\ SendQueued([(IF offer.pending # {} THEN Allowed(offer, reply) ELSE offer)
                 EXCEPT !.timer = FALSE])
  /\ UNCHANGED <<selection, signals, request, read, toServer, peer, stopped>>

\* drop_pending_server_formats: the client did not answer in time.
DropPending ==
  /\ ~stopped /\ offer.timer
  /\ SendQueued([Allowed(offer, None) EXCEPT !.timer = FALSE])
  /\ UNCHANGED <<selection, signals, reply, request, read, toServer, peer, stopped>>

\* request_server_format_data: a format that is not allowed fails at once, and so does
\* one that the display server does not have; otherwise the read begins.
RequestServerFormatData ==
  /\ ~stopped /\ request.source
  /\ IF request.type \in offer.allowed /\ request.type \in selection.types
     THEN /\ \E aborted \in AbortResults : toClient' = toClient \o aborted
          /\ request' = [request EXCEPT !.source = FALSE]
          /\ read' = [n |-> selection.n, type |-> request.type, timer |-> TRUE, result |-> None]
     ELSE /\ toClient' = Append(toClient, Failure)
          /\ request' = [Answered(request) EXCEPT !.source = FALSE]
          /\ UNCHANGED read
  /\ UNCHANGED <<selection, signals, offer, reply, toServer, peer, stopped>>

\* read_mime_type_content_in_thread: the thread has the content, or none.
ReadThread ==
  /\ read # NoRead /\ read.result = None
  /\ \E x \in {"ok", "failed"} : read' = [read EXCEPT !.result = x]
  /\ UNCHANGED <<selection, signals, offer, reply, request, toServer, toClient, peer, stopped>>

\* async_read_operation_complete.  The callback of a cancelled operation does nothing.
ReadComplete ==
  /\ ~stopped /\ read.result # None
  /\ toClient' = Append(toClient, ResponseTo(read.result, read.n))
  /\ request' = Answered(request)
  /\ read' = NoRead
  /\ UNCHANGED <<selection, signals, offer, reply, toServer, peer, stopped>>

\* abort_mime_type_content_read: MAX_READ_TIME_MS are over.
ReadTimeout ==
  /\ ~stopped /\ read.timer
  /\ \E aborted \in AbortResults : toClient' = toClient \o aborted
  /\ AbortRead
  /\ UNCHANGED <<selection, signals, offer, reply, toServer, peer, stopped>>

\* update_server_format_list: the client has a clipboard of its own (ClipboardFetch), which
\* becomes the selection.
ClientTakesSelection ==
  /\ ~stopped /\ selection.types # {}
  /\ \E types \in Offers :
       /\ offer' = [offer EXCEPT !.allowed = @ \ types]
       /\ \E aborted \in AbortResults : toClient' = toClient \o aborted
  /\ AbortRead
  /\ selection' = [selection EXCEPT !.types = {}]
  /\ UNCHANGED <<signals, reply, toServer, peer, stopped>>

\* grd_clipboard_rdp_dispose: the thread of the channel is woken and joined, and nothing
\* that was in hand is answered any more.  The read ends with its result discarded.
Dispose ==
  /\ ~stopped
  /\ stopped' = TRUE
  /\ request' = [waiting |-> None, type |-> None, source |-> FALSE,
                 completed |-> request.completed]
  /\ offer' = [offer EXCEPT !.pending = {}, !.queued = {}, !.allowed = {}, !.timer = FALSE]
  /\ reply' = None /\ read' = NoRead
  /\ UNCHANGED <<selection, signals, toServer, toClient, peer>>

-----------------------------------------------------------------------------
(* The thread of the channel *)

\* cliprdr_client_format_list_response: a response is ignored while the last one waits.
ClientFormatListResponse ==
  /\ ~stopped /\ request.waiting = None
  /\ toServer # <<>> /\ Head(toServer).kind = "response"
  /\ toServer' = Tail(toServer)
  /\ reply' = IF reply = None THEN Head(toServer).flag ELSE reply
  /\ UNCHANGED <<selection, signals, offer, request, read, toClient, peer, stopped>>

\* The mime type of a format, and Unknown for one that the server does not offer.
TypeOf(f) ==
  IF f = "unicode" THEN (IF offer.unicode = None THEN Unknown ELSE offer.unicode)
  ELSE IF f \in Type THEN f ELSE Unknown

\* cliprdr_client_format_data_request up to its wait: the mime type is looked up first.
ClientFormatDataRequest ==
  /\ ~stopped /\ request.waiting = None
  /\ toServer # <<>> /\ Head(toServer).kind = "request"
  /\ toServer' = Tail(toServer)
  /\ request' = [request EXCEPT !.waiting = TypeOf(Head(toServer).format)]
  /\ UNCHANGED <<selection, signals, offer, reply, read, toClient, peer, stopped>>

\* And after it: the main thread gets the request; an unknown format fails here.
TakeRequest ==
  /\ ~stopped /\ request.waiting # None /\ request.completed
  /\ IF request.waiting = Unknown
     THEN /\ request' = [request EXCEPT !.waiting = None]
          /\ toClient' = Append(toClient, Failure)
     ELSE /\ request' = [waiting |-> None, type |-> request.waiting,
                         source |-> TRUE, completed |-> FALSE]
          /\ UNCHANGED toClient
  /\ UNCHANGED <<selection, signals, offer, reply, read, toServer, peer, stopped>>

-----------------------------------------------------------------------------
(* The display server and the client *)

\* An application of the session copies something.
NewSelection ==
  /\ selection.n < MaxSelections
  /\ \E types \in Offers : selection' = [n |-> selection.n + 1, types |-> types]
  /\ signals' = Append(signals, selection')
  /\ UNCHANGED <<offer, reply, request, read, toServer, toClient, peer, stopped>>

\* The client answers a format list, or forgets to, and notes a response.
ClientReceives ==
  /\ toClient # <<>>
  /\ toClient' = Tail(toClient)
  /\ LET pdu == Head(toClient)
     IN  IF pdu.kind = "data"
         THEN peer' = [peer EXCEPT !.answered = @ + 1] /\ UNCHANGED toServer
         ELSE /\ peer' = [peer EXCEPT !.n = pdu.n, !.formats = pdu.formats]
              /\ \/ UNCHANGED toServer
                 \/ \E f \in {"ok", "fail"} :
                      toServer' = Append(toServer, [kind |-> "response", flag |-> f])
  /\ UNCHANGED <<selection, signals, offer, reply, request, read, stopped>>

\* The client asks for a format of the list it knows, or for one that was never offered.
ClientAsks ==
  /\ peer.asked < MaxRequests /\ peer.n # 0
  /\ \E f \in peer.formats \cup {"other"} :
       toServer' = Append(toServer, [kind |-> "request", format |-> f])
  /\ peer' = [peer EXCEPT !.asked = @ + 1]
  /\ UNCHANGED <<selection, signals, offer, reply, request, read, toClient, stopped>>

Main ==
  \/ SelectionOwnerChanged \/ HandleFormatListResponse \/ DropPending
  \/ RequestServerFormatData \/ ReadComplete \/ ReadTimeout
  \/ ClientTakesSelection \/ Dispose
Channel == ClientFormatListResponse \/ ClientFormatDataRequest \/ TakeRequest
Environment == NewSelection \/ ClientReceives \/ ClientAsks

Next == Main \/ ReadThread \/ Channel \/ Environment


-----------------------------------------------------------------------------
(* Properties *)

TypeOK ==
  /\ selection \in [n : 0..MaxSelections, types : {{}} \cup Offers]
  /\ offer \in [pending : SUBSET Type, queued : SUBSET Type, allowed : SUBSET Type,
                timer : BOOLEAN, unicode : Unicode \cup {None},
                made : 0..MaxSelections, waits : 0..MaxSelections]
  /\ reply \in {None, "ok", "fail"}
  /\ request \in [waiting : Type \cup {None, Unknown}, type : Type \cup {None},
                  source : BOOLEAN, completed : BOOLEAN]
  /\ read \in [n : 0..MaxSelections, type : Type \cup {None}, timer : BOOLEAN,
               result : {None, "ok", "failed"}]
  /\ stopped \in BOOLEAN

\* What the main thread has in hand is consistent: a read and a source have the request
\* they will answer, a completed request leaves none behind, a list is queued only behind
\* a pending one and with the timer that gives up on it
\* (grd-clipboard-rdp.c:407-420, 825, 1679-1682; grd-clipboard.c:174, 288).
RequestInHand ==
  ~stopped =>
    /\ read # NoRead => request.type = read.type /\ ~request.source
    /\ request.source => request.type # None
    /\ request.completed <=> request.type = None
    /\ request.type # None => (request.source \/ read # NoRead)
    /\ offer.queued # {} => offer.pending # {}
    /\ offer.queued # {} <=> offer.timer

\* Every content request of the client has one response, and no other is sent: what the
\* client asked is answered, under way to it, in hand, or not handled yet.
OneResponse ==
  LET responses == Cardinality({i \in DOMAIN toClient : toClient[i].kind = "data"})
      ahead == Cardinality({i \in DOMAIN toServer : toServer[i].kind = "request"})
  IN  ~stopped =>
        peer.asked = peer.answered + responses + ahead
                     + (IF request.waiting # None THEN 1 ELSE 0)
                     + (IF request.completed THEN 0 ELSE 1)

\* Content is sent before the list of the next selection (grd-clipboard.c:379-382): the
\* content that is under way was read from the selection of the last list before it, or
\* from one whose list still waited its turn.
ContentBeforeList ==
  \A i, j \in DOMAIN toClient :
    i < j /\ toClient[i].kind = "list" /\ toClient[j].kind = "data" /\ toClient[j].ok
      => toClient[j].n >= toClient[i].n

\* Requests are answered and the last selection of the session reaches the client.
Settled ==
  stopped \/ /\ peer.answered = peer.asked
             /\ signals = <<>> /\ offer.queued = {}
=============================================================================
