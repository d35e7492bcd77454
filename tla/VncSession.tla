------------------------------ MODULE VncSession ------------------------------
(***************************************************************************)
(* The life of VNC sessions: src/src/grd-session-vnc.c, the list of them   *)
(* in src/src/grd-vnc-server.c, the question whether to share the desktop  *)
(* (src/src/grd-prompt.c), the input of the client and its clipboard       *)
(* (src/src/grd-clipboard-vnc.c, src/src/grd-clipboard.c).  The frames are *)
(* in VncStream.                                                           *)
(*                                                                         *)
(* All of it runs on the main thread, where libvncserver handles what the  *)
(* client sent whenever the socket source of the session is dispatched.    *)
(* While the source is detached, the client waits: for the user's answer,  *)
(* and then for the stream of the desktop.                                 *)
(***************************************************************************)
EXTENDS Naturals, Sequences, FiniteSets, SequencesExt

CONSTANTS
  VncClient,    \* the clients, each of which connects once
  Key, Button,  \* what the client presses
  MaxInputs     \* events of input and of the clipboard, a bound of the model

VARIABLES
  vncServer,    \* "up" or "down"
  vncSessions,  \* sessions
  vncStopped,   \* stopped_sessions
  vncIdles,     \* idle sources, in the order they were added
  vncs,         \* the state of each session
  viewOnly,     \* is_view_only
  keys,         \* pressed_keys, and how many presses of a key the display server waits
                \* to see released
  buttons,      \* prev_button_mask, and the buttons that the display server has pressed
  clip,         \* the clipboard: the client's text is there, the mime types of the client
                \* are, enabled, a read is in progress
  inputs        \* counter

vncSessionVars == <<vncServer, vncSessions, vncStopped, vncIdles, vncs, viewOnly, keys, buttons,
                    clip, inputs>>
lifeVars == <<vncServer, vncSessions, vncStopped, vncIdles, vncs>>
inputVars == <<viewOnly, keys, buttons, clip, inputs>>

NoOne == "none"

\* A session before grd_session_vnc_new.
NewSession ==
  [life   |-> "none",   \* "on" while it has its rfb_screen, "stopped", "freed"
   client |-> "none",   \* rfb_client: "held", "auth" (it owes its password), "in", "gone"
   source |-> FALSE,    \* the socket source is attached
   prompt |-> "none",   \* "asked", "shown", "cancelled"
   start  |-> "none",   \* "called" (grd_session_start), "recording", "created", "ready"
   pipe   |-> FALSE,    \* pipewire_stream
   close  |-> FALSE]    \* close_session_idle_id is set

NoKeys == [pressed |-> {}, told |-> [k \in Key |-> 0]]
NoClip == [text |-> FALSE, types |-> FALSE, enabled |-> FALSE, reading |-> FALSE]
NoButtons == [mask |-> {}, told |-> {}]

Init ==
  /\ vncServer = "up" /\ vncSessions = <<>> /\ vncStopped = <<>> /\ vncIdles = <<>>
  /\ vncs = [s \in VncClient |-> NewSession]
  /\ viewOnly = FALSE /\ keys = NoKeys /\ buttons = NoButtons /\ clip = NoClip /\ inputs = 0

On(s) == vncs[s].life = "on"

-----------------------------------------------------------------------------
(* A client connects, and is let in or not. *)

\* allow_connection_cb, grd_session_vnc_new and handle_new_client, with the method that the
\* settings name.  The throttler lets one connection through at a time.
AllowConnection(s, method) ==
  /\ vncServer = "up" /\ vncs[s].life = "none" /\ vncSessions = <<>>
  /\ vncSessions' = <<s>>
  /\ vncs' = [vncs EXCEPT ![s] =
       [@ EXCEPT !.life = "on", !.source = method = "password",
                 !.client = IF method = "prompt" THEN "held" ELSE "auth",
                 !.prompt = IF method = "prompt" THEN "asked" ELSE "none"]]
  /\ vncIdles' = IF method = "prompt" THEN Append(vncIdles, <<"show", s>>) ELSE vncIdles
  /\ keys' = NoKeys /\ buttons' = NoButtons /\ clip' = NoClip
  /\ UNCHANGED <<vncServer, vncStopped, viewOnly, inputs>>

\* check_rfb_password: the right one.
CheckPassword(s) ==
  /\ On(s) /\ vncs[s].source /\ vncs[s].client = "auth"
  /\ vncs' = [vncs EXCEPT ![s] = [@ EXCEPT !.client = "in", !.start = "called", !.source = FALSE]]
  /\ UNCHANGED <<vncServer, vncSessions, vncStopped, vncIdles, inputVars>>

\* maybe_queue_close_session_idle, for a session that changes to f.
QueueClose(s, f) ==
  /\ vncs' = [vncs EXCEPT ![s] = [f EXCEPT !.close = TRUE]]
  /\ vncIdles' = IF f.close THEN vncIdles ELSE Append(vncIdles, <<"close", s>>)

\* handle_client_gone
Gone(f) == [f EXCEPT !.client = "gone", !.source = FALSE]

\* The client leaves, or gives a wrong password; libvncserver notices when it reads.
ClientGone(s) ==
  /\ On(s) /\ vncs[s].source /\ vncs[s].client # "gone"
  /\ QueueClose(s, Gone(vncs[s]))
  /\ UNCHANGED <<vncServer, vncSessions, vncStopped, inputVars>>

\* prompt_response_callback: the client that is on hold is started or refused.
Accept(s) ==
  /\ vncs' = [vncs EXCEPT ![s] = [@ EXCEPT !.prompt = "none", !.client = "in", !.start = "called"]]
  /\ UNCHANGED vncIdles
Refuse(s) == QueueClose(s, Gone([vncs[s] EXCEPT !.prompt = "none"]))

PromptAnswered(s) ==
  /\ vncs[s].prompt = "shown"
  /\ Accept(s) \/ Refuse(s)
  /\ UNCHANGED <<vncServer, vncSessions, vncStopped, inputVars>>

-----------------------------------------------------------------------------
(* The stream of the desktop *)

StartStep == [called |-> "recording", recording |-> "created", created |-> "ready"]

\* on_remote_desktop_session_started, grd_session_vnc_on_stream_created.
StartGoesOn(s) ==
  /\ On(s) /\ vncs[s].start \in {"called", "recording"}
  /\ vncs' = [vncs EXCEPT ![s].start = StartStep[@]]
  /\ UNCHANGED <<vncServer, vncSessions, vncStopped, vncIdles, inputVars>>

\* on_stream_ready: without a PipeWire stream the client is not listened to again.
StreamReady(s) ==
  /\ On(s) /\ vncs[s].start = "created"
  /\ \E ok \in BOOLEAN :
       vncs' = [vncs EXCEPT ![s] = [@ EXCEPT !.start = "ready", !.pipe = ok, !.source = @ \/ ok]]
  /\ UNCHANGED <<vncServer, vncSessions, vncStopped, vncIdles, inputVars>>

\* on_pipewire_stream_closed, grd_session_vnc_notify_error
StreamClosed(s) ==
  /\ On(s) /\ vncs[s].pipe /\ QueueClose(s, vncs[s])
  /\ UNCHANGED <<vncServer, vncSessions, vncStopped, inputVars>>

-----------------------------------------------------------------------------
(* The end *)

\* Whether the task of the prompt is told that it was cancelled.
Asked(s) == vncs[s].prompt \in {"asked", "shown"}

StoppedSession(s) ==
  [NewSession EXCEPT !.life = "stopped", !.client = "gone", !.start = vncs[s].start,
                     !.prompt = IF Asked(s) THEN "cancelled" ELSE "none"]

\* Mutant: the idle source is removed before rfbScreenCleanup tells of a client that is gone.
StopIdles_CloseFirst(s, idles) ==
  SelectSeq(idles, LAMBDA i : i # <<"close", s>>)
    \o (IF vncs[s].client # "gone" THEN <<<<"close", s>>>> ELSE <<>>)
    \o (IF Asked(s) THEN <<<<"cancelled", s>>>> ELSE <<>>)

\* grd_session_vnc_stop: the stream, the source, the clipboard and the screen, whose cleanup
\* queues the idle source for a client that was not gone yet; the prompt is cancelled, which
\* its task learns from an idle source, and then the idle source is removed.
StopIdles(s, idles) ==
  SelectSeq(idles, LAMBDA i : i # <<"close", s>>)
    \o (IF Asked(s) THEN <<<<"cancelled", s>>>> ELSE <<>>)

\* grd_session_stop, with these idle sources, and on_session_stopped of the server.
Stop(s, idles) ==
  /\ vncs' = [vncs EXCEPT ![s] = StoppedSession(s)]
  /\ vncSessions' = Remove(vncSessions, s)
  /\ vncStopped' = Append(vncStopped, s)
  /\ vncIdles' = LET left == StopIdles(s, idles)
                 IN  IF Contains(left, <<"cleanup", NoOne>>) THEN left
                     ELSE Append(left, <<"cleanup", NoOne>>)
  /\ clip' = NoClip

\* A call of the start fails, or the display server closes the session that it has
\* (on_remote_desktop_session_closed); the signals and calls of a stopped one are gone.
SessionFails(s) ==
  /\ On(s) /\ vncs[s].start # "none"
  /\ Stop(s, vncIdles)
  /\ UNCHANGED <<vncServer, viewOnly, keys, buttons, inputs>>

\* close_session_idle, cleanup_stopped_sessions_idle, show_notification_idle_callback and
\* cancelled_idle_callback.
DispatchIdle ==
  /\ vncIdles # <<>>
  /\ LET kind == Head(vncIdles)[1]
         s == Head(vncIdles)[2]
         rest == Tail(vncIdles)
     IN  \/ kind = "close" /\ Stop(s, rest) /\ UNCHANGED <<vncServer, viewOnly, keys, buttons, inputs>>
         \/ /\ kind = "cleanup"
            /\ vncs' = [c \in VncClient |-> IF Contains(vncStopped, c)
                                            THEN [vncs[c] EXCEPT !.life = "freed"] ELSE vncs[c]]
            /\ vncStopped' = <<>> /\ vncIdles' = rest
            /\ UNCHANGED <<vncServer, vncSessions, inputVars>>
         \/ /\ kind = "show" /\ vncs[s].prompt = "asked"
            /\ \/ vncs' = [vncs EXCEPT ![s].prompt = "shown"] /\ vncIdles' = rest
               \/ /\ vncs' = [vncs EXCEPT ![s] = [Gone(@) EXCEPT !.prompt = "none", !.close = TRUE]]
                  /\ vncIdles' = Append(rest, <<"close", s>>)
            /\ UNCHANGED <<vncServer, vncSessions, vncStopped, inputVars>>
         \/ /\ kind = "show" /\ vncs[s].prompt = "cancelled"
            /\ vncIdles' = rest
            /\ UNCHANGED <<vncServer, vncSessions, vncStopped, vncs, inputVars>>
         \/ /\ kind = "cancelled"
            /\ vncs' = [vncs EXCEPT ![s].prompt = "none"] /\ vncIdles' = rest
            /\ UNCHANGED <<vncServer, vncSessions, vncStopped, inputVars>>

\* grd_vnc_server_stop: the session, if there is one, is stopped and freed at once.
ServerStop ==
  /\ vncServer = "up"
  /\ vncServer' = "down"
  /\ vncs' = [s \in VncClient |->
       IF Contains(vncSessions, s) THEN [StoppedSession(s) EXCEPT !.life = "freed"]
       ELSE IF Contains(vncStopped, s) THEN [vncs[s] EXCEPT !.life = "freed"]
       ELSE vncs[s]]
  /\ vncIdles' = SelectSeq(FoldLeft(LAMBDA idles, s : StopIdles(s, idles), vncIdles, vncSessions),
                           LAMBDA i : i[1] # "cleanup")
  /\ vncSessions' = <<>> /\ vncStopped' = <<>> /\ clip' = NoClip
  /\ UNCHANGED <<viewOnly, keys, buttons, inputs>>

-----------------------------------------------------------------------------
(* Input, and the clipboard *)

\* handle_socket_data: the client s sends something.
Sends(s) ==
  /\ On(s) /\ vncs[s].source /\ vncs[s].client = "in" /\ inputs < MaxInputs
  /\ inputs' = inputs + 1
  /\ UNCHANGED lifeVars

\* handle_key_event
KeyEvent(k, down) ==
  keys' = IF down /\ k \notin keys.pressed
            THEN [pressed |-> keys.pressed \cup {k}, told |-> [keys.told EXCEPT ![k] = @ + 1]]
          ELSE IF ~down /\ k \in keys.pressed
                 THEN [pressed |-> keys.pressed \ {k}, told |-> [keys.told EXCEPT ![k] = @ - 1]]
          ELSE keys

\* handle_release_all_keys
ReleaseAllKeys ==
  keys' = [pressed |-> {},
           told |-> [k \in Key |-> IF k \in keys.pressed THEN keys.told[k] - 1 ELSE keys.told[k]]]

\* handle_pointer_event: the buttons that changed; the wheel is no button that is held.
PointerEvent(mask) ==
  LET changed == (buttons.mask \ mask) \cup (mask \ buttons.mask)
  IN  buttons' = [mask |-> mask,
                  told |-> {b \in Button : (b \in buttons.told) # (b \in changed)}]

KeysAreHandled(s) ==
  /\ Sends(s)
  /\ IF viewOnly THEN UNCHANGED keys ELSE \E k \in Key, down \in BOOLEAN : KeyEvent(k, down)
  /\ UNCHANGED <<viewOnly, buttons, clip>>

AllKeysReleased(s) == Sends(s) /\ ReleaseAllKeys /\ UNCHANGED <<viewOnly, buttons, clip>>

PointerIsHandled(s) ==
  /\ Sends(s)
  /\ IF viewOnly THEN UNCHANGED buttons
     ELSE \E mask \in SUBSET (Button \cup {"wheel"}) : PointerEvent(mask)
  /\ UNCHANGED <<viewOnly, keys, clip>>

\* on_view_only_changed
ViewOnlyChanged ==
  /\ inputs < MaxInputs /\ inputs' = inputs + 1
  /\ viewOnly' = ~viewOnly
  /\ UNCHANGED <<lifeVars, keys, buttons, clip>>

\* handle_set_clipboard_text: the text is there before its mime types are
\* (grd_clipboard_update_server_mime_type_list), which ends a read in progress.
SetClipboardText(s) ==
  /\ Sends(s)
  /\ \E enabled \in {clip.enabled, TRUE} :
       clip' = [text |-> TRUE, types |-> TRUE, enabled |-> enabled, reading |-> FALSE]
  /\ UNCHANGED <<viewOnly, keys, buttons>>

\* grd_clipboard_vnc_maybe_enable_clipboard, after the framebuffer was resized.
EnableClipboard(s) ==
  /\ Sends(s)
  /\ clip' = [clip EXCEPT !.enabled = TRUE]
  /\ UNCHANGED <<viewOnly, keys, buttons>>

\* grd_clipboard_update_client_mime_type_list and the one of grd-clipboard-vnc.c: a text of
\* the session is read, if the display server gives a file for it.
OwnerChanged(utf8, fd) ==
  [clip EXCEPT !.types = FALSE, !.text = @ /\ ~utf8, !.reading = utf8 /\ fd]

SelectionOwnerChanged(s) ==
  /\ On(s) /\ clip.enabled /\ inputs < MaxInputs /\ inputs' = inputs + 1
  /\ \E utf8, fd \in BOOLEAN : clip' = OwnerChanged(utf8, fd)
  /\ UNCHANGED <<lifeVars, viewOnly, keys, buttons>>

\* async_read_operation_complete, abort_mime_type_content_read: the client gets the text.
ReadEnds(s) ==
  /\ On(s) /\ clip.reading
  /\ clip' = [clip EXCEPT !.reading = FALSE]
  /\ UNCHANGED <<lifeVars, viewOnly, keys, buttons, inputs>>

Input(s) ==
  \/ KeysAreHandled(s) \/ AllKeysReleased(s) \/ PointerIsHandled(s) \/ SetClipboardText(s)
  \/ EnableClipboard(s) \/ SelectionOwnerChanged(s) \/ ReadEnds(s)

Next ==
  \/ \E s \in VncClient :
       \/ \E method \in {"prompt", "password"} : AllowConnection(s, method)
       \/ CheckPassword(s) \/ ClientGone(s) \/ PromptAnswered(s)
       \/ StartGoesOn(s) \/ StreamReady(s) \/ StreamClosed(s) \/ SessionFails(s)
       \/ Input(s)
  \/ ViewOnlyChanged \/ DispatchIdle \/ ServerStop

-----------------------------------------------------------------------------
(* Properties *)

TypeOK ==
  /\ vncServer \in {"up", "down"} /\ vncSessions \in Seq(VncClient) /\ vncStopped \in Seq(VncClient)
  /\ \A i \in DOMAIN vncIdles :
       vncIdles[i] \in ({"show", "close", "cancelled"} \X VncClient) \cup {<<"cleanup", NoOne>>}
  /\ vncs \in [VncClient -> [life : {"none", "on", "stopped", "freed"},
                            client : {"none", "held", "auth", "in", "gone"}, source : BOOLEAN,
                            prompt : {"none", "asked", "shown", "cancelled"},
                            start : {"none", "called", "recording", "created", "ready"},
                            pipe : BOOLEAN, close : BOOLEAN]]
  /\ viewOnly \in BOOLEAN /\ keys.pressed \subseteq Key /\ buttons.told \subseteq Button
  /\ clip \in [text : BOOLEAN, types : BOOLEAN, enabled : BOOLEAN, reading : BOOLEAN]

\* The idle source that stops a session is there exactly while its id is stored, for a
\* session that has its screen (grd_session_vnc_stop frees the framebuffer without asking),
\* once; and sessions that were stopped await one idle source that frees them.
ClosesExact ==
  /\ \A s \in VncClient :
       /\ vncs[s].close <=> Contains(vncIdles, <<"close", s>>)
       /\ vncs[s].close => On(s)
       /\ Cardinality({i \in DOMAIN vncIdles : vncIdles[i] = <<"close", s>>}) =< 1
  /\ vncStopped # <<>> <=> Contains(vncIdles, <<"cleanup", NoOne>>)

\* What is answered finds its client: the user's answer the one that is on hold
\* (rfbRefuseOnHoldClient), and what the client sends finds the PipeWire stream that a new
\* size is given to (handle_set_desktop_size).
AnswersFindClient ==
  \A s \in VncClient :
    /\ vncs[s].prompt \in {"asked", "shown"} => On(s) /\ vncs[s].client = "held"
    /\ vncs[s].source /\ vncs[s].client = "in" => vncs[s].pipe

\* The display server has pressed what the client holds, whatever was repeated, released
\* twice or ignored in between.
InputBalances ==
  /\ \A k \in Key : keys.told[k] = IF k \in keys.pressed THEN 1 ELSE 0
  /\ buttons.told = buttons.mask \cap Button

\* The session's applications are offered the text of the client only when there is one
\* (strlen (clipboard_utf8_string), grd-clipboard-vnc.c:89).
TextBehindTypes == clip.types => clip.text

\* A session whose client left, or that failed, is freed.
SessionsFreed == \A s \in VncClient : vncs[s].client # "gone" \/ vncs[s].life = "freed"
================================================================================
