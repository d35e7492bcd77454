--------------------------- MODULE GraphicsPipeline ---------------------------
(***************************************************************************)
(* GrdRdpDvcGraphicsPipeline (src/src/grd-rdp-dvc-graphics-pipeline.c):    *)
(* the bookkeeping of frames that were sent to the client, of their        *)
(* acknowledgements, and of the surfaces they belong to.                   *)
(*                                                                         *)
(* Two threads meet here.  The graphics thread creates and deletes         *)
(* surfaces, submits frames and resets the protocol; the FreeRDP thread    *)
(* handles what the client sends: acknowledgements, capability sets and,   *)
(* by way of the network autodetection, round trip times.  gfx_mutex makes *)
(* each section under it one step; `gfx' is everything it protects.        *)
(*                                                                         *)
(* The channel is two FIFO queues.  The client decodes the frames in order *)
(* and acknowledges each, except while it suspended acknowledging; it may  *)
(* suspend and resume with any acknowledgement, and it may reset the       *)
(* protocol by advertising capability sets again.                          *)
(***************************************************************************)
EXTENDS FrameController

CONSTANTS
  NSerials,   \* serials (2^32 in the code), reused in a circle
  MaxFrames,  \* frames submitted, a bound of the model
  MaxTracked, \* MAX_TRACKED_ENC_FRAMES
  MaxDelay,   \* the longest round trip, in frames
  MaxResets,  \* protocol resets by the client, a bound of the model
  Word        \* 2^32: total_frames_encoded - totalFramesDecoded is unsigned

ASSUME GraphicsPipelineAssumption ==
  /\ {NSerials, MaxFrames} \subseteq Nat \ {0}
  /\ MaxTracked \in Nat /\ MaxTracked > 1
  /\ MaxDelay \in Nat /\ MaxResets \in Nat
  /\ Word \in Nat /\ Word > MaxFrames + MaxTracked + 1

Serial == 0 .. NSerials - 1
Frame == 1 .. MaxFrames

VARIABLES
  gfx,       \* what gfx_mutex protects, see Init
  nextFrame, \* next_frame_id
  nextSerial,\* next_serial
  capSets,   \* cap_sets were advertised and await reset_protocol
  resetting, \* inside reset_protocol, between its two sections under the mutex
  toClient,  \* the channel: frames and CapsConfirm PDUs
  toServer,  \* the channel: acknowledgements and CapsAdvertise PDUs
  client     \* the client: decoded frames, suspended, resets so far

vars == <<gfx, nextFrame, nextSerial, capSets, resetting,
          toClient, toServer, client>>

--------------------------------------------------------------------------------
(* The tables, as functions of what they were. *)

SerialOf(g, s) == {f \in DOMAIN g.frameSerial : g.frameSerial[f] = s}

Without(fn, S) == [x \in DOMAIN fn \ S |-> fn[x]]

\* surface_serial_unref, count[s] times for each serial s: the entry of a
\* surface that is gone disappears with its last reference.
SerialUnref(g, count) ==
  LET refs == [s \in Serial |-> g.refs[s] - count[s]]
  IN  [g EXCEPT !.refs = refs,
                !.serials = @ \ {s \in Serial : /\ count[s] > 0
                                                /\ s \notin g.live
                                                /\ refs[s] = 0}]

\* reduce_tracked_frame_infos: the oldest frame infos beyond max are freed.
ReduceTracked(g, max) ==
  LET n == Larger(0, Len(g.encoded) - max)
      freed == SubSeq(g.encoded, 1, n)
      kept == SubSeq(g.encoded, n + 1, Len(g.encoded))
      count == [s \in Serial |-> Cardinality({i \in 1 .. n : freed[i].serial = s})]
      ids == {freed[i].id : i \in 1 .. n}
  IN  SerialUnref([g EXCEPT !.encoded = kept,
                            !.frameSerial = Without(@, ids)], count)

\* maybe_rewrite_frame_history: the frames that were acknowledged on the
\* client's behalf and that it has not decoded yet count as pending again.
RewriteHistory(g, pending) ==
  LET h == ReduceTracked(g, (pending + 1) % Word)
      framesOf(s) ==
        {h.encoded[i].id : i \in {j \in DOMAIN h.encoded : h.encoded[j].serial = s}}
  IN  IF g.encoded = <<>>
      THEN g
      ELSE [h EXCEPT !.encoded = <<>>,
                     !.ctl = [s \in Serial |->
                                IF s \in h.live
                                THEN UnackAckedFrames(h.ctl[s], framesOf(s))
                                ELSE h.ctl[s]]]

\* The frame that is acknowledged leaves the table; its surface is told.
StealFrame(g, f, ahead) ==
  LET s == g.frameSerial[f]
      told == [g EXCEPT !.frameSerial = Without(@, {f}),
                        !.ctl[s] = IF s \in g.live THEN AckFrame(@, f, ahead) ELSE @]
  IN  IF f \in DOMAIN g.frameSerial
      THEN SerialUnref(told, [t \in Serial |-> IF t = s THEN 1 ELSE 0])
      ELSE g

\* What suspending acknowledgements and a protocol reset begin with.
ForgetFrames(g) ==
  LET idle == [g EXCEPT !.ctl = [s \in Serial |->
                                   IF s \in g.live THEN ClearUnacked(@[s]) ELSE @[s]]]
      h == ReduceTracked(idle, 0)
  IN  SerialUnref([h EXCEPT !.frameSerial = <<>>],
                  [s \in Serial |-> Cardinality(SerialOf(h, s))])

Init ==
  /\ gfx = [live        |-> {},    \* serials in surface_table
            serials     |-> {},    \* serials in serial_surface_table
            refs        |-> [s \in Serial |-> 0], \* their ref_count
            ctl         |-> [s \in Serial |-> NewController],
            frameSerial |-> <<>>,  \* frame_serial_table
            encoded     |-> <<>>,  \* encoded_frames
            suspended   |-> FALSE, \* frame_acks_suspended
            total       |-> 0]     \* total_frames_encoded
  /\ nextFrame = 1
  /\ nextSerial = 0
  /\ capSets = FALSE
  /\ resetting = FALSE
  /\ toClient = <<>>
  /\ toServer = <<>>
  /\ client = [decoded |-> 0, suspended |-> FALSE, resets |-> 0]

--------------------------------------------------------------------------------
(* The graphics thread. *)

\* get_next_free_serial: the first serial from nextSerial on that is not used.
FirstFree(used) ==
  CHOOSE s \in Serial \ used : \A t \in Serial \ used :
    (s - nextSerial) % NSerials <= (t - nextSerial) % NSerials

\* Called for a new render context, which the renderer acquires only while no
\* reset of the protocol is pending.
AcquireGfxSurface ==
  LET s == FirstFree(gfx.serials) IN
  /\ ~resetting /\ ~capSets
  /\ gfx.serials # Serial
  /\ gfx' = [gfx EXCEPT !.live = @ \cup {s},
                        !.serials = @ \cup {s},
                        !.refs[s] = 0]
  /\ nextSerial' = (s + 1) % NSerials
  /\ UNCHANGED <<nextFrame, capSets, resetting, toClient, toServer, client>>

\* Mutant: the entry of the serial goes with the surface, referenced or not.
DeleteSurface_DropsEntry(s) ==
  /\ s \in gfx.live
  /\ gfx' = [gfx EXCEPT !.live = @ \ {s}, !.serials = @ \ {s},
                        !.ctl[s] = NewController]
  /\ UNCHANGED <<nextFrame, nextSerial, capSets, resetting, toClient,
                 toServer, client>>

\* A surface, and its frame controller, go with the render context.
DeleteSurface(s) ==
  /\ s \in gfx.live
  /\ gfx' = [gfx EXCEPT !.live = @ \ {s},
                        !.ctl[s] = NewController,
                        !.serials = IF gfx.refs[s] = 0 THEN @ \ {s} ELSE @]
  /\ UNCHANGED <<nextFrame, nextSerial, capSets, resetting, toClient,
                 toServer, client>>

\* Mutant: the frame info is queued only after the reduction let in one more.
Submitted_UnboundedHistory(g, s, f, ahead) ==
  LET sent == [g EXCEPT !.ctl[s] = UnackFrame(@, f, ahead),
                        !.frameSerial = [x \in DOMAIN @ \cup {f} |->
                                           IF x = f THEN s ELSE @[x]],
                        !.refs[s] = @ + 1,
                        !.total = @ + 1]
      acked == [ReduceTracked(sent, MaxTracked) EXCEPT !.ctl[s] = AckFrame(@, f, ahead)]
  IN  IF g.suspended
      THEN [acked EXCEPT !.encoded = Append(@, [id |-> f, serial |-> s])]
      ELSE sent

\* The section under the mutex of submit_frame: the frame is pending, or, while
\* acknowledging is suspended, acknowledged at once and kept in the history.
Submitted(g, s, f, ahead) ==
  LET sent == [g EXCEPT !.ctl[s] = UnackFrame(@, f, ahead),
                        !.frameSerial = [x \in DOMAIN @ \cup {f} |->
                                           IF x = f THEN s ELSE @[x]],
                        !.refs[s] = @ + 1,
                        !.total = @ + 1]
      acked == [ReduceTracked(sent, MaxTracked - 1) EXCEPT
                  !.ctl[s] = AckFrame(@, f, ahead)]
  IN  IF g.suspended
      THEN [acked EXCEPT !.encoded = Append(@, [id |-> f, serial |-> s])]
      ELSE sent

\* Whether the slots allow the frame was decided when it was prepared; they may
\* have fallen to none since.  The bound is one frame lower once the client
\* reset the protocol.
SubmitFrame(s) ==
  /\ s \in gfx.live
  /\ ~resetting
  /\ nextFrame + client.resets <= MaxFrames
  /\ \E ahead \in BOOLEAN : gfx' = Submitted(gfx, s, nextFrame, ahead)
  /\ nextFrame' = nextFrame + 1
  /\ toClient' = Append(toClient, [type |-> "frame", id |-> nextFrame])
  /\ UNCHANGED <<nextSerial, capSets, resetting, toServer, client>>

\* reset_protocol, up to the end of the first section of
\* reset_graphics_pipeline.  The renderer has it run between two frames.
ResetBegin ==
  /\ capSets /\ ~resetting
  /\ capSets' = FALSE
  /\ resetting' = TRUE
  /\ gfx' = ForgetFrames(gfx)
  /\ UNCHANGED <<nextFrame, nextSerial, toClient, toServer, client>>

\* Its second section, after the render contexts, and the surfaces with them,
\* were cleared (DeleteSurface), and the CapsConfirm PDU.
ResetEnd ==
  /\ resetting
  /\ gfx.live = {}
  /\ resetting' = FALSE
  /\ gfx' = [gfx EXCEPT !.suspended = FALSE, !.total = 0]
  /\ toClient' = Append(toClient, [type |-> "confirm", id |-> 0])
  /\ UNCHANGED <<nextFrame, nextSerial, capSets, toServer, client>>

--------------------------------------------------------------------------------
(* The FreeRDP thread. *)

PendingAcks(ack) == (gfx.total - ack.decoded) % Word

IsIgnored(ack) ==
  PendingAcks(ack) <= MaxTracked /\ ack.id \notin DOMAIN gfx.frameSerial

\* handle_frame_ack_event: the history is rewritten, acknowledging is resumed
\* unless the client goes on suspending it, the frame is acknowledged, and
\* acknowledging is suspended if the client says so.
HandleFrameAck ==
  LET ack == Head(toServer) IN
  /\ toServer # <<>>
  /\ ack.type = "ack"
  /\ toServer' = Tail(toServer)
  /\ \/ IsIgnored(ack) /\ UNCHANGED gfx
     \/ /\ ~IsIgnored(ack)
        /\ \E ahead \in BOOLEAN :
           \E rewritten \in {RewriteHistory(gfx, PendingAcks(ack))} :
           \E resumed \in {[rewritten EXCEPT !.suspended = @ /\ ack.suspend]} :
           \E stolen \in {StealFrame(resumed, ack.id, ahead)} :
             gfx' = IF ack.suspend
                    THEN ForgetFrames([stolen EXCEPT !.suspended = TRUE])
                    ELSE stolen
  /\ UNCHANGED <<nextFrame, nextSerial, capSets, resetting, toClient, client>>

\* rdpgfx_caps_advertise, for capability sets it accepts.
HandleCapsAdvertise ==
  /\ toServer # <<>>
  /\ Head(toServer).type = "advertise"
  /\ toServer' = Tail(toServer)
  /\ capSets' = TRUE
  /\ UNCHANGED <<gfx, nextFrame, nextSerial, resetting, toClient, client>>

\* grd_rdp_dvc_graphics_pipeline_notify_new_round_trip_time
NotifyNewRtt(delay) ==
  /\ \E s \in gfx.live : gfx.ctl[s].delay # delay
  /\ gfx' = [gfx EXCEPT !.ctl = [s \in Serial |->
                                   IF s \in gfx.live
                                   THEN [@[s] EXCEPT !.delay = delay]
                                   ELSE @[s]]]
  /\ UNCHANGED <<nextFrame, nextSerial, capSets, resetting, toClient,
                 toServer, client>>

--------------------------------------------------------------------------------
(* The client, as the server sees it, and time. *)

ClientDecode ==
  LET decoded == client.decoded + 1
      ack(suspend) == [type |-> "ack", id |-> Head(toClient).id,
                       decoded |-> decoded, suspend |-> suspend]
  IN
  /\ toClient # <<>>
  /\ Head(toClient).type = "frame"
  /\ toClient' = Tail(toClient)
  /\ \/ \E suspend \in BOOLEAN :
          /\ toServer' = Append(toServer, ack(suspend))
          /\ client' = [client EXCEPT !.decoded = decoded, !.suspended = suspend]
     \/ /\ client.suspended
        /\ client' = [client EXCEPT !.decoded = decoded]
        /\ UNCHANGED toServer
  /\ UNCHANGED <<gfx, nextFrame, nextSerial, capSets, resetting>>

ClientConfirmed ==
  /\ toClient # <<>>
  /\ Head(toClient).type = "confirm"
  /\ toClient' = Tail(toClient)
  /\ client' = [client EXCEPT !.decoded = 0, !.suspended = FALSE]
  /\ UNCHANGED <<gfx, nextFrame, nextSerial, capSets, resetting, toServer>>

\* Bounded, as SubmitFrame is, to behaviours with one frame less.
ClientAdvertise ==
  /\ client.resets < MaxResets
  /\ nextFrame <= MaxFrames
  /\ client' = [client EXCEPT !.resets = @ + 1]
  /\ toServer' = Append(toServer, [type |-> "advertise"])
  /\ UNCHANGED <<gfx, nextFrame, nextSerial, capSets, resetting, toClient>>

TimePasses(s) ==
  /\ s \in gfx.live
  /\ \E k \in DOMAIN gfx.ctl[s].acked :
       /\ ~gfx.ctl[s].acked[k].old
       /\ gfx' = [gfx EXCEPT !.ctl[s] = Aged(@, k)]
  /\ UNCHANGED <<nextFrame, nextSerial, capSets, resetting, toClient,
                 toServer, client>>

Next ==
  \/ AcquireGfxSurface
  \/ \E s \in Serial : DeleteSurface(s) \/ SubmitFrame(s)
  \/ ResetBegin \/ ResetEnd
  \/ HandleFrameAck \/ HandleCapsAdvertise
  \/ \E delay \in 0 .. MaxDelay : NotifyNewRtt(delay)
  \/ ClientDecode \/ ClientConfirmed \/ ClientAdvertise
  \/ \E s \in Serial : TimePasses(s)

Spec == Init /\ [][Next]_vars

\* The steps that take something from a channel: those of the client, and those
\* of the FreeRDP thread.
Taken(channel, rest) == channel # <<>> /\ rest = Tail(channel)

\* The client goes on decoding what it receives and the FreeRDP thread goes on
\* handling what it is sent.
FairSpec ==
  /\ Spec
  /\ WF_toClient(Taken(toClient, toClient'))
  /\ WF_toServer(Taken(toServer, toServer'))

--------------------------------------------------------------------------------
(* Properties. *)

TypeOK ==
  /\ gfx.live \subseteq gfx.serials
  /\ gfx.serials \subseteq Serial
  /\ gfx.refs \in [Serial -> Nat]
  /\ DOMAIN gfx.frameSerial \subseteq Frame
  /\ \A f \in DOMAIN gfx.frameSerial : gfx.frameSerial[f] \in gfx.serials
  /\ Len(gfx.encoded) <= MaxTracked
  /\ gfx.suspended \in BOOLEAN
  /\ gfx.total \in 0 .. MaxFrames
  /\ \A s \in Serial :
       /\ gfx.ctl[s].state \in {"inactive", "active", "lowering"}
       /\ gfx.ctl[s].slots \in {"none", "some", "unlimited"}
       /\ gfx.ctl[s].tracked \subseteq Frame
       /\ gfx.ctl[s].threshold \in 2 .. MaxDelay + 2

\* surface_serial_ref and surface_serial_unref balance: a surface's references
\* are its frames in the table, and an entry outlives its surface exactly as
\* long as there are some (no lookup of a serial can hit g_assert_not_reached,
\* no reference count goes below zero).
SerialTableExact ==
  /\ \A s \in Serial : gfx.refs[s] = Cardinality(SerialOf(gfx, s))
  /\ gfx.serials = gfx.live \cup {s \in Serial : gfx.refs[s] > 0}

\* Every frame a controller waits for is one whose acknowledgement would reach
\* it: it is in the frame table, under the serial of its surface.
TrackedFramesAckable ==
  \A s \in gfx.live : gfx.ctl[s].tracked \subseteq SerialOf(gfx, s)

\* Whatever the order of acknowledgements, suspensions and resets, a throttled
\* surface waits for at least two frames: there is an acknowledgement left to
\* unthrottle it.
ThrottledHasPending ==
  \A s \in gfx.live :
    /\ gfx.ctl[s].slots # "unlimited" <=> gfx.ctl[s].state # "inactive"
    /\ gfx.ctl[s].state # "inactive" => Pending(gfx.ctl[s]) > DeactivateTh
    /\ gfx.ctl[s].state = "lowering" => gfx.ctl[s].slots = "none"

\* Frames are acknowledged on the client's behalf only while it suspended
\* acknowledging, and then nothing is throttled; the frame history lists
\* frames of the table, under their serials.
HistoryOnlyWhileSuspended ==
  /\ gfx.encoded # <<>> => gfx.suspended
  /\ gfx.suspended => \A s \in gfx.live : gfx.ctl[s].tracked = {}
  /\ \A i \in DOMAIN gfx.encoded :
       /\ gfx.encoded[i].id \in DOMAIN gfx.frameSerial
       /\ gfx.frameSerial[gfx.encoded[i].id] = gfx.encoded[i].serial

\* What grd_rdp_gfx_frame_log_unack_last_acked_frame asserts of the entry it
\* takes back: the tail of a surface's acknowledgement log is the tail of its
\* frame history, as far as both reach.
Later(history, i) ==
  {j \in DOMAIN history : j > i /\ history[j].serial = history[i].serial}

HistoryMatchesAckLog ==
  \A i \in DOMAIN gfx.encoded :
    LET entry == gfx.encoded[i]
        log == gfx.ctl[entry.serial].acked
        k == Cardinality(Later(gfx.encoded, i))
    IN  entry.serial \in gfx.live /\ k < Len(log) => log[Len(log) - k].id = entry.id

\* A protocol reset finds every table empty once the surfaces are gone, even
\* if acknowledgements of the old protocol came in between its two sections
\* (the g_assert calls of reset_graphics_pipeline).
ResetFindsTablesEmpty ==
  resetting /\ gfx.live = {} =>
    gfx.serials = {} /\ gfx.frameSerial = <<>> /\ gfx.encoded = <<>>

\* No surface is left without a frame slot: one that was is given some again, or is deleted.
SuspensionEnded == \A s \in gfx.live : gfx.ctl[s].slots # "none"

\* The tables of serials, frames and controllers agree with each other, also in the
\* middle of a reset.
TablesAgree == SerialTableExact /\ TrackedFramesAckable /\ ResetFindsTablesEmpty

\* What is known of the frames on their way suits the state of every controller,
\* suspended or not.
SuspensionSound ==
  ThrottledHasPending /\ HistoryOnlyWhileSuspended /\ HistoryMatchesAckLog

================================================================================
