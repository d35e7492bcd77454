---------------------------- MODULE FrameController ----------------------------
(***************************************************************************)
(* GrdRdpGfxFrameController and GrdRdpGfxFrameLog                          *)
(* (src/src/grd-rdp-gfx-frame-{controller,log}.c): how many frames one     *)
(* surface may have on their way to the client.  A controller is a record; *)
(* each operator here is one of its functions, from the controller before  *)
(* the call to the controller after it.                                    *)
(*                                                                         *)
(* The two rates are the numbers of frames encoded and acknowledged in the *)
(* last second.  They only choose between no frame slot and a few, so the  *)
(* comparison is a parameter (`ahead': more encoded than acknowledged).    *)
(* The log of acknowledged frames itself is kept, because its tail is      *)
(* taken back when the frame history is rewritten: an entry is an id with  *)
(* a flag that says whether it is older than a second.  Dual frames are    *)
(* tracked for statistics only and are left out.                           *)
(***************************************************************************)
EXTENDS Integers, Sequences, FiniteSets

CONSTANT RefreshRate \* the surface's refresh rate, a bound of the threshold

ASSUME RefreshRateAssumption == RefreshRate \in Nat \ {0}

DeactivateTh == 1 \* DEACTIVATE_THROTTLING_TH_DEFAULT

Larger(a, b) == IF a >= b THEN a ELSE b
Smaller(a, b) == IF a <= b THEN a ELSE b

\* get_activate_throttling_th_from_rtt; delay is the RTT in frames.
Threshold(delay) == Larger(2, Smaller(delay + 2, RefreshRate))

NewController ==
  [state     |-> "inactive", \* inactive, active or lowering
   tracked   |-> {},         \* frame_log->tracked_frames: not acknowledged yet
   acked     |-> <<>>,       \* frame_log->acked_frames
   threshold |-> 2,          \* activate_throttling_th
   delay     |-> 0,          \* nw_auto_last_rtt_us, in frames
   slots     |-> "unlimited"] \* the surface renderer's total_frame_slots

Pending(fc) == Cardinality(fc.tracked)

\* clear_old_ack_frame_infos: the log without its entries of a second or more.
Recent(log) ==
  LET young == {i \in DOMAIN log : ~log[i].old}
  IN  IF young = {}
      THEN <<>>
      ELSE SubSeq(log, CHOOSE i \in young : \A j \in young : i <= j, Len(log))

Suspended(fc, state) == [fc EXCEPT !.state = state, !.slots = "none"]
Unthrottled(fc) == [fc EXCEPT !.state = "inactive", !.slots = "unlimited"]
Budgeted(fc, ahead) ==
  [fc EXCEPT !.state = "active", !.slots = IF ahead THEN "none" ELSE "some"]

\* grd_rdp_gfx_frame_controller_unack_frame: frame f was encoded.
UnackFrame(fc, f, ahead) ==
  LET th == Threshold(fc.delay)
      logged == [fc EXCEPT !.tracked = @ \cup {f}, !.acked = Recent(@)]
      raised == [logged EXCEPT !.threshold = th]
  IN
  CASE fc.state = "inactive" /\ Pending(logged) < th  -> raised
    [] fc.state = "inactive" /\ Pending(logged) >= th -> Suspended(raised, "active")
    [] fc.state = "active" /\ th < fc.threshold       -> Suspended(logged, "lowering")
    [] fc.state = "active" /\ th >= fc.threshold      -> Budgeted(raised, ahead)
    [] fc.state = "lowering"                          -> logged

\* grd_rdp_gfx_frame_log_ack_tracked_frame: only a tracked frame is logged.
AckTracked(fc, f) ==
  [fc EXCEPT
     !.tracked = @ \ {f},
     !.acked = Recent(IF f \in fc.tracked THEN Append(@, [id |-> f, old |-> FALSE])
                                          ELSE @)]

\* Mutant: lowering the latency never ends in the throttled state.
AckFrame_StaysLowering(fc, f, ahead) ==
  LET th == Threshold(fc.delay)
      logged == AckTracked(fc, f)
      n == Pending(logged)
  IN
  CASE fc.state = "inactive" -> logged
    [] fc.state = "active" /\ n <= DeactivateTh -> Unthrottled(logged)
    [] fc.state = "active" /\ n > DeactivateTh /\ th < fc.threshold ->
         Suspended(logged, "lowering")
    [] fc.state = "active" /\ n > DeactivateTh /\ th >= fc.threshold ->
         Budgeted([logged EXCEPT !.threshold = th], ahead)
    [] fc.state = "lowering" -> logged

\* grd_rdp_gfx_frame_controller_ack_frame: frame f was acknowledged.
AckFrame(fc, f, ahead) ==
  LET th == Threshold(fc.delay)
      logged == AckTracked(fc, f)
      n == Pending(logged)
  IN
  CASE fc.state = "inactive" -> logged
    [] fc.state = "active" /\ n <= DeactivateTh -> Unthrottled(logged)
    [] fc.state = "active" /\ n > DeactivateTh /\ th < fc.threshold ->
         Suspended(logged, "lowering")
    [] fc.state = "active" /\ n > DeactivateTh /\ th >= fc.threshold ->
         Budgeted([logged EXCEPT !.threshold = th], ahead)
    [] fc.state = "lowering" /\ n < th -> Unthrottled(logged)
    [] fc.state = "lowering" /\ n = th -> Budgeted(logged, ahead)
    [] fc.state = "lowering" /\ n > th -> logged

\* grd_rdp_gfx_frame_controller_unack_last_acked_frame, called for all of the
\* frames from the last to the first, and the notification that follows.
UnackAckedFrames(fc, frames) ==
  LET k == Cardinality(frames)
      th == Threshold(fc.delay)
      logged ==
        [fc EXCEPT !.tracked = @ \cup frames,
                   !.acked = Recent(SubSeq(@, 1, Larger(0, Len(@) - k)))]
      raised == [logged EXCEPT !.threshold = th]
  IN
  CASE k = 0 -> fc
    [] k > 0 /\ fc.state = "inactive" /\ Pending(logged) < th -> raised
    [] k > 0 /\ fc.state = "inactive" /\ Pending(logged) >= th ->
         Suspended(raised, "active")
    [] k > 0 /\ fc.state # "inactive" -> logged

\* grd_rdp_gfx_frame_controller_clear_all_unacked_frames
ClearUnacked(fc) == Unthrottled([fc EXCEPT !.tracked = {}])

\* Time passes: the first k acknowledgements of the log are a second old.
Aged(fc, k) ==
  LET log == fc.acked
  IN  [fc EXCEPT !.acked = [i \in DOMAIN log |-> [log[i] EXCEPT !.old = @ \/ i <= k]]]

================================================================================
