----------------------------- MODULE Graphics_proof -----------------------------
(***************************************************************************)
(* Proofs about Graphics: its channel (GraphicsPipeline, FrameController), *)
(* for any numbers of serials, frames, round trip times, protocol resets   *)
(* and any size of the history, and its encoding (FrameEncoding), for any  *)
(* tiles, any number of pictures and each of the codecs.                   *)
(*                                                                         *)
(* The channel: the tables of serials, frames and controllers agree, a     *)
(* surface that is throttled waits for frames whose acknowledgement        *)
(* reaches it, and what is taken back from an acknowledgement log is what  *)
(* the history says.  Everything gfx_mutex protects is one record, so the  *)
(* lemmas are about the functions of the code that change it: from what a  *)
(* function finds to what it leaves.  Handling an acknowledgement calls    *)
(* several of them one after the other, and in between only a part of the  *)
(* invariant holds (Loose): the history is gone, but acknowledging may     *)
(* still be suspended while somebody waits.                                *)
(*                                                                         *)
(* The encoding, under any interleaving of the graphics thread with those  *)
(* of the view creator and of the encode session, and with devices that    *)
(* fail: the pools suffice, what is submitted is complete, and the client  *)
(* follows the pictures that the next damage is computed from.  The        *)
(* invariant says what each stage may hold (Kinds) and which stages        *)
(* exclude each other, where render_surfaces is (Flow); what was handed to *)
(* the encode session and what came back (Submissions); who holds the      *)
(* views, the bitstreams and the local buffers (Pools, Locals); when an    *)
(* upgrade may be scheduled (Upgrades); and, as long as no device failed,  *)
(* what the client will have once all of it arrives (Follows).  One lemma  *)
(* per action shows that it keeps all of that.                             *)
(***************************************************************************)
EXTENDS Graphics, FiniteSetTheorems, SequenceTheorems, TLAPS

(* The channel: the data that its invariant speaks of. *)

Entry == [id : Frame, old : BOOLEAN]

Controller ==
  [state     : {"inactive", "active", "lowering"},
   tracked   : SUBSET Frame,
   acked     : Seq(Entry),
   threshold : 2 .. MaxDelay + 2,
   delay     : 0 .. MaxDelay,
   slots     : {"none", "some", "unlimited"}]

\* A surface that is throttled waits for at least two frames.
Throttled(c) ==
  /\ c.slots # "unlimited" <=> c.state # "inactive"
  /\ c.state # "inactive" => Pending(c) > DeactivateTh
  /\ c.state = "lowering" => c.slots = "none"

\* The shorter log is the end of the longer one.
EndOf(short, log) ==
  /\ Len(short) <= Len(log)
  /\ \A k \in 0 .. Len(short) - 1 : short[Len(short) - k] = log[Len(log) - k]

--------------------------------------------------------------------------------
(* Counting and the least of a set. *)

LEMMA LeastNat ==
  ASSUME NEW T \in SUBSET Nat, T # {}
  PROVE  \E x \in T : \A y \in T : x <= y
<1> DEFINE R == OpToRel(<, Nat)
<1>1. IsWellFoundedOn(R, Nat)
  BY NatLessThanWellFounded
<1>2. PICK x \in T : \A y \in T : ~ (<<y, x>> \in R)
  <2> HIDE DEF R
  <2> QED BY <1>1, WFMin
<1>3. ASSUME NEW y \in T
      PROVE  x <= y
  <2>1. x \in Nat /\ y \in Nat
    OBVIOUS
  <2>2. ~ (y < x)
    BY <1>2, <2>1 DEF OpToRel
  <2> QED BY <2>1, <2>2
<1> QED BY <1>3

LEMMA FramesFinite ==
  ASSUME NEW F \in SUBSET Frame
  PROVE  IsFiniteSet(F) /\ Cardinality(F) \in Nat
<1>1. MaxFrames \in Int
  BY GraphicsPipelineAssumption
<1>2. IsFiniteSet(Frame)
  BY <1>1, FS_Interval DEF Frame
<1>3. IsFiniteSet(F)
  BY <1>2, FS_Subset
<1> QED BY <1>3, FS_CardinalityType

--------------------------------------------------------------------------------
(* The controller of one surface. *)

LEMMA ThresholdRange ==
  ASSUME NEW d \in 0 .. MaxDelay
  PROVE  Threshold(d) \in 2 .. MaxDelay + 2
<1>1. MaxDelay \in Nat /\ RefreshRate \in Nat
  BY GraphicsPipelineAssumption, RefreshRateAssumption
<1> QED BY <1>1 DEF Threshold, Larger, Smaller

LEMMA RecentTail ==
  ASSUME NEW log \in Seq(Entry)
  PROVE  Recent(log) \in Seq(Entry) /\ EndOf(Recent(log), log)
<1> DEFINE young == {i \in DOMAIN log : ~log[i].old}
           first == CHOOSE i \in young : \A j \in young : i <= j
<1>1. CASE young = {}
  BY <1>1 DEF Recent, EndOf
<1>2. CASE young # {}
  <2>1. young \in SUBSET Nat
    OBVIOUS
  <2>2. \E i \in young : \A j \in young : i <= j
    <3> HIDE DEF young
    <3> QED BY <1>2, <2>1, LeastNat
  <2>3. first \in young
    <3> HIDE DEF young
    <3> QED BY <2>2
  <2>4. first \in 1 .. Len(log)
    BY <2>3
  <2>5. Recent(log) = SubSeq(log, first, Len(log))
    BY <1>2 DEF Recent
  <2> HIDE DEF first
  <2>6. SubSeq(log, first, Len(log)) \in Seq(Entry)
    BY <2>4
  <2>7. EndOf(SubSeq(log, first, Len(log)), log)
    BY <2>4 DEF EndOf
  <2> QED BY <2>5, <2>6, <2>7
<1> QED BY <1>1, <1>2

LEMMA PendingGrows ==
  ASSUME NEW F \in SUBSET Frame, NEW D \in SUBSET Frame
  PROVE  Cardinality(F \cup D) >= Cardinality(F)
<1>1. IsFiniteSet(F \cup D)
  BY FramesFinite
<1>2. F \in SUBSET (F \cup D)
  OBVIOUS
<1>3. Cardinality(F) <= Cardinality(F \cup D)
  BY <1>1, <1>2, FS_Subset
<1> QED BY <1>3, FramesFinite

LEMMA NewControllerSound ==
  /\ NewController \in Controller
  /\ Throttled(NewController)
  /\ NewController.tracked = {}
<1>1. MaxDelay \in Nat
  BY GraphicsPipelineAssumption
<1>2. <<>> \in Seq(Entry)
  OBVIOUS
<1> QED BY <1>1, <1>2 DEF NewController, Controller, Throttled

\* What every operation does to the fields that the throttling does not look at.
LEMMA UnackFrameSound ==
  ASSUME NEW c \in Controller, Throttled(c), NEW f \in Frame, NEW ahead \in BOOLEAN
  PROVE  LET d == UnackFrame(c, f, ahead)
         IN  /\ d \in Controller /\ Throttled(d)
             /\ d.tracked = c.tracked \cup {f}
             /\ d.acked = Recent(c.acked)
<1> DEFINE th == Threshold(c.delay)
           T == c.tracked \cup {f}
           A == Recent(c.acked)
           logged == [c EXCEPT !.tracked = T, !.acked = A]
           raised == [logged EXCEPT !.threshold = th]
           n == Cardinality(T)
           P(d) == /\ d \in Controller /\ Throttled(d)
                   /\ d.tracked = T /\ d.acked = A
<1>1. th \in 2 .. MaxDelay + 2
  BY ThresholdRange DEF Controller
<1>2. A \in Seq(Entry)
  BY RecentTail DEF Controller
<1>3. n \in Nat /\ n >= Cardinality(c.tracked) /\ T \in SUBSET Frame
  <2>1. c.tracked \in SUBSET Frame
    BY DEF Controller
  <2> QED BY <2>1, FramesFinite, PendingGrows
<1>4. Cardinality(c.tracked) \in Nat
  BY FramesFinite DEF Controller
<1>5. MaxDelay \in Nat
  BY GraphicsPipelineAssumption
<1>6. UnackFrame(c, f, ahead) =
        CASE c.state = "inactive" /\ n < th -> raised
          [] c.state = "inactive" /\ n >= th -> Suspended(raised, "active")
          [] c.state = "active" /\ th < c.threshold -> Suspended(logged, "lowering")
          [] c.state = "active" /\ th >= c.threshold -> Budgeted(raised, ahead)
          [] c.state = "lowering" -> logged
  BY DEF UnackFrame, Pending, Controller
<1>7. c.state \in {"inactive", "active", "lowering"} /\ c.threshold \in 2 .. MaxDelay + 2
  BY DEF Controller
<1>8. c \in Controller /\ Throttled(c)
  OBVIOUS
<1> SUFFICES P(UnackFrame(c, f, ahead))
  OBVIOUS
<1> HIDE DEF th, T, A, n
<1>9. CASE c.state = "inactive" /\ n < th
  <2>1. P(raised)
    BY <1>1, <1>2, <1>3, <1>8, <1>9 DEF Controller, Throttled
  <2>2. UnackFrame(c, f, ahead) = raised
    BY ONLY <1>6, <1>9, <1>1, <1>3, <1>5
  <2> QED BY <2>1, <2>2
<1>10. CASE c.state = "inactive" /\ n >= th
  <2>1. n > 1
    BY <1>10, <1>1, <1>3, <1>5
  <2>2. P(Suspended(raised, "active"))
    BY <1>1, <1>2, <1>3, <1>8, <2>1 DEF n, Controller, Throttled, Suspended, Pending, DeactivateTh
  <2>3. UnackFrame(c, f, ahead) = Suspended(raised, "active")
    BY ONLY <1>6, <1>10, <1>1, <1>3, <1>5
  <2> QED BY <2>2, <2>3
<1>11. ASSUME c.state # "inactive"
       PROVE  n > 1
  BY <1>11, <1>3, <1>4, <1>8 DEF Throttled, Pending, DeactivateTh
<1>12. CASE c.state = "active" /\ th < c.threshold
  <2>1. P(Suspended(logged, "lowering"))
    BY <1>2, <1>3, <1>8, <1>11, <1>12 DEF n, Controller, Throttled, Suspended, Pending, DeactivateTh
  <2>2. UnackFrame(c, f, ahead) = Suspended(logged, "lowering")
    BY ONLY <1>6, <1>12, <1>7, <1>1, <1>3, <1>5
  <2> QED BY <2>1, <2>2
<1>13. CASE c.state = "active" /\ th >= c.threshold
  <2>1. P(Budgeted(raised, ahead))
    BY <1>1, <1>2, <1>3, <1>8, <1>11, <1>13 DEF n, Controller, Throttled, Budgeted, Pending, DeactivateTh
  <2>2. UnackFrame(c, f, ahead) = Budgeted(raised, ahead)
    BY ONLY <1>6, <1>13, <1>7, <1>1, <1>3, <1>5
  <2> QED BY <2>1, <2>2
<1>14. CASE c.state = "lowering"
  <2>1. P(logged)
    BY <1>2, <1>3, <1>8, <1>11, <1>14 DEF n, Controller, Throttled, Pending, DeactivateTh
  <2>2. UnackFrame(c, f, ahead) = logged
    BY ONLY <1>6, <1>14
  <2> QED BY <2>1, <2>2
<1>15. \/ c.state = "inactive" /\ (n < th \/ n >= th)
       \/ c.state = "active" /\ (th < c.threshold \/ th >= c.threshold)
       \/ c.state = "lowering"
  BY ONLY <1>7, <1>1, <1>3, <1>5
<1> QED BY <1>9, <1>10, <1>12, <1>13, <1>14, <1>15

LEMMA AckFrameSound ==
  ASSUME NEW c \in Controller, Throttled(c), NEW f \in Frame, NEW ahead \in BOOLEAN
  PROVE  LET d == AckFrame(c, f, ahead)
             log == IF f \in c.tracked THEN Append(c.acked, [id |-> f, old |-> FALSE])
                                       ELSE c.acked
         IN  /\ d \in Controller /\ Throttled(d)
             /\ d.tracked = c.tracked \ {f}
             /\ d.acked = Recent(log) /\ log \in Seq(Entry)
<1> DEFINE th == Threshold(c.delay)
           log == IF f \in c.tracked THEN Append(c.acked, [id |-> f, old |-> FALSE])
                                     ELSE c.acked
           T == c.tracked \ {f}
           A == Recent(log)
           logged == [c EXCEPT !.tracked = T, !.acked = A]
           raised == [logged EXCEPT !.threshold = th]
           n == Cardinality(T)
           P(d) == /\ d \in Controller /\ Throttled(d)
                   /\ d.tracked = T /\ d.acked = A
<1>1. th \in 2 .. MaxDelay + 2
  BY ThresholdRange DEF Controller
<1>2. log \in Seq(Entry)
  <2>1. c.acked \in Seq(Entry) /\ [id |-> f, old |-> FALSE] \in Entry
    BY DEF Controller, Entry
  <2> QED BY <2>1
<1>3. A \in Seq(Entry)
  BY <1>2, RecentTail
<1>4. n \in Nat /\ T \in SUBSET Frame
  <2>1. c.tracked \in SUBSET Frame
    BY DEF Controller
  <2> QED BY <2>1, FramesFinite
<1>5. MaxDelay \in Nat
  BY GraphicsPipelineAssumption
<1>6. AckFrame(c, f, ahead) =
        CASE c.state = "inactive" -> logged
          [] c.state = "active" /\ n <= 1 -> Unthrottled(logged)
          [] c.state = "active" /\ n > 1 /\ th < c.threshold ->
               Suspended(logged, "lowering")
          [] c.state = "active" /\ n > 1 /\ th >= c.threshold -> Budgeted(raised, ahead)
          [] c.state = "lowering" /\ n < th -> Unthrottled(logged)
          [] c.state = "lowering" /\ n = th -> Budgeted(logged, ahead)
          [] c.state = "lowering" /\ n > th -> logged
  <2>1. AckTracked(c, f) = logged
    BY DEF AckTracked, Controller
  <2>2. Pending(logged) = n
    BY DEF Pending, Controller
  <2> HIDE DEF logged, n, th
  <2> QED BY <2>1, <2>2 DEF AckFrame, DeactivateTh, raised, th
<1>7. /\ c.state \in {"inactive", "active", "lowering"}
      /\ c.threshold \in 2 .. MaxDelay + 2
  BY DEF Controller
<1>8. c \in Controller /\ Throttled(c)
  OBVIOUS
<1> SUFFICES P(AckFrame(c, f, ahead)) /\ log \in Seq(Entry)
  OBVIOUS
<1> HIDE DEF th, log, T, A, n
<1>9. CASE c.state = "inactive"
  <2>1. P(logged)
    BY <1>3, <1>4, <1>8, <1>9 DEF Controller, Throttled
  <2>2. AckFrame(c, f, ahead) = logged
    BY ONLY <1>6, <1>9
  <2> QED BY <2>1, <2>2, <1>2
<1>10. P(Unthrottled(logged))
  BY <1>3, <1>4, <1>8 DEF Controller, Throttled, Unthrottled
<1>11. ASSUME n > 1
       PROVE  P(Suspended(logged, "lowering"))
  BY <1>3, <1>4, <1>8, <1>11 DEF n, Controller, Throttled, Suspended, Pending, DeactivateTh
<1>12. ASSUME n > 1
       PROVE  P(Budgeted(raised, ahead)) /\ P(Budgeted(logged, ahead))
  <2>1. P(Budgeted(raised, ahead))
    BY <1>1, <1>3, <1>4, <1>8, <1>12 DEF n, Controller, Throttled, Budgeted, Pending, DeactivateTh
  <2>2. P(Budgeted(logged, ahead))
    BY <1>3, <1>4, <1>8, <1>12 DEF n, Controller, Throttled, Budgeted, Pending, DeactivateTh
  <2> QED BY <2>1, <2>2
<1>13. ASSUME c.state = "lowering", n > 1
       PROVE  P(logged)
  BY <1>3, <1>4, <1>8, <1>13 DEF n, Controller, Throttled, Pending, DeactivateTh
<1>14. CASE c.state = "active"
  <2>1. \/ n <= 1 /\ AckFrame(c, f, ahead) = Unthrottled(logged)
        \/ n > 1 /\ AckFrame(c, f, ahead) = Suspended(logged, "lowering")
        \/ n > 1 /\ AckFrame(c, f, ahead) = Budgeted(raised, ahead)
    BY ONLY <1>14, <1>6, <1>7, <1>1, <1>4, <1>5
  <2> HIDE DEF P
  <2> QED BY <2>1, <1>10, <1>11, <1>12, <1>2
<1>15. CASE c.state = "lowering"
  <2>1. \/ AckFrame(c, f, ahead) = Unthrottled(logged)
        \/ n = th /\ AckFrame(c, f, ahead) = Budgeted(logged, ahead)
        \/ n > th /\ AckFrame(c, f, ahead) = logged
    BY ONLY <1>15, <1>6, <1>7, <1>1, <1>4, <1>5
  <2>2. n >= th => n > 1
    BY ONLY <1>1, <1>4, <1>5
  <2>3. n = th \/ n > th => n >= th
    BY ONLY <1>1, <1>4, <1>5
  <2> HIDE DEF P
  <2> QED BY <2>1, <2>2, <2>3, <1>10, <1>12, <1>13, <1>15, <1>2
<1> QED BY <1>7, <1>9, <1>14, <1>15

LEMMA UnackAckedSound ==
  ASSUME NEW c \in Controller, Throttled(c), NEW F \in SUBSET Frame
  PROVE  LET d == UnackAckedFrames(c, F)
         IN  d \in Controller /\ Throttled(d) /\ d.tracked = c.tracked \cup F
<1> DEFINE th == Threshold(c.delay)
           k == Cardinality(F)
           T == c.tracked \cup F
           A == Recent(SubSeq(c.acked, 1, Larger(0, Len(c.acked) - k)))
           logged == [c EXCEPT !.tracked = T, !.acked = A]
           raised == [logged EXCEPT !.threshold = th]
           n == Cardinality(T)
           P(d) == d \in Controller /\ Throttled(d) /\ d.tracked = T
<1>1. th \in 2 .. MaxDelay + 2
  BY ThresholdRange DEF Controller
<1>2. k \in Nat /\ (k = 0 => F = {})
  BY FramesFinite, FS_EmptySet
<1>3. A \in Seq(Entry)
  <2>1. c.acked \in Seq(Entry)
    BY DEF Controller
  <2>2. Larger(0, Len(c.acked) - k) \in 0 .. Len(c.acked)
    BY <1>2, <2>1 DEF Larger
  <2>3. SubSeq(c.acked, 1, Larger(0, Len(c.acked) - k)) \in Seq(Entry)
    BY <2>1, <2>2
  <2> QED BY <2>3, RecentTail
<1>4. /\ n \in Nat /\ n >= Cardinality(c.tracked) /\ Cardinality(c.tracked) \in Nat
      /\ T \in SUBSET Frame
  <2>1. c.tracked \in SUBSET Frame
    BY DEF Controller
  <2> QED BY <2>1, FramesFinite, PendingGrows
<1>5. MaxDelay \in Nat
  BY GraphicsPipelineAssumption
<1>6. UnackAckedFrames(c, F) =
        CASE k = 0 -> c
          [] k > 0 /\ c.state = "inactive" /\ n < th -> raised
          [] k > 0 /\ c.state = "inactive" /\ n >= th -> Suspended(raised, "active")
          [] k > 0 /\ c.state # "inactive" -> logged
  BY DEF UnackAckedFrames, Pending, Controller
<1>7. c \in Controller /\ Throttled(c)
  OBVIOUS
<1> SUFFICES P(UnackAckedFrames(c, F))
  OBVIOUS
<1>8. CASE k = 0
  <2>1. UnackAckedFrames(c, F) = c
    BY ONLY <1>6, <1>8
  <2>2. T = c.tracked
    BY <1>2, <1>8
  <2> QED BY <2>1, <2>2, <1>7
<1> HIDE DEF th, T, A, n, k
<1>9. CASE k > 0 /\ c.state = "inactive" /\ n < th
  <2>1. P(raised)
    BY <1>1, <1>3, <1>4, <1>7, <1>9 DEF Controller, Throttled
  <2>2. UnackAckedFrames(c, F) = raised
    BY ONLY <1>6, <1>9, <1>1, <1>2, <1>4, <1>5
  <2> QED BY <2>1, <2>2
<1>10. CASE k > 0 /\ c.state = "inactive" /\ n >= th
  <2>1. n > 1
    BY <1>10, <1>1, <1>4, <1>5
  <2>2. P(Suspended(raised, "active"))
    BY <1>1, <1>3, <1>4, <1>7, <2>1
       DEF n, Controller, Throttled, Suspended, Pending, DeactivateTh
  <2>3. UnackAckedFrames(c, F) = Suspended(raised, "active")
    BY ONLY <1>6, <1>10, <1>1, <1>2, <1>4, <1>5
  <2> QED BY <2>2, <2>3
<1>11. CASE k > 0 /\ c.state # "inactive"
  <2>1. n > 1
    BY <1>11, <1>4, <1>7 DEF Throttled, Pending, DeactivateTh
  <2>2. P(logged)
    BY <1>3, <1>4, <1>7, <1>11, <2>1
       DEF n, Controller, Throttled, Pending, DeactivateTh
  <2>3. UnackAckedFrames(c, F) = logged
    BY ONLY <1>6, <1>11, <1>2
  <2> QED BY <2>2, <2>3
<1>12. k = 0 \/ (k > 0 /\ (c.state = "inactive" => n < th \/ n >= th))
  BY ONLY <1>1, <1>2, <1>4, <1>5
<1> QED BY <1>8, <1>9, <1>10, <1>11, <1>12

LEMMA ClearUnackedSound ==
  ASSUME NEW c \in Controller
  PROVE  LET d == ClearUnacked(c)
         IN  d \in Controller /\ Throttled(d) /\ d.tracked = {} /\ d.acked = c.acked
<1>1. {} \in SUBSET Frame
  OBVIOUS
<1> QED BY <1>1 DEF ClearUnacked, Unthrottled, Controller, Throttled

LEMMA DelaySound ==
  ASSUME NEW c \in Controller, Throttled(c), NEW d \in 0 .. MaxDelay
  PROVE  /\ [c EXCEPT !.delay = d] \in Controller
         /\ Throttled([c EXCEPT !.delay = d])
         /\ [c EXCEPT !.delay = d].tracked = c.tracked
         /\ [c EXCEPT !.delay = d].acked = c.acked
BY DEF Controller, Throttled, Pending

\* The ages of a log do not matter for what it lists.
SameIds(a, b) == Len(a) = Len(b) /\ \A i \in DOMAIN b : a[i].id = b[i].id

LEMMA AgedSound ==
  ASSUME NEW c \in Controller, Throttled(c), NEW k \in Nat
  PROVE  LET d == Aged(c, k)
         IN  /\ d \in Controller /\ Throttled(d)
             /\ d.tracked = c.tracked
             /\ SameIds(d.acked, c.acked)
<1> DEFINE log == c.acked
           older(i) == [log[i] EXCEPT !.old = @ \/ i <= k]
           aged == [i \in DOMAIN log |-> older(i)]
<1>1. log \in Seq(Entry)
  BY DEF Controller
<1>2. Aged(c, k) = [c EXCEPT !.acked = aged]
  BY DEF Aged
<1>3. ASSUME NEW i \in DOMAIN log
      PROVE  older(i) \in Entry /\ older(i).id = log[i].id
  <2>1. log[i] \in Entry
    BY <1>1
  <2>2. (log[i].old \/ i <= k) \in BOOLEAN
    OBVIOUS
  <2> QED BY <2>1, <2>2 DEF Entry
<1> HIDE DEF older
<1>4. aged \in [1 .. Len(log) -> Entry] /\ Len(log) \in Nat
  BY <1>1, <1>3
<1>5. aged \in Seq(Entry) /\ Len(aged) = Len(log)
  <2> HIDE DEF aged, log
  <2> QED BY <1>4
<1>6. SameIds(aged, c.acked)
  BY <1>3, <1>5 DEF SameIds
<1> HIDE DEF aged
<1>7. [c EXCEPT !.acked = aged].acked = aged
  BY DEF Controller
<1> QED BY <1>2, <1>5, <1>6, <1>7 DEF Controller, Throttled, Pending

Sent == [id : Frame, serial : Serial]

\* HistoryMatchesAckLog, of one surface.
Matches(history, s, log) ==
  \A i \in DOMAIN history :
    LET k == Cardinality(Later(history, i))
    IN  history[i].serial = s /\ k < Len(log) => log[Len(log) - k].id = history[i].id

LEMMA LaterFinite ==
  ASSUME NEW h \in Seq(Sent), NEW i
  PROVE  IsFiniteSet(Later(h, i)) /\ Cardinality(Later(h, i)) \in Nat
<1>1. IsFiniteSet(1 .. Len(h))
  BY FS_Interval
<1>2. Later(h, i) \in SUBSET (1 .. Len(h))
  BY DEF Later
<1>3. IsFiniteSet(Later(h, i))
  BY <1>1, <1>2, FS_Subset
<1> QED BY <1>3, FS_CardinalityType

LEMMA EndMatches ==
  ASSUME NEW h \in Seq(Sent), NEW s, NEW log \in Seq(Entry), NEW short \in Seq(Entry),
         Matches(h, s, log), EndOf(short, log)
  PROVE  Matches(h, s, short)
<1> SUFFICES ASSUME NEW i \in DOMAIN h, h[i].serial = s,
                    Cardinality(Later(h, i)) < Len(short)
             PROVE  short[Len(short) - Cardinality(Later(h, i))].id = h[i].id
  BY DEF Matches
<1> DEFINE k == Cardinality(Later(h, i))
<1>1. k \in Nat
  BY LaterFinite
<1>2. k < Len(short)
  OBVIOUS
<1>3. k < Len(log) => log[Len(log) - k].id = h[i].id
  BY DEF Matches
<1> HIDE DEF k
<1>4. k < Len(log) /\ short[Len(short) - k] = log[Len(log) - k]
  BY <1>1, <1>2 DEF EndOf
<1>5. short[Len(short) - k].id = h[i].id
  BY <1>3, <1>4
<1> QED BY <1>5 DEF k

LEMMA SameMatches ==
  ASSUME NEW h \in Seq(Sent), NEW s, NEW log \in Seq(Entry), NEW aged \in Seq(Entry),
         Matches(h, s, log), SameIds(aged, log)
  PROVE  Matches(h, s, aged)
<1> SUFFICES ASSUME NEW i \in DOMAIN h, h[i].serial = s,
                    Cardinality(Later(h, i)) < Len(aged)
             PROVE  aged[Len(aged) - Cardinality(Later(h, i))].id = h[i].id
  BY DEF Matches
<1> DEFINE k == Cardinality(Later(h, i))
<1>1. k \in Nat /\ k < Len(aged)
  BY LaterFinite
<1>2. k < Len(log) => log[Len(log) - k].id = h[i].id
  BY DEF Matches
<1> HIDE DEF k
<1>3. Len(aged) = Len(log) /\ Len(log) - k \in DOMAIN log
  BY <1>1 DEF SameIds
<1>4. aged[Len(aged) - k].id = h[i].id
  BY <1>1, <1>2, <1>3 DEF SameIds
<1> QED BY <1>4 DEF k

\* The last entry of the history is the last one of its surface's log.
LEMMA PushMatches ==
  ASSUME NEW h \in Seq(Sent), NEW e \in Sent, NEW s, NEW log \in Seq(Entry),
         NEW a \in Entry, a.id = e.id, Matches(h, s, log)
  PROVE  Matches(Append(h, e), s, IF e.serial = s THEN Append(log, a) ELSE log)
<1> DEFINE g == Append(h, e)
           new == IF e.serial = s THEN Append(log, a) ELSE log
           k(i) == Cardinality(Later(h, i))
<1>1. g \in Seq(Sent) /\ Len(g) = Len(h) + 1 /\ g[Len(g)] = e
      /\ \A i \in 1 .. Len(h) : g[i] = h[i]
  OBVIOUS
<1>2. new \in Seq(Entry)
  OBVIOUS
<1> SUFFICES ASSUME NEW i \in DOMAIN g, g[i].serial = s, Cardinality(Later(g, i)) < Len(new)
             PROVE  new[Len(new) - Cardinality(Later(g, i))].id = g[i].id
  BY DEF Matches
<1>3. CASE i = Len(g)
  <2>1. Later(g, i) = {}
    BY <1>1, <1>3 DEF Later
  <2>2. Cardinality(Later(g, i)) = 0
    BY <2>1, FS_EmptySet
  <2>3. e.serial = s /\ g[i].id = a.id
    BY <1>1, <1>3
  <2>4. Len(new) = Len(log) + 1 /\ new[Len(new)] = a
    BY <2>3
  <2> HIDE DEF new, g
  <2> QED BY <1>2, <2>2, <2>3, <2>4
<1>4. CASE i # Len(g)
  <2>1. i \in 1 .. Len(h) /\ g[i] = h[i] /\ h[i].serial = s
    BY <1>1, <1>4
  <2>2. k(i) \in Nat /\ IsFiniteSet(Later(h, i))
    BY LaterFinite
  <2>3. k(i) < Len(log) => log[Len(log) - k(i)].id = h[i].id
    BY <2>1 DEF Matches
  <2>4. CASE e.serial = s
    <3>1. Later(g, i) = Later(h, i) \cup {Len(h) + 1}
      BY <1>1, <2>1, <2>4 DEF Later
    <3>2. Len(h) + 1 \notin Later(h, i)
      BY DEF Later
    <3>3. Cardinality(Later(g, i)) = k(i) + 1
      BY <2>2, <3>1, <3>2, FS_AddElement
    <3>4. new = Append(log, a) /\ Len(new) = Len(log) + 1
      BY <2>4
    <3> HIDE DEF new, g, k
    <3>5. k(i) < Len(log)
      BY <2>2, <3>3, <3>4
    <3>6. Len(new) - Cardinality(Later(g, i)) = Len(log) - k(i)
      BY <2>2, <3>3, <3>4
    <3>7. new[Len(log) - k(i)] = log[Len(log) - k(i)]
      BY <2>2, <3>4, <3>5
    <3> QED BY <2>1, <2>3, <3>5, <3>6, <3>7
  <2>5. CASE e.serial # s
    <3>1. Later(g, i) = Later(h, i)
      BY <1>1, <2>1, <2>5 DEF Later
    <3>2. new = log
      BY <2>5
    <3> QED BY <2>1, <2>3, <3>1, <3>2
  <2> QED BY <2>4, <2>5
<1> QED BY <1>3, <1>4

\* The oldest entries do not matter.
LEMMA DropMatches ==
  ASSUME NEW h \in Seq(Sent), NEW n \in 0 .. Len(h), NEW s, NEW log \in Seq(Entry),
         Matches(h, s, log)
  PROVE  Matches(SubSeq(h, n + 1, Len(h)), s, log)
<1> DEFINE g == SubSeq(h, n + 1, Len(h))
<1>1. g \in Seq(Sent) /\ Len(g) = Len(h) - n /\ \A i \in 1 .. Len(g) : g[i] = h[i + n]
  OBVIOUS
<1> HIDE DEF g
<1> SUFFICES ASSUME NEW i \in DOMAIN g, g[i].serial = s, Cardinality(Later(g, i)) < Len(log)
             PROVE  log[Len(log) - Cardinality(Later(g, i))].id = g[i].id
  BY DEF Matches, g
<1>2. i \in 1 .. Len(g) /\ i + n \in 1 .. Len(h) /\ g[i] = h[i + n]
  BY <1>1
<1> DEFINE shift == [j \in Later(g, i) |-> j + n]
<1>3. ASSUME NEW j \in Later(g, i)
      PROVE  j + n \in Later(h, i + n)
  BY <1>1, <1>2 DEF Later
<1>4. ASSUME NEW j \in Later(h, i + n)
      PROVE  j - n \in Later(g, i) /\ (j - n) + n = j
  <2>1. j \in 1 .. Len(h) /\ j > i + n /\ h[j].serial = h[i + n].serial
    BY DEF Later
  <2>2. j - n \in 1 .. Len(g) /\ j - n > i /\ (j - n) + n = j
    BY <1>1, <1>2, <2>1
  <2>3. g[j - n] = h[j]
    BY <1>1, <2>2
  <2> QED BY <1>1, <1>2, <2>1, <2>2, <2>3 DEF Later
<1>5. \A j \in Later(g, i) : j \in Int
  BY <1>1 DEF Later
<1>6. shift \in [Later(g, i) -> Later(h, i + n)]
  BY <1>3
<1>7. \A j1, j2 \in Later(g, i) : shift[j1] = shift[j2] => j1 = j2
  BY <1>5
<1>8. \A j \in Later(h, i + n) : shift[j - n] = j /\ j - n \in Later(g, i)
  BY <1>4
<1> HIDE DEF shift
<1>9. shift \in Bijection(Later(g, i), Later(h, i + n))
  BY <1>6, <1>7, <1>8 DEF Bijection, Injection, Surjection, IsInjective
<1>10. Cardinality(Later(g, i)) = Cardinality(Later(h, i + n))
  <2>1. IsFiniteSet(Later(g, i))
    BY <1>1, LaterFinite
  <2>2. ExistsBijection(Later(g, i), Later(h, i + n))
    BY <1>9 DEF ExistsBijection
  <2> QED BY <2>1, <2>2, FS_Bijection
<1> QED BY <1>2, <1>10 DEF Matches

Tables == UNION {[F -> Serial] : F \in SUBSET Frame}

Gfx ==
  [live        : SUBSET Serial,
   serials     : SUBSET Serial,
   refs        : [Serial -> Nat],
   ctl         : [Serial -> Controller],
   frameSerial : Tables,
   encoded     : Seq(Sent),
   suspended   : BOOLEAN,
   total       : Nat]

\* SerialTableExact, of any state of what gfx_mutex protects.
TableExact(g) ==
  /\ \A s \in Serial : g.refs[s] = Cardinality(SerialOf(g, s))
  /\ g.serials = g.live \cup {s \in Serial : g.refs[s] > 0}

\* The history lists frames of the table, each once.
HistoryListed(g) ==
  /\ \A i \in DOMAIN g.encoded :
       /\ g.encoded[i].id \in DOMAIN g.frameSerial
       /\ g.frameSerial[g.encoded[i].id] = g.encoded[i].serial
  /\ \A i, j \in DOMAIN g.encoded : g.encoded[i].id = g.encoded[j].id => i = j

\* What the operations below do to the frame table leaves alone.
SameSurfaces(g, h) ==
  /\ h.live = g.live /\ h.ctl = g.ctl
  /\ h.suspended = g.suspended /\ h.total = g.total

Subtable(small, table) ==
  DOMAIN small \subseteq DOMAIN table /\ \A f \in DOMAIN small : small[f] = table[f]

LEMMA SerialsFinite ==
  ASSUME NEW g \in Gfx, NEW s
  PROVE  /\ DOMAIN g.frameSerial \in SUBSET Frame
         /\ \A f \in DOMAIN g.frameSerial : g.frameSerial[f] \in Serial
         /\ SerialOf(g, s) \in SUBSET Frame
         /\ IsFiniteSet(SerialOf(g, s)) /\ Cardinality(SerialOf(g, s)) \in Nat
<1>1. PICK F \in SUBSET Frame : g.frameSerial \in [F -> Serial]
  BY DEF Gfx, Tables
<1>2. SerialOf(g, s) \in SUBSET Frame
  BY <1>1 DEF SerialOf
<1> QED BY <1>1, <1>2, FramesFinite

LEMMA WithoutTable ==
  ASSUME NEW t \in Tables, NEW S
  PROVE  Without(t, S) \in Tables /\ Subtable(Without(t, S), t) /\ DOMAIN Without(t, S) = DOMAIN t \ S
<1>1. PICK F \in SUBSET Frame : t \in [F -> Serial]
  BY DEF Tables
<1>2. F \ S \in SUBSET Frame /\ Without(t, S) \in [F \ S -> Serial]
  BY <1>1 DEF Without
<1>3. Without(t, S) \in Tables
  BY <1>2 DEF Tables
<1> QED BY <1>1, <1>3 DEF Without, Subtable

\* What leaves the frame table gives its references back, and an entry of a surface that is
\* gone leaves with the last of them.
LEMMA Release ==
  ASSUME NEW g \in Gfx, TableExact(g), NEW S \in SUBSET DOMAIN g.frameSerial,
         NEW k \in Gfx, k.frameSerial = Without(g.frameSerial, S), k.refs = g.refs,
         k.serials = g.serials, k.live = g.live,
         NEW count, count = [s \in Serial |-> Cardinality({f \in S : g.frameSerial[f] = s})]
  PROVE  LET h == SerialUnref(k, count)
         IN  /\ h \in Gfx /\ TableExact(h) /\ SameSurfaces(k, h)
             /\ h.frameSerial = k.frameSerial /\ h.encoded = k.encoded
<1> DEFINE refs == [s \in Serial |-> k.refs[s] - count[s]]
           gone == {s \in Serial : count[s] > 0 /\ s \notin k.live /\ refs[s] = 0}
           h == [k EXCEPT !.refs = refs, !.serials = @ \ gone]
<1>1. SerialUnref(k, count) = h
  BY DEF SerialUnref
<1>2. ASSUME NEW s \in Serial
      PROVE  /\ count[s] \in Nat /\ refs[s] \in Nat
             /\ refs[s] = Cardinality(SerialOf(k, s))
             /\ g.refs[s] = refs[s] + count[s]
  <2>1. IsFiniteSet(SerialOf(g, s)) /\ Cardinality(SerialOf(g, s)) \in Nat
    BY SerialsFinite
  <2>2. g.refs[s] = Cardinality(SerialOf(g, s))
    BY DEF TableExact
  <2>3. SerialOf(k, s) = SerialOf(g, s) \ S
    BY DEF SerialOf, Without
  <2>4. {f \in S : g.frameSerial[f] = s} = SerialOf(g, s) \cap S
    BY DEF SerialOf
  <2>5. Cardinality(SerialOf(g, s) \ S) =
        Cardinality(SerialOf(g, s)) - Cardinality(SerialOf(g, s) \cap S)
    BY <2>1, FS_Difference
  <2>6. Cardinality(SerialOf(k, s)) \in Nat
    BY SerialsFinite
  <2>7. IsFiniteSet(SerialOf(g, s) \cap S)
    BY <2>1, FS_Intersection
  <2>8. count[s] = Cardinality(SerialOf(g, s) \cap S)
    BY <2>4
  <2>9. count[s] \in Nat
    BY <2>7, <2>8, FS_CardinalityType
  <2>10. refs[s] = g.refs[s] - count[s]
    OBVIOUS
  <2> HIDE DEF refs
  <2> QED BY <2>1, <2>2, <2>3, <2>5, <2>6, <2>8, <2>9, <2>10
<1> HIDE DEF refs
<1>3. refs \in [Serial -> Nat]
  BY <1>2 DEF refs
<1>4. k.serials \ gone \in SUBSET Serial
  BY DEF Gfx
<1>5. k.serials \ gone = k.live \cup {s \in Serial : refs[s] > 0}
  <2>1. k.live \in SUBSET Serial
    BY DEF Gfx
  <2>2. k.serials = k.live \cup {s \in Serial : g.refs[s] > 0}
    BY DEF TableExact
  <2>3. ASSUME NEW s \in Serial
        PROVE  s \in k.serials \ gone <=> s \in k.live \/ refs[s] > 0
    <3>1. g.refs[s] > 0 <=> refs[s] > 0 \/ count[s] > 0
      BY <1>2
    <3>2. refs[s] > 0 <=> refs[s] # 0
      <4>1. refs[s] \in Nat
        BY ONLY <1>2
      <4> QED BY ONLY <4>1
    <3>3. s \in gone <=> count[s] > 0 /\ s \notin k.live /\ refs[s] = 0
      OBVIOUS
    <3> HIDE DEF gone
    <3> QED BY ONLY <2>2, <3>1, <3>2, <3>3, <2>1
  <2> QED BY <1>4, <2>1, <2>3
<1> HIDE DEF gone
<1>6. /\ h.refs = refs /\ h.serials = k.serials \ gone
      /\ h.live = k.live /\ h.ctl = k.ctl /\ h.frameSerial = k.frameSerial
      /\ h.encoded = k.encoded /\ h.suspended = k.suspended /\ h.total = k.total
  BY DEF Gfx
<1>7. h \in Gfx
  BY <1>3, <1>4 DEF Gfx
<1> HIDE DEF h
<1>8. \A s \in Serial : SerialOf(h, s) = SerialOf(k, s)
  BY <1>6 DEF SerialOf
<1>9. TableExact(h)
  BY <1>2, <1>5, <1>6, <1>8 DEF TableExact
<1> QED BY <1>1, <1>6, <1>7, <1>9 DEF SameSurfaces

Reduces(g, h, max) ==
  /\ h \in Gfx /\ TableExact(h) /\ HistoryListed(h) /\ SameSurfaces(g, h)
  /\ Len(h.encoded) <= max
  /\ \E n \in 0 .. Len(g.encoded) : h.encoded = SubSeq(g.encoded, n + 1, Len(g.encoded))
  /\ Subtable(h.frameSerial, g.frameSerial)
  /\ \A f \in DOMAIN g.frameSerial \ DOMAIN h.frameSerial :
       \E i \in DOMAIN g.encoded : f = g.encoded[i].id

LEMMA ReduceTrackedSound ==
  ASSUME NEW g \in Gfx, TableExact(g), HistoryListed(g), NEW max \in Nat
  PROVE  Reduces(g, ReduceTracked(g, max), max)
<1> DEFINE n == Larger(0, Len(g.encoded) - max)
           freed == SubSeq(g.encoded, 1, n)
           kept == SubSeq(g.encoded, n + 1, Len(g.encoded))
           ids == {freed[i].id : i \in 1 .. n}
           ofSerial(s) == {i \in 1 .. n : freed[i].serial = s}
           count == [s \in Serial |-> Cardinality(ofSerial(s))]
           k == [g EXCEPT !.encoded = kept, !.frameSerial = Without(@, ids)]
           h == SerialUnref(k, count)
<1>1. ReduceTracked(g, max) = h
  BY DEF ReduceTracked
<1>2. g.encoded \in Seq(Sent) /\ g.frameSerial \in Tables
  BY DEF Gfx
<1>3. n \in 0 .. Len(g.encoded) /\ Len(g.encoded) - n <= max
  BY <1>2 DEF Larger
<1> HIDE DEF n
<1>4. /\ \A i \in 1 .. n : freed[i] = g.encoded[i]
      /\ kept \in Seq(Sent) /\ Len(kept) = Len(g.encoded) - n
      /\ \A i \in 1 .. Len(kept) : kept[i] = g.encoded[i + n]
  BY <1>2, <1>3
<1> HIDE DEF freed, kept
<1>5. \A i \in 1 .. n : i \in DOMAIN g.encoded
  BY <1>2, <1>3
<1>6. ids \in SUBSET DOMAIN g.frameSerial
  BY <1>4, <1>5 DEF HistoryListed
<1>7. ASSUME NEW s \in Serial
      PROVE  Cardinality(ofSerial(s)) = Cardinality({f \in ids : g.frameSerial[f] = s})
  <2> DEFINE T == {f \in ids : g.frameSerial[f] = s}
             name == [i \in ofSerial(s) |-> freed[i].id]
  <2>1. \A i \in 1 .. n : g.frameSerial[freed[i].id] = freed[i].serial
    BY <1>4, <1>5 DEF HistoryListed
  <2>2. name \in [ofSerial(s) -> T]
    BY <2>1
  <2>3. \A i, j \in ofSerial(s) : name[i] = name[j] => i = j
    BY <1>4, <1>5 DEF HistoryListed
  <2>4. \A f \in T : \E i \in ofSerial(s) : name[i] = f
    BY <2>1
  <2>5. IsFiniteSet(ofSerial(s))
    <3>1. IsFiniteSet(1 .. n)
      BY <1>3, FS_Interval
    <3>2. ofSerial(s) \in SUBSET (1 .. n)
      OBVIOUS
    <3> HIDE DEF ofSerial
    <3> QED BY <3>1, <3>2, FS_Subset
  <2> HIDE DEF name, T, ofSerial
  <2>6. name \in Bijection(ofSerial(s), T)
    BY <2>2, <2>3, <2>4 DEF Bijection, Injection, Surjection, IsInjective
  <2>7. Cardinality(T) = Cardinality(ofSerial(s))
    BY <2>5, <2>6, FS_Bijection DEF ExistsBijection
  <2> QED BY <2>7 DEF T
<1>8. count = [s \in Serial |-> Cardinality({f \in ids : g.frameSerial[f] = s})]
  <2> HIDE DEF ids, ofSerial
  <2> QED BY <1>7
<1>9. /\ Without(g.frameSerial, ids) \in Tables
      /\ Subtable(Without(g.frameSerial, ids), g.frameSerial)
      /\ DOMAIN Without(g.frameSerial, ids) = DOMAIN g.frameSerial \ ids
  BY <1>2, WithoutTable
<1>10. /\ k \in Gfx /\ k.encoded = kept /\ k.frameSerial = Without(g.frameSerial, ids)
       /\ k.refs = g.refs /\ k.serials = g.serials /\ k.live = g.live /\ k.ctl = g.ctl
       /\ k.suspended = g.suspended /\ k.total = g.total
  BY <1>4, <1>9 DEF Gfx
<1>11. \A f \in ids : \E i \in DOMAIN g.encoded : f = g.encoded[i].id
  BY <1>4, <1>5
<1>12. \A i \in DOMAIN kept : kept[i].id \notin ids
  <2> SUFFICES ASSUME NEW i \in DOMAIN kept, NEW j \in 1 .. n, kept[i].id = freed[j].id
               PROVE  FALSE
    OBVIOUS
  <2>1. kept[i] = g.encoded[i + n] /\ i + n \in DOMAIN g.encoded /\ i + n > n
    <3>1. i \in 1 .. Len(kept)
      BY <1>4
    <3>2. i + n \in 1 .. Len(g.encoded) /\ i + n > n
      BY <3>1, <1>2, <1>3, <1>4
    <3> QED BY <1>2, <1>4, <3>1, <3>2
  <2>2. freed[j] = g.encoded[j] /\ j \in DOMAIN g.encoded /\ j <= n
    BY <1>4, <1>5
  <2>3. i + n = j
    BY <2>1, <2>2 DEF HistoryListed
  <2> QED BY <1>3, <2>1, <2>2, <2>3
<1> HIDE DEF k, count, ids
<1>13. /\ h \in Gfx /\ TableExact(h) /\ SameSurfaces(k, h)
       /\ h.frameSerial = k.frameSerial /\ h.encoded = k.encoded
  BY <1>6, <1>8, <1>10, Release
<1> HIDE DEF h
<1>14. HistoryListed(h)
  <2>1. ASSUME NEW i \in DOMAIN kept
        PROVE  /\ kept[i].id \in DOMAIN h.frameSerial
               /\ h.frameSerial[kept[i].id] = kept[i].serial
    <3>1. kept[i] = g.encoded[i + n] /\ i + n \in DOMAIN g.encoded
      BY <1>2, <1>3, <1>4
    <3>2. kept[i].id \in DOMAIN g.frameSerial /\ g.frameSerial[kept[i].id] = kept[i].serial
      BY <3>1 DEF HistoryListed
    <3> QED BY <3>2, <1>9, <1>10, <1>12, <1>13 DEF Subtable
  <2>2. ASSUME NEW i \in DOMAIN kept, NEW j \in DOMAIN kept, kept[i].id = kept[j].id
        PROVE  i = j
    <3>1. i \in Nat /\ j \in Nat /\ i + n \in DOMAIN g.encoded /\ j + n \in DOMAIN g.encoded
      BY <1>2, <1>3, <1>4
    <3>2. kept[i] = g.encoded[i + n] /\ kept[j] = g.encoded[j + n]
      BY <1>4
    <3>3. i + n = j + n
      BY <2>2, <3>1, <3>2 DEF HistoryListed
    <3> QED BY <1>3, <3>1, <3>3
  <2>3. h.encoded = kept
    BY <1>10, <1>13
  <2> QED BY <2>1, <2>2, <2>3 DEF HistoryListed
<1>15. SameSurfaces(g, h)
  BY <1>10, <1>13 DEF SameSurfaces
<1>16. /\ Len(h.encoded) <= max
       /\ h.encoded = SubSeq(g.encoded, n + 1, Len(g.encoded))
  BY <1>3, <1>4, <1>10, <1>13 DEF kept
<1>17. /\ Subtable(h.frameSerial, g.frameSerial)
       /\ \A f \in DOMAIN g.frameSerial \ DOMAIN h.frameSerial :
            \E i \in DOMAIN g.encoded : f = g.encoded[i].id
  BY <1>9, <1>10, <1>11, <1>13
<1> QED BY <1>1, <1>3, <1>13, <1>14, <1>15, <1>16, <1>17 DEF Reduces

\* A surface that is gone has a new controller; the others are throttled only while they wait
\* for frames of the table.
ControllersSound(g) ==
  /\ \A s \in Serial \ g.live : g.ctl[s] = NewController
  /\ \A s \in Serial : Throttled(g.ctl[s])
  /\ \A s \in Serial : g.ctl[s].tracked \subseteq SerialOf(g, s)

\* What holds also between the steps that make up the handling of an acknowledgement.
Loose(g) == g \in Gfx /\ TableExact(g) /\ HistoryListed(g) /\ ControllersSound(g)

\* Frames are acknowledged on the client's behalf only while it suspended acknowledging, and
\* then nobody waits for a frame.
Quiet(g) ==
  /\ g.encoded # <<>> => g.suspended
  /\ g.suspended => \A s \in Serial : g.ctl[s].tracked = {}

HistorySound(g) ==
  /\ Len(g.encoded) <= MaxTracked
  /\ \A s \in g.live : Matches(g.encoded, s, g.ctl[s].acked)

\* The frames and the number of frames so far; the next one is frame n.
Numbered(g, n) == g.total < n /\ \A f \in DOMAIN g.frameSerial : f < n

Sound(g, n) == Loose(g) /\ Quiet(g) /\ HistorySound(g) /\ Numbered(g, n)

LEMMA EmptyTable ==
  ASSUME NEW t \in Tables
  PROVE  /\ <<>> \in Tables /\ Without(t, DOMAIN t) = <<>>
         /\ DOMAIN t = {} => t = <<>>
<1>1. PICK F \in SUBSET Frame : t \in [F -> Serial]
  BY DEF Tables
<1>2. \A u : u \in [{} -> Serial] <=> u = <<>>
  <2>1. <<>> \in [{} -> Serial]
    OBVIOUS
  <2>2. ASSUME NEW u \in [{} -> Serial]
        PROVE  u = <<>>
    BY <2>1
  <2> QED BY <2>1, <2>2
<1>3. <<>> \in Tables
  BY <1>2 DEF Tables
<1>4. Without(t, DOMAIN t) \in [{} -> Serial]
  BY DEF Without
<1>5. DOMAIN t = {} => t \in [{} -> Serial]
  BY <1>1
<1> QED BY <1>2, <1>3, <1>4, <1>5

LEMMA SubtableSerials ==
  ASSUME NEW g, NEW h, NEW s, Subtable(g.frameSerial, h.frameSerial)
  PROVE  SerialOf(g, s) \subseteq SerialOf(h, s)
BY DEF SerialOf, Subtable

LEMMA ForgetFramesSound ==
  ASSUME NEW g, Loose(g)
  PROVE  LET h == ForgetFrames(g)
         IN  /\ Loose(h)
             /\ h.frameSerial = <<>> /\ h.encoded = <<>>
             /\ h.live = g.live /\ h.suspended = g.suspended /\ h.total = g.total
             /\ \A s \in Serial : h.ctl[s].tracked = {}
<1> DEFINE ctl == [s \in Serial |-> IF s \in g.live THEN ClearUnacked(g.ctl[s]) ELSE g.ctl[s]]
           idle == [g EXCEPT !.ctl = ctl]
           r == ReduceTracked(idle, 0)
           k == [r EXCEPT !.frameSerial = <<>>]
           count == [s \in Serial |-> Cardinality(SerialOf(r, s))]
           h == SerialUnref(k, count)
<1>1. ForgetFrames(g) = h
  BY DEF ForgetFrames
<1>2. g \in Gfx /\ TableExact(g) /\ HistoryListed(g) /\ ControllersSound(g)
  BY DEF Loose
<1>3. ASSUME NEW s \in Serial
      PROVE  /\ ctl[s] \in Controller /\ Throttled(ctl[s])
             /\ ctl[s].tracked = {}
             /\ s \notin g.live => ctl[s] = NewController
  <2>1. g.ctl[s] \in Controller
    BY <1>2 DEF Gfx
  <2>2. CASE s \in g.live
    BY <2>1, <2>2, ClearUnackedSound
  <2>3. CASE s \notin g.live
    <3>1. ctl[s] = NewController
      BY <1>2, <2>3 DEF ControllersSound
    <3> QED BY <2>3, <3>1, NewControllerSound
  <2> QED BY <2>2, <2>3
<1>4. ctl \in [Serial -> Controller]
  BY <1>3
<1> HIDE DEF ctl
<1>5. /\ idle \in Gfx /\ idle.ctl = ctl /\ idle.live = g.live /\ idle.serials = g.serials
      /\ idle.refs = g.refs /\ idle.frameSerial = g.frameSerial
      /\ idle.encoded = g.encoded /\ idle.suspended = g.suspended /\ idle.total = g.total
  BY <1>2, <1>4 DEF Gfx
<1> HIDE DEF idle
<1>6. TableExact(idle) /\ HistoryListed(idle)
  BY <1>2, <1>5 DEF TableExact, HistoryListed, SerialOf
<1>7. Reduces(idle, r, 0)
  BY <1>5, <1>6, ReduceTrackedSound
<1> HIDE DEF r
<1>8. /\ r \in Gfx /\ TableExact(r) /\ SameSurfaces(idle, r)
      /\ r.encoded \in Seq(Sent) /\ r.frameSerial \in Tables /\ Len(r.encoded) <= 0
  BY <1>7 DEF Reduces, Gfx
<1>9. r.encoded = <<>>
  BY <1>8
<1>10. <<>> \in Tables /\ Without(r.frameSerial, DOMAIN r.frameSerial) = <<>>
  BY <1>8, EmptyTable
<1>11. /\ k \in Gfx /\ k.frameSerial = <<>> /\ k.encoded = <<>> /\ k.refs = r.refs
       /\ k.serials = r.serials /\ k.live = r.live /\ SameSurfaces(r, k)
  BY <1>8, <1>9, <1>10 DEF Gfx, SameSurfaces
<1> HIDE DEF k
<1>12. count = [s \in Serial |-> Cardinality({f \in DOMAIN r.frameSerial : r.frameSerial[f] = s})]
  BY DEF SerialOf
<1> HIDE DEF count
<1>13. /\ h \in Gfx /\ TableExact(h) /\ SameSurfaces(k, h)
       /\ h.frameSerial = k.frameSerial /\ h.encoded = k.encoded
  BY <1>8, <1>10, <1>11, <1>12, Release
<1> HIDE DEF h
<1>14. /\ h.live = g.live /\ h.ctl = ctl /\ h.suspended = g.suspended /\ h.total = g.total
       /\ h.frameSerial = <<>> /\ h.encoded = <<>>
  BY <1>5, <1>8, <1>11, <1>13 DEF SameSurfaces
<1>15. HistoryListed(h)
  BY <1>14 DEF HistoryListed
<1>16. ControllersSound(h)
  BY <1>3, <1>14 DEF ControllersSound
<1> QED BY <1>1, <1>3, <1>13, <1>14, <1>15, <1>16 DEF Loose

LEMMA StealFrameSound ==
  ASSUME NEW g, Loose(g), g.encoded = <<>>, NEW f, NEW ahead \in BOOLEAN
  PROVE  LET h == StealFrame(g, f, ahead)
         IN  /\ Loose(h) /\ h.encoded = <<>>
             /\ h.live = g.live /\ h.suspended = g.suspended /\ h.total = g.total
             /\ DOMAIN h.frameSerial \subseteq DOMAIN g.frameSerial
             /\ f \notin DOMAIN g.frameSerial => h = g
<1>1. g \in Gfx /\ TableExact(g) /\ HistoryListed(g) /\ ControllersSound(g)
  BY DEF Loose
<1>2. CASE f \notin DOMAIN g.frameSerial
  <2>1. StealFrame(g, f, ahead) = g
    BY <1>2 DEF StealFrame
  <2> QED BY <2>1
<1>3. CASE f \in DOMAIN g.frameSerial
  <2> DEFINE s == g.frameSerial[f]
             mine == IF s \in g.live THEN AckFrame(g.ctl[s], f, ahead) ELSE g.ctl[s]
             k == [g EXCEPT !.frameSerial = Without(@, {f}), !.ctl = [@ EXCEPT ![s] = mine]]
             count == [t \in Serial |-> IF t = s THEN 1 ELSE 0]
             h == SerialUnref(k, count)
  <2>1. s \in Serial /\ f \in Frame
    BY <1>1, <1>3, SerialsFinite
  <2>2. g.ctl \in [Serial -> Controller] /\ g.frameSerial \in Tables
    BY <1>1 DEF Gfx
  <2>3. StealFrame(g, f, ahead) = h
    BY <1>3 DEF StealFrame
  <2>4. g.ctl[s] \in Controller /\ Throttled(g.ctl[s])
    BY <1>1, <2>1, <2>2 DEF ControllersSound
  <2>5. /\ mine \in Controller /\ Throttled(mine)
        /\ s \notin g.live => mine = g.ctl[s]
        /\ mine.tracked = g.ctl[s].tracked \ {f}
    <3>1. CASE s \in g.live
      <4>1. mine = AckFrame(g.ctl[s], f, ahead)
        BY <3>1
      <4> HIDE DEF mine, s
      <4> QED BY <4>1, <2>1, <2>4, <3>1, AckFrameSound
    <3>2. CASE s \notin g.live
      <4>1. mine = g.ctl[s] /\ mine = NewController
        BY <1>1, <2>1, <3>2 DEF ControllersSound
      <4> HIDE DEF mine, s
      <4> QED BY <4>1, <2>4, <3>2, NewControllerSound
    <3> QED BY <3>1, <3>2
  <2> HIDE DEF mine
  <2>6. /\ Without(g.frameSerial, {f}) \in Tables
        /\ Subtable(Without(g.frameSerial, {f}), g.frameSerial)
        /\ DOMAIN Without(g.frameSerial, {f}) = DOMAIN g.frameSerial \ {f}
    BY <2>2, WithoutTable
  <2>7. [g.ctl EXCEPT ![s] = mine] \in [Serial -> Controller]
    BY <2>2, <2>5
  <2>8. /\ k \in Gfx /\ k.frameSerial = Without(g.frameSerial, {f}) /\ k.encoded = <<>>
        /\ k.refs = g.refs /\ k.serials = g.serials /\ k.live = g.live
        /\ k.ctl = [g.ctl EXCEPT ![s] = mine]
        /\ k.suspended = g.suspended /\ k.total = g.total
    <3> HIDE DEF s
    <3> QED BY <1>1, <2>6, <2>7 DEF Gfx
  <2> HIDE DEF k
  <2>9. count = [t \in Serial |-> Cardinality({e \in {f} : g.frameSerial[e] = t})]
    <3>1. ASSUME NEW t \in Serial
          PROVE  (IF t = s THEN 1 ELSE 0) = Cardinality({e \in {f} : g.frameSerial[e] = t})
      <4>1. t = s => {e \in {f} : g.frameSerial[e] = t} = {f}
        OBVIOUS
      <4>2. t # s => {e \in {f} : g.frameSerial[e] = t} = {}
        OBVIOUS
      <4>3. Cardinality({f}) = 1 /\ Cardinality({}) = 0
        BY FS_Singleton, FS_EmptySet
      <4> HIDE DEF s
      <4> QED BY <4>1, <4>2, <4>3
    <3> QED BY <3>1
  <2> HIDE DEF count
  <2>10. {f} \in SUBSET DOMAIN g.frameSerial
    BY <1>3
  <2>11. /\ h \in Gfx /\ TableExact(h) /\ SameSurfaces(k, h)
         /\ h.frameSerial = k.frameSerial /\ h.encoded = k.encoded
    <3> HIDE DEF s
    <3>1. /\ k \in Gfx /\ k.frameSerial = Without(g.frameSerial, {f})
          /\ k.refs = g.refs /\ k.serials = g.serials /\ k.live = g.live
      BY <2>8
    <3> QED BY ONLY <1>1, <2>9, <2>10, <3>1, Release
  <2> HIDE DEF h
  <2>12. HistoryListed(h)
    BY <2>8, <2>11 DEF HistoryListed
  <2>13. ControllersSound(h)
    <3>1. h.live = g.live /\ h.ctl = [g.ctl EXCEPT ![s] = mine]
      BY <2>8, <2>11 DEF SameSurfaces
    <3>2. ASSUME NEW t \in Serial
          PROVE  /\ t \notin h.live => h.ctl[t] = NewController
                 /\ Throttled(h.ctl[t])
                 /\ h.ctl[t].tracked \subseteq SerialOf(h, t)
      <4>1. SerialOf(h, t) = SerialOf(g, t) \ {f}
        BY <2>6, <2>8, <2>11 DEF SerialOf, Subtable
      <4>2. t = s => h.ctl[t] = mine
        BY <2>2, <3>1
      <4>3. t # s => h.ctl[t] = g.ctl[t] /\ f \notin SerialOf(g, t)
        BY <2>2, <3>1 DEF SerialOf
      <4>4. /\ t \notin g.live => g.ctl[t] = NewController
            /\ Throttled(g.ctl[t]) /\ g.ctl[t].tracked \subseteq SerialOf(g, t)
        BY <1>1 DEF ControllersSound
      <4> HIDE DEF s
      <4> QED BY <2>5, <3>1, <4>1, <4>2, <4>3, <4>4
    <3> QED BY <3>2 DEF ControllersSound
  <2> QED BY <2>3, <2>6, <2>8, <2>11, <2>12, <2>13, <1>3 DEF Loose, SameSurfaces
<1> QED BY <1>2, <1>3

LEMMA RewriteHistorySound ==
  ASSUME NEW g, Loose(g), Quiet(g), NEW pending \in Int
  PROVE  LET h == RewriteHistory(g, pending)
         IN  /\ Loose(h) /\ h.encoded = <<>>
             /\ h.live = g.live /\ h.suspended = g.suspended /\ h.total = g.total
             /\ DOMAIN h.frameSerial \subseteq DOMAIN g.frameSerial
             /\ g.encoded = <<>> => h = g
<1>1. g \in Gfx /\ TableExact(g) /\ HistoryListed(g) /\ ControllersSound(g)
  BY DEF Loose
<1>2. CASE g.encoded = <<>>
  <2>1. RewriteHistory(g, pending) = g
    BY <1>2 DEF RewriteHistory
  <2> QED BY <1>2, <2>1
<1>3. CASE g.encoded # <<>>
  <2> DEFINE max == (pending + 1) % Word
             r == ReduceTracked(g, max)
             framesOf(s) ==
               {r.encoded[i].id : i \in {j \in DOMAIN r.encoded : r.encoded[j].serial = s}}
             ctl == [s \in Serial |-> IF s \in r.live
                                      THEN UnackAckedFrames(r.ctl[s], framesOf(s))
                                      ELSE r.ctl[s]]
             h == [r EXCEPT !.encoded = <<>>, !.ctl = ctl]
  <2>1. RewriteHistory(g, pending) = h
    BY <1>3 DEF RewriteHistory
  <2>2. max \in Nat
    <3>1. Word \in Nat \ {0}
      BY GraphicsPipelineAssumption
    <3> QED BY <3>1
  <2> HIDE DEF max
  <2>3. Reduces(g, r, max)
    BY <1>1, <2>2, ReduceTrackedSound
  <2> HIDE DEF r
  <2>4. /\ r \in Gfx /\ TableExact(r) /\ HistoryListed(r) /\ SameSurfaces(g, r)
        /\ DOMAIN r.frameSerial \subseteq DOMAIN g.frameSerial
        /\ r.ctl \in [Serial -> Controller]
    BY <2>3 DEF Reduces, Gfx, Subtable
  <2>5. ASSUME NEW s \in Serial
        PROVE  /\ ctl[s] \in Controller /\ Throttled(ctl[s])
               /\ ctl[s].tracked \subseteq SerialOf(r, s)
               /\ s \notin g.live => ctl[s] = NewController
    <3>1. /\ r.ctl[s] \in Controller /\ Throttled(r.ctl[s]) /\ r.ctl[s].tracked = {}
          /\ s \notin g.live => r.ctl[s] = NewController
      BY <1>1, <1>3, <2>4 DEF SameSurfaces, ControllersSound, Quiet
    <3>2. framesOf(s) \subseteq SerialOf(r, s)
      BY <2>4 DEF HistoryListed, SerialOf
    <3>3. framesOf(s) \in SUBSET Frame
      BY <2>4, <3>2, SerialsFinite
    <3> HIDE DEF framesOf
    <3>4. CASE s \in g.live
      <4>1. ctl[s] = UnackAckedFrames(r.ctl[s], framesOf(s))
        BY <2>4, <3>4 DEF SameSurfaces
      <4> HIDE DEF ctl
      <4> QED BY <3>1, <3>2, <3>3, <3>4, <4>1, UnackAckedSound
    <3>5. CASE s \notin g.live
      <4>1. ctl[s] = r.ctl[s]
        BY <2>4, <3>5 DEF SameSurfaces
      <4> HIDE DEF ctl
      <4> QED BY <3>1, <3>5, <4>1
    <3> QED BY <3>4, <3>5
  <2>6. ctl \in [Serial -> Controller]
    BY <2>5
  <2> HIDE DEF ctl
  <2>7. /\ h \in Gfx /\ h.encoded = <<>> /\ h.ctl = ctl /\ h.live = g.live
        /\ h.refs = r.refs /\ h.serials = r.serials /\ h.frameSerial = r.frameSerial
        /\ h.suspended = g.suspended /\ h.total = g.total /\ h.live = r.live
    <3>1. <<>> \in Seq(Sent)
      OBVIOUS
    <3>2. r.live = g.live /\ r.suspended = g.suspended /\ r.total = g.total
      BY <2>4 DEF SameSurfaces
    <3> QED BY <2>4, <2>6, <3>1, <3>2 DEF Gfx
  <2> HIDE DEF h
  <2>8. TableExact(h) /\ HistoryListed(h)
    BY <2>4, <2>7 DEF TableExact, HistoryListed, SerialOf
  <2>9. ControllersSound(h)
    BY <2>5, <2>7 DEF ControllersSound, SerialOf
  <2> QED BY <1>3, <2>1, <2>4, <2>7, <2>8, <2>9 DEF Loose
<1> QED BY <1>2, <1>3

\* The frame is in the table, and its surface waits for it.
Sending(g, s, n, ahead) ==
  [g EXCEPT !.ctl = [g.ctl EXCEPT ![s] = UnackFrame(g.ctl[s], n, ahead)],
            !.frameSerial = [x \in DOMAIN g.frameSerial \cup {n} |->
                               IF x = n THEN s ELSE g.frameSerial[x]],
            !.refs = [g.refs EXCEPT ![s] = g.refs[s] + 1],
            !.total = g.total + 1]

LEMMA SendingSound ==
  ASSUME NEW g, NEW n \in Frame, Sound(g, n), NEW s \in g.live, NEW ahead \in BOOLEAN
  PROVE  LET h == Sending(g, s, n, ahead)
         IN  /\ Loose(h)
             /\ h.live = g.live /\ h.suspended = g.suspended /\ h.encoded = g.encoded
             /\ h.ctl = [g.ctl EXCEPT ![s] = UnackFrame(g.ctl[s], n, ahead)]
             /\ n \in DOMAIN h.frameSerial /\ h.frameSerial[n] = s
             /\ Numbered(h, n + 1)
             /\ n \notin DOMAIN g.frameSerial
             /\ \A i \in DOMAIN g.encoded : g.encoded[i].id # n
<1> DEFINE t == [x \in DOMAIN g.frameSerial \cup {n} |-> IF x = n THEN s ELSE g.frameSerial[x]]
           mine == UnackFrame(g.ctl[s], n, ahead)
           refs == [g.refs EXCEPT ![s] = g.refs[s] + 1]
           ctl == [g.ctl EXCEPT ![s] = mine]
           h == [g EXCEPT !.ctl = ctl, !.frameSerial = t, !.refs = refs, !.total = g.total + 1]
<1>1. /\ g \in Gfx /\ TableExact(g) /\ HistoryListed(g) /\ ControllersSound(g)
      /\ Numbered(g, n)
  BY DEF Sound, Loose
<1>2. /\ g.ctl \in [Serial -> Controller] /\ g.refs \in [Serial -> Nat] /\ s \in Serial
      /\ g.total \in Nat
  BY <1>1 DEF Gfx
<1>3. Sending(g, s, n, ahead) = h
  BY DEF Sending
<1>4. n \notin DOMAIN g.frameSerial
  BY <1>1 DEF Numbered, Frame
<1>5. PICK F \in SUBSET Frame : g.frameSerial \in [F -> Serial]
  BY <1>1 DEF Gfx, Tables
<1>6. t \in Tables /\ DOMAIN t = DOMAIN g.frameSerial \cup {n} /\ t[n] = s
      /\ \A x \in DOMAIN g.frameSerial : t[x] = g.frameSerial[x]
  <2>1. F \cup {n} \in SUBSET Frame /\ t \in [F \cup {n} -> Serial]
    BY <1>2, <1>5
  <2> QED BY <2>1, <1>4 DEF Tables
<1> HIDE DEF t
<1>7. /\ mine \in Controller /\ Throttled(mine)
      /\ mine.tracked = g.ctl[s].tracked \cup {n}
  BY <1>1, <1>2, UnackFrameSound DEF ControllersSound
<1> HIDE DEF mine
<1>8. ctl \in [Serial -> Controller] /\ refs \in [Serial -> Nat] /\ g.total + 1 \in Nat
  BY <1>2, <1>7
<1> HIDE DEF refs, ctl
<1>9. /\ h \in Gfx /\ h.ctl = ctl /\ h.frameSerial = t /\ h.refs = refs
      /\ h.total = g.total + 1 /\ h.live = g.live /\ h.serials = g.serials
      /\ h.encoded = g.encoded /\ h.suspended = g.suspended
  BY <1>1, <1>6, <1>8 DEF Gfx
<1> HIDE DEF h
<1>10. ASSUME NEW u \in Serial
       PROVE  SerialOf(h, u) = IF u = s THEN SerialOf(g, u) \cup {n} ELSE SerialOf(g, u)
  BY <1>4, <1>6, <1>9 DEF SerialOf
<1>11. ASSUME NEW u \in Serial
       PROVE  /\ h.refs[u] = Cardinality(SerialOf(h, u))
              /\ u \in h.serials <=> u \in h.live \/ h.refs[u] > 0
  <2>1. /\ g.refs[u] = Cardinality(SerialOf(g, u)) /\ g.refs[u] \in Nat
        /\ u \in g.serials <=> u \in g.live \/ g.refs[u] > 0
    BY <1>1, <1>2 DEF TableExact
  <2>2. n \notin SerialOf(g, u) /\ IsFiniteSet(SerialOf(g, u))
    BY <1>1, <1>4, SerialsFinite DEF SerialOf
  <2>3. CASE u = s
    <3>1. h.refs[u] = g.refs[u] + 1
      BY <1>2, <1>9, <2>3 DEF refs
    <3>2. Cardinality(SerialOf(h, u)) = Cardinality(SerialOf(g, u)) + 1
      BY <1>10, <2>2, <2>3, FS_AddElement
    <3> QED BY <1>9, <2>1, <2>3, <3>1, <3>2
  <2>4. CASE u # s
    <3>1. h.refs[u] = g.refs[u]
      BY <1>2, <1>9, <2>4 DEF refs
    <3> QED BY <1>9, <1>10, <2>1, <2>4, <3>1
  <2> QED BY <2>3, <2>4
<1>12. TableExact(h)
  <2>1. h.live \in SUBSET Serial /\ h.serials \in SUBSET Serial
    BY <1>9 DEF Gfx
  <2>2. h.serials = h.live \cup {u \in Serial : h.refs[u] > 0}
    BY ONLY <1>11, <2>1
  <2> QED BY <1>11, <2>2 DEF TableExact
<1>13. HistoryListed(h) /\ \A i \in DOMAIN g.encoded : g.encoded[i].id # n
  BY <1>1, <1>4, <1>6, <1>9 DEF HistoryListed
<1>14. ControllersSound(h)
  <2>1. ASSUME NEW u \in Serial
        PROVE  /\ u \notin h.live => h.ctl[u] = NewController
               /\ Throttled(h.ctl[u])
               /\ h.ctl[u].tracked \subseteq SerialOf(h, u)
    <3>1. /\ u \notin g.live => g.ctl[u] = NewController
          /\ Throttled(g.ctl[u]) /\ g.ctl[u].tracked \subseteq SerialOf(g, u)
      BY <1>1 DEF ControllersSound
    <3>2. u = s => h.ctl[u] = mine
      BY <1>2, <1>9 DEF ctl
    <3>3. u # s => h.ctl[u] = g.ctl[u]
      BY <1>2, <1>9 DEF ctl
    <3> QED BY <1>7, <1>9, <1>10, <3>1, <3>2, <3>3
  <2> QED BY <2>1 DEF ControllersSound
<1>15. Numbered(h, n + 1)
  <2>1. n \in Nat /\ g.total < n /\ g.total + 1 < n + 1
    BY <1>1, <1>2 DEF Numbered, Frame
  <2>2. ASSUME NEW f \in DOMAIN t
        PROVE  f < n + 1
    <3>1. f \in Frame /\ (f = n \/ f < n)
      BY <1>1, <1>5, <1>6 DEF Numbered
    <3> QED BY <2>1, <3>1 DEF Frame
  <2> QED BY <1>9, <2>1, <2>2 DEF Numbered
<1> QED BY <1>3, <1>4, <1>6, <1>9, <1>12, <1>13, <1>14, <1>15 DEF Loose, ctl, mine

LEMMA SubmittedSound ==
  ASSUME NEW g, NEW n \in Frame, Sound(g, n), NEW s \in g.live, NEW ahead \in BOOLEAN
  PROVE  LET h == Submitted(g, s, n, ahead)
         IN  Sound(h, n + 1) /\ h.live = g.live
<1> DEFINE sent == Sending(g, s, n, ahead)
           r == ReduceTracked(sent, MaxTracked - 1)
           mine == AckFrame(r.ctl[s], n, ahead)
           e == [id |-> n, serial |-> s]
           acked == [r EXCEPT !.ctl = [r.ctl EXCEPT ![s] = mine]]
           h == [acked EXCEPT !.encoded = Append(acked.encoded, e)]
<1>1. Submitted(g, s, n, ahead) = IF g.suspended THEN h ELSE sent
  BY DEF Submitted, Sending
<1>2. /\ Loose(sent)
      /\ sent.live = g.live /\ sent.suspended = g.suspended /\ sent.encoded = g.encoded
      /\ sent.ctl = [g.ctl EXCEPT ![s] = UnackFrame(g.ctl[s], n, ahead)]
      /\ n \in DOMAIN sent.frameSerial /\ sent.frameSerial[n] = s
      /\ Numbered(sent, n + 1)
      /\ n \notin DOMAIN g.frameSerial
      /\ \A i \in DOMAIN g.encoded : g.encoded[i].id # n
  BY SendingSound
<1> HIDE DEF sent
<1>3. /\ g \in Gfx /\ HistoryListed(g) /\ ControllersSound(g) /\ Quiet(g) /\ HistorySound(g)
      /\ g.encoded \in Seq(Sent)
  BY DEF Sound, Loose, Gfx
<1>4. /\ sent \in Gfx /\ TableExact(sent) /\ HistoryListed(sent) /\ ControllersSound(sent)
  BY <1>2 DEF Loose
<1>5. s \in Serial
  BY <1>3 DEF Gfx
<1>6. CASE ~g.suspended
  <2>1. sent.encoded = <<>>
    BY <1>2, <1>3, <1>6 DEF Quiet
  <2>2. Quiet(sent) /\ HistorySound(sent)
    BY <1>2, <1>6, <2>1, GraphicsPipelineAssumption DEF Quiet, HistorySound, Matches
  <2> QED BY <1>1, <1>2, <1>6, <2>2 DEF Sound
<1>7. CASE g.suspended
  <2>1. MaxTracked - 1 \in Nat
    BY GraphicsPipelineAssumption
  <2>2. Reduces(sent, r, MaxTracked - 1)
    BY <1>4, <2>1, ReduceTrackedSound
  <2> HIDE DEF r
  <2>3. /\ r \in Gfx /\ TableExact(r) /\ HistoryListed(r)
        /\ r.live = g.live /\ r.ctl = sent.ctl /\ r.suspended = g.suspended
        /\ r.total = sent.total /\ Len(r.encoded) <= MaxTracked - 1
        /\ DOMAIN r.frameSerial \subseteq DOMAIN sent.frameSerial
        /\ r.encoded \in Seq(Sent) /\ r.ctl \in [Serial -> Controller]
    BY <1>2, <2>2 DEF Reduces, SameSurfaces, Subtable, Gfx
  <2>4. PICK k \in 0 .. Len(g.encoded) :
          r.encoded = SubSeq(g.encoded, k + 1, Len(g.encoded))
    BY <1>2, <2>2 DEF Reduces
  <2>5. n \in DOMAIN r.frameSerial /\ r.frameSerial[n] = s
    BY <1>2, <2>2 DEF Reduces, Subtable
  <2>6. ASSUME NEW t \in Serial
        PROVE  /\ g.ctl[t] \in Controller /\ Throttled(g.ctl[t]) /\ g.ctl[t].tracked = {}
               /\ t \notin g.live => g.ctl[t] = NewController
               /\ t # s => r.ctl[t] = g.ctl[t]
               /\ t = s => r.ctl[t] = UnackFrame(g.ctl[t], n, ahead)
    <3>1. g.ctl \in [Serial -> Controller]
      BY <1>3 DEF Gfx
    <3> QED BY <1>2, <1>3, <1>7, <2>3, <3>1 DEF ControllersSound, Quiet
  <2> DEFINE log == g.ctl[s].acked
             young == Recent(log)
             a == [id |-> n, old |-> FALSE]
  <2>7. /\ r.ctl[s] \in Controller /\ Throttled(r.ctl[s]) /\ r.ctl[s].tracked = {n}
        /\ r.ctl[s].acked = young
    <3>1. LET d == UnackFrame(g.ctl[s], n, ahead)
          IN  /\ d \in Controller /\ Throttled(d)
              /\ d.tracked = g.ctl[s].tracked \cup {n}
              /\ d.acked = young
      BY <1>5, <2>6, UnackFrameSound
    <3> QED BY <1>5, <2>6, <3>1
  <2>8. log \in Seq(Entry) /\ young \in Seq(Entry) /\ EndOf(young, log)
    <3>1. log \in Seq(Entry)
      BY <1>5, <2>6 DEF Controller
    <3> QED BY <3>1, RecentTail
  <2>9. /\ mine \in Controller /\ Throttled(mine) /\ mine.tracked = {}
        /\ mine.acked = Recent(Append(young, a)) /\ Append(young, a) \in Seq(Entry)
    <3>1. LET c == r.ctl[s]
              d == AckFrame(c, n, ahead)
              new == IF n \in c.tracked THEN Append(c.acked, [id |-> n, old |-> FALSE])
                                        ELSE c.acked
          IN  /\ d \in Controller /\ Throttled(d)
              /\ d.tracked = c.tracked \ {n}
              /\ d.acked = Recent(new) /\ new \in Seq(Entry)
      BY <2>7, AckFrameSound
    <3> HIDE DEF young
    <3> QED BY <2>7, <3>1
  <2> HIDE DEF mine
  <2>10. [r.ctl EXCEPT ![s] = mine] \in [Serial -> Controller]
    BY <2>3, <2>9
  <2>11. /\ acked \in Gfx /\ acked.ctl = [r.ctl EXCEPT ![s] = mine] /\ acked.encoded = r.encoded
         /\ acked.live = r.live /\ acked.refs = r.refs /\ acked.serials = r.serials
         /\ acked.frameSerial = r.frameSerial /\ acked.suspended = r.suspended
         /\ acked.total = r.total
    BY <2>3, <2>10 DEF Gfx
  <2> HIDE DEF acked
  <2>12. e \in Sent
    BY <1>5 DEF Sent
  <2>13. Append(r.encoded, e) \in Seq(Sent)
    <3> HIDE DEF e
    <3> QED BY <2>3, <2>12
  <2>14. /\ h \in Gfx /\ h.ctl = [r.ctl EXCEPT ![s] = mine] /\ h.encoded = Append(r.encoded, e)
         /\ h.live = g.live /\ h.refs = r.refs /\ h.serials = r.serials /\ h.live = r.live
         /\ h.frameSerial = r.frameSerial /\ h.suspended = g.suspended /\ h.total = sent.total
    <3> HIDE DEF e
    <3> QED BY <2>3, <2>11, <2>13 DEF Gfx
  <2> HIDE DEF h
  <2>15. TableExact(h)
    BY <2>3, <2>14 DEF TableExact, SerialOf
  <2>16. /\ Len(h.encoded) = Len(r.encoded) + 1 /\ h.encoded[Len(h.encoded)] = e
         /\ \A i \in 1 .. Len(r.encoded) : h.encoded[i] = r.encoded[i]
         /\ h.encoded # <<>>
    <3> HIDE DEF e
    <3> QED BY <2>3, <2>12, <2>14
  <2>17. \A i \in 1 .. Len(r.encoded) : r.encoded[i].id # n
    <3>1. \A i \in 1 .. Len(r.encoded) : i + k \in DOMAIN g.encoded /\ r.encoded[i] = g.encoded[i + k]
      BY <1>3, <2>3, <2>4
    <3> QED BY <1>2, <3>1
  <2>18. HistoryListed(h)
    <3>1. \A i \in DOMAIN h.encoded : i \in 1 .. Len(r.encoded) \/ i = Len(h.encoded)
      BY <2>3, <2>14, <2>16
    <3>2. e.id = n /\ e.serial = s
      OBVIOUS
    <3>3. \A i \in 1 .. Len(r.encoded) : i \in DOMAIN r.encoded
      BY <2>3
    <3> HIDE DEF e
    <3> QED BY <2>3, <2>5, <2>14, <2>16, <2>17, <3>1, <3>2, <3>3 DEF HistoryListed
  <2>19. ASSUME NEW t \in Serial
         PROVE  /\ Throttled(h.ctl[t]) /\ h.ctl[t].tracked = {}
                /\ t \notin h.live => h.ctl[t] = NewController
                /\ t = s => h.ctl[t] = mine
                /\ t # s => h.ctl[t] = g.ctl[t]
    BY <2>3, <2>6, <2>9, <2>14
  <2>20. ControllersSound(h) /\ Quiet(h)
    BY <1>7, <2>14, <2>19 DEF ControllersSound, Quiet
  <2>21. ASSUME NEW t \in h.live
         PROVE  Matches(h.encoded, t, h.ctl[t].acked)
    <3>1. t \in Serial /\ t \in g.live
      BY <2>14 DEF Gfx
    <3>2. g.ctl[t].acked \in Seq(Entry)
      BY <2>6, <3>1 DEF Controller
    <3>3. Matches(g.encoded, t, g.ctl[t].acked)
      BY <1>3, <3>1 DEF HistorySound
    <3>4. Matches(r.encoded, t, g.ctl[t].acked)
      BY <1>3, <2>4, <3>2, <3>3, DropMatches
    <3>5. a \in Entry /\ a.id = e.id /\ e.serial = s
      BY DEF Entry
    <3> HIDE DEF a, e
    <3>6. CASE t = s
      <4>1. Matches(r.encoded, t, young)
        BY <2>3, <2>8, <3>4, <3>6, EndMatches
      <4>2. Matches(Append(r.encoded, e), t, IF e.serial = t THEN Append(young, a) ELSE young)
        BY <2>3, <2>8, <2>12, <3>5, <4>1, PushMatches
      <4>3. Matches(h.encoded, t, Append(young, a))
        BY <2>14, <3>5, <3>6, <4>2
      <4>4. Recent(Append(young, a)) \in Seq(Entry) /\ EndOf(Recent(Append(young, a)), Append(young, a))
        BY <2>9, RecentTail
      <4>5. h.encoded \in Seq(Sent)
        BY <2>13, <2>14
      <4>6. Matches(h.encoded, t, Recent(Append(young, a)))
        BY <2>9, <4>3, <4>4, <4>5, EndMatches
      <4>7. h.ctl[t].acked = Recent(Append(young, a))
        BY <2>9, <2>19, <3>1, <3>6
      <4> QED BY <4>6, <4>7
    <3>7. CASE t # s
      <4>1. Matches(Append(r.encoded, e), t,
                    IF e.serial = t THEN Append(g.ctl[t].acked, a) ELSE g.ctl[t].acked)
        BY <2>3, <2>12, <3>2, <3>4, <3>5, PushMatches
      <4> QED BY <2>14, <2>19, <3>1, <3>5, <3>7, <4>1
    <3> QED BY <3>6, <3>7
  <2>22. Len(h.encoded) <= MaxTracked
    BY <2>1, <2>3, <2>16, GraphicsPipelineAssumption
  <2>23. Numbered(h, n + 1)
    BY <1>2, <2>3, <2>14 DEF Numbered
  <2>24. Sound(h, n + 1)
    BY <2>14, <2>15, <2>18, <2>20, <2>21, <2>22, <2>23 DEF Sound, Loose, HistorySound
  <2> QED BY <1>1, <1>7, <2>14, <2>24
<1> QED BY <1>6, <1>7

Pdu == [type : {"frame", "confirm"}, id : Nat]
Reply == [type : {"ack"}, id : Nat, decoded : Nat, suspend : BOOLEAN] \cup [type : {"advertise"}]

ChannelTyped ==
  /\ nextFrame \in 1 .. MaxFrames + 1
  /\ nextSerial \in Serial
  /\ capSets \in BOOLEAN /\ resetting \in BOOLEAN
  /\ toClient \in Seq(Pdu)
  /\ toServer \in Seq(Reply)
  /\ client \in [decoded : Nat, suspended : BOOLEAN, resets : Nat]

\* Inside reset_protocol the tables stay empty: nothing is submitted, and what the client goes
\* on acknowledging is ignored.
ResetEmpty == resetting => gfx.frameSerial = <<>> /\ gfx.encoded = <<>>

ChannelInv == ChannelTyped /\ ResetEmpty /\ Sound(gfx, nextFrame)

--------------------------------------------------------------------------------

LEMMA ChannelInit == Init => ChannelInv
<1> SUFFICES ASSUME Init
             PROVE  ChannelInv
  OBVIOUS
<1>1. NSerials \in Nat \ {0} /\ MaxFrames \in Nat \ {0} /\ MaxTracked \in Nat
  BY GraphicsPipelineAssumption
<1>2. <<>> \in Tables /\ DOMAIN gfx.frameSerial = {}
  <2>1. [x \in {} |-> x] \in [{} -> Serial]
    OBVIOUS
  <2>2. [x \in {} |-> x] \in Tables
    BY <2>1 DEF Tables
  <2> QED BY <2>2, EmptyTable DEF Init
<1>3. gfx \in Gfx
  <2>1. [s \in Serial |-> NewController] \in [Serial -> Controller]
    BY NewControllerSound
  <2>2. <<>> \in Seq(Sent)
    OBVIOUS
  <2>3. [s \in Serial |-> 0] \in [Serial -> Nat]
    OBVIOUS
  <2> QED BY <1>2, <2>1, <2>2, <2>3 DEF Init, Gfx
<1>4. /\ gfx.live = {} /\ gfx.serials = {} /\ gfx.encoded = <<>> /\ gfx.suspended = FALSE
      /\ gfx.total = 0
      /\ \A s \in Serial : gfx.refs[s] = 0 /\ gfx.ctl[s] = NewController
  BY DEF Init
<1>5. TableExact(gfx)
  <2>1. \A s : SerialOf(gfx, s) = {}
    BY <1>2 DEF SerialOf
  <2>2. \A s \in Serial : gfx.refs[s] = Cardinality(SerialOf(gfx, s))
    <3>1. Cardinality({}) = 0
      BY FS_EmptySet
    <3> QED BY <1>4, <2>1, <3>1
  <2>3. {s \in Serial : gfx.refs[s] > 0} = {}
    BY <1>4
  <2> QED BY <1>4, <2>2, <2>3 DEF TableExact
<1>6. HistoryListed(gfx)
  BY <1>4 DEF HistoryListed
<1>7. ControllersSound(gfx)
  BY <1>4, NewControllerSound DEF ControllersSound
<1>8. Quiet(gfx) /\ HistorySound(gfx)
  BY <1>1, <1>4 DEF Quiet, HistorySound, Matches
<1>9. Numbered(gfx, nextFrame)
  BY <1>2, <1>4 DEF Numbered, Init
<1>10. ChannelTyped
  <2>1. <<>> \in Seq(Pdu) /\ <<>> \in Seq(Reply)
    OBVIOUS
  <2>2. 0 \in Serial /\ 1 \in 1 .. MaxFrames + 1
    BY <1>1 DEF Serial
  <2>3. [decoded |-> 0, suspended |-> FALSE, resets |-> 0] \in
          [decoded : Nat, suspended : BOOLEAN, resets : Nat]
    OBVIOUS
  <2> QED BY <2>1, <2>2, <2>3 DEF Init, ChannelTyped
<1> QED BY <1>3, <1>5, <1>6, <1>7, <1>8, <1>9, <1>10
        DEF ChannelInv, Sound, Loose, ResetEmpty, Init

LEMMA FreeSerial ==
  ASSUME nextSerial \in Serial, NEW used \in SUBSET Serial, used # Serial
  PROVE  FirstFree(used) \in Serial \ used
<1> DEFINE from(s) == (s - nextSerial) % NSerials
           D == {from(s) : s \in Serial \ used}
<1>1. NSerials \in Nat \ {0}
  BY GraphicsPipelineAssumption
<1>2. \A s \in Serial : from(s) \in Nat
  BY <1>1 DEF Serial
<1>3. D \in SUBSET Nat /\ D # {}
  BY <1>2
<1>4. \E x \in D : \A y \in D : x <= y
  <2> HIDE DEF D
  <2> QED BY <1>3, LeastNat
<1>5. \E s \in Serial \ used : \A t \in Serial \ used : from(s) <= from(t)
  <2> HIDE DEF from
  <2> QED BY <1>4
<1> QED BY <1>5 DEF FirstFree

LEMMA AcquireStep ==
  ASSUME ChannelInv, AcquireGfxSurface
  PROVE  ChannelInv'
<1> DEFINE s == FirstFree(gfx.serials)
<1>1. /\ gfx \in Gfx /\ TableExact(gfx) /\ HistoryListed(gfx) /\ ControllersSound(gfx)
      /\ Quiet(gfx) /\ HistorySound(gfx) /\ Numbered(gfx, nextFrame) /\ ChannelTyped
  BY DEF ChannelInv, Sound, Loose
<1>2. s \in Serial /\ s \notin gfx.serials
  <2>1. gfx.serials \in SUBSET Serial /\ gfx.serials # Serial
    BY <1>1 DEF Gfx, AcquireGfxSurface
  <2> QED BY <1>1, <2>1, FreeSerial DEF ChannelTyped
<1>3. gfx' = [gfx EXCEPT !.live = @ \cup {s}, !.serials = @ \cup {s}, !.refs = [@ EXCEPT ![s] = 0]]
  BY DEF AcquireGfxSurface
<1>4. /\ nextSerial' = (s + 1) % NSerials
      /\ UNCHANGED <<nextFrame, capSets, resetting, toClient, toServer, client>>
      /\ ~resetting
  BY DEF AcquireGfxSurface
<1> HIDE DEF s
<1>5. gfx.refs[s] = 0 /\ s \notin gfx.live /\ gfx.refs \in [Serial -> Nat]
  <2>1. gfx.refs \in [Serial -> Nat]
    BY <1>1 DEF Gfx
  <2> QED BY <1>1, <1>2, <2>1 DEF TableExact
<1>6. [gfx.refs EXCEPT ![s] = 0] = gfx.refs
  BY <1>2, <1>5
<1>7. /\ gfx' \in Gfx /\ gfx'.live = gfx.live \cup {s} /\ gfx'.serials = gfx.serials \cup {s}
      /\ gfx'.refs = gfx.refs /\ gfx'.ctl = gfx.ctl /\ gfx'.frameSerial = gfx.frameSerial
      /\ gfx'.encoded = gfx.encoded /\ gfx'.suspended = gfx.suspended /\ gfx'.total = gfx.total
  BY <1>1, <1>2, <1>3, <1>5, <1>6 DEF Gfx
<1>8. TableExact(gfx') /\ HistoryListed(gfx')
  BY <1>1, <1>7 DEF TableExact, HistoryListed, SerialOf
<1>9. ControllersSound(gfx') /\ Quiet(gfx')
  BY <1>1, <1>7 DEF ControllersSound, Quiet, SerialOf
<1>10. HistorySound(gfx')
  <2>1. gfx.ctl[s] = NewController
    BY <1>1, <1>2, <1>5 DEF ControllersSound
  <2>2. Matches(gfx.encoded, s, gfx.ctl[s].acked)
    <3>1. gfx.encoded \in Seq(Sent) /\ gfx.ctl[s].acked = <<>>
      BY <1>1, <2>1 DEF Gfx, NewController
    <3>2. \A i : ~ (Cardinality(Later(gfx.encoded, i)) < Len(<<>>))
      BY <3>1, LaterFinite
    <3> QED BY <3>1, <3>2 DEF Matches
  <2> QED BY <1>1, <1>7, <2>2 DEF HistorySound
<1>11. Numbered(gfx', nextFrame')
  BY <1>1, <1>4, <1>7 DEF Numbered
<1>12. ChannelTyped'
  <2>1. nextSerial' \in Serial
    <3>1. NSerials \in Nat \ {0} /\ s \in Int
      BY <1>2, GraphicsPipelineAssumption DEF Serial
    <3> QED BY <1>4, <3>1 DEF Serial
  <2> QED BY <1>1, <1>4, <2>1 DEF ChannelTyped
<1> QED BY <1>4, <1>7, <1>8, <1>9, <1>10, <1>11, <1>12 DEF ChannelInv, Sound, Loose, ResetEmpty

LEMMA DeleteStep ==
  ASSUME ChannelInv, NEW s \in Serial, DeleteSurface(s)
  PROVE  ChannelInv'
<1> DEFINE left == IF gfx.refs[s] = 0 THEN gfx.serials \ {s} ELSE gfx.serials
<1>1. /\ gfx \in Gfx /\ TableExact(gfx) /\ HistoryListed(gfx) /\ ControllersSound(gfx)
      /\ Quiet(gfx) /\ HistorySound(gfx) /\ Numbered(gfx, nextFrame) /\ ChannelTyped
      /\ ResetEmpty
  BY DEF ChannelInv, Sound, Loose
<1>2. /\ gfx' = [gfx EXCEPT !.live = @ \ {s}, !.ctl = [@ EXCEPT ![s] = NewController],
                            !.serials = left]
      /\ UNCHANGED <<nextFrame, nextSerial, capSets, resetting, toClient, toServer, client>>
      /\ s \in gfx.live
  BY DEF DeleteSurface
<1>3. /\ gfx.refs \in [Serial -> Nat] /\ gfx.ctl \in [Serial -> Controller]
      /\ gfx.serials \in SUBSET Serial
  BY <1>1 DEF Gfx
<1>4. [gfx.ctl EXCEPT ![s] = NewController] \in [Serial -> Controller]
  BY <1>3, NewControllerSound
<1>5. left \in SUBSET Serial
  BY <1>3
<1>6. left = (gfx.live \ {s}) \cup {t \in Serial : gfx.refs[t] > 0}
  <2>1. gfx.serials = gfx.live \cup {t \in Serial : gfx.refs[t] > 0}
    BY <1>1 DEF TableExact
  <2>2. gfx.refs[s] \in Nat
    BY <1>3
  <2> QED BY <2>1, <2>2
<1> HIDE DEF left
<1>7. /\ gfx' \in Gfx /\ gfx'.live = gfx.live \ {s} /\ gfx'.serials = left
      /\ gfx'.refs = gfx.refs /\ gfx'.ctl = [gfx.ctl EXCEPT ![s] = NewController]
      /\ gfx'.frameSerial = gfx.frameSerial
      /\ gfx'.encoded = gfx.encoded /\ gfx'.suspended = gfx.suspended /\ gfx'.total = gfx.total
  BY <1>1, <1>2, <1>4, <1>5 DEF Gfx
<1>8. TableExact(gfx') /\ HistoryListed(gfx')
  BY <1>1, <1>6, <1>7 DEF TableExact, HistoryListed, SerialOf
<1>9. \A t \in Serial : /\ t = s => gfx'.ctl[t] = NewController
                        /\ t # s => gfx'.ctl[t] = gfx.ctl[t]
  BY <1>3, <1>7
<1>10. ControllersSound(gfx') /\ Quiet(gfx')
  BY <1>1, <1>7, <1>9, NewControllerSound DEF ControllersSound, Quiet, SerialOf
<1>11. HistorySound(gfx')
  <2>1. gfx.live \in SUBSET Serial
    BY <1>1 DEF Gfx
  <2> QED BY <1>1, <1>7, <1>9, <2>1 DEF HistorySound
<1>12. Numbered(gfx', nextFrame') /\ ChannelTyped' /\ ResetEmpty'
  BY <1>1, <1>2, <1>7 DEF Numbered, ChannelTyped, ResetEmpty
<1> QED BY <1>7, <1>8, <1>10, <1>11, <1>12 DEF ChannelInv, Sound, Loose

\* The channel's own variables, where a step leaves gfx alone.
LEMMA QuietStep ==
  ASSUME ChannelInv, gfx' = gfx, nextFrame' = nextFrame, resetting' = resetting, ChannelTyped'
  PROVE  ChannelInv'
BY DEF ChannelInv, ResetEmpty

LEMMA SubmitStep ==
  ASSUME ChannelInv, NEW s \in Serial, SubmitFrame(s)
  PROVE  ChannelInv'
<1>1. Sound(gfx, nextFrame) /\ ChannelTyped
  BY DEF ChannelInv
<1>2. PICK ahead \in BOOLEAN : gfx' = Submitted(gfx, s, nextFrame, ahead)
  BY DEF SubmitFrame
<1>3. /\ s \in gfx.live /\ ~resetting
      /\ nextFrame + client.resets <= MaxFrames
      /\ nextFrame' = nextFrame + 1
      /\ toClient' = Append(toClient, [type |-> "frame", id |-> nextFrame])
      /\ UNCHANGED <<nextSerial, capSets, resetting, toServer, client>>
  BY DEF SubmitFrame
<1>4. nextFrame \in Frame /\ nextFrame \in Nat
  BY <1>1, <1>3, GraphicsPipelineAssumption DEF ChannelTyped, Frame
<1>5. Sound(gfx', nextFrame')
  BY <1>1, <1>2, <1>3, <1>4, SubmittedSound
<1>6. ChannelTyped'
  <2>1. [type |-> "frame", id |-> nextFrame] \in Pdu
    BY <1>4 DEF Pdu
  <2>2. toClient' \in Seq(Pdu)
    BY <1>1, <1>3, <2>1 DEF ChannelTyped
  <2>3. nextFrame' \in 1 .. MaxFrames + 1
    BY <1>3, <1>4, GraphicsPipelineAssumption DEF Frame
  <2> QED BY <1>1, <1>3, <2>2, <2>3 DEF ChannelTyped
<1> QED BY <1>3, <1>5, <1>6 DEF ChannelInv, ResetEmpty

\* Nobody waits for a frame after ForgetFrames, and there is no history.
LEMMA ForgottenSound ==
  ASSUME NEW g, Loose(g), NEW n, g.total < n
  PROVE  /\ Sound(ForgetFrames(g), n)
         /\ ForgetFrames(g).frameSerial = <<>> /\ ForgetFrames(g).encoded = <<>>
<1> DEFINE h == ForgetFrames(g)
<1>1. /\ Loose(h)
      /\ h.frameSerial = <<>> /\ h.encoded = <<>> /\ h.live = g.live
      /\ h.suspended = g.suspended /\ h.total = g.total
      /\ \A s \in Serial : h.ctl[s].tracked = {}
  BY ForgetFramesSound
<1> HIDE DEF h
<1>2. Quiet(h) /\ HistorySound(h) /\ Numbered(h, n)
  BY <1>1, GraphicsPipelineAssumption DEF Quiet, HistorySound, Matches, Numbered
<1> QED BY <1>1, <1>2 DEF Sound, h

LEMMA ResetBeginStep ==
  ASSUME ChannelInv, ResetBegin
  PROVE  ChannelInv'
<1>1. Loose(gfx) /\ gfx.total < nextFrame /\ ChannelTyped
  BY DEF ChannelInv, Sound, Numbered
<1>2. gfx' = ForgetFrames(gfx) /\ nextFrame' = nextFrame
  BY DEF ResetBegin
<1>3. Sound(gfx', nextFrame') /\ ResetEmpty'
  BY <1>1, <1>2, ForgottenSound DEF ResetEmpty
<1>4. ChannelTyped'
  BY <1>1 DEF ResetBegin, ChannelTyped
<1> QED BY <1>3, <1>4 DEF ChannelInv

LEMMA SuspendedSound ==
  ASSUME NEW g, Loose(g), NEW suspended \in BOOLEAN
  PROVE  LET h == [g EXCEPT !.suspended = suspended]
         IN  /\ Loose(h) /\ h.suspended = suspended
             /\ h.live = g.live /\ h.encoded = g.encoded /\ h.total = g.total
             /\ h.frameSerial = g.frameSerial
<1> DEFINE h == [g EXCEPT !.suspended = suspended]
<1>1. g \in Gfx /\ TableExact(g) /\ HistoryListed(g) /\ ControllersSound(g)
  BY DEF Loose
<1>2. /\ h \in Gfx /\ h.suspended = suspended /\ h.live = g.live /\ h.serials = g.serials
      /\ h.refs = g.refs /\ h.ctl = g.ctl /\ h.frameSerial = g.frameSerial
      /\ h.encoded = g.encoded /\ h.total = g.total
  BY <1>1 DEF Gfx
<1> HIDE DEF h
<1>3. TableExact(h) /\ HistoryListed(h) /\ ControllersSound(h)
  BY <1>1, <1>2 DEF TableExact, HistoryListed, ControllersSound, SerialOf
<1> QED BY <1>2, <1>3 DEF Loose, h

LEMMA ResetEndStep ==
  ASSUME ChannelInv, ResetEnd
  PROVE  ChannelInv'
<1> DEFINE g == [gfx EXCEPT !.suspended = FALSE]
           h == [gfx EXCEPT !.suspended = FALSE, !.total = 0]
<1>1. Sound(gfx, nextFrame) /\ Loose(gfx) /\ ChannelTyped /\ resetting /\ gfx.encoded = <<>>
  BY DEF ChannelInv, Sound, ResetEnd, ResetEmpty
<1>2. /\ gfx' = h /\ nextFrame' = nextFrame /\ ~resetting'
  BY DEF ResetEnd
<1>3. gfx \in Gfx /\ TableExact(gfx) /\ HistoryListed(gfx) /\ ControllersSound(gfx)
  BY <1>1 DEF Loose
<1>4. /\ h \in Gfx /\ h.suspended = FALSE /\ h.live = gfx.live /\ h.serials = gfx.serials
      /\ h.refs = gfx.refs /\ h.ctl = gfx.ctl /\ h.frameSerial = gfx.frameSerial
      /\ h.encoded = <<>> /\ h.encoded = gfx.encoded /\ h.total = 0
  BY <1>1, <1>3 DEF Gfx
<1> HIDE DEF h
<1>5. Loose(h)
  BY <1>3, <1>4 DEF Loose, TableExact, HistoryListed, ControllersSound, SerialOf
<1>6. Quiet(h) /\ HistorySound(h)
  BY <1>4, GraphicsPipelineAssumption DEF Quiet, HistorySound, Matches
<1>7. Numbered(h, nextFrame)
  BY <1>1, <1>4 DEF Sound, Numbered, ChannelTyped
<1>8. ChannelTyped'
  <2>1. [type |-> "confirm", id |-> 0] \in Pdu
    BY DEF Pdu
  <2>2. Append(toClient, [type |-> "confirm", id |-> 0]) \in Seq(Pdu)
    BY <1>1, <2>1 DEF ChannelTyped
  <2> QED BY <1>1, <2>2 DEF ResetEnd, ChannelTyped
<1> QED BY <1>2, <1>5, <1>6, <1>7, <1>8 DEF ChannelInv, Sound, ResetEmpty

LEMMA AckHandled ==
  ASSUME NEW g, NEW n, Sound(g, n), NEW pending \in Int, NEW suspend \in BOOLEAN, NEW f,
         NEW ahead \in BOOLEAN, NEW rewritten, rewritten = RewriteHistory(g, pending),
         NEW resumed, resumed = [rewritten EXCEPT !.suspended = @ /\ suspend],
         NEW stolen, stolen = StealFrame(resumed, f, ahead),
         NEW h, h = IF suspend THEN ForgetFrames([stolen EXCEPT !.suspended = TRUE]) ELSE stolen
  PROVE  /\ Sound(h, n)
         /\ g.frameSerial = <<>> /\ g.encoded = <<>> => h.frameSerial = <<>> /\ h.encoded = <<>>
<1>1. Loose(g) /\ Quiet(g) /\ g.total < n /\ \A x \in DOMAIN g.frameSerial : x < n
  BY DEF Sound, Numbered
<1>2. /\ Loose(rewritten) /\ rewritten.encoded = <<>> /\ rewritten.total = g.total
      /\ DOMAIN rewritten.frameSerial \subseteq DOMAIN g.frameSerial
      /\ rewritten.suspended = g.suspended
      /\ g.encoded = <<>> => rewritten = g
  BY <1>1, RewriteHistorySound
<1>3. (rewritten.suspended /\ suspend) \in BOOLEAN
  OBVIOUS
<1>4. /\ Loose(resumed) /\ resumed.encoded = <<>> /\ resumed.total = g.total
      /\ resumed.frameSerial = rewritten.frameSerial
      /\ ~suspend => resumed.suspended = FALSE
  <2>1. resumed = [rewritten EXCEPT !.suspended = rewritten.suspended /\ suspend]
    OBVIOUS
  <2> DEFINE b == rewritten.suspended /\ suspend
  <2>2. b \in BOOLEAN /\ (~suspend => b = FALSE)
    OBVIOUS
  <2> HIDE DEF b
  <2>3. resumed = [rewritten EXCEPT !.suspended = b]
    BY <2>1 DEF b
  <2> QED BY ONLY <1>2, <2>2, <2>3, SuspendedSound
<1>5. /\ Loose(stolen) /\ stolen.encoded = <<>> /\ stolen.total = g.total
      /\ stolen.suspended = resumed.suspended
      /\ DOMAIN stolen.frameSerial \subseteq DOMAIN g.frameSerial
      /\ f \notin DOMAIN resumed.frameSerial => stolen = resumed
  <2>1. stolen = StealFrame(resumed, f, ahead) /\ ahead \in BOOLEAN
    OBVIOUS
  <2>2. LET k == StealFrame(resumed, f, ahead)
        IN  /\ Loose(k) /\ k.encoded = <<>> /\ k.suspended = resumed.suspended
            /\ k.total = resumed.total
            /\ DOMAIN k.frameSerial \subseteq DOMAIN resumed.frameSerial
            /\ f \notin DOMAIN resumed.frameSerial => k = resumed
    BY ONLY <1>4, <2>1, StealFrameSound
  <2> QED BY ONLY <1>2, <1>4, <2>1, <2>2
<1>6. CASE suspend
  <2>1. /\ Loose([stolen EXCEPT !.suspended = TRUE])
        /\ [stolen EXCEPT !.suspended = TRUE].total = g.total
    <3>1. TRUE \in BOOLEAN
      OBVIOUS
    <3> QED BY ONLY <1>5, <3>1, SuspendedSound
  <2>2. h = ForgetFrames([stolen EXCEPT !.suspended = TRUE])
    BY <1>6
  <2> QED BY ONLY <1>1, <2>1, <2>2, ForgottenSound
<1>7. CASE ~suspend
  <2>1. h = stolen /\ h.suspended = FALSE
    BY <1>4, <1>5, <1>7
  <2>2. Quiet(h) /\ HistorySound(h)
    <3>1. h.encoded = <<>> /\ MaxTracked \in Nat
      BY <1>5, <2>1, GraphicsPipelineAssumption
    <3> QED BY ONLY <2>1, <3>1 DEF Quiet, HistorySound, Matches
  <2>3. Numbered(h, n)
    BY <1>1, <1>5, <2>1 DEF Numbered
  <2>4. ASSUME g.frameSerial = <<>>, g.encoded = <<>>
        PROVE  h.frameSerial = <<>>
    <3>1. resumed.frameSerial = <<>>
      BY <1>2, <1>4, <2>4
    <3>2. f \notin DOMAIN resumed.frameSerial
      BY <3>1
    <3> QED BY <1>5, <2>1, <3>1, <3>2
  <2> QED BY <1>5, <2>1, <2>2, <2>3, <2>4 DEF Sound
<1> QED BY <1>6, <1>7

LEMMA FrameAckStep ==
  ASSUME ChannelInv, HandleFrameAck
  PROVE  ChannelInv'
<1> DEFINE ack == Head(toServer)
<1>1. Sound(gfx, nextFrame) /\ ChannelTyped /\ ResetEmpty
  BY DEF ChannelInv
<1>2. /\ toServer # <<>> /\ ack.type = "ack" /\ toServer' = Tail(toServer)
      /\ UNCHANGED <<nextFrame, nextSerial, capSets, resetting, toClient, client>>
  BY DEF HandleFrameAck
<1>3. ack \in Reply /\ toServer' \in Seq(Reply)
  BY <1>1, <1>2 DEF ChannelTyped
<1>4. ack.decoded \in Nat /\ ack.suspend \in BOOLEAN
  <2> HIDE DEF ack
  <2>1. ack \in [type : {"ack"}, id : Nat, decoded : Nat, suspend : BOOLEAN]
    BY <1>2, <1>3 DEF Reply
  <2> QED BY <2>1
<1>5. ChannelTyped'
  BY <1>1, <1>2, <1>3 DEF ChannelTyped
<1>6. PendingAcks(ack) \in Int
  <2>1. gfx.total \in Nat
    BY <1>1 DEF Sound, Loose, Gfx
  <2>2. Word \in Nat \ {0}
    BY GraphicsPipelineAssumption
  <2> HIDE DEF ack
  <2>3. gfx.total - ack.decoded \in Int
    BY <1>4, <2>1
  <2> QED BY <2>2, <2>3 DEF PendingAcks
<1>7. CASE UNCHANGED gfx
  BY <1>2, <1>5, <1>7, QuietStep
<1>8. CASE ~UNCHANGED gfx
  <2>1. PICK ahead \in BOOLEAN :
          \E rewritten \in {RewriteHistory(gfx, PendingAcks(ack))} :
          \E resumed \in {[rewritten EXCEPT !.suspended = @ /\ ack.suspend]} :
          \E stolen \in {StealFrame(resumed, ack.id, ahead)} :
             gfx' = IF ack.suspend
                    THEN ForgetFrames([stolen EXCEPT !.suspended = TRUE])
                    ELSE stolen
    BY <1>8 DEF HandleFrameAck
  <2>2. PICK rewritten, resumed, stolen :
          /\ rewritten = RewriteHistory(gfx, PendingAcks(ack))
          /\ resumed = [rewritten EXCEPT !.suspended = @ /\ ack.suspend]
          /\ stolen = StealFrame(resumed, ack.id, ahead)
          /\ gfx' = IF ack.suspend
                    THEN ForgetFrames([stolen EXCEPT !.suspended = TRUE])
                    ELSE stolen
    BY <2>1
  <2> HIDE DEF ack
  <2>3. /\ Sound(gfx', nextFrame)
        /\ gfx.frameSerial = <<>> /\ gfx.encoded = <<>> =>
             gfx'.frameSerial = <<>> /\ gfx'.encoded = <<>>
    BY ONLY <1>1, <1>4, <1>6, <2>2, AckHandled
  <2>4. ResetEmpty' /\ Sound(gfx', nextFrame')
    BY <1>1, <1>2, <2>3 DEF ResetEmpty
  <2> QED BY <1>5, <2>4 DEF ChannelInv
<1> QED BY <1>7, <1>8

LEMMA RttStep ==
  ASSUME ChannelInv, NEW delay \in 0 .. MaxDelay, NotifyNewRtt(delay)
  PROVE  ChannelInv'
<1> DEFINE ctl == [s \in Serial |-> IF s \in gfx.live
                                    THEN [gfx.ctl[s] EXCEPT !.delay = delay]
                                    ELSE gfx.ctl[s]]
<1>1. /\ gfx \in Gfx /\ TableExact(gfx) /\ HistoryListed(gfx) /\ ControllersSound(gfx)
      /\ Quiet(gfx) /\ HistorySound(gfx) /\ Numbered(gfx, nextFrame) /\ ChannelTyped
      /\ ResetEmpty
  BY DEF ChannelInv, Sound, Loose
<1>2. /\ gfx' = [gfx EXCEPT !.ctl = ctl]
      /\ UNCHANGED <<nextFrame, nextSerial, capSets, resetting, toClient, toServer, client>>
  BY DEF NotifyNewRtt
<1>3. ASSUME NEW s \in Serial
      PROVE  /\ ctl[s] \in Controller /\ Throttled(ctl[s])
             /\ ctl[s].tracked = gfx.ctl[s].tracked
             /\ ctl[s].acked = gfx.ctl[s].acked
             /\ s \notin gfx.live => ctl[s] = gfx.ctl[s]
  <2>1. gfx.ctl[s] \in Controller /\ Throttled(gfx.ctl[s])
    BY <1>1 DEF Gfx, ControllersSound
  <2>2. s \in gfx.live => ctl[s] = [gfx.ctl[s] EXCEPT !.delay = delay]
    OBVIOUS
  <2>3. s \notin gfx.live => ctl[s] = gfx.ctl[s]
    OBVIOUS
  <2> HIDE DEF ctl
  <2>4. LET d == [gfx.ctl[s] EXCEPT !.delay = delay]
        IN  /\ d \in Controller /\ Throttled(d)
            /\ d.tracked = gfx.ctl[s].tracked /\ d.acked = gfx.ctl[s].acked
    BY ONLY <2>1, DelaySound, delay \in 0 .. MaxDelay
  <2> QED BY ONLY <2>1, <2>2, <2>3, <2>4
<1>4. ctl \in [Serial -> Controller]
  BY <1>3
<1> HIDE DEF ctl
<1>5. /\ gfx' \in Gfx /\ gfx'.live = gfx.live /\ gfx'.serials = gfx.serials
      /\ gfx'.refs = gfx.refs /\ gfx'.ctl = ctl /\ gfx'.frameSerial = gfx.frameSerial
      /\ gfx'.encoded = gfx.encoded /\ gfx'.suspended = gfx.suspended /\ gfx'.total = gfx.total
  BY <1>1, <1>2, <1>4 DEF Gfx
<1>6. TableExact(gfx') /\ HistoryListed(gfx')
  BY <1>1, <1>5 DEF TableExact, HistoryListed, SerialOf
<1>7. ControllersSound(gfx') /\ Quiet(gfx')
  BY <1>1, <1>3, <1>5 DEF ControllersSound, Quiet, SerialOf
<1>8. HistorySound(gfx')
  <2>1. gfx.live \in SUBSET Serial
    BY <1>1 DEF Gfx
  <2> QED BY <1>1, <1>3, <1>5, <2>1 DEF HistorySound
<1>9. Numbered(gfx', nextFrame') /\ ChannelTyped' /\ ResetEmpty'
  BY <1>1, <1>2, <1>5 DEF Numbered, ChannelTyped, ResetEmpty
<1> QED BY <1>5, <1>6, <1>7, <1>8, <1>9 DEF ChannelInv, Sound, Loose

LEMMA TimeStep ==
  ASSUME ChannelInv, NEW s \in Serial, TimePasses(s)
  PROVE  ChannelInv'
<1>1. /\ gfx \in Gfx /\ TableExact(gfx) /\ HistoryListed(gfx) /\ ControllersSound(gfx)
      /\ Quiet(gfx) /\ HistorySound(gfx) /\ Numbered(gfx, nextFrame) /\ ChannelTyped
      /\ ResetEmpty
  BY DEF ChannelInv, Sound, Loose
<1>2. PICK k \in DOMAIN gfx.ctl[s].acked :
        gfx' = [gfx EXCEPT !.ctl = [@ EXCEPT ![s] = Aged(gfx.ctl[s], k)]]
  BY DEF TimePasses
<1>3. /\ s \in gfx.live
      /\ UNCHANGED <<nextFrame, nextSerial, capSets, resetting, toClient, toServer, client>>
  BY DEF TimePasses
<1> DEFINE mine == Aged(gfx.ctl[s], k)
<1>4. gfx.ctl \in [Serial -> Controller] /\ gfx.encoded \in Seq(Sent) /\ gfx.live \in SUBSET Serial
  BY <1>1 DEF Gfx
<1>5. gfx.ctl[s].acked \in Seq(Entry) /\ k \in Nat
  BY <1>4 DEF Controller
<1>6. /\ mine \in Controller /\ Throttled(mine) /\ mine.tracked = gfx.ctl[s].tracked
      /\ SameIds(mine.acked, gfx.ctl[s].acked)
  BY <1>1, <1>4, <1>5, AgedSound DEF ControllersSound
<1>7. mine.acked \in Seq(Entry)
  BY <1>6 DEF Controller
<1> HIDE DEF mine
<1>8. [gfx.ctl EXCEPT ![s] = mine] \in [Serial -> Controller]
  BY <1>4, <1>6
<1>9. /\ gfx' \in Gfx /\ gfx'.live = gfx.live /\ gfx'.serials = gfx.serials
      /\ gfx'.refs = gfx.refs /\ gfx'.ctl = [gfx.ctl EXCEPT ![s] = mine]
      /\ gfx'.frameSerial = gfx.frameSerial
      /\ gfx'.encoded = gfx.encoded /\ gfx'.suspended = gfx.suspended /\ gfx'.total = gfx.total
  BY <1>1, <1>2, <1>8 DEF Gfx, mine
<1>10. \A t \in Serial : /\ t = s => gfx'.ctl[t] = mine
                         /\ t # s => gfx'.ctl[t] = gfx.ctl[t]
  BY <1>4, <1>9
<1>11. TableExact(gfx') /\ HistoryListed(gfx')
  BY <1>1, <1>9 DEF TableExact, HistoryListed, SerialOf
<1>12. ControllersSound(gfx') /\ Quiet(gfx')
  BY <1>1, <1>3, <1>6, <1>9, <1>10 DEF ControllersSound, Quiet, SerialOf
<1>13. HistorySound(gfx')
  <2>1. Matches(gfx.encoded, s, gfx.ctl[s].acked)
    BY <1>1, <1>3 DEF HistorySound
  <2>2. Matches(gfx.encoded, s, mine.acked)
    BY <1>4, <1>5, <1>6, <1>7, <2>1, SameMatches
  <2> QED BY <1>1, <1>4, <1>9, <1>10, <2>2 DEF HistorySound
<1>14. Numbered(gfx', nextFrame') /\ ChannelTyped' /\ ResetEmpty'
  BY <1>1, <1>3, <1>9 DEF Numbered, ChannelTyped, ResetEmpty
<1> QED BY <1>9, <1>11, <1>12, <1>13, <1>14 DEF ChannelInv, Sound, Loose

\* The client, and what the FreeRDP thread does for its CapsAdvertise PDUs.
LEMMA ClientStep ==
  ASSUME ChannelInv, HandleCapsAdvertise \/ ClientDecode \/ ClientConfirmed \/ ClientAdvertise
  PROVE  ChannelInv'
<1>1. ChannelTyped
  BY DEF ChannelInv
<1>2. UNCHANGED <<gfx, nextFrame, nextSerial, resetting>>
  BY DEF HandleCapsAdvertise, ClientDecode, ClientConfirmed, ClientAdvertise
<1>3. CASE HandleCapsAdvertise
  <2>1. ChannelTyped'
    BY <1>1, <1>3 DEF HandleCapsAdvertise, ChannelTyped
  <2> QED BY <1>2, <2>1, QuietStep
<1>4. CASE ClientDecode
  <2> DEFINE decoded == client.decoded + 1
             ack(suspend) == [type |-> "ack", id |-> Head(toClient).id,
                              decoded |-> decoded, suspend |-> suspend]
  <2>1. /\ toClient # <<>> /\ toClient' = Tail(toClient)
        /\ \/ \E suspend \in BOOLEAN :
                /\ toServer' = Append(toServer, ack(suspend))
                /\ client' = [client EXCEPT !.decoded = decoded, !.suspended = suspend]
           \/ /\ client' = [client EXCEPT !.decoded = decoded]
              /\ UNCHANGED toServer
        /\ UNCHANGED capSets
    BY <1>4 DEF ClientDecode
  <2>2. toClient' \in Seq(Pdu) /\ Head(toClient) \in Pdu
    <3>1. toClient \in Seq(Pdu) /\ toClient # <<>> /\ toClient' = Tail(toClient)
      BY <1>1, <2>1 DEF ChannelTyped
    <3> QED BY ONLY <3>1
  <2>3. decoded \in Nat /\ Head(toClient).id \in Nat
    BY <1>1, <2>2 DEF ChannelTyped, Pdu
  <2> HIDE DEF decoded
  <2>4. \A suspend \in BOOLEAN : ack(suspend) \in Reply
    BY <2>3 DEF Reply
  <2> HIDE DEF ack
  <2>5. toServer' \in Seq(Reply)
    <3>1. toServer \in Seq(Reply)
      BY <1>1 DEF ChannelTyped
    <3>2. toServer' = toServer \/ \E suspend \in BOOLEAN : toServer' = Append(toServer, ack(suspend))
      BY <2>1
    <3> QED BY ONLY <2>4, <3>1, <3>2
  <2>6. client' \in [decoded : Nat, suspended : BOOLEAN, resets : Nat]
    BY <1>1, <2>1, <2>3 DEF ChannelTyped
  <2>7. ChannelTyped'
    BY <1>1, <1>2, <2>1, <2>2, <2>5, <2>6 DEF ChannelTyped
  <2> QED BY <1>2, <2>7, QuietStep
<1>5. CASE ClientConfirmed
  <2>1. toClient' \in Seq(Pdu)
    BY <1>1, <1>5 DEF ClientConfirmed, ChannelTyped
  <2>2. client' \in [decoded : Nat, suspended : BOOLEAN, resets : Nat]
    BY <1>1, <1>5 DEF ClientConfirmed, ChannelTyped
  <2>3. ChannelTyped'
    BY <1>1, <1>2, <1>5, <2>1, <2>2 DEF ClientConfirmed, ChannelTyped
  <2> QED BY <1>2, <2>3, QuietStep
<1>6. CASE ClientAdvertise
  <2>1. [type |-> "advertise"] \in Reply
    BY DEF Reply
  <2>2. toServer' \in Seq(Reply)
    BY <1>1, <1>6, <2>1 DEF ClientAdvertise, ChannelTyped
  <2>3. client' \in [decoded : Nat, suspended : BOOLEAN, resets : Nat]
    BY <1>1, <1>6 DEF ClientAdvertise, ChannelTyped
  <2>4. ChannelTyped'
    BY <1>1, <1>2, <1>6, <2>2, <2>3 DEF ClientAdvertise, ChannelTyped
  <2> QED BY <1>2, <2>4, QuietStep
<1> QED BY <1>3, <1>4, <1>5, <1>6

LEMMA ChannelStep == ChannelInv /\ Next => ChannelInv'
<1> SUFFICES ASSUME ChannelInv, Next
             PROVE  ChannelInv'
  OBVIOUS
<1>1. CASE AcquireGfxSurface
  BY <1>1, AcquireStep
<1>2. ASSUME NEW s \in Serial, DeleteSurface(s) \/ SubmitFrame(s) \/ TimePasses(s)
      PROVE  ChannelInv'
  BY <1>2, DeleteStep, SubmitStep, TimeStep
<1>3. CASE ResetBegin \/ ResetEnd
  BY <1>3, ResetBeginStep, ResetEndStep
<1>4. CASE HandleFrameAck
  BY <1>4, FrameAckStep
<1>5. ASSUME NEW delay \in 0 .. MaxDelay, NotifyNewRtt(delay)
      PROVE  ChannelInv'
  BY <1>5, RttStep
<1>6. CASE HandleCapsAdvertise \/ ClientDecode \/ ClientConfirmed \/ ClientAdvertise
  BY <1>6, ClientStep
<1> QED BY <1>1, <1>2, <1>3, <1>4, <1>5, <1>6 DEF Next

LEMMA ChannelStutters == ChannelInv /\ UNCHANGED vars => ChannelInv'
<1> SUFFICES ASSUME ChannelInv, UNCHANGED vars
             PROVE  ChannelInv'
  OBVIOUS
<1>1. ChannelTyped'
  BY DEF ChannelInv, ChannelTyped, vars
<1> QED BY <1>1, QuietStep DEF vars

LEMMA ChannelTypes ==
  ASSUME ChannelInv
  PROVE  TypeOK
<1>1. /\ gfx \in Gfx /\ TableExact(gfx) /\ HistorySound(gfx) /\ Numbered(gfx, nextFrame)
      /\ ChannelTyped
  BY DEF ChannelInv, Sound, Loose
<1>2. /\ gfx.live \subseteq Serial /\ gfx.serials \subseteq Serial /\ gfx.refs \in [Serial -> Nat]
      /\ gfx.suspended \in BOOLEAN /\ gfx.total \in Nat /\ gfx.ctl \in [Serial -> Controller]
  BY <1>1 DEF Gfx
<1>3. gfx.live \subseteq gfx.serials
  BY <1>1 DEF TableExact
<1>4. DOMAIN gfx.frameSerial \subseteq Frame
  BY <1>1, SerialsFinite
<1>5. ASSUME NEW f \in DOMAIN gfx.frameSerial
      PROVE  gfx.frameSerial[f] \in gfx.serials
  <2> DEFINE s == gfx.frameSerial[f]
  <2>1. s \in Serial /\ f \in SerialOf(gfx, s)
    BY <1>1, SerialsFinite DEF SerialOf
  <2>2. IsFiniteSet(SerialOf(gfx, s)) /\ Cardinality(SerialOf(gfx, s)) \in Nat
    BY <1>1, SerialsFinite
  <2> HIDE DEF s
  <2>3. Cardinality(SerialOf(gfx, s)) # 0
    BY <2>1, <2>2, FS_EmptySet
  <2>4. gfx.refs[s] > 0
    BY <1>1, <2>1, <2>2, <2>3 DEF TableExact
  <2>5. s \in gfx.serials
    BY <1>1, <2>1, <2>4 DEF TableExact
  <2> QED BY <2>5 DEF s
<1>6. gfx.total \in 0 .. MaxFrames
  <2>1. gfx.total < nextFrame /\ nextFrame \in 1 .. MaxFrames + 1 /\ MaxFrames \in Nat
    BY <1>1, GraphicsPipelineAssumption DEF Numbered, ChannelTyped
  <2> QED BY ONLY <1>2, <2>1
<1>7. Len(gfx.encoded) <= MaxTracked
  BY <1>1 DEF HistorySound
<1>8. \A s \in Serial :
        /\ gfx.ctl[s].state \in {"inactive", "active", "lowering"}
        /\ gfx.ctl[s].slots \in {"none", "some", "unlimited"}
        /\ gfx.ctl[s].tracked \subseteq Frame
        /\ gfx.ctl[s].threshold \in 2 .. MaxDelay + 2
  BY <1>2 DEF Controller
<1> QED BY <1>2, <1>3, <1>4, <1>5, <1>6, <1>7, <1>8 DEF TypeOK

LEMMA ChannelTables ==
  ASSUME ChannelInv
  PROVE  TablesAgree
<1>1. /\ gfx \in Gfx /\ TableExact(gfx) /\ ControllersSound(gfx) /\ ResetEmpty
  BY DEF ChannelInv, Sound, Loose
<1>2. SerialTableExact
  BY <1>1 DEF SerialTableExact, TableExact
<1>3. TrackedFramesAckable
  BY <1>1 DEF TrackedFramesAckable, ControllersSound, Gfx
<1>4. ResetFindsTablesEmpty
  <2> SUFFICES ASSUME resetting, gfx.live = {}
               PROVE  gfx.serials = {} /\ gfx.frameSerial = <<>> /\ gfx.encoded = <<>>
    BY DEF ResetFindsTablesEmpty
  <2>1. gfx.frameSerial = <<>> /\ gfx.encoded = <<>>
    BY <1>1 DEF ResetEmpty
  <2>2. ASSUME NEW s \in Serial
        PROVE  ~(gfx.refs[s] > 0)
    <3>1. SerialOf(gfx, s) = {}
      BY <2>1 DEF SerialOf
    <3>2. Cardinality({}) = 0
      BY FS_EmptySet
    <3>3. gfx.refs[s] = 0
      BY <1>1, <3>1, <3>2 DEF TableExact
    <3> QED BY <3>3
  <2> QED BY <1>1, <2>1, <2>2 DEF TableExact
<1> QED BY <1>2, <1>3, <1>4 DEF TablesAgree

LEMMA ChannelSuspension ==
  ASSUME ChannelInv
  PROVE  SuspensionSound
<1>1. /\ gfx \in Gfx /\ HistoryListed(gfx) /\ ControllersSound(gfx)
      /\ Quiet(gfx) /\ HistorySound(gfx) /\ gfx.live \subseteq Serial
  BY DEF ChannelInv, Sound, Loose, Gfx
<1>2. ThrottledHasPending
  BY <1>1 DEF ThrottledHasPending, ControllersSound, Throttled
<1>3. HistoryOnlyWhileSuspended
  BY <1>1 DEF HistoryOnlyWhileSuspended, HistoryListed, Quiet
<1>4. HistoryMatchesAckLog
  BY <1>1 DEF HistoryMatchesAckLog, HistorySound, Matches
<1> QED BY <1>2, <1>3, <1>4 DEF SuspensionSound

--------------------------------------------------------------------------------
(* Theorems *)

\* In a behaviour of the channel.
OfChannelInv == scenario = "channel" => ChannelInv

\* Any number of surfaces, frames, round trip times and resets.
THEOREM ChannelInvariant == GraphicsSpec => []OfChannelInv
<1>1. GraphicsInit => OfChannelInv
  BY ChannelInit DEF GraphicsInit, OfChannelInv
<1>2. OfChannelInv /\ [GraphicsNext]_graphicsVars => OfChannelInv'
  <2> SUFFICES ASSUME OfChannelInv, [GraphicsNext]_graphicsVars, scenario' = "channel"
               PROVE  ChannelInv'
    BY DEF OfChannelInv
  <2>1. CASE OfChannel /\ Next
    BY <2>1, ChannelStep DEF OfChannel, OfChannelInv
  <2>2. CASE OfEncoding /\ E!Next
    BY <2>2 DEF OfEncoding
  <2>3. CASE UNCHANGED graphicsVars
    BY <2>3, ChannelStutters DEF graphicsVars, OfChannelInv
  <2> QED BY <2>1, <2>2, <2>3 DEF GraphicsNext
<1> QED BY <1>1, <1>2, PTL DEF GraphicsSpec

THEOREM ChannelTypeCorrect == GraphicsSpec => [](scenario = "channel" => TypeOK)
<1>1. OfChannelInv => (scenario = "channel" => TypeOK)
  BY ChannelTypes DEF OfChannelInv
<1> QED BY <1>1, ChannelInvariant, PTL

THEOREM ChannelCorrect == GraphicsSpec => []ChannelSound
<1>1. OfChannelInv => ChannelSound
  BY ChannelTables, ChannelSuspension DEF OfChannelInv, ChannelSound
<1> QED BY <1>1, ChannelInvariant, PTL

(* The encoding: its inductive invariant. *)

PictureOrNone == E!Picture \cup {E!NoPicture}

EncodedFrame ==
  [is : BOOLEAN, type : {"main", "aux", "dual"}, picture : PictureOrNone, base : PictureOrNone,
   damage : SUBSET Tile, need : SUBSET Tile, valid : BOOLEAN, bitstreams : Nat,
   local : E!Local \cup {0}]

\* Views to be encoded, or that wait for their bitstream.
ViewLists == {<<>>, <<"main">>, <<"aux">>, <<"main", "aux">>}

\* Well-formed frames and lists of views.
Typed ==
  /\ E!TypeOK
  /\ frames \in [E!Stage -> EncodedFrame]
  /\ todo \in ViewLists /\ lockTasks \in ViewLists

\* A stage without a frame holds nothing.
EmptyStages == \A s \in E!Stage : ~E!At(s) => frames[s] = E!NoFrame

\* What frames can be in each stage.
Kinds ==
  /\ \A s \in {"queued", "creating"} :
       /\ frames[s].type # "aux" /\ frames[s].need = {}
       /\ frames[s].bitstreams = 0 /\ ~frames[s].valid
  /\ frames["queued"].local = 0 /\ frames["viewed"].bitstreams = 0
  /\ E!At("viewed") /\ ~frames["viewed"].valid => failed
  /\ \A s \in E!Stage :
       /\ frames[s].need \subseteq frames[s].damage
       /\ frames[s].type = "dual" => frames[s].need = {}
       /\ codec # "avc444" => frames[s].type = "main" /\ frames[s].need = {}
  /\ codec # "avc444" => chroma = {}

\* The view creator and the encode session have one frame each, and render_surfaces leaves no
\* frame behind that is rendered.
Flow ==
  /\ ~(E!At("creating") /\ E!At("viewed"))
  /\ ~(E!At("encoding") /\ E!At("encoded"))
  /\ E!At("rendered") => phase # "idle"
  /\ E!At("rendered") /\ phase = "fetched" => ~E!At("encoding") /\ ~E!At("encoded")
  /\ phase = "encode" => E!At("encoding") /\ ~E!At("creating") /\ ~E!At("viewed")
  /\ E!At("rendered") /\ phase \in {"encode", "views"} /\ (E!At("encoding") \/ E!At("encoded"))
       => ~E!At("creating")

\* The views whose bitstream was not fetched.
Unlocked == IF bitstream = "none" THEN lockTasks ELSE Tail(lockTasks)
Listed(list) == {list[i] : i \in 1 .. Len(list)}
ToEncode(s) == Len(E!ViewsToEncode(frames[s]))

\* The views of the frame that is being encoded.
InProgress == frames["encoding"].bitstreams + Len(lockTasks) + Len(todo)

\* A view that was to be encoded waits, or has a bitstream, until a device fails.
Submissions ==
  /\ todo # <<>> <=> phase = "encode"
  /\ bitstream # "none" => lockTasks # <<>>
  /\ encodes = Listed(Unlocked)
  /\ lockTasks # <<>> => E!At("encoding")
  /\ phase = "encode" =>
       lockTasks \o todo = E!ViewsToEncode(frames["encoding"]) /\ frames["encoding"].bitstreams = 0
  /\ E!At("encoding") => InProgress <= ToEncode("encoding")
  /\ E!At("encoding") /\ ~failed => InProgress = ToEncode("encoding")
  /\ \A s \in {"encoded", "rendered"} : E!At(s) => frames[s].bitstreams <= ToEncode(s)
  /\ E!At("encoded") /\ ~failed => frames["encoded"].bitstreams = ToEncode("encoded")
  /\ E!At("rendered") /\ (~failed \/ (~stopped /\ phase # "fetched")) =>
       frames["rendered"].bitstreams = ToEncode("rendered")
  /\ broken => stopped \/ (failed /\ phase = "fetched")
  /\ stopped => failed

\* Every view and every bitstream is held by a frame, by lock_bitstream or by the encoder.
Pools ==
  /\ views = E!ViewsIn(E!Stage)
  /\ buffers = E!BitstreamsIn(E!Stage) + (IF bitstream = "ok" THEN 1 ELSE 0)
               + (IF codec = "progressive" THEN 0 ELSE Cardinality(encodes))

\* A local buffer belongs to one frame, and the last one to the frame that was viewed last.
Locals ==
  /\ locals = {frames[s].local : s \in E!Stage} \ {0}
  /\ \A s, t \in E!Stage : s # t /\ frames[s].local = frames[t].local => frames[s].local = 0
  /\ codec = "progressive" =>
       /\ E!At("viewed") /\ frames["viewed"].valid => frames["viewed"].local = lastLocal
       /\ E!At("creating") => frames["creating"].local # 0
       /\ \A s \in {"encoding", "encoded"} :
            E!At("rendered") /\ phase \in {"encode", "views"} /\ E!At(s) =>
              frames[s].local = lastLocal

\* An upgrade is of the last picture, and what of it was not sent waits for it.
Upgrades ==
  /\ E!At("creating") => frames["creating"].picture = lastPicture
  /\ canUpgrade /\ ~stopped => chroma # {} /\ views = 0 /\ auxPicture # E!NoPicture
  /\ auxPicture # E!NoPicture =>
       auxPicture = lastPicture /\ ~E!At("queued") /\ ~E!At("creating")
  /\ chroma # {} /\ ~stopped /\ auxPicture = E!NoPicture =>
       E!At("queued") \/ E!At("creating") \/ (E!At("viewed") /\ ~frames["viewed"].valid)

\* An upgrade is on its way.
IsAux(s) == E!At(s) /\ frames[s].type = "aux"

\* What the client will have when the frames that are encoded arrived.
OnceEncodedArrived ==
  E!Shown(E!Shown(E!Shown(screen, frames["rendered"]), frames["encoded"]), frames["encoding"])

\* What the next damage is computed from is what the client will show, and it will owe what is
\* remembered.
Bases ==
  /\ E!OnceArrived.owed = chroma
  /\ IF E!At("creating")
     THEN frames["creating"].base \in {E!OnceArrived.shows, E!NoPicture}
     ELSE E!OnceArrived.shows = lastPicture
  /\ E!At("queued") => frames["queued"].base \in {lastPicture, E!NoPicture}
  /\ E!At("viewed") /\ frames["viewed"].type # "aux" /\ frames["viewed"].damage = {} =>
       OnceEncodedArrived.shows \in E!Picture

\* No frame overtakes an upgrade, which is of the picture that the client shows.
UpgradesLead ==
  /\ IsAux("viewed") => ~E!At("encoding") /\ ~E!At("encoded") /\ ~E!At("rendered")
  /\ IsAux("encoding") \/ IsAux("encoded") => ~E!At("rendered")
  /\ \A s \in E!Stage : IsAux(s) => \A t \in frames[s].damage : screen.shows[t] = frames[s].picture[t]

\* Of a context whose devices work.
Follows == ~stopped /\ ~failed => Bases /\ UpgradesLead

EncInv == /\ Typed /\ EmptyStages /\ Kinds /\ Flow /\ Submissions /\ Pools /\ Locals /\ Upgrades
          /\ Follows

--------------------------------------------------------------------------------

\* There is a tile, so no picture is like none.
LEMMA NoPictureIsNone == E!NoPicture \notin E!Picture
<1>1. Tile # {}
  BY GraphicsAssumption
<1>2. \A p \in E!Picture : DOMAIN p = Tile
  BY DEF E!Picture
<1>3. DOMAIN E!NoPicture = {}
  BY DEF E!NoPicture
<1> QED BY <1>1, <1>2, <1>3

\* Nothing is on its way when the encoding starts.
LEMMA EncInit == E!Init => EncInv
<1> SUFFICES ASSUME E!Init
             PROVE  EncInv
  OBVIOUS
<1>1. E!NoFrame \in EncodedFrame
  BY DEF E!NoFrame, EncodedFrame, PictureOrNone
<1>2. \A s \in E!Stage : frames[s] = E!NoFrame /\ ~E!At(s)
  BY DEF E!Init, E!At, E!NoFrame
<1>3. Typed
  <2>1. MaxPictures[codec] \in Nat
    BY GraphicsAssumption DEF E!Init
  <2>2. /\ codec \in Codecs /\ pictures \in 0 .. MaxPictures[codec]
        /\ wanted = E!NoPicture /\ lastPicture = E!NoPicture /\ auxPicture = E!NoPicture
    BY <2>1 DEF E!Init
  <2>4. \A s \in E!Stage : ~frames[s].is
    BY <1>2 DEF E!At
  <2>5. /\ locals \subseteq E!Local /\ lastLocal \in E!Local \cup {0}
    BY DEF E!Init
  <2>6. {wanted, lastPicture, auxPicture} \subseteq E!Picture \cup {E!NoPicture}
    BY <2>2
  <2>7. encodes = {} /\ {views, buffers} \subseteq Nat
    BY DEF E!Init
  <2>8. chroma = {} /\ bitstream = "none"
    BY DEF E!Init
  <2>9. phase = "idle"
    BY DEF E!Init
  <2>10. /\ hasLast \in BOOLEAN /\ canUpgrade \in BOOLEAN /\ due \in BOOLEAN /\ render \in BOOLEAN
         /\ failed \in BOOLEAN /\ stopped \in BOOLEAN /\ broken \in BOOLEAN
    BY DEF E!Init
  <2>3. E!TypeOK
    BY <2>2, <2>4, <2>5, <2>6, <2>7, <2>8, <2>9, <2>10 DEF E!TypeOK
  <2> QED BY <1>1, <2>3 DEF E!Init, Typed, ViewLists
<1>4. EmptyStages
  BY <1>2 DEF EmptyStages
<1>5. Kinds /\ Flow /\ Upgrades
  BY <1>2 DEF E!Init, E!Stage, Kinds, Flow, Upgrades, E!NoFrame
<1>6. Submissions
  <2>1. Unlocked = <<>>
    BY DEF E!Init, Unlocked
  <2>2. Listed(Unlocked) = {}
    BY <2>1 DEF Listed
  <2> QED BY <1>2, <2>2 DEF E!Init, E!Stage, Submissions
<1>7. Pools /\ Locals
  <2>1. Cardinality({}) = 0
    BY FS_EmptySet
  <2>2. /\ E!ViewsIn(E!Stage) = 0 /\ E!BitstreamsIn(E!Stage) = 0
    <3>1. \A s \in E!Stage : E!ViewsHeld(frames[s]) = 0 /\ frames[s].bitstreams = 0
      BY <1>2 DEF E!ViewsHeld, E!NoFrame
    <3> QED BY <3>1 DEF E!ViewsIn, E!BitstreamsIn, E!Total, E!Stage
  <2>3. \A s \in E!Stage : frames[s].local = 0
    BY <1>2 DEF E!NoFrame
  <2>4. {frames[s].local : s \in E!Stage} \ {0} = {}
    BY <2>3
  <2> QED BY <1>2, <2>1, <2>2, <2>3, <2>4 DEF E!Init, Pools, Locals, E!Stage
<1>8. Follows
  <2>1. \A s \in E!Stage : ~frames[s].is
    BY <1>2 DEF E!At
  <2>2. \A c : \A s \in E!Stage : E!Shown(c, frames[s]) = c
    BY <2>1 DEF E!Shown
  <2>3. E!OnceArrived = screen
    BY <2>2 DEF E!OnceArrived, E!Stage
  <2> QED BY <1>2, <2>3 DEF E!Init, E!Stage, Follows, Bases, UpgradesLead, IsAux
<1> QED BY <1>3, <1>4, <1>5, <1>6, <1>7, <1>8 DEF EncInv

\* What of the state the invariant speaks of, but for E!TypeOK.
coreVars == <<codec, chroma, auxPicture, lastPicture, canUpgrade, frames, phase, todo, encodes,
              lockTasks, bitstream, views, buffers, locals, lastLocal, failed, stopped, broken,
              screen>>

\* The invariant is about the state of the frames, the pools and the client.
LEMMA CoreUnchanged ==
  ASSUME EncInv, UNCHANGED coreVars, E!TypeOK'
  PROVE  EncInv'
<1> USE DEF coreVars
<1>1. \A s : E!At(s)' = E!At(s)
  BY DEF E!At
<1>2. Typed'
  BY DEF EncInv, Typed, EncodedFrame, PictureOrNone, E!Local
<1>3. (EmptyStages /\ Kinds /\ Flow)'
  BY <1>1 DEF EncInv, EmptyStages, Kinds, Flow
<1>4. Submissions'
  BY <1>1 DEF EncInv, Submissions, Unlocked, InProgress, ToEncode, E!ViewsToEncode
<1>5. (Pools /\ Locals)'
  BY <1>1 DEF EncInv, Pools, Locals, E!ViewsIn, E!BitstreamsIn, E!Total, E!ViewsHeld, E!PerFrame
<1>6. Upgrades'
  BY <1>1 DEF EncInv, Upgrades
<1>7. Follows'
  <2>1. /\ E!OnceArrived' = E!OnceArrived
        /\ OnceEncodedArrived' = OnceEncodedArrived
    BY DEF OnceEncodedArrived, E!OnceArrived
  <2> QED BY <1>1, <2>1 DEF EncInv, Follows, Bases, UpgradesLead, IsAux
<1> QED BY <1>2, <1>3, <1>4, <1>5, <1>6, <1>7 DEF EncInv

\* A buffer that is submitted is not a frame yet.
LEMMA SubmitBufferKeeps ==
  ASSUME EncInv, NEW p \in E!Picture, E!SubmitBuffer(p)
  PROVE  EncInv'
<1>1. UNCHANGED coreVars
  BY DEF E!SubmitBuffer, coreVars, E!contextVars, E!upgradeVars, E!encodeVars, E!poolVars, E!endVars
<1>2. E!TypeOK'
  <2>1. MaxPictures[codec] \in Nat
    BY GraphicsAssumption DEF EncInv, Typed, E!TypeOK
  <2>2. /\ pictures < MaxPictures[codec] /\ pictures' = pictures + 1 /\ wanted' = p
        /\ UNCHANGED <<hasLast, due, render>>
    BY DEF E!SubmitBuffer, E!contextVars, E!upgradeVars
  <2>3. E!TypeOK
    BY DEF EncInv, Typed
  <2>4. /\ hasLast' \in BOOLEAN /\ canUpgrade' \in BOOLEAN /\ due' \in BOOLEAN
        /\ render' \in BOOLEAN /\ failed' \in BOOLEAN /\ stopped' \in BOOLEAN
        /\ broken' \in BOOLEAN
    BY <1>1, <2>2, <2>3 DEF E!TypeOK, coreVars
  <2> QED BY <1>1, <2>1, <2>2, <2>3, <2>4 DEF E!TypeOK, coreVars, E!Local
<1> QED BY <1>1, <1>2, CoreUnchanged

\* A frame that refers to the last buffer keeps its picture.
LEMMA RemoveBufferKeeps ==
  ASSUME EncInv, E!RemoveBuffer
  PROVE  EncInv'
<1>1. UNCHANGED coreVars
  BY DEF E!RemoveBuffer, coreVars, E!contextVars, E!upgradeVars, E!encodeVars, E!poolVars, E!endVars
<1>2. hasLast' = FALSE /\ UNCHANGED <<pictures, wanted, due, render>>
  BY DEF E!RemoveBuffer, E!upgradeVars
<1>3. E!TypeOK'
  <2>1. E!TypeOK
    BY DEF EncInv, Typed
  <2>2. /\ hasLast' \in BOOLEAN /\ canUpgrade' \in BOOLEAN /\ due' \in BOOLEAN
        /\ render' \in BOOLEAN /\ failed' \in BOOLEAN /\ stopped' \in BOOLEAN
        /\ broken' \in BOOLEAN
    BY <1>1, <1>2, <2>1 DEF E!TypeOK, coreVars
  <2> QED BY <1>1, <1>2, <2>1, <2>2 DEF E!TypeOK, coreVars, E!Local
<1> QED BY <1>1, <1>3, CoreUnchanged

\* Nothing is upgraded.
LEMMA UpgradeNothingKeeps ==
  ASSUME EncInv, E!UpgradeNothing
  PROVE  EncInv'
<1>1. UNCHANGED coreVars
  BY DEF E!UpgradeNothing, coreVars, E!contextVars, E!upgradeVars, E!encodeVars, E!poolVars, E!endVars
<1>2. E!TypeOK'
  <2>1. due' = FALSE /\ UNCHANGED <<pictures, wanted, hasLast, render>>
    BY DEF E!UpgradeNothing, E!contextVars
  <2>2. E!TypeOK
    BY DEF EncInv, Typed
  <2>3. /\ hasLast' \in BOOLEAN /\ canUpgrade' \in BOOLEAN /\ due' \in BOOLEAN
        /\ render' \in BOOLEAN /\ failed' \in BOOLEAN /\ stopped' \in BOOLEAN
        /\ broken' \in BOOLEAN
    BY <1>1, <2>1, <2>2 DEF E!TypeOK, coreVars
  <2> QED BY <1>1, <2>1, <2>2, <2>3 DEF E!TypeOK, coreVars, E!Local
<1> QED BY <1>1, <1>2, CoreUnchanged

(* Sums over the stages. *)

\* What the stages hold is what two parts of them hold.
LEMMA TotalOfParts ==
  ASSUME NEW n \in [E!Stage -> Nat], NEW a \in [E!Stage -> Nat], NEW b \in [E!Stage -> Nat],
         \A s \in E!Stage : n[s] = a[s] + b[s]
  PROVE  E!Total(n) = E!Total(a) + E!Total(b) /\ E!Total(n) \in Nat /\ E!Total(a) \in Nat
         /\ E!Total(b) \in Nat
BY DEF E!Total, E!Stage

\* What one stage holds is counted.
LEMMA TotalBounds ==
  ASSUME NEW n \in [E!Stage -> Nat]
  PROVE  /\ E!Total(n) \in Nat
         /\ \A s \in E!Stage : n[s] <= E!Total(n)
BY DEF E!Total, E!Stage

\* A frame has one view, or two.
LEMMA CodecKnown ==
  ASSUME EncInv
  PROVE  /\ codec \in {"avc444", "avc420", "progressive"}
         /\ E!PerFrame \in 1 .. 2
BY GraphicsAssumption DEF EncInv, Typed, E!TypeOK, E!PerFrame

\* A frame holds one view at least and those of one frame at most, and an empty stage nothing.
LEMMA HeldRange ==
  ASSUME EncInv
  PROVE  \A s \in E!Stage : /\ E!ViewsHeld(frames[s]) \in 0 .. E!PerFrame
                            /\ frames[s].bitstreams \in Nat
                            /\ E!At(s) => E!ViewsHeld(frames[s]) >= 1
                            /\ ~E!At(s) => E!ViewsHeld(frames[s]) = 0 /\ frames[s].bitstreams = 0
<1>1. E!PerFrame \in 1 .. 2
  BY CodecKnown
<1>2. \A s \in E!Stage : frames[s] \in EncodedFrame
  BY DEF EncInv, Typed
<1>3. E!NoFrame.bitstreams = 0
  BY DEF E!NoFrame
<1> QED BY <1>1, <1>2, <1>3 DEF E!ViewsHeld, E!At, EncodedFrame, EncInv, EmptyStages

\* Without views there are no frames.
LEMMA NoViewsNoFrames ==
  ASSUME EncInv
  PROVE  /\ views \in Nat
         /\ views = 0 => \A s \in E!Stage : ~E!At(s)
<1> DEFINE n == [s \in E!Stage |-> IF s \in E!Stage THEN E!ViewsHeld(frames[s]) ELSE 0]
<1>1. n \in [E!Stage -> Nat] /\ \A s \in E!Stage : n[s] = E!ViewsHeld(frames[s])
  BY HeldRange, CodecKnown
<1>2. views = E!Total(n)
  BY DEF EncInv, Pools, E!ViewsIn
<1> HIDE DEF n
<1> QED BY <1>1, <1>2, TotalBounds, HeldRange, CodecKnown

(* Frames that are freed. *)

\* What grd_rdp_frame_free leaves: the other frames are as they were.
LEMMA FreedFrames ==
  ASSUME EncInv, NEW stages \in SUBSET E!Stage, frames' = E!Freed(stages)
  PROVE  /\ frames' \in [E!Stage -> EncodedFrame]
         /\ \A s \in stages : frames'[s] = E!NoFrame /\ ~E!At(s)'
         /\ \A s \in E!Stage \ stages : frames'[s] = frames[s] /\ E!At(s)' = E!At(s)
<1>1. E!NoFrame \in EncodedFrame
  BY DEF E!NoFrame, EncodedFrame, PictureOrNone
<1> QED BY <1>1 DEF E!Freed, EncInv, Typed, E!At, E!NoFrame

\* The views of the frames that are freed are not counted any more.
LEMMA FreedViews ==
  ASSUME EncInv, NEW stages \in SUBSET E!Stage, E!Free(stages), frames' = E!Freed(stages),
         codec' = codec
  PROVE  /\ views' = E!ViewsIn(E!Stage)' /\ views' \in Nat
         /\ \A s \in E!Stage \ stages : E!ViewsHeld(frames[s]) <= views'
<1> DEFINE F == {s \in stages : E!At(s)}
           n == [s \in E!Stage |-> IF s \in E!Stage THEN E!ViewsHeld(frames[s]) ELSE 0]
           a == [s \in E!Stage |-> IF s \in F THEN E!ViewsHeld(frames[s]) ELSE 0]
           b == [s \in E!Stage |-> IF s \in E!Stage THEN E!ViewsHeld(frames[s])' ELSE 0]
<1>1. \A s \in E!Stage : E!ViewsHeld(frames[s])' = IF s \in stages THEN 0 ELSE E!ViewsHeld(frames[s])
  BY FreedFrames DEF E!ViewsHeld, E!PerFrame, E!NoFrame
<1>2. \A s \in E!Stage : E!ViewsHeld(frames[s]) \in Nat /\ (~E!At(s) => E!ViewsHeld(frames[s]) = 0)
  BY HeldRange, CodecKnown
<1>3. n \in [E!Stage -> Nat] /\ a \in [E!Stage -> Nat] /\ b \in [E!Stage -> Nat]
  BY <1>1, <1>2
<1>4. \A s \in E!Stage : n[s] = a[s] + b[s]
  BY <1>1, <1>2
<1>5. views = E!Total(n) /\ views' = views - E!Total(a)
  BY DEF EncInv, Pools, E!ViewsIn, E!Free
<1>6. E!ViewsIn(E!Stage)' = E!Total(b)
  BY DEF E!ViewsIn
<1>7. \A s \in E!Stage \ stages : b[s] = E!ViewsHeld(frames[s])
  BY <1>1
<1> HIDE DEF n, a, b
<1>8. views' = E!Total(b)
  <2>1. /\ E!Total(n) = E!Total(a) + E!Total(b)
        /\ E!Total(a) \in Nat /\ E!Total(b) \in Nat
    BY <1>3, <1>4, TotalOfParts
  <2> QED BY <2>1, <1>5
<1> QED BY <1>3, <1>6, <1>7, <1>8, TotalBounds

\* The local buffers of the frames that are freed belong to nobody.
LEMMA FreedLocals ==
  ASSUME EncInv, NEW stages \in SUBSET E!Stage, E!Free(stages), frames' = E!Freed(stages)
  PROVE  /\ locals' = {frames'[s].local : s \in E!Stage} \ {0}
         /\ \A s, t \in E!Stage : s # t /\ frames'[s].local = frames'[t].local => frames'[s].local = 0
<1> DEFINE F == {s \in stages : E!At(s)}
<1>1. \A s \in E!Stage : frames'[s].local = IF s \in stages THEN 0 ELSE frames[s].local
  BY FreedFrames DEF E!NoFrame
<1>2. \A s \in E!Stage : ~E!At(s) => frames[s].local = 0
  BY DEF EncInv, EmptyStages, E!NoFrame
<1>3. locals' = ({frames[s].local : s \in E!Stage} \ {0}) \ {frames[s].local : s \in F}
  BY DEF E!Free, EncInv, Locals
<1>4. \A s, t \in E!Stage : s # t /\ frames[s].local = frames[t].local => frames[s].local = 0
  BY DEF EncInv, Locals
<1>5. \A x : x \in locals' <=> \E s \in E!Stage : x = frames[s].local /\ x # 0 /\ s \notin stages
  BY <1>2, <1>3, <1>4
<1>6. \A x : x \in locals' <=> x \in {frames'[s].local : s \in E!Stage} \ {0}
  BY <1>1, <1>5
<1> QED BY <1>1, <1>4, <1>6

\* After frames were freed, an upgrade is scheduled if no view is in use and there is something
\* to upgrade.
LEMMA FreedUpgrades ==
  ASSUME EncInv, NEW stages \in SUBSET E!Stage, E!Free(stages), frames' = E!Freed(stages),
         UNCHANGED <<codec, chroma, auxPicture>>, stopped => stopped',
         auxPicture # E!NoPicture \/ E!At("creating") => lastPicture' = lastPicture,
         stopped' \/ (stages \subseteq E!Stage \ {"queued", "creating", "viewed"})
         \/ (stages = {"viewed"} /\ frames["viewed"].valid)
  PROVE  Upgrades'
<1> DEFINE waits(s) == E!At(s) /\ (s = "viewed" => ~frames[s].valid)
<1>1. chroma # {} /\ ~stopped' /\ auxPicture = E!NoPicture =>
        \E s \in {"queued", "creating", "viewed"} : s \notin stages /\ waits(s)
  BY DEF EncInv, Upgrades
<1>2. \A s \in E!Stage \ stages : waits(s) => waits(s)' /\ views' >= 1
  <2>1. views' \in Nat /\ \A s \in E!Stage \ stages : E!ViewsHeld(frames[s]) <= views'
    BY FreedViews
  <2>2. \A s \in E!Stage : E!ViewsHeld(frames[s]) \in Nat /\ (E!At(s) => E!ViewsHeld(frames[s]) >= 1)
    BY HeldRange, CodecKnown
  <2> QED BY <2>1, <2>2, FreedFrames
<1>3. canUpgrade' /\ ~stopped' => chroma # {} /\ views' = 0
  <2>1. CASE \E s \in stages : E!At(s)
    BY <2>1 DEF E!Free
  <2>2. CASE ~ \E s \in stages : E!At(s)
    <3>1. canUpgrade' = canUpgrade
      BY <2>2 DEF E!Free
    <3>2. views' = E!ViewsIn(E!Stage)
      <4>1. \A s \in E!Stage : frames'[s] = frames[s]
        BY <2>2, FreedFrames DEF EncInv, EmptyStages
      <4>2. E!ViewsIn(E!Stage)' = E!ViewsIn(E!Stage)
        BY <4>1 DEF E!ViewsIn, E!ViewsHeld, E!PerFrame
      <4> QED BY <4>2, FreedViews
    <3> QED BY <3>1, <3>2 DEF EncInv, Upgrades, Pools
  <2> QED BY <2>1, <2>2
<1>4. /\ E!At("queued")' => E!At("queued")
      /\ E!At("creating")' => E!At("creating") /\ frames'["creating"] = frames["creating"]
  BY FreedFrames DEF E!Stage
<1>5. canUpgrade' /\ ~stopped' => auxPicture # E!NoPicture
  <2> SUFFICES ASSUME canUpgrade', ~stopped', auxPicture = E!NoPicture
               PROVE  FALSE
    OBVIOUS
  <2> QED BY <1>1, <1>2, <1>3 DEF E!Stage
<1> QED BY <1>1, <1>2, <1>3, <1>4, <1>5 DEF EncInv, Upgrades, E!Stage

(* Frames that go from one stage to another. *)

\* A frame that moves takes along what it holds.
LEMMA TotalOfMoved ==
  ASSUME NEW n \in [E!Stage -> Nat], NEW m \in [E!Stage -> Nat],
         NEW from \in E!Stage, NEW to \in E!Stage \ {from}, n[to] = 0, m[from] = 0,
         \A s \in E!Stage \ {from, to} : m[s] = n[s]
  PROVE  E!Total(m) = E!Total(n) - n[from] + m[to]
BY DEF E!Total, E!Stage

\* The frame is in its new stage, and nothing where it was.
LEMMA MovedFrames ==
  ASSUME EncInv, NEW f \in EncodedFrame, f.is, NEW from \in E!Stage, NEW to \in E!Stage \ {from},
         frames' = E!Moved(f, from, to)
  PROVE  /\ frames' \in [E!Stage -> EncodedFrame]
         /\ frames'[from] = E!NoFrame /\ ~E!At(from)' /\ frames'[to] = f /\ E!At(to)'
         /\ \A s \in E!Stage \ {from, to} : frames'[s] = frames[s] /\ E!At(s)' = E!At(s)
<1>1. E!NoFrame \in EncodedFrame
  BY DEF E!NoFrame, EncodedFrame, PictureOrNone
<1>2. frames \in [E!Stage -> EncodedFrame]
  BY DEF EncInv, Typed
<1> QED BY <1>1, <1>2 DEF E!Moved, E!At, E!NoFrame

\* Moving a frame acquires no views and releases none.
LEMMA MovedViews ==
  ASSUME EncInv, NEW f \in EncodedFrame, f.is, NEW from \in E!Stage, NEW to \in E!Stage \ {from},
         frames' = E!Moved(f, from, to), codec' = codec, ~E!At(to), views' = views,
         E!ViewsHeld(f) = E!ViewsHeld(frames[from])
  PROVE  views' = E!ViewsIn(E!Stage)' /\ views' \in Nat
<1> DEFINE n == [s \in E!Stage |-> IF s \in E!Stage THEN E!ViewsHeld(frames[s]) ELSE 0]
           m == [s \in E!Stage |-> IF s \in E!Stage THEN E!ViewsHeld(frames[s])' ELSE 0]
<1>1. \A s \in E!Stage : E!ViewsHeld(frames[s]) \in Nat /\ (~E!At(s) => E!ViewsHeld(frames[s]) = 0)
  BY HeldRange, CodecKnown
<1>2. /\ E!ViewsHeld(frames[from])' = 0 /\ E!ViewsHeld(frames[to])' = E!ViewsHeld(frames[from])
      /\ \A s \in E!Stage \ {from, to} : E!ViewsHeld(frames[s])' = E!ViewsHeld(frames[s])
  BY MovedFrames DEF E!ViewsHeld, E!PerFrame, E!NoFrame
<1>3. n \in [E!Stage -> Nat] /\ m \in [E!Stage -> Nat]
  BY <1>1, <1>2
<1>4. /\ n[to] = 0 /\ m[from] = 0 /\ m[to] = n[from]
      /\ \A s \in E!Stage \ {from, to} : m[s] = n[s]
  BY <1>1, <1>2
<1>5. views' = E!Total(n) /\ E!ViewsIn(E!Stage)' = E!Total(m)
  BY DEF EncInv, Pools, E!ViewsIn
<1> HIDE DEF n, m
<1>6. E!Total(m) = E!Total(n) - n[from] + m[to]
  BY <1>3, <1>4, TotalOfMoved
<1>7. E!Total(n) \in Nat /\ n[from] \in Nat
  BY <1>3, TotalBounds
<1> QED BY <1>4, <1>5, <1>6, <1>7

\* The bitstreams that a frame got on its way.
LEMMA MovedBitstreams ==
  ASSUME EncInv, NEW f \in EncodedFrame, f.is, NEW from \in E!Stage, NEW to \in E!Stage \ {from},
         frames' = E!Moved(f, from, to), ~E!At(to)
  PROVE  /\ E!BitstreamsIn(E!Stage)' = E!BitstreamsIn(E!Stage) - frames[from].bitstreams + f.bitstreams
         /\ E!BitstreamsIn(E!Stage) \in Nat /\ f.bitstreams \in Nat /\ frames[from].bitstreams \in Nat
<1> DEFINE n == [s \in E!Stage |-> IF s \in E!Stage THEN frames[s].bitstreams ELSE 0]
           m == [s \in E!Stage |-> IF s \in E!Stage THEN frames'[s].bitstreams ELSE 0]
<1>1. \A s \in E!Stage : frames[s].bitstreams \in Nat /\ (~E!At(s) => frames[s].bitstreams = 0)
  BY HeldRange
<1>2. f.bitstreams \in Nat
  BY DEF EncodedFrame
<1>3. /\ frames'[from].bitstreams = 0 /\ frames'[to].bitstreams = f.bitstreams
      /\ \A s \in E!Stage \ {from, to} : frames'[s].bitstreams = frames[s].bitstreams
  BY MovedFrames DEF E!NoFrame
<1>4. n \in [E!Stage -> Nat] /\ m \in [E!Stage -> Nat]
  BY <1>1, <1>2, <1>3
<1>5. /\ n[to] = 0 /\ m[from] = 0 /\ m[to] = f.bitstreams /\ n[from] = frames[from].bitstreams
      /\ \A s \in E!Stage \ {from, to} : m[s] = n[s]
  BY <1>1, <1>3
<1>6. E!BitstreamsIn(E!Stage) = E!Total(n) /\ E!BitstreamsIn(E!Stage)' = E!Total(m)
  BY DEF E!BitstreamsIn
<1> HIDE DEF n, m
<1>7. E!Total(m) = E!Total(n) - n[from] + m[to]
  BY <1>4, <1>5, TotalOfMoved
<1>8. E!Total(n) \in Nat /\ n[from] \in Nat
  BY <1>4, TotalBounds
<1> QED BY <1>2, <1>5, <1>6, <1>7, <1>8

\* The local buffer goes with the frame.
LEMMA MovedLocals ==
  ASSUME EncInv, NEW f \in EncodedFrame, f.is, NEW from \in E!Stage, NEW to \in E!Stage \ {from},
         frames' = E!Moved(f, from, to), ~E!At(to), f.local = frames[from].local, locals' = locals
  PROVE  /\ locals' = {frames'[s].local : s \in E!Stage} \ {0}
         /\ \A s, t \in E!Stage : s # t /\ frames'[s].local = frames'[t].local => frames'[s].local = 0
<1>1. \A s \in E!Stage : ~E!At(s) => frames[s].local = 0
  BY DEF EncInv, EmptyStages, E!NoFrame
<1>2. /\ frames'[from].local = 0 /\ frames'[to].local = frames[from].local
      /\ \A s \in E!Stage \ {from, to} : frames'[s].local = frames[s].local
  BY MovedFrames DEF E!NoFrame
<1>3. locals = {frames[s].local : s \in E!Stage} \ {0}
  BY DEF EncInv, Locals
<1>4. \A s, t \in E!Stage : s # t /\ frames[s].local = frames[t].local => frames[s].local = 0
  BY DEF EncInv, Locals
<1>5. frames[to].local = 0
  BY <1>1
<1>6. \A x : x \in {frames[s].local : s \in E!Stage} \ {0}
             <=> x \in {frames'[s].local : s \in E!Stage} \ {0}
  BY <1>2, <1>5
<1> QED BY <1>2, <1>3, <1>4, <1>5, <1>6

(* What the client has. *)

\* No frame, no change.
LEMMA ShownNothing ==
  /\ \A c, f : ~f.is => E!Shown(c, f) = c
  /\ \A c : E!Shown(c, E!NoFrame) = c
BY DEF E!Shown, E!NoFrame

\* A frame has one view to be encoded, or two.
LEMMA ViewsToEncodeOf ==
  ASSUME NEW f \in EncodedFrame
  PROVE  /\ E!ViewsToEncode(f) \in ViewLists \ {<<>>}
         /\ Len(E!ViewsToEncode(f)) \in 1 .. 2
         /\ f.type # "dual" => Len(E!ViewsToEncode(f)) = 1
BY DEF EncodedFrame, E!ViewsToEncode, ViewLists

\* The frame that was rendered is gone when render_surfaces has returned.
LEMMA RenderedIdle ==
  ASSUME EncInv, phase = "idle"
  PROVE  ~E!At("rendered") /\ frames["rendered"] = E!NoFrame
BY DEF EncInv, Flow, EmptyStages, E!Stage

\* fetch_rendered_frames finds nothing.
LEMMA FetchNothingKeeps ==
  ASSUME EncInv, E!FetchRenderedFrames, ~E!At("encoded")
  PROVE  EncInv'
<1>1. /\ phase = "idle" /\ phase' = "fetched" /\ render' = FALSE
      /\ UNCHANGED <<pictures, wanted, frames, E!contextVars, E!upgradeVars, E!encodeVars, E!poolVars,
                     E!endVars, screen>>
  BY DEF E!FetchRenderedFrames, E!poolVars, E!endVars
<1> USE DEF E!contextVars, E!upgradeVars, E!encodeVars, E!poolVars, E!endVars
<1>2. ~E!At("rendered")
  BY <1>1, RenderedIdle
<1>3. \A s : E!At(s)' = E!At(s)
  BY <1>1 DEF E!At
<1>4. Typed'
  BY <1>1 DEF EncInv, Typed, EncodedFrame, PictureOrNone, E!Local, E!TypeOK
<1>5. (EmptyStages /\ Kinds)'
  BY <1>1, <1>3 DEF EncInv, EmptyStages, Kinds
<1>6. Flow'
  BY <1>1, <1>2, <1>3 DEF EncInv, Flow
<1>7. Submissions'
  BY <1>1, <1>2, <1>3 DEF EncInv, Submissions, Unlocked, InProgress, ToEncode, E!ViewsToEncode
<1>8. (Pools /\ Locals)'
  BY <1>1, <1>2, <1>3
     DEF EncInv, Pools, Locals, E!ViewsIn, E!BitstreamsIn, E!Total, E!ViewsHeld, E!PerFrame
<1>9. Upgrades'
  BY <1>1, <1>3 DEF EncInv, Upgrades
<1>10. Follows'
  <2>1. /\ E!OnceArrived' = E!OnceArrived
        /\ OnceEncodedArrived' = OnceEncodedArrived
    BY <1>1 DEF OnceEncodedArrived, E!OnceArrived
  <2> QED BY <1>1, <1>3, <2>1 DEF EncInv, Follows, Bases, UpgradesLead, IsAux
<1> QED BY <1>4, <1>5, <1>6, <1>7, <1>8, <1>9, <1>10 DEF EncInv

\* The encode session is done with its frame, which is submitted or freed later.
LEMMA FetchRenderedKeeps ==
  ASSUME EncInv, E!FetchRenderedFrames, E!At("encoded"), frames["encoded"].bitstreams # 0
  PROVE  EncInv'
<1> DEFINE f == frames["encoded"]
<1>1. /\ phase = "idle" /\ phase' = "fetched" /\ render' = FALSE
      /\ frames' = E!Moved(f, "encoded", "rendered")
      /\ UNCHANGED <<pictures, wanted, E!contextVars, E!upgradeVars, E!encodeVars, E!poolVars,
                     E!endVars, screen>>
  BY DEF E!FetchRenderedFrames, E!poolVars, E!endVars
<1> USE DEF E!contextVars, E!upgradeVars, E!encodeVars, E!poolVars, E!endVars
<1>2. ~E!At("rendered") /\ frames["rendered"] = E!NoFrame
  BY <1>1, RenderedIdle
<1>3. f \in EncodedFrame /\ f.is /\ {"encoded", "rendered"} \subseteq E!Stage
  BY DEF EncInv, Typed, E!At, E!Stage
<1>4. /\ frames' \in [E!Stage -> EncodedFrame]
      /\ frames'["encoded"] = E!NoFrame /\ ~E!At("encoded")'
      /\ frames'["rendered"] = f /\ E!At("rendered")'
      /\ \A s \in E!Stage \ {"encoded", "rendered"} : frames'[s] = frames[s] /\ E!At(s)' = E!At(s)
  BY <1>1, <1>3, MovedFrames
<1> HIDE DEF f
<1>5. Typed'
  <2>1. (\A s \in E!Stage : frames[s].is => frames[s].picture \in E!Picture)'
    BY <1>3, <1>4 DEF EncInv, Typed, E!TypeOK, E!Stage, f, E!NoFrame
  <2>2. E!TypeOK'
    BY <1>1, <2>1 DEF EncInv, Typed, E!TypeOK, E!Local
  <2>3. (frames \in [E!Stage -> EncodedFrame])'
    BY <1>1, <1>4 DEF EncodedFrame, E!Local
  <2> QED BY <1>1, <2>2, <2>3 DEF EncInv, Typed
<1>6. (EmptyStages /\ Kinds)'
  BY <1>1, <1>4 DEF EncInv, EmptyStages, Kinds, f, E!Stage, E!NoFrame
<1>7. Flow'
  BY <1>1, <1>2, <1>4 DEF EncInv, Flow, E!Stage
<1>8. Submissions'
  BY <1>1, <1>2, <1>4 DEF EncInv, Submissions, Unlocked, InProgress, ToEncode, E!ViewsToEncode, f, E!Stage
<1>9. Pools'
  <2>1. views' = E!ViewsIn(E!Stage)'
    BY <1>1, <1>2, <1>3, MovedViews DEF f
  <2>2. E!BitstreamsIn(E!Stage)' = E!BitstreamsIn(E!Stage)
    BY <1>1, <1>2, <1>3, MovedBitstreams DEF f
  <2> QED BY <1>1, <2>1, <2>2 DEF EncInv, Pools
<1>10. Locals'
  <2>1. /\ locals' = {frames'[s].local : s \in E!Stage} \ {0}
        /\ \A s, t \in E!Stage : s # t /\ frames'[s].local = frames'[t].local => frames'[s].local = 0
    BY <1>1, <1>2, <1>3, MovedLocals DEF f
  <2> QED BY <1>1, <1>4, <2>1 DEF EncInv, Locals, E!Stage
<1>11. Upgrades'
  BY <1>1, <1>4 DEF EncInv, Upgrades, E!Stage
<1>12. Follows'
  <2>1. /\ E!OnceArrived' = E!OnceArrived
        /\ OnceEncodedArrived' = OnceEncodedArrived
    BY <1>1, <1>2, <1>4, ShownNothing DEF OnceEncodedArrived, E!OnceArrived, E!Stage, f
  <2> QED BY <1>1, <1>2, <1>4, <2>1 DEF EncInv, Flow, Follows, Bases, UpgradesLead, IsAux, E!Stage, f
<1> QED BY <1>5, <1>6, <1>7, <1>8, <1>9, <1>10, <1>11, <1>12 DEF EncInv

\* What freeing frames leaves of the kinds.
LEMMA FreedKinds ==
  ASSUME EncInv, NEW stages \in SUBSET E!Stage, frames' = E!Freed(stages),
         UNCHANGED <<codec, chroma>>, failed => failed'
  PROVE  /\ (\A s \in E!Stage : frames[s].is => frames[s].picture \in E!Picture)'
         /\ (EmptyStages /\ Kinds)'
<1>1. /\ \A s \in stages : frames'[s] = E!NoFrame
      /\ \A s \in E!Stage \ stages : frames'[s] = frames[s]
  BY FreedFrames
<1>2. (EmptyStages)'
  BY <1>1 DEF EmptyStages, E!At, EncInv
<1>3. (\A s \in E!Stage : frames[s].is => frames[s].picture \in E!Picture)'
  BY <1>1 DEF EncInv, Typed, E!TypeOK, E!NoFrame
<1>4. Kinds'
  BY <1>1 DEF EncInv, Kinds, E!At, E!NoFrame, E!Stage
<1> QED BY <1>2, <1>3, <1>4

\* A frame without bitstreams is freed: its device failed.
LEMMA FetchIncompleteKeeps ==
  ASSUME EncInv, E!FetchRenderedFrames, E!At("encoded"), frames["encoded"].bitstreams = 0
  PROVE  EncInv'
<1>1. /\ phase = "idle" /\ phase' = "fetched" /\ render' = FALSE
      /\ E!Free({"encoded"}) /\ frames' = E!Freed({"encoded"}) /\ broken' = TRUE
      /\ UNCHANGED <<pictures, wanted, E!contextVars, E!encodeVars, buffers, lastLocal, failed,
                     stopped, screen>>
  BY DEF E!FetchRenderedFrames
<1> USE DEF E!contextVars, E!encodeVars
<1>2. ~E!At("rendered") /\ frames["rendered"] = E!NoFrame
  BY <1>1, RenderedIdle
<1>3. {"encoded"} \in SUBSET E!Stage
  BY DEF E!Stage
<1>4. /\ frames' \in [E!Stage -> EncodedFrame]
      /\ frames'["encoded"] = E!NoFrame /\ ~E!At("encoded")'
      /\ \A s \in E!Stage \ {"encoded"} : frames'[s] = frames[s] /\ E!At(s)' = E!At(s)
  BY <1>1, <1>3, FreedFrames
<1>5. (EmptyStages /\ Kinds)' /\ (\A s \in E!Stage : frames[s].is => frames[s].picture \in E!Picture)'
  BY <1>1, <1>3, FreedKinds
<1>6. failed
  <2>1. frames["encoded"] \in EncodedFrame
    BY DEF EncInv, Typed, E!Stage
  <2>2. Len(E!ViewsToEncode(frames["encoded"])) \in 1 .. 2
    BY <2>1, ViewsToEncodeOf
  <2>3. ~failed => frames["encoded"].bitstreams = ToEncode("encoded")
    BY DEF EncInv, Submissions
  <2>4. ToEncode("encoded") # 0
    BY <2>2 DEF ToEncode
  <2> QED BY <2>3, <2>4
<1>7. views' = E!ViewsIn(E!Stage)' /\ views' \in Nat
  BY <1>1, <1>3, FreedViews
<1>8. Typed'
  <2>1. canUpgrade' \in BOOLEAN /\ due' \in BOOLEAN /\ locals' \subseteq E!Local
    BY <1>1 DEF E!Free, EncInv, Typed, E!TypeOK
  <2>2. E!TypeOK'
    BY <1>1, <1>5, <1>7, <2>1 DEF EncInv, Typed, E!TypeOK, E!Local
  <2>3. (frames \in [E!Stage -> EncodedFrame])'
    BY <1>1, <1>4 DEF EncodedFrame, E!Local
  <2> QED BY <1>1, <2>2, <2>3 DEF EncInv, Typed
<1>9. Flow'
  BY <1>1, <1>2, <1>4 DEF EncInv, Flow, E!Stage
<1>10. Submissions'
  BY <1>1, <1>2, <1>4, <1>6
     DEF EncInv, Submissions, Unlocked, InProgress, ToEncode, E!ViewsToEncode, E!Stage
<1>11. Pools'
  <2>1. \A s \in E!Stage : frames'[s].bitstreams = frames[s].bitstreams
    BY <1>4 DEF E!NoFrame
  <2>2. E!BitstreamsIn(E!Stage)' = E!BitstreamsIn(E!Stage)
    BY <2>1 DEF E!BitstreamsIn
  <2> QED BY <1>1, <1>7, <2>2 DEF EncInv, Pools
<1>12. Locals'
  <2>1. /\ locals' = {frames'[s].local : s \in E!Stage} \ {0}
        /\ \A s, t \in E!Stage : s # t /\ frames'[s].local = frames'[t].local => frames'[s].local = 0
    BY <1>1, <1>3, FreedLocals
  <2> QED BY <1>1, <1>4, <2>1 DEF EncInv, Locals, E!Stage
<1>13. Upgrades'
  BY <1>1, <1>3, FreedUpgrades DEF E!Stage
<1>14. Follows'
  BY <1>1, <1>6 DEF Follows
<1> QED BY <1>5, <1>8, <1>9, <1>10, <1>11, <1>12, <1>13, <1>14 DEF EncInv

\* maybe_start_encodings finds nothing to encode, or the encode session busy.
LEMMA StartEncodingWaitsKeeps ==
  ASSUME EncInv, phase = "fetched", phase' \in {"views", "finish"},
         stopped' = (stopped \/ failed), todo' = <<>>,
         UNCHANGED <<pictures, wanted, frames, render, E!contextVars, E!upgradeVars, encodes,
                     lockTasks, bitstream, E!poolVars, failed, broken, screen>>
  PROVE  EncInv'
<1> USE DEF E!contextVars, E!upgradeVars, E!poolVars
<1>1. \A s : E!At(s)' = E!At(s)
  BY DEF E!At
<1>2. Typed'
  <2>1. stopped' \in BOOLEAN
    BY DEF EncInv, Typed, E!TypeOK
  <2>2. E!TypeOK'
    BY <2>1 DEF EncInv, Typed, E!TypeOK, E!Local
  <2> QED BY <2>2 DEF EncInv, Typed, EncodedFrame, PictureOrNone, E!Local, ViewLists
<1>3. (EmptyStages /\ Kinds)'
  BY <1>1 DEF EncInv, EmptyStages, Kinds
<1>4. Flow'
  BY <1>1 DEF EncInv, Flow
<1>5. Submissions'
  <2>1. todo = <<>>
    BY DEF EncInv, Submissions
  <2> QED BY <1>1, <2>1 DEF EncInv, Submissions, Unlocked, InProgress, ToEncode, E!ViewsToEncode
<1>6. (Pools /\ Locals)'
  BY <1>1 DEF EncInv, Pools, Locals, Flow, E!ViewsIn, E!BitstreamsIn, E!Total, E!ViewsHeld, E!PerFrame
<1>7. Upgrades'
  BY <1>1 DEF EncInv, Upgrades
<1>8. Follows'
  <2>1. /\ E!OnceArrived' = E!OnceArrived
        /\ OnceEncodedArrived' = OnceEncodedArrived
    BY DEF OnceEncodedArrived, E!OnceArrived
  <2> QED BY <1>1, <2>1 DEF EncInv, Follows, Bases, UpgradesLead, IsAux
<1> QED BY <1>2, <1>3, <1>4, <1>5, <1>6, <1>7, <1>8 DEF EncInv

\* A view without damage ends its frame.
LEMMA StartEncodingFreesKeeps ==
  ASSUME EncInv, phase = "fetched", phase' = "views", ~stopped, ~failed, todo' = <<>>,
         stopped' = (stopped \/ failed), E!At("viewed"), frames["viewed"].damage = {},
         E!Free({"viewed"}), frames' = E!Freed({"viewed"}),
         UNCHANGED <<pictures, wanted, render, E!contextVars, encodes, lockTasks, bitstream,
                     buffers, lastLocal, failed, broken, screen>>
  PROVE  EncInv'
<1> USE DEF E!contextVars
<1>0. ~stopped'
  OBVIOUS
<1>1. {"viewed"} \in SUBSET E!Stage
  BY DEF E!Stage
<1>2. /\ frames' \in [E!Stage -> EncodedFrame]
      /\ frames'["viewed"] = E!NoFrame /\ ~E!At("viewed")'
      /\ \A s \in E!Stage \ {"viewed"} : frames'[s] = frames[s] /\ E!At(s)' = E!At(s)
  BY <1>1, FreedFrames
<1>3. (EmptyStages /\ Kinds)' /\ (\A s \in E!Stage : frames[s].is => frames[s].picture \in E!Picture)'
  BY <1>1, FreedKinds
<1>4. views' = E!ViewsIn(E!Stage)' /\ views' \in Nat
  BY <1>1, FreedViews
<1>5. Typed'
  <2>1. /\ canUpgrade' \in BOOLEAN /\ due' \in BOOLEAN /\ locals' \subseteq E!Local
        /\ stopped' \in BOOLEAN
    BY DEF E!Free, EncInv, Typed, E!TypeOK
  <2>2. E!TypeOK'
    BY <1>3, <1>4, <2>1 DEF EncInv, Typed, E!TypeOK, E!Local
  <2>3. (frames \in [E!Stage -> EncodedFrame])'
    BY <1>2 DEF EncodedFrame, E!Local
  <2> QED BY <2>2, <2>3 DEF EncInv, Typed, ViewLists
<1>6. Flow'
  BY <1>2 DEF EncInv, Flow, E!Stage
<1>7. Submissions'
  <2>1. todo = <<>>
    BY DEF EncInv, Submissions
  <2> QED BY <1>0, <1>2, <2>1
          DEF EncInv, Submissions, Unlocked, InProgress, ToEncode, E!ViewsToEncode, E!Stage
<1>8. Pools'
  <2>1. \A s \in E!Stage : frames'[s].bitstreams = frames[s].bitstreams
    BY <1>2 DEF E!NoFrame, EncInv, Kinds
  <2>2. E!BitstreamsIn(E!Stage)' = E!BitstreamsIn(E!Stage)
    BY <2>1 DEF E!BitstreamsIn
  <2> QED BY <1>4, <2>2 DEF EncInv, Pools
<1>9. Locals'
  <2>1. /\ locals' = {frames'[s].local : s \in E!Stage} \ {0}
        /\ \A s, t \in E!Stage : s # t /\ frames'[s].local = frames'[t].local => frames'[s].local = 0
    BY <1>1, FreedLocals
  <2> QED BY <1>2, <2>1 DEF EncInv, Locals, Flow, E!Stage
<1>10. Upgrades'
  <2>1. frames["viewed"].valid
    BY DEF EncInv, Kinds
  <2> QED BY <1>1, <2>1, FreedUpgrades
<1>11. Follows'
  <2>1. E!OnceArrived' = OnceEncodedArrived
    BY <1>2, ShownNothing DEF E!OnceArrived, OnceEncodedArrived, E!Stage
  <2>2. /\ E!OnceArrived.shows = OnceEncodedArrived.shows
        /\ E!OnceArrived.owed = OnceEncodedArrived.owed
    <3> DEFINE f == frames["viewed"]
               c == OnceEncodedArrived
    <3>1. E!OnceArrived = E!Shown(c, f) /\ f.is /\ f.damage = {}
      BY DEF E!OnceArrived, OnceEncodedArrived, E!At
    <3>2. f.need = {} /\ (f.type # "aux" => c.shows \in E!Picture)
      BY DEF EncInv, Kinds, Follows, Bases, E!Stage
    <3> HIDE DEF c, f
    <3>3. c.owed \ {} = c.owed /\ (c.owed \ {}) \cup {} = c.owed
      OBVIOUS
    <3>4. E!OnceArrived.owed = c.owed
      BY <3>1, <3>2, <3>3 DEF E!Shown
    <3>5. E!OnceArrived.shows = IF f.type = "aux" THEN c.shows ELSE [t \in Tile |-> c.shows[t]]
      BY <3>1 DEF E!Shown
    <3>6. c.shows \in E!Picture => [t \in Tile |-> c.shows[t]] = c.shows
      BY DEF E!Picture
    <3> QED BY <3>2, <3>4, <3>5, <3>6 DEF c
  <2> QED BY <1>2, <2>1, <2>2 DEF EncInv, Flow, Follows, Bases, UpgradesLead, IsAux, E!Stage
<1> QED BY <1>3, <1>5, <1>6, <1>7, <1>8, <1>9, <1>10, <1>11 DEF EncInv

\* A view with damage is encoded.
LEMMA StartEncodingMovesKeeps ==
  ASSUME EncInv, phase = "fetched", phase' = "encode", ~stopped, ~failed,
         stopped' = (stopped \/ failed), E!At("viewed"), E!EncoderFree,
         todo' = E!ViewsToEncode(frames["viewed"]),
         frames' = E!Moved(frames["viewed"], "viewed", "encoding"),
         UNCHANGED <<pictures, wanted, render, E!contextVars, E!upgradeVars, encodes, lockTasks,
                     bitstream, E!poolVars, failed, broken, screen>>
  PROVE  EncInv'
<1> USE DEF E!contextVars, E!upgradeVars, E!poolVars
<1> DEFINE f == frames["viewed"]
<1>1. ~stopped' /\ stopped' \in BOOLEAN
  BY DEF EncInv, Typed, E!TypeOK
<1>2. /\ ~E!At("encoding") /\ ~E!At("encoded") /\ ~E!At("creating")
      /\ frames["encoding"] = E!NoFrame /\ frames["encoded"] = E!NoFrame
      /\ frames["creating"] = E!NoFrame
  BY DEF EncInv, Flow, EmptyStages, E!EncoderFree, E!Stage
<1>3. f \in EncodedFrame /\ f.is /\ {"viewed", "encoding"} \subseteq E!Stage
  BY DEF EncInv, Typed, E!At, E!Stage
<1>4. /\ frames' \in [E!Stage -> EncodedFrame]
      /\ frames'["viewed"] = E!NoFrame /\ ~E!At("viewed")'
      /\ frames'["encoding"] = f /\ E!At("encoding")'
      /\ \A s \in E!Stage \ {"viewed", "encoding"} : frames'[s] = frames[s] /\ E!At(s)' = E!At(s)
  BY <1>3, MovedFrames
<1>5. /\ f.bitstreams = 0 /\ f.valid
      /\ f.picture \in E!Picture
  BY <1>3 DEF EncInv, Kinds, Typed, E!TypeOK, E!Stage
<1>6. todo' \in ViewLists \ {<<>>}
  BY <1>3, ViewsToEncodeOf
<1> HIDE DEF f
<1>7. Typed'
  <2>1. (\A s \in E!Stage : frames[s].is => frames[s].picture \in E!Picture)'
    BY <1>3, <1>4, <1>5 DEF EncInv, Typed, E!TypeOK, E!Stage, E!NoFrame
  <2>2. E!TypeOK'
    BY <1>1, <2>1 DEF EncInv, Typed, E!TypeOK, E!Local
  <2>3. (frames \in [E!Stage -> EncodedFrame])'
    BY <1>1, <1>4 DEF EncodedFrame, E!Local
  <2> QED BY <1>6, <2>2, <2>3 DEF EncInv, Typed
<1>8. (EmptyStages /\ Kinds)'
  BY <1>4 DEF EncInv, EmptyStages, Kinds, f, E!Stage, E!NoFrame
<1>9. Flow'
  BY <1>2, <1>4 DEF EncInv, Flow, E!Stage
<1>10. Submissions'
  <2>1. lockTasks = <<>> /\ bitstream = "none" /\ encodes = {}
    <3>1. lockTasks = <<>> /\ bitstream = "none"
      BY <1>2 DEF EncInv, Submissions, Typed, E!TypeOK
    <3>2. Unlocked = <<>>
      BY <3>1 DEF Unlocked
    <3>3. encodes = Listed(Unlocked)
      BY DEF EncInv, Submissions
    <3> QED BY <3>1, <3>2, <3>3 DEF Listed
  <2>2. /\ lockTasks' \o todo' = E!ViewsToEncode(frames'["encoding"])
        /\ frames'["encoding"].bitstreams = 0
    BY <1>4, <1>5, <1>6, <2>1 DEF f, ViewLists
  <2>3. InProgress' = ToEncode("encoding")'
    BY <1>3, <1>4, <1>5, <2>1, ViewsToEncodeOf DEF InProgress, ToEncode, f
  <2>4. Len(todo') \in Nat /\ InProgress' \in Nat
    BY <1>4, <1>5, <1>6, <2>1 DEF InProgress, ViewLists
  <2>5. Unlocked' = Unlocked
    BY DEF Unlocked
  <2>6. E!At("rendered") => frames["rendered"].bitstreams = ToEncode("rendered")
    BY DEF EncInv, Submissions
  <2>7. /\ frames'["rendered"] = frames["rendered"] /\ E!At("rendered")' = E!At("rendered")
        /\ ~E!At("encoded")'
    BY <1>2, <1>4 DEF E!Stage
  <2>8. ToEncode("rendered")' = ToEncode("rendered") /\ ToEncode("rendered") \in Nat
    BY <2>7 DEF ToEncode, E!ViewsToEncode
  <2>9. ~broken
    BY DEF EncInv, Submissions
  <2>10. todo' # <<>> /\ phase' = "encode" /\ lockTasks' = <<>> /\ bitstream' = "none"
         /\ E!At("encoding")'
    BY <1>4, <1>6, <2>1
  <2>11. encodes' = Listed(Unlocked)'
    BY <2>5 DEF EncInv, Submissions
  <2>12. InProgress' <= ToEncode("encoding")'
    BY <2>3, <2>4
  <2>13. \A s \in {"encoded", "rendered"} : E!At(s)' => frames'[s].bitstreams <= ToEncode(s)'
    BY <2>6, <2>7, <2>8
  <2> QED BY <1>1, <2>2, <2>3, <2>6, <2>7, <2>8, <2>9, <2>10, <2>11, <2>12, <2>13
          DEF Submissions
<1>11. Pools'
  <2>1. views' = E!ViewsIn(E!Stage)'
    BY <1>2, <1>3, MovedViews DEF f
  <2>2. E!BitstreamsIn(E!Stage)' = E!BitstreamsIn(E!Stage)
    BY <1>2, <1>3, MovedBitstreams DEF f
  <2> QED BY <2>1, <2>2 DEF EncInv, Pools
<1>12. Locals'
  <2>1. /\ locals' = {frames'[s].local : s \in E!Stage} \ {0}
        /\ \A s, t \in E!Stage : s # t /\ frames'[s].local = frames'[t].local => frames'[s].local = 0
    BY <1>2, <1>3, MovedLocals DEF f
  <2>2. codec = "progressive" => f.local = lastLocal
    BY <1>5 DEF EncInv, Locals, f
  <2>3. ~E!At("creating")' /\ ~E!At("encoded")'
    BY <1>2, <1>4 DEF E!Stage
  <2> QED BY <1>4, <2>1, <2>2, <2>3 DEF Locals
<1>13. Upgrades'
  BY <1>1, <1>2, <1>4, <1>5 DEF EncInv, Upgrades, f, E!Stage
<1>14. Follows'
  <2>1. E!OnceArrived' = E!OnceArrived
    BY <1>2, <1>4, ShownNothing DEF E!OnceArrived, E!Stage, f
  <2> QED BY <1>2, <1>4, <2>1 DEF EncInv, Flow, Follows, Bases, UpgradesLead, IsAux, E!Stage, f
<1> QED BY <1>7, <1>8, <1>9, <1>10, <1>11, <1>12, <1>13, <1>14 DEF EncInv

\* The three cases of maybe_start_encodings.
LEMMA StartEncodingKeeps ==
  ASSUME EncInv, E!StartEncoding
  PROVE  EncInv'
<1> DEFINE f == frames["viewed"]
           usable == ~stopped /\ ~failed
<1> USE DEF E!At
<1>1. CASE usable /\ f.is /\ f.damage = {}
  BY <1>1, StartEncodingFreesKeeps DEF E!StartEncoding
<1>2. CASE usable /\ f.is /\ f.damage # {} /\ E!EncoderFree
  <2> USE <1>2 DEF E!StartEncoding
  <2>1. phase' = "encode"
    OBVIOUS
  <2> QED BY <2>1, StartEncodingMovesKeeps DEF E!poolVars
<1>3. CASE ~(usable /\ f.is) \/ (f.damage # {} /\ ~E!EncoderFree)
  <2> USE <1>3 DEF E!StartEncoding
  <2>1. phase' \in {"views", "finish"}
    OBVIOUS
  <2> QED BY <2>1, StartEncodingWaitsKeeps DEF E!poolVars
<1> QED BY <1>1, <1>2, <1>3

\* The lists of views that there are.
LEMMA ListFacts ==
  ASSUME NEW l \in ViewLists
  PROVE  /\ Len(l) \in 0 .. 2
         /\ l # <<>> => /\ Tail(l) \in ViewLists /\ Len(Tail(l)) = Len(l) - 1
                        /\ Head(l) \in {"main", "aux"} /\ Len(l) >= 1
                        /\ Listed(Tail(l)) = Listed(l) \ {Head(l)}
                        /\ Head(l) \in Listed(l)
         /\ Listed(l) \subseteq {"main", "aux"}
         /\ Listed(l) = {} <=> l = <<>>
<1>1. /\ Listed(<<>>) = {} /\ Listed(<<"main">>) = {"main"} /\ Listed(<<"aux">>) = {"aux"}
      /\ Listed(<<"main", "aux">>) = {"main", "aux"}
  BY DEF Listed
<1>2. CASE l = <<>>
  BY <1>1, <1>2
<1>3. CASE l = <<"main">>
  <2>1. Tail(l) = <<>> /\ Head(l) = "main" /\ Len(l) = 1
    BY <1>3
  <2> QED BY <1>1, <1>3, <2>1 DEF ViewLists
<1>4. CASE l = <<"aux">>
  <2>1. Tail(l) = <<>> /\ Head(l) = "aux" /\ Len(l) = 1
    BY <1>4
  <2> QED BY <1>1, <1>4, <2>1 DEF ViewLists
<1>5. CASE l = <<"main", "aux">>
  <2>1. Tail(l) = <<"aux">> /\ Head(l) = "main" /\ Len(l) = 2
    BY <1>5
  <2> QED BY <1>1, <1>5, <2>1 DEF ViewLists
<1> QED BY <1>2, <1>3, <1>4, <1>5 DEF ViewLists

\* A list of two elements.
LEMMA TwoViews ==
  ASSUME NEW s \in Seq({"main", "aux"}), Len(s) = 2
  PROVE  s = <<s[1], s[2]>>
<1> DEFINE t == <<s[1], s[2]>>
<1>1. s[1] \in {"main", "aux"} /\ s[2] \in {"main", "aux"}
  <2>1. 1 \in 1 .. Len(s) /\ 2 \in 1 .. Len(s)
    OBVIOUS
  <2> QED BY <2>1, ElementOfSeq
<1>2. t \in Seq({"main", "aux"}) /\ Len(t) = 2 /\ t[1] = s[1] /\ t[2] = s[2]
  BY <1>1
<1>3. \A i \in 1 .. Len(s) : s[i] = t[i]
  <2> HIDE DEF t
  <2> QED BY <1>2
<1> HIDE DEF t
<1>4. s = t
  BY <1>2, <1>3, SeqEqual
<1> QED BY <1>4 DEF t

\* The lists of a frame with two views.
LEMMA AppendAux == Append(<<"main">>, "aux") = <<"main", "aux">>
<1> DEFINE s == Append(<<"main">>, "aux")
<1>1. s \in Seq({"main", "aux"}) /\ Len(s) = 2 /\ s[1] = "main" /\ s[2] = "aux"
  OBVIOUS
<1> HIDE DEF s
<1>2. s = <<s[1], s[2]>>
  BY <1>1, TwoViews
<1>3. s = <<"main", "aux">>
  BY <1>1, <1>2
<1> QED BY <1>3 DEF s

\* The same, of two lists.
LEMMA MainThenAux == <<"main">> \o <<"aux">> = <<"main", "aux">>
<1> DEFINE s == <<"main">> \o <<"aux">>
<1>1. s \in Seq({"main", "aux"}) /\ Len(s) = 2 /\ s[1] = "main" /\ s[2] = "aux"
  OBVIOUS
<1> HIDE DEF s
<1>2. s = <<s[1], s[2]>>
  BY <1>1, TwoViews
<1>3. s = <<"main", "aux">>
  BY <1>1, <1>2
<1> QED BY <1>3 DEF s

\* Handing the first of the remaining views over, while the first one before it may be fetched.
LEMMA HandOver ==
  ASSUME NEW l \in ViewLists, NEW t \in ViewLists, t # <<>>, l \o t \in ViewLists,
         NEW u, u = l \/ (l # <<>> /\ u = Tail(l))
  PROVE  /\ Append(l, Head(t)) \in ViewLists
         /\ Append(l, Head(t)) \o Tail(t) = l \o t
         /\ Len(Append(l, Head(t))) = Len(l) + 1
         /\ Append(u, Head(t)) \in ViewLists
         /\ Listed(Append(u, Head(t))) = Listed(u) \cup {Head(t)}
         /\ Head(t) \notin Listed(u)
         /\ l # <<>> => Tail(Append(l, Head(t))) = Append(Tail(l), Head(t))
<1>1. (l = <<>>) \/ (l = <<"main">> /\ t = <<"aux">>)
  <2>1. ASSUME l # <<>>
        PROVE  l = <<"main">> /\ t = <<"aux">>
    <3>1. Len(l \o t) = Len(l) + Len(t) /\ Len(l) \in 1 .. 2 /\ Len(t) \in 1 .. 2
      BY <2>1 DEF ViewLists
    <3>2. Len(l \o t) <= 2
      <4> DEFINE v == l \o t
      <4>1. v \in ViewLists
        OBVIOUS
      <4> HIDE DEF v
      <4>2. Len(v) \in 0 .. 2
        BY <4>1, ListFacts
      <4> QED BY <4>2 DEF v
    <3>3. Len(l) = 1 /\ Len(t) = 1
      BY <3>1, <3>2
    <3>4. l \o t = <<"main", "aux">>
      BY <3>1, <3>3 DEF ViewLists
    <3>5. (l \o t)[1] = l[1] /\ (l \o t)[2] = t[1]
      <4>1. l \in Seq({"main", "aux"}) /\ t \in Seq({"main", "aux"})
        <5>1. /\ <<>> \in Seq({"main", "aux"}) /\ <<"main">> \in Seq({"main", "aux"})
              /\ <<"aux">> \in Seq({"main", "aux"}) /\ <<"main", "aux">> \in Seq({"main", "aux"})
          OBVIOUS
        <5> QED BY <5>1 DEF ViewLists
      <4> QED BY <3>3, <4>1
    <3> QED BY <3>3, <3>4, <3>5 DEF ViewLists
  <2> QED BY <2>1
<1>2. CASE l = <<>>
  <2>1. u = <<>>
    BY <1>2
  <2>2. Append(<<>>, Head(t)) = <<Head(t)>> /\ Head(t) \in {"main", "aux"}
    BY ListFacts
  <2>3. <<Head(t)>> \o Tail(t) = t /\ <<>> \o t = t
    BY DEF ViewLists
  <2>4. Listed(<<Head(t)>>) = {Head(t)} /\ Listed(<<>>) = {}
    BY DEF Listed
  <2> QED BY <1>2, <2>1, <2>2, <2>3, <2>4 DEF ViewLists
<1>3. CASE l = <<"main">> /\ t = <<"aux">>
  <2>1. Head(t) = "aux" /\ Tail(t) = <<>> /\ Tail(l) = <<>>
    BY <1>3
  <2>5. Append(<<"main">>, "aux") = <<"main", "aux">> /\ Append(<<>>, "aux") = <<"aux">>
    BY AppendAux
  <2>6. <<"main", "aux">> \o <<>> = <<"main", "aux">> /\ <<"main">> \o <<"aux">> = <<"main", "aux">>
    BY MainThenAux
  <2>7. Tail(<<"main", "aux">>) = <<"aux">>
    OBVIOUS
  <2>2. Len(<<"main", "aux">>) = Len(<<"main">>) + 1
    OBVIOUS
  <2>3. /\ Listed(<<>>) = {} /\ Listed(<<"main">>) = {"main"} /\ Listed(<<"aux">>) = {"aux"}
        /\ Listed(<<"main", "aux">>) = {"main", "aux"}
    BY DEF Listed
  <2>4. u = <<>> \/ u = <<"main">>
    BY <1>3, <2>1
  <2> QED BY <1>3, <2>1, <2>2, <2>3, <2>4, <2>5, <2>6, <2>7 DEF ViewLists
<1> QED BY <1>1, <1>2, <1>3

\* The same, in encode_image_views.
LEMMA HandOverNow ==
  ASSUME EncInv, phase = "encode"
  PROVE  LET l == lockTasks
             e == Head(todo)
             u == Unlocked
         IN  /\ todo # <<>> /\ e \in {"main", "aux"}
             /\ Append(l, e) \in ViewLists \ {<<>>} /\ Append(l, e) \o Tail(todo) = l \o todo
             /\ Len(Append(l, e)) = Len(l) + 1
             /\ Tail(todo) \in ViewLists /\ Len(Tail(todo)) = Len(todo) - 1
             /\ Len(l) \in Nat /\ Len(todo) \in Nat
             /\ Listed(Append(u, e)) = Listed(u) \cup {e} /\ e \notin Listed(u)
             /\ (IF bitstream = "none" THEN Append(l, e) ELSE Tail(Append(l, e))) = Append(u, e)
<1>1. /\ todo # <<>> /\ todo \in ViewLists /\ lockTasks \in ViewLists
      /\ bitstream # "none" => lockTasks # <<>>
  BY DEF EncInv, Typed, Submissions
<1>2. lockTasks \o todo \in ViewLists
  <2>1. lockTasks \o todo = E!ViewsToEncode(frames["encoding"])
    BY DEF EncInv, Submissions
  <2>2. frames["encoding"] \in EncodedFrame
    BY DEF EncInv, Typed, E!Stage
  <2> QED BY <2>1, <2>2, ViewsToEncodeOf
<1>3. Unlocked = lockTasks \/ (lockTasks # <<>> /\ Unlocked = Tail(lockTasks))
  BY <1>1 DEF Unlocked
<1>4. Head(todo) \in {"main", "aux"} /\ Tail(todo) \in ViewLists /\ Len(Tail(todo)) = Len(todo) - 1
      /\ Len(todo) \in Nat /\ Len(lockTasks) \in Nat
  BY <1>1, ListFacts
<1> DEFINE l == lockTasks
           t == todo
           u == Unlocked
<1>5. /\ l \in ViewLists /\ t \in ViewLists /\ t # <<>> /\ l \o t \in ViewLists
      /\ u = l \/ (l # <<>> /\ u = Tail(l))
  BY <1>1, <1>2, <1>3
<1>6. u = IF bitstream = "none" THEN l ELSE Tail(l)
  BY DEF Unlocked
<1>7. bitstream # "none" => l # <<>>
  BY <1>1
<1> HIDE DEF l, t, u
<1>8. /\ Append(l, Head(t)) \in ViewLists
      /\ Append(l, Head(t)) \o Tail(t) = l \o t
      /\ Len(Append(l, Head(t))) = Len(l) + 1
      /\ Listed(Append(u, Head(t))) = Listed(u) \cup {Head(t)}
      /\ Head(t) \notin Listed(u)
      /\ l # <<>> => Tail(Append(l, Head(t))) = Append(Tail(l), Head(t))
  BY <1>5, HandOver
<1>9. Append(l, Head(t)) # <<>>
  <2>1. Len(l) \in 0 .. 2
    BY <1>5, ListFacts
  <2>2. Len(<<>>) = 0
    OBVIOUS
  <2>3. Len(Append(l, Head(t))) >= 1
    BY <1>8, <2>1
  <2> QED BY <2>2, <2>3
<1>10. (IF bitstream = "none" THEN Append(l, Head(t)) ELSE Tail(Append(l, Head(t)))) = Append(u, Head(t))
  BY <1>6, <1>7, <1>8
<1> QED BY <1>1, <1>4, <1>8, <1>9, <1>10 DEF l, t, u

\* Two views may be pending at most.
LEMMA EncodesFinite ==
  ASSUME EncInv
  PROVE  IsFiniteSet(encodes) /\ Cardinality(encodes) \in Nat
<1>1. encodes \subseteq {"main", "aux"}
  BY DEF EncInv, Typed, E!TypeOK
<1>2. IsFiniteSet({"main", "aux"})
  <2>1. IsFiniteSet({"main"})
    BY FS_Singleton
  <2>2. IsFiniteSet({"main"} \cup {"aux"})
    BY <2>1, FS_AddElement
  <2>3. {"main", "aux"} = {"main"} \cup {"aux"}
    OBVIOUS
  <2> QED BY <2>2, <2>3
<1> QED BY <1>1, <1>2, FS_Subset, FS_CardinalityType

\* The bitstreams of each frame are counted.
LEMMA BitstreamsCounted ==
  ASSUME EncInv
  PROVE  /\ E!BitstreamsIn(E!Stage) \in Nat
         /\ \A s \in E!Stage : frames[s].bitstreams <= E!BitstreamsIn(E!Stage)
<1> DEFINE n == [s \in E!Stage |-> IF s \in E!Stage THEN frames[s].bitstreams ELSE 0]
<1>1. n \in [E!Stage -> Nat] /\ \A s \in E!Stage : n[s] = frames[s].bitstreams
  BY HeldRange
<1>2. E!BitstreamsIn(E!Stage) = E!Total(n)
  BY DEF E!BitstreamsIn
<1> HIDE DEF n
<1> QED BY <1>1, <1>2, TotalBounds

\* One view is handed to the encode session.
LEMMA EncodeViewKeeps ==
  ASSUME EncInv, E!EncodeView
  PROVE  EncInv'
<1> DEFINE e == Head(todo)
<1>1. /\ phase = "encode" /\ todo' = Tail(todo)
      /\ encodes' = encodes \cup {e} /\ lockTasks' = Append(lockTasks, e)
      /\ buffers' = IF codec = "progressive" THEN buffers ELSE buffers + 1
      /\ phase' = IF todo' = <<>> THEN "views" ELSE "encode"
      /\ UNCHANGED <<pictures, wanted, frames, render, E!contextVars, E!upgradeVars, bitstream,
                     views, locals, lastLocal, E!endVars, screen>>
  BY DEF E!EncodeView
<1> USE DEF E!contextVars, E!upgradeVars, E!endVars
<1>2. \A s : E!At(s)' = E!At(s)
  BY <1>1 DEF E!At
<1>3. /\ e \in {"main", "aux"} /\ todo # <<>>
      /\ lockTasks' \in ViewLists \ {<<>>} /\ todo' \in ViewLists
      /\ lockTasks' \o todo' = lockTasks \o todo
      /\ Len(lockTasks') = Len(lockTasks) + 1 /\ Len(todo') = Len(todo) - 1
      /\ Len(lockTasks) \in Nat /\ Len(todo) \in Nat
      /\ Listed(Append(Unlocked, e)) = Listed(Unlocked) \cup {e} /\ e \notin Listed(Unlocked)
      /\ Unlocked' = Append(Unlocked, e)
  BY <1>1, HandOverNow DEF Unlocked
<1>4. encodes = Listed(Unlocked)
  BY DEF EncInv, Submissions
<1> HIDE DEF e
<1>5. Typed'
  <2>1. buffers' \in Nat /\ encodes' \subseteq {"main", "aux"}
    BY <1>1, <1>3 DEF EncInv, Typed, E!TypeOK
  <2>2. E!TypeOK'
    BY <1>1, <2>1 DEF EncInv, Typed, E!TypeOK, E!Local
  <2> QED BY <1>1, <1>3, <2>2 DEF EncInv, Typed, EncodedFrame, PictureOrNone, E!Local
<1>6. (EmptyStages /\ Kinds)'
  BY <1>1, <1>2 DEF EncInv, EmptyStages, Kinds
<1>7. Flow'
  BY <1>1, <1>2 DEF EncInv, Flow
<1>8. Submissions'
  <2>1. /\ InProgress' = InProgress /\ \A s \in E!Stage : ToEncode(s)' = ToEncode(s)
    <3>1. frames["encoding"].bitstreams \in Nat
      BY HeldRange DEF E!Stage
    <3>3. frames' = frames
      BY <1>1
    <3>2. InProgress' = InProgress
      <4>1. /\ Len(lockTasks') = Len(lockTasks) + 1 /\ Len(todo') = Len(todo) - 1
            /\ Len(lockTasks) \in Nat /\ Len(todo) \in Nat
        BY <1>3
      <4> DEFINE k == frames["encoding"].bitstreams
                 l == Len(lockTasks)
                 m == Len(todo)
                 l1 == Len(lockTasks')
                 m1 == Len(todo')
      <4>2. InProgress = k + l + m /\ InProgress' = k + l1 + m1
        BY <3>3 DEF InProgress
      <4>3. k \in Nat /\ l \in Nat /\ m \in Nat /\ l1 = l + 1 /\ m1 = m - 1
        BY <3>1, <4>1
      <4> HIDE DEF k, l, m, l1, m1
      <4> QED BY ONLY <4>2, <4>3
    <3> QED BY <1>1, <3>2 DEF ToEncode, E!ViewsToEncode
  <2>2. encodes' = Listed(Unlocked)'
    BY <1>1, <1>3, <1>4 DEF Listed
  <2>3. /\ todo' # <<>> <=> phase' = "encode"
        /\ lockTasks' # <<>>
    BY <1>1, <1>3
  <2>4. /\ lockTasks' \o todo' = E!ViewsToEncode(frames["encoding"])'
        /\ frames'["encoding"].bitstreams = 0 /\ E!At("encoding")'
    BY <1>1, <1>2, <1>3 DEF EncInv, Submissions, Flow, E!ViewsToEncode
  <2> QED BY <1>1, <1>2, <2>1, <2>2, <2>3, <2>4 DEF EncInv, Submissions, E!Stage
<1>9. Pools'
  <2>1. E!ViewsIn(E!Stage)' = E!ViewsIn(E!Stage)
    BY <1>1 DEF E!ViewsIn, E!ViewsHeld, E!PerFrame
  <2>2. E!BitstreamsIn(E!Stage)' = E!BitstreamsIn(E!Stage)
    BY <1>1 DEF E!BitstreamsIn
  <2>3. Cardinality(encodes') = Cardinality(encodes) + 1 /\ Cardinality(encodes) \in Nat
    <3> QED BY <1>1, <1>3, <1>4, EncodesFinite, FS_AddElement, FS_CardinalityType
  <2>4. E!BitstreamsIn(E!Stage) \in Nat
    BY BitstreamsCounted
  <2>5. /\ buffers = E!BitstreamsIn(E!Stage) + (IF bitstream = "ok" THEN 1 ELSE 0)
                     + (IF codec = "progressive" THEN 0 ELSE Cardinality(encodes))
        /\ views = E!ViewsIn(E!Stage)
    BY DEF EncInv, Pools
  <2>6. /\ buffers' = IF codec = "progressive" THEN buffers ELSE buffers + 1
        /\ views' = views /\ codec' = codec /\ bitstream' = bitstream
    BY <1>1
  <2>7. buffers' = E!BitstreamsIn(E!Stage)' + (IF bitstream' = "ok" THEN 1 ELSE 0)
                     + (IF codec' = "progressive" THEN 0 ELSE Cardinality(encodes'))
    BY ONLY <2>2, <2>3, <2>4, <2>5, <2>6
  <2> QED BY <2>1, <2>5, <2>6, <2>7 DEF Pools
<1>10. Locals'
  BY <1>1, <1>2 DEF EncInv, Locals, Flow
<1>11. Upgrades'
  BY <1>1, <1>2 DEF EncInv, Upgrades
<1>12. Follows'
  <2>1. /\ E!OnceArrived' = E!OnceArrived
        /\ OnceEncodedArrived' = OnceEncodedArrived
    BY <1>1 DEF OnceEncodedArrived, E!OnceArrived
  <2> QED BY <1>1, <1>2, <2>1 DEF EncInv, Follows, Bases, UpgradesLead, IsAux
<1> QED BY <1>5, <1>6, <1>7, <1>8, <1>9, <1>10, <1>11, <1>12 DEF EncInv

\* The hardware fails at the second view of a frame, whose first one is fetched all the same.
LEMMA EncodeFailsKeeps ==
  ASSUME EncInv, E!EncodeFails, todo # E!ViewsToEncode(frames["encoding"])
  PROVE  EncInv'
<1>1. /\ phase = "encode" /\ todo' = <<>> /\ phase' = "finish" /\ failed' = TRUE /\ stopped' = TRUE
      /\ UNCHANGED <<pictures, wanted, render, frames, E!contextVars, E!upgradeVars, encodes,
                     lockTasks, bitstream, E!poolVars, broken, screen>>
  BY DEF E!EncodeFails, E!Fail, E!poolVars
<1> USE DEF E!contextVars, E!upgradeVars, E!poolVars
<1>2. \A s : E!At(s)' = E!At(s)
  BY <1>1 DEF E!At
<1>3. Typed'
  <2>1. E!TypeOK'
    BY <1>1 DEF EncInv, Typed, E!TypeOK, E!Local
  <2> QED BY <1>1, <2>1 DEF EncInv, Typed, EncodedFrame, PictureOrNone, E!Local, ViewLists
<1>4. (EmptyStages /\ Kinds)'
  BY <1>1, <1>2 DEF EncInv, EmptyStages, Kinds
<1>5. Flow'
  BY <1>1, <1>2 DEF EncInv, Flow
<1>6. Submissions'
  <2>1. \A s \in E!Stage : ToEncode(s)' = ToEncode(s)
    BY <1>1 DEF ToEncode, E!ViewsToEncode
  <2>2. InProgress' <= ToEncode("encoding")
    <3>1. /\ InProgress <= ToEncode("encoding")
          /\ frames["encoding"].bitstreams \in Nat
      BY <1>1, HeldRange DEF EncInv, Submissions, Flow, E!Stage
    <3>2. Len(lockTasks) \in Nat /\ Len(todo) \in Nat
      BY ListFacts DEF EncInv, Typed
    <3>3. frames' = frames /\ Len(lockTasks') = Len(lockTasks) /\ Len(todo') = 0
      BY <1>1
    <3>4. frames["encoding"] \in EncodedFrame
      BY DEF EncInv, Typed, E!Stage
    <3>5. ToEncode("encoding") \in Nat
      BY <3>4, ViewsToEncodeOf DEF ToEncode
    <3> QED BY ONLY <3>1, <3>2, <3>3, <3>5 DEF InProgress
  <2>3. Unlocked' = Unlocked
    BY <1>1 DEF Unlocked
  <2> QED BY <1>1, <1>2, <2>1, <2>2, <2>3 DEF EncInv, Submissions, E!Stage
<1>7. (Pools /\ Locals)'
  BY <1>1, <1>2 DEF EncInv, Pools, Locals, E!ViewsIn, E!BitstreamsIn, E!Total, E!ViewsHeld, E!PerFrame
<1>8. (Upgrades /\ Follows)'
  BY <1>1, <1>2 DEF EncInv, Upgrades, Follows
<1> QED BY <1>3, <1>4, <1>5, <1>6, <1>7, <1>8 DEF EncInv

\* The hardware fails at the first view, and the frame is freed.
LEMMA EncodeFailsAtOnceKeeps ==
  ASSUME EncInv, E!EncodeFails, todo = E!ViewsToEncode(frames["encoding"])
  PROVE  EncInv'
<1>1. /\ phase = "encode" /\ todo' = <<>> /\ phase' = "finish" /\ failed' = TRUE /\ stopped' = TRUE
      /\ E!Free({"encoding"}) /\ frames' = E!Freed({"encoding"})
      /\ UNCHANGED <<pictures, wanted, render, E!contextVars, encodes, lockTasks, bitstream, buffers,
                     lastLocal, broken, screen>>
  BY DEF E!EncodeFails, E!Fail
<1> USE DEF E!contextVars
<1>2. {"encoding"} \in SUBSET E!Stage
  BY DEF E!Stage
<1>3. /\ frames' \in [E!Stage -> EncodedFrame]
      /\ frames'["encoding"] = E!NoFrame /\ ~E!At("encoding")'
      /\ \A s \in E!Stage \ {"encoding"} : frames'[s] = frames[s] /\ E!At(s)' = E!At(s)
  BY <1>1, <1>2, FreedFrames
<1>4. (EmptyStages /\ Kinds)' /\ (\A s \in E!Stage : frames[s].is => frames[s].picture \in E!Picture)'
  BY <1>1, <1>2, FreedKinds
<1>5. views' = E!ViewsIn(E!Stage)' /\ views' \in Nat
  BY <1>1, <1>2, FreedViews
<1>6. lockTasks = <<>> /\ frames["encoding"].bitstreams = 0
  <2>1. lockTasks \o todo = todo /\ frames["encoding"].bitstreams = 0
    BY <1>1 DEF EncInv, Submissions
  <2>2. lockTasks \in Seq({"main", "aux"}) /\ todo \in Seq({"main", "aux"})
    <3>1. /\ <<>> \in Seq({"main", "aux"}) /\ <<"main">> \in Seq({"main", "aux"})
          /\ <<"aux">> \in Seq({"main", "aux"}) /\ <<"main", "aux">> \in Seq({"main", "aux"})
      OBVIOUS
    <3> QED BY <3>1 DEF EncInv, Typed, ViewLists
  <2>3. Len(lockTasks \o todo) = Len(lockTasks) + Len(todo) /\ Len(lockTasks) \in Nat /\ Len(todo) \in Nat
    BY <2>2
  <2>4. Len(lockTasks) = 0
    BY <2>1, <2>3
  <2> QED BY <2>1, <2>2, <2>4
<1>7. Typed'
  <2>1. canUpgrade' \in BOOLEAN /\ due' \in BOOLEAN /\ locals' \subseteq E!Local
    BY <1>1 DEF E!Free, EncInv, Typed, E!TypeOK
  <2>2. E!TypeOK'
    BY <1>1, <1>4, <1>5, <2>1 DEF EncInv, Typed, E!TypeOK, E!Local
  <2>3. (frames \in [E!Stage -> EncodedFrame])'
    BY <1>1, <1>3 DEF EncodedFrame, E!Local
  <2> QED BY <1>1, <2>2, <2>3 DEF EncInv, Typed, ViewLists
<1>8. Flow'
  BY <1>1, <1>3 DEF EncInv, Flow, E!Stage
<1>9. Submissions'
  <2>1. Unlocked' = Unlocked
    BY <1>1 DEF Unlocked
  <2>2. \A s \in {"encoded", "rendered"} : ToEncode(s)' = ToEncode(s)
    BY <1>3 DEF ToEncode, E!ViewsToEncode, E!Stage
  <2> QED BY <1>1, <1>3, <1>6, <2>1, <2>2 DEF EncInv, Submissions, E!Stage
<1>10. Pools'
  <2>1. \A s \in E!Stage : frames'[s].bitstreams = frames[s].bitstreams
    BY <1>3, <1>6 DEF E!NoFrame
  <2>2. E!BitstreamsIn(E!Stage)' = E!BitstreamsIn(E!Stage)
    BY <2>1 DEF E!BitstreamsIn
  <2> QED BY <1>1, <1>5, <2>2 DEF EncInv, Pools
<1>11. Locals'
  <2>1. /\ locals' = {frames'[s].local : s \in E!Stage} \ {0}
        /\ \A s, t \in E!Stage : s # t /\ frames'[s].local = frames'[t].local => frames'[s].local = 0
    BY <1>1, <1>2, FreedLocals
  <2> QED BY <1>1, <1>3, <2>1 DEF EncInv, Locals, E!Stage
<1>12. Upgrades'
  BY <1>1, <1>2, FreedUpgrades
<1>13. Follows'
  BY <1>1 DEF Follows
<1> QED BY <1>4, <1>7, <1>8, <1>9, <1>10, <1>11, <1>12, <1>13 DEF EncInv

\* The bitstreams of the frames that are freed.
LEMMA FreedBitstreams ==
  ASSUME EncInv, NEW stages \in SUBSET E!Stage, frames' = E!Freed(stages)
  PROVE  /\ E!BitstreamsIn(E!Stage) = E!BitstreamsIn(stages) + E!BitstreamsIn(E!Stage)'
         /\ E!BitstreamsIn(stages) \in Nat /\ E!BitstreamsIn(E!Stage)' \in Nat
<1> DEFINE n == [s \in E!Stage |-> IF s \in E!Stage THEN frames[s].bitstreams ELSE 0]
           a == [s \in E!Stage |-> IF s \in stages THEN frames[s].bitstreams ELSE 0]
           b == [s \in E!Stage |-> IF s \in E!Stage THEN frames'[s].bitstreams ELSE 0]
<1>1. \A s \in E!Stage : frames'[s].bitstreams = IF s \in stages THEN 0 ELSE frames[s].bitstreams
  BY FreedFrames DEF E!NoFrame
<1>2. \A s \in E!Stage : frames[s].bitstreams \in Nat
  BY HeldRange
<1>3. n \in [E!Stage -> Nat] /\ a \in [E!Stage -> Nat] /\ b \in [E!Stage -> Nat]
  BY <1>1, <1>2
<1>4. \A s \in E!Stage : n[s] = a[s] + b[s]
  BY <1>1, <1>2
<1>5. /\ E!BitstreamsIn(E!Stage) = E!Total(n) /\ E!BitstreamsIn(stages) = E!Total(a)
      /\ E!BitstreamsIn(E!Stage)' = E!Total(b)
  BY DEF E!BitstreamsIn
<1> HIDE DEF n, a, b
<1> QED BY <1>3, <1>4, <1>5, TotalOfParts

\* The end of render_surfaces: the rendered frame reaches the client, or all are cleared.
LEMMA FinishKeeps ==
  ASSUME EncInv, E!Finish
  PROVE  EncInv'
<1> DEFINE done == IF stopped THEN {"rendered", "queued", "viewed", "encoded"} ELSE {"rendered"}
<1>1. /\ phase = "finish" /\ phase' = "idle"
      /\ screen' = IF stopped THEN screen ELSE E!Shown(screen, frames["rendered"])
      /\ broken' = (broken \/ (stopped /\ (E!At("rendered") \/ E!At("encoded"))))
      /\ buffers' = buffers - E!BitstreamsIn(done)
      /\ E!Free(done) /\ frames' = E!Freed(done)
      /\ UNCHANGED <<failed, stopped>> \/ (failed' = TRUE /\ stopped' = TRUE)
      /\ UNCHANGED <<pictures, wanted, render, E!contextVars, E!encodeVars, lastLocal>>
  BY DEF E!Finish, E!Fail
<1> USE DEF E!contextVars, E!encodeVars
<1>2. done \in SUBSET E!Stage /\ "rendered" \in done
      /\ (stopped => done = {"rendered", "queued", "viewed", "encoded"})
      /\ (~stopped => done = {"rendered"})
  BY DEF E!Stage
<1> HIDE DEF done
<1>3. /\ frames' \in [E!Stage -> EncodedFrame]
      /\ \A s \in done : frames'[s] = E!NoFrame /\ ~E!At(s)'
      /\ \A s \in E!Stage \ done : frames'[s] = frames[s] /\ E!At(s)' = E!At(s)
  BY <1>1, <1>2, FreedFrames
<1>4. (failed => failed') /\ (stopped => stopped') /\ failed' \in BOOLEAN /\ stopped' \in BOOLEAN
      /\ (~stopped' => ~stopped) /\ (~failed' => ~failed) /\ (stopped' => failed')
  <2>1. failed \in BOOLEAN /\ stopped \in BOOLEAN /\ (stopped => failed)
    BY DEF EncInv, Typed, E!TypeOK, Submissions
  <2>2. CASE UNCHANGED <<failed, stopped>>
    BY <2>1, <2>2
  <2>3. CASE failed' = TRUE /\ stopped' = TRUE
    BY <2>1, <2>3
  <2> QED BY <1>1, <2>2, <2>3
<1>5. (EmptyStages /\ Kinds)' /\ (\A s \in E!Stage : frames[s].is => frames[s].picture \in E!Picture)'
  BY <1>1, <1>2, <1>4, FreedKinds
<1>6. views' = E!ViewsIn(E!Stage)' /\ views' \in Nat
  BY <1>1, <1>2, FreedViews
<1>7. Pools'
  <2>1. /\ E!BitstreamsIn(E!Stage) = E!BitstreamsIn(done) + E!BitstreamsIn(E!Stage)'
        /\ E!BitstreamsIn(done) \in Nat /\ E!BitstreamsIn(E!Stage)' \in Nat
    BY <1>1, <1>2, FreedBitstreams
  <2>2. buffers = E!BitstreamsIn(E!Stage) + (IF bitstream = "ok" THEN 1 ELSE 0)
                  + (IF codec = "progressive" THEN 0 ELSE Cardinality(encodes))
    BY DEF EncInv, Pools
  <2>3. Cardinality(encodes) \in Nat
    BY EncodesFinite
  <2>4. buffers' = buffers - E!BitstreamsIn(done) /\ UNCHANGED <<bitstream, codec, encodes>>
    BY <1>1
  <2>5. buffers' = E!BitstreamsIn(E!Stage)' + (IF bitstream' = "ok" THEN 1 ELSE 0)
                   + (IF codec' = "progressive" THEN 0 ELSE Cardinality(encodes'))
    BY ONLY <2>1, <2>2, <2>3, <2>4
  <2> QED BY <1>6, <2>5 DEF Pools
<1>8. Typed'
  <2>1. canUpgrade' \in BOOLEAN /\ due' \in BOOLEAN /\ locals' \subseteq E!Local
    BY <1>1 DEF E!Free, EncInv, Typed, E!TypeOK
  <2>2. broken' \in BOOLEAN
    BY <1>1
  <2>3. buffers' \in Nat
    <3>1. /\ E!BitstreamsIn(E!Stage)' \in Nat /\ Cardinality(encodes) \in Nat
          /\ encodes' = encodes
      BY <1>1, <1>2, FreedBitstreams, EncodesFinite
    <3> QED BY <1>7, <3>1 DEF Pools
  <2>4. E!TypeOK'
    BY <1>1, <1>4, <1>5, <1>6, <2>1, <2>2, <2>3 DEF EncInv, Typed, E!TypeOK, E!Local
  <2>5. (frames \in [E!Stage -> EncodedFrame])'
    BY <1>1, <1>3 DEF EncodedFrame, E!Local
  <2> QED BY <1>1, <2>4, <2>5 DEF EncInv, Typed, ViewLists
<1>9. Flow'
  BY <1>1, <1>2, <1>3 DEF EncInv, Flow, E!Stage
<1>10. Submissions'
  <2>1. Unlocked' = Unlocked
    BY <1>1 DEF Unlocked
  <2>2. /\ frames'["encoding"] = frames["encoding"] /\ E!At("encoding")' = E!At("encoding")
        /\ ToEncode("encoding")' = ToEncode("encoding") /\ InProgress' = InProgress
    BY <1>1, <1>2, <1>3 DEF ToEncode, E!ViewsToEncode, E!Stage, InProgress
  <2>3. /\ ~E!At("rendered")'
        /\ E!At("encoded")' => /\ frames'["encoded"] = frames["encoded"] /\ E!At("encoded")
                               /\ ToEncode("encoded")' = ToEncode("encoded")
    BY <1>2, <1>3 DEF ToEncode, E!ViewsToEncode, E!Stage
  <2>4. broken' => stopped'
    BY <1>1, <1>4 DEF EncInv, Submissions
  <2> QED BY <1>1, <1>4, <2>1, <2>2, <2>3, <2>4 DEF EncInv, Submissions
<1>11. Locals'
  <2>1. /\ locals' = {frames'[s].local : s \in E!Stage} \ {0}
        /\ \A s, t \in E!Stage : s # t /\ frames'[s].local = frames'[t].local => frames'[s].local = 0
    BY <1>1, <1>2, FreedLocals
  <2>2. \A s \in E!Stage : E!At(s)' => frames'[s] = frames[s] /\ E!At(s)
    BY <1>3
  <2> QED BY <1>1, <2>1, <2>2 DEF EncInv, Locals, E!Stage
<1>12. Upgrades'
  <2>1. stopped' \/ done \subseteq E!Stage \ {"queued", "creating", "viewed"}
    BY <1>2, <1>4 DEF E!Stage
  <2> QED BY <1>1, <1>2, <1>4, <2>1, FreedUpgrades
<1>13. Follows'
  <2> SUFFICES ASSUME ~stopped', ~failed'
               PROVE  (Bases /\ UpgradesLead)'
    BY DEF Follows
  <2>1. /\ ~stopped /\ Bases /\ UpgradesLead
        /\ screen' = E!Shown(screen, frames["rendered"])
        /\ frames'["rendered"] = E!NoFrame
        /\ \A s \in E!Stage \ {"rendered"} : frames'[s] = frames[s] /\ E!At(s)' = E!At(s)
    BY <1>1, <1>2, <1>3, <1>4 DEF EncInv, Follows
  <2>2. E!OnceArrived' = E!OnceArrived /\ OnceEncodedArrived' = OnceEncodedArrived
    BY <2>1, ShownNothing DEF E!OnceArrived, OnceEncodedArrived, E!Stage
  <2>3. Bases'
    BY <1>1, <2>1, <2>2 DEF Bases, E!Stage
  <2>4. \A s \in E!Stage : IsAux(s)' => IsAux(s) /\ ~E!At("rendered") /\ frames'[s] = frames[s]
    <3>1. \A s \in E!Stage : IsAux(s)' => IsAux(s) /\ frames'[s] = frames[s] /\ s # "rendered"
      BY <2>1 DEF IsAux, E!At, E!NoFrame
    <3>2. \A s \in E!Stage \ {"rendered"} : IsAux(s) => ~E!At("rendered")
      BY <2>1 DEF EncInv, Kinds, UpgradesLead, IsAux, E!Stage
    <3> QED BY <3>1, <3>2
  <2>5. (\E s \in E!Stage : IsAux(s)') => screen' = screen
    BY <2>1, <2>4, ShownNothing DEF E!At
  <2> QED BY <2>1, <2>3, <2>4, <2>5 DEF UpgradesLead, IsAux, E!Stage, E!At, E!NoFrame
<1> QED BY <1>5, <1>7, <1>8, <1>9, <1>10, <1>11, <1>12, <1>13 DEF EncInv

\* maybe_start_view_creations starts nothing.
LEMMA StartNoViewKeeps ==
  ASSUME EncInv, phase = "views", phase' = "finish", hasLast' \in BOOLEAN,
         UNCHANGED <<pictures, wanted, frames, render, codec, chroma, auxPicture, lastPicture,
                     E!upgradeVars, E!encodeVars, E!poolVars, E!endVars, screen>>
  PROVE  EncInv'
<1> USE DEF E!upgradeVars, E!encodeVars, E!poolVars, E!endVars
<1>1. \A s : E!At(s)' = E!At(s)
  BY DEF E!At
<1>2. Typed'
  <2>1. E!TypeOK'
    BY DEF EncInv, Typed, E!TypeOK, E!Local
  <2> QED BY <2>1 DEF EncInv, Typed, EncodedFrame, PictureOrNone, E!Local, ViewLists
<1>3. (EmptyStages /\ Kinds)'
  BY <1>1 DEF EncInv, EmptyStages, Kinds
<1>4. Flow'
  BY <1>1 DEF EncInv, Flow
<1>5. Submissions'
  BY <1>1 DEF EncInv, Submissions, Unlocked, InProgress, ToEncode, E!ViewsToEncode
<1>6. (Pools /\ Locals)'
  BY <1>1 DEF EncInv, Pools, Locals, E!ViewsIn, E!BitstreamsIn, E!Total, E!ViewsHeld, E!PerFrame
<1>7. Upgrades'
  BY <1>1 DEF EncInv, Upgrades
<1>8. Follows'
  <2>1. /\ E!OnceArrived' = E!OnceArrived
        /\ OnceEncodedArrived' = OnceEncodedArrived
    BY DEF OnceEncodedArrived, E!OnceArrived
  <2> QED BY <1>1, <2>1 DEF EncInv, Follows, Bases, UpgradesLead, IsAux
<1> QED BY <1>2, <1>3, <1>4, <1>5, <1>6, <1>7, <1>8 DEF EncInv

\* acquire_local_buffer finds one: two frames have one each, unless the kept one is one of
\* them.
LEMMA LocalBufferFree ==
  ASSUME EncInv, phase = "views", E!At("queued"), E!ViewerFree, codec = "progressive"
  PROVE  E!Local \ (locals \cup {lastLocal}) # {}
<1> DEFINE local(s) == frames[s].local
<1>1. E!Local = 1 .. 3
  BY DEF E!Local
<1>2. \A s \in E!Stage : ~E!At(s) => frames[s].local = 0
  BY DEF EncInv, EmptyStages, E!NoFrame
<1>3. frames["queued"].local = 0 /\ frames["creating"].local = 0 /\ frames["viewed"].local = 0
  BY <1>2 DEF EncInv, Kinds, E!ViewerFree, E!Stage
<1>4. locals = {frames[s].local : s \in E!Stage} \ {0}
  BY DEF EncInv, Locals
<1>5. locals \subseteq {local("encoding"), local("encoded"), local("rendered")} \ {0}
  BY <1>3, <1>4 DEF E!Stage
<1>6. \E a, b : locals \cup {lastLocal} \subseteq {a, b, 0}
  <2>1. local("encoding") = 0 \/ local("encoded") = 0
    BY <1>2 DEF EncInv, Flow, E!Stage
  <2>2. CASE ~E!At("rendered")
    <3>1. local("rendered") = 0
      BY <1>2, <2>2 DEF E!Stage
    <3>2. CASE local("encoding") = 0
      <4>1. locals \cup {lastLocal} \subseteq {local("encoded"), lastLocal, 0}
        BY <1>5, <3>1, <3>2
      <4> QED BY <4>1
    <3>3. CASE local("encoded") = 0
      <4>1. locals \cup {lastLocal} \subseteq {local("encoding"), lastLocal, 0}
        BY <1>5, <3>1, <3>3
      <4> QED BY <4>1
    <3> QED BY <2>1, <3>2, <3>3
  <2>3. CASE E!At("rendered")
    <3>1. \A s \in {"encoding", "encoded"} : local(s) \in {0, lastLocal}
      BY <1>2, <2>3 DEF EncInv, Locals, E!Stage
    <3>2. locals \cup {lastLocal} \subseteq {local("rendered"), lastLocal, 0}
      BY <1>5, <3>1
    <3> QED BY <3>2
  <2> QED BY <2>2, <2>3
<1>7. PICK a, b : locals \cup {lastLocal} \subseteq {a, b, 0}
  BY <1>6
<1>8. \E x \in 1 .. 3 : x # a /\ x # b
  <2>1. 1 \in 1 .. 3 /\ 2 \in 1 .. 3 /\ 3 \in 1 .. 3
    OBVIOUS
  <2>2. 1 # 2 /\ 1 # 3 /\ 2 # 3
    OBVIOUS
  <2> QED BY <2>1, <2>2
<1>9. \A x \in 1 .. 3 : x # 0
  OBVIOUS
<1> QED BY <1>1, <1>7, <1>8, <1>9

\* The least of some local buffers is one of them.
LEMMA LeastLocal ==
  ASSUME NEW free \in SUBSET E!Local, free # {}
  PROVE  E!Min(free) \in free
<1>1. free \subseteq 1 .. 3
  BY DEF E!Local
<1>2. \E x \in free : \A y \in free : x <= y
  <2>1. CASE 1 \in free
    BY <1>1, <2>1
  <2>2. CASE 1 \notin free /\ 2 \in free
    BY <1>1, <2>2
  <2>3. CASE 1 \notin free /\ 2 \notin free
    <3>1. \A x \in free : x = 3
      BY <1>1, <2>3
    <3>2. PICK x \in free : TRUE
      OBVIOUS
    <3> QED BY <3>1, <3>2
  <2> QED BY <2>1, <2>2, <2>3
<1> QED BY <1>2 DEF E!Min

\* The queued frame is picked up, and the next damage is computed from its picture.
LEMMA StartViewMovesKeeps ==
  ASSUME EncInv, phase = "views", phase' = "finish", ~stopped, E!At("queued"), E!ViewerFree,
         NEW local \in E!Local \cup {0}, local = 0 \/ local \notin locals,
         codec = "progressive" => local # 0,
         lastPicture' = frames["queued"].picture, hasLast' \in BOOLEAN,
         frames' = E!Moved([frames["queued"] EXCEPT !.local = local], "queued", "creating"),
         locals' = locals \cup ({local} \ {0}),
         UNCHANGED <<pictures, wanted, render, codec, chroma, auxPicture, E!upgradeVars,
                     E!encodeVars, views, buffers, lastLocal, E!endVars, screen>>
  PROVE  EncInv'
<1> USE DEF E!upgradeVars, E!encodeVars, E!endVars
<1> DEFINE q == frames["queued"]
           f == [q EXCEPT !.local = local]
<1>1. /\ q \in EncodedFrame /\ q.is /\ {"queued", "creating"} \subseteq E!Stage
      /\ q.picture \in E!Picture /\ q.type # "aux" /\ q.need = {} /\ q.bitstreams = 0
      /\ q.local = 0
  BY DEF EncInv, Typed, E!TypeOK, Kinds, E!At, E!Stage
<1>2. /\ f \in EncodedFrame /\ f.is /\ f.local = local
      /\ f.type = q.type /\ f.picture = q.picture /\ f.base = q.base /\ f.damage = q.damage
      /\ f.need = q.need /\ f.valid = q.valid /\ f.bitstreams = q.bitstreams
  BY <1>1 DEF EncodedFrame
<1>3. /\ ~E!At("creating") /\ ~E!At("viewed")
      /\ frames["creating"] = E!NoFrame /\ frames["viewed"] = E!NoFrame
  BY DEF EncInv, EmptyStages, E!ViewerFree, E!Stage
<1>4. E!ViewsHeld(f) = E!ViewsHeld(q)
  BY <1>2 DEF E!ViewsHeld
<1>5. frames' = E!Moved(f, "queued", "creating")
  OBVIOUS
<1> HIDE DEF q, f
<1>6. /\ frames' \in [E!Stage -> EncodedFrame]
      /\ frames'["queued"] = E!NoFrame /\ ~E!At("queued")'
      /\ frames'["creating"] = f /\ E!At("creating")'
      /\ \A s \in E!Stage \ {"queued", "creating"} : frames'[s] = frames[s] /\ E!At(s)' = E!At(s)
  BY <1>1, <1>2, <1>5, MovedFrames
<1>7. Typed'
  <2>1. (\A s \in E!Stage : frames[s].is => frames[s].picture \in E!Picture)'
    BY <1>1, <1>2, <1>6 DEF EncInv, Typed, E!TypeOK, E!Stage, E!NoFrame
  <2>2. lastPicture' \in E!Picture /\ locals' \subseteq E!Local
    BY <1>1 DEF q, EncInv, Typed, E!TypeOK
  <2>3. E!TypeOK'
    BY <2>1, <2>2 DEF EncInv, Typed, E!TypeOK, E!Local
  <2>4. (frames \in [E!Stage -> EncodedFrame])'
    BY <1>6 DEF EncodedFrame, E!Local
  <2> QED BY <2>3, <2>4 DEF EncInv, Typed
<1>8. (EmptyStages /\ Kinds)'
  <2>1. EmptyStages'
    BY <1>6 DEF EncInv, EmptyStages
  <2>2. Kinds'
    BY <1>1, <1>2, <1>6 DEF EncInv, Kinds, q, E!Stage, E!NoFrame
  <2> QED BY <2>1, <2>2
<1>9. Flow'
  BY <1>3, <1>6 DEF EncInv, Flow, E!Stage
<1>10. Submissions'
  BY <1>6 DEF EncInv, Submissions, Unlocked, InProgress, ToEncode, E!ViewsToEncode, E!Stage
<1>11. Pools'
  <2>1. views' = E!ViewsIn(E!Stage)'
    BY <1>1, <1>2, <1>3, <1>4, <1>5, MovedViews DEF q
  <2>2. E!BitstreamsIn(E!Stage)' = E!BitstreamsIn(E!Stage)
    <3>1. f.bitstreams = 0 /\ frames["queued"].bitstreams = 0
      BY <1>1, <1>2 DEF q
    <3> QED BY <1>1, <1>2, <1>3, <1>5, <3>1, MovedBitstreams
  <2> QED BY <2>1, <2>2 DEF EncInv, Pools
<1>12. Locals'
  <2>1. /\ frames'["queued"].local = 0 /\ frames'["creating"].local = local
        /\ frames["queued"].local = 0 /\ frames["creating"].local = 0
        /\ \A s \in E!Stage \ {"queued", "creating"} : frames'[s].local = frames[s].local
    BY <1>1, <1>2, <1>3, <1>6 DEF E!NoFrame, q
  <2>2. /\ locals = {frames[s].local : s \in E!Stage} \ {0}
        /\ \A s, t \in E!Stage : s # t /\ frames[s].local = frames[t].local => frames[s].local = 0
    BY DEF EncInv, Locals
  <2>3. locals' = {frames'[s].local : s \in E!Stage} \ {0}
    <3>1. \A x : x \in locals' <=> x \in {frames'[s].local : s \in E!Stage} \ {0}
      BY <1>1, <2>1, <2>2
    <3> QED BY <3>1
  <2>4. \A s, t \in E!Stage : s # t /\ frames'[s].local = frames'[t].local => frames'[s].local = 0
    <3>1. \A s \in E!Stage : frames[s].local = local => local = 0
      BY <2>2
    <3> QED BY <2>1, <2>2, <3>1
  <2>5. ~E!At("viewed")' /\ phase' \notin {"encode", "views"}
    BY <1>3, <1>6 DEF E!Stage
  <2> QED BY <1>2, <1>6, <2>3, <2>4, <2>5 DEF Locals
<1>13. Upgrades'
  <2>1. auxPicture = E!NoPicture /\ canUpgrade = FALSE
    BY DEF EncInv, Upgrades, Typed, E!TypeOK
  <2> QED BY <1>2, <1>6, <2>1 DEF Upgrades, q
<1>14. Follows'
  <2> SUFFICES ASSUME ~stopped', ~failed'
               PROVE  (Bases /\ UpgradesLead)'
    BY DEF Follows
  <2>1. Bases /\ UpgradesLead
    BY DEF EncInv, Follows
  <2>2. /\ E!OnceArrived' = E!OnceArrived
        /\ OnceEncodedArrived' = OnceEncodedArrived
    BY <1>6 DEF OnceEncodedArrived, E!OnceArrived, E!Stage
  <2>3. Bases'
    BY <1>1, <1>2, <1>3, <1>6, <2>1, <2>2 DEF Bases, q, E!Stage
  <2> QED BY <1>1, <1>2, <1>3, <1>6, <2>1, <2>3 DEF UpgradesLead, IsAux, E!Stage
<1> QED BY <1>7, <1>8, <1>9, <1>10, <1>11, <1>12, <1>13, <1>14 DEF EncInv

\* The hardware fails before the view is created.
LEMMA StartViewFailsKeeps ==
  ASSUME EncInv, phase = "views", phase' = "finish", E!At("queued"), E!ViewerFree,
         lastPicture' = frames["queued"].picture, hasLast' \in BOOLEAN,
         E!Free({"queued"}), frames' = E!Freed({"queued"}), E!Fail,
         UNCHANGED <<pictures, wanted, render, codec, chroma, auxPicture,
                     E!encodeVars, buffers, lastLocal, broken, screen>>
  PROVE  EncInv'
<1> USE DEF E!encodeVars, E!Fail
<1>1. {"queued"} \in SUBSET E!Stage
  BY DEF E!Stage
<1>2. /\ frames' \in [E!Stage -> EncodedFrame]
      /\ frames'["queued"] = E!NoFrame /\ ~E!At("queued")'
      /\ \A s \in E!Stage \ {"queued"} : frames'[s] = frames[s] /\ E!At(s)' = E!At(s)
  BY <1>1, FreedFrames
<1>3. (EmptyStages /\ Kinds)' /\ (\A s \in E!Stage : frames[s].is => frames[s].picture \in E!Picture)'
  BY <1>1, FreedKinds
<1>4. views' = E!ViewsIn(E!Stage)' /\ views' \in Nat
  BY <1>1, FreedViews
<1>5. Typed'
  <2>1. /\ canUpgrade' \in BOOLEAN /\ due' \in BOOLEAN /\ locals' \subseteq E!Local
        /\ lastPicture' \in E!Picture
    BY DEF E!Free, EncInv, Typed, E!TypeOK, E!At, E!Stage
  <2>2. E!TypeOK'
    BY <1>3, <1>4, <2>1 DEF EncInv, Typed, E!TypeOK, E!Local
  <2>3. (frames \in [E!Stage -> EncodedFrame])'
    BY <1>2 DEF EncodedFrame, E!Local
  <2> QED BY <2>2, <2>3 DEF EncInv, Typed, ViewLists
<1>6. Flow'
  BY <1>2 DEF EncInv, Flow, E!Stage
<1>7. Submissions'
  BY <1>2 DEF EncInv, Submissions, Unlocked, InProgress, ToEncode, E!ViewsToEncode, E!Stage
<1>8. Pools'
  <2>1. \A s \in E!Stage : frames'[s].bitstreams = frames[s].bitstreams
    BY <1>2 DEF E!NoFrame, EncInv, Kinds
  <2>2. E!BitstreamsIn(E!Stage)' = E!BitstreamsIn(E!Stage)
    BY <2>1 DEF E!BitstreamsIn
  <2> QED BY <1>4, <2>2 DEF EncInv, Pools
<1>9. Locals'
  <2>1. /\ locals' = {frames'[s].local : s \in E!Stage} \ {0}
        /\ \A s, t \in E!Stage : s # t /\ frames'[s].local = frames'[t].local => frames'[s].local = 0
    BY <1>1, FreedLocals
  <2> QED BY <1>2, <2>1 DEF EncInv, Locals, Flow, E!Stage
<1>10. Upgrades'
  <2>1. auxPicture = E!NoPicture /\ ~E!At("creating")
    BY DEF EncInv, Upgrades, E!ViewerFree
  <2> QED BY <1>1, <2>1, FreedUpgrades
<1>11. Follows'
  BY DEF Follows
<1> QED BY <1>3, <1>5, <1>6, <1>7, <1>8, <1>9, <1>10, <1>11 DEF EncInv

\* The cases of maybe_start_view_creations.
LEMMA StartViewKeeps ==
  ASSUME EncInv, E!StartView
  PROVE  EncInv'
<1> DEFINE f == frames["queued"]
           free == E!Local \ (locals \cup {lastLocal})
           local == IF free = {} THEN 0 ELSE E!Min(free)
           starts == ~stopped /\ f.is /\ E!ViewerFree
<1>1. /\ phase = "views" /\ phase' = "finish"
      /\ lastPicture' = IF starts THEN f.picture ELSE lastPicture
      /\ hasLast' = (hasLast \/ starts)
      /\ \/ /\ frames' = IF starts THEN E!Moved([f EXCEPT !.local = local], "queued", "creating")
                         ELSE frames
            /\ locals' = IF starts THEN locals \cup ({local} \ {0}) ELSE locals
            /\ UNCHANGED <<E!upgradeVars, views, failed, stopped>>
         \/ /\ starts /\ codec # "progressive"
            /\ E!Free({"queued"}) /\ frames' = E!Freed({"queued"})
            /\ E!Fail
      /\ UNCHANGED <<pictures, wanted, render, codec, chroma, auxPicture, E!encodeVars, buffers,
                     lastLocal, broken, screen>>
  BY DEF E!StartView
<1>2. hasLast' \in BOOLEAN
  BY <1>1 DEF EncInv, Typed, E!TypeOK
<1>3. /\ local \in E!Local \cup {0} /\ (local = 0 \/ local \notin locals)
      /\ starts /\ codec = "progressive" => local # 0
  <2>1. free # {} => local \in free
    BY LeastLocal
  <2>2. 0 \notin E!Local
    BY DEF E!Local
  <2>3. starts /\ codec = "progressive" => free # {}
    BY <1>1, LocalBufferFree DEF E!At
  <2> QED BY <2>1, <2>2, <2>3
<1>4. CASE ~starts
  <2>1. UNCHANGED <<pictures, wanted, frames, render, codec, chroma, auxPicture, lastPicture,
                    E!upgradeVars, E!encodeVars, E!poolVars, E!endVars, screen>>
    BY <1>1, <1>4 DEF E!poolVars, E!endVars
  <2> QED BY <1>1, <1>2, <2>1, StartNoViewKeeps
<1>5. CASE starts /\ E!Free({"queued"}) /\ frames' = E!Freed({"queued"}) /\ E!Fail
  BY <1>1, <1>2, <1>5, StartViewFailsKeeps DEF E!At
<1>6. CASE /\ starts
           /\ frames' = E!Moved([f EXCEPT !.local = local], "queued", "creating")
           /\ locals' = locals \cup ({local} \ {0})
           /\ UNCHANGED <<E!upgradeVars, views, failed, stopped>>
  <2> HIDE DEF local
  <2> QED BY <1>1, <1>2, <1>3, <1>6, StartViewMovesKeeps DEF E!At, E!endVars
<1> QED BY <1>1, <1>4, <1>5, <1>6

\* What the stages hold when one of them changes.
LEMMA TotalOfPut ==
  ASSUME NEW n \in [E!Stage -> Nat], NEW m \in [E!Stage -> Nat], NEW at \in E!Stage,
         \A s \in E!Stage \ {at} : m[s] = n[s]
  PROVE  E!Total(m) = E!Total(n) - n[at] + m[at]
BY DEF E!Total, E!Stage

\* A frame that comes, or changes where it is.
LEMMA PutFrame ==
  ASSUME EncInv, NEW g \in EncodedFrame, g.is, NEW at \in E!Stage,
         frames' = [frames EXCEPT ![at] = g], codec' = codec
  PROVE  /\ frames' \in [E!Stage -> EncodedFrame]
         /\ frames'[at] = g /\ E!At(at)'
         /\ \A s \in E!Stage \ {at} : frames'[s] = frames[s] /\ E!At(s)' = E!At(s)
         /\ E!ViewsIn(E!Stage)' = E!ViewsIn(E!Stage) - E!ViewsHeld(frames[at]) + E!ViewsHeld(g)
         /\ E!ViewsHeld(frames[at]) <= E!ViewsIn(E!Stage)
         /\ E!BitstreamsIn(E!Stage)' = E!BitstreamsIn(E!Stage) - frames[at].bitstreams + g.bitstreams
<1>1. /\ frames' \in [E!Stage -> EncodedFrame]
      /\ frames'[at] = g /\ E!At(at)'
      /\ \A s \in E!Stage \ {at} : frames'[s] = frames[s] /\ E!At(s)' = E!At(s)
  BY DEF EncInv, Typed, E!At
<1>2. \A s \in E!Stage : E!ViewsHeld(frames[s]) \in Nat /\ frames[s].bitstreams \in Nat
  BY HeldRange, CodecKnown
<1>3. E!ViewsHeld(g) \in Nat /\ g.bitstreams \in Nat
  BY CodecKnown DEF E!ViewsHeld, EncodedFrame
<1>4. /\ E!ViewsHeld(frames[at])' = E!ViewsHeld(g)
      /\ \A s \in E!Stage \ {at} : E!ViewsHeld(frames[s])' = E!ViewsHeld(frames[s])
  BY <1>1 DEF E!ViewsHeld, E!PerFrame
<1>5. /\ E!ViewsIn(E!Stage)' = E!ViewsIn(E!Stage) - E!ViewsHeld(frames[at]) + E!ViewsHeld(g)
      /\ E!ViewsHeld(frames[at]) <= E!ViewsIn(E!Stage)
  <2> DEFINE n == [s \in E!Stage |-> IF s \in E!Stage THEN E!ViewsHeld(frames[s]) ELSE 0]
             m == [s \in E!Stage |-> IF s \in E!Stage THEN E!ViewsHeld(frames[s])' ELSE 0]
  <2>1. n \in [E!Stage -> Nat] /\ m \in [E!Stage -> Nat]
    BY <1>2, <1>3, <1>4
  <2>2. /\ m[at] = E!ViewsHeld(g) /\ n[at] = E!ViewsHeld(frames[at])
        /\ \A s \in E!Stage \ {at} : m[s] = n[s]
    BY <1>4
  <2>3. E!ViewsIn(E!Stage) = E!Total(n) /\ E!ViewsIn(E!Stage)' = E!Total(m)
    BY DEF E!ViewsIn
  <2> HIDE DEF n, m
  <2>4. E!Total(m) = E!Total(n) - n[at] + m[at]
    BY <2>1, <2>2, TotalOfPut
  <2>5. n[at] <= E!Total(n)
    BY <2>1, TotalBounds
  <2> QED BY <2>2, <2>3, <2>4, <2>5
<1>6. E!BitstreamsIn(E!Stage)' = E!BitstreamsIn(E!Stage) - frames[at].bitstreams + g.bitstreams
  <2> DEFINE n == [s \in E!Stage |-> IF s \in E!Stage THEN frames[s].bitstreams ELSE 0]
             m == [s \in E!Stage |-> IF s \in E!Stage THEN frames'[s].bitstreams ELSE 0]
  <2>1. n \in [E!Stage -> Nat] /\ m \in [E!Stage -> Nat]
    BY <1>1, <1>2, <1>3
  <2>2. /\ m[at] = g.bitstreams /\ n[at] = frames[at].bitstreams
        /\ \A s \in E!Stage \ {at} : m[s] = n[s]
    BY <1>1
  <2>3. E!BitstreamsIn(E!Stage) = E!Total(n) /\ E!BitstreamsIn(E!Stage)' = E!Total(m)
    BY DEF E!BitstreamsIn
  <2> HIDE DEF n, m
  <2> QED BY <2>1, <2>2, <2>3, TotalOfPut
<1> QED BY <1>1, <1>5, <1>6

\* A new frame takes the place of the queued one.
LEMMA RenderFrameKeeps ==
  ASSUME EncInv, E!RenderFrame
  PROVE  EncInv'
<1> DEFINE g == [E!NoFrame EXCEPT !.is = TRUE, !.picture = wanted,
                   !.type = IF codec = "avc444" /\ E!UsedSlots = 0 THEN "dual" ELSE "main",
                   !.base = IF hasLast THEN lastPicture ELSE E!NoPicture]
<1>1. /\ phase = "idle" /\ wanted # E!NoPicture
      /\ frames' = [frames EXCEPT !["queued"] = g]
      /\ views' = views + E!PerFrame - E!ViewsHeld(frames["queued"])
      /\ auxPicture' = E!NoPicture /\ canUpgrade' = FALSE /\ wanted' = E!NoPicture /\ render' = TRUE
      /\ UNCHANGED <<pictures, phase, codec, chroma, lastPicture, hasLast, E!encodeVars, buffers,
                     locals, lastLocal, E!endVars, screen>>
  BY DEF E!RenderFrame
<1>2. due' \in BOOLEAN
  <2>1. due' \in IF E!At("queued") THEN {TRUE} ELSE {due, FALSE}
    BY DEF E!RenderFrame
  <2> QED BY <2>1 DEF EncInv, Typed, E!TypeOK
<1> USE DEF E!encodeVars, E!endVars
<1>3. /\ g.is /\ g.picture = wanted /\ g.type \in {"dual", "main"}
      /\ (codec # "avc444" => g.type = "main")
      /\ g.base \in {lastPicture, E!NoPicture} /\ g.damage = {} /\ g.need = {} /\ ~g.valid
      /\ g.bitstreams = 0 /\ g.local = 0 /\ g.valid = FALSE /\ g.is = TRUE
  BY DEF E!NoFrame
<1>4. wanted \in E!Picture /\ lastPicture \in PictureOrNone /\ E!NoPicture \in PictureOrNone
  BY <1>1 DEF EncInv, Typed, E!TypeOK, PictureOrNone
<1>5. g \in EncodedFrame
  BY <1>3, <1>4 DEF EncodedFrame, E!NoFrame, PictureOrNone
<1> HIDE DEF g
<1>6. "queued" \in E!Stage
  BY DEF E!Stage
<1>7. /\ frames' \in [E!Stage -> EncodedFrame]
      /\ frames'["queued"] = g /\ E!At("queued")'
      /\ \A s \in E!Stage \ {"queued"} : frames'[s] = frames[s] /\ E!At(s)' = E!At(s)
      /\ E!ViewsIn(E!Stage)' = E!ViewsIn(E!Stage) - E!ViewsHeld(frames["queued"]) + E!ViewsHeld(g)
      /\ E!ViewsHeld(frames["queued"]) <= E!ViewsIn(E!Stage)
      /\ E!BitstreamsIn(E!Stage)' = E!BitstreamsIn(E!Stage) - frames["queued"].bitstreams + g.bitstreams
  BY <1>1, <1>3, <1>5, <1>6, PutFrame
<1>8. views' = E!ViewsIn(E!Stage)' /\ views' \in Nat
  <2>1. E!ViewsHeld(g) = E!PerFrame
    BY <1>3 DEF E!ViewsHeld
  <2>2. views \in Nat /\ views = E!ViewsIn(E!Stage)
    BY DEF EncInv, Typed, E!TypeOK, Pools
  <2>3. E!PerFrame \in Nat /\ E!ViewsHeld(frames["queued"]) \in Nat
    BY <1>6, CodecKnown, HeldRange
  <2> QED BY <1>1, <1>7, <2>1, <2>2, <2>3
<1>9. Typed'
  <2>1. (\A s \in E!Stage : frames[s].is => frames[s].picture \in E!Picture)'
    BY <1>3, <1>4, <1>7 DEF EncInv, Typed, E!TypeOK
  <2>2. E!TypeOK'
    BY <1>1, <1>2, <1>8, <2>1 DEF EncInv, Typed, E!TypeOK, E!Local
  <2>3. (frames \in [E!Stage -> EncodedFrame])'
    BY <1>1, <1>7 DEF EncodedFrame, E!Local
  <2> QED BY <1>1, <2>2, <2>3 DEF EncInv, Typed
<1>10. (EmptyStages /\ Kinds)'
  BY <1>1, <1>3, <1>7 DEF EncInv, EmptyStages, Kinds, E!Stage
<1>11. Flow'
  BY <1>1, <1>7 DEF EncInv, Flow, E!Stage
<1>12. Submissions'
  BY <1>1, <1>7 DEF EncInv, Submissions, Unlocked, InProgress, ToEncode, E!ViewsToEncode, E!Stage
<1>13. Pools'
  <2>1. frames["queued"].bitstreams = 0
    BY DEF EncInv, Kinds
  <2>2. E!BitstreamsIn(E!Stage)' = E!BitstreamsIn(E!Stage)
    BY <1>3, <1>7, <2>1, BitstreamsCounted
  <2> QED BY <1>1, <1>8, <2>2 DEF EncInv, Pools
<1>14. Locals'
  <2>1. \A s \in E!Stage : frames'[s].local = frames[s].local
    BY <1>3, <1>7 DEF EncInv, Kinds
  <2> QED BY <1>1, <1>7, <2>1 DEF EncInv, Locals, Flow, E!Stage
<1>15. Upgrades'
  BY <1>1, <1>7 DEF EncInv, Upgrades, E!Stage
<1>16. Follows'
  <2>1. /\ E!OnceArrived' = E!OnceArrived
        /\ OnceEncodedArrived' = OnceEncodedArrived
    BY <1>1, <1>7 DEF OnceEncodedArrived, E!OnceArrived, E!Stage
  <2> QED BY <1>1, <1>3, <1>7, <2>1 DEF EncInv, Follows, Bases, UpgradesLead, IsAux, E!Stage
<1> QED BY <1>9, <1>10, <1>11, <1>12, <1>13, <1>14, <1>15, <1>16 DEF EncInv

\* Nothing is on its way when the auxiliary view of the last picture is encoded.
LEMMA UpgradeFrameKeeps ==
  ASSUME EncInv, E!UpgradeFrame
  PROVE  EncInv'
<1> DEFINE g == [E!NoFrame EXCEPT !.is = TRUE, !.type = "aux", !.picture = auxPicture,
                   !.damage = chroma, !.valid = TRUE]
<1>1. /\ phase = "idle" /\ canUpgrade /\ ~stopped
      /\ frames' = [frames EXCEPT !["viewed"] = g]
      /\ chroma' = {} /\ views' = views + 1 /\ due' = FALSE /\ canUpgrade' = FALSE /\ render' = TRUE
      /\ UNCHANGED <<pictures, wanted, phase, codec, auxPicture, lastPicture, hasLast,
                     E!encodeVars, buffers, locals, lastLocal, E!endVars, screen>>
  BY DEF E!UpgradeFrame, E!Upgradable
<1> USE DEF E!encodeVars, E!endVars
<1>2. /\ chroma # {} /\ views = 0 /\ auxPicture # E!NoPicture /\ auxPicture = lastPicture
      /\ codec = "avc444" /\ chroma \in SUBSET Tile /\ auxPicture \in E!Picture
  BY <1>1 DEF EncInv, Upgrades, Kinds, Typed, E!TypeOK
<1>3. \A s \in E!Stage : ~E!At(s) /\ frames[s] = E!NoFrame
  BY <1>2, NoViewsNoFrames DEF EncInv, EmptyStages
<1>4. /\ g.is /\ g.is = TRUE /\ g.picture = auxPicture /\ g.type = "aux" /\ g.damage = chroma
      /\ g.valid = TRUE /\ g.base = E!NoPicture /\ g.need = {} /\ g.bitstreams = 0 /\ g.local = 0
  BY DEF E!NoFrame
<1>5. g \in EncodedFrame
  BY <1>2, <1>4 DEF EncodedFrame, E!NoFrame, PictureOrNone
<1> HIDE DEF g
<1>6. "viewed" \in E!Stage
  BY DEF E!Stage
<1>7. /\ frames' \in [E!Stage -> EncodedFrame]
      /\ frames'["viewed"] = g /\ E!At("viewed")'
      /\ \A s \in E!Stage \ {"viewed"} : frames'[s] = E!NoFrame /\ ~E!At(s)'
      /\ E!ViewsIn(E!Stage)' = E!ViewsIn(E!Stage) - E!ViewsHeld(frames["viewed"]) + E!ViewsHeld(g)
      /\ E!BitstreamsIn(E!Stage)' = E!BitstreamsIn(E!Stage) - frames["viewed"].bitstreams + g.bitstreams
  BY <1>1, <1>3, <1>4, <1>5, <1>6, PutFrame
<1>8. views' = E!ViewsIn(E!Stage)' /\ views' \in Nat
  <2>1. E!ViewsHeld(g) = 1 /\ E!ViewsHeld(frames["viewed"]) = 0
    BY <1>3, <1>4, <1>6 DEF E!ViewsHeld, E!At
  <2>2. views = E!ViewsIn(E!Stage)
    BY DEF EncInv, Pools
  <2> QED BY <1>1, <1>2, <1>7, <2>1, <2>2
<1>9. Typed'
  <2>1. (\A s \in E!Stage : frames[s].is => frames[s].picture \in E!Picture)'
    BY <1>2, <1>4, <1>7 DEF E!NoFrame
  <2>2. E!TypeOK'
    BY <1>1, <1>8, <2>1 DEF EncInv, Typed, E!TypeOK, E!Local
  <2>3. (frames \in [E!Stage -> EncodedFrame])'
    BY <1>1, <1>7 DEF EncodedFrame, E!Local
  <2> QED BY <1>1, <2>2, <2>3 DEF EncInv, Typed
<1>10. (EmptyStages /\ Kinds)'
  BY <1>1, <1>2, <1>4, <1>7 DEF EmptyStages, Kinds, E!Stage, E!NoFrame
<1>11. Flow'
  BY <1>1, <1>7 DEF Flow, E!Stage
<1>12. Submissions'
  <2>1. /\ ~E!At("encoding")' /\ ~E!At("encoded")' /\ ~E!At("rendered")'
        /\ ~E!At("encoding") /\ phase' = phase
    BY <1>1, <1>3, <1>7 DEF E!Stage
  <2> QED BY <1>1, <2>1 DEF EncInv, Submissions, Unlocked
<1>13. Pools'
  <2>1. frames["viewed"].bitstreams = 0
    BY DEF EncInv, Kinds
  <2>2. E!BitstreamsIn(E!Stage)' = E!BitstreamsIn(E!Stage)
    BY <1>4, <1>7, <2>1, BitstreamsCounted
  <2> QED BY <1>1, <1>8, <2>2 DEF EncInv, Pools
<1>14. Locals'
  <2>1. \A s \in E!Stage : frames'[s].local = frames[s].local
    BY <1>3, <1>4, <1>7 DEF E!NoFrame
  <2> QED BY <1>1, <1>2, <1>7, <2>1 DEF EncInv, Locals, Flow, E!Stage
<1>15. Upgrades'
  BY <1>1, <1>2, <1>7 DEF EncInv, Upgrades, E!Stage
<1>16. Follows'
  <2> SUFFICES ASSUME ~stopped', ~failed'
               PROVE  (Bases /\ UpgradesLead)'
    BY DEF Follows
  <2>1. \A s \in E!Stage \ {"viewed"} : \A c : E!Shown(c, frames[s]) = c /\ E!Shown(c, frames'[s]) = c
    BY <1>3, <1>7, ShownNothing
  <2>2. \A c : E!Shown(c, frames["viewed"]) = c
    BY <1>3, <1>6, ShownNothing
  <2>3. /\ E!OnceArrived = screen
        /\ E!OnceArrived' = E!Shown(screen, g)
    BY <1>1, <1>7, <2>1, <2>2 DEF E!OnceArrived, E!Stage
  <2>4. screen.owed = chroma /\ screen.shows = lastPicture
    BY <1>1, <1>3, <2>3 DEF EncInv, Follows, Bases, E!Stage
  <2>5. E!OnceArrived'.owed = {} /\ E!OnceArrived'.shows = lastPicture
    BY <1>4, <2>3, <2>4 DEF E!Shown
  <2>6. Bases'
    BY <1>1, <1>4, <1>7, <2>5 DEF Bases, E!Stage
  <2>7. UpgradesLead'
    BY <1>1, <1>2, <1>4, <1>7, <2>4 DEF UpgradesLead, IsAux, E!Stage
  <2> QED BY <2>6, <2>7
<1> QED BY <1>9, <1>10, <1>11, <1>12, <1>13, <1>14, <1>15, <1>16 DEF EncInv

\* A view that was not created leaves its frame invalid, and the device failed.
LEMMA ViewFailsKeeps ==
  ASSUME EncInv, E!ViewFails
  PROVE  EncInv'
<1> DEFINE q == frames["creating"]
           f == [q EXCEPT !.local = 0]
<1>1. /\ q.is /\ phase # "encode"
      /\ frames' = E!Moved(f, "creating", "viewed")
      /\ locals' = locals \ {q.local} /\ failed' = TRUE /\ render' = TRUE
      /\ UNCHANGED <<pictures, wanted, phase, E!contextVars, E!upgradeVars, E!encodeVars, views,
                     buffers, lastLocal, stopped, broken, screen>>
  BY DEF E!ViewFails
<1> USE DEF E!contextVars, E!upgradeVars, E!encodeVars
<1>2. /\ q \in EncodedFrame /\ {"creating", "viewed"} \subseteq E!Stage
      /\ q.picture \in E!Picture /\ q.type # "aux" /\ q.need = {} /\ q.bitstreams = 0
      /\ ~q.valid /\ E!At("creating")
  BY <1>1 DEF EncInv, Typed, E!TypeOK, Kinds, E!At, E!Stage
<1>3. /\ f \in EncodedFrame /\ f.is /\ f.local = 0
      /\ f.type = q.type /\ f.picture = q.picture /\ f.base = q.base /\ f.damage = q.damage
      /\ f.need = q.need /\ f.valid = q.valid /\ f.bitstreams = q.bitstreams
  BY <1>1, <1>2 DEF EncodedFrame
<1>4. ~E!At("viewed") /\ frames["viewed"] = E!NoFrame
  BY <1>2 DEF EncInv, EmptyStages, Flow, E!Stage
<1>5. E!ViewsHeld(f) = E!ViewsHeld(q)
  BY <1>3 DEF E!ViewsHeld
<1> HIDE DEF q, f
<1>6. /\ frames' \in [E!Stage -> EncodedFrame]
      /\ frames'["creating"] = E!NoFrame /\ ~E!At("creating")'
      /\ frames'["viewed"] = f /\ E!At("viewed")'
      /\ \A s \in E!Stage \ {"creating", "viewed"} : frames'[s] = frames[s] /\ E!At(s)' = E!At(s)
  BY <1>1, <1>2, <1>3, MovedFrames
<1>7. Typed'
  <2>1. (\A s \in E!Stage : frames[s].is => frames[s].picture \in E!Picture)'
    BY <1>2, <1>3, <1>6 DEF EncInv, Typed, E!TypeOK, E!Stage, E!NoFrame
  <2>2. locals' \subseteq E!Local
    BY <1>1 DEF EncInv, Typed, E!TypeOK
  <2>3. E!TypeOK'
    BY <1>1, <2>1, <2>2 DEF EncInv, Typed, E!TypeOK, E!Local
  <2>4. (frames \in [E!Stage -> EncodedFrame])'
    BY <1>1, <1>6 DEF EncodedFrame, E!Local
  <2> QED BY <1>1, <2>3, <2>4 DEF EncInv, Typed
<1>8. (EmptyStages /\ Kinds)'
  BY <1>1, <1>2, <1>3, <1>6 DEF EncInv, EmptyStages, Kinds, q, E!Stage, E!NoFrame
<1>9. Flow'
  BY <1>1, <1>2, <1>6 DEF EncInv, Flow, E!Stage
<1>10. Submissions'
  BY <1>1, <1>6 DEF EncInv, Submissions, Unlocked, InProgress, ToEncode, E!ViewsToEncode, E!Stage
<1>11. Pools'
  <2>1. views' = E!ViewsIn(E!Stage)'
    BY <1>1, <1>2, <1>3, <1>4, <1>5, MovedViews DEF q
  <2>2. E!BitstreamsIn(E!Stage)' = E!BitstreamsIn(E!Stage)
    <3>1. f.bitstreams = 0 /\ frames["creating"].bitstreams = 0
      BY <1>2, <1>3 DEF q
    <3> QED BY <1>1, <1>2, <1>3, <1>4, <3>1, MovedBitstreams
  <2> QED BY <1>1, <2>1, <2>2 DEF EncInv, Pools
<1>12. Locals'
  <2>1. /\ frames'["creating"].local = 0 /\ frames'["viewed"].local = 0
        /\ frames["viewed"].local = 0 /\ q.local = frames["creating"].local
        /\ \A s \in E!Stage \ {"creating", "viewed"} : frames'[s].local = frames[s].local
    BY <1>3, <1>4, <1>6 DEF E!NoFrame, q
  <2>2. /\ locals = {frames[s].local : s \in E!Stage} \ {0}
        /\ \A s, t \in E!Stage : s # t /\ frames[s].local = frames[t].local => frames[s].local = 0
    BY DEF EncInv, Locals
  <2>3. locals' = {frames'[s].local : s \in E!Stage} \ {0}
    <3>1. \A x : x \in locals' <=> x \in {frames'[s].local : s \in E!Stage} \ {0}
      BY <1>1, <1>2, <2>1, <2>2
    <3> QED BY <3>1
  <2>4. \A s, t \in E!Stage : s # t /\ frames'[s].local = frames'[t].local => frames'[s].local = 0
    BY <2>1, <2>2
  <2>5. ~frames'["viewed"].valid /\ ~E!At("creating")'
    BY <1>2, <1>3, <1>6
  <2> QED BY <1>1, <1>6, <2>3, <2>4, <2>5 DEF EncInv, Locals, E!Stage
<1>13. Upgrades'
  <2>1. auxPicture = E!NoPicture /\ ~(canUpgrade /\ ~stopped)
    BY <1>2 DEF EncInv, Upgrades
  <2> QED BY <1>1, <1>2, <1>3, <1>6, <2>1 DEF Upgrades, E!Stage
<1>14. Follows'
  BY <1>1 DEF Follows
<1> QED BY <1>7, <1>8, <1>9, <1>10, <1>11, <1>12, <1>13, <1>14 DEF EncInv

\* The client shows the picture once it has the difference from what it showed.
LEMMA DifferenceShown ==
  ASSUME NEW c, NEW f \in EncodedFrame, f.is, f.type # "aux", f.picture \in E!Picture,
         NEW b \in PictureOrNone, b \in {c.shows, E!NoPicture},
         E!Damage(f.picture, b) \subseteq f.damage
  PROVE  /\ E!Shown(c, f).shows = f.picture
         /\ f.damage = {} => c.shows \in E!Picture
<1>1. E!Shown(c, f).shows = [t \in Tile |-> IF t \in f.damage THEN f.picture[t] ELSE c.shows[t]]
  BY DEF E!Shown
<1>2. \A t \in Tile : t \notin f.damage => b # E!NoPicture /\ f.picture[t] = b[t]
  BY DEF E!Damage
<1>3. \A t \in Tile : t \notin f.damage => c.shows[t] = f.picture[t]
  BY <1>2
<1>4. f.picture = [t \in Tile |-> f.picture[t]]
  BY DEF E!Picture
<1>5. E!Shown(c, f).shows = f.picture
  BY <1>1, <1>3, <1>4
<1>6. ASSUME f.damage = {}
      PROVE  c.shows \in E!Picture
  <2>1. PICK t \in Tile : TRUE
    BY GraphicsAssumption
  <2>2. b # E!NoPicture
    BY <1>2, <1>6, <2>1
  <2> QED BY <2>2 DEF PictureOrNone
<1> QED BY <1>5, <1>6

\* A view was created: the frame is the difference from the picture before it.
LEMMA ViewCreatedKeeps ==
  ASSUME EncInv, E!ViewCreated
  PROVE  EncInv'
<1> DEFINE q == frames["creating"]
           damage == E!Damage(q.picture, q.base)
<1>1. /\ q.is /\ phase # "encode"
      /\ auxPicture' = IF E!At("queued") THEN auxPicture ELSE q.picture
      /\ lastLocal' = q.local /\ render' = TRUE
      /\ UNCHANGED <<pictures, wanted, phase, codec, lastPicture, hasLast, E!upgradeVars,
                     E!encodeVars, views, buffers, locals, E!endVars, screen>>
  BY DEF E!ViewCreated
<1> USE DEF E!upgradeVars, E!encodeVars, E!endVars
<1>2. /\ q \in EncodedFrame /\ {"creating", "viewed"} \subseteq E!Stage
      /\ q.picture \in E!Picture /\ q.type \in {"main", "dual"} /\ q.need = {} /\ q.bitstreams = 0
      /\ E!At("creating") /\ q.picture = lastPicture
      /\ (codec # "avc444" => q.type = "main" /\ chroma = {}) /\ chroma \in SUBSET Tile
      /\ q.base \in PictureOrNone
  BY <1>1 DEF EncInv, Typed, E!TypeOK, Kinds, Upgrades, E!At, E!Stage, EncodedFrame
<1>3. damage \in SUBSET Tile
  BY DEF E!Damage
<1>4. PICK need \in IF codec = "avc444" THEN SUBSET damage ELSE {{}},
           type \in {q.type, "main"} :
        LET to == E!WithChroma([q EXCEPT !.type = type], damage, need)
        IN  /\ frames' = E!Moved([to.frame EXCEPT !.valid = TRUE], "creating", "viewed")
            /\ chroma' = to.chroma
  BY DEF E!ViewCreated
<1> DEFINE r == [q EXCEPT !.type = type]
           to == E!WithChroma(r, damage, need)
           f == [to.frame EXCEPT !.valid = TRUE]
<1>5. need \subseteq damage /\ (codec # "avc444" => need = {})
  BY <1>4
<1>6. /\ r \in EncodedFrame /\ r.is /\ r.type = type /\ r.picture = q.picture /\ r.base = q.base
      /\ r.need = {} /\ r.bitstreams = 0 /\ r.local = q.local /\ r.type \in {"main", "dual"}
      /\ (codec # "avc444" => r.type = "main")
  BY <1>1, <1>2, <1>4 DEF EncodedFrame
<1>7. frames' = E!Moved(f, "creating", "viewed") /\ chroma' = to.chroma
  BY <1>4
<1> HIDE DEF r
<1>8. /\ f \in EncodedFrame /\ f.is /\ f.picture = q.picture /\ f.base = q.base /\ f.valid = TRUE
      /\ f.bitstreams = 0 /\ f.local = q.local /\ f.type \in {"main", "dual"}
      /\ f.need \subseteq f.damage /\ (f.type = "dual" => f.need = {})
      /\ damage \subseteq f.damage
      /\ (codec # "avc444" => f.type = "main" /\ f.need = {} /\ chroma' = {})
      /\ chroma' \in SUBSET Tile
      /\ chroma' = IF f.type = "main" THEN (chroma \ f.damage) \cup f.need ELSE {}
      /\ f.type = "dual" => chroma \subseteq f.damage
  <2> HIDE DEF damage
  <2>1. CASE r.type = "dual"
    <3>1. to.frame = [r EXCEPT !.type = IF chroma = {} /\ need = {} THEN "main" ELSE "dual",
                               !.damage = damage \cup chroma]
          /\ to.chroma = {}
      BY <2>1 DEF E!WithChroma
    <3> DEFINE k == IF chroma = {} /\ need = {} THEN "main" ELSE "dual"
    <3>2. k \in {"main", "dual"} /\ (k = "main" <=> chroma = {} /\ need = {})
      OBVIOUS
    <3> HIDE DEF k
    <3>3. /\ f = [r EXCEPT !.type = k, !.damage = damage \cup chroma, !.valid = TRUE]
          /\ chroma' = {}
      BY <1>7, <3>1 DEF k
    <3> HIDE DEF f, to
    <3>4. /\ f \in EncodedFrame /\ f.is = r.is /\ f.picture = r.picture /\ f.base = r.base
          /\ f.valid = TRUE /\ f.bitstreams = r.bitstreams /\ f.local = r.local
          /\ f.type = k /\ f.need = r.need /\ f.damage = damage \cup chroma
      BY <1>2, <1>3, <1>6, <3>2, <3>3 DEF EncodedFrame
    <3> QED BY <1>2, <1>5, <1>6, <2>1, <3>2, <3>3, <3>4
  <2>2. CASE r.type = "main"
    <3>1. to.frame = [r EXCEPT !.damage = damage, !.need = need]
          /\ to.chroma = (chroma \ damage) \cup need
      BY <2>2 DEF E!WithChroma
    <3>2. /\ f = [r EXCEPT !.damage = damage, !.need = need, !.valid = TRUE]
          /\ chroma' = (chroma \ damage) \cup need
      BY <1>7, <3>1
    <3> HIDE DEF f, to
    <3>3. need \in SUBSET Tile
      BY <1>3, <1>5
    <3>4. /\ f \in EncodedFrame /\ f.is = r.is /\ f.picture = r.picture /\ f.base = r.base
          /\ f.valid = TRUE /\ f.bitstreams = r.bitstreams /\ f.local = r.local
          /\ f.type = r.type /\ f.need = need /\ f.damage = damage
      BY <1>3, <1>6, <3>2, <3>3 DEF EncodedFrame
    <3> QED BY <1>2, <1>3, <1>5, <1>6, <2>2, <3>2, <3>3, <3>4
  <2> QED BY <1>6, <2>1, <2>2
<1>9. ~E!At("viewed") /\ frames["viewed"] = E!NoFrame
  BY <1>2 DEF EncInv, EmptyStages, Flow, E!Stage
<1>10. E!ViewsHeld(f) = E!ViewsHeld(q)
  BY <1>1, <1>2, <1>8 DEF E!ViewsHeld
<1> HIDE DEF f, to
<1>11. /\ frames' \in [E!Stage -> EncodedFrame]
       /\ frames'["creating"] = E!NoFrame /\ ~E!At("creating")'
       /\ frames'["viewed"] = f /\ E!At("viewed")'
       /\ \A s \in E!Stage \ {"creating", "viewed"} : frames'[s] = frames[s] /\ E!At(s)' = E!At(s)
  BY <1>2, <1>7, <1>8, MovedFrames
<1> HIDE DEF q
<1>12. Typed'
  <2>1. (\A s \in E!Stage : frames[s].is => frames[s].picture \in E!Picture)'
    BY <1>2, <1>8, <1>11 DEF EncInv, Typed, E!TypeOK, E!Stage, E!NoFrame
  <2>2. auxPicture' \in E!Picture \cup {E!NoPicture} /\ lastLocal' \in E!Local \cup {0}
    BY <1>1, <1>2 DEF EncInv, Typed, E!TypeOK, EncodedFrame
  <2>3. E!TypeOK'
    BY <1>1, <1>8, <2>1, <2>2 DEF EncInv, Typed, E!TypeOK, E!Local
  <2>4. (frames \in [E!Stage -> EncodedFrame])'
    BY <1>1, <1>11 DEF EncodedFrame, E!Local
  <2> QED BY <1>1, <2>3, <2>4 DEF EncInv, Typed
<1>13. (EmptyStages /\ Kinds)'
  BY <1>1, <1>8, <1>11 DEF EncInv, EmptyStages, Kinds, E!Stage, E!NoFrame
<1>14. Flow'
  BY <1>1, <1>2, <1>11 DEF EncInv, Flow, E!Stage
<1>15. Submissions'
  BY <1>1, <1>11 DEF EncInv, Submissions, Unlocked, InProgress, ToEncode, E!ViewsToEncode, E!Stage
<1>16. Pools'
  <2>1. views' = E!ViewsIn(E!Stage)'
    BY <1>1, <1>2, <1>7, <1>8, <1>9, <1>10, MovedViews DEF q
  <2>2. E!BitstreamsIn(E!Stage)' = E!BitstreamsIn(E!Stage)
    <3>1. f.bitstreams = 0 /\ frames["creating"].bitstreams = 0
      BY <1>2, <1>8 DEF q
    <3> QED BY <1>2, <1>7, <1>8, <1>9, <3>1, MovedBitstreams
  <2> QED BY <1>1, <2>1, <2>2 DEF EncInv, Pools
<1>17. Locals'
  <2>1. /\ locals' = {frames'[s].local : s \in E!Stage} \ {0}
        /\ \A s, t \in E!Stage : s # t /\ frames'[s].local = frames'[t].local => frames'[s].local = 0
    BY <1>1, <1>2, <1>7, <1>8, <1>9, MovedLocals DEF q
  <2>2. ~(E!At("rendered") /\ phase \in {"encode", "views"} /\ (E!At("encoding") \/ E!At("encoded")))
    BY <1>2 DEF EncInv, Flow
  <2> QED BY <1>1, <1>8, <1>11, <2>1, <2>2 DEF Locals, E!Stage
<1>18. Upgrades'
  <2>1. auxPicture = E!NoPicture /\ ~(canUpgrade /\ ~stopped)
    BY <1>2 DEF EncInv, Upgrades
  <2>2. q.picture # E!NoPicture
    BY <1>2, NoPictureIsNone
  <2> QED BY <1>1, <1>2, <1>11, <2>1, <2>2 DEF Upgrades, E!Stage
<1>19. Follows'
  <2> SUFFICES ASSUME ~stopped', ~failed'
               PROVE  (Bases /\ UpgradesLead)'
    BY DEF Follows
  <2> DEFINE c == OnceEncodedArrived
  <2>1. Bases /\ UpgradesLead
    BY <1>1 DEF EncInv, Follows
  <2>2. /\ E!OnceArrived = c /\ OnceEncodedArrived' = c
        /\ E!OnceArrived' = E!Shown(c, f)
    BY <1>1, <1>9, <1>11, ShownNothing DEF OnceEncodedArrived, E!OnceArrived, E!Stage
  <2> HIDE DEF c
  <2>3. c.owed = chroma /\ q.base \in {c.shows, E!NoPicture}
    BY <1>2, <2>1, <2>2 DEF Bases, q
  <2>4. E!Shown(c, f).shows = lastPicture /\ (f.damage = {} => c.shows \in E!Picture)
    <3>1. E!Damage(f.picture, q.base) \subseteq f.damage
      BY <1>8
    <3> QED BY <1>2, <1>8, <2>3, <3>1, DifferenceShown
  <2>5. E!Shown(c, f).owed = chroma'
    <3>1. E!Shown(c, f).owed = IF f.type = "main" THEN (c.owed \ f.damage) \cup f.need ELSE c.owed \ f.damage
      BY <1>8 DEF E!Shown
    <3> QED BY <1>8, <2>3, <3>1
  <2>6. Bases'
    BY <1>1, <1>8, <1>11, <2>1, <2>2, <2>4, <2>5 DEF Bases, E!Stage
  <2>7. UpgradesLead'
    BY <1>1, <1>8, <1>11, <2>1 DEF UpgradesLead, IsAux, E!Stage
  <2> QED BY <2>6, <2>7
<1> QED BY <1>12, <1>13, <1>14, <1>15, <1>16, <1>17, <1>18, <1>19 DEF EncInv

\* The first of the pending views is fetched, or its buffer is released.
LEMMA LockBitstreamKeeps ==
  ASSUME EncInv, E!LockBitstream
  PROVE  EncInv'
<1> DEFINE e == Head(lockTasks)
<1>1. /\ lockTasks # <<>> /\ bitstream = "none" /\ encodes' = encodes \ {e}
      /\ \/ /\ bitstream' = "ok"
            /\ buffers' = IF codec = "progressive" THEN buffers + 1 ELSE buffers
         \/ /\ codec # "progressive"
            /\ bitstream' = "failed"
            /\ buffers' = buffers - 1
      /\ UNCHANGED <<pictures, wanted, frames, render, phase, E!contextVars, E!upgradeVars, todo,
                     lockTasks, views, locals, lastLocal, E!endVars, screen>>
  BY DEF E!LockBitstream
<1> USE DEF E!contextVars, E!upgradeVars, E!endVars
<1>2. \A s : E!At(s)' = E!At(s)
  BY <1>1 DEF E!At
<1>3. /\ encodes = Listed(lockTasks) /\ e \in encodes /\ encodes' = Listed(Tail(lockTasks))
      /\ Unlocked' = Tail(lockTasks)
  <2>1. lockTasks \in ViewLists /\ Unlocked = lockTasks
    BY <1>1 DEF EncInv, Typed, Unlocked
  <2>2. encodes = Listed(lockTasks)
    BY <2>1 DEF EncInv, Submissions
  <2>3. /\ Listed(Tail(lockTasks)) = Listed(lockTasks) \ {Head(lockTasks)}
        /\ Head(lockTasks) \in Listed(lockTasks)
    BY <1>1, <2>1, ListFacts
  <2>4. Unlocked' = Tail(lockTasks)
    BY <1>1 DEF Unlocked
  <2> QED BY <1>1, <2>2, <2>3, <2>4
<1> HIDE DEF e
<1>4. /\ Cardinality(encodes') = Cardinality(encodes) - 1
      /\ Cardinality(encodes) \in Nat /\ Cardinality(encodes') \in Nat
  <2>1. IsFiniteSet(encodes) /\ Cardinality(encodes) \in Nat
    BY EncodesFinite
  <2>2. IsFiniteSet(encodes \ {e}) /\ Cardinality(encodes \ {e}) = Cardinality(encodes) - 1
    BY <1>3, <2>1, FS_RemoveElement
  <2>3. Cardinality(encodes \ {e}) \in Nat
    BY <2>2, FS_CardinalityType
  <2> QED BY <1>1, <2>1, <2>2, <2>3
<1>5. Pools' /\ buffers' \in Nat
  <2>1. E!ViewsIn(E!Stage)' = E!ViewsIn(E!Stage)
    BY <1>1 DEF E!ViewsIn, E!ViewsHeld, E!PerFrame
  <2>2. E!BitstreamsIn(E!Stage)' = E!BitstreamsIn(E!Stage)
    BY <1>1 DEF E!BitstreamsIn
  <2>4. E!BitstreamsIn(E!Stage) \in Nat
    BY BitstreamsCounted
  <2>5. /\ buffers = E!BitstreamsIn(E!Stage) + (IF bitstream = "ok" THEN 1 ELSE 0)
                     + (IF codec = "progressive" THEN 0 ELSE Cardinality(encodes))
        /\ views = E!ViewsIn(E!Stage)
    BY DEF EncInv, Pools
  <2>6. views' = views /\ codec' = codec
    BY <1>1
  <2>7. /\ buffers' = E!BitstreamsIn(E!Stage)' + (IF bitstream' = "ok" THEN 1 ELSE 0)
                     + (IF codec' = "progressive" THEN 0 ELSE Cardinality(encodes'))
        /\ buffers' \in Nat
    <3>1. CASE codec = "progressive"
      BY ONLY <1>1, <1>4, <2>2, <2>4, <2>5, <2>6, <3>1
    <3>2. CASE codec # "progressive"
      BY ONLY <1>1, <1>4, <2>2, <2>4, <2>5, <2>6, <3>2
    <3> QED BY <3>1, <3>2
  <2> QED BY <2>1, <2>5, <2>6, <2>7 DEF Pools
<1>6. Typed'
  <2>1. encodes' \subseteq {"main", "aux"} /\ bitstream' \in {"ok", "failed"}
    BY <1>1 DEF EncInv, Typed, E!TypeOK
  <2>2. E!TypeOK'
    BY <1>1, <1>5, <2>1 DEF EncInv, Typed, E!TypeOK, E!Local
  <2> QED BY <1>1, <2>2 DEF EncInv, Typed, EncodedFrame, PictureOrNone, E!Local
<1>7. (EmptyStages /\ Kinds)'
  BY <1>1, <1>2 DEF EncInv, EmptyStages, Kinds
<1>8. Flow'
  BY <1>1, <1>2 DEF EncInv, Flow
<1>9. Submissions'
  <2>1. /\ InProgress' = InProgress /\ \A s \in E!Stage : ToEncode(s)' = ToEncode(s)
        /\ E!ViewsToEncode(frames["encoding"])' = E!ViewsToEncode(frames["encoding"])
    BY <1>1 DEF InProgress, ToEncode, E!ViewsToEncode
  <2>2. encodes' = Listed(Unlocked)'
    BY <1>1, <1>3 DEF Listed
  <2> QED BY <1>1, <1>2, <2>1, <2>2 DEF EncInv, Submissions, E!Stage
<1>10. Locals'
  BY <1>1, <1>2 DEF EncInv, Locals, Flow
<1>11. Upgrades'
  BY <1>1, <1>2 DEF EncInv, Upgrades
<1>12. Follows'
  <2>1. /\ E!OnceArrived' = E!OnceArrived
        /\ OnceEncodedArrived' = OnceEncodedArrived
    BY <1>1 DEF OnceEncodedArrived, E!OnceArrived
  <2> QED BY <1>1, <1>2, <2>1 DEF EncInv, Follows, Bases, UpgradesLead, IsAux
<1> QED BY <1>5, <1>6, <1>7, <1>8, <1>9, <1>10, <1>11, <1>12 DEF EncInv

\* The three cases of fetch_rendered_frames.
LEMMA FetchRenderedFramesKeeps ==
  ASSUME EncInv, E!FetchRenderedFrames
  PROVE  EncInv'
BY FetchNothingKeeps, FetchRenderedKeeps, FetchIncompleteKeeps

\* At whichever view the hardware fails.
LEMMA EncodeFailsAnyhowKeeps ==
  ASSUME EncInv, E!EncodeFails
  PROVE  EncInv'
BY EncodeFailsKeeps, EncodeFailsAtOnceKeeps

\* The frame has a bitstream more, and is done when no view of it is pending.
LEMMA BitstreamLockedKeeps ==
  ASSUME EncInv, E!BitstreamLocked
  PROVE  EncInv'
<1> DEFINE q == frames["encoding"]
           f == IF bitstream = "ok" THEN [q EXCEPT !.bitstreams = q.bitstreams + 1] ELSE q
<1>1. /\ bitstream # "none" /\ phase # "encode" /\ bitstream' = "none"
      /\ lockTasks' = Tail(lockTasks)
      /\ failed' = (failed \/ bitstream = "failed") /\ render' = TRUE
      /\ UNCHANGED <<pictures, wanted, phase, E!contextVars, E!upgradeVars, todo, encodes,
                     E!poolVars, stopped, broken, screen>>
  BY DEF E!BitstreamLocked
<1> USE DEF E!contextVars, E!upgradeVars, E!poolVars
<1>2. frames' = IF encodes = {} THEN E!Moved(f, "encoding", "encoded")
                ELSE [frames EXCEPT !["encoding"] = f]
  BY DEF E!BitstreamLocked
<1>3. /\ bitstream \in {"ok", "failed"} /\ lockTasks # <<>> /\ lockTasks \in ViewLists
      /\ todo = <<>> /\ E!At("encoding") /\ q.is /\ q \in EncodedFrame
      /\ q.picture \in E!Picture /\ {"encoding", "encoded"} \subseteq E!Stage
      /\ q.bitstreams \in Nat
  BY <1>1 DEF EncInv, Typed, E!TypeOK, Submissions, E!At, E!Stage, EncodedFrame
<1>4. ~E!At("encoded") /\ frames["encoded"] = E!NoFrame
  BY <1>3 DEF EncInv, Flow, EmptyStages, E!Stage
<1>5. /\ f \in EncodedFrame /\ f.is = q.is /\ f.type = q.type /\ f.picture = q.picture
      /\ f.base = q.base /\ f.damage = q.damage /\ f.need = q.need /\ f.valid = q.valid
      /\ f.local = q.local
      /\ f.bitstreams = q.bitstreams + (IF bitstream = "ok" THEN 1 ELSE 0)
  <2>1. CASE bitstream = "ok"
    <3>1. f = [q EXCEPT !.bitstreams = q.bitstreams + 1]
      BY <2>1
    <3> HIDE DEF f, q
    <3>2. /\ q.bitstreams + 1 \in Nat
          /\ q \in EncodedFrame
      BY <1>3
    <3>3. /\ f \in EncodedFrame /\ f.is = q.is /\ f.type = q.type /\ f.picture = q.picture
          /\ f.base = q.base /\ f.damage = q.damage /\ f.need = q.need /\ f.valid = q.valid
          /\ f.local = q.local /\ f.bitstreams = q.bitstreams + 1
      BY <3>1, <3>2 DEF EncodedFrame
    <3> QED BY <2>1, <3>3
  <2>2. CASE bitstream = "failed"
    <3>1. f = q
      BY <2>2
    <3> HIDE DEF f, q
    <3>2. f.bitstreams = q.bitstreams + (IF bitstream = "ok" THEN 1 ELSE 0)
      <4>1. q.bitstreams \in Nat /\ bitstream # "ok"
        BY <1>3, <2>2
      <4> QED BY ONLY <3>1, <4>1
    <3>3. f \in EncodedFrame
      BY <1>3, <3>1
    <3> QED BY ONLY <3>1, <3>2, <3>3
  <2> QED BY <1>3, <2>1, <2>2
<1> HIDE DEF f
<1>6. /\ lockTasks' \in ViewLists /\ Len(lockTasks') = Len(lockTasks) - 1 /\ Len(lockTasks) \in 1 .. 2
      /\ encodes = Listed(lockTasks') /\ Unlocked' = lockTasks'
      /\ encodes = {} <=> lockTasks' = <<>>
  <2>1. /\ Tail(lockTasks) \in ViewLists /\ Len(Tail(lockTasks)) = Len(lockTasks) - 1
        /\ Len(lockTasks) \in 1 .. 2
    BY <1>3, ListFacts
  <2>2. Unlocked = Tail(lockTasks) /\ Unlocked' = lockTasks'
    BY <1>1 DEF Unlocked
  <2>3. encodes = Listed(lockTasks')
    BY <1>1, <2>2 DEF EncInv, Submissions
  <2>4. Listed(lockTasks') = {} <=> lockTasks' = <<>>
    BY <1>1, <2>1, ListFacts
  <2> QED BY <1>1, <2>1, <2>2, <2>3, <2>4
<1>7. /\ E!ViewsHeld(f) = E!ViewsHeld(q)
      /\ E!ViewsToEncode(f) = E!ViewsToEncode(q)
      /\ \A c : E!Shown(c, f) = E!Shown(c, q)
  BY <1>3, <1>5 DEF E!ViewsHeld, E!ViewsToEncode, E!Shown
<1>9. /\ frames' \in [E!Stage -> EncodedFrame]
      /\ encodes = {} => /\ frames'["encoded"] = f /\ E!At("encoded")'
                         /\ frames'["encoding"] = E!NoFrame /\ ~E!At("encoding")'
      /\ encodes # {} => /\ frames'["encoding"] = f /\ E!At("encoding")'
                         /\ frames'["encoded"] = E!NoFrame /\ ~E!At("encoded")'
      /\ \A s \in E!Stage \ {"encoding", "encoded"} : frames'[s] = frames[s] /\ E!At(s)' = E!At(s)
      /\ views = E!ViewsIn(E!Stage)'
      /\ E!BitstreamsIn(E!Stage)' = E!BitstreamsIn(E!Stage) - q.bitstreams + f.bitstreams
      /\ locals' = {frames'[s].local : s \in E!Stage} \ {0}
      /\ \A s, t \in E!Stage : s # t /\ frames'[s].local = frames'[t].local => frames'[s].local = 0
  <2>1. CASE encodes = {}
    <3>1. /\ frames' = E!Moved(f, "encoding", "encoded") /\ f.is
      BY <1>2, <1>3, <1>5, <2>1
    <3>2. /\ frames' \in [E!Stage -> EncodedFrame]
          /\ frames'["encoding"] = E!NoFrame /\ ~E!At("encoding")'
          /\ frames'["encoded"] = f /\ E!At("encoded")'
          /\ \A s \in E!Stage \ {"encoding", "encoded"} : frames'[s] = frames[s] /\ E!At(s)' = E!At(s)
      BY <1>3, <1>5, <3>1, MovedFrames
    <3>3. views' = E!ViewsIn(E!Stage)'
      BY <1>1, <1>3, <1>4, <1>5, <1>7, <3>1, MovedViews
    <3>4. E!BitstreamsIn(E!Stage)' = E!BitstreamsIn(E!Stage) - q.bitstreams + f.bitstreams
      BY <1>3, <1>4, <1>5, <3>1, MovedBitstreams
    <3>5. /\ locals' = {frames'[s].local : s \in E!Stage} \ {0}
          /\ \A s, t \in E!Stage : s # t /\ frames'[s].local = frames'[t].local => frames'[s].local = 0
      BY <1>1, <1>3, <1>4, <1>5, <3>1, MovedLocals
    <3> QED BY <1>1, <2>1, <3>2, <3>3, <3>4, <3>5
  <2>2. CASE encodes # {}
    <3>1. /\ frames' = [frames EXCEPT !["encoding"] = f] /\ f.is
      BY <1>2, <1>3, <1>5, <2>2
    <3>2. /\ frames' \in [E!Stage -> EncodedFrame]
          /\ frames'["encoding"] = f /\ E!At("encoding")'
          /\ \A s \in E!Stage \ {"encoding"} : frames'[s] = frames[s] /\ E!At(s)' = E!At(s)
          /\ E!ViewsIn(E!Stage)' = E!ViewsIn(E!Stage) - E!ViewsHeld(q) + E!ViewsHeld(f)
          /\ E!ViewsHeld(q) <= E!ViewsIn(E!Stage)
          /\ E!BitstreamsIn(E!Stage)' = E!BitstreamsIn(E!Stage) - q.bitstreams + f.bitstreams
      BY <1>1, <1>3, <1>5, <3>1, PutFrame
    <3>3. E!ViewsIn(E!Stage)' = views
      <4>1. E!ViewsHeld(q) \in Nat /\ views \in Nat /\ views = E!ViewsIn(E!Stage)
        BY <1>3, HeldRange, CodecKnown DEF EncInv, Pools, Typed, E!TypeOK
      <4> QED BY <1>7, <3>2, <4>1
    <3>4. \A s \in E!Stage : frames'[s].local = frames[s].local
      BY <1>5, <3>2
    <3>5. /\ locals' = {frames'[s].local : s \in E!Stage} \ {0}
          /\ \A s, t \in E!Stage : s # t /\ frames'[s].local = frames'[t].local => frames'[s].local = 0
      BY <1>1, <3>4 DEF EncInv, Locals
    <3>6. frames'["encoded"] = E!NoFrame /\ ~E!At("encoded")'
      BY <1>3, <1>4, <3>2
    <3> QED BY <2>2, <3>2, <3>3, <3>5, <3>6
  <2> QED BY <2>1, <2>2
<1> HIDE DEF q
<1>8. \A s \in E!Stage :
        \/ s \in {"encoding", "encoded"} /\ frames'[s] = f /\ E!At(s)'
        \/ s \in {"encoding", "encoded"} /\ frames'[s] = E!NoFrame /\ ~E!At(s)'
        \/ s \notin {"encoding", "encoded"} /\ frames'[s] = frames[s] /\ E!At(s)' = E!At(s)
  <2>1. CASE encodes = {}
    BY <1>9, <2>1
  <2>2. CASE encodes # {}
    BY <1>9, <2>2
  <2> QED BY <2>1, <2>2
<1>10. failed' \in BOOLEAN /\ (failed => failed') /\ (~failed' => ~failed /\ bitstream = "ok")
  BY <1>1, <1>3 DEF EncInv, Typed, E!TypeOK
<1>11. Typed'
  <2>1. (\A s \in E!Stage : frames[s].is => frames[s].picture \in E!Picture)'
    BY <1>3, <1>5, <1>8, <1>9 DEF EncInv, Typed, E!TypeOK, E!Stage, E!NoFrame
  <2>2. E!TypeOK'
    BY <1>1, <1>10, <2>1 DEF EncInv, Typed, E!TypeOK, E!Local
  <2>3. (frames \in [E!Stage -> EncodedFrame])'
    BY <1>1, <1>9 DEF EncodedFrame, E!Local
  <2> QED BY <1>1, <1>6, <2>2, <2>3 DEF EncInv, Typed
<1>12. (EmptyStages /\ Kinds)'
  <2>2. /\ f.need \subseteq f.damage /\ (f.type = "dual" => f.need = {})
        /\ (codec # "avc444" => f.type = "main" /\ f.need = {})
    BY <1>3, <1>5 DEF EncInv, Kinds, q
  <2>3. EmptyStages'
    BY <1>8 DEF EncInv, EmptyStages
  <2> QED BY <1>1, <1>8, <1>9, <1>10, <2>2, <2>3 DEF EncInv, Kinds, E!Stage, E!NoFrame
<1>13. Flow'
  BY <1>1, <1>3, <1>8, <1>9 DEF EncInv, Flow, E!Stage
<1>14. Submissions'
  <2>1. InProgress <= ToEncode("encoding") /\ (~failed => InProgress = ToEncode("encoding"))
        /\ InProgress = q.bitstreams + Len(lockTasks)
    <3>1. Len(todo) = 0
      BY <1>3
    <3> QED BY <1>3, <1>6, <3>1 DEF EncInv, Submissions, InProgress, q
  <2>2. ToEncode("encoding") = Len(E!ViewsToEncode(f)) /\ Len(E!ViewsToEncode(f)) \in Nat
    BY <1>5, <1>7, ViewsToEncodeOf DEF ToEncode, q
  <2>3. CASE encodes = {}
    <3>1. f.bitstreams <= ToEncode("encoded")' /\ (~failed' => f.bitstreams = ToEncode("encoded")')
      <4>1. Len(lockTasks) = 1
        <5>1. Len(lockTasks') = 0
          BY <1>6, <2>3
        <5> QED BY <1>6, <5>1
      <4>2. ToEncode("encoded")' = Len(E!ViewsToEncode(f))
        BY <1>9, <2>3 DEF ToEncode, E!ViewsToEncode
      <4> QED BY <1>3, <1>5, <1>10, <2>1, <2>2, <4>1, <4>2
    <3>2. /\ frames'["rendered"] = frames["rendered"] /\ E!At("rendered")' = E!At("rendered")
          /\ ToEncode("rendered")' = ToEncode("rendered")
      BY <1>9 DEF E!Stage, ToEncode, E!ViewsToEncode
    <3>3. ~E!At("encoding")' /\ E!At("encoded")' /\ frames'["encoded"] = f
      BY <1>9, <2>3
    <3>4. /\ todo' = <<>> /\ phase' # "encode" /\ bitstream' = "none" /\ lockTasks' = <<>>
          /\ encodes' = Listed(Unlocked)'
      BY <1>1, <1>3, <1>6, <2>3 DEF Listed
    <3>5. /\ \A s \in {"encoded", "rendered"} : E!At(s)' => frames'[s].bitstreams <= ToEncode(s)'
          /\ E!At("rendered")' /\ (~failed' \/ (~stopped' /\ phase' # "fetched")) =>
               frames'["rendered"].bitstreams = ToEncode("rendered")'
          /\ broken' => stopped' \/ (failed' /\ phase' = "fetched")
          /\ stopped' => failed'
      BY <1>1, <1>10, <3>1, <3>2, <3>3 DEF EncInv, Submissions
    <3> QED BY <3>1, <3>3, <3>4, <3>5 DEF Submissions
  <2>4. CASE encodes # {}
    <3>1. /\ frames'["encoding"] = f /\ E!At("encoding")' /\ ~E!At("encoded")'
      BY <1>9, <2>4
    <3>2. /\ InProgress' <= ToEncode("encoding")'
          /\ ~failed' => InProgress' = ToEncode("encoding")'
      <4>1. ToEncode("encoding")' = Len(E!ViewsToEncode(f))
        BY <3>1 DEF ToEncode, E!ViewsToEncode
      <4>2. Len(todo') = 0
        BY <1>1, <1>3
      <4>3. InProgress' = f.bitstreams + Len(lockTasks')
        <5>1. f.bitstreams \in Nat /\ Len(lockTasks') \in Nat
          BY <1>3, <1>5, <1>6
        <5> QED BY <3>1, <4>2, <5>1 DEF InProgress
      <4> QED BY <1>3, <1>5, <1>6, <1>10, <2>1, <2>2, <4>1, <4>3
    <3>3. /\ frames'["rendered"] = frames["rendered"] /\ E!At("rendered")' = E!At("rendered")
          /\ ToEncode("rendered")' = ToEncode("rendered")
      BY <1>9 DEF E!Stage, ToEncode, E!ViewsToEncode
    <3>4. /\ todo' = <<>> /\ phase' # "encode" /\ bitstream' = "none"
          /\ encodes' = Listed(Unlocked)'
      BY <1>1, <1>3, <1>6 DEF Listed
    <3>5. /\ \A s \in {"encoded", "rendered"} : E!At(s)' => frames'[s].bitstreams <= ToEncode(s)'
          /\ E!At("rendered")' /\ (~failed' \/ (~stopped' /\ phase' # "fetched")) =>
               frames'["rendered"].bitstreams = ToEncode("rendered")'
          /\ broken' => stopped' \/ (failed' /\ phase' = "fetched")
          /\ stopped' => failed'
      BY <1>1, <1>10, <3>1, <3>3 DEF EncInv, Submissions
    <3> QED BY <3>1, <3>2, <3>4, <3>5 DEF Submissions
  <2> QED BY <2>3, <2>4
<1>15. Pools'
  <2>1. /\ buffers = E!BitstreamsIn(E!Stage) + (IF bitstream = "ok" THEN 1 ELSE 0)
                     + (IF codec = "progressive" THEN 0 ELSE Cardinality(encodes))
    BY DEF EncInv, Pools
  <2>2. E!BitstreamsIn(E!Stage) \in Nat /\ Cardinality(encodes) \in Nat
    BY BitstreamsCounted, EncodesFinite
  <2>3. /\ views' = views /\ buffers' = buffers /\ codec' = codec /\ bitstream' = "none"
        /\ encodes' = encodes
    BY <1>1
  <2>4. buffers' = E!BitstreamsIn(E!Stage)' + (IF bitstream' = "ok" THEN 1 ELSE 0)
                   + (IF codec' = "progressive" THEN 0 ELSE Cardinality(encodes'))
    <3>1. /\ E!BitstreamsIn(E!Stage)' = E!BitstreamsIn(E!Stage) - q.bitstreams + f.bitstreams
          /\ f.bitstreams = q.bitstreams + (IF bitstream = "ok" THEN 1 ELSE 0)
          /\ q.bitstreams \in Nat
      BY <1>3, <1>5, <1>9
    <3>2. CASE codec = "progressive"
      BY ONLY <2>1, <2>2, <2>3, <3>1, <3>2
    <3>3. CASE codec # "progressive"
      BY ONLY <2>1, <2>2, <2>3, <3>1, <3>3
    <3> QED BY <3>2, <3>3
  <2> QED BY <1>9, <2>3, <2>4 DEF Pools
<1>16. Locals'
  <2>1. \A s \in {"encoding", "encoded"} : E!At(s)' => frames'[s].local = q.local
    BY <1>5, <1>8, <1>9
  <2>2. \A s \in {"creating", "viewed", "rendered"} : frames'[s] = frames[s] /\ E!At(s)' = E!At(s)
    BY <1>9 DEF E!Stage
  <2> QED BY <1>1, <1>3, <1>9, <2>1, <2>2 DEF EncInv, Locals, q
<1>17. Upgrades'
  BY <1>1, <1>9 DEF EncInv, Upgrades, E!Stage
<1>18. Follows'
  <2> SUFFICES ASSUME ~stopped', ~failed'
               PROVE  (Bases /\ UpgradesLead)'
    BY DEF Follows
  <2>1. Bases /\ UpgradesLead
    BY <1>1, <1>10 DEF EncInv, Follows
  <2>2. E!OnceArrived' = E!OnceArrived /\ OnceEncodedArrived' = OnceEncodedArrived
    <3>1. \A c : E!Shown(E!Shown(c, frames["encoded"]), frames["encoding"])
                 = E!Shown(E!Shown(c, frames'["encoded"]), frames'["encoding"])
      BY <1>4, <1>7, <1>9, ShownNothing DEF q
    <3>2. frames'["rendered"] = frames["rendered"] /\ frames'["viewed"] = frames["viewed"]
          /\ screen' = screen
      BY <1>1, <1>9 DEF E!Stage
    <3> QED BY <3>1, <3>2 DEF E!OnceArrived, OnceEncodedArrived
  <2>3. Bases'
    BY <1>1, <1>9, <2>1, <2>2 DEF Bases, E!Stage
  <2>4. \A s \in {"encoding", "encoded"} :
          IsAux(s)' => IsAux("encoding") /\ frames'[s].damage = q.damage /\ frames'[s].picture = q.picture
    BY <1>3, <1>5, <1>8, <1>9 DEF IsAux, q
  <2>5. \A s \in E!Stage \ {"encoding", "encoded"} : IsAux(s)' => IsAux(s) /\ frames'[s] = frames[s]
    BY <1>9 DEF IsAux
  <2>6. IsAux("viewed")' => FALSE
    BY <1>3, <2>1, <2>5 DEF UpgradesLead, E!Stage
  <2>7. ~E!At("rendered") => ~E!At("rendered")'
    BY <1>9 DEF E!Stage
  <2> QED BY <1>1, <1>3, <2>1, <2>3, <2>4, <2>5, <2>6, <2>7 DEF UpgradesLead, q
<1> QED BY <1>11, <1>12, <1>13, <1>14, <1>15, <1>16, <1>17, <1>18 DEF EncInv

\* Every step of every thread.
LEMMA EncodingStep ==
  ASSUME EncInv, E!Next
  PROVE  EncInv'
<1>1. CASE E!GraphicsThread
  BY <1>1, RenderFrameKeeps, UpgradeNothingKeeps, UpgradeFrameKeeps, FetchRenderedFramesKeeps,
     StartEncodingKeeps, EncodeViewKeeps, EncodeFailsAnyhowKeeps, StartViewKeeps, FinishKeeps
     DEF E!GraphicsThread
<1>2. CASE E!OtherThreads
  BY <1>2, ViewCreatedKeeps, ViewFailsKeeps, LockBitstreamKeeps, BitstreamLockedKeeps
     DEF E!OtherThreads
<1>3. CASE \E p \in E!Picture : E!SubmitBuffer(p)
  BY <1>3, SubmitBufferKeeps
<1>4. CASE E!RemoveBuffer
  BY <1>4, RemoveBufferKeeps
<1> QED BY <1>1, <1>2, <1>3, <1>4 DEF E!Next

\* Steps of somebody else.
LEMMA EncodingStutters ==
  ASSUME EncInv, UNCHANGED encodingVars
  PROVE  EncInv'
<1>1. UNCHANGED coreVars /\ UNCHANGED <<pictures, wanted, hasLast, due, render>>
  BY DEF encodingVars, coreVars
<1>2. E!TypeOK'
  BY <1>1 DEF EncInv, Typed, E!TypeOK, coreVars, E!Local
<1> QED BY <1>1, <1>2, CoreUnchanged

--------------------------------------------------------------------------------
(* What the invariant says of the pools and of the client. *)

\* When nothing is in render_surfaces, three frames have views at most.
LEMMA ViewsLeft ==
  ASSUME EncInv, phase = "idle"
  PROVE  views + E!PerFrame <= E!NViews
<1> DEFINE n == [s \in E!Stage |-> IF s \in E!Stage THEN E!ViewsHeld(frames[s]) ELSE 0]
<1>1. \A s \in E!Stage : n[s] \in 0 .. E!PerFrame /\ (~E!At(s) => n[s] = 0)
  BY HeldRange
<1>2. E!PerFrame \in Nat
  BY CodecKnown
<1>3. /\ ~E!At("rendered") /\ ~(E!At("creating") /\ E!At("viewed"))
      /\ ~(E!At("encoding") /\ E!At("encoded"))
  BY DEF EncInv, Flow
<1>4. views = E!Total(n)
  BY DEF EncInv, Pools, E!ViewsIn
<1> HIDE DEF n
<1>5. /\ n["rendered"] = 0 /\ (n["creating"] = 0 \/ n["viewed"] = 0)
      /\ (n["encoding"] = 0 \/ n["encoded"] = 0)
      /\ n["queued"] \in 0 .. E!PerFrame /\ n["creating"] \in 0 .. E!PerFrame
      /\ n["viewed"] \in 0 .. E!PerFrame /\ n["encoding"] \in 0 .. E!PerFrame
      /\ n["encoded"] \in 0 .. E!PerFrame
  BY <1>1, <1>3 DEF E!Stage
<1>6. E!Total(n) <= 3 * E!PerFrame /\ E!Total(n) \in Nat
  BY ONLY <1>2, <1>5 DEF E!Total
<1>7. E!NViews = 4 * E!PerFrame
  BY DEF E!NViews
<1> QED BY ONLY <1>2, <1>4, <1>6, <1>7

\* Of lists with no view or one.
LEMMA NoneOrOne ==
  ASSUME NEW l \in ViewLists, Len(l) <= 1
  PROVE  Cardinality(Listed(l)) = Len(l)
<1>1. CASE l = <<>>
  <2>1. Listed(l) = {} /\ Len(l) = 0
    BY <1>1, ListFacts
  <2> QED BY <2>1, FS_EmptySet
<1>2. CASE l # <<>>
  <2>1. Len(l) = 1 /\ l[1] \in {"main", "aux"}
    BY <1>2 DEF ViewLists
  <2>2. Listed(l) = {l[1]}
    BY <2>1 DEF Listed
  <2> QED BY <2>1, <2>2, FS_Singleton
<1> QED BY <1>1, <1>2

\* While a frame is handed to the encode session, three buffers are taken at most.
LEMMA BuffersLeft ==
  ASSUME EncInv, phase = "encode", codec # "progressive"
  PROVE  buffers < E!NBuffers
<1> DEFINE n == [s \in E!Stage |-> IF s \in E!Stage THEN frames[s].bitstreams ELSE 0]
<1>1. \A s \in E!Stage : n[s] \in Nat /\ (~E!At(s) => n[s] = 0)
  BY HeldRange
<1>2. ~E!At("creating") /\ ~E!At("viewed") /\ ~E!At("encoded")
  BY DEF EncInv, Flow
<1>3. n["queued"] = 0 /\ n["encoding"] = 0
  BY DEF EncInv, Kinds, Submissions, E!Stage
<1>4. n["rendered"] \in 0 .. 2
  <2>1. frames["rendered"] \in EncodedFrame
    BY DEF EncInv, Typed, E!Stage
  <2>2. ToEncode("rendered") \in 1 .. 2
    BY <2>1, ViewsToEncodeOf DEF ToEncode
  <2>3. E!At("rendered") => frames["rendered"].bitstreams <= ToEncode("rendered")
    BY DEF EncInv, Submissions
  <2> QED BY <1>1, <2>2, <2>3 DEF E!Stage
<1>5. /\ buffers = E!Total(n) + (IF bitstream = "ok" THEN 1 ELSE 0) + Cardinality(encodes)
      /\ encodes = Listed(Unlocked)
  BY DEF EncInv, Pools, Submissions, E!BitstreamsIn
<1> HIDE DEF n
<1>6. E!Total(n) \in 0 .. 2
  BY <1>1, <1>2, <1>3, <1>4 DEF E!Total, E!Stage
<1>7. /\ lockTasks \in ViewLists
      /\ bitstream # "none" => lockTasks # <<>>
  BY DEF EncInv, Typed, Submissions
<1>8. Len(lockTasks) \in 0 .. 1 /\ Len(lockTasks) <= 1
  <2>1. lockTasks \in ViewLists /\ todo \in ViewLists /\ todo # <<>>
        /\ (bitstream # "none" => lockTasks # <<>>) /\ InProgress <= ToEncode("encoding")
        /\ frames["encoding"].bitstreams = 0
    BY DEF EncInv, Typed, Submissions, Flow
  <2>2. frames["encoding"] \in EncodedFrame
    BY DEF EncInv, Typed, E!Stage
  <2>3. ToEncode("encoding") \in 1 .. 2
    BY <2>2, ViewsToEncodeOf DEF ToEncode
  <2>4. Len(lockTasks) \in 0 .. 2 /\ Len(todo) \in 1 .. 2
    BY <2>1, ListFacts
  <2> DEFINE k == frames["encoding"].bitstreams
             l == Len(lockTasks)
             m == Len(todo)
  <2>5. k = 0 /\ k + l + m <= ToEncode("encoding")
    <3>1. InProgress = k + l + m
      BY DEF InProgress
    <3> HIDE DEF k, l, m
    <3>2. k = 0
      BY <2>1 DEF k
    <3> QED BY ONLY <2>1, <3>1, <3>2
  <2>6. l \in 0 .. 2 /\ m \in 1 .. 2
    BY <2>4
  <2> HIDE DEF k, l, m
  <2>7. l \in 0 .. 1 /\ l <= 1
    BY ONLY <2>3, <2>5, <2>6
  <2> QED BY <2>7 DEF l
<1>9. (IF bitstream = "ok" THEN 1 ELSE 0) + Cardinality(encodes) \in 0 .. 1
  <2>1. CASE bitstream = "none"
    <3> DEFINE r == lockTasks
    <3>1. r \in ViewLists /\ Len(r) \in 0 .. 1 /\ Len(r) <= 1
      BY <1>7, <1>8
    <3>2. Unlocked = r
      BY <2>1 DEF Unlocked
    <3> HIDE DEF r
    <3>3. Cardinality(encodes) = Len(r)
      BY <1>5, <3>1, <3>2, NoneOrOne
    <3>4. (IF bitstream = "ok" THEN 1 ELSE 0) = 0
      BY <2>1
    <3> QED BY ONLY <3>1, <3>3, <3>4
  <2>2. CASE bitstream # "none"
    <3> DEFINE r == Tail(lockTasks)
    <3>1. r \in ViewLists /\ Len(r) = 0
      BY <1>7, <1>8, <2>2, ListFacts
    <3>2. Unlocked = r
      BY <2>2 DEF Unlocked
    <3> HIDE DEF r
    <3>3. Cardinality(encodes) = 0
      BY <1>5, <3>1, <3>2, NoneOrOne
    <3> QED BY ONLY <3>3
  <2> QED BY <2>1, <2>2
<1>10. E!NBuffers = 4
  BY DEF E!NBuffers
<1>11. Cardinality(encodes) \in Nat
  BY EncodesFinite
<1> QED BY ONLY <1>5, <1>6, <1>9, <1>10, <1>11

\* Before the software encoder starts, one stream is taken at most.
LEMMA StreamsLeft ==
  ASSUME EncInv, lockTasks # <<>>, bitstream = "none", codec = "progressive"
  PROVE  buffers < E!NBuffers
<1> DEFINE n == [s \in E!Stage |-> IF s \in E!Stage THEN frames[s].bitstreams ELSE 0]
<1>1. \A s \in E!Stage : n[s] \in Nat /\ (~E!At(s) => n[s] = 0)
  BY HeldRange
<1>2. E!At("encoding") /\ ~E!At("encoded")
  BY DEF EncInv, Submissions, Flow
<1>3. n["queued"] = 0 /\ n["creating"] = 0 /\ n["viewed"] = 0
  BY DEF EncInv, Kinds, E!Stage
<1>4. \A s \in E!Stage : ToEncode(s) = 1
  <2>1. \A s \in E!Stage : frames[s] \in EncodedFrame /\ frames[s].type = "main"
    BY DEF EncInv, Typed, Kinds
  <2> QED BY <2>1, ViewsToEncodeOf DEF ToEncode
<1>5. n["encoding"] = 0
  <2>1. /\ InProgress <= ToEncode("encoding") /\ lockTasks \in ViewLists /\ todo \in ViewLists
    BY <1>2 DEF EncInv, Typed, Submissions
  <2>2. Len(lockTasks) \in 1 .. 2 /\ Len(todo) \in 0 .. 2
    BY <2>1, ListFacts
  <2>3. ToEncode("encoding") = 1 /\ frames["encoding"].bitstreams \in Nat
    BY <1>4, HeldRange DEF E!Stage
  <2>4. frames["encoding"].bitstreams = 0
    <3> DEFINE k == frames["encoding"].bitstreams
               l == Len(lockTasks)
               m == Len(todo)
    <3>1. k + l + m <= 1
      BY <2>1, <2>3 DEF InProgress
    <3>2. k \in Nat /\ l \in 1 .. 2 /\ m \in 0 .. 2
      BY <2>2, <2>3
    <3> HIDE DEF k, l, m
    <3>3. k = 0
      BY ONLY <3>1, <3>2
    <3> QED BY <3>3 DEF k
  <2> QED BY <2>4 DEF E!Stage
<1>6. n["rendered"] \in 0 .. 1
  <2>1. E!At("rendered") => frames["rendered"].bitstreams <= ToEncode("rendered")
    BY DEF EncInv, Submissions
  <2> QED BY <1>1, <1>4, <2>1 DEF E!Stage
<1>7. buffers = E!Total(n) + 0 + 0
  BY DEF EncInv, Pools, E!BitstreamsIn
<1> HIDE DEF n
<1>8. E!Total(n) \in 0 .. 1
  BY <1>1, <1>2, <1>3, <1>5, <1>6 DEF E!Total, E!Stage
<1> QED BY <1>7, <1>8 DEF E!NBuffers

\* The pools suffice.
LEMMA EncodingPools ==
  ASSUME EncInv
  PROVE  E!PoolsSuffice
<1>1. Pools /\ locals = {frames[s].local : s \in E!Stage} \ {0}
      /\ (E!At("creating") /\ codec = "progressive" => frames["creating"].local # 0)
  BY DEF EncInv, Locals
<1>2. E!Cardinality(encodes) = Cardinality(encodes)
  BY DEF Cardinality, E!Cardinality
<1> QED BY <1>1, <1>2, ViewsLeft, BuffersLeft, StreamsLeft DEF Pools, E!PoolsSuffice

\* Frames that are submitted are complete.
LEMMA EncodingComplete ==
  ASSUME EncInv
  PROVE  E!FramesComplete
<1>1. encodes # {} => lockTasks # <<>>
  <2> SUFFICES ASSUME lockTasks = <<>>
               PROVE  encodes = {}
    OBVIOUS
  <2>1. Unlocked = <<>> /\ encodes = Listed(Unlocked)
    BY DEF EncInv, Submissions, Unlocked
  <2> QED BY <2>1, ListFacts DEF ViewLists
<1>2. phase = "finish" /\ ~stopped /\ E!At("rendered") =>
        frames["rendered"].bitstreams = ToEncode("rendered") /\ ~broken
  BY DEF EncInv, Submissions
<1> QED BY <1>1, <1>2 DEF EncInv, Upgrades, Kinds, Submissions, ToEncode, E!FramesComplete

\* The client follows.
LEMMA EncodingFollows ==
  ASSUME EncInv
  PROVE  E!ClientFollows
<1> SUFFICES ASSUME ~stopped, ~failed
             PROVE  /\ E!OnceArrived.owed = chroma
                    /\ IF frames["creating"].is
                       THEN frames["creating"].base \in {E!OnceArrived.shows, E!NoPicture}
                       ELSE E!OnceArrived.shows = lastPicture
                    /\ frames["rendered"].type = "aux" =>
                         \A t \in frames["rendered"].damage :
                           screen.shows[t] = frames["rendered"].picture[t]
  BY DEF E!ClientFollows
<1>1. Bases /\ UpgradesLead
  BY DEF EncInv, Follows
<1>2. frames["rendered"].type = "aux" => IsAux("rendered")
  BY DEF EncInv, EmptyStages, IsAux, E!NoFrame, E!Stage
<1> QED BY <1>1, <1>2 DEF Bases, UpgradesLead, E!At, E!Stage

(* Theorems *)

\* In a behaviour of the frames of one render context.
OfEncodingInv == scenario = "encoding" => EncInv

\* Any tiles, any number of pictures and each of the three codecs: the invariant that the
\* properties below follow from.
THEOREM EncodingInvariant == GraphicsSpec => []OfEncodingInv
<1>1. GraphicsInit => OfEncodingInv
  BY EncInit DEF GraphicsInit, OfEncodingInv
<1>2. OfEncodingInv /\ [GraphicsNext]_graphicsVars => OfEncodingInv'
  <2> SUFFICES ASSUME OfEncodingInv, [GraphicsNext]_graphicsVars, scenario' = "encoding"
               PROVE  EncInv'
    BY DEF OfEncodingInv
  <2>1. CASE OfChannel /\ Next
    BY <2>1 DEF OfChannel
  <2>2. CASE OfEncoding /\ E!Next
    BY <2>2, EncodingStep DEF OfEncoding, OfEncodingInv
  <2>3. CASE UNCHANGED graphicsVars
    BY <2>3, EncodingStutters DEF graphicsVars, OfEncodingInv
  <2> QED BY <2>1, <2>2, <2>3 DEF GraphicsNext
<1> QED BY <1>1, <1>2, PTL DEF GraphicsSpec

\* There are always views, bitstreams and local buffers for the frames on their way, nothing
\* invalid or incomplete is encoded or submitted, and the client follows what the next damage
\* is computed from.
THEOREM EncodingCorrect == GraphicsSpec => []EncodingSound
<1>1. OfEncodingInv => EncodingSound
  BY EncodingPools, EncodingComplete, EncodingFollows DEF OfEncodingInv, EncodingSound
<1> QED BY <1>1, EncodingInvariant, PTL

\* A behaviour is one of the channel or one of the encoding, to its end.
THEOREM ScenarioKept == GraphicsSpec => [](scenario \in {"channel", "encoding"})
<1>1. GraphicsInit => scenario \in {"channel", "encoding"}
  BY DEF GraphicsInit
<1>2. scenario \in {"channel", "encoding"} /\ [GraphicsNext]_graphicsVars
      => (scenario \in {"channel", "encoding"})'
  BY DEF GraphicsNext, OfChannel, OfEncoding, graphicsVars
<1> QED BY <1>1, <1>2, PTL DEF GraphicsSpec

\* Both scenarios keep the types of their variables.
THEOREM GraphicsTypeCorrect == GraphicsSpec => []GraphicsTypeOK
<1>1. /\ scenario \in {"channel", "encoding"} /\ OfEncodingInv
      /\ (scenario = "channel" => TypeOK)
      => GraphicsTypeOK
  BY DEF OfEncodingInv, EncInv, Typed, GraphicsTypeOK
<1> QED BY <1>1, EncodingInvariant, ScenarioKept, ChannelTypeCorrect, PTL

===============================================================================
