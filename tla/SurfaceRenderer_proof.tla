------------------------- MODULE SurfaceRenderer_proof -------------------------
(***************************************************************************)
(* Proofs about SurfaceRenderer.tla, for any buffers, slots, pools and     *)
(* resets: a buffer on loan from PipeWire is kept while it is used and     *)
(* given back once, and no trigger of the render source is lost.           *)
(*                                                                         *)
(* Inv is inductive for every stream.  Its core is LocksExact: the count   *)
(* of a lock is the number of references in the frames and in unref_queue, *)
(* which the other parts turn into what the main thread may remove.        *)
(*                                                                         *)
(* What holds beyond it depends on the stream.  That buffers are given     *)
(* back once (Loan) needs a surface that is reset only while no frame uses *)
(* it (ResetIdle), as of virtual monitors: a physical one (Physical) asks  *)
(* for a reset with frames on their way.  That the encoder keeps what it   *)
(* reads (KindsAgree) needs buffers that stay of one type: a pool of       *)
(* another type (KindChanges) changes must_delay_view_finalization for     *)
(* frames that have their view already.                                    *)
(***************************************************************************)
EXTENDS SurfaceRenderer, FiniteSetTheorems, SequenceTheorems, WellFoundedInduction, TLAPS

--------------------------------------------------------------------------------
(* The inductive invariants. *)

\* A frame that refers to buffers: it has a current one, and maybe a last one.
Refers(f) == f.open => f.is /\ f.cur # NoBuffer

\* What refers to b: a frame, the queue, all of them.
FrameUses(f, b) == (IF f.open /\ f.cur = b THEN 1 ELSE 0)
                   + (IF f.open /\ f.last = b THEN 1 ELSE 0)

Returns(q, b) == {i \in DOMAIN q : q[i].buffer = b}

Count(q, b) == Cardinality(Returns(q, b))

Uses(fr, q, b) == FrameUses(fr["queued"], b) + FrameUses(fr["creating"], b)
                  + FrameUses(fr["viewed"], b) + FrameUses(fr["encoding"], b)
                  + Count(q, b)

Fits(s) ==
  /\ Refers(frame[s])
  /\ ~frame[s].is => frame[s] = NoFrame
  /\ s \in {"queued", "creating"} /\ frame[s].is => frame[s].open

\* What a stage says of its frame: until its view exists a frame refers to buffers.
FramesFit ==
  /\ \A s \in Stage : Fits(s)
  /\ ~(frame["creating"].is /\ frame["viewed"].is)

\* The count of a lock, stage by stage.
LocksExact == \A b \in Buffer : refs[b] = Uses(frame, unrefs, b)

\* A buffer is marked from unregister_pw_buffer's critical section to its end, and is
\* neither pending nor shown then.
RemovalInStep ==
  /\ removing.step = "none" => removing = NoRemoval
  /\ removing.step # "none" =>
       phase \in {"clearing", "closing"} /\ removing.buffer \in registered
  /\ marked = IF removing.step = "drop" THEN {removing.buffer} ELSE {}
  /\ pending \notin marked /\ last \notin marked

\* InUse, by the counts.
Needed(b) == refs[b] > 0 \/ b \in {pending, last}

NeededRegistered == \A b \in Buffer : Needed(b) => b \in registered

\* A new pool starts with nothing left of the one before.
PoolClean == phase \in {"adding", "closed"} => \A b \in Buffer : ~Needed(b)

\* No upgrade can bring back a buffer without a trigger while the stream runs: a reset
\* that is pending then was asked for before the pool came.
ResetShowsNothing ==
  phase \in {"adding", "streaming"} /\ (resetPending \/ gate = "sized")
    => last = NoBuffer /\ ~frame["queued"].is

PoolInv == RemovalInStep /\ NeededRegistered /\ PoolClean /\ ResetShowsNothing /\ NoLostTrigger

Inv == TypeOK /\ FramesFit /\ LocksExact /\ PoolInv

\* References never stay in unref_queue alone: a render context follows them, or
\* its frame still has it.
ContextLast ==
  unrefs # <<>> =>
    \/ unrefs[Len(unrefs)] = Context
    \/ \E s \in Stage : frame[s].is /\ ~frame[s].open

\* A virtual monitor: whoever asks for a reset of the graphics has seen that no
\* render context is in use, and none is used until the reset.
ResetIdle == resetPending \/ gate = "sized" => Idle

\* QueuedOnce, by the counts.
HeldExact ==
  \A b \in Buffer :
    /\ held[b] \in {0, 1}
    /\ Needed(b) => held[b] = 1
    /\ held[b] = 1 => Needed(b) \/ b \in marked

\* Who replaces the shown buffer has a reference to it.
QueuedShowsLast ==
  frame["queued"].is /\ last # NoBuffer => frame["queued"].last = last

Loan == HeldExact /\ QueuedShowsLast /\ PendingIsNew

\* Buffers of one type: the render context is made for them, and a frame that the
\* encoder of MemFd buffers reads keeps its view open.
KindsAgree ==
  /\ info \in {"none", kind} /\ context \in {"none", info} /\ ~forceReset
  /\ info = "none" => registered = {}
  /\ info # "dma" /\ context = "none" => \A s \in Stage : ~frame[s].is
  /\ context = "mem" => \A s \in {"viewed", "encoding"} :
       frame[s].is /\ frame[s].cur # NoBuffer => frame[s].open

--------------------------------------------------------------------------------
(* Counting. *)

In(x, S) == IF x \in S THEN 1 ELSE 0

\* The cardinality of a set, with and without x.
LEMMA OneMore ==
  ASSUME NEW S, NEW x, IsFiniteSet(S \ {x})
  PROVE  /\ IsFiniteSet(S)
         /\ Cardinality(S) = In(x, S) + Cardinality(S \ {x})
         /\ Cardinality(S \ {x}) \in Nat
<1> DEFINE T == S \ {x}
<1>1. x \notin T /\ S = IF x \in S THEN T \cup {x} ELSE T
  OBVIOUS
<1> HIDE DEF T
<1>2. Cardinality(T) \in Nat /\ IsFiniteSet(T)
  BY FS_CardinalityType DEF T
<1>3. IsFiniteSet(T \cup {x}) /\ Cardinality(T \cup {x}) = Cardinality(T) + 1
  BY <1>1, <1>2, FS_AddElement
<1>4. IsFiniteSet(S) /\ Cardinality(S) = In(x, S) + Cardinality(T)
  BY <1>1, <1>2, <1>3 DEF In
<1> QED BY <1>2, <1>4 DEF T

\* The cardinality of a set of stages, stage by stage.
LEMMA StageCount ==
  ASSUME NEW S \in SUBSET Stage
  PROVE  /\ IsFiniteSet(S)
         /\ Cardinality(S) = In("queued", S) + In("creating", S)
                             + In("viewed", S) + In("encoding", S)
<1> DEFINE S1 == S \ {"queued"}
           S2 == S1 \ {"creating"}
           S3 == S2 \ {"viewed"}
           S4 == S3 \ {"encoding"}
<1>1. IsFiniteSet(S4) /\ Cardinality(S4) = 0
  <2>1. S4 = {}
    BY DEF Stage
  <2> QED BY <2>1, FS_EmptySet
<1>2. /\ In("creating", S1) = In("creating", S) /\ In("viewed", S2) = In("viewed", S)
      /\ In("encoding", S3) = In("encoding", S)
  BY DEF In
<1>3. \A x, T : In(x, T) \in Nat
  BY DEF In
<1> HIDE DEF S4
<1>4. IsFiniteSet(S3) /\ Cardinality(S3) = In("encoding", S3) + Cardinality(S4)
  BY <1>1, OneMore DEF S4
<1> HIDE DEF S3
<1>5. IsFiniteSet(S2) /\ Cardinality(S2) = In("viewed", S2) + Cardinality(S3)
  BY <1>4, OneMore DEF S3
<1> HIDE DEF S2
<1>6. IsFiniteSet(S1) /\ Cardinality(S1) = In("creating", S1) + Cardinality(S2)
  BY <1>5, OneMore DEF S2
<1> HIDE DEF S1
<1>7. IsFiniteSet(S) /\ Cardinality(S) = In("queued", S) + Cardinality(S1)
  BY <1>6, OneMore DEF S1
<1> QED BY <1>1, <1>2, <1>3, <1>4, <1>5, <1>6, <1>7

\* The queue has finitely many references to b.
LEMMA ReturnsFinite ==
  ASSUME NEW q \in Seq(Reference), NEW b
  PROVE  IsFiniteSet(Returns(q, b)) /\ Count(q, b) \in Nat
<1>1. Returns(q, b) \subseteq 1 .. Len(q) /\ Len(q) \in Nat
  BY DEF Returns
<1>2. IsFiniteSet(1 .. Len(q))
  BY <1>1, FS_Interval
<1> QED BY <1>1, <1>2, FS_Subset, FS_CardinalityType DEF Count

\* The three cardinalities of LockedByUses are Uses.
LEMMA UsesCounted ==
  ASSUME NEW fr \in [Stage -> Frames], NEW q \in Seq(Reference), NEW b \in Buffer
  PROVE  Cardinality({s \in Stage : fr[s].open /\ fr[s].cur = b})
         + Cardinality({s \in Stage : fr[s].open /\ fr[s].last = b})
         + Cardinality({i \in DOMAIN q : q[i].buffer = b})
         = Uses(fr, q, b)
<1> DEFINE S == {s \in Stage : fr[s].open /\ fr[s].cur = b}
           L == {s \in Stage : fr[s].open /\ fr[s].last = b}
           N == Cardinality({i \in DOMAIN q : q[i].buffer = b})
<1>1. Cardinality(S) = In("queued", S) + In("creating", S)
                             + In("viewed", S) + In("encoding", S)
  BY StageCount
<1>2. Cardinality(L) = In("queued", L) + In("creating", L)
                             + In("viewed", L) + In("encoding", L)
  BY StageCount
<1>3. \A s \in Stage : FrameUses(fr[s], b) = In(s, S) + In(s, L)
  BY DEF FrameUses, In
<1>4. N = Count(q, b) /\ N \in Nat
  BY ReturnsFinite DEF Count, Returns
<1>5. \A s : In(s, S) \in Nat /\ In(s, L) \in Nat
  BY DEF In
<1>6. {"queued", "creating", "viewed", "encoding"} = Stage
  BY DEF Stage
<1> HIDE DEF S, L, N
<1>7. Cardinality(S) + Cardinality(L) + N = Uses(fr, q, b)
  <2>1. /\ FrameUses(fr["queued"], b) = In("queued", S) + In("queued", L)
        /\ FrameUses(fr["creating"], b) = In("creating", S) + In("creating", L)
        /\ FrameUses(fr["viewed"], b) = In("viewed", S) + In("viewed", L)
        /\ FrameUses(fr["encoding"], b) = In("encoding", S) + In("encoding", L)
    BY <1>3, <1>6
  <2>2. /\ In("queued", S) \in Nat /\ In("queued", L) \in Nat
        /\ In("creating", S) \in Nat /\ In("creating", L) \in Nat
        /\ In("viewed", S) \in Nat /\ In("viewed", L) \in Nat
        /\ In("encoding", S) \in Nat /\ In("encoding", L) \in Nat
    BY <1>5
  <2> QED BY <1>1, <1>2, <1>4, <2>1, <2>2, SMTT(30) DEF Uses
<1> QED BY <1>7 DEF S, L, N

\* An object that is queued adds one reference to its buffer.
LEMMA CountAppend ==
  ASSUME NEW q \in Seq(Reference), NEW x \in Reference, NEW b \in Buffer
  PROVE  /\ Append(q, x) \in Seq(Reference)
         /\ Count(Append(q, x), b) = Count(q, b) + (IF x.buffer = b THEN 1 ELSE 0)
<1> DEFINE n == Len(q) + 1
<1>1. n \notin Returns(q, b)
  BY DEF Returns
<1>2. Returns(Append(q, x), b) = IF x.buffer = b THEN Returns(q, b) \cup {n}
                                 ELSE Returns(q, b)
  BY DEF Returns
<1>3. IsFiniteSet(Returns(q, b)) /\ Count(q, b) \in Nat
  BY ReturnsFinite
<1>4. Cardinality(Returns(q, b) \cup {n}) = Count(q, b) + 1
  BY <1>1, <1>3, FS_AddElement DEF Count
<1> QED BY <1>2, <1>3, <1>4 DEF Count

\* The first object of the queue is one reference to its buffer.
LEMMA CountTail ==
  ASSUME NEW q \in Seq(Reference), q # <<>>, NEW b \in Buffer
  PROVE  /\ Tail(q) \in Seq(Reference) /\ Head(q) \in Reference
         /\ Count(q, b) = Count(Tail(q), b) + (IF Head(q).buffer = b THEN 1 ELSE 0)
<1> DEFINE R == Returns(Tail(q), b)
           M == Returns(q, b) \ {1}
           f == [i \in R |-> i + 1]
<1>1. /\ Tail(q) \in Seq(Reference) /\ Head(q) \in Reference /\ Head(q) = q[1]
      /\ Len(Tail(q)) = Len(q) - 1 /\ \A i \in 1 .. Len(q) - 1 : Tail(q)[i] = q[i + 1]
      /\ Len(q) \in Nat \ {0}
  BY HeadTailProperties
<1>2. IsFiniteSet(R) /\ Count(Tail(q), b) \in Nat /\ IsFiniteSet(Returns(q, b))
  BY <1>1, ReturnsFinite
<1>3. R = {i \in 1 .. Len(q) - 1 : q[i + 1].buffer = b}
  BY <1>1 DEF Returns
<1>4. M = {i \in 2 .. Len(q) : q[i].buffer = b}
  BY <1>1 DEF Returns
<1>5. f \in Bijection(R, M)
  <2>1. \A i \in R : i \in Int /\ i + 1 \in M
    BY <1>1, <1>3, <1>4
  <2>2. \A m \in M : m - 1 \in R /\ (m - 1) + 1 = m
    BY <1>1, <1>3, <1>4
  <2> HIDE DEF R, M
  <2>3. f \in [R -> M]
    BY <2>1
  <2>4. IsInjective(f)
    BY <2>1 DEF IsInjective
  <2>5. f \in Surjection(R, M)
    BY <2>2, <2>3 DEF Surjection
  <2> QED BY <2>3, <2>4, <2>5 DEF Bijection, Injection
<1>6. Cardinality(M) = Count(Tail(q), b) /\ IsFiniteSet(M)
  <2> HIDE DEF R, M, f
  <2>1. IsFiniteSet(M) /\ Cardinality(R) = Cardinality(M)
    BY <1>2, <1>5, FS_Bijection DEF ExistsBijection
  <2> QED BY <2>1 DEF Count, R
<1>7. Returns(q, b) = IF q[1].buffer = b THEN M \cup {1} ELSE M
  BY <1>1 DEF Returns
<1>8. Cardinality(M \cup {1}) = Count(Tail(q), b) + 1
  BY <1>6, FS_AddElement
<1> HIDE DEF M
<1> QED BY <1>1, <1>2, <1>6, <1>7, <1>8 DEF Count

\* Induction on the natural numbers, for sets.
LEMMA NatSet ==
  ASSUME NEW S \in SUBSET Nat, 0 \in S, \A n \in S : n + 1 \in S
  PROVE  S = Nat
<1> DEFINE R == OpToRel(<, Nat)
           T == Nat \ S
<1> SUFFICES ASSUME T # {}
             PROVE  FALSE
  OBVIOUS
<1>1. IsWellFoundedOn(R, Nat)
  BY NatLessThanWellFounded
<1>2. PICK n \in T : \A m \in T : ~(<<m, n>> \in R)
  <2>1. T \subseteq Nat
    OBVIOUS
  <2> HIDE DEF R, T
  <2> QED BY <1>1, <2>1, WFMin
<1>3. \A m \in T : ~(m < n)
  BY <1>2 DEF OpToRel
<1>4. n # 0 /\ n - 1 \in S
  BY <1>3
<1> QED BY <1>4

\* The loop of on_stream_process: the recursion is well defined, and what it keeps.
Start == [pointer |-> NoBuffer, frame |-> NoBuffer, held |-> held]

TurnsTo(batch, k, g) ==
  g = [i \in 0 .. k |-> IF i = 0 THEN Start ELSE Dequeue(g[i - 1], batch[i])]

\* The turns of the loop are what their definition says.
LEMMA TurnsDefined ==
  ASSUME NEW batch, Len(batch) \in Nat
  PROVE  /\ Turns(batch)[0] = Start
         /\ \A i \in 1 .. Len(batch) :
              Turns(batch)[i] = Dequeue(Turns(batch)[i - 1], batch[i])
<1> DEFINE S == {k \in Nat : \E g : TurnsTo(batch, k, g)}
<1>1. 0 \in S
  <2>1. TurnsTo(batch, 0, [i \in 0 .. 0 |-> Start])
    BY DEF TurnsTo
  <2> QED BY <2>1
<1>2. ASSUME NEW k \in S
      PROVE  k + 1 \in S
  <2>1. PICK g : TurnsTo(batch, k, g)
    OBVIOUS
  <2> DEFINE h == [i \in 0 .. k + 1 |->
                     IF i = 0 THEN Start ELSE Dequeue(g[i - 1], batch[i])]
  <2>2. k \in Nat
    OBVIOUS
  <2>3. \A i \in 0 .. k : g[i] = IF i = 0 THEN Start ELSE Dequeue(g[i - 1], batch[i])
    BY <2>1 DEF TurnsTo
  <2>4. \A i \in 0 .. k : h[i] = g[i]
    BY <2>2, <2>3
  <2>5. \A i \in 0 .. k + 1 : i = 0 \/ i - 1 \in 0 .. k
    BY <2>2
  <2>6. \A i \in 0 .. k + 1 :
          h[i] = IF i = 0 THEN Start ELSE Dequeue(h[i - 1], batch[i])
    BY <2>4, <2>5
  <2>7. h = [i \in 0 .. k + 1 |-> IF i = 0 THEN Start ELSE Dequeue(h[i - 1], batch[i])]
    <3>1. h = [i \in 0 .. k + 1 |-> h[i]]
      OBVIOUS
    <3> HIDE DEF h
    <3> QED BY <2>6, <3>1
  <2> HIDE DEF h
  <2>8. TurnsTo(batch, k + 1, h)
    BY <2>7 DEF TurnsTo
  <2> QED BY <2>2, <2>8
<1> HIDE DEF S
<1>3. S = Nat
  BY <1>1, <1>2, NatSet DEF S
<1>4. \E g : TurnsTo(batch, Len(batch), g)
  BY <1>3 DEF S
<1>5. Turns(batch) = CHOOSE g : TurnsTo(batch, Len(batch), g)
  BY DEF Turns, TurnsTo, Start
<1>6. TurnsTo(batch, Len(batch), Turns(batch))
  BY <1>4, <1>5
<1> HIDE DEF TurnsTo
<1> QED BY <1>6 DEF TurnsTo

\* The buffers that PipeWire owns.
Free0 == {b \in Buffer : held[b] = 0}

\* The counts while PipeWire's buffers in B are out, too.
Out(B) == [b \in Buffer |-> IF b \in B THEN 1 ELSE held[b]]

\* What the loop holds: the two buffers it keeps.
Loop(acc) ==
  /\ acc.pointer \in Free0 \cup {NoBuffer} /\ acc.frame \in Free0 \cup {NoBuffer}
  /\ acc.held = Out({acc.pointer, acc.frame})

\* Dequeuing a buffer takes it out, queuing it again takes it back.
LEMMA OutChanges ==
  ASSUME held \in [Buffer -> Int], NEW B
  PROVE  /\ \A x \in Free0 : x \notin B => Referenced(Out(B), x) = Out(B \cup {x})
         /\ \A x \in Free0 : x \in B => Released(Out(B), x) = Out(B \ {x})
         /\ Released(Out(B), NoBuffer) = Out(B \ {NoBuffer})
<1>1. NoBuffer \notin Buffer
  BY SurfaceRendererAssumption
<1>2. ASSUME NEW x \in Free0, x \notin B
      PROVE  Referenced(Out(B), x) = Out(B \cup {x})
  <2>1. x \in Buffer /\ x # NoBuffer /\ held[x] = 0 /\ Out(B)[x] = 0
    BY <1>1, <1>2 DEF Free0, Out
  <2>2. Referenced(Out(B), x) = [Out(B) EXCEPT ![x] = 1]
    BY <2>1 DEF Referenced
  <2>3. [Out(B) EXCEPT ![x] = 1] = Out(B \cup {x})
    BY <2>1 DEF Out
  <2> QED BY <2>2, <2>3
<1>3. ASSUME NEW x \in Free0, x \in B
      PROVE  Released(Out(B), x) = Out(B \ {x})
  <2>1. x \in Buffer /\ x # NoBuffer /\ held[x] = 0 /\ Out(B)[x] = 1
    BY <1>1, <1>3 DEF Free0, Out
  <2>2. Released(Out(B), x) = [Out(B) EXCEPT ![x] = 0]
    BY <2>1 DEF Released
  <2>3. [Out(B) EXCEPT ![x] = 0] = Out(B \ {x})
    BY <2>1 DEF Out
  <2> QED BY <2>2, <2>3
<1>4. Released(Out(B), NoBuffer) = Out(B \ {NoBuffer})
  BY <1>1 DEF Released, Out
<1> QED BY <1>2, <1>3, <1>4

\* A turn of the loop holds the two buffers it keeps once, and nothing else.
LEMMA DequeueLoop ==
  ASSUME held \in [Buffer -> Int], NEW acc, Loop(acc),
         NEW next \in [buffer : Free0, content : Content],
         next.buffer \notin {acc.pointer, acc.frame}
  PROVE  /\ Loop(Dequeue(acc, next))
         /\ Dequeue(acc, next).pointer \in {acc.pointer, next.buffer}
         /\ Dequeue(acc, next).frame \in {acc.frame, next.buffer}
<1> DEFINE n == next.buffer
           p == acc.pointer
           f == acc.frame
           d == Dequeue(acc, next)
           oldPointer == IF next.content.pointer /\ p # f THEN p ELSE NoBuffer
           oldFrame == IF next.content.frame /\ f # d.pointer THEN f ELSE NoBuffer
           useless == IF n \in {d.pointer, d.frame} THEN NoBuffer ELSE n
           None == {NoBuffer}
           B1 == {p, f, n} \ {oldPointer}
           B2 == B1 \ {oldFrame}
           B3 == B2 \ {useless}
<1>1. /\ n \in Free0 /\ n # p /\ n # f
      /\ p \in Free0 \cup None /\ f \in Free0 \cup None
      /\ NoBuffer \notin Free0
      /\ next.content.pointer \in BOOLEAN /\ next.content.frame \in BOOLEAN
  BY SurfaceRendererAssumption DEF Loop, Free0, Content
<1>2. /\ d.pointer = IF next.content.pointer THEN n ELSE p
      /\ d.frame = IF next.content.frame THEN n ELSE f
      /\ d.held = Released(Released(Released(Referenced(Out({p, f}), n), oldPointer),
                                    oldFrame), useless)
  BY DEF Dequeue, Loop
<1> HIDE DEF d
<1>3. Referenced(Out({p, f}), n) = Out({p, f, n})
  <2>1. Referenced(Out({p, f}), n) = Out({p, f} \cup {n})
    BY <1>1, OutChanges
  <2>2. {p, f} \cup {n} = {p, f, n}
    OBVIOUS
  <2> QED BY <2>1, <2>2
<1>4. Released(Out({p, f, n}), oldPointer) = Out(B1)
  <2>1. (oldPointer \in {p, f, n} /\ oldPointer \in Free0) \/ oldPointer = NoBuffer
    BY <1>1
  <2> HIDE DEF oldPointer
  <2> QED BY <2>1, OutChanges
<1>5. Released(Out(B1), oldFrame) = Out(B2)
  <2>1. (oldFrame \in B1 /\ oldFrame \in Free0) \/ oldFrame = NoBuffer
    BY <1>1, <1>2
  <2> HIDE DEF oldFrame, B1
  <2> QED BY <2>1, OutChanges
<1>6. Released(Out(B2), useless) = Out(B3)
  <2>1. (useless \in B2 /\ useless \in Free0) \/ useless = NoBuffer
    BY <1>1, <1>2
  <2> HIDE DEF useless, B2
  <2> QED BY <2>1, OutChanges
<1>7. B3 \ None = {d.pointer, d.frame} \ None
  BY <1>1, <1>2
<1>8. Out(B3) = Out({d.pointer, d.frame})
  <2> HIDE DEF B3
  <2>1. \A b \in Buffer : b \in B3 <=> b \in {d.pointer, d.frame}
    BY <1>7, SurfaceRendererAssumption
  <2> QED BY <2>1 DEF Out
<1> HIDE DEF B1, B2, B3
<1>9. d.held = Out({d.pointer, d.frame})
  BY <1>2, <1>3, <1>4, <1>5, <1>6, <1>8
<1>10. Loop(d)
  BY <1>1, <1>2, <1>9 DEF Loop
<1> QED BY <1>2, <1>10 DEF d

\* on_stream_process as a whole: one buffer more is out, which is the pending one
\* now, and the one it replaces was queued again; or nothing changes.
LEMMA ProcessEffect ==
  ASSUME TypeOK, NEW batch \in Batches({b \in registered : held[b] = 0}), Process(batch)
  PROVE  \/ UNCHANGED <<held, pending, armed>>
         \/ \E b \in registered :
              /\ held[b] = 0
              /\ pending' = b /\ armed' = TRUE
              /\ held' = Released([held EXCEPT ![b] = 1], pending)
<1> DEFINE Seen(i) == {batch[j].buffer : j \in 1 .. i} \cup {NoBuffer}
           t == Turns(batch)
           Good(i) == Loop(t[i]) /\ t[i].pointer \in Seen(i) /\ t[i].frame \in Seen(i)
           S == {i \in Nat : i <= Len(batch) => Good(i)}
           acc == t[Len(batch)]
<1>0. held \in [Buffer -> Int] /\ registered \subseteq Buffer /\ NoBuffer \notin Buffer
  BY SurfaceRendererAssumption DEF TypeOK
<1>1. /\ Len(batch) \in Nat
      /\ \A i \in 1 .. Len(batch) :
           batch[i] \in [buffer : {b \in registered : held[b] = 0}, content : Content]
      /\ \A i, j \in 1 .. Len(batch) : batch[i].buffer = batch[j].buffer => i = j
  <2>1. PICK n \in 1 .. MaxBatch :
          /\ batch \in [1 .. n -> [buffer : {b \in registered : held[b] = 0},
                                   content : Content]]
          /\ IsInjective([i \in 1 .. n |-> batch[i].buffer])
    BY DEF Batches
  <2>2. n \in Nat /\ Len(batch) = n
    BY <2>1, SurfaceRendererAssumption
  <2> QED BY <2>1, <2>2 DEF IsInjective
<1>2. t[0] = Start /\ \A i \in 1 .. Len(batch) : t[i] = Dequeue(t[i - 1], batch[i])
  BY <1>1, TurnsDefined
<1> HIDE DEF t
<1>3. 0 \in S
  <2>1. held = Out({NoBuffer, NoBuffer})
    <3>1. held = [b \in Buffer |-> held[b]]
      BY <1>0
    <3>2. \A b \in Buffer : b \notin {NoBuffer, NoBuffer}
      BY <1>0
    <3> QED BY <3>1, <3>2 DEF Out
  <2>2. t[0].pointer = NoBuffer /\ t[0].frame = NoBuffer /\ t[0].held = held
    BY <1>2 DEF Start
  <2>3. Good(0)
    <3> HIDE DEF Seen
    <3>1. NoBuffer \in Seen(0)
      BY DEF Seen
    <3> QED BY <2>1, <2>2, <3>1 DEF Loop
  <2> HIDE DEF Good
  <2> QED BY <2>3
<1>4. ASSUME NEW i \in S
      PROVE  i + 1 \in S
  <2> SUFFICES ASSUME i + 1 <= Len(batch)
               PROVE  Good(i + 1)
    BY SMTT(30)
  <2>1. i \in Nat /\ Good(i) /\ i + 1 \in 1 .. Len(batch)
    BY <1>1
  <2>2. t[i + 1] = Dequeue(t[i], batch[i + 1])
    BY <1>2, <2>1
  <2>3. batch[i + 1] \in [buffer : Free0, content : Content]
    BY <1>0, <1>1, <2>1 DEF Free0
  <2>4. batch[i + 1].buffer \notin Seen(i)
    BY <1>0, <1>1, <2>1
  <2>5. batch[i + 1].buffer \notin {t[i].pointer, t[i].frame}
    BY <2>1, <2>4
  <2>6. Seen(i) \subseteq Seen(i + 1) /\ batch[i + 1].buffer \in Seen(i + 1)
    BY <2>1
  <2> HIDE DEF Seen
  <2>7. QED
    BY <1>0, <2>1, <2>2, <2>3, <2>5, <2>6, DequeueLoop
<1>5. Good(Len(batch))
  <2> HIDE DEF Good
  <2>1. S \subseteq Nat
    OBVIOUS
  <2>2. S = Nat
    <3> HIDE DEF S
    <3> QED BY <1>3, <1>4, <2>1, NatSet
  <2> QED BY <1>1, <2>2
<1>6. /\ Loop(acc)
      /\ acc.pointer \in registered \cup {NoBuffer} /\ acc.frame \in registered \cup {NoBuffer}
  BY <1>1, <1>5
<1> DEFINE count == IF acc.pointer = acc.frame THEN acc.held
                    ELSE Released(acc.held, acc.pointer)
<1>7. IF acc.frame = NoBuffer
      THEN held' = count /\ UNCHANGED <<pending, armed>>
      ELSE Submit(acc.frame, count)
  BY DEF Process, t
<1> HIDE DEF acc
<1>8. count = [b \in Buffer |-> IF b = acc.frame THEN 1 ELSE held[b]]
  <2>1. CASE acc.pointer = acc.frame
    BY <1>0, <1>6, <2>1 DEF Loop, Out
  <2>2. CASE acc.pointer # acc.frame
    <3>1. count = Out({acc.pointer, acc.frame} \ {acc.pointer})
      BY <1>0, <1>6, <2>2, OutChanges DEF Loop
    <3>2. {acc.pointer, acc.frame} \ {acc.pointer} = {acc.frame}
      BY <2>2
    <3> QED BY <3>1, <3>2 DEF Out
  <2> QED BY <2>1, <2>2
<1>9. CASE acc.frame = NoBuffer
  <2>1. count = held
    BY <1>0, <1>8, <1>9
  <2> QED BY <1>7, <1>9, <2>1
<1>10. CASE acc.frame # NoBuffer
  <2>1. acc.frame \in registered /\ held[acc.frame] = 0
    BY <1>6, <1>10 DEF Loop, Free0
  <2>2. count = [held EXCEPT ![acc.frame] = 1]
    BY <1>0, <1>8, <2>1
  <2> QED BY <1>7, <1>10, <2>1, <2>2 DEF Submit
<1> QED BY <1>9, <1>10

Object(b) == [type |-> "buffer", buffer |-> b]

\* on_view_finalization drops the references that the frame has.
LEMMA ViewedCount ==
  ASSUME NEW f \in Frames, f.open, f.cur # NoBuffer, NEW q \in Seq(Reference)
  PROVE  /\ q \o Viewed(f) \in Seq(Reference)
         /\ \A b \in Buffer : Count(q \o Viewed(f), b) = Count(q, b) + FrameUses(f, b)
<1> DEFINE q1 == Append(q, Object(f.cur))
           q2 == Append(q1, Object(f.last))
<1>1. /\ f.cur \in Buffer /\ f.last \in Buffer \cup {NoBuffer}
      /\ NoBuffer \notin Buffer /\ Object(f.cur) \in Reference
  BY SurfaceRendererAssumption DEF Frames, Object, Reference
<1>2. /\ q1 \in Seq(Reference)
      /\ \A b \in Buffer : Count(q1, b) = Count(q, b) + (IF f.cur = b THEN 1 ELSE 0)
  <2>1. \A b : Object(f.cur).buffer = f.cur
    BY DEF Object
  <2> QED BY <1>1, <2>1, CountAppend
<1>3. \A b \in Buffer : Count(q, b) \in Nat
  BY ReturnsFinite
<1>4. CASE f.last = NoBuffer
  <2>1. q \o Viewed(f) = q1
    BY <1>4 DEF Viewed, Object
  <2>2. \A b \in Buffer : FrameUses(f, b) = IF f.cur = b THEN 1 ELSE 0
    BY <1>1, <1>4 DEF FrameUses
  <2> HIDE DEF q1
  <2> QED BY <1>2, <2>1, <2>2
<1>5. CASE f.last # NoBuffer
  <2>1. q \o Viewed(f) = q2
    BY <1>5 DEF Viewed, Object
  <2>2. \A b \in Buffer : FrameUses(f, b) = (IF f.cur = b THEN 1 ELSE 0)
                                             + (IF f.last = b THEN 1 ELSE 0)
    BY DEF FrameUses
  <2>3. Object(f.last) \in Reference /\ Object(f.last).buffer = f.last
    BY <1>1, <1>5 DEF Reference, Object
  <2> HIDE DEF q1
  <2>4. /\ q2 \in Seq(Reference)
        /\ \A b \in Buffer : Count(q2, b) = Count(q1, b) + (IF f.last = b THEN 1 ELSE 0)
    BY <1>2, <2>3, CountAppend
  <2> HIDE DEF q2
  <2> QED BY <1>2, <1>3, <2>1, <2>2, <2>4, SMTT(30)
<1> QED BY <1>4, <1>5

\* So does freeing a frame; its render context goes last.
LEMMA FreedCount ==
  ASSUME NEW f \in Frames, Refers(f), NEW q \in Seq(Reference)
  PROVE  /\ q \o Freed(f) \in Seq(Reference)
         /\ \A b \in Buffer : Count(q \o Freed(f), b) = Count(q, b) + FrameUses(f, b)
         /\ IF f.is THEN LET r == q \o Freed(f) IN r # <<>> /\ r[Len(r)] = Context
                    ELSE q \o Freed(f) = q
<1>1. Context \in Reference /\ \A b \in Buffer : Context.buffer # b
  BY SurfaceRendererAssumption DEF Context, Reference
<1>2. ASSUME NEW r \in Seq(Reference)
      PROVE  /\ Append(r, Context) \in Seq(Reference)
             /\ \A b \in Buffer : Count(Append(r, Context), b) = Count(r, b)
             /\ Append(r, Context) # <<>>
             /\ Append(r, Context)[Len(Append(r, Context))] = Context
  <2>1. \A b \in Buffer : Count(r, b) \in Nat
    BY ReturnsFinite
  <2>2. \A b \in Buffer : Count(Append(r, Context), b) = Count(r, b) + 0
    BY <1>1, CountAppend
  <2> QED BY <1>1, <2>1, <2>2
<1>3. \A b \in Buffer : Count(q, b) \in Nat
  BY ReturnsFinite
<1>4. CASE ~f.is
  <2>1. q \o Freed(f) = q
    BY <1>4 DEF Freed
  <2>2. \A b \in Buffer : FrameUses(f, b) = 0
    BY <1>4 DEF FrameUses, Refers
  <2> QED BY <1>3, <1>4, <2>1, <2>2
<1>5. CASE f.is /\ ~f.open
  <2>1. q \o Freed(f) = Append(q, Context)
    BY <1>5 DEF Freed
  <2>2. \A b \in Buffer : FrameUses(f, b) = 0
    BY <1>5 DEF FrameUses
  <2> QED BY <1>2, <1>3, <1>5, <2>1, <2>2
<1>6. CASE f.is /\ f.open
  <2>1. Freed(f) = Append(Viewed(f), Context)
    BY <1>6 DEF Freed
  <2>2. q \o Viewed(f) \in Seq(Reference) /\ Viewed(f) \in Seq(Reference)
    <3>1. Viewed(f) \in Seq(Reference)
      BY <1>6, SurfaceRendererAssumption DEF Viewed, Refers, Frames, Reference
    <3> QED BY <3>1
  <2>3. q \o Freed(f) = Append(q \o Viewed(f), Context)
    BY <1>1, <2>1, <2>2
  <2>4. \A b \in Buffer : Count(q \o Viewed(f), b) = Count(q, b) + FrameUses(f, b)
    BY <1>6, ViewedCount DEF Refers
  <2> DEFINE r == q \o Viewed(f)
  <2> HIDE DEF r
  <2>5. r \in Seq(Reference) /\ q \o Freed(f) = Append(r, Context)
    BY <2>2, <2>3 DEF r
  <2>6. /\ Append(r, Context) \in Seq(Reference)
        /\ \A b \in Buffer : Count(Append(r, Context), b) = Count(r, b)
        /\ Append(r, Context) # <<>>
        /\ Append(r, Context)[Len(Append(r, Context))] = Context
    BY <1>2, <2>5
  <2>7. \A b \in Buffer : Count(r, b) = Count(q, b) + FrameUses(f, b)
    BY <2>4 DEF r
  <2> QED BY <1>6, <2>5, <2>6, <2>7
<1> QED BY <1>4, <1>5, <1>6

Bit(f) == IF f.is THEN 1 ELSE 0

\* Used, stage by stage.
LEMMA UsedCount ==
  ASSUME NEW fr \in [Stage -> Frames]
  PROVE  Cardinality({s \in Stage \ {"queued"} : fr[s].is})
         = Bit(fr["creating"]) + Bit(fr["viewed"]) + Bit(fr["encoding"])
<1> DEFINE S == {s \in Stage \ {"queued"} : fr[s].is}
<1>1. Cardinality(S) = In("queued", S) + In("creating", S)
                             + In("viewed", S) + In("encoding", S)
  BY StageCount
<1>2. \A s \in Stage \ {"queued"} : In(s, S) = Bit(fr[s])
  BY DEF In, Bit
<1>3. In("queued", S) = 0 /\ {"queued", "creating", "viewed", "encoding"} = Stage
  BY DEF In, Stage
<1>4. \A s : In(s, S) \in Nat
  BY DEF In
<1> HIDE DEF S
<1>5. Cardinality(S) = Bit(fr["creating"]) + Bit(fr["viewed"]) + Bit(fr["encoding"])
  BY <1>1, <1>2, <1>3, <1>4
<1> QED BY <1>5 DEF S

\* What a frame refers to is part of what all of them do.
LEMMA UsesNat ==
  ASSUME NEW fr \in [Stage -> Frames], NEW q \in Seq(Reference), NEW b \in Buffer
  PROVE  /\ Uses(fr, q, b) \in Nat
         /\ \A s \in Stage : FrameUses(fr[s], b) \in Nat /\ FrameUses(fr[s], b) <= Uses(fr, q, b)
<1>1. Count(q, b) \in Nat
  BY ReturnsFinite
<1>2. \A s \in Stage : FrameUses(fr[s], b) \in Nat
  BY DEF FrameUses
<1>3. Stage = {"queued", "creating", "viewed", "encoding"}
  BY DEF Stage
<1> QED BY <1>1, <1>2, <1>3 DEF Uses

\* The buffers of a frame are locked while its view exists.
LEMMA FrameLocks ==
  ASSUME TypeOK, FramesFit, LocksExact, NEW s \in Stage, frame[s].open
  PROVE  /\ frame[s].cur \in Buffer /\ refs[frame[s].cur] > 0
         /\ frame[s].last # NoBuffer =>
              frame[s].last \in Buffer /\ refs[frame[s].last] > 0
<1>1. frame[s] \in Frames /\ frame[s].cur # NoBuffer
  BY DEF TypeOK, FramesFit, Fits, Refers
<1>2. \A b \in Buffer : FrameUses(frame[s], b) <= refs[b] /\ refs[b] \in Nat
                         /\ FrameUses(frame[s], b) \in Nat
  BY UsesNat, SMTT(30) DEF TypeOK, LocksExact
<1>3. \A b \in Buffer : b \in {frame[s].cur, frame[s].last} => FrameUses(frame[s], b) >= 1
  BY DEF FrameUses
<1> QED BY <1>1, <1>2, <1>3 DEF Frames

\* Without locks nothing is on its way to the view creator.
LEMMA NoLocks ==
  ASSUME TypeOK, FramesFit, LocksExact, \A b \in Buffer : ~(refs[b] > 0)
  PROVE  ~frame["queued"].is /\ ~frame["creating"].is
<1>1. \A s \in Stage : ~frame[s].open
  BY FrameLocks
<1> QED BY <1>1 DEF FramesFit, Fits, Stage

\* What dropping a reference leaves alone keeps its type.
LEMMA UnrefTypes ==
  ASSUME TypeOK, refs' \in [Buffer -> Nat], draining' \in BOOLEAN,
         unrefs' \in Seq(Reference), held' \in [Buffer -> Int],
         UNCHANGED <<phase, pools, kind, registered, removing, info, forceReset, context,
                     gate, resetPending, resets>>,
         UNCHANGED <<pending, last, marked, frame, armed, slots>>
  PROVE  TypeOK'
BY SMTT(30) DEF TypeOK

\* Queuing and dequeuing keep counts integers.
LEMMA CountTypes ==
  ASSUME NEW c \in [Buffer -> Int], NEW b \in Buffer \cup {NoBuffer}
  PROVE  Released(c, b) \in [Buffer -> Int] /\ Referenced(c, b) \in [Buffer -> Int]
BY DEF Released, Referenced

--------------------------------------------------------------------------------
(* Inv, step by step. *)

\* The steps that move no frame and drop no reference.
Still ==
  \/ ParamChanged \/ Finalize \/ Removal
  \/ \E b \in Buffer : AddBuffer(b)
  \/ \E batch \in Batches({b \in registered : held[b] = 0}) : Process(batch)
  \/ RenderNothing
  \/ \E n \in 0 .. MaxSlots : UpdateTotalFrameSlots(n)
  \/ Inhibit \/ Uninhibit \/ ResetProtocol

LEMMA StillFrames == Still => UNCHANGED <<frame, unrefs, refs>>
BY DEF Still, ParamChanged, Finalize, Removal, RemoveBuffer, EnsureUnlocked, MarkForRemoval,
   DropBuffer, AddBuffer, Process, RenderNothing, UpdateTotalFrameSlots, Inhibit, Uninhibit,
   ResetProtocol, bufferVars, frameVars

\* Next, flat.
LEMMA StepCases ==
  ASSUME [Next]_vars
  PROVE  \/ Still \/ RenderFrame \/ UpgradeFrame \/ UnrefObject
         \/ PickUp \/ ViewCreated \/ StartEncoding \/ Undamaged \/ Encoded
         \/ UNCHANGED vars
BY DEF Next, Still, Render, Pipeline

\* The main thread, PipeWire's thread and the gates keep Inv.
LEMMA StreamStep ==
  ASSUME Inv, UNCHANGED <<frame, unrefs, refs>>
  PROVE  Still => Inv'
<1> USE SurfaceRendererAssumption
<1>1. FramesFit' /\ LocksExact' /\ (Used' = Used)
  BY DEF Inv, FramesFit, LocksExact, Fits, Used
<1>2. Used \in Int
  <2>1. frame \in [Stage -> Frames]
    BY DEF Inv, TypeOK
  <2> QED BY <2>1, UsedCount DEF Used, Bit
<1>3. CASE ParamChanged
  <2>1. TypeOK'
    BY <1>3 DEF Inv, TypeOK, ParamChanged, bufferVars, frameVars, contextVars
  <2>2. PoolInv'
    BY <1>3 DEF Inv, PoolInv, RemovalInStep, NeededRegistered, Needed, PoolClean,
       ResetShowsNothing, NoLostTrigger, ParamChanged, bufferVars, frameVars, contextVars
  <2> QED BY <1>1, <2>1, <2>2 DEF Inv
<1>4. CASE Finalize
  <2>1. TypeOK'
    BY <1>4 DEF Inv, TypeOK, Finalize, bufferVars, frameVars, contextVars, gateVars
  <2>2. PoolInv'
    BY <1>4 DEF Inv, PoolInv, RemovalInStep, NeededRegistered, Needed, PoolClean,
       ResetShowsNothing, NoLostTrigger, Finalize, bufferVars, frameVars, contextVars, gateVars
  <2> QED BY <1>1, <2>1, <2>2 DEF Inv
<1>5. ASSUME NEW b \in Buffer, RemoveBuffer(b)
      PROVE  Inv'
  <2>1. TypeOK'
    <3>1. removing' \in [buffer : Buffer \cup {NoBuffer}, release : BOOLEAN,
                         step : {"none", "ensure", "mark", "drop"}]
      BY <1>5 DEF RemoveBuffer
    <3>2. UNCHANGED <<phase, pools, kind, registered, bufferVars, frameVars, armed, slots,
                      contextVars, gateVars>>
      BY <1>5 DEF RemoveBuffer
    <3> QED BY <3>1, <3>2 DEF Inv, TypeOK, bufferVars, frameVars, contextVars, gateVars
  <2>2. PoolInv'
    BY <1>5 DEF Inv, PoolInv, RemovalInStep, NeededRegistered, Needed, PoolClean, NoRemoval,
       ResetShowsNothing, NoLostTrigger, RemoveBuffer, bufferVars, frameVars, contextVars, gateVars
  <2> QED BY <1>1, <2>1, <2>2 DEF Inv
<1>6. CASE EnsureUnlocked
  <2>1. TypeOK'
    <3>1. removing' \in [buffer : Buffer \cup {NoBuffer}, release : BOOLEAN,
                         step : {"none", "ensure", "mark", "drop"}]
      BY <1>6 DEF Inv, TypeOK, EnsureUnlocked
    <3>2. UNCHANGED <<phase, pools, kind, registered, bufferVars, frameVars, armed, slots,
                      contextVars, gateVars>>
      BY <1>6 DEF EnsureUnlocked
    <3> QED BY <3>1, <3>2 DEF Inv, TypeOK, bufferVars, frameVars, contextVars, gateVars
  <2>2. PoolInv'
    BY <1>6 DEF Inv, TypeOK, PoolInv, RemovalInStep, NeededRegistered, Needed, PoolClean,
       ResetShowsNothing, NoLostTrigger, EnsureUnlocked, bufferVars, frameVars, contextVars,
       gateVars
  <2> QED BY <1>1, <2>1, <2>2 DEF Inv
<1>7. CASE MarkForRemoval
  <2>1. TypeOK'
    <3>1. removing' \in [buffer : Buffer \cup {NoBuffer}, release : BOOLEAN,
                         step : {"none", "ensure", "mark", "drop"}]
      <4>1. removing' = [removing EXCEPT !.step = "drop",
                                         !.release = removing.buffer \in {pending, last}]
        BY <1>7 DEF MarkForRemoval
      <4>2. (removing.buffer \in {pending, last}) \in BOOLEAN
        OBVIOUS
      <4> QED BY <4>1, <4>2 DEF Inv, TypeOK
    <3>2. UNCHANGED <<phase, pools, kind, registered, held, refs, frameVars, armed, slots,
                      contextVars, gateVars>>
      BY <1>7 DEF MarkForRemoval
    <3>3. pending' \in Buffer \cup {NoBuffer} /\ last' \in Buffer \cup {NoBuffer}
      BY <1>7 DEF MarkForRemoval, Inv, TypeOK
    <3>4. marked' \subseteq Buffer
      BY <1>7 DEF MarkForRemoval, Inv, TypeOK, PoolInv, RemovalInStep
    <3> QED BY <3>1, <3>2, <3>3, <3>4, SMTT(30) DEF Inv, TypeOK, frameVars, contextVars, gateVars
  <2>2. PoolInv'
    BY <1>7 DEF Inv, TypeOK, PoolInv, RemovalInStep, NeededRegistered, Needed, PoolClean,
       ResetShowsNothing, NoLostTrigger, MarkForRemoval, frameVars, contextVars, gateVars
  <2> QED BY <1>1, <2>1, <2>2 DEF Inv
<1>8. CASE DropBuffer
  <2>1. TypeOK'
    <3>1. removing' \in [buffer : Buffer \cup {NoBuffer}, release : BOOLEAN,
                         step : {"none", "ensure", "mark", "drop"}]
      BY <1>8 DEF DropBuffer, NoRemoval
    <3>2. held' \in [Buffer -> Int]
      <4>1. held' = [held EXCEPT ![removing.buffer] = 0]
        BY <1>8 DEF DropBuffer
      <4>2. removing.buffer \in Buffer /\ held \in [Buffer -> Int]
        BY <1>8 DEF DropBuffer, Inv, TypeOK, PoolInv, RemovalInStep
      <4> QED BY <4>1, <4>2
    <3>3. UNCHANGED <<pools, kind, pending, last, refs, frameVars, armed, slots,
                      contextVars, gateVars>>
      BY <1>8 DEF DropBuffer
    <3>4. /\ registered' \subseteq registered /\ marked' \subseteq marked
          /\ phase' \in {phase, "adding", "closed"}
      BY <1>8 DEF DropBuffer
    <3> QED BY <3>1, <3>2, <3>3, <3>4, SMTT(30) DEF Inv, TypeOK, frameVars, contextVars, gateVars
  <2> DEFINE b == removing.buffer
  <2>2. /\ removing.step = "drop" /\ refs[b] \in Nat /\ ~(refs[b] > 0)
        /\ removing' = NoRemoval /\ registered' = registered \ {b} /\ marked' = marked \ {b}
        /\ b \in registered /\ marked = {b} /\ pending # b /\ last # b
        /\ phase \in {"clearing", "closing"}
        /\ phase' = IF registered' # {} THEN phase
                    ELSE IF phase = "clearing" THEN "adding" ELSE "closed"
        /\ UNCHANGED <<pending, last, refs, frame, slots, armed, gate, resetPending>>
    BY <1>8 DEF DropBuffer, Inv, TypeOK, PoolInv, RemovalInStep, Locked, frameVars, gateVars
  <2>3. RemovalInStep'
    BY <2>2 DEF RemovalInStep, NoRemoval
  <2>4. NeededRegistered'
    BY <2>2 DEF Inv, PoolInv, NeededRegistered, Needed
  <2>5. PoolClean'
    BY <2>2, <2>4 DEF PoolClean, NeededRegistered
  <2>6. ResetShowsNothing'
    <3>1. CASE phase' = "adding"
      <4>1. pending = NoBuffer /\ last = NoBuffer /\ \A c \in Buffer : ~(refs[c] > 0)
        BY <2>2, <2>5, <3>1 DEF PoolClean, Needed, Inv, TypeOK
      <4>2. ~frame["queued"].is
        BY <4>1, NoLocks DEF Inv
      <4> QED BY <2>2, <4>1, <4>2 DEF ResetShowsNothing
    <3> QED BY <2>2, <3>1 DEF ResetShowsNothing
  <2>7. NoLostTrigger'
    BY <2>2 DEF NoLostTrigger
  <2>8. PoolInv'
    BY <2>3, <2>4, <2>5, <2>6, <2>7 DEF PoolInv
  <2> QED BY <1>1, <2>1, <2>8 DEF Inv
<1>9. ASSUME NEW b \in Buffer, AddBuffer(b)
      PROVE  Inv'
  <2>1. TypeOK'
    <3>1. UNCHANGED <<pools, kind, removing, bufferVars, frameVars, armed, slots, context,
                      gateVars>>
      BY <1>9 DEF AddBuffer
    <3>2. registered' \subseteq Buffer /\ forceReset' \in BOOLEAN /\ info' \in {kind, info}
      BY <1>9 DEF AddBuffer, Inv, TypeOK
    <3>3. phase' \in {"streaming", "adding"}
      BY <1>9 DEF AddBuffer
    <3> QED BY <3>1, <3>2, <3>3 DEF Inv, TypeOK, bufferVars, frameVars, gateVars
  <2>2. PoolInv'
    BY <1>9, <1>1 DEF Inv, TypeOK, PoolInv, RemovalInStep, NeededRegistered, Needed, PoolClean,
       ResetShowsNothing, NoLostTrigger, AddBuffer, bufferVars, frameVars, gateVars
  <2> QED BY <1>1, <2>1, <2>2 DEF Inv
<1>10. ASSUME NEW batch \in Batches({b \in registered : held[b] = 0}), Process(batch)
       PROVE  Inv'
  <2>1. \/ UNCHANGED <<held, pending, armed>>
        \/ \E b \in registered :
             /\ held[b] = 0
             /\ pending' = b /\ armed' = TRUE
             /\ held' = Released([held EXCEPT ![b] = 1], pending)
    BY <1>10, ProcessEffect DEF Inv
  <2>2. phase = "streaming"
        /\ UNCHANGED <<streamVars, last, marked, refs, frameVars, slots, contextVars, gateVars>>
    BY <1>10 DEF Process
  <2>3. TypeOK'
    <3>1. held' \in [Buffer -> Int]
      <4>1. held \in [Buffer -> Int]
        BY DEF Inv, TypeOK
      <4>2. \A b \in Buffer : [held EXCEPT ![b] = 1] \in [Buffer -> Int]
        BY <4>1
      <4>3. registered \subseteq Buffer /\ pending \in Buffer \cup {NoBuffer}
        BY DEF Inv, TypeOK
      <4>4. CASE held' = held
        BY <4>1, <4>4
      <4>5. ASSUME NEW b \in registered, held' = Released([held EXCEPT ![b] = 1], pending)
            PROVE  held' \in [Buffer -> Int]
        BY <4>2, <4>3, <4>5, CountTypes
      <4> QED BY <2>1, <4>4, <4>5
    <3>2. pending' \in Buffer \cup {NoBuffer} /\ armed' \in BOOLEAN
      BY <2>1 DEF Inv, TypeOK
    <3> QED BY <2>2, <3>1, <3>2, SMTT(30) DEF Inv, TypeOK, streamVars, frameVars, contextVars, gateVars
  <2>4. PoolInv'
    BY <1>1, <2>1, <2>2 DEF Inv, TypeOK, PoolInv, RemovalInStep, NeededRegistered, Needed,
       PoolClean,
       ResetShowsNothing, NoLostTrigger, CanPrepare, streamVars, frameVars, contextVars, gateVars
  <2> QED BY <1>1, <2>3, <2>4 DEF Inv
<1>11. CASE RenderNothing
  <2>1. TypeOK'
    <3>1. /\ armed' \in BOOLEAN
          /\ UNCHANGED <<streamVars, bufferVars, frameVars, slots, contextVars, gateVars>>
      BY <1>11 DEF RenderNothing
    <3> QED BY <3>1 DEF Inv, TypeOK, streamVars, bufferVars, frameVars, contextVars, gateVars
  <2>2. PoolInv'
    BY <1>11, <1>1 DEF Inv, TypeOK, PoolInv, RemovalInStep, NeededRegistered, Needed, PoolClean,
       CanPrepare,
       ResetShowsNothing, NoLostTrigger, RenderNothing, streamVars, bufferVars, frameVars,
       contextVars, gateVars
  <2> QED BY <1>1, <2>1, <2>2 DEF Inv
<1>12. ASSUME NEW n \in 0 .. MaxSlots, UpdateTotalFrameSlots(n)
      PROVE  Inv'
  <2>1. TypeOK'
    <3>1. UNCHANGED <<streamVars, bufferVars, frameVars, contextVars, gateVars>>
      BY <1>12 DEF UpdateTotalFrameSlots
    <3>2. slots' \in 0 .. MaxSlots /\ armed' \in BOOLEAN
      BY <1>12 DEF UpdateTotalFrameSlots
    <3> QED BY <3>1, <3>2 DEF Inv, TypeOK, streamVars, bufferVars, frameVars, contextVars, gateVars
  <2>2. NoLostTrigger'
    <3>1. /\ n \in Int /\ slots \in Int /\ slots' = n /\ armed' = (armed \/ n > slots)
          /\ armed \in BOOLEAN
          /\ UNCHANGED <<phase, pending, gate>>
      BY <1>12 DEF UpdateTotalFrameSlots, Inv, TypeOK, streamVars, bufferVars, gateVars
    <3>2. CASE n > slots
      BY <3>1, <3>2 DEF NoLostTrigger
    <3>3. CASE ~(n > slots)
      BY <1>1, <1>2, <3>1, <3>3 DEF NoLostTrigger, CanPrepare, Inv, PoolInv
    <3> QED BY <3>2, <3>3
  <2>3. PoolInv'
    BY <1>12, <2>2 DEF Inv, PoolInv, RemovalInStep, NeededRegistered, Needed, PoolClean,
       ResetShowsNothing, UpdateTotalFrameSlots, streamVars, bufferVars, frameVars, gateVars
  <2> QED BY <1>1, <2>1, <2>3 DEF Inv
<1>13. CASE Inhibit
  <2>1. TypeOK'
    BY <1>13 DEF Inv, TypeOK, Inhibit, streamVars, bufferVars, frameVars, contextVars
  <2>2. PoolInv'
    BY <1>13 DEF Inv, TypeOK, PoolInv, RemovalInStep, NeededRegistered, Needed, PoolClean,
       ResetShowsNothing, NoLostTrigger, Inhibit, streamVars, bufferVars, frameVars, contextVars
  <2> QED BY <1>1, <2>1, <2>2 DEF Inv
<1>14. CASE Uninhibit
  <2>1. TypeOK'
    BY <1>14 DEF Inv, TypeOK, Uninhibit, streamVars, bufferVars, frameVars, contextVars
  <2>2. PoolInv'
    BY <1>14 DEF Inv, TypeOK, PoolInv, RemovalInStep, NeededRegistered, Needed, PoolClean,
       ResetShowsNothing, NoLostTrigger, Uninhibit, streamVars, bufferVars, frameVars, contextVars
  <2> QED BY <1>1, <2>1, <2>2 DEF Inv
<1>15. CASE ResetProtocol
  <2>1. TypeOK'
    BY <1>15 DEF Inv, TypeOK, ResetProtocol, Invalidate, Released, streamVars, frameVars
  <2>2. PoolInv'
    BY <1>15 DEF Inv, TypeOK, PoolInv, RemovalInStep, NeededRegistered, Needed, PoolClean,
       ResetShowsNothing, NoLostTrigger, ResetProtocol, Invalidate, Idle, Stage, streamVars,
       frameVars
  <2> QED BY <1>1, <2>1, <2>2 DEF Inv
<1> QED BY <1>3, <1>4, <1>5, <1>6, <1>7, <1>8, <1>9, <1>10, <1>11, <1>12, <1>13, <1>14, <1>15
        DEF Still, Removal

\* What Inv says of the types, for the steps below.
LEMMA Shape ==
  ASSUME Inv
  PROVE  /\ frame \in [Stage -> Frames] /\ unrefs \in Seq(Reference)
         /\ refs \in [Buffer -> Nat] /\ held \in [Buffer -> Int]
         /\ pending \in Buffer \cup {NoBuffer} /\ last \in Buffer \cup {NoBuffer}
         /\ slots \in Int /\ armed \in BOOLEAN /\ registered \subseteq Buffer
         /\ Used = Bit(frame["creating"]) + Bit(frame["viewed"]) + Bit(frame["encoding"])
         /\ \A s \in Stage : frame[s] \in Frames /\ Refers(frame[s])
<1>1. frame \in [Stage -> Frames]
  BY DEF Inv, TypeOK
<1>2. Used = Bit(frame["creating"]) + Bit(frame["viewed"]) + Bit(frame["encoding"])
  BY <1>1, UsedCount DEF Used
<1>3. \A s \in Stage : frame[s] \in Frames /\ Refers(frame[s])
  BY <1>1 DEF Inv, FramesFit, Fits
<1> QED BY <1>1, <1>2, <1>3 DEF Inv, TypeOK

\* A new frame is what its stage asks for.
LEMMA NewFrameFits ==
  ASSUME NEW c \in Buffer \cup {NoBuffer}, NEW l \in Buffer \cup {NoBuffer}
  PROVE  /\ NewFrame(c, l) \in Frames /\ Refers(NewFrame(c, l)) /\ NewFrame(c, l).is
         /\ NewFrame(c, l).open <=> c # NoBuffer
         /\ NewFrame(c, l).cur = c /\ NewFrame(c, l).last = l
BY DEF NewFrame, Frames, Refers

\* A frame that is picked up takes its references along, and shows its buffer.
LEMMA PickUpStep ==
  ASSUME Inv, PickUp
  PROVE  Inv'
<1> DEFINE f == frame["queued"]
<1>1. /\ f.is /\ ~frame["creating"].is /\ ~frame["viewed"].is
      /\ frame' = [frame EXCEPT !["queued"] = NoFrame, !["creating"] = f]
      /\ last' = IF f.cur \in marked THEN NoBuffer ELSE f.cur
      /\ UNCHANGED <<streamVars, held, pending, marked, refs, unrefs, draining, armed, slots,
                     contextVars, gateVars>>
  BY DEF PickUp
<1>2. /\ frame \in [Stage -> Frames] /\ f \in Frames /\ f.open
      /\ frame["creating"] = NoFrame /\ NoFrame \in Frames
  BY <1>1, Shape DEF Inv, FramesFit, Fits, Stage, NoFrame, Frames
<1>3. /\ frame' \in [Stage -> Frames] /\ frame'["queued"] = NoFrame /\ frame'["creating"] = f
      /\ frame'["viewed"] = frame["viewed"] /\ frame'["encoding"] = frame["encoding"]
  BY <1>1, <1>2 DEF Stage
<1>4. FramesFit'
  <2>1. ~NoFrame.is /\ ~NoFrame.open
    BY DEF NoFrame
  <2> QED BY <1>1, <1>2, <1>3, <2>1 DEF Inv, FramesFit, Fits, Refers, Stage
<1>5. LocksExact'
  <2>1. \A b \in Buffer : Uses(frame', unrefs, b) = Uses(frame, unrefs, b)
    <3>1. \A b \in Buffer : FrameUses(NoFrame, b) = 0
      BY DEF FrameUses, NoFrame
    <3>2. \A b \in Buffer : FrameUses(f, b) \in Nat /\ FrameUses(frame["viewed"], b) \in Nat
                             /\ FrameUses(frame["encoding"], b) \in Nat
      BY DEF FrameUses
    <3> HIDE DEF f
    <3>3. \A b \in Buffer : Count(unrefs, b) \in Nat
      BY Shape, ReturnsFinite
    <3>4. frame["queued"] = f
      BY DEF f
    <3> QED BY <1>2, <1>3, <3>1, <3>2, <3>3, <3>4 DEF Uses
  <2> QED BY <1>1, <2>1 DEF Inv, LocksExact
<1>6. f.cur \in Buffer /\ refs[f.cur] > 0
  BY <1>2, FrameLocks DEF Inv, Stage
<1>7. TypeOK'
  <2>1. last' \in Buffer \cup {NoBuffer}
    BY <1>1, <1>6
  <2>2. UNCHANGED <<streamVars, held, pending, marked, refs, unrefs, draining, armed, slots,
                    contextVars, gateVars>>
    BY <1>1
  <2> QED BY <1>3, <2>1, <2>2 DEF Inv, TypeOK, streamVars, contextVars, gateVars
<1>8. Used' = Used + 1
  <2>1. Used' = Bit(f) + Bit(frame["viewed"]) + Bit(frame["encoding"])
    BY <1>3, UsedCount DEF Used
  <2>2. Used = Bit(frame["creating"]) + Bit(frame["viewed"]) + Bit(frame["encoding"])
    BY Shape
  <2> QED BY <1>1, <2>1, <2>2 DEF Bit
<1>9. PoolInv'
  <2>0. Used \in Int
    BY Shape DEF Bit
  <2>1. RemovalInStep'
    BY <1>1, SurfaceRendererAssumption DEF Inv, TypeOK, PoolInv, RemovalInStep, streamVars
  <2>2. NeededRegistered' /\ PoolClean'
    <3>1. \A b \in Buffer : Needed(b)' => Needed(b) \/ b = f.cur
      BY <1>1, SurfaceRendererAssumption DEF Needed
    <3>2. Needed(f.cur)
      BY <1>6 DEF Needed
    <3>3. UNCHANGED <<phase, registered>>
      BY <1>1 DEF streamVars
    <3> QED BY <1>6, <3>1, <3>2, <3>3 DEF Inv, PoolInv, NeededRegistered, PoolClean
  <2>3. ResetShowsNothing'
    BY <1>1 DEF Inv, PoolInv, ResetShowsNothing, streamVars, gateVars
  <2>4. NoLostTrigger'
    BY <1>1, <1>8, <2>0, Shape DEF Inv, PoolInv, NoLostTrigger, CanPrepare, streamVars, gateVars
  <2> QED BY <2>1, <2>2, <2>3, <2>4 DEF PoolInv
<1> QED BY <1>4, <1>5, <1>7, <1>9 DEF Inv

\* What a step that shows and replaces no buffer has to keep.
LEMMA PoolKept ==
  ASSUME Inv, UNCHANGED <<streamVars, pending, last, marked, slots, gateVars>>,
         \A b \in Buffer : refs'[b] > 0 => refs[b] > 0,
         frame'["queued"].is => frame["queued"].is,
         armed' \/ (armed' = armed /\ Used' \in Int /\ Used <= Used')
  PROVE  PoolInv'
<1>1. UNCHANGED <<phase, pools, kind, registered, removing, gate, resetPending>>
  BY DEF streamVars, gateVars
<1>2. \A b \in Buffer : Needed(b)' => Needed(b)
  BY DEF Needed
<1>3. RemovalInStep'
  BY <1>1 DEF Inv, PoolInv, RemovalInStep
<1>4. NeededRegistered' /\ PoolClean'
  BY <1>1, <1>2 DEF Inv, PoolInv, NeededRegistered, PoolClean
<1>5. ResetShowsNothing'
  BY <1>1 DEF Inv, PoolInv, ResetShowsNothing
<1>6. NoLostTrigger'
  <2>1. Used \in Int /\ slots \in Int /\ armed \in BOOLEAN
    BY Shape DEF Bit
  <2> QED BY <1>1, <2>1 DEF Inv, PoolInv, NoLostTrigger, CanPrepare
<1> QED BY <1>3, <1>4, <1>5, <1>6 DEF PoolInv

\* A frame has no, one or two references to a buffer.
LEMMA FrameUsesNat == ASSUME NEW f, NEW b PROVE FrameUses(f, b) \in Nat
BY DEF FrameUses

\* With the view the references are dropped or kept for the encoder, all of them.
LEMMA ViewCreatedStep ==
  ASSUME Inv, ViewCreated
  PROVE  Inv'
<1> DEFINE f == frame["creating"]
           v == [f EXCEPT !.open = MustDelay]
<1>1. /\ f.is
      /\ frame' = [frame EXCEPT !["creating"] = NoFrame, !["viewed"] = v]
      /\ unrefs' = IF MustDelay THEN unrefs ELSE unrefs \o Viewed(f)
      /\ UNCHANGED <<streamVars, bufferVars, draining, armed, slots, contextVars, gateVars>>
  BY DEF ViewCreated
<1>2. /\ frame \in [Stage -> Frames] /\ f \in Frames /\ f.open /\ f.cur # NoBuffer
      /\ frame["viewed"] = NoFrame /\ NoFrame \in Frames
  BY <1>1, Shape DEF Inv, FramesFit, Fits, Refers, Stage, NoFrame, Frames
<1>3. v \in Frames /\ Refers(v) /\ v.is /\ v.cur = f.cur /\ v.last = f.last
      /\ v.open = MustDelay /\ MustDelay \in BOOLEAN
  BY <1>1, <1>2 DEF Frames, MustDelay, Refers
<1> HIDE DEF v
<1>4. /\ frame' \in [Stage -> Frames] /\ frame'["queued"] = frame["queued"]
      /\ frame'["creating"] = NoFrame
      /\ frame'["viewed"] = v /\ frame'["encoding"] = frame["encoding"]
  BY <1>1, <1>2, <1>3 DEF Stage
<1>5. FramesFit'
  <2>1. ~NoFrame.is /\ ~NoFrame.open
    BY DEF NoFrame
  <2> QED BY <1>1, <1>3, <1>4, <2>1 DEF Inv, FramesFit, Fits, Refers, Stage
<1>6. unrefs' \in Seq(Reference)
      /\ \A b \in Buffer : FrameUses(v, b) + Count(unrefs', b) = FrameUses(f, b) + Count(unrefs, b)
  <2>1. \A b \in Buffer : Count(unrefs, b) \in Nat
    BY Shape, ReturnsFinite
  <2>2. CASE MustDelay
    <3>1. \A b \in Buffer : FrameUses(v, b) = FrameUses(f, b)
      BY <1>2, <1>3, <2>2 DEF FrameUses
    <3> QED BY <1>1, <2>2, <3>1, Shape
  <2>3. CASE ~MustDelay
    <3>1. \A b \in Buffer : FrameUses(v, b) = 0
      BY <1>3, <2>3 DEF FrameUses
    <3>2. /\ unrefs' \in Seq(Reference)
          /\ \A b \in Buffer : Count(unrefs', b) = Count(unrefs, b) + FrameUses(f, b)
      BY <1>1, <1>2, <2>3, Shape, ViewedCount
    <3> QED BY <2>1, <3>1, <3>2, FrameUsesNat
  <2> QED BY <2>2, <2>3
<1> HIDE DEF f
<1>7. LocksExact'
  <2>1. ASSUME NEW b \in Buffer
        PROVE  Uses(frame', unrefs', b) = Uses(frame, unrefs, b)
    <3>1. FrameUses(NoFrame, b) = 0
      BY DEF FrameUses, NoFrame
    <3>2. Count(unrefs, b) \in Nat /\ Count(unrefs', b) \in Nat
      BY <1>6, Shape, ReturnsFinite
    <3>3. frame["creating"] = f
      BY DEF f
    <3>4. Uses(frame, unrefs, b) = FrameUses(frame["queued"], b) + FrameUses(f, b) + 0
                                   + FrameUses(frame["encoding"], b) + Count(unrefs, b)
      BY <1>2, <3>1, <3>3 DEF Uses
    <3>5. Uses(frame', unrefs', b) = FrameUses(frame["queued"], b) + 0 + FrameUses(v, b)
                                     + FrameUses(frame["encoding"], b) + Count(unrefs', b)
      BY <1>4, <3>1 DEF Uses
    <3>6. FrameUses(v, b) + Count(unrefs', b) = FrameUses(f, b) + Count(unrefs, b)
      BY <1>6
    <3> QED BY <3>2, <3>4, <3>5, <3>6, FrameUsesNat
  <2>2. UNCHANGED refs
    BY <1>1 DEF bufferVars
  <2> QED BY <2>1, <2>2 DEF Inv, LocksExact
<1>8. TypeOK'
  <2>1. UNCHANGED <<streamVars, bufferVars, draining, armed, slots, contextVars, gateVars>>
    BY <1>1
  <2> QED BY <1>4, <1>6, <2>1 DEF Inv, TypeOK, streamVars, bufferVars, contextVars, gateVars
<1>9. Used' = Used /\ Used \in Int
  <2>1. Used' = Bit(NoFrame) + Bit(v) + Bit(frame["encoding"])
    BY <1>4, UsedCount DEF Used
  <2>2. Used = Bit(f) + Bit(NoFrame) + Bit(frame["encoding"])
    BY <1>2, Shape DEF f
  <2> QED BY <1>1, <1>3, <2>1, <2>2 DEF Bit
<1>10. PoolInv'
  <2>1. UNCHANGED <<streamVars, pending, last, marked, slots, gateVars, refs, armed>>
    BY <1>1 DEF bufferVars
  <2> QED BY <1>4, <1>9, <2>1, PoolKept
<1> QED BY <1>5, <1>7, <1>8, <1>10 DEF Inv

\* A frame that is encoded takes its references along.
LEMMA StartEncodingStep ==
  ASSUME Inv, StartEncoding
  PROVE  Inv'
<1>1. /\ frame["viewed"].is /\ ~frame["encoding"].is
      /\ frame' = [frame EXCEPT !["viewed"] = NoFrame, !["encoding"] = frame["viewed"]]
      /\ UNCHANGED <<streamVars, bufferVars, unrefs, draining, armed, slots, contextVars, gateVars>>
  BY DEF StartEncoding
<1>2. /\ frame \in [Stage -> Frames] /\ frame["encoding"] = NoFrame /\ NoFrame \in Frames
      /\ ~NoFrame.is /\ ~NoFrame.open
  BY <1>1, Shape DEF Inv, FramesFit, Fits, Stage, NoFrame, Frames
<1>3. /\ frame' \in [Stage -> Frames] /\ frame'["queued"] = frame["queued"]
      /\ frame'["creating"] = frame["creating"]
      /\ frame'["viewed"] = NoFrame /\ frame'["encoding"] = frame["viewed"]
  BY <1>1, <1>2 DEF Stage
<1>4. FramesFit'
  BY <1>1, <1>2, <1>3 DEF Inv, FramesFit, Fits, Refers, Stage
<1>5. LocksExact'
  <2>1. ASSUME NEW b \in Buffer
        PROVE  Uses(frame', unrefs, b) = Uses(frame, unrefs, b)
    <3>1. Count(unrefs, b) \in Nat
      BY Shape, ReturnsFinite
    <3> QED BY <1>2, <1>3, <3>1, FrameUsesNat DEF Uses
  <2>2. UNCHANGED <<refs, unrefs>>
    BY <1>1 DEF bufferVars
  <2> QED BY <2>1, <2>2 DEF Inv, LocksExact
<1>6. TypeOK'
  BY <1>1, <1>3, SMTT(30) DEF Inv, TypeOK, streamVars, bufferVars, contextVars, gateVars
<1>7. Used' = Used /\ Used \in Int
  <2>1. Used' = Bit(frame["creating"]) + Bit(NoFrame) + Bit(frame["viewed"])
    BY <1>3, UsedCount DEF Used
  <2>2. Used = Bit(frame["creating"]) + Bit(frame["viewed"]) + Bit(NoFrame)
    BY <1>2, Shape
  <2> QED BY <1>1, <2>1, <2>2 DEF Bit
<1>8. PoolInv'
  <2>1. UNCHANGED <<streamVars, pending, last, marked, slots, gateVars, refs, armed>>
    BY <1>1 DEF bufferVars
  <2> QED BY <1>3, <1>7, <2>1, PoolKept
<1> QED BY <1>4, <1>5, <1>6, <1>8 DEF Inv

\* A frame that is freed drops the references it still has.
LEMMA FreeStep ==
  ASSUME Inv, NEW s \in {"viewed", "encoding"}, Free(s)
  PROVE  Inv'
<1>1. /\ frame' = [frame EXCEPT ![s] = NoFrame]
      /\ unrefs' = unrefs \o Freed(frame[s])
      /\ armed' = TRUE
      /\ UNCHANGED <<streamVars, bufferVars, draining, slots, contextVars, gateVars>>
  BY DEF Free
<1>2. /\ frame \in [Stage -> Frames] /\ NoFrame \in Frames /\ ~NoFrame.is /\ ~NoFrame.open
      /\ frame[s] \in Frames /\ Refers(frame[s])
  BY SurfaceRendererAssumption, Shape DEF Stage, NoFrame, Frames
<1>3. /\ frame' \in [Stage -> Frames] /\ frame'[s] = NoFrame
      /\ \A t \in Stage : t # s => frame'[t] = frame[t]
  BY <1>1, <1>2 DEF Stage
<1>4. FramesFit'
  BY <1>2, <1>3 DEF Inv, FramesFit, Fits, Refers, Stage
<1>5. /\ unrefs' \in Seq(Reference)
      /\ \A b \in Buffer : Count(unrefs', b) = Count(unrefs, b) + FrameUses(frame[s], b)
  BY <1>1, <1>2, Shape, FreedCount
<1>6. LocksExact'
  <2>1. ASSUME NEW b \in Buffer
        PROVE  Uses(frame', unrefs', b) = Uses(frame, unrefs, b)
    <3>1. Count(unrefs, b) \in Nat
      BY Shape, ReturnsFinite
    <3>2. FrameUses(NoFrame, b) = 0
      BY DEF FrameUses, NoFrame
    <3>3. /\ frame'["queued"] = frame["queued"] /\ frame'["creating"] = frame["creating"]
          /\ s = "viewed" => frame'["viewed"] = NoFrame /\ frame'["encoding"] = frame["encoding"]
          /\ s = "encoding" => frame'["encoding"] = NoFrame /\ frame'["viewed"] = frame["viewed"]
      BY <1>3 DEF Stage
    <3>4. CASE s = "viewed"
      BY <1>5, <3>1, <3>2, <3>3, <3>4, FrameUsesNat, SMTT(30) DEF Uses
    <3>5. CASE s = "encoding"
      BY <1>5, <3>1, <3>2, <3>3, <3>5, FrameUsesNat DEF Uses
    <3> QED BY <3>4, <3>5
  <2>2. UNCHANGED refs
    BY <1>1 DEF bufferVars
  <2> QED BY <2>1, <2>2 DEF Inv, LocksExact
<1>7. TypeOK'
  BY <1>1, <1>3, <1>5, SMTT(30) DEF Inv, TypeOK, streamVars, bufferVars, contextVars, gateVars
<1>8. PoolInv'
  <2>1. UNCHANGED <<streamVars, pending, last, marked, slots, gateVars, refs>> /\ armed'
    BY <1>1 DEF bufferVars
  <2>2. frame'["queued"] = frame["queued"]
    BY <1>3 DEF Stage
  <2> QED BY <2>1, <2>2, PoolKept
<1> QED BY <1>4, <1>6, <1>7, <1>8 DEF Inv

\* A reference that is dropped is one less in the queue and in the count.
LEMMA UnrefObjectStep ==
  ASSUME Inv, UnrefObject
  PROVE  Inv'
<1> DEFINE h == Head(unrefs)
           One(b) == IF h.buffer = b THEN 1 ELSE 0
<1>1. /\ unrefs # <<>> /\ unrefs' = Tail(unrefs)
      /\ draining' = (Len(unrefs) > 1)
      /\ IF h.type = "buffer" THEN UnrefBuffer(h.buffer) ELSE UNCHANGED <<refs, held>>
      /\ UNCHANGED <<streamVars, pending, last, marked, frame, armed, slots, contextVars, gateVars>>
  BY DEF UnrefObject
<1>2. /\ unrefs' \in Seq(Reference) /\ h \in Reference
      /\ \A b \in Buffer : Count(unrefs, b) = Count(unrefs', b) + One(b)
  BY <1>1, Shape, CountTail
<1>3. FramesFit' /\ (Used' = Used) /\ Used \in Int
  BY <1>1, Shape DEF Inv, FramesFit, Fits, Used, Bit
<1>4. \A b \in Buffer :
        /\ Uses(frame, unrefs, b) = Uses(frame, unrefs', b) + One(b)
        /\ Uses(frame, unrefs', b) \in Nat
  <2> TAKE b \in Buffer
  <2>1. Count(unrefs', b) \in Nat
    BY <1>2, ReturnsFinite
  <2>2. Uses(frame, unrefs', b) \in Nat
    BY <1>2, Shape, UsesNat
  <2> QED BY <1>2, <2>1, <2>2, FrameUsesNat DEF Uses
<1>5. \A b \in Buffer : refs[b] = Uses(frame, unrefs, b)
  BY DEF Inv, LocksExact
<1>6. /\ refs' \in [Buffer -> Int] /\ held' \in [Buffer -> Int]
      /\ \A b \in Buffer : refs'[b] = refs[b] - One(b)
  <2>1. CASE h.type = "buffer"
    <3>1. h.buffer \in Buffer
      BY <1>2, <2>1 DEF Reference, Context
    <3>2. /\ refs' = [refs EXCEPT ![h.buffer] = @ - 1]
          /\ held' = Released(held, h.buffer) \/ held' = held
      BY <1>1, <2>1 DEF UnrefBuffer
    <3> HIDE DEF h
    <3>3. held' \in [Buffer -> Int]
      <4>1. held \in [Buffer -> Int]
        BY Shape
      <4> QED BY <3>1, <3>2, <4>1, CountTypes
    <3>4. refs \in [Buffer -> Nat]
      BY Shape
    <3>5. refs' \in [Buffer -> Int]
      BY <3>1, <3>2, <3>4
    <3>6. \A b \in Buffer : refs'[b] = refs[b] - One(b)
      BY <3>1, <3>2, <3>4
    <3> QED BY <3>3, <3>5, <3>6
  <2>2. CASE h.type # "buffer"
    <3>1. h.buffer \notin Buffer
      BY <1>2, <2>2, SurfaceRendererAssumption DEF Reference, Context
    <3> HIDE DEF h
    <3> QED BY <1>1, <2>2, <3>1, Shape
  <2> QED BY <2>1, <2>2
<1>0. \A b : One(b) \in {0, 1}
  OBVIOUS
<1> HIDE DEF h, One
<1>7. LocksExact'
  <2> SUFFICES ASSUME NEW b \in Buffer
               PROVE  refs'[b] = Uses(frame', unrefs', b)
    BY DEF LocksExact
  <2>1. frame' = frame
    BY <1>1
  <2> QED BY <1>0, <1>4, <1>5, <1>6, <2>1
<1>8. TypeOK'
  <2>1. refs' \in [Buffer -> Nat]
    BY <1>0, <1>4, <1>5, <1>6
  <2>2. draining' \in BOOLEAN
    BY <1>1
  <2>3. UNCHANGED <<streamVars, pending, last, marked, frame, armed, slots, contextVars, gateVars>>
    BY <1>1
  <2>4. unrefs' \in Seq(Reference) /\ held' \in [Buffer -> Int]
    BY <1>2, <1>6
  <2>5. UNCHANGED <<phase, pools, kind, registered, removing, info, forceReset, context,
                    gate, resetPending, resets>>
    BY <2>3 DEF streamVars, contextVars, gateVars
  <2>6. UNCHANGED <<pending, last, marked, frame, armed, slots>>
    BY <2>3
  <2>7. TypeOK
    BY DEF Inv
  <2> QED BY <2>1, <2>2, <2>4, <2>5, <2>6, <2>7, UnrefTypes
<1>9. PoolInv'
  <2>1. \A b \in Buffer : refs'[b] > 0 => refs[b] > 0
    <3>1. \A b \in Buffer : refs[b] \in Int
      BY Shape
    <3> QED BY <1>0, <1>6, <3>1
  <2>2. UNCHANGED <<streamVars, pending, last, marked, slots, gateVars, frame, armed>>
    BY <1>1
  <2> QED BY <1>3, <2>1, <2>2, PoolKept
<1> QED BY <1>3, <1>7, <1>8, <1>9 DEF Inv

\* An upgrade refers to no buffer.
LEMMA UpgradeFrameStep ==
  ASSUME Inv, UpgradeFrame
  PROVE  Inv'
<1>1. /\ pending = NoBuffer /\ Used = 0 /\ gate = "open"
      /\ UNCHANGED <<streamVars, marked, refs, unrefs, draining, armed, slots, info,
                     forceReset, gate, resets>>
  BY DEF UpgradeFrame
<1>2. CASE resetPending /\ resetPending' = FALSE /\ context' = "none" /\ Invalidate
           /\ UNCHANGED frame
  <2>1. FramesFit' /\ LocksExact' /\ (Used' = Used)
    BY <1>1, <1>2 DEF Inv, FramesFit, LocksExact, Fits, Used
  <2>2. pending' = last /\ last' = NoBuffer /\ held' = held
    BY <1>1, <1>2 DEF Invalidate
  <2>3. TypeOK'
    <3>1. /\ resetPending' \in BOOLEAN /\ context' \in Kinds \cup {"none"}
          /\ pending' \in Buffer \cup {NoBuffer} /\ last' \in Buffer \cup {NoBuffer}
      BY <1>2, <2>2, Shape
    <3>2. UNCHANGED <<streamVars, held, marked, refs, frame, unrefs, draining, armed, slots, info,
                      forceReset, gate, resets>>
      BY <1>1, <1>2, <2>2
    <3> QED BY <3>1, <3>2, SMTT(30) DEF Inv, TypeOK, streamVars
  <2>4. PoolInv'
    <3>1. RemovalInStep'
      BY <1>1, <2>2, SurfaceRendererAssumption
         DEF Inv, TypeOK, PoolInv, RemovalInStep, streamVars
    <3>2. \A b \in Buffer : Needed(b)' => Needed(b)
      BY <1>1, <2>2, SurfaceRendererAssumption DEF Needed
    <3>3. NeededRegistered' /\ PoolClean'
      BY <1>1, <3>2 DEF Inv, PoolInv, NeededRegistered, PoolClean, streamVars
    <3>4. ResetShowsNothing'
      BY <1>1, <1>2, <2>2 DEF Inv, PoolInv, ResetShowsNothing, streamVars
    <3>5. NoLostTrigger'
      BY <1>1, <1>2, <2>2 DEF Inv, PoolInv, ResetShowsNothing, NoLostTrigger, streamVars
    <3> QED BY <3>1, <3>3, <3>4, <3>5 DEF PoolInv
  <2> QED BY <2>1, <2>3, <2>4 DEF Inv
<1>3. CASE /\ ~resetPending
           /\ frame' = [frame EXCEPT !["viewed"] = NewFrame(NoBuffer, NoBuffer)]
           /\ UNCHANGED <<resetPending, context, held, pending, last>>
  <2> DEFINE u == NewFrame(NoBuffer, NoBuffer)
  <2>1. u \in Frames /\ Refers(u) /\ u.is /\ ~u.open /\ \A b : FrameUses(u, b) = 0
    <3>1. u \in Frames /\ Refers(u) /\ u.is /\ ~u.open
      BY NewFrameFits
    <3> HIDE DEF u
    <3> QED BY <3>1 DEF FrameUses
  <2>2. ~frame["creating"].is /\ ~frame["viewed"].is
    BY <1>1, Shape DEF Bit
  <2>3. frame["viewed"] = NoFrame /\ \A b : FrameUses(NoFrame, b) = 0
    BY <2>2 DEF Inv, FramesFit, Fits, Stage, FrameUses, NoFrame
  <2> HIDE DEF u
  <2>4. /\ frame' \in [Stage -> Frames] /\ frame'["viewed"] = u
        /\ \A s \in Stage \ {"viewed"} : frame'[s] = frame[s]
    BY <1>3, <2>1, Shape DEF u, Stage
  <2>5. FramesFit'
    BY <2>1, <2>2, <2>4 DEF Inv, FramesFit, Fits, Stage
  <2>6. LocksExact'
    <3>1. \A b \in Buffer : Uses(frame', unrefs, b) = Uses(frame, unrefs, b)
      BY <2>1, <2>3, <2>4 DEF Uses, Stage
    <3> QED BY <1>1, <3>1 DEF Inv, LocksExact
  <2>7. TypeOK'
    BY <1>1, <1>3, <2>4 DEF Inv, TypeOK, streamVars
  <2>8. Used' \in Int /\ Used <= Used'
    <3>1. Used' = Bit(frame'["creating"]) + Bit(frame'["viewed"]) + Bit(frame'["encoding"])
      BY <2>4, UsedCount DEF Used
    <3> QED BY <1>1, <3>1 DEF Bit
  <2>9. PoolInv'
    <3>1. UNCHANGED <<streamVars, pending, last, marked, slots, gateVars, refs, armed>>
      BY <1>1, <1>3 DEF gateVars
    <3>2. frame'["queued"] = frame["queued"]
      BY <2>4 DEF Stage
    <3> QED BY <2>8, <3>1, <3>2, PoolKept
  <2> QED BY <2>5, <2>6, <2>7, <2>9 DEF Inv
<1> QED BY <1>2, <1>3 DEF UpgradeFrame

\* What maybe_render_frame does to the buffers.
LEMMA RenderFrameEffect ==
  ASSUME Inv, RenderFrame
  PROVE  \E previous \in Buffer \cup {NoBuffer} :
           /\ previous = IF resetPending THEN NoBuffer ELSE last
           /\ frame' = [frame EXCEPT !["queued"] = NewFrame(pending, previous)]
           /\ refs' = Referenced(Referenced(refs, pending), previous)
           /\ last' = previous
           /\ pending \in Buffer /\ pending \in registered
           /\ previous # NoBuffer => previous \in registered
           /\ held' = IF resetPending THEN Released(held, last) ELSE held
           /\ pending' = NoBuffer
           /\ unrefs' = unrefs \o Freed(frame["queued"])
           /\ armed' = frame["queued"].is
           /\ resetPending' = FALSE
           /\ gate = "open"
           /\ UNCHANGED <<streamVars, marked, draining, slots, info, gate, resets>>
<1>1. pending \in Buffer /\ pending \in registered
  BY Shape DEF RenderFrame, Inv, PoolInv, NeededRegistered, Needed
<1>2. last # NoBuffer => last \in Buffer /\ last \in registered
  BY Shape DEF Inv, PoolInv, NeededRegistered, Needed
<1>3. PICK previous \in {IF resetPending THEN NoBuffer ELSE last} :
        /\ frame' = [frame EXCEPT !["queued"] = NewFrame(pending, previous)]
        /\ refs' = Referenced(Referenced(refs, pending), previous)
        /\ last' = previous
  BY DEF RenderFrame
<1>4. /\ held' = IF resetPending THEN Released(held, last) ELSE held
      /\ pending' = NoBuffer
      /\ unrefs' = unrefs \o Freed(frame["queued"])
      /\ armed' = frame["queued"].is
      /\ resetPending' = FALSE
      /\ gate = "open"
      /\ UNCHANGED <<streamVars, marked, draining, slots, info, gate, resets>>
  BY DEF RenderFrame
<1>5. previous \in Buffer \cup {NoBuffer} /\ (previous # NoBuffer => previous \in registered)
  BY <1>2
<1> QED BY <1>1, <1>3, <1>4, <1>5

\* A frame that is rendered gets its references, the one it replaces drops its own.
LEMMA RenderFrameStep ==
  ASSUME Inv, RenderFrame
  PROVE  Inv'
<1> DEFINE q == frame["queued"]
<1>1. PICK previous \in Buffer \cup {NoBuffer} :
           /\ previous = IF resetPending THEN NoBuffer ELSE last
           /\ frame' = [frame EXCEPT !["queued"] = NewFrame(pending, previous)]
           /\ refs' = Referenced(Referenced(refs, pending), previous)
           /\ last' = previous
           /\ pending \in Buffer /\ pending \in registered
           /\ previous # NoBuffer => previous \in registered
           /\ held' = IF resetPending THEN Released(held, last) ELSE held
           /\ pending' = NoBuffer
           /\ unrefs' = unrefs \o Freed(q)
           /\ armed' = q.is
           /\ resetPending' = FALSE
           /\ gate = "open"
           /\ UNCHANGED <<streamVars, marked, draining, slots, info, gate, resets>>
  BY RenderFrameEffect
<1> DEFINE n == NewFrame(pending, previous)
<1>2. /\ n \in Frames /\ Refers(n) /\ n.is /\ n.open /\ n.cur = pending /\ n.last = previous
      /\ NoBuffer \notin Buffer
  BY <1>1, NewFrameFits, SurfaceRendererAssumption
<1> HIDE DEF n
<1>3. /\ frame' \in [Stage -> Frames] /\ frame'["queued"] = n
      /\ \A s \in Stage \ {"queued"} : frame'[s] = frame[s]
  BY <1>1, <1>2, Shape DEF n, Stage
<1>4. FramesFit'
  BY <1>2, <1>3 DEF Inv, FramesFit, Fits, Stage
<1>5. /\ unrefs' \in Seq(Reference)
      /\ \A b \in Buffer : Count(unrefs', b) = Count(unrefs, b) + FrameUses(q, b)
  <2>1. q \in Frames /\ Refers(q) /\ unrefs \in Seq(Reference)
    BY Shape DEF Stage
  <2> QED BY <1>1, <2>1, FreedCount
<1> HIDE DEF q
<1>6. refs' \in [Buffer -> Nat] /\ \A b \in Buffer : refs'[b] = refs[b] + FrameUses(n, b)
  <2>1. \A b \in Buffer : FrameUses(n, b) = (IF b = pending THEN 1 ELSE 0)
                                             + (IF b = previous THEN 1 ELSE 0)
    BY <1>2 DEF FrameUses
  <2>2. refs \in [Buffer -> Nat]
    BY Shape
  <2> DEFINE r == [refs EXCEPT ![pending] = @ + 1]
  <2>3. /\ r \in [Buffer -> Nat]
        /\ \A b \in Buffer : r[b] = refs[b] + (IF b = pending THEN 1 ELSE 0)
    BY <1>1, <2>2
  <2>4. Referenced(refs, pending) = r
    BY <1>1, <1>2 DEF Referenced
  <2> HIDE DEF r
  <2>5. refs' = Referenced(r, previous)
    BY <1>1, <2>4
  <2>6. CASE previous = NoBuffer
    <3>1. refs' = r
      BY <2>5, <2>6 DEF Referenced
    <3>2. \A b \in Buffer : FrameUses(n, b) = IF b = pending THEN 1 ELSE 0
      BY <1>2, <2>1, <2>6
    <3> QED BY <2>3, <3>1, <3>2
  <2>7. CASE previous # NoBuffer
    <3>1. refs' = [r EXCEPT ![previous] = @ + 1] /\ previous \in Buffer
      BY <2>5, <2>7 DEF Referenced
    <3>2. refs' \in [Buffer -> Nat]
      BY <2>3, <3>1
    <3>3. \A b \in Buffer : refs'[b] = r[b] + (IF b = previous THEN 1 ELSE 0)
      BY <2>3, <3>1
    <3> QED BY <2>1, <2>2, <2>3, <3>2, <3>3
  <2> QED BY <2>6, <2>7
<1>7. LocksExact'
  <2> SUFFICES ASSUME NEW b \in Buffer
               PROVE  refs'[b] = Uses(frame', unrefs', b)
    BY DEF LocksExact
  <2>1. /\ Count(unrefs, b) \in Nat
        /\ Count(unrefs', b) = Count(unrefs, b) + FrameUses(q, b)
    BY <1>5, Shape, ReturnsFinite
  <2>2. refs[b] = FrameUses(q, b) + FrameUses(frame["creating"], b)
                  + FrameUses(frame["viewed"], b) + FrameUses(frame["encoding"], b)
                  + Count(unrefs, b)
    BY DEF Inv, LocksExact, Uses, q
  <2>3. Uses(frame', unrefs', b)
        = FrameUses(n, b) + FrameUses(frame["creating"], b)
          + FrameUses(frame["viewed"], b) + FrameUses(frame["encoding"], b) + Count(unrefs', b)
    BY <1>3 DEF Uses, Stage
  <2>4. refs'[b] = refs[b] + FrameUses(n, b)
    BY <1>6
  <2> QED BY <2>1, <2>2, <2>3, <2>4, FrameUsesNat
<1>8. TypeOK'
  <2>1. held' \in [Buffer -> Int]
    <3>1. held \in [Buffer -> Int] /\ last \in Buffer \cup {NoBuffer}
      BY Shape
    <3> QED BY <1>1, <3>1, CountTypes
  <2>2. q.is \in BOOLEAN
    BY Shape DEF q, Stage, Frames
  <2>3. forceReset' \in BOOLEAN /\ context' \in Kinds \cup {"none"}
    BY DEF RenderFrame, Inv, TypeOK
  <2>4. /\ pending' \in Buffer \cup {NoBuffer} /\ last' \in Buffer \cup {NoBuffer}
        /\ armed' \in BOOLEAN /\ resetPending' \in BOOLEAN
        /\ UNCHANGED <<streamVars, marked, draining, slots, info, gate, resets>>
    BY <1>1, <2>2
  <2> QED BY <1>3, <1>5, <1>6, <2>1, <2>3, <2>4, ZenonT(30) DEF Inv, TypeOK, streamVars
<1>9. PoolInv'
  <2>1. UNCHANGED <<phase, registered, removing, marked, gate>> /\ pending' = NoBuffer
        /\ resetPending' = FALSE /\ gate = "open"
    BY <1>1 DEF streamVars
  <2>2. RemovalInStep'
    <3>1. NoBuffer \notin marked
      BY SurfaceRendererAssumption DEF Inv, TypeOK
    <3>2. last' \notin marked
      BY <1>1, <3>1 DEF Inv, PoolInv, RemovalInStep
    <3> QED BY <2>1, <3>1, <3>2 DEF Inv, PoolInv, RemovalInStep
  <2>3. \A b \in Buffer : Needed(b)' => b \in registered
    <3> SUFFICES ASSUME NEW b \in Buffer, Needed(b)'
                 PROVE  b \in registered
      OBVIOUS
    <3>1. refs'[b] = refs[b] + FrameUses(n, b) /\ refs[b] \in Nat
      BY <1>6, Shape
    <3>2. FrameUses(n, b) # 0 => b \in {pending, previous}
      BY <1>2 DEF FrameUses
    <3>3. refs[b] > 0 \/ b \in {pending, previous}
      BY <1>1, <1>2, <3>1, <3>2, FrameUsesNat DEF Needed
    <3> QED BY <1>1, <1>2, <3>3 DEF Inv, PoolInv, NeededRegistered, Needed
  <2>4. phase \notin {"adding", "closed"}
    BY <1>1 DEF Inv, PoolInv, PoolClean, Needed
  <2> QED BY <2>1, <2>2, <2>3, <2>4
          DEF PoolInv, NeededRegistered, PoolClean, ResetShowsNothing, NoLostTrigger
<1> QED BY <1>4, <1>7, <1>8, <1>9 DEF Inv

\* Nothing is dequeued at first.
LEMMA InitInv == Init => Inv
<1> SUFFICES ASSUME Init
             PROVE  Inv
  OBVIOUS
<1> USE SurfaceRendererAssumption
<1>1. NoFrame \in Frames /\ ~NoFrame.is /\ ~NoFrame.open
  BY DEF NoFrame, Frames
<1>2. TypeOK
  <2>1. frame \in [Stage -> Frames] /\ unrefs \in Seq(Reference)
    BY <1>1 DEF Init
  <2>2. removing \in [buffer : Buffer \cup {NoBuffer}, release : BOOLEAN,
                      step : {"none", "ensure", "mark", "drop"}]
    BY DEF Init, NoRemoval
  <2>3. pools \in 1 .. MaxPools /\ slots \in 0 .. MaxSlots /\ resets \in 0 .. MaxResets
    BY DEF Init
  <2>4. held \in [Buffer -> Int] /\ refs \in [Buffer -> Nat]
    BY DEF Init
  <2> QED BY <2>1, <2>2, <2>3, <2>4 DEF Init, TypeOK
<1>3. FramesFit
  BY <1>1 DEF Init, FramesFit, Fits, Refers, Stage
<1>4. LocksExact
  <2> SUFFICES ASSUME NEW b \in Buffer
               PROVE  refs[b] = Uses(frame, unrefs, b)
    BY DEF LocksExact
  <2>1. FrameUses(NoFrame, b) = 0
    BY DEF FrameUses, NoFrame
  <2>2. Returns(<<>>, b) = {}
    BY DEF Returns
  <2>3. Count(<<>>, b) = 0
    BY <2>2, FS_EmptySet DEF Count
  <2> QED BY <2>1, <2>3 DEF Init, Uses, Stage
<1>5. PoolInv
  BY <1>1 DEF Init, PoolInv, RemovalInStep, NeededRegistered, PoolClean, Needed, NoRemoval,
     ResetShowsNothing, NoLostTrigger, Stage
<1> QED BY <1>2, <1>3, <1>4, <1>5 DEF Inv

\* Every step keeps Inv.
LEMMA NextInv == Inv /\ [Next]_vars => Inv'
<1> SUFFICES ASSUME Inv, [Next]_vars
             PROVE  Inv'
  OBVIOUS
<1>1. CASE Still
  BY <1>1, StillFrames, StreamStep
<1>2. CASE RenderFrame
  BY <1>2, RenderFrameStep
<1>3. CASE UpgradeFrame
  BY <1>3, UpgradeFrameStep
<1>4. CASE UnrefObject
  BY <1>4, UnrefObjectStep
<1>5. CASE PickUp \/ ViewCreated \/ StartEncoding
  BY <1>5, PickUpStep, ViewCreatedStep, StartEncodingStep
<1>7. CASE Undamaged \/ Encoded
  BY <1>7, FreeStep DEF Undamaged, Encoded
<1>6. CASE UNCHANGED vars
  BY <1>6 DEF Inv, TypeOK, FramesFit, Fits, LocksExact, PoolInv, RemovalInStep,
     NeededRegistered, PoolClean, Needed, ResetShowsNothing, NoLostTrigger, CanPrepare, Used,
     vars, streamVars, bufferVars, frameVars, contextVars, gateVars
<1> QED BY <1>1, <1>2, <1>3, <1>4, <1>5, <1>6, <1>7, StepCases

\* Inv holds throughout.
LEMMA Invariance == Spec => []Inv
BY InitInv, NextInv, PTL DEF Spec

\* The variables have the types of the code's fields; above all, no count of a lock
\* is ever negative (rdp_buffer_unref).
THEOREM TypeCorrect == Spec => []TypeOK
<1>1. Inv => TypeOK
  BY DEF Inv
<1> QED BY <1>1, Invariance, PTL

\* maybe_render_frame is never left waiting for a trigger when it could render.
THEOREM TriggerKept == Spec => []NoLostTrigger
<1>1. Inv => NoLostTrigger
  BY DEF Inv, PoolInv
<1> QED BY <1>1, Invariance, PTL

\* The counts are the references, as LockedByUses states it.
LEMMA LocksCounted == Inv => LockedByUses
<1> SUFFICES ASSUME Inv, NEW b \in Buffer
             PROVE  refs[b] = Cardinality({s \in Stage : frame[s].open /\ frame[s].cur = b})
                    + Cardinality({s \in Stage : frame[s].open /\ frame[s].last = b})
                    + Cardinality({i \in DOMAIN unrefs : unrefs[i].buffer = b})
  BY DEF LockedByUses
<1>1. refs[b] = Uses(frame, unrefs, b)
  BY DEF Inv, LocksExact
<1> QED BY <1>1, Shape, UsesCounted

\* A buffer in use is needed.
LEMMA InUseNeeded ==
  ASSUME Inv
  PROVE  \A b \in Buffer : b \in InUse <=> Needed(b)
<1> SUFFICES ASSUME NEW b \in Buffer
             PROVE  b \in InUse <=> Needed(b)
  OBVIOUS
<1>1. b # NoBuffer
  BY SurfaceRendererAssumption
<1>2. ASSUME NEW s \in Stage, frame[s].open, b \in {frame[s].cur, frame[s].last}
      PROVE  Needed(b)
  BY <1>1, <1>2, FrameLocks DEF Inv, Needed
<1>3. ASSUME NEW i \in DOMAIN unrefs, unrefs[i].buffer = b
      PROVE  Needed(b)
  <2>1. i \in Returns(unrefs, b) /\ IsFiniteSet(Returns(unrefs, b)) /\ Count(unrefs, b) \in Nat
    BY <1>3, Shape, ReturnsFinite DEF Returns
  <2>2. Count(unrefs, b) # 0
    BY <2>1, FS_EmptySet DEF Count
  <2>3. Uses(frame, unrefs, b) >= Count(unrefs, b)
    BY <2>1, FrameUsesNat DEF Uses
  <2>4. refs[b] = Uses(frame, unrefs, b) /\ refs[b] \in Nat
    BY Shape DEF Inv, LocksExact
  <2> QED BY <2>1, <2>2, <2>3, <2>4 DEF Needed
<1>4. ASSUME refs[b] > 0
      PROVE  b \in InUse
  <2>1. Uses(frame, unrefs, b) > 0
    BY <1>4 DEF Inv, LocksExact
  <2>2. CASE Count(unrefs, b) = 0
    <3>1. \E s \in Stage : FrameUses(frame[s], b) > 0
      BY <2>1, <2>2, FrameUsesNat DEF Uses, Stage
    <3>2. \E s \in Stage : frame[s].open /\ b \in {frame[s].cur, frame[s].last}
      BY <3>1 DEF FrameUses
    <3> QED BY <1>1, <3>2 DEF InUse, Open
  <2>3. CASE Count(unrefs, b) # 0
    <3>1. Returns(unrefs, b) # {}
      BY <2>3, FS_EmptySet DEF Count
    <3> QED BY <1>1, <3>1 DEF Returns, InUse
  <2> QED BY <2>2, <2>3
<1> QED BY <1>1, <1>2, <1>3, <1>4 DEF InUse, Open, Needed

\* What is in use is registered.
LEMMA NeededKept == Inv => NoUseAfterRemoval
<1> SUFFICES ASSUME Inv
             PROVE  NoUseAfterRemoval
  OBVIOUS
<1>1. InUse \subseteq Buffer
  <2>1. \A s \in Stage : {frame[s].cur, frame[s].last} \subseteq Buffer \cup {NoBuffer}
    BY Shape DEF Frames
  <2>2. \A i \in DOMAIN unrefs : unrefs[i].buffer \in Buffer \cup {NoBuffer}
    <3>1. \A i \in DOMAIN unrefs : unrefs[i] \in Reference
      BY Shape
    <3> QED BY <3>1 DEF Reference, Context
  <2> QED BY <2>1, <2>2, Shape DEF InUse, Open
<1>2. \A b \in InUse : Needed(b)
  BY <1>1, InUseNeeded
<1> QED BY <1>1, <1>2 DEF NoUseAfterRemoval, Inv, PoolInv, NeededRegistered

--------------------------------------------------------------------------------
(* What depends on the stream. *)

\* References are queued with a render context behind them.
LEMMA ContextLastStep ==
  ASSUME Inv, ContextLast, [Next]_vars
  PROVE  ContextLast'
<1>0. Stage = {"queued", "creating", "viewed", "encoding"}
  BY DEF Stage
<1>1. CASE Still \/ UNCHANGED vars
  BY <1>1, StillFrames DEF ContextLast, vars, frameVars
<1>2. CASE RenderFrame
  <2> DEFINE q == frame["queued"]
  <2>1. PICK n : frame' = [frame EXCEPT !["queued"] = n] /\ unrefs' = unrefs \o Freed(q)
    BY <1>2 DEF RenderFrame
  <2>2. q \in Frames /\ Refers(q) /\ unrefs \in Seq(Reference) /\ frame \in [Stage -> Frames]
    BY Shape DEF Stage
  <2>3. CASE q.is
    BY <2>1, <2>2, <2>3, FreedCount DEF ContextLast
  <2>4. CASE ~q.is
    <3>1. unrefs' = unrefs
      BY <2>1, <2>2, <2>4, FreedCount
    <3>2. \A s \in Stage : s # "queued" => frame'[s] = frame[s]
      BY <2>1, <2>2
    <3> QED BY <2>4, <3>1, <3>2 DEF ContextLast
  <2> QED BY <2>3, <2>4
<1>3. CASE UpgradeFrame
  <2>1. CASE UNCHANGED frame
    BY <1>3, <2>1 DEF UpgradeFrame, ContextLast
  <2>2. CASE frame' = [frame EXCEPT !["viewed"] = NewFrame(NoBuffer, NoBuffer)]
    BY <1>0, <2>2, Shape, NewFrameFits DEF ContextLast
  <2> QED BY <1>3, <2>1, <2>2 DEF UpgradeFrame
<1>4. CASE UnrefObject
  <2>1. unrefs # <<>> /\ unrefs' = Tail(unrefs) /\ UNCHANGED frame
    BY <1>4 DEF UnrefObject
  <2>2. unrefs' # <<>> => unrefs'[Len(unrefs')] = unrefs[Len(unrefs)]
    <3>1. unrefs \in Seq(Reference)
      BY Shape
    <3> QED BY <2>1, <3>1
  <2> QED BY <2>1, <2>2 DEF ContextLast
<1>5. CASE PickUp
  <2>1. /\ ~frame["creating"].is /\ UNCHANGED unrefs
        /\ frame["queued"].open
        /\ \A s \in Stage : s \notin {"queued", "creating"} => frame'[s] = frame[s]
    BY <1>0, <1>5, Shape DEF PickUp, Inv, FramesFit, Fits
  <2> QED BY <2>1 DEF ContextLast
<1>6. CASE ViewCreated
  <2> DEFINE v == [frame["creating"] EXCEPT !.open = MustDelay]
  <2>1. /\ frame["creating"].open /\ ~frame["viewed"].is /\ frame["creating"].is
        /\ frame["creating"] \in Frames
    BY <1>0, <1>6, Shape DEF ViewCreated, Inv, FramesFit, Fits
  <2>2. v.is /\ (v.open <=> MustDelay)
    BY <2>1 DEF Frames
  <2> HIDE DEF v
  <2>3. /\ unrefs' = IF MustDelay THEN unrefs ELSE unrefs \o Viewed(frame["creating"])
        /\ frame' = [frame EXCEPT !["creating"] = NoFrame, !["viewed"] = v]
    BY <1>6 DEF ViewCreated, v
  <2>4. /\ frame'["viewed"] = v
        /\ \A s \in Stage : s \notin {"creating", "viewed"} => frame'[s] = frame[s]
    BY <1>0, <2>3, Shape
  <2>5. CASE MustDelay
    BY <2>1, <2>3, <2>4, <2>5 DEF ContextLast
  <2>6. CASE ~MustDelay
    BY <1>0, <2>2, <2>4, <2>6 DEF ContextLast
  <2> QED BY <2>5, <2>6
<1>7. CASE StartEncoding
  <2>1. /\ frame["viewed"].is /\ ~frame["encoding"].is /\ UNCHANGED unrefs
        /\ frame' = [frame EXCEPT !["viewed"] = NoFrame, !["encoding"] = frame["viewed"]]
    BY <1>7 DEF StartEncoding
  <2>2. /\ frame'["encoding"] = frame["viewed"]
        /\ \A s \in Stage : s \notin {"viewed", "encoding"} => frame'[s] = frame[s]
    BY <1>0, <2>1, Shape
  <2> QED BY <1>0, <2>1, <2>2 DEF ContextLast
<1>8. ASSUME NEW s \in {"viewed", "encoding"}, frame[s].is, Free(s)
      PROVE  ContextLast'
  <2>1. frame[s] \in Frames /\ Refers(frame[s]) /\ unrefs \in Seq(Reference)
    BY <1>0, Shape
  <2>2. unrefs' = unrefs \o Freed(frame[s])
    BY <1>8 DEF Free
  <2> QED BY <1>8, <2>1, <2>2, FreedCount DEF ContextLast
<1> QED BY <1>1, <1>2, <1>3, <1>4, <1>5, <1>6, <1>7, <1>8, StepCases DEF Undamaged, Encoded

\* Without render contexts in use, no reference is left.
LEMMA IdleQuiet ==
  ASSUME Inv, ContextLast, Idle
  PROVE  unrefs = <<>> /\ \A b \in Buffer : refs[b] = 0
<1>1. \A s \in Stage : ~frame[s].is /\ ~frame[s].open
  BY DEF Idle, Inv, FramesFit, Fits, Refers
<1>2. unrefs = <<>>
  <2>1. unrefs \in Seq(Reference)
    BY Shape
  <2>2. \A i \in DOMAIN unrefs : unrefs[i] # Context
    BY DEF Idle, Context
  <2>3. unrefs # <<>> => Len(unrefs) \in DOMAIN unrefs
    BY <2>1
  <2> QED BY <1>1, <2>2, <2>3 DEF ContextLast
<1>3. ASSUME NEW b \in Buffer
      PROVE  refs[b] = 0
  <2>1. \A s \in Stage : FrameUses(frame[s], b) = 0
    BY <1>1 DEF FrameUses
  <2>2. Returns(<<>>, b) = {}
    BY DEF Returns
  <2>3. Count(<<>>, b) = 0
    BY <2>2, FS_EmptySet DEF Count
  <2> QED BY <1>2, <2>1, <2>3 DEF Inv, LocksExact, Uses, Stage
<1> QED BY <1>2, <1>3

\* A virtual monitor is reset only while no frame uses its render contexts.
LEMMA ResetIdleStep ==
  ASSUME ~Physical, Inv, ContextLast, ResetIdle, [Next]_vars
  PROVE  ResetIdle'
<1>1. CASE UNCHANGED <<frame, unrefs>> /\ UNCHANGED <<resetPending, gate>>
  BY <1>1 DEF ResetIdle, Idle
<1>2. ASSUME \E s \in Stage : frame[s].is, UNCHANGED <<resetPending, gate>>
      PROVE  ResetIdle'
  BY <1>2 DEF ResetIdle, Idle
<1>3. CASE Still
  <2>1. UNCHANGED <<frame, unrefs>>
    BY <1>3, StillFrames
  <2>2. Idle' <=> Idle
    BY <2>1 DEF Idle
  <2>3. CASE ParamChanged
    BY <2>2, <2>3 DEF ParamChanged, ResetIdle, Inv, TypeOK
  <2>4. CASE Uninhibit \/ ResetProtocol \/ Inhibit
    BY <2>2, <2>4 DEF Uninhibit, ResetProtocol, Inhibit, ResetIdle
  <2>5. CASE UNCHANGED <<resetPending, gate>>
    BY <1>1, <2>1, <2>5
  <2> QED BY <1>3, <2>3, <2>4, <2>5
          DEF Still, Finalize, Removal, RemoveBuffer, EnsureUnlocked, MarkForRemoval,
              DropBuffer, AddBuffer, Process, RenderNothing, UpdateTotalFrameSlots, gateVars
<1>4. CASE RenderFrame
  BY <1>4 DEF RenderFrame, ResetIdle
<1>5. CASE UpgradeFrame
  BY <1>5 DEF UpgradeFrame, ResetIdle
<1>6. CASE UnrefObject
  BY <1>6, IdleQuiet DEF UnrefObject, ResetIdle, gateVars
<1>7. CASE PickUp \/ ViewCreated \/ StartEncoding \/ Undamaged \/ Encoded
  <2>1. UNCHANGED <<resetPending, gate>> /\ \E s \in Stage : frame[s].is
    BY <1>7 DEF PickUp, ViewCreated, StartEncoding, Undamaged, Encoded, Free, gateVars, Stage
  <2> QED BY <1>2, <2>1
<1>8. CASE UNCHANGED vars
  BY <1>1, <1>8 DEF vars, frameVars, gateVars
<1> QED BY <1>3, <1>4, <1>5, <1>6, <1>7, <1>8, StepCases

\* With buffers of one type the encoder's view stays open until the frame is freed.
LEMMA KindsAgreeStep ==
  ASSUME ~KindChanges, Inv, KindsAgree, [Next]_vars
  PROVE  KindsAgree'
<1>0. /\ Stage = {"queued", "creating", "viewed", "encoding"} /\ kind \in {"mem", "dma"}
      /\ frame \in [Stage -> Frames]
  BY SurfaceRendererAssumption DEF Stage, Inv, TypeOK
<1>1. CASE UNCHANGED <<frame, kind, contextVars>> /\ registered' \subseteq registered
  BY <1>1 DEF KindsAgree, contextVars
<1>2. CASE Still
  <2>1. UNCHANGED frame
    BY <1>2, StillFrames
  <2>2. CASE ParamChanged
    BY <1>1, <2>1, <2>2 DEF ParamChanged
  <2>3. ASSUME NEW b \in Buffer, AddBuffer(b)
        PROVE  KindsAgree'
    BY <1>0, <2>1, <2>3 DEF AddBuffer, KindsAgree
  <2>4. CASE ResetProtocol
    BY <2>1, <2>4 DEF ResetProtocol, KindsAgree, Idle, streamVars
  <2>5. CASE UNCHANGED <<kind, contextVars>> /\ registered' \subseteq registered
    BY <1>1, <2>1, <2>5
  <2> QED BY <1>2, <2>2, <2>3, <2>4, <2>5
          DEF Still, Finalize, Removal, RemoveBuffer, EnsureUnlocked, MarkForRemoval, Inhibit,
              Uninhibit, DropBuffer, Process, RenderNothing, UpdateTotalFrameSlots, streamVars
<1>3. CASE RenderFrame
  <2>1. /\ registered # {}
        /\ UNCHANGED <<kind, registered, info>> /\ forceReset' = FALSE
        /\ context' = IF resetPending \/ forceReset \/ context = "none" THEN info ELSE context
    BY <1>3, RenderFrameEffect DEF RenderFrame, streamVars
  <2>2. PICK n : frame' = [frame EXCEPT !["queued"] = n]
    BY <1>3 DEF RenderFrame
  <2>3. frame'["viewed"] = frame["viewed"] /\ frame'["encoding"] = frame["encoding"]
    BY <1>0, <2>2
  <2> QED BY <1>0, <2>1, <2>3 DEF KindsAgree
<1>4. CASE UpgradeFrame
  <2>1. info = "dma" /\ UNCHANGED <<kind, registered, info, forceReset>>
    BY <1>4 DEF UpgradeFrame, streamVars
  <2>2. context' \in {"none", context}
    BY <1>4 DEF UpgradeFrame
  <2> QED BY <2>1, <2>2 DEF KindsAgree
<1>5. CASE UnrefObject \/ UNCHANGED vars
  BY <1>1, <1>5 DEF UnrefObject, vars, streamVars, frameVars
<1>6. CASE PickUp
  <2>1. /\ UNCHANGED <<streamVars, contextVars>> /\ frame["queued"].is
        /\ frame'["viewed"] = frame["viewed"] /\ frame'["encoding"] = frame["encoding"]
    BY <1>0, <1>6 DEF PickUp
  <2> QED BY <1>0, <2>1 DEF KindsAgree, streamVars, contextVars
<1>7. CASE ViewCreated
  <2> DEFINE v == [frame["creating"] EXCEPT !.open = MustDelay]
  <2>1. /\ UNCHANGED <<streamVars, contextVars>> /\ frame["creating"].is
        /\ frame'["viewed"] = v /\ frame'["encoding"] = frame["encoding"]
    BY <1>0, <1>7 DEF ViewCreated
  <2>2. v.open <=> MustDelay
    BY <1>0 DEF Frames
  <2> HIDE DEF v
  <2> QED BY <1>0, <2>1, <2>2 DEF KindsAgree, streamVars, contextVars, MustDelay
<1>8. CASE StartEncoding
  <2>1. /\ UNCHANGED <<streamVars, contextVars>> /\ frame["viewed"].is
        /\ frame'["viewed"] = NoFrame /\ frame'["encoding"] = frame["viewed"]
    BY <1>0, <1>8 DEF StartEncoding
  <2> QED BY <1>0, <2>1 DEF KindsAgree, streamVars, contextVars, NoFrame
<1>9. ASSUME NEW s \in {"viewed", "encoding"}, frame[s].is, Free(s)
      PROVE  KindsAgree'
  <2>1. /\ UNCHANGED <<streamVars, contextVars>>
        /\ frame'[s] = NoFrame /\ \A t \in Stage : t # s => frame'[t] = frame[t]
    BY <1>0, <1>9 DEF Free
  <2> QED BY <1>0, <1>9, <2>1 DEF KindsAgree, streamVars, contextVars, NoFrame
<1> QED BY <1>2, <1>3, <1>4, <1>5, <1>6, <1>7, <1>8, <1>9, StepCases DEF Undamaged, Encoded

\* invalidate_surface, without a frame that uses a buffer.
LEMMA InvalidateLoan ==
  ASSUME Inv, Loan, Invalidate, UNCHANGED <<frame, refs, marked>>,
         \A b \in Buffer : refs[b] = 0, ~frame["queued"].is
  PROVE  Loan'
<1>0. /\ NoBuffer \notin Buffer /\ held \in [Buffer -> Int]
      /\ pending \in Buffer \cup {NoBuffer} /\ last \in Buffer \cup {NoBuffer}
  BY SurfaceRendererAssumption, Shape
<1>1. QueuedShowsLast'
  BY DEF QueuedShowsLast
<1>2. CASE pending = NoBuffer
  <2>1. pending' = last /\ last' = NoBuffer /\ held' = held
    BY <1>2 DEF Invalidate
  <2>2. HeldExact'
    BY <1>0, <1>2, <2>1 DEF Loan, HeldExact, Needed
  <2>3. PendingIsNew'
    BY <1>0, <2>1 DEF PendingIsNew, Locked
  <2> QED BY <1>1, <2>2, <2>3 DEF Loan
<1>3. CASE pending # NoBuffer
  <2>1. pending' = pending /\ last' = NoBuffer /\ held' = Released(held, last)
    BY <1>3 DEF Invalidate
  <2>2. pending # last
    BY <1>3 DEF Loan, PendingIsNew
  <2>3. HeldExact'
    <3> SUFFICES ASSUME NEW b \in Buffer
                 PROVE  /\ held'[b] \in {0, 1}
                        /\ Needed(b)' => held'[b] = 1
                        /\ held'[b] = 1 => Needed(b)' \/ b \in marked'
      BY DEF HeldExact
    <3>1. /\ held[b] \in {0, 1} /\ (Needed(b) => held[b] = 1)
          /\ (held[b] = 1 => Needed(b) \/ b \in marked)
      BY DEF Loan, HeldExact
    <3>2. held'[b] = IF b = last THEN held[b] - 1 ELSE held[b]
      BY <1>0, <2>1 DEF Released
    <3>3. Needed(b)' <=> b = pending
      BY <1>0, <2>1 DEF Needed
    <3>4. Needed(b) <=> b = pending \/ b = last
      BY <1>0 DEF Needed
    <3> QED BY <2>2, <3>1, <3>2, <3>3, <3>4
  <2>4. PendingIsNew'
    BY <1>0, <1>3, <2>1 DEF PendingIsNew, Locked
  <2> QED BY <1>1, <2>3, <2>4 DEF Loan
<1> QED BY <1>2, <1>3

\* Every step keeps the loan: the buffers that are out are the ones that are needed.
LEMMA LoanStep ==
  ASSUME Inv, ContextLast, ResetIdle, Loan, [Next]_vars
  PROVE  Loan'
<1>0. /\ NoBuffer \notin Buffer /\ "queued" \in Stage
      /\ frame \in [Stage -> Frames] /\ held \in [Buffer -> Int] /\ refs \in [Buffer -> Nat]
      /\ pending \in Buffer \cup {NoBuffer} /\ last \in Buffer \cup {NoBuffer}
  BY SurfaceRendererAssumption, Shape DEF Stage
<1>1. CASE UNCHANGED <<held, refs, pending, last, marked>> /\ frame'["queued"] = frame["queued"]
  BY <1>1 DEF Loan, HeldExact, Needed, QueuedShowsLast, PendingIsNew, Locked
<1>2. CASE Still
  <2>1. UNCHANGED <<frame, refs>>
    BY <1>2, StillFrames
  <2>2. CASE MarkForRemoval
    <3>1. /\ pending' = IF pending = removing.buffer THEN NoBuffer ELSE pending
          /\ last' = IF last = removing.buffer THEN NoBuffer ELSE last
          /\ marked' = marked \cup {removing.buffer}
          /\ UNCHANGED held
      BY <2>2 DEF MarkForRemoval
    <3>2. HeldExact'
      BY <1>0, <2>1, <3>1 DEF Loan, HeldExact, Needed
    <3>3. QueuedShowsLast' /\ PendingIsNew'
      BY <1>0, <2>1, <3>1 DEF Loan, QueuedShowsLast, PendingIsNew, Locked
    <3> QED BY <3>2, <3>3 DEF Loan
  <2>3. CASE DropBuffer
    <3>1. /\ held' = [held EXCEPT ![removing.buffer] = 0] /\ ~(refs[removing.buffer] > 0)
          /\ marked' = marked \ {removing.buffer} /\ removing.buffer \in marked
          /\ pending # removing.buffer /\ last # removing.buffer
          /\ UNCHANGED <<pending, last>>
      BY <2>3 DEF DropBuffer, Locked, Inv, PoolInv, RemovalInStep
    <3>2. HeldExact'
      BY <1>0, <2>1, <3>1 DEF Loan, HeldExact, Needed
    <3>3. QueuedShowsLast' /\ PendingIsNew'
      BY <2>1, <3>1 DEF Loan, QueuedShowsLast, PendingIsNew, Locked
    <3> QED BY <3>2, <3>3 DEF Loan
  <2>4. ASSUME NEW batch \in Batches({b \in registered : held[b] = 0}), Process(batch)
        PROVE  Loan'
    <3>1. /\ phase = "streaming" /\ UNCHANGED <<last, marked>>
      BY <2>4 DEF Process
    <3>2. marked = {}
      BY <3>1 DEF Inv, PoolInv, RemovalInStep
    <3>3. CASE UNCHANGED <<held, pending>>
      BY <1>1, <2>1, <3>1, <3>3
    <3>4. ASSUME NEW b \in registered, held[b] = 0, pending' = b,
                 held' = Released([held EXCEPT ![b] = 1], pending)
          PROVE  Loan'
      <4>1. b \in Buffer /\ ~Needed(b) /\ b # pending /\ b # last
        BY <3>4, Shape DEF Loan, HeldExact, Needed
      <4> DEFINE h == [held EXCEPT ![b] = 1]
      <4>2. h \in [Buffer -> Int] /\ h[b] = 1 /\ \A c \in Buffer : c # b => h[c] = held[c]
        BY <1>0, <4>1
      <4> HIDE DEF h
      <4>3. held' = IF pending = NoBuffer THEN h ELSE [h EXCEPT ![pending] = @ - 1]
        BY <3>4 DEF Released, h
      <4>4. pending # NoBuffer =>
              held[pending] = 1 /\ pending # last /\ refs[pending] = 0
        BY <1>0 DEF Loan, HeldExact, Needed, PendingIsNew, Locked
      <4>5. \A c \in Buffer : held'[c] = IF c = b THEN 1 ELSE IF c = pending THEN 0 ELSE held[c]
        BY <1>0, <4>1, <4>2, <4>3, <4>4
      <4>6. HeldExact'
        <5> SUFFICES ASSUME NEW c \in Buffer
                     PROVE  /\ held'[c] \in {0, 1}
                            /\ Needed(c)' => held'[c] = 1
                            /\ held'[c] = 1 => Needed(c)' \/ c \in marked'
          BY DEF HeldExact
        <5>1. /\ held[c] \in {0, 1} /\ (Needed(c) => held[c] = 1)
              /\ (held[c] = 1 => Needed(c))
          BY <3>2 DEF Loan, HeldExact
        <5>2. Needed(c)' <=> (refs[c] > 0 \/ c = b \/ c = last)
          BY <2>1, <3>1, <3>4 DEF Needed
        <5>3. Needed(c) <=> (refs[c] > 0 \/ c = pending \/ c = last)
          BY DEF Needed
        <5> QED BY <1>0, <4>1, <4>4, <4>5, <5>1, <5>2, <5>3
      <4>7. QueuedShowsLast' /\ PendingIsNew'
        BY <2>1, <3>1, <3>4, <4>1 DEF Loan, QueuedShowsLast, PendingIsNew, Locked, Needed
      <4> QED BY <4>6, <4>7 DEF Loan
    <3> QED BY <2>4, <3>3, <3>4, ProcessEffect DEF Inv
  <2>5. CASE ResetProtocol
    <3>1. Idle /\ Invalidate /\ UNCHANGED marked
      BY <2>5 DEF ResetProtocol
    <3>2. (\A b \in Buffer : refs[b] = 0) /\ ~frame["queued"].is
      BY <1>0, <3>1, IdleQuiet DEF Idle
    <3>3. Loan'
      BY <1>0, <2>1, <3>1, <3>2, InvalidateLoan
    <3> QED BY <3>3
  <2>6. CASE UNCHANGED <<held, pending, last, marked>>
    BY <1>1, <2>1, <2>6
  <2> QED BY <1>2, <2>2, <2>3, <2>4, <2>5, <2>6
          DEF Still, ParamChanged, Finalize, Removal, RemoveBuffer, EnsureUnlocked, Inhibit,
              Uninhibit, AddBuffer, RenderNothing, UpdateTotalFrameSlots, bufferVars
<1>3. CASE RenderFrame
  <2>1. PICK previous \in Buffer \cup {NoBuffer} :
           /\ previous = IF resetPending THEN NoBuffer ELSE last
           /\ frame' = [frame EXCEPT !["queued"] = NewFrame(pending, previous)]
           /\ refs' = Referenced(Referenced(refs, pending), previous)
           /\ last' = previous
           /\ pending \in Buffer
           /\ held' = IF resetPending THEN Released(held, last) ELSE held
           /\ pending' = NoBuffer
           /\ UNCHANGED marked
    BY <1>3, RenderFrameEffect
  <2>2. PendingIsNew'
    BY <2>1 DEF PendingIsNew
  <2>3. QueuedShowsLast'
    BY <1>0, <2>1, NewFrameFits DEF QueuedShowsLast
  <2>4. pending # last /\ refs[pending] = 0
    BY <1>0, <2>1 DEF Loan, PendingIsNew, Locked
  <2>5. HeldExact'
    <3> SUFFICES ASSUME NEW b \in Buffer
                 PROVE  /\ held'[b] \in {0, 1}
                        /\ Needed(b)' => held'[b] = 1
                        /\ held'[b] = 1 => Needed(b)' \/ b \in marked'
      BY DEF HeldExact
    <3>1. /\ held[b] \in {0, 1} /\ (Needed(b) => held[b] = 1)
          /\ (held[b] = 1 => Needed(b) \/ b \in marked)
      BY DEF Loan, HeldExact
    <3> DEFINE r == [refs EXCEPT ![pending] = @ + 1]
    <3>2. r \in [Buffer -> Nat] /\ r[b] = refs[b] + (IF b = pending THEN 1 ELSE 0)
      BY <1>0, <2>1
    <3>3. Referenced(refs, pending) = r
      BY <1>0, <2>1 DEF Referenced
    <3> HIDE DEF r
    <3>4. refs'[b] = r[b] + (IF b = previous THEN 1 ELSE 0)
      BY <1>0, <2>1, <3>2, <3>3 DEF Referenced
    <3>5. Needed(b)' <=> (refs[b] > 0 \/ b = pending \/ b = previous)
      BY <1>0, <2>1, <3>2, <3>4 DEF Needed
    <3>6. Needed(b) <=> (refs[b] > 0 \/ b = pending \/ b = last)
      BY DEF Needed
    <3>7. CASE resetPending
      <4>1. refs[b] = 0
        BY <3>7, IdleQuiet DEF ResetIdle
      <4>2. previous = NoBuffer /\ held' = Released(held, last)
        BY <2>1, <3>7
      <4>3. held'[b] = IF b = last THEN held[b] - 1 ELSE held[b]
        BY <1>0, <4>2 DEF Released
      <4> QED BY <1>0, <2>1, <2>4, <3>1, <3>5, <3>6, <4>1, <4>2, <4>3
    <3>8. CASE ~resetPending
      BY <2>1, <3>1, <3>5, <3>6, <3>8
    <3> QED BY <3>7, <3>8
  <2> QED BY <2>2, <2>3, <2>5 DEF Loan
<1>4. CASE UpgradeFrame
  <2>1. CASE resetPending /\ Invalidate /\ UNCHANGED frame
    <3>1. UNCHANGED <<refs, marked>>
      BY <1>4 DEF UpgradeFrame
    <3>2. (\A b \in Buffer : refs[b] = 0) /\ ~frame["queued"].is
      BY <1>0, <2>1, IdleQuiet DEF ResetIdle, Idle
    <3> QED BY <1>0, <2>1, <3>1, <3>2, InvalidateLoan
  <2>2. CASE /\ frame' = [frame EXCEPT !["viewed"] = NewFrame(NoBuffer, NoBuffer)]
             /\ UNCHANGED <<held, pending, last>>
    BY <1>0, <1>1, <1>4, <2>2 DEF UpgradeFrame
  <2> QED BY <1>4, <2>1, <2>2 DEF UpgradeFrame
<1>5. CASE UnrefObject
  <2> DEFINE x == Head(unrefs).buffer
  <2>1. UNCHANGED <<pending, last, marked, frame>>
    BY <1>5 DEF UnrefObject
  <2>2. CASE Head(unrefs).type # "buffer"
    BY <1>1, <1>5, <2>1, <2>2 DEF UnrefObject
  <2>3. CASE Head(unrefs).type = "buffer"
    <3>1. UnrefBuffer(x)
      BY <1>5, <2>3 DEF UnrefObject
    <3>2. x \in Buffer
      <4>1. Head(unrefs) \in Reference
        BY <1>5, Shape, CountTail DEF UnrefObject
      <4> QED BY <2>3, <4>1 DEF Reference, Context
    <3>3. refs[x] > 0
      <4>1. unrefs # <<>> /\ unrefs \in Seq(Reference)
        BY <1>5, Shape DEF UnrefObject
      <4>2. Count(unrefs, x) = Count(Tail(unrefs), x) + 1 /\ Count(Tail(unrefs), x) \in Nat
        BY <3>2, <4>1, CountTail, ReturnsFinite
      <4>3. refs[x] = Uses(frame, unrefs, x)
        BY <3>2 DEF Inv, LocksExact
      <4> QED BY <4>2, <4>3, FrameUsesNat DEF Uses
    <3>4. /\ refs' = [refs EXCEPT ![x] = @ - 1]
          /\ held' = IF refs[x] = 1 /\ x \notin marked /\ x # last
                     THEN Released(held, x) ELSE held
      BY <3>1 DEF UnrefBuffer
    <3> HIDE DEF x
    <3>5. x # pending /\ held[x] = 1
      <4>1. x # pending
        BY <1>0, <3>2, <3>3 DEF Loan, PendingIsNew, Locked
      <4>2. Needed(x)
        BY <3>3 DEF Needed
      <4> QED BY <3>2, <4>1, <4>2 DEF Loan, HeldExact
    <3>6. /\ \A b \in Buffer : refs'[b] = IF b = x THEN refs[x] - 1 ELSE refs[b]
          /\ \A b \in Buffer : held'[b] = IF b = x /\ refs[x] = 1 /\ x \notin marked /\ x # last
                                          THEN 0 ELSE held[b]
      BY <1>0, <3>2, <3>4, <3>5 DEF Released
    <3>7. HeldExact'
      <4> SUFFICES ASSUME NEW b \in Buffer
                   PROVE  /\ held'[b] \in {0, 1}
                          /\ Needed(b)' => held'[b] = 1
                          /\ held'[b] = 1 => Needed(b)' \/ b \in marked'
        BY DEF HeldExact
      <4>1. /\ held[b] \in {0, 1} /\ (Needed(b) => held[b] = 1)
            /\ (held[b] = 1 => Needed(b) \/ b \in marked)
        BY DEF Loan, HeldExact
      <4>2. Needed(b)' <=> (refs'[b] > 0 \/ b = pending \/ b = last)
        BY <2>1 DEF Needed
      <4>3. Needed(b) <=> (refs[b] > 0 \/ b = pending \/ b = last)
        BY DEF Needed
      <4>4. refs[b] \in Nat /\ refs[x] \in Nat
        BY <1>0, <3>2
      <4> QED BY <2>1, <3>3, <3>5, <3>6, <4>1, <4>2, <4>3, <4>4
    <3>8. QueuedShowsLast'
      BY <2>1 DEF Loan, QueuedShowsLast
    <3>9. PendingIsNew'
      BY <1>0, <2>1, <3>5, <3>6 DEF Loan, PendingIsNew, Locked
    <3> QED BY <3>7, <3>8, <3>9 DEF Loan
  <2> QED BY <2>2, <2>3
<1>6. CASE PickUp
  <2> DEFINE f == frame["queued"]
  <2>1. /\ f.is /\ UNCHANGED <<held, pending, marked, refs>>
        /\ frame'["queued"] = NoFrame
        /\ last' = IF f.cur \in marked THEN NoBuffer ELSE f.cur
    BY <1>0, <1>6 DEF PickUp, Stage
  <2>2. f.open
    BY <1>0, <2>1 DEF Inv, FramesFit, Fits
  <2>3. /\ f.cur \in Buffer /\ refs[f.cur] > 0
        /\ f.last # NoBuffer => f.last \in Buffer /\ refs[f.last] > 0
    BY <1>0, <2>2, FrameLocks DEF Inv
  <2>4. last # NoBuffer => refs[last] > 0
    BY <2>1, <2>3 DEF Loan, QueuedShowsLast
  <2>5. \A b \in Buffer : Needed(b)' <=> Needed(b)
    BY <1>0, <2>1, <2>3, <2>4 DEF Needed
  <2>6. HeldExact'
    BY <2>1, <2>5 DEF Loan, HeldExact
  <2>7. QueuedShowsLast'
    BY <2>1 DEF QueuedShowsLast, NoFrame
  <2>8. PendingIsNew'
    BY <2>1, <2>3 DEF Loan, PendingIsNew, Locked
  <2> QED BY <2>6, <2>7, <2>8 DEF Loan
<1>7. CASE ViewCreated \/ StartEncoding \/ Undamaged \/ Encoded \/ UNCHANGED vars
  BY <1>0, <1>1, <1>7
     DEF ViewCreated, StartEncoding, Undamaged, Encoded, Free, vars, bufferVars, frameVars
<1> QED BY <1>2, <1>3, <1>4, <1>5, <1>6, <1>7, StepCases

\* Of any stream: nobody looks at a buffer that PipeWire took back, and a lock is
\* held for references that exist (grd_rdp_buffer_free, ensure_unlocked).
THEOREM HeldWhileUsed == Spec => [](NoUseAfterRemoval /\ LockedByUses)
<1>1. Inv => NoUseAfterRemoval /\ LockedByUses
  BY NeededKept, LocksCounted
<1> QED BY <1>1, Invariance, PTL

\* The other invariants hold at first.
LEMMA InitMore == Init => ContextLast /\ ResetIdle /\ Loan /\ KindsAgree
<1> SUFFICES ASSUME Init
             PROVE  ContextLast /\ ResetIdle /\ Loan /\ KindsAgree
  OBVIOUS
<1>1. ContextLast /\ ResetIdle
  BY DEF Init, ContextLast, ResetIdle, Idle, NoFrame
<1>2. Loan
  BY SurfaceRendererAssumption DEF Init, Loan, HeldExact, Needed, QueuedShowsLast, PendingIsNew
<1>3. KindsAgree
  BY DEF Init, KindsAgree, NoFrame, Stage
<1> QED BY <1>1, <1>2, <1>3

\* Loan holds throughout, of a virtual monitor.
LEMMA LoanInvariance ==
  ASSUME ~Physical
  PROVE  Spec => [](ContextLast /\ ResetIdle /\ Loan)
<1>1. Inv /\ ContextLast /\ ResetIdle /\ Loan /\ [Next]_vars
      => (ContextLast /\ ResetIdle /\ Loan)'
  BY ContextLastStep, ResetIdleStep, LoanStep
<1> QED BY <1>1, InitMore, Invariance, PTL DEF Spec

\* The loan, as ReturnedOnce states it.
LEMMA LoanReturned ==
  ASSUME Inv, Loan
  PROVE  ReturnedOnce
<1>1. QueuedOnce
  <2> SUFFICES ASSUME NEW b \in Buffer
               PROVE  /\ held[b] \in {0, 1}
                      /\ b \in InUse => held[b] = 1
                      /\ held[b] = 1 => b \in InUse \/ b \in marked
    BY DEF QueuedOnce
  <2> QED BY InUseNeeded DEF Loan, HeldExact
<1> QED BY <1>1 DEF ReturnedOnce, Loan

\* Of a virtual monitor: a buffer is queued again exactly once, by whoever needed it
\* last, and no frame refers to the pending one.
THEOREM GivenBackOnce == ASSUME ~Physical PROVE Spec => []ReturnedOnce
<1>1. Inv /\ Loan => ReturnedOnce
  BY LoanReturned
<1> QED BY <1>1, Invariance, LoanInvariance, PTL

\* While buffers stay of one type: the encoder never reads a MemFd buffer that was
\* given back (must_delay_view_finalization).
THEOREM EncoderSafe == ASSUME ~KindChanges PROVE Spec => []EncoderReadsHeld
<1>1. Inv /\ KindsAgree => EncoderReadsHeld
  <2> SUFFICES ASSUME Inv, KindsAgree, NEW s \in {"viewed", "encoding"},
                      frame[s].is, frame[s].cur # NoBuffer, context = "mem"
               PROVE  frame[s].open /\ Locked(frame[s].cur)
    BY DEF EncoderReadsHeld
  <2>1. frame[s].open /\ s \in Stage
    BY DEF KindsAgree, Stage
  <2> QED BY <2>1, FrameLocks DEF Inv, Locked
<1>2. Inv /\ KindsAgree /\ [Next]_vars => KindsAgree'
  BY KindsAgreeStep
<1> QED BY <1>1, <1>2, InitMore, Invariance, PTL DEF Spec

\* BuffersSound as a whole, of a virtual monitor with buffers of one type.
THEOREM BuffersCorrect == ASSUME ~Physical, ~KindChanges PROVE Spec => []BuffersSound
<1>1. Spec => []EncoderReadsHeld
  BY EncoderSafe
<1>2. Spec => []ReturnedOnce
  BY GivenBackOnce
<1>3. NoUseAfterRemoval /\ LockedByUses /\ EncoderReadsHeld /\ ReturnedOnce => BuffersSound
  BY DEF BuffersSound, BuffersHeld
<1> QED BY <1>1, <1>2, <1>3, HeldWhileUsed, PTL

\* The assertions of clear_render_contexts and invalidate_surface: a render context
\* is thrown away only when no frame uses it and no buffer is locked.
THEOREM ResetWhenIdle == ASSUME ~Physical, ~KindChanges PROVE Spec => ContextIdleAtReset
<1> DEFINE A == (resetPending \/ forceReset) /\ RenderFrame
                  => Idle /\ \A b \in Buffer : ~Locked(b)
<1>1. Inv /\ ContextLast /\ ResetIdle /\ KindsAgree => A
  <2> SUFFICES ASSUME Inv, ContextLast, ResetIdle, KindsAgree, resetPending \/ forceReset
               PROVE  Idle /\ \A b \in Buffer : ~Locked(b)
    OBVIOUS
  <2>1. Idle
    BY DEF ResetIdle, KindsAgree
  <2> QED BY <2>1, IdleQuiet DEF Locked
<1>2. Inv /\ KindsAgree /\ [Next]_vars => KindsAgree'
  BY KindsAgreeStep
<1>3. Spec => []KindsAgree
  BY <1>2, InitMore, Invariance, PTL DEF Spec
<1>4. Spec => [](ContextLast /\ ResetIdle)
  BY LoanInvariance, PTL
<1>5. Inv /\ ContextLast /\ ResetIdle /\ KindsAgree => [A]_vars
  BY <1>1
<1> HIDE DEF A
<1>6. Spec => [][A]_vars
  BY <1>3, <1>4, <1>5, Invariance, PTL
<1> QED BY <1>6 DEF ContextIdleAtReset, A

================================================================================
