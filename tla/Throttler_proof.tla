---------------------------- MODULE Throttler_proof ----------------------------
(***************************************************************************)
(* Proofs about Throttler.tla, for any connections, peers and limits.      *)
(*                                                                         *)
(* The inductive invariant Inv joins the checked invariants with           *)
(* AgesExact, which ties the timestamp arrays of the code to the history   *)
(* of admissions.  TypeOK, CountersMatchConnections and QueuesHoldDelayed  *)
(* need one another: a counter stays natural because it counts the live    *)
(* connections, and it keeps counting them because a served connection was *)
(* queued with the right peer.                                             *)
(***************************************************************************)
EXTENDS Throttler, FiniteSetTheorems, SequenceTheorems, WellFoundedInduction, TLAPS

\* What the assumption on the limits gives arithmetic.
LEMMA Constants ==
  /\ Second \in Nat \ {0}
  /\ MaxAttempts \in Nat \ {0}
  /\ MaxPerPeer \in Nat \ {0}
  /\ MaxGlobal \in Nat \ {0}
  /\ MaxPending \in Nat
  /\ Interval \in Nat
<1>1. /\ Second \in Nat \ {0}
      /\ MaxAttempts \in Nat \ {0}
      /\ MaxPerPeer \in Nat \ {0}
      /\ MaxGlobal \in Nat \ {0}
      /\ MaxPending \in Nat
  BY ThrottlerAssumption
<1>2. Interval \in Nat
  BY <1>1 DEF Interval
<1> QED BY <1>1, <1>2

\* A nonempty set of naturals has a least element: the cut of an array of ages
\* and the earliest retry time are both chosen as one.
LEMMA MinNat ==
  ASSUME NEW S \in SUBSET Nat, S # {}
  PROVE  \E m \in S : \A n \in S : m <= n
<1> DEFINE R == OpToRel(<, Nat)
<1>1. IsWellFoundedOn(R, Nat)
  BY NatLessThanWellFounded
<1>2. PICK m \in S : \A n \in S : ~(<<n, m>> \in R)
  <2> HIDE DEF R
  <2> QED BY <1>1, WFMin
<1>3. \A n \in S : ~(n < m)
  BY <1>2 DEF OpToRel
<1> QED BY <1>3

\* The oldest attempt comes first.
Sorted(ages) == \A i, j \in DOMAIN ages : i <= j => ages[j] <= ages[i]

\* The ages at and after k are those of less than a second.
YoungFrom(ages, k) ==
  \A i \in DOMAIN ages : ages[i] < Second <=> k <= i

\* In an array with the oldest first, what prune_old_timestamps drops is a prefix.
LEMMA CutExists ==
  ASSUME NEW s \in Seq(Nat), Sorted(s)
  PROVE  \E k \in 1 .. Len(s) + 1 : YoungFrom(s, k)
<1> DEFINE young == {i \in DOMAIN s : s[i] < Second}
<1>0. Len(s) \in Nat /\ DOMAIN s = 1 .. Len(s) /\ \A i \in 1 .. Len(s) : s[i] \in Nat
  BY LenProperties
<1>1. CASE young = {}
  BY <1>1, <1>0 DEF YoungFrom
<1>2. CASE young # {}
  <2>1. young \in SUBSET Nat
    BY <1>0
  <2>2. PICK k \in young : \A j \in young : k <= j
    BY <1>2, <2>1, MinNat
  <2>3. \A i \in DOMAIN s : k <= i => s[i] < Second
    BY <1>0, <2>2, Constants DEF Sorted
  <2>4. \A i \in DOMAIN s : s[i] < Second => k <= i
    BY <2>2
  <2> QED BY <1>0, <2>2, <2>3, <2>4 DEF YoungFrom
<1> QED BY <1>1, <1>2

\* PruneOld keeps exactly what follows the cut.
LEMMA PruneOldCut ==
  ASSUME NEW s \in Seq(Nat), NEW k \in 1 .. Len(s) + 1, YoungFrom(s, k)
  PROVE  PruneOld(s) = SubSeq(s, k, Len(s))
<1> DEFINE young == {i \in DOMAIN s : s[i] < Second}
<1>0. Len(s) \in Nat /\ DOMAIN s = 1 .. Len(s)
  BY LenProperties
<1>1. CASE k = Len(s) + 1
  <2>1. young = {}
    BY <1>0, <1>1 DEF YoungFrom
  <2>2. SubSeq(s, k, Len(s)) = <<>>
    BY <1>0, <1>1, SubSeqEmpty
  <2> QED BY <2>1, <2>2 DEF PruneOld
<1>2. CASE k \in 1 .. Len(s)
  <2>1. k \in young /\ \A j \in young : k <= j
    BY <1>0, <1>2 DEF YoungFrom
  <2>2. \A i \in young : (\A j \in young : i <= j) => i = k
    BY <1>0, <2>1
  <2>3. (CHOOSE i \in young : \A j \in young : i <= j) = k
    BY <2>1, <2>2
  <2> QED BY <2>1, <2>3 DEF PruneOld
<1> QED BY <1>0, <1>1, <1>2

\* The pruned array is ordered, younger than a second and no longer.
LEMMA PruneOldProperties ==
  ASSUME NEW s \in Seq(Nat), Sorted(s)
  PROVE  /\ PruneOld(s) \in Seq(0 .. Second - 1)
         /\ Sorted(PruneOld(s))
         /\ Len(PruneOld(s)) <= Len(s)
<1>0. Len(s) \in Nat /\ DOMAIN s = 1 .. Len(s) /\ \A i \in 1 .. Len(s) : s[i] \in Nat
  BY LenProperties
<1>1. PICK k \in 1 .. Len(s) + 1 : YoungFrom(s, k)
  BY CutExists
<1>2. PruneOld(s) = SubSeq(s, k, Len(s))
  BY <1>1, PruneOldCut
<1>3. \A i \in k .. Len(s) : s[i] \in 0 .. Second - 1
  <2> SUFFICES ASSUME NEW i \in k .. Len(s)
               PROVE  s[i] \in 0 .. Second - 1
    OBVIOUS
  <2>1. i \in DOMAIN s /\ s[i] \in Nat
    BY <1>0, <1>1
  <2>2. s[i] < Second
    BY <1>0, <1>1, <2>1 DEF YoungFrom
  <2> QED BY <2>1, <2>2, Constants
<1> DEFINE r == SubSeq(s, k, Len(s))
<1>4. /\ r \in Seq(0 .. Second - 1)
      /\ Len(r) = IF k <= Len(s) THEN Len(s) - k + 1 ELSE 0
      /\ \A i \in 1 .. Len(s) - k + 1 : r[i] = s[k + i - 1]
  BY <1>0, <1>3, SubSeqProperties
<1>5. DOMAIN r = 1 .. Len(r)
  BY <1>4, LenProperties
<1>6. Sorted(r)
  <2> SUFFICES ASSUME NEW i \in 1 .. Len(r), NEW j \in 1 .. Len(r), i <= j
               PROVE  r[j] <= r[i]
    BY <1>5 DEF Sorted
  <2>1. r[i] = s[k + i - 1] /\ r[j] = s[k + j - 1]
    BY <1>0, <1>4
  <2>2. k + i - 1 \in DOMAIN s /\ k + j - 1 \in DOMAIN s /\ k + i - 1 <= k + j - 1
    BY <1>0, <1>4
  <2> QED BY <2>1, <2>2 DEF Sorted
<1> QED BY <1>0, <1>2, <1>4, <1>6

\* An array with nothing old in it is left alone, so pruning twice is pruning once.
LEMMA PruneOldYoung ==
  ASSUME NEW s \in Seq(0 .. Second - 1)
  PROVE  PruneOld(s) = s
<1>0. s \in Seq(Nat) /\ Len(s) \in Nat /\ DOMAIN s = 1 .. Len(s)
      /\ \A i \in 1 .. Len(s) : s[i] \in 0 .. Second - 1
  <2>1. 0 .. Second - 1 \subseteq Nat
    BY Constants
  <2>2. s \in Seq(Nat)
    BY <2>1, SeqMonotonic
  <2> QED BY <2>2, LenProperties, ElementOfSeq
<1>1. YoungFrom(s, 1)
  BY <1>0, Constants DEF YoungFrom
<1>2. PruneOld(s) = SubSeq(s, 1, Len(s))
  BY <1>0, <1>1, PruneOldCut
<1> QED BY <1>0, <1>2, SubSeqFull

\* The timestamp of a new connection keeps an array ordered and young.
LEMMA AppendZero ==
  ASSUME NEW s \in Seq(0 .. Second - 1), Sorted(s)
  PROVE  /\ Append(s, 0) \in Seq(0 .. Second - 1)
         /\ Sorted(Append(s, 0))
         /\ Len(Append(s, 0)) = Len(s) + 1
         /\ PruneOld(Append(s, 0)) = Append(s, 0)
<1>0. Len(s) \in Nat /\ DOMAIN s = 1 .. Len(s)
      /\ \A i \in 1 .. Len(s) : s[i] \in 0 .. Second - 1
  BY LenProperties
<1>1. /\ Append(s, 0) \in Seq(0 .. Second - 1)
      /\ Len(Append(s, 0)) = Len(s) + 1
      /\ \A i \in 1 .. Len(s) : Append(s, 0)[i] = s[i]
      /\ Append(s, 0)[Len(s) + 1] = 0
  BY Constants, AppendProperties
<1>2. DOMAIN Append(s, 0) = 1 .. Len(s) + 1
  BY <1>1, LenProperties
<1>3. Sorted(Append(s, 0))
  BY <1>0, <1>1, <1>2 DEF Sorted
<1> QED BY <1>1, <1>3, PruneOldYoung

\* Letting time pass and then pruning is the same whether or not the array was
\* pruned before: counting from the array or from the admissions agree.
LEMMA AgesGrow ==
  ASSUME NEW s \in Seq(0 .. Second), Sorted(s)
  PROVE  LET older == [i \in DOMAIN s |-> Older(s[i], Second)]
             a == PruneOld(s)
         IN  /\ older \in Seq(0 .. Second)
             /\ Sorted(older)
             /\ Len(older) = Len(s)
             /\ PruneOld([i \in DOMAIN a |-> a[i] + 1]) = PruneOld(older)
<1> DEFINE older == [i \in DOMAIN s |-> Older(s[i], Second)]
           a == PruneOld(s)
           a1 == [i \in DOMAIN a |-> a[i] + 1]
           n == Len(s)
<1>0. /\ n \in Nat /\ DOMAIN s = 1 .. n
      /\ \A i \in 1 .. n : s[i] \in 0 .. Second
      /\ s \in Seq(Nat)
  <2>1. 0 .. Second \subseteq Nat
    BY Constants
  <2>2. s \in Seq(Nat)
    BY <2>1, SeqMonotonic
  <2> QED BY <2>2, LenProperties, ElementOfSeq
<1>1. /\ DOMAIN older = 1 .. n
      /\ \A i \in 1 .. n : older[i] = Older(s[i], Second) /\ older[i] \in 0 .. Second
  BY <1>0, Constants DEF Older
<1>2. older \in Seq(0 .. Second) /\ older \in Seq(Nat) /\ Len(older) = n
  <2>1. older \in [1 .. n -> 0 .. Second]
    BY <1>0, <1>1
  <2>2. older \in Seq(0 .. Second)
    BY <1>0, <2>1, SeqDef
  <2> QED BY <1>0, <1>1, <2>2, SeqMonotonic, LenProperties
<1>3. Sorted(older)
  <2> SUFFICES ASSUME NEW i \in 1 .. n, NEW j \in 1 .. n, i <= j
               PROVE  older[j] <= older[i]
    BY <1>1 DEF Sorted
  <2>1. s[j] <= s[i]
    BY <1>0 DEF Sorted
  <2> QED BY <1>0, <1>1, <2>1, Constants DEF Older
<1>4. PICK k \in 1 .. n + 1 : YoungFrom(s, k)
  BY <1>0, CutExists
<1>5. PICK m \in 1 .. n + 1 : YoungFrom(older, m)
  BY <1>2, <1>3, CutExists
<1>6. a = SubSeq(s, k, n) /\ PruneOld(older) = SubSeq(older, m, n)
  BY <1>0, <1>2, <1>4, <1>5, PruneOldCut
<1>7. k <= m
  <2> SUFFICES ASSUME m < k
               PROVE  FALSE
    BY <1>4, <1>5
  <2>1. m \in 1 .. n
    BY <1>0
  <2>2. older[m] < Second /\ ~(s[m] < Second)
    BY <1>0, <1>1, <1>4, <1>5, <2>1 DEF YoungFrom
  <2> QED BY <1>0, <1>1, <2>1, <2>2, Constants DEF Older
<1>8. /\ a \in Seq(Nat)
      /\ Len(a) = n - k + 1
      /\ \A i \in 1 .. n - k + 1 : a[i] = s[k + i - 1]
  <2>1. \A i \in k .. n : s[i] \in Nat
    BY <1>0
  <2>2. /\ SubSeq(s, k, n) \in Seq(Nat)
        /\ Len(SubSeq(s, k, n)) = IF k <= n THEN n - k + 1 ELSE 0
        /\ \A i \in 1 .. n - k + 1 : SubSeq(s, k, n)[i] = s[k + i - 1]
    BY <1>0, <2>1, SubSeqProperties
  <2>3. (IF k <= n THEN n - k + 1 ELSE 0) = n - k + 1
    BY <1>0
  <2> HIDE DEF a, n
  <2> QED BY <1>6, <2>2, <2>3
<1>9. /\ a1 \in Seq(Nat)
      /\ Len(a1) = n - k + 1
      /\ DOMAIN a1 = 1 .. n - k + 1
      /\ \A i \in 1 .. n - k + 1 : a1[i] = s[k + i - 1] + 1
  <2>1. DOMAIN a = 1 .. n - k + 1
    BY <1>8, LenProperties
  <2> HIDE DEF a
  <2>2. \A i \in 1 .. n - k + 1 : a1[i] = s[k + i - 1] + 1 /\ a1[i] \in Nat
    <3> SUFFICES ASSUME NEW i \in 1 .. n - k + 1
                 PROVE  a1[i] = s[k + i - 1] + 1 /\ a1[i] \in Nat
      OBVIOUS
    <3>1. a1[i] = a[i] + 1
      BY <2>1
    <3>2. k + i - 1 \in 1 .. n
      BY <1>0
    <3>3. a[i] = s[k + i - 1] /\ s[k + i - 1] \in Nat
      BY <1>0, <1>8, <3>2
    <3> QED BY <3>1, <3>3
  <2>3. a1 \in [1 .. n - k + 1 -> Nat]
    BY <2>1, <2>2
  <2>4. a1 \in Seq(Nat)
    BY <1>0, <2>3, SeqDef
  <2> QED BY <1>0, <2>1, <2>2, <2>4, LenProperties
<1>10. YoungFrom(a1, m - k + 1)
  <2> SUFFICES ASSUME NEW i \in 1 .. n - k + 1
               PROVE  a1[i] < Second <=> m - k + 1 <= i
    BY <1>9 DEF YoungFrom
  <2> DEFINE j == k + i - 1
  <2>1. j \in 1 .. n /\ k <= j
    BY <1>0, <1>4
  <2>2. s[j] < Second
    BY <1>0, <1>4, <2>1 DEF YoungFrom
  <2>3. older[j] = s[j] + 1
    BY <1>1, <2>1, <2>2 DEF Older
  <2>4. older[j] < Second <=> m <= j
    BY <1>1, <1>5, <2>1 DEF YoungFrom
  <2> QED BY <1>9, <2>3, <2>4
<1>11. PruneOld(a1) = SubSeq(a1, m - k + 1, n - k + 1)
  <2> HIDE DEF a1
  <2>1. m - k + 1 \in 1 .. Len(a1) + 1
    BY <1>0, <1>7, <1>9
  <2> QED BY <1>9, <1>10, <2>1, PruneOldCut
<1>12. SubSeq(a1, m - k + 1, n - k + 1) = SubSeq(older, m, n)
  <2> HIDE DEF older, a1
  <2> DEFINE x == SubSeq(a1, m - k + 1, n - k + 1)
             y == SubSeq(older, m, n)
  <2>1. /\ x \in Seq(Nat)
        /\ Len(x) = n - m + 1
        /\ \A i \in 1 .. n - m + 1 : x[i] = a1[m - k + i]
    <3>1. \A i \in m - k + 1 .. n - k + 1 : a1[i] \in Nat
      BY <1>0, <1>7, <1>9, ElementOfSeq
    <3>2. /\ x \in Seq(Nat)
          /\ Len(x) = IF m - k + 1 <= n - k + 1 THEN (n - k + 1) - (m - k + 1) + 1 ELSE 0
          /\ \A i \in 1 .. (n - k + 1) - (m - k + 1) + 1 : x[i] = a1[(m - k + 1) + i - 1]
      BY <1>0, <3>1, SubSeqProperties
    <3> HIDE DEF x
    <3> QED BY <1>0, <3>2
  <2>2. /\ y \in Seq(Nat)
        /\ Len(y) = n - m + 1
        /\ \A i \in 1 .. n - m + 1 : y[i] = older[m + i - 1]
    <3>1. \A i \in m .. n : older[i] \in Nat
      BY <1>0, <1>1
    <3>2. /\ y \in Seq(Nat)
          /\ Len(y) = IF m <= n THEN n - m + 1 ELSE 0
          /\ \A i \in 1 .. n - m + 1 : y[i] = older[m + i - 1]
      BY <1>0, <3>1, SubSeqProperties
    <3> HIDE DEF y
    <3> QED BY <1>0, <3>2
  <2>3. \A i \in 1 .. n - m + 1 : a1[m - k + i] = older[m + i - 1]
    <3> SUFFICES ASSUME NEW i \in 1 .. n - m + 1
                 PROVE  a1[m - k + i] = older[m + i - 1]
      OBVIOUS
    <3> DEFINE j == m + i - 1
    <3>1. j \in 1 .. n /\ k <= j /\ m - k + i \in 1 .. n - k + 1 /\ k + (m - k + i) - 1 = j
      BY <1>0, <1>7
    <3>2. s[j] < Second
      BY <1>0, <1>4, <3>1 DEF YoungFrom
    <3>3. older[j] = s[j] + 1
      BY <1>1, <3>1, <3>2 DEF Older
    <3>4. a1[m - k + i] = s[j] + 1
      BY <1>9, <3>1
    <3> QED BY <3>3, <3>4
  <2> HIDE DEF x, y
  <2>4. x = y
    BY <2>1, <2>2, <2>3, SeqEqual
  <2> QED BY <2>4 DEF x, y
<1> QED BY <1>2, <1>3, <1>6, <1>11, <1>12

\* Outside a dispatch nothing is left to visit.
WalkOver == ~dispatching => toVisit = {}

\* connect_timestamps, oldest first, is never longer than the limit, and what pruning
\* leaves of it are the admissions of the last second, although the dispatcher does not
\* prune it (is_new_connection_allowed counts the array as it finds it).
AgesExact ==
  \A p \in Peer :
    /\ Sorted(timestamps[p])
    /\ admissions[p] = PruneOld(timestamps[p])
    /\ Len(timestamps[p]) <= MaxAttempts

\* The inductive invariant.
Inv ==
  /\ TypeOK
  /\ WalkOver
  /\ AgesExact
  /\ CountersMatchConnections
  /\ QueuesHoldDelayed

\* Every connection comes from a peer.
LEMMA PeerOfType == ASSUME NEW c \in Conn PROVE PeerOf[c] \in Peer
  BY ThrottlerAssumption

\* maybe_queue_timeout leaves the source armed for the earliest retry time.
LEMMA EarliestRetry ==
  ASSUME NEW t \in {Off} \cup 0 .. Interval, MaybeQueueTimeout(t),
         lastAccept' \in [Peer -> 0 .. Interval], peers' \subseteq Peer
  PROVE  /\ timer' \in {Off} \cup 0 .. Interval
         /\ \A u \in RetryTimes' : timer' # Off /\ timer' <= u
<1> DEFINE times == RetryTimes'
<1>1. times \in SUBSET (0 .. Interval)
  BY Constants DEF RetryTimes
<1>2. timer' = IF times = {} THEN t
               ELSE CHOOSE v \in times : \A u \in times : v <= u
  BY DEF MaybeQueueTimeout
<1> HIDE DEF times
<1>3. CASE times = {}
  BY <1>2, <1>3 DEF times
<1>4. CASE times # {}
  <2>1. times \in SUBSET Nat
    BY <1>1, Constants
  <2>2. \E v \in times : \A u \in times : v <= u
    BY <1>4, <2>1, MinNat
  <2>3. timer' \in times /\ \A u \in times : timer' <= u
    BY <1>2, <1>4, <2>2
  <2>4. timer' \in 0 .. Interval
    BY <1>1, <2>3
  <2> QED BY <2>3, <2>4, Constants DEF times, Off
<1> QED BY <1>3, <1>4

\* An admission within the rate keeps the array exact, pruned first or not.
LEMMA RegisterAges ==
  ASSUME NEW p \in Peer, NEW kept, NEW ages,
         TypeOK, AgesExact, Register(p, kept, ages),
         Sorted(ages), ages \in Seq(0 .. Second), PruneOld(ages) = PruneOld(timestamps[p]),
         Len(PruneOld(ages)) < MaxAttempts
  PROVE  /\ timestamps' \in [Peer -> Seq(0 .. Second)]
         /\ admissions' \in [Peer -> Seq(0 .. Second)]
         /\ AgesExact'
<1> DEFINE r == PruneOld(ages)
<1>1. 0 .. Second \subseteq Nat /\ 0 .. Second - 1 \subseteq 0 .. Second
  BY Constants
<1>2. ages \in Seq(Nat)
  BY <1>1, SeqMonotonic
<1>3. r \in Seq(0 .. Second - 1) /\ Sorted(r)
  BY <1>2, PruneOldProperties
<1>4. /\ Append(r, 0) \in Seq(0 .. Second - 1)
      /\ Sorted(Append(r, 0))
      /\ Len(Append(r, 0)) = Len(r) + 1
      /\ PruneOld(Append(r, 0)) = Append(r, 0)
  BY <1>3, AppendZero
<1>5. Append(r, 0) \in Seq(0 .. Second)
  BY <1>1, <1>4, SeqMonotonic
<1>6. timestamps' = [timestamps EXCEPT ![p] = Append(r, 0)]
  BY DEF Register
<1>7. admissions' = [admissions EXCEPT ![p] = Append(r, 0)]
  BY DEF Register, AgesExact, TypeOK
<1>8. Len(r) + 1 <= MaxAttempts
  BY <1>3, LenProperties, Constants
<1> HIDE DEF r
<1> QED BY <1>4, <1>5, <1>6, <1>7, <1>8 DEF TypeOK, AgesExact

\* What prune_old_timestamps makes of the array of a peer.
LEMMA PrunedAges ==
  ASSUME NEW p \in Peer, TypeOK, AgesExact
  PROVE  /\ PruneOld(timestamps[p]) \in Seq(0 .. Second)
         /\ Sorted(PruneOld(timestamps[p]))
         /\ PruneOld(PruneOld(timestamps[p])) = PruneOld(timestamps[p])
         /\ Len(PruneOld(timestamps[p])) <= Len(timestamps[p])
<1>1. 0 .. Second \subseteq Nat /\ 0 .. Second - 1 \subseteq 0 .. Second
  BY Constants
<1>2. timestamps[p] \in Seq(Nat)
  BY <1>1, SeqMonotonic DEF TypeOK
<1>3. /\ PruneOld(timestamps[p]) \in Seq(0 .. Second - 1)
      /\ Sorted(PruneOld(timestamps[p]))
      /\ Len(PruneOld(timestamps[p])) <= Len(timestamps[p])
  BY <1>2, PruneOldProperties DEF AgesExact
<1>4. PruneOld(timestamps[p]) \in Seq(0 .. Second)
  BY <1>1, <1>3, SeqMonotonic
<1> QED BY <1>3, <1>4, PruneOldYoung

\* Pruning without an admission keeps the array exact.
LEMMA PruneStep ==
  ASSUME NEW p \in Peer, TypeOK, AgesExact,
         timestamps' = [timestamps EXCEPT ![p] = PruneOld(timestamps[p])],
         UNCHANGED admissions
  PROVE  /\ timestamps' \in [Peer -> Seq(0 .. Second)]
         /\ AgesExact'
<1>1. Len(PruneOld(timestamps[p])) <= MaxAttempts
  <2>1. Len(PruneOld(timestamps[p])) \in Nat /\ Len(timestamps[p]) \in Nat
    BY PrunedAges, LenProperties DEF TypeOK
  <2> QED BY <2>1, PrunedAges, Constants DEF AgesExact
<1> QED BY <1>1, PrunedAges DEF TypeOK, AgesExact

\* grd_throttler_handle_connection keeps the arrays exact.
LEMMA IncomingAges ==
  ASSUME NEW c \in Conn, TypeOK, AgesExact, Incoming(c)
  PROVE  /\ timestamps' \in [Peer -> Seq(0 .. Second)]
         /\ admissions' \in [Peer -> Seq(0 .. Second)]
         /\ AgesExact'
<1> DEFINE p == PeerOf[c]
           pruned == PruneOld(timestamps[p])
<1>1. p \in Peer
  BY PeerOfType
<1>2. CASE MayEnter(p, pruned) /\ Register(p, TRUE, pruned)
  <2>1. Len(PruneOld(pruned)) < MaxAttempts
    BY <1>1, <1>2, PrunedAges DEF MayEnter, IsNewConnectionAllowed
  <2> QED BY <1>1, <1>2, <2>1, PrunedAges, RegisterAges
<1>3. CASE timestamps' = [timestamps EXCEPT ![p] = pruned] /\ UNCHANGED admissions
  BY <1>1, <1>3, PruneStep DEF TypeOK
<1> QED BY <1>2, <1>3 DEF Incoming

\* The dispatcher keeps them exact although it tests the unpruned array.
LEMMA VisitAllowedAges ==
  ASSUME NEW p \in Peer, TypeOK, AgesExact, VisitAllowed(p)
  PROVE  /\ timestamps' \in [Peer -> Seq(0 .. Second)]
         /\ admissions' \in [Peer -> Seq(0 .. Second)]
         /\ AgesExact'
<1>1. Len(PruneOld(timestamps[p])) < MaxAttempts
  <2>1. Len(PruneOld(timestamps[p])) \in Nat /\ Len(timestamps[p]) \in Nat
    BY PrunedAges, LenProperties DEF TypeOK
  <2> QED BY <2>1, PrunedAges, Constants DEF VisitAllowed, IsNewConnectionAllowed
<1>2. Sorted(timestamps[p]) /\ timestamps[p] \in Seq(0 .. Second)
  BY DEF TypeOK, AgesExact
<1>3. \E kept \in BOOLEAN : Register(p, kept, timestamps[p])
  BY DEF VisitAllowed
<1> QED BY <1>1, <1>2, <1>3, RegisterAges

\* The passing of time keeps them exact.
LEMMA TickAges ==
  ASSUME TypeOK, AgesExact, Tick
  PROVE  /\ timestamps' \in [Peer -> Seq(0 .. Second)]
         /\ admissions' \in [Peer -> Seq(0 .. Second)]
         /\ AgesExact'
<1> SUFFICES ASSUME NEW p \in Peer
             PROVE  /\ timestamps'[p] \in Seq(0 .. Second)
                    /\ admissions'[p] \in Seq(0 .. Second)
                    /\ Sorted(timestamps'[p])
                    /\ admissions'[p] = PruneOld(timestamps'[p])
                    /\ Len(timestamps'[p]) <= MaxAttempts
  BY DEF Tick, AgesExact
<1> DEFINE older == [i \in DOMAIN timestamps[p] |-> Older(timestamps[p][i], Second)]
           a == PruneOld(timestamps[p])
<1>1. timestamps'[p] = older
  BY DEF Tick
<1>2. admissions'[p] = PruneOld([i \in DOMAIN a |-> a[i] + 1])
  BY DEF Tick, AgesExact
<1>3. timestamps[p] \in Seq(0 .. Second) /\ Sorted(timestamps[p])
  BY DEF TypeOK, AgesExact
<1>4. /\ older \in Seq(0 .. Second)
      /\ Sorted(older)
      /\ Len(older) = Len(timestamps[p])
      /\ PruneOld([i \in DOMAIN a |-> a[i] + 1]) = PruneOld(older)
  BY <1>3, AgesGrow
<1> HIDE DEF older, a
<1>5. PruneOld(older) \in Seq(0 .. Second)
  <2>1. 0 .. Second \subseteq Nat /\ 0 .. Second - 1 \subseteq 0 .. Second
    BY Constants
  <2>2. older \in Seq(Nat)
    BY <1>4, <2>1, SeqMonotonic
  <2>3. PruneOld(older) \in Seq(0 .. Second - 1)
    BY <1>4, <2>2, PruneOldProperties
  <2> QED BY <2>1, <2>3, SeqMonotonic
<1> QED BY <1>1, <1>2, <1>4, <1>5 DEF AgesExact

\* maybe_dispose_peer drops at most the peer it is given.
LEMMA DisposeType ==
  ASSUME NEW p \in Peer, NEW disposable, TypeOK, MaybeDisposePeer(p, disposable)
  PROVE  /\ peers' \subseteq peers
         /\ peers \subseteq peers' \cup {p}
         /\ lastAccept' \in [Peer -> 0 .. Interval]
BY Constants DEF TypeOK, MaybeDisposePeer

\* An admission keeps the types of the counters.
LEMMA RegisterType ==
  ASSUME NEW p \in Peer, NEW kept \in BOOLEAN, NEW ages, TypeOK, Register(p, kept, ages)
  PROVE  /\ active' \in [Peer -> Nat]
         /\ globalActive' \in Nat
         /\ lastAccept' \in [Peer -> 0 .. Interval]
<1>1. CASE kept
  BY <1>1, Constants DEF TypeOK, Register
<1>2. CASE ~kept
  BY <1>2, Constants DEF TypeOK, Register
<1> QED BY <1>1, <1>2

\* Every step keeps the types, the walk and the arrays.  That a counter is never
\* decremented below zero needs CountersMatchConnections.
LEMMA TypeStep ==
  ASSUME Inv, [Next]_vars
  PROVE  TypeOK' /\ WalkOver' /\ AgesExact'
<1> USE DEF Inv
<1>1. ASSUME NEW c \in Conn, Incoming(c)
      PROVE  TypeOK' /\ WalkOver' /\ AgesExact'
  <2> DEFINE p == PeerOf[c]
  <2>1. p \in Peer
    BY PeerOfType
  <2>2. /\ timestamps' \in [Peer -> Seq(0 .. Second)]
        /\ admissions' \in [Peer -> Seq(0 .. Second)]
        /\ AgesExact'
    BY <1>1, IncomingAges
  <2>3. /\ conn' \in [Conn -> {"idle", "delayed", "active"}]
        /\ peers' \subseteq Peer
        /\ dispatching' \in BOOLEAN
        /\ toVisit' \subseteq peers'
        /\ WalkOver'
    BY <1>1, <2>1 DEF TypeOK, WalkOver, Incoming
  <2>4. /\ active' \in [Peer -> Nat]
        /\ globalActive' \in Nat
        /\ lastAccept' \in [Peer -> 0 .. Interval]
    <3>1. \/ Register(p, TRUE, PruneOld(timestamps[p]))
          \/ UNCHANGED <<active, globalActive, lastAccept>>
      BY <1>1 DEF Incoming
    <3> QED BY <2>1, <3>1, RegisterType DEF TypeOK
  <2>5. queue' \in [Peer -> Seq(Conn)]
    <3>1. Append(queue[p], c) \in Seq(Conn)
      BY <2>1, AppendProperties DEF TypeOK
    <3> QED BY <1>1, <2>1, <3>1 DEF TypeOK, Incoming
  <2>6. timer' \in {Off} \cup 0 .. Interval
    <3>1. timer' = timer \/ MaybeQueueTimeout(timer)
      BY <1>1 DEF Incoming
    <3> QED BY <2>3, <2>4, <3>1, EarliestRetry DEF TypeOK
  <2> QED BY <2>2, <2>3, <2>4, <2>5, <2>6 DEF TypeOK
<1>2. ASSUME NEW c \in Conn, Finalize(c)
      PROVE  TypeOK' /\ WalkOver' /\ AgesExact'
  <2> DEFINE p == PeerOf[c]
  <2>1. p \in Peer
    BY PeerOfType
  <2>2. active[p] > 0 /\ globalActive > 0
    <3> DEFINE own == {d \in ActiveConns : PeerOf[d] = p}
    <3>1. c \in own /\ c \in ActiveConns
      BY <1>2 DEF Finalize, ActiveConns
    <3>2. IsFiniteSet(own) /\ IsFiniteSet(ActiveConns)
      BY ThrottlerAssumption, FS_Subset DEF ActiveConns
    <3>3. Cardinality(own) # 0 /\ Cardinality(ActiveConns) # 0
      BY <3>1, <3>2, FS_EmptySet
    <3>4. active[p] = Cardinality(own) /\ globalActive = Cardinality(ActiveConns)
      BY <2>1 DEF CountersMatchConnections
    <3> HIDE DEF own
    <3> QED BY <2>1, <3>3, <3>4 DEF TypeOK
  <2>3. MaybeDisposePeer(p, IsDisposable(p)')
    BY <1>2 DEF Finalize
  <2>4. /\ peers' \subseteq peers
        /\ lastAccept' \in [Peer -> 0 .. Interval]
    BY <2>1, <2>3, DisposeType
  <2>5. timer' \in {Off} \cup 0 .. Interval
    BY <1>2, <2>4, EarliestRetry DEF Finalize, TypeOK
  <2>6. active' \in [Peer -> Nat] /\ globalActive' \in Nat
    BY <1>2, <2>1, <2>2 DEF Finalize, TypeOK
  <2>7. toVisit' \subseteq peers' /\ WalkOver'
    BY <1>2 DEF Finalize, WalkOver
  <2> QED BY <1>2, <2>4, <2>5, <2>6, <2>7 DEF Finalize, TypeOK, AgesExact
<1>3. CASE DispatchBegin
  BY <1>3 DEF DispatchBegin, TypeOK, WalkOver, AgesExact, peerVars, Off
<1>4. ASSUME NEW p \in Peer, VisitIdle(p)
      PROVE  TypeOK' /\ WalkOver' /\ AgesExact'
  <2>1. MaybeDisposePeer(p, IsDisposable(p))
    BY <1>4 DEF VisitIdle
  <2>2. /\ peers' \subseteq peers
        /\ peers \subseteq peers' \cup {p}
        /\ lastAccept' \in [Peer -> 0 .. Interval]
    BY <2>1, DisposeType
  <2>3. toVisit' \subseteq peers' /\ WalkOver'
    BY <1>4, <2>2 DEF VisitIdle, WalkOver, TypeOK
  <2> QED BY <1>4, <2>2, <2>3 DEF VisitIdle, TypeOK, AgesExact
<1>5. ASSUME NEW p \in Peer, VisitAllowed(p)
      PROVE  TypeOK' /\ WalkOver' /\ AgesExact'
  <2>1. /\ timestamps' \in [Peer -> Seq(0 .. Second)]
        /\ admissions' \in [Peer -> Seq(0 .. Second)]
        /\ AgesExact'
    BY <1>5, VisitAllowedAges
  <2>2. Head(queue[p]) \in Conn /\ Tail(queue[p]) \in Seq(Conn)
    BY <1>5, HeadTailProperties DEF VisitAllowed, TypeOK
  <2>3. /\ conn' \in [Conn -> {"idle", "delayed", "active"}]
        /\ peers' \subseteq Peer
        /\ queue' \in [Peer -> Seq(Conn)]
        /\ dispatching' \in BOOLEAN
        /\ toVisit' \subseteq peers'
        /\ WalkOver'
    BY <1>5, <2>2 DEF TypeOK, WalkOver, VisitAllowed
  <2>4. /\ active' \in [Peer -> Nat]
        /\ globalActive' \in Nat
        /\ lastAccept' \in [Peer -> 0 .. Interval]
    <3>1. \E kept \in BOOLEAN : Register(p, kept, timestamps[p])
      BY <1>5 DEF VisitAllowed
    <3> QED BY <3>1, RegisterType
  <2>5. timer' \in {Off} \cup 0 .. Interval
    <3>1. timer' = timer \/ MaybeQueueTimeout(timer)
      BY <1>5 DEF VisitAllowed
    <3> QED BY <2>3, <2>4, <3>1, EarliestRetry DEF TypeOK
  <2> QED BY <2>1, <2>3, <2>4, <2>5 DEF TypeOK
<1>6. ASSUME NEW p \in Peer, VisitRefused(p)
      PROVE  TypeOK' /\ WalkOver' /\ AgesExact'
  BY <1>6 DEF VisitRefused, TypeOK, WalkOver, AgesExact, peerVars
<1>7. CASE DispatchEnd
  <2>1. timer' \in {Off} \cup 0 .. Interval
    BY <1>7, EarliestRetry DEF DispatchEnd, TypeOK, peerVars
  <2> QED BY <1>7, <2>1 DEF DispatchEnd, TypeOK, WalkOver, AgesExact, peerVars
<1>8. CASE Tick
  <2>1. /\ timestamps' \in [Peer -> Seq(0 .. Second)]
        /\ admissions' \in [Peer -> Seq(0 .. Second)]
        /\ AgesExact'
    BY <1>8, TickAges
  <2>2. lastAccept' \in [Peer -> 0 .. Interval]
    BY <1>8, Constants DEF Tick, TypeOK, Older
  <2>3. timer' \in {Off} \cup 0 .. Interval
    BY <1>8, Constants DEF Tick, TypeOK, Off
  <2> QED BY <1>8, <2>1, <2>2, <2>3 DEF Tick, TypeOK, WalkOver
<1>9. CASE UNCHANGED vars
  BY <1>9 DEF vars, peerVars, TypeOK, WalkOver, AgesExact
<1> QED
  BY <1>1, <1>2, <1>3, <1>4, <1>5, <1>6, <1>7, <1>8, <1>9 DEF Next, Dispatch

\* The connections of a peer that are in service.
ActiveOf(p) == {c \in ActiveConns : PeerOf[c] = p}

\* The connections in service are finitely many.
LEMMA ActiveFinite ==
  /\ IsFiniteSet(ActiveConns)
  /\ \A p \in Peer : IsFiniteSet(ActiveOf(p))
BY ThrottlerAssumption, FS_Subset DEF ActiveConns, ActiveOf

\* The same after a step.
LEMMA ActiveFinitePrime ==
  /\ IsFiniteSet(ActiveConns')
  /\ \A p \in Peer : IsFiniteSet(ActiveOf(p)')
BY ThrottlerAssumption, FS_Subset DEF ActiveConns, ActiveOf

\* Counting one connection more.
LEMMA CountersJoin ==
  ASSUME TypeOK, CountersMatchConnections,
         NEW c \in Conn, conn[c] # "active",
         conn' = [conn EXCEPT ![c] = "active"],
         active' = [active EXCEPT ![PeerOf[c]] = @ + 1],
         globalActive' = globalActive + 1,
         peers \subseteq peers', PeerOf[c] \in peers'
  PROVE  CountersMatchConnections'
<1>1. ActiveConns' = ActiveConns \cup {c} /\ c \notin ActiveConns
  BY DEF ActiveConns, TypeOK
<1>2. globalActive' = Cardinality(ActiveConns')
  BY <1>1, ActiveFinite, FS_AddElement DEF CountersMatchConnections
<1>3. ASSUME NEW p \in Peer
      PROVE  active'[p] = Cardinality(ActiveOf(p)')
  <2>0. active[p] = Cardinality(ActiveOf(p))
    BY DEF CountersMatchConnections, ActiveOf
  <2>1. CASE p = PeerOf[c]
    <3>1. ActiveOf(p)' = ActiveOf(p) \cup {c} /\ c \notin ActiveOf(p)
      BY <1>1, <2>1 DEF ActiveOf
    <3>2. Cardinality(ActiveOf(p)') = Cardinality(ActiveOf(p)) + 1
      BY <3>1, ActiveFinite, FS_AddElement
    <3> QED BY <2>0, <2>1, <3>2 DEF TypeOK
  <2>2. CASE p # PeerOf[c]
    <3>1. ActiveOf(p)' = ActiveOf(p)
      BY <1>1, <2>2 DEF ActiveOf
    <3> QED BY <2>0, <2>2, <3>1 DEF TypeOK
  <2> QED BY <2>1, <2>2
<1>4. \A d \in ActiveConns' : PeerOf[d] \in peers'
  BY <1>1 DEF CountersMatchConnections
<1> QED BY <1>2, <1>3, <1>4 DEF CountersMatchConnections, ActiveOf

\* Counting one connection less; its entry goes only with the last one.
LEMMA CountersLeave ==
  ASSUME TypeOK, CountersMatchConnections,
         NEW c \in Conn, conn[c] = "active",
         conn' = [conn EXCEPT ![c] = "idle"],
         active' = [active EXCEPT ![PeerOf[c]] = @ - 1],
         globalActive' = globalActive - 1,
         \A p \in peers : active'[p] # 0 => p \in peers'
  PROVE  CountersMatchConnections'
<1>1. ActiveConns' = ActiveConns \ {c} /\ c \in ActiveConns
  BY DEF ActiveConns, TypeOK
<1>2. globalActive' = Cardinality(ActiveConns')
  BY <1>1, ActiveFinite, FS_RemoveElement DEF CountersMatchConnections
<1>3. ASSUME NEW p \in Peer
      PROVE  active'[p] = Cardinality(ActiveOf(p)')
  <2>0. active[p] = Cardinality(ActiveOf(p))
    BY DEF CountersMatchConnections, ActiveOf
  <2>1. CASE p = PeerOf[c]
    <3>1. ActiveOf(p)' = ActiveOf(p) \ {c} /\ c \in ActiveOf(p)
      BY <1>1, <2>1 DEF ActiveOf
    <3>2. Cardinality(ActiveOf(p)') = Cardinality(ActiveOf(p)) - 1
      BY <3>1, ActiveFinite, FS_RemoveElement
    <3> QED BY <2>0, <2>1, <3>2 DEF TypeOK
  <2>2. CASE p # PeerOf[c]
    <3>1. ActiveOf(p)' = ActiveOf(p)
      BY <1>1, <2>2 DEF ActiveOf
    <3> QED BY <2>0, <2>2, <3>1 DEF TypeOK
  <2> QED BY <2>1, <2>2
<1>4. ASSUME NEW d \in ActiveConns'
      PROVE  PeerOf[d] \in peers'
  <2>1. d \in ActiveConns /\ d \in Conn
    BY <1>1 DEF ActiveConns
  <2>2. PeerOf[d] \in Peer /\ PeerOf[d] \in peers
    BY <2>1, PeerOfType DEF CountersMatchConnections
  <2>3. d \in ActiveOf(PeerOf[d])'
    BY <1>4 DEF ActiveOf
  <2>4. Cardinality(ActiveOf(PeerOf[d])') # 0
    BY <2>2, <2>3, ActiveFinitePrime, FS_EmptySet
  <2> QED BY <1>3, <2>2, <2>4
<1> QED BY <1>2, <1>3, <1>4 DEF CountersMatchConnections, ActiveOf

\* A step that does not touch the connections in service.
LEMMA CountersSame ==
  ASSUME CountersMatchConnections, ActiveConns' = ActiveConns,
         UNCHANGED <<active, globalActive>>,
         peers \subseteq peers'
  PROVE  CountersMatchConnections'
BY DEF CountersMatchConnections

\* Every step keeps the counters right.  The dispatcher needs QueuesHoldDelayed: the
\* connection it serves is not in service yet and comes from the peer it visits.
LEMMA CountersStep ==
  ASSUME Inv, [Next]_vars
  PROVE  CountersMatchConnections'
<1> USE DEF Inv
<1>1. ASSUME NEW c \in Conn, Incoming(c)
      PROVE  CountersMatchConnections'
  <2>1. peers \subseteq peers' /\ PeerOf[c] \in peers'
    BY <1>1 DEF Incoming
  <2>2. CASE conn' = [conn EXCEPT ![c] = "active"]
             /\ Register(PeerOf[c], TRUE, PruneOld(timestamps[PeerOf[c]]))
    <3>1. /\ active' = [active EXCEPT ![PeerOf[c]] = @ + 1]
          /\ globalActive' = globalActive + 1
      BY <2>2 DEF Register
    <3>2. conn[c] # "active"
      BY <1>1 DEF Incoming
    <3> QED BY <2>1, <2>2, <3>1, <3>2, CountersJoin
  <2>3. CASE conn' \in {conn, [conn EXCEPT ![c] = "delayed"]}
             /\ UNCHANGED <<active, globalActive>>
    <3>1. ActiveConns' = ActiveConns
      BY <1>1, <2>3 DEF Incoming, ActiveConns, TypeOK
    <3> QED BY <2>1, <2>3, <3>1, CountersSame
  <2> QED BY <1>1, <2>2, <2>3 DEF Incoming
<1>2. ASSUME NEW c \in Conn, Finalize(c)
      PROVE  CountersMatchConnections'
  <2>1. \A p \in peers : active'[p] # 0 => p \in peers'
    BY <1>2 DEF Finalize, MaybeDisposePeer, IsDisposable
  <2> QED BY <1>2, <2>1, CountersLeave DEF Finalize
<1>3. CASE DispatchBegin \/ DispatchEnd \/ Tick \/ UNCHANGED vars
  <2>1. UNCHANGED <<conn, active, globalActive, peers>>
    BY <1>3 DEF DispatchBegin, DispatchEnd, Tick, vars, peerVars
  <2>2. ActiveConns' = ActiveConns
    BY <2>1 DEF ActiveConns
  <2> QED BY <2>1, <2>2, CountersSame
<1>4. ASSUME NEW p \in Peer, VisitIdle(p)
      PROVE  CountersMatchConnections'
  <2>1. UNCHANGED <<conn, active, globalActive>>
    BY <1>4 DEF VisitIdle
  <2>2. ActiveConns' = ActiveConns
    BY <2>1 DEF ActiveConns
  <2>3. \A q \in peers : active[q] # 0 => q \in peers'
    BY <1>4 DEF VisitIdle, MaybeDisposePeer, IsDisposable
  <2>4. ASSUME NEW d \in ActiveConns
        PROVE  PeerOf[d] \in peers'
    <3>1. d \in Conn
      BY DEF ActiveConns
    <3>2. PeerOf[d] \in Peer /\ PeerOf[d] \in peers
      BY <3>1, PeerOfType DEF CountersMatchConnections
    <3>3. d \in ActiveOf(PeerOf[d])
      BY DEF ActiveOf
    <3>4. Cardinality(ActiveOf(PeerOf[d])) # 0
      BY <3>2, <3>3, ActiveFinite, FS_EmptySet
    <3>5. active[PeerOf[d]] = Cardinality(ActiveOf(PeerOf[d]))
      BY <3>2 DEF CountersMatchConnections, ActiveOf
    <3> QED BY <2>3, <3>2, <3>4, <3>5
  <2> QED BY <2>1, <2>2, <2>4 DEF CountersMatchConnections
<1>5. ASSUME NEW p \in Peer, VisitAllowed(p)
      PROVE  CountersMatchConnections'
  <2> DEFINE c == Head(queue[p])
  <2>1. c \in Conn /\ conn[c] = "delayed" /\ PeerOf[c] = p /\ p \in peers
    <3>1. queue[p] \in Seq(Conn) /\ queue[p] # <<>>
      BY <1>5 DEF VisitAllowed, TypeOK
    <3>2. 1 \in DOMAIN queue[p] /\ c = queue[p][1] /\ c \in Conn
      BY <3>1
    <3>3. p \in peers
      BY <1>5 DEF VisitAllowed, TypeOK
    <3> QED BY <3>2, <3>3 DEF QueuesHoldDelayed
  <2>2. CASE conn' = [conn EXCEPT ![c] = "active"] /\ Register(p, TRUE, timestamps[p])
    <3>1. /\ active' = [active EXCEPT ![PeerOf[c]] = @ + 1]
          /\ globalActive' = globalActive + 1
      BY <2>1, <2>2 DEF Register
    <3>2. peers' = peers
      BY <1>5 DEF VisitAllowed
    <3> HIDE DEF c
    <3> QED BY <2>1, <2>2, <3>1, <3>2, CountersJoin
  <2>3. CASE conn' = [conn EXCEPT ![c] = "idle"] /\ Register(p, FALSE, timestamps[p])
    <3>1. UNCHANGED <<active, globalActive, peers>>
      BY <1>5, <2>3 DEF Register, VisitAllowed, TypeOK
    <3>2. ActiveConns' = ActiveConns
      BY <2>1, <2>3 DEF ActiveConns, TypeOK
    <3> QED BY <3>1, <3>2, CountersSame
  <2> QED BY <1>5, <2>2, <2>3 DEF VisitAllowed
<1>6. ASSUME NEW p \in Peer, VisitRefused(p)
      PROVE  CountersMatchConnections'
  <2>1. UNCHANGED <<conn, active, globalActive, peers>>
    BY <1>6 DEF VisitRefused, peerVars
  <2>2. ActiveConns' = ActiveConns
    BY <2>1 DEF ActiveConns
  <2> QED BY <2>1, <2>2, CountersSame
<1> QED
  BY <1>1, <1>2, <1>3, <1>4, <1>5, <1>6 DEF Next, Dispatch

\* A step that leaves the queues alone and drops no entry with a queue.
LEMMA QueuesKept ==
  ASSUME TypeOK, QueuesHoldDelayed, UNCHANGED queue,
         \A c \in Conn : conn[c] = "delayed" <=> conn'[c] = "delayed",
         \A p \in peers : queue[p] # <<>> => p \in peers'
  PROVE  QueuesHoldDelayed'
<1>1. ASSUME NEW p \in Peer, NEW i \in DOMAIN queue[p]
      PROVE  queue[p][i] \in Conn
  BY <1>1 DEF TypeOK
<1>2. ASSUME NEW c \in Conn, conn'[c] = "delayed"
      PROVE  PeerOf[c] \in peers' /\ \E i \in DOMAIN queue[PeerOf[c]] : queue[PeerOf[c]][i] = c
  <2>1. PeerOf[c] \in Peer /\ conn[c] = "delayed"
    BY <1>2, PeerOfType
  <2>2. PeerOf[c] \in peers /\ \E i \in DOMAIN queue[PeerOf[c]] : queue[PeerOf[c]][i] = c
    BY <2>1 DEF QueuesHoldDelayed
  <2>3. queue[PeerOf[c]] # <<>>
    BY <2>2
  <2> QED BY <2>2, <2>3
<1> QED BY <1>1, <1>2 DEF QueuesHoldDelayed

\* Queueing a new connection.
LEMMA QueuesGrow ==
  ASSUME TypeOK, QueuesHoldDelayed,
         NEW c \in Conn, conn[c] = "idle",
         conn' = [conn EXCEPT ![c] = "delayed"],
         queue' = [queue EXCEPT ![PeerOf[c]] = Append(@, c)],
         peers' = peers \cup {PeerOf[c]}
  PROVE  QueuesHoldDelayed'
<1> DEFINE p == PeerOf[c]
           n == Len(queue[p])
<1>0. p \in Peer
  BY PeerOfType
<1>1. queue[p] \in Seq(Conn) /\ n \in Nat /\ DOMAIN queue[p] = 1 .. n
  BY <1>0, LenProperties DEF TypeOK
<1>2. /\ queue'[p] = Append(queue[p], c)
      /\ DOMAIN queue'[p] = 1 .. n + 1
      /\ \A i \in 1 .. n : queue'[p][i] = queue[p][i]
      /\ queue'[p][n + 1] = c
  BY <1>0, <1>1 DEF TypeOK
<1>3. \A q \in Peer : q # p => queue'[q] = queue[q]
  BY DEF TypeOK
<1>4. \A q \in Peer : \A i \in DOMAIN queue[q] : queue[q][i] \in Conn /\ queue[q][i] # c
  BY DEF QueuesHoldDelayed, TypeOK
<1>5. ASSUME NEW q \in Peer, NEW i \in DOMAIN queue'[q]
      PROVE  /\ conn'[queue'[q][i]] = "delayed"
             /\ PeerOf[queue'[q][i]] = q
             /\ \A j \in DOMAIN queue'[q] : queue'[q][i] = queue'[q][j] => i = j
  <2>1. CASE q = p
    <3> DEFINE old == queue[p]
               new == queue'[p]
    <3>1. /\ DOMAIN old = 1 .. n /\ DOMAIN new = 1 .. n + 1
          /\ \A k \in 1 .. n : new[k] = old[k] /\ old[k] \in Conn /\ old[k] # c
          /\ new[n + 1] = c
      BY <1>0, <1>1, <1>2, <1>4
    <3>2. \A k \in 1 .. n : /\ conn[old[k]] = "delayed" /\ PeerOf[old[k]] = p
                           /\ \A j \in 1 .. n : old[k] = old[j] => k = j
      BY <1>0, <3>1 DEF QueuesHoldDelayed
    <3>3. conn'[c] = "delayed" /\ \A d \in Conn : d # c => conn'[d] = conn[d]
      BY DEF TypeOK
    <3> HIDE DEF old, new
    <3>4. CASE i = n + 1
      BY <1>1, <2>1, <3>1, <3>3, <3>4 DEF old, new
    <3>5. CASE i \in 1 .. n
      <4>1. new[i] = old[i] /\ old[i] \in Conn /\ old[i] # c
        BY <3>1, <3>5
      <4>2. conn'[new[i]] = "delayed" /\ PeerOf[new[i]] = p
        BY <3>2, <3>3, <3>5, <4>1
      <4>3. ASSUME NEW j \in DOMAIN new, new[i] = new[j] PROVE i = j
        BY <1>1, <3>1, <3>2, <3>5, <4>1, <4>3
      <4> QED BY <2>1, <4>2, <4>3 DEF new
    <3> QED BY <1>1, <2>1, <3>1, <3>4, <3>5 DEF new
  <2>2. CASE q # p
    BY <1>3, <1>4, <2>2 DEF QueuesHoldDelayed, TypeOK
  <2> QED BY <2>1, <2>2
<1>6. ASSUME NEW d \in Conn, conn'[d] = "delayed"
      PROVE  PeerOf[d] \in peers' /\ \E i \in DOMAIN queue'[PeerOf[d]] : queue'[PeerOf[d]][i] = d
  <2>1. CASE d = c
    BY <1>1, <1>2, <2>1
  <2>2. CASE d # c
    <3>1. PeerOf[d] \in Peer /\ conn[d] = "delayed"
      BY <1>6, <2>2, PeerOfType DEF TypeOK
    <3>2. PeerOf[d] \in peers
      BY <3>1 DEF QueuesHoldDelayed
    <3>3. PICK i \in DOMAIN queue[PeerOf[d]] : queue[PeerOf[d]][i] = d
      BY <3>1 DEF QueuesHoldDelayed
    <3>4. i \in DOMAIN queue'[PeerOf[d]] /\ queue'[PeerOf[d]][i] = d
      BY <1>1, <1>2, <1>3, <3>1, <3>3
    <3> QED BY <3>2, <3>4
  <2> QED BY <2>1, <2>2
<1> QED BY <1>5, <1>6 DEF QueuesHoldDelayed

\* Taking the head of a queue.
LEMMA QueuesServe ==
  ASSUME TypeOK, QueuesHoldDelayed, NEW p \in Peer, queue[p] # <<>>,
         NEW next \in {"active", "idle"},
         conn' = [conn EXCEPT ![Head(queue[p])] = next],
         queue' = [queue EXCEPT ![p] = Tail(@)],
         UNCHANGED peers
  PROVE  QueuesHoldDelayed'
<1> DEFINE c == Head(queue[p])
           n == Len(queue[p])
<1>1. queue[p] \in Seq(Conn) /\ n \in Nat \ {0} /\ DOMAIN queue[p] = 1 .. n
      /\ c = queue[p][1] /\ c \in Conn
  BY DEF TypeOK
<1>2. /\ queue'[p] = Tail(queue[p])
      /\ DOMAIN queue'[p] = 1 .. n - 1
      /\ \A i \in 1 .. n - 1 : queue'[p][i] = queue[p][i + 1]
  <2>1. queue'[p] = Tail(queue[p])
    BY DEF TypeOK
  <2>2. /\ Tail(queue[p]) \in Seq(Conn)
        /\ Len(Tail(queue[p])) = n - 1
        /\ \A i \in 1 .. Len(Tail(queue[p])) : Tail(queue[p])[i] = queue[p][i + 1]
    BY <1>1, HeadTailProperties
  <2>3. DOMAIN Tail(queue[p]) = 1 .. n - 1
    BY <2>2, LenProperties
  <2> QED BY <2>1, <2>2, <2>3
<1>3. \A q \in Peer : q # p => queue'[q] = queue[q]
  BY DEF TypeOK
<1>4. /\ PeerOf[c] = p
      /\ \A i \in 2 .. n : queue[p][i] # c
  BY <1>1 DEF QueuesHoldDelayed
<1>5. \A q \in Peer : \A i \in DOMAIN queue[q] : queue[q][i] \in Conn
  BY DEF TypeOK
<1>6. conn'[c] # "delayed" /\ \A d \in Conn : d # c => conn'[d] = conn[d]
  BY <1>1 DEF TypeOK
<1> HIDE DEF c
<1>7. ASSUME NEW q \in Peer, NEW i \in DOMAIN queue'[q]
      PROVE  /\ conn'[queue'[q][i]] = "delayed"
             /\ PeerOf[queue'[q][i]] = q
             /\ \A j \in DOMAIN queue'[q] : queue'[q][i] = queue'[q][j] => i = j
  <2>1. CASE q = p
    <3>1. i \in 1 .. n - 1 /\ i + 1 \in DOMAIN queue[p] /\ i + 1 \in 2 .. n
      BY <1>1, <1>2, <2>1
    <3>2. queue'[p][i] = queue[p][i + 1] /\ queue[p][i + 1] # c
      BY <1>2, <1>4, <3>1
    <3>3. \A j \in 1 .. n - 1 : queue'[p][i] = queue'[p][j] => i = j
      <4> SUFFICES ASSUME NEW j \in 1 .. n - 1, queue'[p][i] = queue'[p][j]
                   PROVE  i = j
        OBVIOUS
      <4>1. j + 1 \in DOMAIN queue[p] /\ queue'[p][j] = queue[p][j + 1]
        BY <1>1, <1>2
      <4>2. i + 1 = j + 1
        BY <3>1, <3>2, <4>1 DEF QueuesHoldDelayed
      <4> QED BY <3>1, <4>2
    <3>4. conn[queue[p][i + 1]] = "delayed" /\ PeerOf[queue[p][i + 1]] = p
      BY <3>1 DEF QueuesHoldDelayed
    <3>5. conn'[queue[p][i + 1]] = "delayed"
      BY <1>5, <1>6, <3>1, <3>2, <3>4
    <3>6. DOMAIN queue'[q] = 1 .. n - 1 /\ queue'[q] = queue'[p]
      BY <1>2, <2>1
    <3>7. \A j \in DOMAIN queue'[q] : queue'[q][i] = queue'[q][j] => i = j
      BY <3>3, <3>6
    <3>8. queue'[q][i] = queue[p][i + 1]
      BY <3>2, <3>6
    <3>9. conn'[queue'[q][i]] = "delayed" /\ PeerOf[queue'[q][i]] = q
      BY <2>1, <3>4, <3>5, <3>8
    <3> QED BY <3>7, <3>9
  <2>2. CASE q # p
    <3>1. queue'[q] = queue[q] /\ i \in DOMAIN queue[q]
      BY <1>3, <2>2
    <3>2. queue[q][i] # c
      BY <1>4, <2>2, <3>1 DEF QueuesHoldDelayed
    <3>3. /\ conn[queue[q][i]] = "delayed"
          /\ PeerOf[queue[q][i]] = q
          /\ \A j \in DOMAIN queue[q] : queue[q][i] = queue[q][j] => i = j
      BY <3>1 DEF QueuesHoldDelayed
    <3>4. conn'[queue[q][i]] = "delayed"
      BY <1>5, <1>6, <3>1, <3>2, <3>3
    <3> QED BY <3>1, <3>3, <3>4
  <2> QED BY <2>1, <2>2
<1>8. ASSUME NEW d \in Conn, conn'[d] = "delayed"
      PROVE  PeerOf[d] \in peers' /\ \E i \in DOMAIN queue'[PeerOf[d]] : queue'[PeerOf[d]][i] = d
  <2>1. d # c /\ conn[d] = "delayed" /\ PeerOf[d] \in Peer
    BY <1>6, <1>8, PeerOfType
  <2>2. PeerOf[d] \in peers
    BY <2>1 DEF QueuesHoldDelayed
  <2>3. PICK i \in DOMAIN queue[PeerOf[d]] : queue[PeerOf[d]][i] = d
    BY <2>1 DEF QueuesHoldDelayed
  <2>4. CASE PeerOf[d] = p
    <3>1. i \in 2 .. n
      BY <1>1, <2>1, <2>3, <2>4
    <3>2. i - 1 \in DOMAIN queue'[p] /\ queue'[p][i - 1] = d
      BY <1>1, <1>2, <2>3, <2>4, <3>1
    <3> QED BY <2>2, <2>4, <3>2
  <2>5. CASE PeerOf[d] # p
    BY <1>3, <2>1, <2>2, <2>3, <2>5
  <2> QED BY <2>4, <2>5
<1> QED BY <1>7, <1>8 DEF QueuesHoldDelayed

\* Every step keeps the queues and the delayed connections in agreement.
LEMMA QueuesStep ==
  ASSUME Inv, [Next]_vars
  PROVE  QueuesHoldDelayed'
<1> USE DEF Inv
<1>1. ASSUME NEW c \in Conn, Incoming(c)
      PROVE  QueuesHoldDelayed'
  <2>1. conn[c] = "idle" /\ peers' = peers \cup {PeerOf[c]}
    BY <1>1 DEF Incoming
  <2>2. CASE conn' = [conn EXCEPT ![c] = "delayed"]
             /\ queue' = [queue EXCEPT ![PeerOf[c]] = Append(@, c)]
    BY <2>1, <2>2, QueuesGrow
  <2>3. CASE conn' \in {conn, [conn EXCEPT ![c] = "active"]} /\ UNCHANGED queue
    BY <2>1, <2>3, QueuesKept DEF TypeOK
  <2> QED BY <1>1, <2>2, <2>3 DEF Incoming
<1>2. ASSUME NEW c \in Conn, Finalize(c)
      PROVE  QueuesHoldDelayed'
  <2>1. \A p \in peers : queue[p] # <<>> => p \in peers'
    BY <1>2 DEF Finalize, MaybeDisposePeer, IsDisposable
  <2>2. \A d \in Conn : conn[d] = "delayed" <=> conn'[d] = "delayed"
    BY <1>2 DEF Finalize, TypeOK
  <2> QED BY <1>2, <2>1, <2>2, QueuesKept DEF Finalize
<1>3. CASE DispatchBegin \/ DispatchEnd \/ Tick \/ UNCHANGED vars
  BY <1>3 DEF DispatchBegin, DispatchEnd, Tick, vars, peerVars, QueuesHoldDelayed
<1>4. ASSUME NEW p \in Peer, VisitIdle(p)
      PROVE  QueuesHoldDelayed'
  <2>1. \A q \in peers : queue[q] # <<>> => q \in peers'
    BY <1>4 DEF VisitIdle, MaybeDisposePeer, IsDisposable
  <2> QED BY <1>4, <2>1, QueuesKept DEF VisitIdle
<1>5. ASSUME NEW p \in Peer, VisitAllowed(p)
      PROVE  QueuesHoldDelayed'
  BY <1>5, QueuesServe DEF VisitAllowed
<1>6. ASSUME NEW p \in Peer, VisitRefused(p)
      PROVE  QueuesHoldDelayed'
  BY <1>6 DEF VisitRefused, peerVars, QueuesHoldDelayed
<1> QED
  BY <1>1, <1>2, <1>3, <1>4, <1>5, <1>6 DEF Next, Dispatch

\* The throttler starts in the invariant.
LEMMA InitInv == Init => Inv
<1> SUFFICES ASSUME Init PROVE Inv
  OBVIOUS
<1>1. <<>> \in Seq(0 .. Second) /\ <<>> \in Seq(Conn) /\ Len(<<>>) = 0
  BY EmptySeq
<1>2. TypeOK /\ WalkOver
  <2>1. /\ timestamps \in [Peer -> Seq(0 .. Second)]
        /\ admissions \in [Peer -> Seq(0 .. Second)]
        /\ queue \in [Peer -> Seq(Conn)]
    BY <1>1 DEF Init
  <2>2. /\ conn \in [Conn -> {"idle", "delayed", "active"}]
        /\ active \in [Peer -> Nat]
        /\ lastAccept \in [Peer -> 0 .. Interval]
    BY Constants DEF Init
  <2> QED BY <2>1, <2>2 DEF Init, TypeOK, WalkOver
<1>3. AgesExact
  <2>1. PruneOld(<<>>) = <<>>
    BY DEF PruneOld
  <2>2. Sorted(<<>>)
    BY DEF Sorted
  <2> QED BY <1>1, <2>1, <2>2, Constants DEF Init, AgesExact
<1>4. CountersMatchConnections
  <2>1. ActiveConns = {}
    BY DEF Init, ActiveConns
  <2>2. \A p \in Peer : ActiveOf(p) = {}
    BY <2>1 DEF ActiveOf
  <2> QED BY <2>1, <2>2, FS_EmptySet DEF Init, CountersMatchConnections, ActiveOf
<1>5. QueuesHoldDelayed
  BY DEF Init, QueuesHoldDelayed
<1> QED BY <1>2, <1>3, <1>4, <1>5 DEF Inv

\* The conjunction is inductive.
LEMMA Invariance == Spec => []Inv
<1>1. Inv /\ [Next]_vars => Inv'
  BY TypeStep, CountersStep, QueuesStep DEF Inv
<1> QED BY <1>1, InitInv, PTL DEF Spec

\* The throttler keeps its types for any limits: no counter of grd-throttler.c goes
\* below zero, and the ready time is never later than one interval.
THEOREM TypeCorrect == Spec => []TypeOK
<1>1. Inv => TypeOK
  BY DEF Inv
<1> QED BY <1>1, Invariance, PTL

\* active_connections, global and per peer, always count the live connections, and
\* connection_data_free finds the peer it looks up (grd-throttler.c:167-186); a delayed
\* connection is in the queue of its peer, once, and its peer is never disposed of under
\* it (maybe_dispose_peer).
THEOREM BooksCorrect == Spec => []BooksBalance
<1>1. Inv => BooksBalance
  BY DEF Inv, BooksBalance
<1> QED BY <1>1, Invariance, PTL

\* No peer is admitted more than max_attempts_per_second times within a second, by
\* whichever path, whatever the limits.
THEOREM RateCorrect == Spec => []RateRespected
<1>1. Inv => RateRespected
  <2> SUFFICES ASSUME Inv, NEW p \in Peer
               PROVE  Len(admissions[p]) <= MaxAttempts
    BY DEF RateRespected
  <2>0. admissions[p] \in Seq(0 .. Second) /\ timestamps[p] \in Seq(0 .. Second)
    BY DEF Inv, TypeOK
  <2>1. Len(admissions[p]) \in Nat /\ Len(timestamps[p]) \in Nat
    BY <2>0, LenProperties
  <2>2. Len(admissions[p]) <= Len(timestamps[p]) /\ Len(timestamps[p]) <= MaxAttempts
    BY PrunedAges DEF Inv, AgesExact
  <2> QED BY <2>1, <2>2, Constants
<1> QED BY <1>1, Invariance, PTL

\* Every step keeps the source armed early enough.  An admission frees no limit, a
\* denial needs a queue and hence a known peer, and time moves both sides at once.
LEMMA WakeupStep ==
  ASSUME Inv, WakeupPunctual, [Next]_vars
  PROVE  WakeupPunctual'
<1> USE DEF Inv
<1>0. /\ TypeOK'
      /\ Interval \in Nat
      /\ RetryTimes \subseteq 0 .. Interval
  <2>1. TypeOK'
    BY TypeStep
  <2>2. Interval \in Nat
    BY Constants
  <2>3. \A p \in peers : lastAccept[p] \in 0 .. Interval
    BY DEF TypeOK
  <2>4. \A p \in peers : Interval - lastAccept[p] \in 0 .. Interval
    BY <2>2, <2>3
  <2>5. RetryTimes \subseteq 0 .. Interval
    BY <2>4 DEF RetryTimes
  <2> QED BY <2>1, <2>2, <2>5
<1>1. CASE UNCHANGED timer /\ ~dispatching /\ RetryTimes' \subseteq RetryTimes
  BY <1>1 DEF WakeupPunctual
<1>2. ASSUME NEW t \in {Off} \cup 0 .. Interval, MaybeQueueTimeout(t)
      PROVE  WakeupPunctual'
  BY <1>0, <1>2, EarliestRetry DEF TypeOK, WakeupPunctual
<1>3. ASSUME NEW c \in Conn, Incoming(c)
      PROVE  WakeupPunctual'
  <2> DEFINE p == PeerOf[c]
  <2>1. p \in Peer
    BY PeerOfType
  <2>2. CASE MaybeQueueTimeout(timer)
    BY <1>2, <2>2 DEF TypeOK
  <2>3. CASE MayEnter(p, PruneOld(timestamps[p])) /\ Register(p, TRUE, PruneOld(timestamps[p]))
             /\ UNCHANGED <<queue, timer>>
    <3>1. /\ peers' = peers \cup {p} /\ queue' = queue /\ queue[p] = <<>>
          /\ ~dispatching
      BY <1>3, <2>3 DEF Incoming, MayEnter
    <3>2. /\ active' = [active EXCEPT ![p] = @ + 1]
          /\ globalActive' = globalActive + 1
          /\ lastAccept' = [lastAccept EXCEPT ![p] = 0]
      BY <2>3 DEF Register
    <3>3. ASSUME NEW q \in peers', ~IsConnectionLimitReached(q)', queue'[q] # <<>>
          PROVE  q \in peers /\ ~IsConnectionLimitReached(q) /\ queue[q] # <<>>
                 /\ lastAccept'[q] = lastAccept[q]
      <4>1. q # p /\ q \in peers /\ q \in Peer
        BY <3>1, <3>3 DEF TypeOK
      <4>2. active'[q] = active[q] /\ lastAccept'[q] = lastAccept[q]
        BY <2>1, <3>2, <4>1 DEF TypeOK
      <4>3. ~(active[q] >= MaxPerPeer) /\ ~(globalActive + 1 >= MaxGlobal)
        BY <3>2, <3>3, <4>2 DEF IsConnectionLimitReached
      <4>4. ~(globalActive >= MaxGlobal)
        BY <4>3, Constants DEF TypeOK
      <4> QED BY <3>1, <3>3, <4>1, <4>2, <4>3, <4>4 DEF IsConnectionLimitReached
    <3>4. RetryTimes' \subseteq RetryTimes
      BY <3>3 DEF RetryTimes
    <3> QED BY <1>1, <2>3, <3>1, <3>4
  <2>4. CASE Len(queue[p]) > MaxPending
             /\ UNCHANGED <<conn, active, queue, lastAccept, globalActive, timer>>
    <3>1. queue[p] # <<>>
      BY <2>4, Constants
    <3>2. p \in peers
      <4>1. 1 \in DOMAIN queue[p] /\ queue[p][1] \in Conn
        BY <2>1, <3>1 DEF TypeOK
      <4>2. conn[queue[p][1]] = "delayed" /\ PeerOf[queue[p][1]] = p
        BY <2>1, <4>1 DEF QueuesHoldDelayed
      <4> QED BY <4>1, <4>2 DEF QueuesHoldDelayed
    <3>3. peers' = peers /\ ~dispatching
      BY <1>3, <3>2 DEF Incoming
    <3>4. RetryTimes' = RetryTimes
      BY <2>4, <3>3 DEF RetryTimes, IsConnectionLimitReached
    <3> QED BY <1>1, <2>4, <3>3, <3>4
  <2> QED BY <1>3, <2>2, <2>3, <2>4 DEF Incoming
<1>4. ASSUME NEW c \in Conn, Finalize(c)
      PROVE  WakeupPunctual'
  BY <1>2, <1>4 DEF Finalize, TypeOK
<1>5. CASE DispatchBegin
  BY <1>5 DEF DispatchBegin, WakeupPunctual
<1>6. ASSUME NEW p \in Peer, VisitIdle(p) \/ VisitAllowed(p) \/ VisitRefused(p)
      PROVE  WakeupPunctual'
  <2>1. dispatching
    BY <1>6 DEF VisitIdle, VisitAllowed, VisitRefused, WalkOver
  <2>2. dispatching'
    BY <1>6, <2>1 DEF VisitIdle, VisitAllowed, VisitRefused
  <2> QED BY <2>2 DEF WakeupPunctual
<1>7. CASE DispatchEnd
  BY <1>2, <1>7 DEF DispatchEnd, TypeOK
<1>8. CASE Tick
  <2> SUFFICES ASSUME NEW t \in RetryTimes'
               PROVE  timer' # Off /\ timer' <= t
    BY DEF WakeupPunctual
  <2>1. PICK p \in peers' : t = Interval - lastAccept'[p]
                            /\ ~IsConnectionLimitReached(p)' /\ queue'[p] # <<>>
    BY DEF RetryTimes
  <2>2. /\ p \in peers /\ p \in Peer /\ ~IsConnectionLimitReached(p) /\ queue[p] # <<>>
        /\ lastAccept'[p] = Older(lastAccept[p], Interval)
    BY <1>8, <2>1 DEF Tick, IsConnectionLimitReached, TypeOK
  <2>3. Interval - lastAccept[p] \in RetryTimes
    BY <2>2 DEF RetryTimes
  <2>4. timer # Off /\ timer <= Interval - lastAccept[p]
    BY <1>8, <2>3 DEF WakeupPunctual, Tick
  <2>5. timer' = IF timer = 0 THEN 0 ELSE timer - 1
    BY <1>8, <2>4 DEF Tick
  <2>6. lastAccept[p] \in 0 .. Interval /\ timer \in 0 .. Interval
    BY <2>2, <2>4 DEF TypeOK
  <2> QED BY <1>0, <2>1, <2>2, <2>4, <2>5, <2>6 DEF Older, Off
<1>9. CASE UNCHANGED vars
  BY <1>9 DEF vars, peerVars, WakeupPunctual, RetryTimes, IsConnectionLimitReached
<1> QED
  BY <1>3, <1>4, <1>5, <1>6, <1>7, <1>8, <1>9 DEF Next, Dispatch

\* Whenever a delayed connection is held back by the rate alone, the source is armed
\* no later than its retry time (maybe_queue_timeout is called wherever it must be).
THEOREM NoLostWakeup == Spec => []WakeupPunctual
<1>1. Init => WakeupPunctual
  BY DEF Init, WakeupPunctual, RetryTimes
<1>2. Inv /\ WakeupPunctual /\ [Next]_vars => WakeupPunctual'
  BY WakeupStep
<1> QED BY <1>1, <1>2, Invariance, PTL DEF Spec

\* The abstract stage of a connection.
LEMMA StageOf ==
  ASSUME TypeOK, NEW c \in Conn
  PROVE  /\ conn[c] = "idle" => stage[c] = "away"
         /\ conn[c] = "delayed" => stage[c] = "waiting"
         /\ conn[c] = "active" => stage[c] = "admitted"
         /\ conn[c] \in {"idle", "delayed", "active"}
BY DEF TypeOK, stage

\* The cardinality of the instance is the cardinality.
LEMMA SameCardinality ==
  ASSUME NEW S
  PROVE  Abstract!Cardinality(S) = Cardinality(S)
BY DEF Abstract!Cardinality, Cardinality

\* Where the counters are below their limits there is room in the sets they count.
LEMMA RoomLeft ==
  ASSUME Inv, NEW p \in Peer, ~IsConnectionLimitReached(p)
  PROVE  Abstract!Room(p)
<1>1. Abstract!Admitted = ActiveConns
  BY StageOf DEF Abstract!Admitted, stage, ActiveConns, Inv
<1>2. Abstract!AdmittedOf(p) = ActiveOf(p)
  BY <1>1 DEF Abstract!AdmittedOf, ActiveOf
<1>3. active[p] = Cardinality(ActiveOf(p)) /\ globalActive = Cardinality(ActiveConns)
  BY DEF Inv, CountersMatchConnections, ActiveOf
<1>4. active[p] < MaxPerPeer /\ globalActive < MaxGlobal
  BY Constants DEF IsConnectionLimitReached, Inv, TypeOK
<1>5. Cardinality(Abstract!AdmittedOf(p)) < MaxPerPeer
  BY <1>2, <1>3, <1>4
<1>6. Cardinality(Abstract!Admitted) < MaxGlobal
  BY <1>1, <1>3, <1>4
<1> QED BY <1>5, <1>6, SameCardinality DEF Abstract!Room

\* Moving one connection moves its abstract stage.
LEMMA StageMoves ==
  ASSUME TypeOK, NEW c \in Conn
  PROVE  /\ conn' = [conn EXCEPT ![c] = "active"]
              => stage' = [stage EXCEPT ![c] = "admitted"]
         /\ conn' = [conn EXCEPT ![c] = "delayed"]
              => stage' = [stage EXCEPT ![c] = "waiting"]
         /\ conn' = [conn EXCEPT ![c] = "idle"]
              => stage' = [stage EXCEPT ![c] = "away"]
<1>1. \A d \in Conn : conn[d] \in {"idle", "delayed", "active"}
  BY DEF TypeOK
<1>2. ASSUME conn' = [conn EXCEPT ![c] = "active"]
      PROVE  stage' = [stage EXCEPT ![c] = "admitted"]
  BY <1>1, <1>2 DEF stage, TypeOK
<1>3. ASSUME conn' = [conn EXCEPT ![c] = "delayed"]
      PROVE  stage' = [stage EXCEPT ![c] = "waiting"]
  BY <1>1, <1>3 DEF stage, TypeOK
<1>4. ASSUME conn' = [conn EXCEPT ![c] = "idle"]
      PROVE  stage' = [stage EXCEPT ![c] = "away"]
  BY <1>1, <1>4 DEF stage, TypeOK
<1> QED BY <1>2, <1>3, <1>4

\* Abstractly nothing happens where connections and queues stay.
LEMMA AbstractStutter ==
  ASSUME UNCHANGED <<conn, queue>>
  PROVE  UNCHANGED Abstract!vars
BY DEF Abstract!vars, stage

\* Every step of the throttler admits, enqueues, serves, ends or stutters.
LEMMA AbstractStep ==
  ASSUME Inv, [Next]_vars
  PROVE  [Abstract!Next]_(Abstract!vars)
<1> USE DEF Inv
<1>1. ASSUME NEW c \in Conn, Incoming(c)
      PROVE  [Abstract!Next]_(Abstract!vars)
  <2> DEFINE p == PeerOf[c]
  <2>1. p \in Peer /\ stage[c] = "away"
    BY <1>1, PeerOfType, StageOf DEF Incoming
  <2>2. CASE /\ MayEnter(p, PruneOld(timestamps[p]))
             /\ conn' = [conn EXCEPT ![c] = "active"]
             /\ UNCHANGED queue
    <3>1. queue[p] = <<>> /\ Abstract!Room(p)
      BY <2>1, <2>2, RoomLeft DEF MayEnter, IsNewConnectionAllowed
    <3>2. stage' = [stage EXCEPT ![c] = "admitted"]
      BY <2>2, StageMoves
    <3>3. Abstract!AdmitNew(c)
      BY <2>1, <2>2, <3>1, <3>2 DEF Abstract!AdmitNew, stage
    <3> QED BY <3>3 DEF Abstract!Next
  <2>3. CASE /\ Len(queue[p]) <= MaxPending
             /\ queue' = [queue EXCEPT ![p] = Append(@, c)]
             /\ conn' = [conn EXCEPT ![c] = "delayed"]
    <3>1. Len(queue[p]) < MaxPending + 1
      BY <2>1, <2>3, LenProperties, Constants DEF TypeOK
    <3>2. stage' = [stage EXCEPT ![c] = "waiting"]
      BY <2>3, StageMoves
    <3>3. Abstract!Enqueue(c)
      BY <2>1, <2>3, <3>1, <3>2 DEF Abstract!Enqueue, stage
    <3> QED BY <3>3 DEF Abstract!Next
  <2>4. CASE UNCHANGED <<conn, queue>>
    BY <2>4, AbstractStutter
  <2> QED BY <1>1, <2>2, <2>3, <2>4 DEF Incoming
<1>2. ASSUME NEW c \in Conn, Finalize(c)
      PROVE  [Abstract!Next]_(Abstract!vars)
  <2>1. /\ conn[c] = "active"
        /\ conn' = [conn EXCEPT ![c] = "idle"]
        /\ UNCHANGED queue
    BY <1>2 DEF Finalize
  <2>2. stage[c] = "admitted" /\ stage' = [stage EXCEPT ![c] = "away"]
    BY <2>1, StageOf, StageMoves
  <2>3. Abstract!Leave(c)
    BY <2>1, <2>2 DEF Abstract!Leave, stage
  <2> QED BY <2>3 DEF Abstract!Next
<1>3. ASSUME NEW p \in Peer, VisitAllowed(p)
      PROVE  [Abstract!Next]_(Abstract!vars)
  <2> DEFINE c == Head(queue[p])
  <2>1. /\ queue[p] # <<>>
        /\ Abstract!Room(p)
        /\ queue' = [queue EXCEPT ![p] = Tail(@)]
    BY <1>3, RoomLeft DEF VisitAllowed, IsNewConnectionAllowed
  <2>2. c \in Conn
    BY <2>1, HeadTailProperties DEF TypeOK
  <2>3. PICK next \in {"admitted", "away"} : stage' = [stage EXCEPT ![c] = next]
    <3>1. \/ conn' = [conn EXCEPT ![c] = "active"]
          \/ conn' = [conn EXCEPT ![c] = "idle"]
      BY <1>3 DEF VisitAllowed
    <3> HIDE DEF c
    <3> QED BY <2>2, <3>1, StageMoves
  <2>4. Abstract!AdmitHead(p)
    BY <2>1, <2>3 DEF Abstract!AdmitHead, stage
  <2> QED BY <2>4 DEF Abstract!Next
<1>4. CASE DispatchBegin \/ DispatchEnd \/ Tick \/ UNCHANGED vars
  <2>1. UNCHANGED <<conn, queue>>
    BY <1>4 DEF DispatchBegin, DispatchEnd, Tick, vars, peerVars
  <2> QED BY <2>1, AbstractStutter
<1>5. ASSUME NEW p \in Peer, VisitIdle(p) \/ VisitRefused(p)
      PROVE  [Abstract!Next]_(Abstract!vars)
  <2>1. UNCHANGED <<conn, queue>>
    BY <1>5 DEF VisitIdle, VisitRefused, peerVars
  <2> QED BY <2>1, AbstractStutter
<1> QED
  BY <1>1, <1>2, <1>3, <1>4, <1>5 DEF Next, Dispatch

\* The throttler implements the bounded first-come first-served admission of Admission:
\* the limits hold of the sets of live connections and no connection overtakes an older
\* one of its peer.
THEOREM ImplementsAdmission == Spec => AdmissionSpec
<1>1. Init => Abstract!Init
  BY StageOf DEF Init, Abstract!Init, stage
<1>2. Inv /\ [Next]_vars => [Abstract!Next]_(Abstract!vars)
  BY AbstractStep
<1> QED BY <1>1, <1>2, Invariance, PTL DEF Spec, AdmissionSpec, Abstract!Spec

================================================================================
