----------------------------- MODULE Screens_proof -----------------------------
(***************************************************************************)
(* Proofs about Screens, for any set of monitor configs and of stream ids, *)
(* and any number of pointers, cache slots, streams, tasks and buffers.    *)
(*                                                                         *)
(* The layout: its events meet a state that expects them, rendering goes   *)
(* on with the layout that was asked for, and surfaces change only while   *)
(* the renderer is quiet.  The ids of new streams are those with the       *)
(* lowest distances from the next id; that there are as many of them as    *)
(* are needed is a fact about ranks in a finite set, which comes first.    *)
(*                                                                         *)
(* The pictures: the client's cache of pointers is what the server         *)
(* believes, the tasks of the EGL thread end once and in order, and the    *)
(* buffers of a VNC stream are held while they are copied.  These three    *)
(* share no state; each has an invariant of its own, and the theorems at   *)
(* the end put them together, with the layout's.                           *)
(***************************************************************************)
EXTENDS Screens, TLAPS, FiniteSetTheorems, SequenceTheorems, Integers

(* Ranks. *)

\* The remainder of a number below twice the divisor.
LEMMA Modulo ==
  ASSUME NEW n \in Nat \ {0}, NEW v \in 0 .. 2 * n - 1
  PROVE  v % n = IF v < n THEN v ELSE v - n
OBVIOUS

\* The number of elements below each.
Rank(S, d) == [x \in S |-> Cardinality({y \in S : d[y] < d[x]})]

\* The ranks of a finite set, whose elements d tells apart, count it off.
LEMMA RankBijection ==
  ASSUME NEW S, IsFiniteSet(S), NEW d \in [S -> Int],
         \A x, y \in S : d[x] = d[y] => x = y
  PROVE  Rank(S, d) \in Bijection(S, 0 .. Cardinality(S) - 1)
<1> DEFINE B(x) == {y \in S : d[y] < d[x]}
           T == 0 .. Cardinality(S) - 1
           r == Rank(S, d)
<1>1. Cardinality(S) \in Nat
  BY FS_CardinalityType
<1>2. ASSUME NEW x \in S
      PROVE  IsFiniteSet(B(x)) /\ Cardinality(B(x)) \in T
  <2>1. B(x) \in SUBSET (S \ {x})
    OBVIOUS
  <2>2. IsFiniteSet(S \ {x}) /\ Cardinality(S \ {x}) = Cardinality(S) - 1
    BY FS_RemoveElement
  <2>3. IsFiniteSet(B(x)) /\ Cardinality(B(x)) <= Cardinality(S \ {x})
    BY <2>1, <2>2, FS_Subset
  <2>4. Cardinality(B(x)) \in Nat
    BY <2>3, FS_CardinalityType
  <2> QED BY <1>1, <2>2, <2>3, <2>4
<1>3. \A x \in S : r[x] = Cardinality(B(x))
  BY DEF Rank
<1>4. ASSUME NEW x \in S, NEW y \in S, d[x] < d[y]
      PROVE  r[x] # r[y]
  <2>1. B(x) \in SUBSET B(y)
    BY <1>4
  <2>2. x \in B(y) /\ x \notin B(x)
    BY <1>4
  <2> HIDE DEF B
  <2>3. Cardinality(B(y)) # Cardinality(B(x))
    BY <1>2, <2>1, <2>2, FS_Subset
  <2> QED BY <1>3, <2>3
<1>5. \A x, y \in S : r[x] = r[y] => x = y
  <2> HIDE DEF r
  <2> SUFFICES ASSUME NEW x \in S, NEW y \in S, r[x] = r[y], x # y
               PROVE  FALSE
    OBVIOUS
  <2>1. d[x] < d[y] \/ d[y] < d[x]
    OBVIOUS
  <2> QED BY <1>4, <2>1
<1>6. r \in [S -> T]
  <2>1. \A x \in S : r[x] \in T
    BY <1>2, <1>3
  <2> QED BY <2>1 DEF Rank
<1> HIDE DEF r
<1>7. r \in Injection(S, T)
  BY <1>5, <1>6 DEF Injection, IsInjective
<1>8. IsFiniteSet(T) /\ Cardinality(T) = Cardinality(S)
  <2>1. Cardinality(S) - 1 \in Int /\ 0 \in Int
    BY <1>1
  <2>2. /\ IsFiniteSet(T)
        /\ Cardinality(T) = IF 0 > Cardinality(S) - 1 THEN 0 ELSE (Cardinality(S) - 1) - 0 + 1
    BY <2>1, FS_Interval
  <2> QED BY <1>1, <2>2
<1> HIDE DEF T
<1>9. r \in Surjection(S, T)
  BY <1>7, <1>8, FS_Injection
<1>10. r \in Bijection(S, T)
  BY <1>7, <1>9 DEF Bijection
<1> QED BY <1>10 DEF r, T

\* As many elements as one likes have the lowest ranks.
LEMMA LowestRanks ==
  ASSUME NEW S, IsFiniteSet(S), NEW d \in [S -> Int],
         \A x, y \in S : d[x] = d[y] => x = y,
         NEW n \in 0 .. Cardinality(S)
  PROVE  LET T == {x \in S : Cardinality({y \in S : d[y] < d[x]}) < n}
         IN  IsFiniteSet(T) /\ Cardinality(T) = n
<1> DEFINE r == Rank(S, d)
           T == {x \in S : r[x] < n}
           card == Cardinality(S)
           q == [x \in T |-> r[x]]
<1>0. card \in Nat
  BY FS_CardinalityType
<1>1. r \in Bijection(S, 0 .. card - 1)
  BY RankBijection
<1>2. T = {x \in S : Cardinality({y \in S : d[y] < d[x]}) < n}
  BY DEF Rank
<1> HIDE DEF r, card
<1>3. /\ r \in [S -> 0 .. card - 1]
      /\ \A x, y \in S : r[x] = r[y] => x = y
      /\ \A k \in 0 .. card - 1 : \E x \in S : r[x] = k
  BY <1>1 DEF Bijection, Injection, Surjection, IsInjective
<1>4. n \in Nat /\ n <= card
  BY <1>0 DEF card
<1>5. q \in [T -> 0 .. n - 1]
  BY <1>0, <1>3, <1>4
<1>6. \A x, y \in T : q[x] = q[y] => x = y
  BY <1>3
<1>7. \A k \in 0 .. n - 1 : \E x \in T : q[x] = k
  <2> SUFFICES ASSUME NEW k \in 0 .. n - 1
               PROVE  \E x \in T : q[x] = k
    OBVIOUS
  <2>1. PICK x \in S : r[x] = k
    BY <1>0, <1>3, <1>4
  <2>2. x \in T /\ q[x] = k
    BY <1>4, <2>1
  <2> QED BY <2>2
<1> HIDE DEF q
<1>8. q \in Bijection(T, 0 .. n - 1)
  BY <1>5, <1>6, <1>7 DEF Bijection, Injection, Surjection, IsInjective
<1>9. IsFiniteSet(T)
  BY FS_Subset
<1>10. Cardinality(0 .. n - 1) = n
  <2>1. 0 \in Int /\ n - 1 \in Int
    BY <1>4
  <2> QED BY <1>4, <2>1, FS_Interval
<1> HIDE DEF T
<1>11. ExistsBijection(T, 0 .. n - 1)
  BY <1>8 DEF ExistsBijection
<1>12. Cardinality(T) = n
  BY <1>9, <1>10, <1>11, FS_Bijection
<1> QED BY <1>2, <1>9, <1>12

\* A finite set has an element that none is above.
LEMMA HighestRank ==
  ASSUME NEW S, IsFiniteSet(S), S # {}, NEW d \in [S -> Int],
         \A x, y \in S : d[x] = d[y] => x = y
  PROVE  \E x \in S : \A y \in S : d[y] <= d[x]
<1> DEFINE card == Cardinality(S)
<1>1. card \in Nat /\ card # 0
  BY FS_CardinalityType, FS_EmptySet
<1>2. Rank(S, d) \in Bijection(S, 0 .. card - 1)
  BY RankBijection
<1> HIDE DEF card
<1>3. PICK x \in S : Rank(S, d)[x] = card - 1
  BY <1>1, <1>2 DEF Bijection, Surjection
<1> DEFINE B == {y \in S : d[y] < d[x]}
<1>4. Cardinality(B) = card - 1
  BY <1>3 DEF Rank
<1>5. IsFiniteSet(S \ {x}) /\ Cardinality(S \ {x}) = card - 1
  BY FS_RemoveElement DEF card
<1>6. B \in SUBSET (S \ {x})
  OBVIOUS
<1>7. S \ {x} = B
  <2> HIDE DEF B
  <2> QED BY <1>4, <1>5, <1>6, FS_Subset
<1>8. \A y \in S : d[y] <= d[x]
  <2> SUFFICES ASSUME NEW y \in S, y # x
               PROVE  d[y] <= d[x]
    OBVIOUS
  <2>1. d[y] < d[x]
    BY <1>7
  <2> QED BY <2>1
<1> QED BY <1>8

--------------------------------------------------------------------------------
(* The ids of streams. *)

\* The Cardinality of the instance is the one that is known about.
LEMMA SameCardinality == \A S : L!Cardinality(S) = Cardinality(S)
BY DEF L!Cardinality, Cardinality

\* There are NStreams ids (2^32 in the code).
LEMMA StreamsFinite == IsFiniteSet(L!Stream) /\ Cardinality(L!Stream) = NStreams
<1>1. NStreams \in Nat \ {0}
  BY ScreensAssumption
<1>2. 0 \in Int /\ NStreams - 1 \in Int /\ ~(0 > NStreams - 1)
  BY <1>1
<1>3. IsFiniteSet(0 .. NStreams - 1) /\ Cardinality(0 .. NStreams - 1) = (NStreams - 1) - 0 + 1
  BY <1>2, FS_Interval
<1> QED BY <1>1, <1>3 DEF L!Stream

\* No two ids are at the same distance from the next one.
LEMMA Distances ==
  ASSUME nextId \in L!Stream
  PROVE  /\ \A i \in L!Stream : L!Distance(i) \in 0 .. NStreams - 1
         /\ \A i, j \in L!Stream : L!Distance(i) = L!Distance(j) => i = j
<1>1. NStreams \in Nat \ {0}
  BY ScreensAssumption
<1>2. \A i \in L!Stream :
        /\ i + NStreams - nextId \in 0 .. 2 * NStreams - 1
        /\ i \in 0 .. NStreams - 1
  BY <1>1 DEF L!Stream
<1>3. \A i \in L!Stream :
        L!Distance(i) = IF i + NStreams - nextId < NStreams THEN i + NStreams - nextId
                        ELSE i - nextId
  <2> SUFFICES ASSUME NEW i \in L!Stream
               PROVE  L!Distance(i) = IF i + NStreams - nextId < NStreams
                                      THEN i + NStreams - nextId ELSE i - nextId
    OBVIOUS
  <2> DEFINE v == i + NStreams - nextId
  <2>1. v % NStreams = IF v < NStreams THEN v ELSE v - NStreams
    BY <1>1, <1>2, Modulo
  <2>2. v - NStreams = i - nextId
    BY <1>1 DEF L!Stream
  <2> QED BY <2>1, <2>2 DEF L!Distance
<1> QED BY <1>1, <1>3 DEF L!Stream

\* get_next_free_stream_id finds as many ids as it is asked for, none of them in use.
LEMMA NextIdsCount ==
  ASSUME nextId \in L!Stream, NEW used \in SUBSET L!Stream,
         NEW n \in Nat, n + Cardinality(used) <= NStreams
  PROVE  LET ids == L!NextIds(used, n)
         IN  ids \subseteq L!Stream \ used /\ IsFiniteSet(ids) /\ Cardinality(ids) = n
<1> DEFINE S == L!Stream \ used
           d == [i \in S |-> L!Distance(i)]
           T == {x \in S : Cardinality({y \in S : d[y] < d[x]}) < n}
<1>1. L!NextIds(used, n) = T
  <2>1. ASSUME NEW x \in S
        PROVE  {y \in S : d[y] < d[x]} = {y \in S : L!Distance(y) < L!Distance(x)}
    OBVIOUS
  <2>2. L!NextIds(used, n)
        = {x \in S : Cardinality({y \in S : L!Distance(y) < L!Distance(x)}) < n}
    BY SameCardinality DEF L!NextIds
  <2> HIDE DEF S, d
  <2> QED BY <2>1, <2>2
<1>2. IsFiniteSet(S) /\ Cardinality(S) = NStreams - Cardinality(used)
  <2>1. used \cap L!Stream = used /\ L!Stream \cap used = used
    OBVIOUS
  <2> QED BY <2>1, StreamsFinite, FS_Difference
<1>3. d \in [S -> Int] /\ \A x, y \in S : d[x] = d[y] => x = y
  BY Distances
<1>4. n \in 0 .. Cardinality(S)
  <2>1. Cardinality(used) \in Nat
    BY StreamsFinite, FS_Subset, FS_CardinalityType
  <2>2. NStreams \in Nat
    BY ScreensAssumption
  <2> QED BY <1>2, <2>1, <2>2
<1> HIDE DEF S, d
<1>5. IsFiniteSet(T) /\ Cardinality(T) = n
  BY <1>2, <1>3, <1>4, LowestRanks
<1>6. T \subseteq S
  OBVIOUS
<1> HIDE DEF T
<1> QED BY <1>1, <1>5, <1>6 DEF S

\* The id after those is one again.
LEMMA IdAfterType ==
  ASSUME nextId \in L!Stream, NEW fresh \in SUBSET L!Stream, fresh # {}
  PROVE  L!IdAfter(fresh) \in L!Stream
<1> DEFINE d == [i \in fresh |-> L!Distance(i)]
           IsLast(id) == \A i \in fresh : L!Distance(i) <= L!Distance(id)
           id == CHOOSE x \in fresh : IsLast(x)
<1>1. d \in [fresh -> Int] /\ \A x, y \in fresh : d[x] = d[y] => x = y
  BY Distances
<1>2. IsFiniteSet(fresh)
  BY StreamsFinite, FS_Subset
<1>3. \E x \in fresh : \A y \in fresh : d[y] <= d[x]
  <2> HIDE DEF d
  <2> QED BY <1>1, <1>2, HighestRank
<1>4. \E x \in fresh : IsLast(x)
  BY <1>3
<1>5. id \in fresh
  <2> HIDE DEF IsLast
  <2> QED BY <1>4
<1>6. L!IdAfter(fresh) = (1 + id) % NStreams
  BY DEF L!IdAfter
<1> HIDE DEF id
<1>7. id \in 0 .. NStreams - 1 /\ NStreams \in Nat \ {0}
  BY <1>5, ScreensAssumption DEF L!Stream
<1>8. 1 + id \in 0 .. 2 * NStreams - 1
  BY <1>7
<1>9. (1 + id) % NStreams = IF 1 + id < NStreams THEN 1 + id ELSE 1 + id - NStreams
  BY <1>7, <1>8, Modulo
<1> QED BY <1>6, <1>7, <1>9 DEF L!Stream

--------------------------------------------------------------------------------
(* The layout: the inductive invariant. *)

\* A config was picked up, and the surfaces are still those of the one before.
Waiting == state \in {"await_inhibition_done", "prepare_surfaces"}

LayoutTypes ==
  L!TypeOK /\ virtual \in BOOLEAN /\ surfaces = [id \in L!Taken |-> surfaces[id]]

\* The gate of the renderer follows the state.
Phases ==
  /\ gate = "open" <=> state = "await_config"
  /\ gate = "shut" => state = "await_inhibition_done" /\ ~preparation
  /\ Waiting => current # NoConfig

\* A stream is created only while the renderer is quiet.
AskedWhenQuiet ==
  \A id \in L!Taken : surfaces[id].stream \in {"asked", "created"} => gate = "quiet"

\* A physical monitor has one surface.  Its layout is recreated only after its stream
\* closed, and not while a layout change prepares.
Alone ==
  /\ \A i, j \in L!Taken : i = j
  /\ current # NoConfig => Len(current) = 1
  /\ pending # NoConfig => Len(pending) = 1
  /\ submitted = 0 => /\ L!Taken = {} /\ state = "await_config"
                      /\ pending = NoConfig /\ ~recreation
  /\ recreation \/ pending # NoConfig \/ Waiting
       => \A id \in L!Taken : surfaces[id].stream = "closed"
  /\ Waiting => ~recreation /\ pending = NoConfig

\* A surface has a size unless it is waited for; of a virtual monitor, the monitor's.
SizeKnown(id) ==
  /\ surfaces[id].monitor # 0 <=> virtual
  /\ id \notin pendingSizes =>
       /\ surfaces[id].size # 0
       /\ virtual => /\ surfaces[id].size = surfaces[id].monitor
                     /\ surfaces[id].formats = {surfaces[id].monitor}

\* The surfaces have the monitors of the current config.
Fits ==
  /\ Cardinality(L!Taken) = Len(current)
  /\ virtual => \E order \in [L!Taken -> 1 .. Len(current)] :
                  /\ \A i, j \in L!Taken : order[i] = order[j] => i = j
                  /\ \A id \in L!Taken : surfaces[id].monitor = current[order[id]]

Working ==
  /\ Phases
  /\ virtual => ~recreation
  /\ ~virtual => Alone
  /\ \A id \in L!Taken : SizeKnown(id)
  /\ current # NoConfig /\ ~Waiting => Fits

LayoutInv ==
  /\ LayoutTypes /\ AskedWhenQuiet /\ L!EventsExpected
  /\ state # "fatal_error" => Working

\* What is known about the constants.
LEMMA LayoutConstants ==
  /\ Sizes \subseteq Nat \ {0} /\ NoConfig \notin Configs
  /\ NStreams \in Nat \ {0} /\ Modes \subseteq BOOLEAN /\ MaxConfigs \in Nat /\ MaxCloses \in Nat
  /\ \A c \in Configs : c \in Seq(Sizes) /\ Len(c) \in Nat /\ Len(c) > 0 /\ Len(c) < NStreams
<1>1. \A c \in Configs : c \in Seq(Sizes) /\ c # <<>> /\ Len(c) < NStreams
  BY ScreensAssumption
<1>2. \A c \in Configs : Len(c) \in Nat /\ Len(c) > 0
  BY <1>1
<1> QED BY <1>1, <1>2, ScreensAssumption

\* The layout begins without surfaces, and the renderer is open.
LEMMA LayoutInit == Init => LayoutInv
<1> SUFFICES ASSUME Init
             PROVE  LayoutInv
  OBVIOUS
<1> USE DEF Init, L!Init
<1>0. L!Taken = {}
  BY DEF L!Taken
<1>1. LayoutTypes
  <2>1. L!TypeOK
    <3>1. nextId \in L!Stream /\ submitted \in 0 .. MaxConfigs /\ closes \in 0 .. MaxCloses
      BY LayoutConstants DEF L!Stream
    <3>2. L!Taken \subseteq L!Stream /\ pendingStreams \subseteq L!Stream
          /\ pendingSizes \subseteq L!Stream
      BY <1>0
    <3> QED BY <1>0, <3>1, <3>2 DEF L!TypeOK, L!States
  <2>2. virtual \in BOOLEAN
    BY LayoutConstants
  <2>3. surfaces = [id \in L!Taken |-> surfaces[id]]
    BY <1>0
  <2> QED BY <2>1, <2>2, <2>3 DEF LayoutTypes
<1>2. AskedWhenQuiet /\ L!EventsExpected
  BY <1>0 DEF AskedWhenQuiet, L!EventsExpected
<1>3. Working
  BY <1>0 DEF Working, Phases, Alone, Waiting
<1> QED BY <1>1, <1>2, <1>3 DEF LayoutInv

\* Fits is about monitors only.
LEMMA FitsKept ==
  ASSUME Fits, L!Taken' = L!Taken, UNCHANGED <<virtual, current>>,
         \A id \in L!Taken : surfaces'[id].monitor = surfaces[id].monitor
  PROVE  Fits'
<1>1. CASE ~virtual
  BY <1>1 DEF Fits
<1>2. CASE virtual
  <2>1. PICK order \in [L!Taken -> 1 .. Len(current)] :
          /\ \A i, j \in L!Taken : order[i] = order[j] => i = j
          /\ \A id \in L!Taken : surfaces[id].monitor = current[order[id]]
    BY <1>2 DEF Fits
  <2>2. \A id \in L!Taken : surfaces'[id].monitor = current[order[id]]
    BY <2>1
  <2> QED BY <2>1, <2>2 DEF Fits
<1> QED BY <1>1, <1>2

\* While nothing is pending no stream is asked for.
LEMMA NobodyAsked ==
  ASSUME LayoutInv, state # "fatal_error", state # "await_streams"
  PROVE  /\ pendingStreams = {}
         /\ \A id \in L!Taken : surfaces[id].stream \in {"streaming", "closed"}
BY DEF LayoutInv, LayoutTypes, L!TypeOK, L!EventsExpected

--------------------------------------------------------------------------------
(* The steps of the layout. *)

\* The steps that leave surfaces and streams alone.
LEMMA QuietStep ==
  ASSUME LayoutInv, UNCHANGED <<virtual, surfaces, pendingStreams, pendingSizes, nextId>>
  PROVE  \/ \E config \in Configs : L!SubmitConfig(config)
         \/ L!SessionStarted \/ L!RecreateLayout \/ L!Dispatch \/ L!DispatchNothing
         \/ L!PickUpConfig \/ L!InhibitionDone \/ L!FinishPreparation \/ L!StartRendering
         \/ \E id \in L!Stream : L!StreamError(id)
         => LayoutInv'
<1> USE DEF L!configVars, L!streamVars, L!EnterState
<1>0. /\ L!Taken' = L!Taken
      /\ \A id \in L!Taken : SizeKnown(id)' <=> SizeKnown(id)
      /\ UNCHANGED current /\ Fits => Fits'
  <2>1. L!Taken' = L!Taken
    BY DEF L!Taken
  <2> QED BY <2>1, FitsKept DEF SizeKnown
<1>1. ASSUME NEW config \in Configs, L!SubmitConfig(config)
      PROVE  LayoutInv'
  <2>1. LayoutTypes'
    <3>1. /\ submitted \in 0 .. MaxConfigs /\ submitted < MaxConfigs
          /\ submitted' = submitted + 1 /\ pending' = config /\ update' = TRUE
          /\ UNCHANGED <<state, started, current, dispatching, preparation, recreation,
                         gate, closes>>
      BY <1>1 DEF LayoutInv, LayoutTypes, L!TypeOK, L!SubmitConfig
    <3>2. submitted' \in 0 .. MaxConfigs
      BY <3>1, LayoutConstants
    <3> QED BY <1>0, <3>1, <3>2 DEF LayoutInv, LayoutTypes, L!TypeOK
  <2>2. AskedWhenQuiet' /\ L!EventsExpected'
    BY <1>1, <1>0 DEF LayoutInv, AskedWhenQuiet, L!EventsExpected, L!SubmitConfig
  <2>3. (state # "fatal_error" => Working)'
    <3>1. submitted \in Nat /\ Len(config) \in Nat /\ config # NoConfig
      BY LayoutConstants DEF LayoutInv, LayoutTypes, L!TypeOK
    <3>2. /\ submitted' # 0 /\ pending' = config /\ (virtual \/ (submitted = 0 /\ Len(config) = 1))
          /\ UNCHANGED <<state, current, preparation, recreation, gate>>
      BY <1>1, <3>1 DEF L!SubmitConfig
    <3>3. state # "fatal_error" /\ ~virtual => Alone'
      BY <1>0, <3>2 DEF LayoutInv, Working, Alone, Waiting
    <3> QED BY <1>0, <3>2, <3>3 DEF LayoutInv, Working, Phases, Waiting
  <2> QED BY <2>1, <2>2, <2>3 DEF LayoutInv
<1>2. CASE L!SessionStarted
  <2>1. LayoutTypes'
    BY <1>2, <1>0 DEF LayoutInv, LayoutTypes, L!TypeOK, L!SessionStarted
  <2>2. AskedWhenQuiet' /\ L!EventsExpected'
    BY <1>2, <1>0 DEF LayoutInv, AskedWhenQuiet, L!EventsExpected, L!SessionStarted
  <2>3. (state # "fatal_error" => Working)'
    BY <1>2, <1>0 DEF LayoutInv, Working, Phases, Alone, Waiting, L!SessionStarted
  <2> QED BY <2>1, <2>2, <2>3 DEF LayoutInv
<1>3. CASE L!RecreateLayout
  <2>1. LayoutTypes'
    BY <1>3, <1>0 DEF LayoutInv, LayoutTypes, L!TypeOK, L!RecreateLayout
  <2>2. AskedWhenQuiet' /\ L!EventsExpected'
    BY <1>3, <1>0 DEF LayoutInv, AskedWhenQuiet, L!EventsExpected, L!RecreateLayout
  <2>3. (state # "fatal_error" => Working)'
    BY <1>3, <1>0 DEF LayoutInv, Working, Phases, Alone, Waiting, L!RecreateLayout
  <2> QED BY <2>1, <2>2, <2>3 DEF LayoutInv
<1>4. CASE L!Dispatch \/ L!DispatchNothing
  <2>1. LayoutTypes'
    BY <1>4, <1>0 DEF LayoutInv, LayoutTypes, L!TypeOK, L!Dispatch, L!DispatchNothing
  <2>2. AskedWhenQuiet' /\ L!EventsExpected'
    BY <1>4, <1>0 DEF LayoutInv, AskedWhenQuiet, L!EventsExpected, L!Dispatch, L!DispatchNothing
  <2>3. (state # "fatal_error" => Working)'
    BY <1>4, <1>0 DEF LayoutInv, Working, Phases, Alone, Waiting, L!Dispatch, L!DispatchNothing
  <2> QED BY <2>1, <2>2, <2>3 DEF LayoutInv
<1>5. CASE L!PickUpConfig
  <2>0. \A id \in L!Taken : surfaces[id].stream \in {"streaming", "closed"}
    BY <1>5, NobodyAsked DEF L!PickUpConfig
  <2>1. LayoutTypes'
    BY <1>5, <1>0 DEF LayoutInv, LayoutTypes, L!TypeOK, L!PickUpConfig, L!States
  <2>2. AskedWhenQuiet' /\ L!EventsExpected'
    BY <1>5, <1>0, <2>0 DEF LayoutInv, AskedWhenQuiet, L!EventsExpected, L!PickUpConfig
  <2>3. (state # "fatal_error" => Working)'
    BY <1>5, <1>0 DEF LayoutInv, Working, Phases, Alone, Waiting, L!PickUpConfig, L!EventsExpected
  <2> QED BY <2>1, <2>2, <2>3 DEF LayoutInv
<1>6. CASE L!InhibitionDone
  <2>1. LayoutTypes'
    BY <1>6, <1>0 DEF LayoutInv, LayoutTypes, L!TypeOK, L!InhibitionDone
  <2>2. AskedWhenQuiet' /\ L!EventsExpected'
    BY <1>6, <1>0 DEF LayoutInv, AskedWhenQuiet, L!EventsExpected, L!InhibitionDone, Working, Phases
  <2>3. (state # "fatal_error" => Working)'
    BY <1>6, <1>0 DEF LayoutInv, Working, Phases, Alone, Waiting, L!InhibitionDone
  <2> QED BY <2>1, <2>2, <2>3 DEF LayoutInv
<1>7. CASE L!FinishPreparation
  <2>1. LayoutTypes'
    BY <1>7, <1>0 DEF LayoutInv, LayoutTypes, L!TypeOK, L!FinishPreparation, L!States
  <2>2. AskedWhenQuiet' /\ L!EventsExpected'
    BY <1>7, <1>0 DEF LayoutInv, AskedWhenQuiet, L!EventsExpected, L!FinishPreparation
  <2>3. (state # "fatal_error" => Working)'
    BY <1>7, <1>0 DEF LayoutInv, Working, Phases, Alone, Waiting, L!FinishPreparation,
       L!EventsExpected
  <2> QED BY <2>1, <2>2, <2>3 DEF LayoutInv
<1>8. CASE L!StartRendering
  <2>0. \A id \in L!Taken : surfaces[id].stream \in {"streaming", "closed"}
    BY <1>8, NobodyAsked DEF L!StartRendering
  <2>1. LayoutTypes'
    BY <1>8, <1>0 DEF LayoutInv, LayoutTypes, L!TypeOK, L!StartRendering, L!States
  <2>2. AskedWhenQuiet' /\ L!EventsExpected'
    BY <1>8, <1>0, <2>0 DEF LayoutInv, AskedWhenQuiet, L!EventsExpected, L!StartRendering
  <2>3. (state # "fatal_error" => Working)'
    BY <1>8, <1>0 DEF LayoutInv, Working, Phases, Alone, Waiting, L!StartRendering, L!EventsExpected
  <2> QED BY <2>1, <2>2, <2>3 DEF LayoutInv
<1>9. ASSUME NEW id \in L!Stream, L!StreamError(id)
      PROVE  LayoutInv'
  <2>1. LayoutTypes'
    BY <1>9, <1>0 DEF LayoutInv, LayoutTypes, L!TypeOK, L!StreamError, L!States
  <2>2. AskedWhenQuiet' /\ L!EventsExpected'
    BY <1>9, <1>0 DEF LayoutInv, AskedWhenQuiet, L!EventsExpected, L!StreamError
  <2>3. (state # "fatal_error" => Working)'
    BY <1>9 DEF L!StreamError
  <2> QED BY <2>1, <2>2, <2>3 DEF LayoutInv
<1> QED BY <1>1, <1>2, <1>3, <1>4, <1>5, <1>6, <1>7, <1>8, <1>9

\* SurfaceContext
Surface == [stream : {"asked", "created", "streaming", "closed"}, monitor : Sizes \cup {0},
            size : Sizes \cup {0}, formats : SUBSET (Sizes \cup {0})]

\* Of one surface, its stream changes.
LEMMA StreamChanges ==
  ASSUME LayoutTypes, NEW id \in L!Taken,
         NEW x \in {"asked", "created", "streaming", "closed"},
         surfaces' = [surfaces EXCEPT ![id].stream = x]
  PROVE  /\ L!Taken' = L!Taken
         /\ \A i \in L!Taken :
              /\ surfaces'[i] \in Surface
              /\ surfaces'[i].stream = IF i = id THEN x ELSE surfaces[i].stream
              /\ surfaces'[i].monitor = surfaces[i].monitor
              /\ surfaces'[i].size = surfaces[i].size
              /\ surfaces'[i].formats = surfaces[i].formats
         /\ surfaces' = [i \in L!Taken |-> surfaces'[i]]
<1> DEFINE T == L!Taken
<1>1. T = DOMAIN surfaces /\ surfaces = [i \in T |-> surfaces[i]]
  BY DEF LayoutTypes, L!Taken
<1>2. \A i \in T : surfaces[i] \in Surface
  BY DEF LayoutTypes, L!TypeOK, Surface
<1>3. surfaces' = [i \in T |-> IF i = id THEN [surfaces[i] EXCEPT !.stream = x]
                                          ELSE surfaces[i]]
  BY <1>1
<1>4. L!Taken' = T
  BY <1>3 DEF L!Taken
<1>5. \A i \in T : /\ i # id => surfaces'[i] = surfaces[i]
                   /\ i = id => surfaces'[i] = [surfaces[i] EXCEPT !.stream = x]
  BY <1>3
<1>6. surfaces' = [i \in T |-> surfaces'[i]]
  BY <1>3
<1> HIDE DEF T
<1>7. \A i \in T : /\ surfaces'[i] \in Surface
                   /\ surfaces'[i].stream = IF i = id THEN x ELSE surfaces[i].stream
                   /\ surfaces'[i].monitor = surfaces[i].monitor
                   /\ surfaces'[i].size = surfaces[i].size
                   /\ surfaces'[i].formats = surfaces[i].formats
  BY <1>2, <1>5 DEF Surface
<1> QED BY <1>4, <1>6, <1>7 DEF T

\* What the types need of a step of a stream.
LEMMA StreamTypes ==
  ASSUME LayoutTypes, L!Taken' \subseteq L!Stream, \A i \in L!Taken' : surfaces'[i] \in Surface,
         surfaces' = [i \in L!Taken' |-> surfaces'[i]],
         pendingStreams' \subseteq L!Stream, pendingSizes' \subseteq L!Stream, nextId' \in L!Stream,
         state' \in L!States, update' \in BOOLEAN, dispatching' \in BOOLEAN,
         recreation' \in BOOLEAN, closes' \in 0 .. MaxCloses,
         UNCHANGED <<virtual, started, current, pending, submitted, preparation, gate>>
  PROVE  LayoutTypes'
BY DEF LayoutTypes, L!TypeOK, Surface

\* The D-Bus calls for a stream return (on_stream_created).
LEMMA CreatedStep ==
  ASSUME LayoutInv, NEW id \in L!Stream, L!StreamCreated(id), UNCHANGED virtual
  PROVE  LayoutInv'
<1>1. /\ id \in L!Taken /\ surfaces[id].stream = "asked"
      /\ surfaces' = [surfaces EXCEPT ![id].stream = "created"]
      /\ UNCHANGED <<state, started, current, pending, submitted, update, dispatching,
                     preparation, recreation, pendingStreams, pendingSizes, nextId, gate, closes>>
  BY DEF L!StreamCreated, L!configVars
<1>2. LayoutTypes
  BY DEF LayoutInv
<1>3. /\ L!Taken' = L!Taken
      /\ \A i \in L!Taken :
           /\ surfaces'[i] \in Surface
           /\ surfaces'[i].stream = IF i = id THEN "created" ELSE surfaces[i].stream
           /\ surfaces'[i].monitor = surfaces[i].monitor
           /\ surfaces'[i].size = surfaces[i].size
           /\ surfaces'[i].formats = surfaces[i].formats
      /\ surfaces' = [i \in L!Taken |-> surfaces'[i]]
  BY <1>1, <1>2, StreamChanges
<1>4. LayoutTypes'
  <2>1. /\ L!Taken \subseteq L!Stream /\ pendingStreams \subseteq L!Stream
        /\ pendingSizes \subseteq L!Stream /\ nextId \in L!Stream /\ state \in L!States
        /\ update \in BOOLEAN /\ dispatching \in BOOLEAN /\ recreation \in BOOLEAN
        /\ closes \in 0 .. MaxCloses
    BY <1>2 DEF LayoutTypes, L!TypeOK
  <2> QED BY <1>1, <1>2, <1>3, <2>1, StreamTypes
<1>5. AskedWhenQuiet'
  BY <1>1, <1>3 DEF LayoutInv, AskedWhenQuiet
<1>6. L!EventsExpected'
  BY <1>1, <1>3 DEF LayoutInv, L!EventsExpected
<1>7. ASSUME state # "fatal_error"
      PROVE  Working'
  <2>1. \A i \in L!Taken : SizeKnown(i)'
    BY <1>1, <1>3, <1>7 DEF LayoutInv, Working, SizeKnown
  <2>2. current # NoConfig /\ ~Waiting => Fits'
    BY <1>1, <1>3, <1>7, FitsKept DEF LayoutInv, Working
  <2>3. ~virtual => Alone'
    BY <1>1, <1>3, <1>7 DEF LayoutInv, Working, Alone, Waiting
  <2> QED BY <1>1, <1>3, <1>7, <2>1, <2>2, <2>3 DEF LayoutInv, Working, Phases, Waiting
<1> QED BY <1>1, <1>4, <1>5, <1>6, <1>7 DEF LayoutInv

\* A stream can be connected, or not (on_stream_ready).
LEMMA ReadyStep ==
  ASSUME LayoutInv, NEW id \in L!Stream, L!StreamReady(id), UNCHANGED virtual
  PROVE  LayoutInv'
<1>1. /\ state # "fatal_error" /\ id \in L!Taken /\ surfaces[id].stream = "created"
      /\ UNCHANGED <<started, current, pending, submitted, dispatching, preparation, recreation,
                     pendingSizes, nextId, gate, closes>>
  BY DEF L!StreamReady, L!configVars
<1>2. LayoutTypes /\ state = "await_streams"
  BY <1>1 DEF LayoutInv, L!EventsExpected
<1>3. /\ L!Taken \subseteq L!Stream /\ pendingStreams \subseteq L!Stream
      /\ pendingSizes \subseteq L!Stream /\ nextId \in L!Stream
      /\ update \in BOOLEAN /\ dispatching \in BOOLEAN /\ recreation \in BOOLEAN
      /\ closes \in 0 .. MaxCloses
      /\ \A i \in L!Taken : surfaces[i] \in Surface
  BY <1>2 DEF LayoutTypes, L!TypeOK, Surface
<1>4. CASE L!EnterState("fatal_error") /\ UNCHANGED <<surfaces, pendingStreams>>
  <2>1. state' = "fatal_error" /\ update' = update /\ L!Taken' = L!Taken
    BY <1>3, <1>4 DEF L!EnterState, L!Taken
  <2>2. LayoutTypes'
    <3>1. surfaces' = [i \in L!Taken' |-> surfaces'[i]]
      BY <1>2, <1>4, <2>1 DEF LayoutTypes
    <3> QED BY <1>1, <1>2, <1>3, <1>4, <2>1, <3>1, StreamTypes DEF L!States
  <2> QED BY <1>1, <1>4, <2>1, <2>2 DEF LayoutInv, AskedWhenQuiet, L!EventsExpected
<1>5. CASE /\ surfaces' = [surfaces EXCEPT ![id].stream = "streaming"]
           /\ pendingStreams' = pendingStreams \ {id}
           /\ IF pendingStreams = {id} THEN L!EnterState("await_video_sizes")
              ELSE UNCHANGED <<state, update>>
  <2>1. /\ L!Taken' = L!Taken
        /\ \A i \in L!Taken :
             /\ surfaces'[i] \in Surface
             /\ surfaces'[i].stream = IF i = id THEN "streaming" ELSE surfaces[i].stream
             /\ surfaces'[i].monitor = surfaces[i].monitor
             /\ surfaces'[i].size = surfaces[i].size
             /\ surfaces'[i].formats = surfaces[i].formats
        /\ surfaces' = [i \in L!Taken |-> surfaces'[i]]
    BY <1>1, <1>2, <1>5, StreamChanges
  <2>2. /\ update' = update
        /\ state' = IF pendingStreams = {id} THEN "await_video_sizes" ELSE "await_streams"
    BY <1>2, <1>3, <1>5 DEF L!EnterState
  <2>3. LayoutTypes'
    BY <1>1, <1>2, <1>3, <1>5, <2>1, <2>2, StreamTypes DEF L!States
  <2>4. AskedWhenQuiet'
    BY <1>1, <2>1 DEF LayoutInv, AskedWhenQuiet
  <2>5. L!EventsExpected'
    BY <1>1, <1>2, <1>5, <2>1, <2>2 DEF LayoutInv, L!EventsExpected
  <2>6. Working'
    <3>1. \A i \in L!Taken : SizeKnown(i)'
      BY <1>1, <2>1 DEF LayoutInv, Working, SizeKnown
    <3>2. current # NoConfig => Fits'
      BY <1>1, <1>2, <2>1, FitsKept DEF LayoutInv, Working, Waiting
    <3>3. ~virtual => Alone'
      BY <1>1, <1>2, <2>1, <2>2 DEF LayoutInv, Working, Alone, Waiting
    <3> QED BY <1>1, <1>2, <2>1, <2>2, <3>1, <3>2, <3>3 DEF LayoutInv, Working, Phases, Waiting
  <2> QED BY <2>3, <2>4, <2>5, <2>6 DEF LayoutInv
<1> QED BY <1>4, <1>5 DEF L!StreamReady

\* The stream of a physical monitor closes (on_pipewire_stream_closed).
LEMMA ClosedStep ==
  ASSUME LayoutInv, NEW id \in L!Stream, L!StreamClosed(id), UNCHANGED virtual
  PROVE  LayoutInv'
<1>1. /\ id \in L!Taken /\ surfaces[id].stream = "streaming" /\ ~virtual
      /\ surfaces' = [surfaces EXCEPT ![id].stream = "closed"]
      /\ recreation' = (recreation \/ state # "fatal_error")
      /\ closes < MaxCloses /\ closes' = closes + 1
      /\ UNCHANGED <<state, started, current, pending, submitted, update, dispatching,
                     preparation, pendingStreams, pendingSizes, nextId, gate>>
  BY DEF L!StreamClosed, L!configVars
<1>2. LayoutTypes
  BY DEF LayoutInv
<1>3. /\ L!Taken' = L!Taken
      /\ \A i \in L!Taken :
           /\ surfaces'[i] \in Surface
           /\ surfaces'[i].stream = IF i = id THEN "closed" ELSE surfaces[i].stream
           /\ surfaces'[i].monitor = surfaces[i].monitor
           /\ surfaces'[i].size = surfaces[i].size
           /\ surfaces'[i].formats = surfaces[i].formats
      /\ surfaces' = [i \in L!Taken |-> surfaces'[i]]
  BY <1>1, <1>2, StreamChanges
<1>4. LayoutTypes'
  <2>1. /\ L!Taken \subseteq L!Stream /\ pendingStreams \subseteq L!Stream
        /\ pendingSizes \subseteq L!Stream /\ nextId \in L!Stream /\ state \in L!States
        /\ update \in BOOLEAN /\ dispatching \in BOOLEAN /\ recreation \in BOOLEAN
        /\ closes \in 0 .. MaxCloses
    BY <1>2 DEF LayoutTypes, L!TypeOK
  <2>2. closes' \in 0 .. MaxCloses /\ recreation' \in BOOLEAN
    BY <1>1, <2>1, LayoutConstants
  <2> QED BY <1>1, <1>2, <1>3, <2>1, <2>2, StreamTypes
<1>5. AskedWhenQuiet'
  BY <1>1, <1>3 DEF LayoutInv, AskedWhenQuiet
<1>6. L!EventsExpected'
  BY <1>1, <1>3 DEF LayoutInv, L!EventsExpected
<1>7. ASSUME state # "fatal_error"
      PROVE  Working'
  <2>1. \A i \in L!Taken : SizeKnown(i)'
    BY <1>1, <1>3, <1>7 DEF LayoutInv, Working, SizeKnown
  <2>2. current # NoConfig /\ ~Waiting => Fits'
    BY <1>1, <1>3, <1>7, FitsKept DEF LayoutInv, Working
  <2>3. Alone'
    BY <1>1, <1>3, <1>7 DEF LayoutInv, Working, Alone, Waiting
  <2> QED BY <1>1, <1>3, <1>7, <2>1, <2>2, <2>3 DEF LayoutInv, Working, Phases, Waiting
<1> QED BY <1>1, <1>4, <1>5, <1>6, <1>7 DEF LayoutInv

\* A size arrives.  Of a virtual monitor that is not waited for, it changes nothing.
LEMMA ResizedStep ==
  ASSUME LayoutInv, NEW id \in L!Stream, NEW size \in Sizes, L!VideoResized(id, size),
         UNCHANGED virtual
  PROVE  /\ LayoutInv'
         /\ L!Taken' = L!Taken
         /\ virtual /\ id \notin pendingSizes => surfaces' = surfaces
<1> DEFINE formats1 == IF size = surfaces[id].monitor THEN {size} ELSE surfaces[id].formats
           arrives == L!Expected(id, size) /\ id \in pendingSizes
<1>1. /\ state # "fatal_error" /\ id \in L!Taken /\ surfaces[id].stream = "streaming"
      /\ IF surfaces[id].monitor = 0 THEN size \in Sizes ELSE size \in surfaces[id].formats
      /\ surfaces' = [surfaces EXCEPT ![id].size = size, ![id].formats = formats1]
      /\ UNCHANGED <<started, current, pending, submitted, dispatching, preparation, recreation,
                     pendingStreams, nextId, gate, closes>>
  BY DEF L!VideoResized, L!configVars
<1>2. LayoutTypes /\ Working
  BY <1>1 DEF LayoutInv
<1>3. /\ L!Taken \subseteq L!Stream /\ pendingStreams \subseteq L!Stream
      /\ pendingSizes \subseteq L!Stream /\ nextId \in L!Stream /\ state \in L!States
      /\ update \in BOOLEAN /\ dispatching \in BOOLEAN /\ recreation \in BOOLEAN
      /\ closes \in 0 .. MaxCloses
      /\ \A i \in L!Taken : surfaces[i] \in Surface
      /\ L!Taken = DOMAIN surfaces /\ surfaces = [i \in L!Taken |-> surfaces[i]]
  BY <1>2 DEF LayoutTypes, L!TypeOK, Surface, L!Taken
<1>4. /\ \/ arrives /\ pendingSizes' = pendingSizes \ {id}
         \/ ~arrives /\ pendingSizes' = pendingSizes
      /\ state' = IF arrives /\ pendingSizes = {id} THEN "start_rendering" ELSE state
      /\ update' = (update \/ (arrives /\ pendingSizes = {id}))
  BY <1>3 DEF L!VideoResized, L!EnterState
<1>5. arrives <=> surfaces[id].monitor \in {0, size} /\ id \in pendingSizes
  BY DEF L!Expected
<1>6. formats1 \in SUBSET (Sizes \cup {0})
  BY <1>1, <1>3 DEF Surface
<1> HIDE DEF formats1, arrives
<1>7. /\ L!Taken' = L!Taken
      /\ \A i \in L!Taken :
           /\ surfaces'[i] \in Surface
           /\ i # id => surfaces'[i] = surfaces[i]
           /\ surfaces'[i].stream = surfaces[i].stream
           /\ surfaces'[i].monitor = surfaces[i].monitor
      /\ surfaces'[id].size = size /\ surfaces'[id].formats = formats1
      /\ surfaces' = [i \in L!Taken |-> surfaces'[i]]
  <2> DEFINE T == L!Taken
             new == [surfaces[id] EXCEPT !.size = size, !.formats = formats1]
  <2>1. surfaces' = [i \in T |-> IF i = id THEN new ELSE surfaces[i]]
    BY <1>1, <1>3
  <2>2. L!Taken' = T
    BY <2>1 DEF L!Taken
  <2>3. /\ new \in Surface /\ new.stream = surfaces[id].stream
        /\ new.monitor = surfaces[id].monitor /\ new.size = size /\ new.formats = formats1
    BY <1>1, <1>3, <1>6 DEF Surface
  <2> HIDE DEF new, T
  <2>4. \A i \in T : surfaces'[i] = IF i = id THEN new ELSE surfaces[i]
    BY <2>1
  <2>5. surfaces' = [i \in T |-> surfaces'[i]]
    BY <2>1
  <2> QED BY <1>1, <1>3, <2>2, <2>3, <2>4, <2>5 DEF T
<1>8. LayoutTypes'
  <2>1. pendingSizes' \subseteq L!Stream /\ state' \in L!States /\ update' \in BOOLEAN
    BY <1>3, <1>4 DEF L!States
  <2> QED BY <1>1, <1>2, <1>3, <1>7, <2>1, StreamTypes
<1>9. AskedWhenQuiet'
  BY <1>1, <1>7 DEF LayoutInv, AskedWhenQuiet
<1>10. L!EventsExpected'
  <2>1. id \notin pendingStreams
    BY <1>1 DEF LayoutInv, L!EventsExpected
  <2>2. CASE ~arrives
    BY <1>1, <1>4, <1>7, <2>2 DEF LayoutInv, L!EventsExpected
  <2>3. CASE arrives
    <3>1. /\ pendingSizes' = pendingSizes \ {id} /\ id \in pendingSizes
          /\ pendingStreams' = pendingStreams /\ L!Taken' = L!Taken /\ preparation' = preparation
          /\ state' = IF pendingSizes = {id} THEN "start_rendering" ELSE state
          /\ state \in {"await_streams", "await_video_sizes"} /\ ~preparation
      BY <1>1, <1>4, <1>5, <1>7, <2>3 DEF LayoutInv, L!EventsExpected
    <3>2. pendingStreams \subseteq pendingSizes /\ pendingSizes \subseteq L!Taken
          /\ (pendingStreams # {} <=> state = "await_streams")
      BY <1>1 DEF LayoutInv, L!EventsExpected
    <3>3. \A i \in L!Taken : surfaces'[i].stream \in {"asked", "created"} <=> i \in pendingStreams
      BY <1>1, <1>7 DEF LayoutInv, L!EventsExpected
    <3>4. pendingSizes = {id} => pendingStreams = {}
      BY <2>1, <3>2
    <3> QED BY <2>1, <3>1, <3>2, <3>3, <3>4 DEF L!EventsExpected
  <2> QED BY <2>2, <2>3
<1>11. \A i \in L!Taken : SizeKnown(i)'
  <2> SUFFICES ASSUME NEW i \in L!Taken
               PROVE  SizeKnown(i)'
    OBVIOUS
  <2>1. CASE i # id
    BY <1>2, <1>4, <1>7, <2>1 DEF Working, SizeKnown
  <2>2. CASE i = id
    <3>1. size # 0
      BY LayoutConstants
    <3>2. CASE id \notin pendingSizes'
      <4>1. virtual => size = surfaces[id].monitor
        <5>1. CASE arrives
          BY <1>1, <1>2, <1>5, <5>1 DEF Working, SizeKnown
        <5>2. CASE ~arrives
          BY <1>1, <1>2, <1>4, <3>2, <5>2 DEF Working, SizeKnown
        <5> QED BY <5>1, <5>2
      <4> QED BY <1>1, <1>2, <1>7, <2>2, <3>1, <4>1 DEF Working, SizeKnown, formats1
    <3>3. CASE id \in pendingSizes'
      BY <1>1, <1>2, <1>7, <2>2, <3>3 DEF Working, SizeKnown
    <3> QED BY <3>2, <3>3
  <2> QED BY <2>1, <2>2
<1>12. Working'
  <2>1. current # NoConfig /\ ~Waiting => Fits'
    BY <1>1, <1>2, <1>7, FitsKept DEF Working
  <2>2. arrives => state \in {"await_streams", "await_video_sizes"}
    BY <1>1, <1>5 DEF LayoutInv, L!EventsExpected
  <2>3. /\ Waiting' <=> Waiting
        /\ state' = "await_config" <=> state = "await_config"
    BY <1>4, <2>2 DEF Waiting
  <2>4. ~virtual => Alone'
    BY <1>1, <1>2, <1>7, <2>3 DEF Working, Alone
  <2>5. Phases'
    BY <1>1, <1>2, <1>4, <2>2, <2>3 DEF Working, Phases
  <2> QED BY <1>1, <1>2, <1>7, <1>11, <2>1, <2>3, <2>4, <2>5 DEF Working
<1>13. virtual /\ id \notin pendingSizes => surfaces' = surfaces
  <2> SUFFICES ASSUME virtual, id \notin pendingSizes
               PROVE  surfaces' = surfaces
    OBVIOUS
  <2>1. /\ surfaces[id].size = surfaces[id].monitor /\ surfaces[id].monitor # 0
        /\ surfaces[id].formats = {surfaces[id].monitor}
    BY <1>1, <1>2 DEF Working, SizeKnown
  <2>2. size = surfaces[id].monitor
    BY <1>1, <2>1
  <2>3. formats1 = surfaces[id].formats
    BY <2>1, <2>2 DEF formats1
  <2>4. surfaces'[id] = surfaces[id]
    BY <1>1, <1>3, <1>7, <2>1, <2>2, <2>3 DEF Surface
  <2>5. \A i \in L!Taken : surfaces'[i] = surfaces[i]
    BY <1>7, <2>4
  <2> QED BY <1>3, <1>7, <2>5
<1> QED BY <1>1, <1>7, <1>8, <1>9, <1>10, <1>12, <1>13 DEF LayoutInv


\* dispose_unneeded_surfaces leaves room for the new surfaces, which then are as many as
\* the monitors of the config.
LEMMA SurfacesPrepared ==
  ASSUME LayoutTypes, current \in Configs, ~virtual => Len(current) = 1,
         NEW gone \in SUBSET L!Taken, L!Unneeded(gone)
  PROVE  LET kept == L!Taken \ gone
             fresh == L!NextIds(kept, Len(current) - Cardinality(kept))
         IN  /\ kept \cup fresh \subseteq L!Stream /\ kept \cap fresh = {}
             /\ kept \cup fresh # {}
             /\ Cardinality(kept \cup fresh) = Len(current)
<1> DEFINE T == L!Taken
           kept == T \ gone
           fresh == L!NextIds(kept, Len(current) - Cardinality(kept))
<1>1. T \subseteq L!Stream /\ nextId \in L!Stream
  BY DEF LayoutTypes, L!TypeOK
<1>2. Len(current) \in Nat /\ Len(current) > 0 /\ Len(current) < NStreams /\ NStreams \in Nat
  BY LayoutConstants
<1>3. L!Unneeded(gone) => IF virtual
        THEN Cardinality(gone) = IF Cardinality(T) > Len(current)
                                 THEN Cardinality(T) - Len(current) ELSE 0
        ELSE gone = T
  BY SameCardinality DEF L!Unneeded
<1>4. gone \subseteq T /\ kept = T \ gone
  OBVIOUS
<1>0. fresh = L!NextIds(kept, Len(current) - Cardinality(kept))
  OBVIOUS
<1> HIDE DEF T, kept, fresh
<1>5. IsFiniteSet(T) /\ IsFiniteSet(gone) /\ IsFiniteSet(kept)
  <2>1. gone \subseteq L!Stream /\ kept \subseteq L!Stream
    BY <1>1, <1>4
  <2> QED BY <1>1, <2>1, StreamsFinite, FS_Subset
<1>6. Cardinality(T) \in Nat /\ Cardinality(gone) \in Nat /\ Cardinality(kept) \in Nat
  BY <1>5, FS_CardinalityType
<1>7. Cardinality(kept) = Cardinality(T) - Cardinality(gone)
  <2>1. T \cap gone = gone
    BY <1>4
  <2>2. Cardinality(T \ gone) = Cardinality(T) - Cardinality(T \cap gone)
    BY ONLY <1>5, FS_Difference
  <2> QED BY <1>4, <2>1, <2>2
<1>8. Cardinality(kept) <= Len(current)
  <2>1. CASE virtual
    BY <1>2, <1>3, <1>6, <1>7, <2>1
  <2>2. CASE ~virtual
    <3>1. kept = {}
      BY <1>3, <1>4, <2>2
    <3>2. Cardinality(kept) = 0
      BY <3>1, FS_EmptySet
    <3> QED BY <1>2, <3>2
  <2> QED BY <2>1, <2>2
<1> DEFINE n == Len(current) - Cardinality(kept)
<1>9. n \in Nat /\ n + Cardinality(kept) <= NStreams /\ n + Cardinality(kept) = Len(current)
  BY <1>2, <1>6, <1>8
<1> HIDE DEF n
<1>10. fresh = L!NextIds(kept, n)
  BY <1>0 DEF n
<1>11. fresh \subseteq L!Stream \ kept /\ IsFiniteSet(fresh) /\ Cardinality(fresh) = n
  <2>1. kept \in SUBSET L!Stream
    BY <1>1, <1>4
  <2>2. nextId \in L!Stream /\ n \in Nat /\ n + Cardinality(kept) <= NStreams
    BY <1>1, <1>9
  <2>3. LET ids == L!NextIds(kept, n)
        IN  ids \subseteq L!Stream \ kept /\ IsFiniteSet(ids) /\ Cardinality(ids) = n
    BY ONLY <2>1, <2>2, NextIdsCount
  <2> QED BY <1>10, <2>3
<1>12. kept \cap fresh = {}
  BY <1>11
<1>13. Cardinality(kept \cup fresh)
       = Cardinality(kept) + Cardinality(fresh) - Cardinality(kept \cap fresh)
  BY ONLY <1>5, <1>11, FS_Union
<1>14. Cardinality(kept \cap fresh) = 0
  BY <1>12, FS_EmptySet
<1>15. Cardinality(kept \cup fresh) = Len(current)
  BY <1>6, <1>9, <1>11, <1>13, <1>14
<1>16. kept \cup fresh # {}
  <2> SUFFICES ASSUME kept \cup fresh = {}
               PROVE  FALSE
    OBVIOUS
  <2>1. Cardinality(kept \cup fresh) = 0
    BY FS_EmptySet
  <2> QED BY <1>2, <1>15, <2>1
<1>17. /\ kept \cup fresh \subseteq L!Stream /\ kept \cap fresh = {}
       /\ kept \cup fresh # {} /\ Cardinality(kept \cup fresh) = Len(current)
  BY <1>1, <1>4, <1>11, <1>12, <1>15, <1>16
<1> QED BY <1>17 DEF kept, fresh, T

\* prepare_surface_contexts and create_or_update_streams lay out the current config, while
\* the renderer is quiet.
LEMMA PrepareStep ==
  ASSUME LayoutInv, L!PrepareSurfaces, UNCHANGED virtual
  PROVE  LayoutInv' /\ gate = "quiet"
<1>1. /\ state = "prepare_surfaces" /\ dispatching' = FALSE
      /\ UNCHANGED <<started, current, pending, submitted, preparation, recreation, gate, closes>>
  BY DEF L!PrepareSurfaces, L!configVars
<1>2. LayoutTypes /\ Working /\ Waiting
  BY <1>1 DEF LayoutInv, Waiting
<1>3. /\ L!Taken \subseteq L!Stream /\ nextId \in L!Stream /\ update \in BOOLEAN
      /\ recreation \in BOOLEAN /\ closes \in 0 .. MaxCloses
      /\ \A i \in L!Taken : surfaces[i] \in Surface
      /\ current \in Configs /\ (~virtual => Len(current) = 1)
      /\ gate = "quiet" /\ ~preparation
  BY <1>1, <1>2 DEF LayoutInv, LayoutTypes, L!TypeOK, Surface, Working, Phases, Alone,
     L!EventsExpected
<1>4. /\ pendingStreams = {} /\ pendingSizes = {}
      /\ \A i \in L!Taken : surfaces[i].stream \in {"streaming", "closed"}
  <2>1. pendingSizes = {}
    BY <1>1 DEF LayoutInv, L!EventsExpected
  <2> QED BY <1>1, <2>1, NobodyAsked
<1>5. ASSUME NEW gone \in SUBSET L!Taken,
             surfaces' = [id \in L!Taken \ gone |-> surfaces[id]],
             L!EnterState("fatal_error"),
             UNCHANGED <<pendingStreams, pendingSizes, nextId>>
      PROVE  LayoutInv'
  <2>1. L!Taken' = L!Taken \ gone /\ \A i \in L!Taken' : surfaces'[i] = surfaces[i]
    BY <1>5 DEF L!Taken
  <2>2. state' = "fatal_error" /\ update' = update
    BY <1>3, <1>5 DEF L!EnterState
  <2>3. LayoutTypes'
    <3>1. surfaces' = [id \in L!Taken' |-> surfaces'[id]]
      BY <1>5, <2>1
    <3>2. state' \in L!States
      BY <2>2 DEF L!States
    <3>3. pendingStreams' \subseteq L!Stream /\ pendingSizes' \subseteq L!Stream
      BY <1>4, <1>5
    <3>4. L!Taken' \subseteq L!Stream /\ \A i \in L!Taken' : surfaces'[i] \in Surface
      BY <1>3, <2>1
    <3> QED BY <1>1, <1>2, <1>3, <1>5, <2>2, <3>1, <3>2, <3>3, <3>4, StreamTypes
  <2>4. AskedWhenQuiet'
    BY <1>1, <1>3 DEF AskedWhenQuiet
  <2> QED BY <2>2, <2>3, <2>4 DEF LayoutInv, L!EventsExpected
<1>6. ASSUME NEW gone \in SUBSET L!Taken, L!Unneeded(gone),
             NEW kept, kept = L!Taken \ gone,
             NEW fresh, fresh = L!NextIds(kept, Len(current) - Cardinality(kept)),
             NEW order \in [kept \cup fresh -> 1 .. Len(current)],
             \A i, j \in DOMAIN order : order[i] = order[j] => i = j,
             surfaces' = L!Prepared(fresh, order),
             pendingStreams' = fresh, pendingSizes' = DOMAIN order,
             nextId' = IF fresh = {} THEN nextId ELSE L!IdAfter(fresh),
             L!EnterState(IF fresh = {} THEN "await_video_sizes" ELSE "await_streams")
      PROVE  LayoutInv'
  <2> DEFINE D == kept \cup fresh
             monitor(id) == IF virtual THEN current[order[id]] ELSE 0
             old(id) == IF id \in fresh THEN L!NewSurface ELSE surfaces[id]
  <2>1. /\ D \subseteq L!Stream /\ kept \cap fresh = {} /\ D # {}
        /\ Cardinality(D) = Len(current)
    <3> HIDE DEF D
    <3>1. LayoutTypes /\ current \in Configs /\ (~virtual => Len(current) = 1)
      BY <1>2, <1>3
    <3>2. /\ kept \cup fresh \subseteq L!Stream /\ kept \cap fresh = {}
          /\ kept \cup fresh # {} /\ Cardinality(kept \cup fresh) = Len(current)
      <4>1. gone \in SUBSET L!Taken /\ L!Unneeded(gone)
        BY <1>6
      <4>2. LET k == L!Taken \ gone
                f == L!NextIds(k, Len(current) - Cardinality(k))
            IN  /\ k \cup f \subseteq L!Stream /\ k \cap f = {}
                /\ k \cup f # {} /\ Cardinality(k \cup f) = Len(current)
        BY ONLY <3>1, <4>1, SurfacesPrepared
      <4> DEFINE k == L!Taken \ gone
                 f == L!NextIds(k, Len(current) - Cardinality(k))
      <4>3. k = kept /\ f = fresh
        BY <1>6
      <4>4. /\ k \cup f \subseteq L!Stream /\ k \cap f = {}
            /\ k \cup f # {} /\ Cardinality(k \cup f) = Len(current)
        BY ONLY <4>2
      <4> HIDE DEF k, f
      <4> QED BY ONLY <4>3, <4>4
    <3> QED BY <3>2 DEF D
  <2>2. DOMAIN order = D
    BY <1>6
  <2>3. \A id \in D : /\ old(id) \in Surface
                      /\ monitor(id) \in Sizes \cup {0} /\ (monitor(id) # 0 <=> virtual)
                      /\ old(id).stream \in {"asked", "created"} <=> id \in fresh
    <3>1. \A id \in D : old(id) \in Surface
      BY <1>3, <1>6 DEF L!NewSurface, Surface
    <3>2. \A id \in D : current[order[id]] \in Sizes
      <4>1. current \in Seq(Sizes) /\ \A id \in D : order[id] \in 1 .. Len(current)
        BY <1>3, <1>6, LayoutConstants
      <4> QED BY <4>1
    <3>3. 0 \notin Sizes
      BY LayoutConstants
    <3>4. \A id \in D : old(id).stream \in {"asked", "created"} <=> id \in fresh
      BY <1>4, <1>6 DEF L!NewSurface
    <3> QED BY <3>1, <3>2, <3>3, <3>4
  <2>4. surfaces' = [id \in D |-> [old(id) EXCEPT !.monitor = monitor(id), !.size = 0,
                                                  !.formats = @ \cup {monitor(id)}]]
    BY <1>6, <2>2 DEF L!Prepared
  <2> HIDE DEF old, monitor
  <2>5. /\ L!Taken' = D
        /\ surfaces' = [id \in D |-> surfaces'[id]]
        /\ \A id \in D : /\ surfaces'[id] \in Surface
                         /\ surfaces'[id].monitor = monitor(id)
                         /\ surfaces'[id].stream \in {"asked", "created"} <=> id \in fresh
    <3> HIDE DEF D
    <3>1. L!Taken' = D
      BY <2>4 DEF L!Taken
    <3>2. surfaces' = [id \in D |-> surfaces'[id]]
      BY <2>4
    <3>3. \A id \in D : surfaces'[id] = [old(id) EXCEPT !.monitor = monitor(id), !.size = 0,
                                                        !.formats = @ \cup {monitor(id)}]
      BY <2>4
    <3>4. \A id \in D : /\ surfaces'[id] \in Surface
                        /\ surfaces'[id].monitor = monitor(id)
                        /\ surfaces'[id].stream = old(id).stream
      <4> SUFFICES ASSUME NEW id \in D
                   PROVE  /\ surfaces'[id] \in Surface
                          /\ surfaces'[id].monitor = monitor(id)
                          /\ surfaces'[id].stream = old(id).stream
        OBVIOUS
      <4> DEFINE o == old(id)
                 m == monitor(id)
      <4>1. o \in Surface /\ m \in Sizes \cup {0}
        BY <2>3
      <4>2. surfaces'[id] = [o EXCEPT !.monitor = m, !.size = 0, !.formats = @ \cup {m}]
        BY <3>3
      <4> HIDE DEF o, m
      <4>3. o.formats \cup {m} \in SUBSET (Sizes \cup {0})
        BY <4>1 DEF Surface
      <4>4. /\ surfaces'[id] \in Surface
            /\ surfaces'[id].monitor = m /\ surfaces'[id].stream = o.stream
        BY <4>1, <4>2, <4>3 DEF Surface
      <4> QED BY <4>4 DEF o, m
    <3> QED BY <2>3, <3>1, <3>2, <3>4
  <2>6. /\ state' = IF fresh = {} THEN "await_video_sizes" ELSE "await_streams"
        /\ update' = update
    BY <1>3, <1>6 DEF L!EnterState
  <2>7. LayoutTypes'
    <3>1. nextId' \in L!Stream
      BY <1>3, <1>6, <2>1, IdAfterType
    <3>2. state' \in L!States
      BY <2>6 DEF L!States
    <3>3. pendingStreams' \subseteq L!Stream /\ pendingSizes' \subseteq L!Stream
      BY <1>6, <2>1, <2>2
    <3> QED BY <1>1, <1>2, <1>3, <2>1, <2>5, <2>6, <3>1, <3>2, <3>3, StreamTypes
  <2>8. AskedWhenQuiet'
    BY <1>1, <1>3 DEF AskedWhenQuiet
  <2>9. L!EventsExpected'
    <3>1. /\ pendingStreams' = fresh /\ pendingSizes' = D /\ L!Taken' = D /\ fresh \subseteq D
          /\ ~preparation' /\ D # {}
      BY <1>1, <1>3, <1>6, <2>1, <2>2, <2>5
    <3> HIDE DEF D
    <3> QED BY <2>5, <2>6, <3>1 DEF L!EventsExpected
  <2>10. Fits'
    <3>1. virtual => \A id \in D : surfaces'[id].monitor = current[order[id]]
      BY <2>5 DEF monitor
    <3>2. L!Taken' = D /\ Cardinality(D) = Len(current) /\ UNCHANGED <<virtual, current>>
      BY <1>1, <2>1, <2>5
    <3>3. order \in [D -> 1 .. Len(current)]
      BY <1>6
    <3>4. \A i, j \in D : order[i] = order[j] => i = j
      BY <1>6, <2>2
    <3> HIDE DEF D
    <3>5. virtual => \E f \in [D -> 1 .. Len(current)] :
                       /\ \A i, j \in D : f[i] = f[j] => i = j
                       /\ \A id \in D : surfaces'[id].monitor = current[f[id]]
      BY <3>1, <3>3, <3>4
    <3> QED BY <3>2, <3>5 DEF Fits
  <2>11. ~virtual => Alone'
    <3> SUFFICES ASSUME ~virtual
                 PROVE  Alone'
      OBVIOUS
    <3>1. Len(current) = 1 /\ ~recreation /\ pending = NoConfig /\ submitted # 0
      BY <1>1, <1>2, <1>3 DEF Working, Alone
    <3>2. \A i, j \in D : i = j
      BY <1>6, <2>2, <3>1
    <3> QED BY <1>1, <2>5, <2>6, <3>1, <3>2 DEF Alone, Waiting
  <2>12. \A id \in L!Taken' : SizeKnown(id)'
    <3>1. pendingSizes' = D /\ L!Taken' = D
      BY <1>6, <2>2, <2>5
    <3> HIDE DEF D
    <3> QED BY <2>3, <2>5, <3>1 DEF SizeKnown
  <2>13. Phases' /\ (virtual => ~recreation')
    BY <1>1, <1>2, <1>3, <2>6 DEF Working, Phases, Waiting
  <2> QED BY <2>7, <2>8, <2>9, <2>10, <2>11, <2>12, <2>13 DEF LayoutInv, Working
<1>7. PICK gone \in SUBSET L!Taken :
        /\ L!Unneeded(gone)
        /\ \/ /\ surfaces' = [id \in L!Taken \ gone |-> surfaces[id]]
              /\ L!EnterState("fatal_error")
              /\ UNCHANGED <<pendingStreams, pendingSizes, nextId>>
           \/ \E fresh \in {L!NextIds(L!Taken \ gone,
                                      Len(current) - L!Cardinality(L!Taken \ gone))} :
              \E order \in [(L!Taken \ gone) \cup fresh -> 1 .. Len(current)] :
                /\ \A i, j \in DOMAIN order : order[i] = order[j] => i = j
                /\ surfaces' = L!Prepared(fresh, order)
                /\ pendingStreams' = fresh
                /\ pendingSizes' = DOMAIN order
                /\ nextId' = IF fresh = {} THEN nextId ELSE L!IdAfter(fresh)
                /\ L!EnterState(IF fresh = {} THEN "await_video_sizes" ELSE "await_streams")
  BY DEF L!PrepareSurfaces
<1> QED BY <1>3, <1>5, <1>6, <1>7, SameCardinality

--------------------------------------------------------------------------------
(* The theorems. *)

\* The other scenarios leave the layout alone.
LEMMA LayoutStutters == LayoutInv /\ UNCHANGED layoutVars => LayoutInv'
<1> SUFFICES ASSUME LayoutInv, UNCHANGED layoutVars
             PROVE  LayoutInv'
  OBVIOUS
<1>1. UNCHANGED <<virtual, state, started, current, pending, update, dispatching, preparation,
                  recreation, surfaces, pendingStreams, pendingSizes, nextId, gate, submitted,
                  closes>>
  BY DEF layoutVars
<1>2. L!Taken' = L!Taken
  BY <1>1 DEF L!Taken
<1>3. LayoutTypes'
  BY <1>1, <1>2 DEF LayoutInv, LayoutTypes, L!TypeOK
<1>4. AskedWhenQuiet' /\ L!EventsExpected'
  BY <1>1, <1>2 DEF LayoutInv, AskedWhenQuiet, L!EventsExpected
<1>5. (state # "fatal_error" => Working)'
  <2>1. \A id \in L!Taken : SizeKnown(id)' <=> SizeKnown(id)
    BY <1>1 DEF SizeKnown
  <2>2. Fits => Fits'
    BY <1>1, <1>2, FitsKept
  <2> QED BY <1>1, <1>2, <2>1, <2>2 DEF LayoutInv, Working, Phases, Alone, Waiting
<1> QED BY <1>3, <1>4, <1>5 DEF LayoutInv

\* A step of the layout keeps the invariant.
LEMMA LayoutStep == LayoutInv /\ L!Next => LayoutInv'
<1> SUFFICES ASSUME LayoutInv, L!Next
             PROVE  LayoutInv'
  OBVIOUS
<1>0. virtual' = virtual
  BY DEF L!Next
<1>1. CASE \/ \E config \in Configs : L!SubmitConfig(config)
           \/ L!SessionStarted \/ L!RecreateLayout \/ L!Dispatch \/ L!DispatchNothing
           \/ L!PickUpConfig \/ L!InhibitionDone \/ L!FinishPreparation \/ L!StartRendering
           \/ \E id \in L!Stream : L!StreamError(id)
  <2>1. UNCHANGED <<virtual, surfaces, pendingStreams, pendingSizes, nextId>>
    BY <1>0, <1>1 DEF L!SubmitConfig, L!SessionStarted, L!RecreateLayout, L!Dispatch,
       L!DispatchNothing, L!PickUpConfig, L!InhibitionDone, L!FinishPreparation,
       L!StartRendering, L!StreamError, L!streamVars
  <2> QED BY <1>1, <2>1, QuietStep
<1>2. CASE L!PrepareSurfaces
  BY <1>0, <1>2, PrepareStep
<1>3. ASSUME NEW id \in L!Stream, L!StreamCreated(id)
      PROVE  LayoutInv'
  BY <1>0, <1>3, CreatedStep
<1>4. ASSUME NEW id \in L!Stream, L!StreamReady(id)
      PROVE  LayoutInv'
  BY <1>0, <1>4, ReadyStep
<1>5. ASSUME NEW id \in L!Stream, L!StreamClosed(id)
      PROVE  LayoutInv'
  BY <1>0, <1>5, ClosedStep
<1>6. ASSUME NEW id \in L!Stream, NEW size \in Sizes, L!VideoResized(id, size)
      PROVE  LayoutInv'
  BY <1>0, <1>6, ResizedStep
<1> QED BY <1>1, <1>2, <1>3, <1>4, <1>5, <1>6 DEF L!Next, L!UpdateMonitorLayout

\* The invariant of the layout holds in every behaviour of Screens.
THEOREM LayoutInvariant == Spec => []LayoutInv
<1>1. Init => LayoutInv
  BY LayoutInit
<1>2. LayoutInv /\ [Next]_vars => LayoutInv'
  <2>1. L!Next /\ LayoutInv => LayoutInv'
    BY LayoutStep
  <2>2. Next => L!Next \/ UNCHANGED layoutVars
    BY DEF Next, OfLayout, OfCursor, OfEgl, OfVnc
  <2>3. UNCHANGED vars => UNCHANGED layoutVars
    BY DEF vars
  <2> QED BY <2>1, <2>2, <2>3, LayoutStutters
<1> QED BY <1>1, <1>2, PTL DEF Spec

\* While the renderer is open no size is waited for, and the surfaces fit.
LEMMA OpenLayout == LayoutInv => L!RenderedLayoutIsCurrent
<1> SUFFICES ASSUME LayoutInv, gate = "open", state # "fatal_error", current # NoConfig
             PROVE  /\ L!Cardinality(L!Taken) = Len(current)
                    /\ \A id \in L!Taken : surfaces[id].size > 0
                    /\ virtual => \E order \in [L!Taken -> DOMAIN current] :
                         /\ \A i, j \in L!Taken : order[i] = order[j] => i = j
                         /\ \A id \in L!Taken : surfaces[id].size = current[order[id]]
  BY DEF L!RenderedLayoutIsCurrent
<1>1. /\ state = "await_config" /\ pendingSizes = {} /\ Fits
      /\ \A id \in L!Taken : SizeKnown(id)
  BY DEF LayoutInv, Working, Phases, Waiting, L!EventsExpected
<1>2. \A id \in L!Taken : surfaces[id].size # 0 /\ surfaces[id].size \in Sizes \cup {0}
  BY <1>1 DEF SizeKnown, LayoutInv, LayoutTypes, L!TypeOK
<1>3. \A id \in L!Taken : surfaces[id].size > 0
  <2>1. \A size \in Sizes : size > 0
    BY LayoutConstants
  <2> QED BY <1>2, <2>1
<1>4. CASE ~virtual
  BY <1>1, <1>3, <1>4, SameCardinality DEF Fits
<1>5. CASE virtual
  <2>1. PICK order \in [L!Taken -> 1 .. Len(current)] :
          /\ \A i, j \in L!Taken : order[i] = order[j] => i = j
          /\ \A id \in L!Taken : surfaces[id].monitor = current[order[id]]
    BY <1>1, <1>5 DEF Fits
  <2>2. current \in Seq(Sizes)
    BY LayoutConstants DEF LayoutInv, LayoutTypes, L!TypeOK
  <2>3. DOMAIN current = 1 .. Len(current)
    BY <2>2
  <2>4. order \in [L!Taken -> DOMAIN current]
    BY <2>3
  <2>5. \A id \in L!Taken : surfaces[id].size = current[order[id]]
    BY <1>1, <1>5, <2>1 DEF SizeKnown
  <2>6. L!Cardinality(L!Taken) = Len(current)
    BY <1>1, SameCardinality DEF Fits
  <2> QED BY <1>3, <2>1, <2>4, <2>5, <2>6
<1> QED BY <1>4, <1>5

\* The state of the layout manager stays well-formed, for any number of monitor configs.
THEOREM LayoutTypeCorrect == Spec => []L!TypeOK
<1>1. LayoutInv => L!TypeOK
  BY DEF LayoutInv, LayoutTypes
<1> QED BY <1>1, LayoutInvariant, PTL

\* Events of the layout meet a state that expects them, and rendering goes on with the
\* layout asked for (the assertions of grd-rdp-layout-manager.c).
THEOREM LayoutCorrect == Spec => []LayoutSound
<1>1. LayoutInv => LayoutSound
  BY OpenLayout DEF LayoutInv, LayoutSound, L!LayoutSound
<1> QED BY <1>1, LayoutInvariant, PTL

\* What SurfacesChangeWhenQuiet says of a step.
Calm == L!Taken' # L!Taken \/ (virtual /\ surfaces' # surfaces) => gate = "quiet"

\* A step that changes surfaces finds the renderer quiet.
LEMMA CalmStep == LayoutInv /\ L!Next => Calm
<1> SUFFICES ASSUME LayoutInv, L!Next
             PROVE  Calm
  OBVIOUS
<1>0. virtual' = virtual
  BY DEF L!Next
<1>1. CASE \/ \E config \in Configs : L!SubmitConfig(config)
           \/ L!SessionStarted \/ L!RecreateLayout \/ L!Dispatch \/ L!DispatchNothing
           \/ L!PickUpConfig \/ L!InhibitionDone \/ L!FinishPreparation \/ L!StartRendering
           \/ \E id \in L!Stream : L!StreamError(id)
  <2>1. surfaces' = surfaces
    BY <1>1 DEF L!SubmitConfig, L!SessionStarted, L!RecreateLayout, L!Dispatch,
       L!DispatchNothing, L!PickUpConfig, L!InhibitionDone, L!FinishPreparation,
       L!StartRendering, L!StreamError, L!streamVars
  <2> QED BY <2>1 DEF Calm, L!Taken
<1>2. CASE L!PrepareSurfaces
  BY <1>0, <1>2, PrepareStep DEF Calm
<1>3. ASSUME NEW id \in L!Stream, L!StreamCreated(id) \/ L!StreamReady(id)
      PROVE  Calm
  BY <1>3 DEF LayoutInv, AskedWhenQuiet, L!StreamCreated, L!StreamReady, Calm
<1>4. ASSUME NEW id \in L!Stream, L!StreamClosed(id)
      PROVE  Calm
  <2>1. LayoutTypes /\ id \in L!Taken /\ surfaces' = [surfaces EXCEPT ![id].stream = "closed"]
    BY <1>4 DEF L!StreamClosed, LayoutInv
  <2>2. L!Taken' = L!Taken
    BY <2>1, StreamChanges
  <2> QED BY <1>4, <2>2 DEF Calm, L!StreamClosed
<1>5. ASSUME NEW id \in L!Stream, NEW size \in Sizes, L!VideoResized(id, size)
      PROVE  Calm
  <2>1. L!Taken' = L!Taken /\ (virtual /\ id \notin pendingSizes => surfaces' = surfaces)
    BY <1>0, <1>5, ResizedStep
  <2>2. state # "fatal_error"
    BY <1>5 DEF L!VideoResized
  <2>3. id \in pendingSizes => state \in {"await_streams", "await_video_sizes"}
    BY <2>2 DEF LayoutInv, L!EventsExpected
  <2>4. state \in {"await_streams", "await_video_sizes"} => gate = "quiet"
    BY <2>2 DEF LayoutInv, LayoutTypes, L!TypeOK, Working, Phases
  <2> QED BY <2>1, <2>3, <2>4 DEF Calm
<1> QED BY <1>1, <1>2, <1>3, <1>4, <1>5 DEF L!Next, L!UpdateMonitorLayout

\* Surfaces come and go, and virtual ones are resized, only while rendering is inhibited
\* (inhibit_rendering before, uninhibit_rendering after update_monitor_layout).
THEOREM LayoutChangesWhenQuiet == Spec => SurfacesChangeWhenQuiet
<1>1. LayoutInv /\ [Next]_vars => [Calm]_(L!vars)
  <2>1. Next => L!Next \/ UNCHANGED L!vars
    BY DEF Next, OfLayout, OfCursor, OfEgl, OfVnc, layoutVars, L!vars, L!configVars, L!streamVars
  <2>2. UNCHANGED vars => UNCHANGED L!vars
    BY DEF vars, layoutVars, L!vars, L!configVars, L!streamVars
  <2> QED BY <2>1, <2>2, CalmStep
<1>2. Spec => [][Calm]_(L!vars)
  BY <1>1, LayoutInvariant, PTL DEF Spec
<1> QED BY <1>2 DEF SurfacesChangeWhenQuiet, L!SurfacesChangeWhenQuiet, Calm

-----------------------------------------------------------------------------
(* The pointers of an RDP session. *)

\* s has x.
Has(s, x) == \E k \in 1 .. Len(s) : s[k] = x
NoneTwice(s) == \A j, k \in 1 .. Len(s) : s[j] = s[k] => j = k

\* RemoveAt, element by element.
LEMMA Removed ==
  ASSUME NEW S, NEW s \in Seq(S), NEW k \in 1 .. Len(s)
  PROVE  LET r == C!RemoveAt(s, k)
         IN  /\ r \in Seq(S) /\ Len(r) = Len(s) - 1
             /\ \A j \in 1 .. Len(r) : r[j] = IF j < k THEN s[j] ELSE s[j + 1]
<1> DEFINE a == SubSeq(s, 1, k - 1)
           b == SubSeq(s, k + 1, Len(s))
           n == Len(s)
<1>0. n \in Nat /\ k \in 1 .. n
  OBVIOUS
<1>1. /\ a \in Seq(S) /\ Len(a) = k - 1 /\ \A j \in 1 .. k - 1 : a[j] = s[j]
  BY <1>0
<1>2. /\ b \in Seq(S) /\ Len(b) = n - k /\ \A j \in 1 .. n - k : b[j] = s[k + j]
  BY <1>0
<1> HIDE DEF a, b
<1>3. /\ a \o b \in Seq(S) /\ Len(a \o b) = n - 1
      /\ \A j \in 1 .. n - 1 : (a \o b)[j] = IF j < k THEN s[j] ELSE s[j + 1]
  <2>1. a \o b \in Seq(S) /\ Len(a \o b) = Len(a) + Len(b)
    BY ONLY <1>1, <1>2, ConcatProperties
  <2>2. ASSUME NEW j \in 1 .. n - 1
        PROVE  (a \o b)[j] = IF j < k THEN s[j] ELSE s[j + 1]
    <3>1. CASE j < k
      BY <1>0, <1>1, <1>2, <3>1
    <3>2. CASE ~(j < k)
      <4>1. j - (k - 1) \in 1 .. n - k /\ k + (j - (k - 1)) = j + 1
        BY <1>0, <3>2
      <4>2. (a \o b)[j] = b[j - (k - 1)]
        BY <1>0, <1>1, <1>2, <3>2
      <4> QED BY <1>2, <3>2, <4>1, <4>2
    <3> QED BY <3>1, <3>2
  <2> QED BY <1>0, <1>1, <1>2, <2>1, <2>2
<1>4. C!RemoveAt(s, k) = a \o b
  BY DEF C!RemoveAt, a, b
<1> QED BY <1>3, <1>4

\* A slot that was used is at the end, the others are what they were.
LEMMA CursorTouched ==
  ASSUME recent \in Seq(C!Slots), NoneTwice(recent), NEW i \in C!Slots
  PROVE  LET r == C!Touched(i)
         IN  /\ r \in Seq(C!Slots) /\ NoneTwice(r) /\ C!Last(r) = i
             /\ Len(r) = IF Has(recent, i) THEN Len(recent) ELSE Len(recent) + 1
             /\ \A x \in C!Slots : Has(r, x) <=> x = i \/ Has(recent, x)
<1> DEFINE n == Len(recent)
           k == C!Place(i)
           q == IF Has(recent, i) THEN C!RemoveAt(recent, k) ELSE recent
           r == Append(q, i)
           m == Len(q)
<1>1. n \in Nat /\ DOMAIN recent = 1 .. n
  OBVIOUS
<1>2. C!Touched(i) = r
  BY <1>1 DEF C!Touched, C!Range, Has
<1>3. Has(recent, i) => k \in 1 .. n /\ recent[k] = i
  BY <1>1 DEF C!Place, Has
<1> HIDE DEF k
<1>4. /\ q \in Seq(C!Slots) /\ m \in Nat
      /\ m = IF Has(recent, i) THEN n - 1 ELSE n
      /\ NoneTwice(q) /\ ~Has(q, i)
      /\ \A x \in C!Slots : x # i => (Has(q, x) <=> Has(recent, x))
  <2>1. CASE ~Has(recent, i)
    BY <1>1, <2>1
  <2>2. CASE Has(recent, i)
    <3>1. /\ q \in Seq(C!Slots) /\ m = n - 1
          /\ \A j \in 1 .. n - 1 : q[j] = IF j < k THEN recent[j] ELSE recent[j + 1]
      BY <1>3, <2>2, Removed
    <3> HIDE DEF q
    <3>2. k \in 1 .. n /\ recent[k] = i
      BY <1>3, <2>2
    <3>7. \A x, y \in 1 .. n : recent[x] = recent[y] => x = y
      BY DEF NoneTwice
    <3>8. \A j \in 1 .. n - 1 : (IF j < k THEN j ELSE j + 1) \in 1 .. n \ {k}
      BY <1>1, <3>2
    <3>3. NoneTwice(q)
      <4>1. ASSUME NEW x \in 1 .. n - 1, NEW y \in 1 .. n - 1, q[x] = q[y]
            PROVE  x = y
        <5>1. recent[IF x < k THEN x ELSE x + 1] = recent[IF y < k THEN y ELSE y + 1]
          BY <3>1, <4>1
        <5>2. (IF x < k THEN x ELSE x + 1) = (IF y < k THEN y ELSE y + 1)
          BY <3>7, <3>8, <5>1
        <5> QED BY <1>1, <3>2, <5>2
      <4> QED BY <3>1, <4>1 DEF NoneTwice
    <3>4. ~Has(q, i)
      <4>1. ASSUME NEW j \in 1 .. n - 1
            PROVE  q[j] # i
        <5>1. q[j] = recent[IF j < k THEN j ELSE j + 1]
          BY <3>1
        <5> QED BY <3>2, <3>7, <3>8, <5>1
      <4> QED BY <3>1, <4>1 DEF Has
    <3>5. ASSUME NEW x \in C!Slots, x # i, Has(q, x)
          PROVE  Has(recent, x)
      BY <1>1, <3>1, <3>2, <3>5 DEF Has
    <3>6. ASSUME NEW x \in C!Slots, x # i, Has(recent, x)
          PROVE  Has(q, x)
      <4>1. PICK j \in 1 .. n : recent[j] = x
        BY <3>6 DEF Has
      <4>2. CASE j < k
        <5>1. j \in 1 .. n - 1 /\ q[j] = x
          BY <1>1, <3>1, <3>2, <4>1, <4>2
        <5> QED BY <3>1, <5>1 DEF Has
      <4>3. CASE j > k
        <5>1. j - 1 \in 1 .. n - 1 /\ q[j - 1] = x
          BY <1>1, <3>1, <3>2, <4>1, <4>3
        <5> QED BY <3>1, <5>1 DEF Has
      <4>4. j # k
        BY <3>2, <3>6, <4>1
      <4> QED BY <1>1, <3>2, <4>1, <4>2, <4>3, <4>4
    <3> QED BY <1>1, <2>2, <3>1, <3>3, <3>4, <3>5, <3>6
  <2> QED BY <2>1, <2>2
<1> HIDE DEF q
<1>5. /\ r \in Seq(C!Slots) /\ Len(r) = m + 1 /\ r[m + 1] = i
      /\ \A j \in 1 .. m : r[j] = q[j]
  BY <1>4
<1> HIDE DEF r, m
<1>10. \A j \in 1 .. m : q[j] # i
  BY <1>4 DEF Has, m
<1>11. \A j, l \in 1 .. m : q[j] = q[l] => j = l
  BY <1>4 DEF NoneTwice, m
<1>6. C!Last(r) = i
  BY <1>5 DEF C!Last
<1>7. NoneTwice(r)
  <2>1. ASSUME NEW x \in 1 .. m + 1, NEW y \in 1 .. m + 1, r[x] = r[y]
        PROVE  x = y
    <3>1. x \in 1 .. m \/ x = m + 1
      BY <1>4
    <3>2. y \in 1 .. m \/ y = m + 1
      BY <1>4
    <3>3. CASE x \in 1 .. m /\ y \in 1 .. m
      BY <1>5, <1>11, <2>1, <3>3
    <3>4. CASE x \in 1 .. m /\ y = m + 1
      BY <1>5, <1>10, <2>1, <3>4
    <3>5. CASE x = m + 1 /\ y \in 1 .. m
      BY <1>5, <1>10, <2>1, <3>5
    <3> QED BY <3>1, <3>2, <3>3, <3>4, <3>5
  <2> QED BY <1>5, <2>1 DEF NoneTwice
<1>8. ASSUME NEW x \in C!Slots
      PROVE  Has(r, x) <=> x = i \/ Has(recent, x)
  <2>1. Has(r, x) <=> \E j \in 1 .. m + 1 : r[j] = x
    BY <1>5 DEF Has
  <2>2. Has(q, x) <=> \E j \in 1 .. m : q[j] = x
    BY DEF Has, m
  <2>3. Has(r, x) <=> x = i \/ Has(q, x)
    <3>1. \A j \in 1 .. m + 1 : j \in 1 .. m \/ j = m + 1
      BY <1>4
    <3>2. m + 1 \in 1 .. m + 1 /\ \A j \in 1 .. m : j \in 1 .. m + 1
      BY <1>4
    <3> QED BY <1>5, <2>1, <2>2, <3>1, <3>2
  <2> QED BY <1>4, <2>3
<1>9. Len(r) = IF Has(recent, i) THEN n ELSE n + 1
  <2>1. CASE Has(recent, i)
    BY <1>1, <1>4, <1>5, <2>1
  <2>2. CASE ~Has(recent, i)
    BY <1>1, <1>4, <1>5, <2>2
  <2> QED BY <2>1, <2>2
<1> QED BY <1>2, <1>5, <1>6, <1>7, <1>8, <1>9

\* The slots fill from the first one on, each of them was used.
CursorCache ==
  /\ C!CacheAgrees /\ C!ShownIsRecent
  /\ \A x \in C!Slots : Has(recent, x) <=> x <= Len(recent)
  /\ Len(recent) <= CacheSize

CursorInv == C!TypeOK /\ CursorCache /\ waking <= updates

\* What is known about the constants.
LEMMA CursorConstants ==
  /\ Shape \cap {"none", "default", "hidden", "transparent", "large"} = {}
  /\ CacheSize \in Nat \ {0} /\ MaxUpdates \in Nat
BY ScreensAssumption

\* No pointer was shown, and the caches are empty.
LEMMA CursorInit == Init => CursorInv
<1> SUFFICES ASSUME Init
             PROVE  CursorInv
  OBVIOUS
<1> USE DEF Init, C!Init
<1>0. Len(recent) = 0 /\ recent \in Seq(C!Slots) /\ DOMAIN recent = {}
  OBVIOUS
<1>1. C!TypeOK
  <2>1. /\ waking \in 0 .. MaxUpdates /\ updates \in 0 .. MaxUpdates
        /\ currentCursor \in 0 .. CacheSize
    BY CursorConstants
  <2>2. /\ cache \in [C!Slots -> Shape \cup {"none"}]
        /\ clientCache \in [C!Slots -> Shape \cup {"none"}]
    OBVIOUS
  <2>3. cursorUpdate \in C!Updates \cup {"none"} /\ shown \in C!Updates \cup {"none"}
    BY DEF C!Updates
  <2> QED BY <1>0, <2>1, <2>2, <2>3 DEF C!TypeOK
<1>2. C!CacheAgrees /\ C!ShownIsRecent
  BY <1>0, CursorConstants DEF C!CacheAgrees, C!ShownIsRecent, C!CurrentUpdate, C!IsInjective,
     C!Slots
<1>3. \A x \in C!Slots : Has(recent, x) <=> x <= Len(recent)
  BY <1>0, CursorConstants DEF Has, C!Slots
<1> QED BY <1>0, <1>1, <1>2, <1>3, CursorConstants DEF CursorInv, CursorCache

\* What holds for a pointer that is in the cache, or is put there in the slot after those in
\* use or in place of another one.
LEMMA CursorUsed ==
  ASSUME CursorInv, NEW i \in C!Slots, NEW u \in Shape,
         currentCursor' = i, recent' = C!Touched(i), shown' = u,
         cache' \in [C!Slots -> Shape \cup {"none"}], clientCache' = cache', cache'[i] = u,
         i <= Len(recent) \/ i = Len(recent) + 1,
         \A x \in C!Slots : x # i => cache'[x] = cache[x] /\ cache'[x] # u
  PROVE  CursorCache' /\ recent' \in Seq(C!Slots)
<1> DEFINE n == Len(recent)
<1>1. /\ recent \in Seq(C!Slots) /\ n \in Nat /\ DOMAIN recent = 1 .. n /\ n <= CacheSize
      /\ \A x \in C!Slots : Has(recent, x) <=> x <= n
      /\ \A x \in C!Slots : cache[x] # "none" <=> x <= n
      /\ \A x, y \in C!Slots : cache[x] = cache[y] /\ x # y => cache[x] = "none"
  BY DEF CursorInv, C!TypeOK, CursorCache, C!CacheAgrees
<1>2. NoneTwice(recent)
  BY <1>1 DEF CursorInv, CursorCache, C!CacheAgrees, C!IsInjective, NoneTwice
<1>3. /\ recent' \in Seq(C!Slots) /\ NoneTwice(recent') /\ C!Last(recent') = i
      /\ Len(recent') = IF Has(recent, i) THEN n ELSE n + 1
      /\ \A x \in C!Slots : Has(recent', x) <=> x = i \/ Has(recent, x)
  BY <1>1, <1>2, CursorTouched
<1>4. i \in Nat /\ i <= CacheSize /\ i > 0 /\ \A x \in C!Slots : x \in Nat
  BY CursorConstants DEF C!Slots
<1>5. Len(recent') = IF i <= n THEN n ELSE n + 1
  BY <1>1, <1>3
<1> HIDE DEF n
<1>6. \A x \in C!Slots : (x = i \/ x <= n) <=> x <= Len(recent')
  BY <1>1, <1>4, <1>5 DEF n
<1>7. Len(recent') <= CacheSize
  BY <1>1, <1>4, <1>5 DEF n
<1>8. \A x \in C!Slots : Has(recent', x) <=> x <= Len(recent')
  BY <1>1, <1>3, <1>6
<1>9. u # "none"
  BY CursorConstants
<1>10. \A x \in C!Slots : cache'[x] # "none" <=> x <= Len(recent')
  BY <1>1, <1>6, <1>9
<1>11. \A x, y \in C!Slots : cache'[x] = cache'[y] /\ x # y => cache'[x] = "none"
  BY <1>1
<1>12. C!IsInjective(recent')
  BY <1>3 DEF C!IsInjective, NoneTwice
<1>13. C!CacheAgrees'
  BY <1>4, <1>10, <1>11, <1>12 DEF C!CacheAgrees, C!CurrentUpdate
<1>14. C!ShownIsRecent'
  BY <1>3 DEF C!ShownIsRecent
<1> QED BY <1>3, <1>7, <1>8, <1>13, <1>14 DEF CursorCache

\* The graphics thread sends the pointer of an update.
LEMMA CursorSent ==
  ASSUME CursorInv, NEW u \in {"default", "hidden"} \cup Shape,
         C!KeepCursor(u) \/ C!SystemCursor(u) \/ C!NewCursor(u)
           \/ \E i \in C!Slots : C!CachedCursor(u, i)
  PROVE  CursorInv'
<1>0. /\ cursorUpdate' = "none" /\ rendering' = FALSE
      /\ UNCHANGED <<ready, waking, armed, latest, updates>>
  BY DEF C!KeepCursor, C!SystemCursor, C!NewCursor, C!CachedCursor, C!Taken, C!Return
<1>1. /\ system \in {"none", "default", "hidden"} /\ currentCursor \in 0 .. CacheSize
      /\ cache \in [C!Slots -> Shape \cup {"none"}] /\ clientCache = cache
      /\ recent \in Seq(C!Slots) /\ shown \in C!Updates \cup {"none"}
      /\ \A x \in C!Slots : cache[x] # "none" <=> x <= Len(recent)
      /\ \A x, y \in C!Slots : cache[x] = cache[y] /\ x # y => cache[x] = "none"
      /\ C!CurrentUpdate # "none" => shown = C!CurrentUpdate
      /\ Len(recent) \in Nat /\ Len(recent) <= CacheSize
  BY DEF CursorInv, C!TypeOK, CursorCache, C!CacheAgrees
<1>2. ASSUME NEW i \in C!Slots, u \in Shape,
             currentCursor' = i, recent' = C!Touched(i), shown' = u, system' = system,
             cache' \in [C!Slots -> Shape \cup {"none"}], clientCache' = cache', cache'[i] = u,
             i <= Len(recent) \/ i = Len(recent) + 1,
             \A x \in C!Slots : x # i => cache'[x] = cache[x] /\ cache'[x] # u
      PROVE  CursorInv'
  <2>1. CursorCache' /\ recent' \in Seq(C!Slots)
    BY <1>2, CursorUsed
  <2>2. currentCursor' \in 0 .. CacheSize /\ shown' \in C!Updates
    BY <1>2 DEF C!Slots, C!Updates
  <2> QED BY <1>0, <1>1, <1>2, <2>1, <2>2 DEF CursorInv, C!TypeOK
<1>3. ASSUME UNCHANGED <<system, cache, recent, currentCursor,
                       clientCache, shown>>
      PROVE  CursorInv'
  BY <1>0, <1>3 DEF CursorInv, C!TypeOK, CursorCache, C!CacheAgrees, C!ShownIsRecent,
     C!CurrentUpdate
<1>4. CASE C!KeepCursor(u)
  <2>1. /\ UNCHANGED <<system, cache, currentCursor, clientCache, shown>> /\ C!CurrentUpdate = u
        /\ recent' = IF u \in Shape THEN C!Touched(currentCursor) ELSE recent
    BY <1>4 DEF C!KeepCursor, C!Return
  <2>2. CASE u \notin Shape
    BY <1>3, <2>1, <2>2
  <2>3. CASE u \in Shape
    <3>1. currentCursor # 0 /\ cache[currentCursor] = u
      BY <1>1, <2>1, <2>3, CursorConstants DEF C!CurrentUpdate
    <3>2. u # "none" /\ currentCursor \in C!Slots
      BY <1>1, <2>3, <3>1, CursorConstants DEF C!Slots
    <3>3. shown = u /\ currentCursor <= Len(recent)
      BY <1>1, <2>1, <3>1, <3>2
    <3>4. \A x \in C!Slots : x # currentCursor => cache[x] # u
      BY <1>1, <3>1, <3>2
    <3> QED BY <1>1, <1>2, <2>1, <2>3, <3>1, <3>2, <3>3, <3>4
  <2> QED BY <2>2, <2>3
<1>5. CASE C!SystemCursor(u)
  <2>1. /\ u \in {"default", "hidden"} /\ system' = u /\ currentCursor' = 0 /\ shown' = u
        /\ UNCHANGED <<cache, recent, clientCache>>
    BY <1>5 DEF C!SystemCursor
  <2>2. C!TypeOK'
    <3>1. system' \in {"none", "default", "hidden"} /\ shown' \in C!Updates /\ 0 \in 0 .. CacheSize
      BY <2>1, CursorConstants DEF C!Updates
    <3> QED BY <1>0, <2>1, <3>1 DEF CursorInv, C!TypeOK
  <2>3. CursorCache'
    BY <2>1 DEF CursorInv, CursorCache, C!CacheAgrees, C!ShownIsRecent, C!CurrentUpdate
  <2> QED BY <1>0, <2>2, <2>3 DEF CursorInv
<1>6. CASE C!NewCursor(u)
  <2> DEFINE i == C!SlotFor
  <2>1. /\ u \in Shape /\ \A x \in C!Slots : cache[x] # u
        /\ cache' = [cache EXCEPT ![i] = u] /\ clientCache' = [clientCache EXCEPT ![i] = u]
        /\ currentCursor' = i /\ recent' = C!Touched(i) /\ shown' = u /\ system' = system
    BY <1>6 DEF C!NewCursor
  <2>2. i \in C!Slots /\ (i <= Len(recent) \/ i = Len(recent) + 1)
    <3>1. CASE Len(recent) < CacheSize
      BY <1>1, <3>1, CursorConstants DEF C!SlotFor, C!Slots
    <3>2. CASE Len(recent) = CacheSize
      <4>1. i = Head(recent) /\ recent # <<>>
        BY <1>1, <3>2, CursorConstants DEF C!SlotFor
      <4>2. i \in C!Slots
        BY <1>1, <4>1
      <4> QED BY <3>2, <4>2, CursorConstants DEF C!Slots
    <3> QED BY <1>1, <3>1, <3>2, CursorConstants
  <2> HIDE DEF i
  <2>3. /\ cache' \in [C!Slots -> Shape \cup {"none"}] /\ clientCache' = cache' /\ cache'[i] = u
        /\ \A x \in C!Slots : x # i => cache'[x] = cache[x] /\ cache'[x] # u
    BY <1>1, <2>1, <2>2
  <2> QED BY <1>2, <2>1, <2>2, <2>3
<1>7. ASSUME NEW i \in C!Slots, C!CachedCursor(u, i)
      PROVE  CursorInv'
  <2>1. /\ u \in Shape /\ cache[i] = u /\ currentCursor' = i /\ recent' = C!Touched(i)
        /\ shown' = clientCache[i] /\ UNCHANGED <<cache, clientCache, system>>
    BY <1>7 DEF C!CachedCursor
  <2>2. u # "none"
    BY <2>1, CursorConstants
  <2>3. i <= Len(recent) /\ \A x \in C!Slots : x # i => cache[x] # u
    BY <1>1, <2>1, <2>2
  <2> QED BY <1>1, <1>2, <2>1, <2>3
<1> QED BY <1>4, <1>5, <1>6, <1>7

\* A step of the cursor renderer keeps the invariant.
LEMMA CursorStep == CursorInv /\ C!Next => CursorInv'
<1> SUFFICES ASSUME CursorInv, C!Next
             PROVE  CursorInv'
  OBVIOUS
<1>1. ASSUME UNCHANGED <<system, cache, recent, currentCursor,
                       clientCache, shown>>
      PROVE  CursorCache'
  BY <1>1 DEF CursorInv, CursorCache, C!CacheAgrees, C!ShownIsRecent, C!CurrentUpdate
<1>2. CASE C!NotifySessionReady \/ C!Dispatch
  <2>1. /\ UNCHANGED <<cursorUpdate, waking, system, cache, recent, currentCursor,
                       clientCache, shown, updates>>
        /\ {ready', armed', rendering'} \subseteq BOOLEAN
    BY <1>2 DEF C!NotifySessionReady, C!Dispatch, CursorInv, C!TypeOK
  <2> QED BY <1>1, <2>1 DEF CursorInv, C!TypeOK
<1>3. ASSUME NEW u \in C!Updates, C!SubmitCursorUpdate(u)
      PROVE  CursorInv'
  <2>1. /\ cursorUpdate' = u /\ waking' = waking + 1 /\ updates' = updates + 1
        /\ updates < MaxUpdates
        /\ UNCHANGED <<ready, armed, rendering, system, cache, recent, currentCursor,
                       clientCache, shown>>
    BY <1>3 DEF C!SubmitCursorUpdate
  <2>2. waking \in Nat /\ updates \in Nat /\ waking <= updates
    BY CursorConstants DEF CursorInv, C!TypeOK
  <2>3. waking' \in 0 .. MaxUpdates /\ updates' \in 0 .. MaxUpdates /\ waking' <= updates'
    BY <2>1, <2>2, CursorConstants
  <2> QED BY <1>1, <2>1, <2>3 DEF CursorInv, C!TypeOK
<1>4. CASE C!Wake
  <2>1. /\ waking' = waking - 1 /\ waking > 0 /\ armed' = TRUE
        /\ UNCHANGED <<cursorUpdate, ready, rendering, system, cache, recent, currentCursor,
                       clientCache, shown, updates>>
    BY <1>4 DEF C!Wake
  <2>2. waking \in Nat /\ updates \in Nat /\ waking <= updates /\ updates <= MaxUpdates
    BY CursorConstants DEF CursorInv, C!TypeOK
  <2>3. waking' \in 0 .. MaxUpdates /\ waking' <= updates'
    BY <2>1, <2>2, CursorConstants
  <2> QED BY <1>1, <2>1, <2>3 DEF CursorInv, C!TypeOK
<1>5. CASE C!RenderNothing
  <2>1. /\ UNCHANGED <<cursorUpdate, ready, waking, armed, updates, system, cache, recent,
                       currentCursor, clientCache, shown>>
        /\ rendering' = FALSE
    BY <1>5 DEF C!RenderNothing, C!Return
  <2> QED BY <1>1, <2>1 DEF CursorInv, C!TypeOK
<1>6. ASSUME NEW u \in {"default", "hidden"} \cup Shape,
             C!KeepCursor(u) \/ C!SystemCursor(u) \/ C!NewCursor(u)
               \/ \E i \in C!Slots : C!CachedCursor(u, i)
      PROVE  CursorInv'
  BY <1>6, CursorSent
<1> QED BY <1>2, <1>3, <1>4, <1>5, <1>6 DEF C!Next, C!RenderCursor

\* The other scenarios leave the pointers alone.
LEMMA CursorStutters == CursorInv /\ UNCHANGED cursorVars => CursorInv'
BY DEF CursorInv, CursorCache, C!TypeOK, C!CacheAgrees, C!ShownIsRecent, C!CurrentUpdate, cursorVars

--------------------------------------------------------------------------------
(* The EGL thread. *)

\* GrdEglTask, and an entry of the queue.
Task == [kind : E!Kinds, slot : Slot \cup {"none"}, calls : 0 .. 2, ok : BOOLEAN, freed : BOOLEAN]
Entry == [slot : Slot \cup {"none"}, task : 0 .. MaxTasks]

N == Len(tasks)
M == Len(queue)

EglTypes ==
  /\ tasks \in Seq(Task) /\ N <= MaxTasks
  /\ queue \in Seq(Entry)
  /\ content \in [Slot -> 0 .. N] /\ running \in 0 .. N
  /\ user \in [Slot -> {"none", "streams", "syncs", "released"}]
  /\ egl \in {"starting", "up", "failed", "quitting", "joined"} /\ idle \in BOOLEAN

\* The thread is up while a stream uses it, and has done everything when it is not up.
EglPhases ==
  /\ \A s \in Slot : user[s] \in {"streams", "syncs"} => egl = "up" /\ ~idle
  /\ egl \in {"quitting", "joined"} => idle
  /\ egl # "up" => M = 0 /\ running = 0

\* A task that the queue refers to itself.
Direct(t) == tasks[t].kind = "sync" \/ tasks[t].slot = "none"

\* What a task is and whether its callback was called.
EglTask(t) ==
  /\ tasks[t].kind = "sync" => tasks[t].slot \in Slot
  /\ tasks[t].calls = IF tasks[t].freed THEN 1 ELSE 0

\* A task is somewhere until it is freed.
EglPlaced(t) ==
  ~tasks[t].freed => \/ t = running
                     \/ \E s \in Slot : content[s] = t
                     \/ \E i \in 1 .. M : queue[i].task = t

\* The tasks that end before it did.
Ordered(t) ==
  \A u \in 1 .. t - 1 :
    (tasks[t].kind = "sync" \/ tasks[t].slot = tasks[u].slot) => tasks[u].freed

EglRunning == running # 0 => ~tasks[running].freed /\ Ordered(running)

\* The task of a slot, and the entry of the slot that was queued with it: after the tasks
\* before it and before those after it.
EglContent(s) ==
  content[s] # 0 =>
    /\ ~tasks[content[s]].freed /\ tasks[content[s]].slot = s /\ tasks[content[s]].kind # "sync"
    /\ content[s] # running
    /\ \E i \in 1 .. M :
         /\ queue[i] = E!OfSlot(s)
         /\ \A j \in 1 .. M : queue[j].task > content[s] => i < j

EglEntry(i) ==
  IF queue[i].task = 0
  THEN queue[i].slot \in Slot /\ user[queue[i].slot] \in {"streams", "syncs"}
  ELSE /\ queue[i].slot = "none" /\ queue[i].task <= N
       /\ ~tasks[queue[i].task].freed /\ Direct(queue[i].task) /\ queue[i].task # running

EglFifo ==
  \A i, j \in 1 .. M :
    i < j /\ queue[i].task # 0 /\ queue[j].task # 0 => queue[i].task < queue[j].task

\* A sync task is the last of its slot, in the tasks and in the queue.
EglSync(t) ==
  tasks[t].kind = "sync" =>
    /\ user[tasks[t].slot] \in {"syncs", "released"}
    /\ \A u \in t + 1 .. N : tasks[u].slot # tasks[t].slot
    /\ \A i \in 1 .. M : queue[i] = E!OfSlot(tasks[t].slot) =>
         \E j \in i + 1 .. M : queue[j].task = t

EglInv ==
  /\ EglTypes /\ EglPhases /\ EglRunning /\ EglFifo
  /\ \A t \in 1 .. N : EglTask(t) /\ EglPlaced(t) /\ (tasks[t].ok => Ordered(t)) /\ EglSync(t)
  /\ \A s \in Slot : EglContent(s)
  /\ \A i \in 1 .. M : EglEntry(i)

\* What is known about the constants.
LEMMA EglConstants ==
  /\ "none" \notin Slot /\ MaxTasks \in Nat
  /\ TaskKinds \subseteq {"download", "upload", "allocate", "deallocate", "sync", "custom"}
BY ScreensAssumption

\* The thread begins with nothing to do.
LEMMA EglInit == Init => EglInv
<1> SUFFICES ASSUME Init
             PROVE  EglInv
  OBVIOUS
<1>1. /\ egl = "starting" /\ idle = FALSE /\ tasks = <<>> /\ queue = <<>> /\ running = 0
      /\ content = [s \in Slot |-> 0] /\ user = [s \in Slot |-> "none"]
  BY DEF Init, E!Init
<1>2. /\ N = 0 /\ M = 0 /\ tasks \in Seq(Task) /\ queue \in Seq(Entry)
  BY <1>1 DEF N, M
<1>3. EglTypes
  <2>1. 0 \in 0 .. N /\ N <= MaxTasks
    BY <1>2, EglConstants
  <2>2. content \in [Slot -> 0 .. N] /\ running \in 0 .. N
    BY <1>1, <2>1
  <2>3. user \in [Slot -> {"none", "streams", "syncs", "released"}]
    BY <1>1
  <2> QED BY <1>1, <1>2, <2>1, <2>2, <2>3 DEF EglTypes
<1>4. EglPhases /\ EglRunning
  BY <1>1, <1>2 DEF EglPhases, EglRunning
<1>5. EglFifo /\ \A i \in 1 .. M : EglEntry(i)
  BY <1>2 DEF EglFifo
<1>6. \A t \in 1 .. N : EglTask(t) /\ EglPlaced(t) /\ (tasks[t].ok => Ordered(t)) /\ EglSync(t)
  BY <1>2
<1>7. \A s \in Slot : EglContent(s)
  BY <1>1 DEF EglContent
<1> QED BY <1>3, <1>4, <1>5, <1>6, <1>7 DEF EglInv

\* The parts of the invariant that only look at the tasks and the queue.
LEMMA EglSame ==
  ASSUME EglInv, UNCHANGED <<tasks, queue, content, running>>, EglTypes', EglPhases',
         \A s \in Slot : /\ user[s] \in {"syncs", "released"} => user'[s] \in {"syncs", "released"}
                         /\ (\E i \in 1 .. M : queue[i] = E!OfSlot(s))
                              /\ user[s] \in {"streams", "syncs"}
                              => user'[s] \in {"streams", "syncs"}
  PROVE  EglInv'
<1>1. N' = N /\ M' = M
  BY DEF N, M
<1>2. EglRunning' /\ EglFifo' /\ \A s \in Slot : EglContent(s)'
  BY <1>1 DEF EglInv, EglRunning, EglFifo, EglContent, Ordered
<1>3. \A t \in 1 .. N : EglTask(t)' /\ EglPlaced(t)' /\ (tasks'[t].ok => Ordered(t)')
  BY <1>1 DEF EglInv, EglTask, EglPlaced, Ordered
<1>4. ASSUME NEW t \in 1 .. N
      PROVE  EglSync(t)'
  <2>1. EglSync(t) /\ EglTask(t)
    BY DEF EglInv
  <2> QED BY <1>1, <2>1 DEF EglSync, EglTask
<1>5. ASSUME NEW i \in 1 .. M
      PROVE  EglEntry(i)'
  <2>1. EglEntry(i) /\ queue[i] \in Entry
    BY DEF EglInv, EglTypes, M
  <2>2. queue[i].task = 0 => queue[i] = E!OfSlot(queue[i].slot)
    BY <2>1 DEF Entry, E!OfSlot
  <2> QED BY <1>1, <2>1, <2>2 DEF EglEntry, Direct
<1> QED BY <1>1, <1>2, <1>3, <1>4, <1>5 DEF EglInv

\* The thread starts, streams come and the thread ends.
LEMMA EglCalmStep ==
  ASSUME EglInv, \/ E!Initialize \/ E!Free \/ E!QuitMainLoop \/ E!Join
                 \/ \E s \in Slot : E!AcquireSlot(s)
  PROVE  EglInv'
<1>1. EglTypes /\ EglPhases
  BY DEF EglInv
<1>2. CASE E!Initialize
  <2>1. /\ egl = "starting" /\ egl' \in {"up", "failed"}
        /\ UNCHANGED <<tasks, queue, content, user, running, idle>>
    BY <1>2 DEF E!Initialize
  <2>2. EglTypes' /\ EglPhases'
    BY <1>1, <2>1 DEF EglTypes, EglPhases, N, M
  <2> QED BY <2>1, <2>2, EglSame
<1>3. CASE E!Free
  <2>1. /\ egl = "up" /\ idle' = TRUE /\ \A s \in Slot : user[s] \in {"none", "released"}
        /\ UNCHANGED <<egl, tasks, queue, content, user, running>>
    BY <1>3 DEF E!Free
  <2>2. EglTypes' /\ EglPhases'
    BY <1>1, <2>1 DEF EglTypes, EglPhases, N, M
  <2> QED BY <2>1, <2>2, EglSame
<1>4. CASE E!QuitMainLoop
  <2>1. /\ egl = "up" /\ idle /\ running = 0 /\ queue = <<>> /\ egl' = "quitting"
        /\ UNCHANGED <<tasks, queue, content, user, running, idle>>
    BY <1>4 DEF E!QuitMainLoop
  <2>2. EglTypes' /\ EglPhases'
    BY <1>1, <2>1 DEF EglTypes, EglPhases, N, M
  <2> QED BY <2>1, <2>2, EglSame
<1>5. CASE E!Join
  <2>1. /\ egl = "quitting" /\ egl' = "joined" /\ queue' = <<>>
        /\ tasks' = [t \in DOMAIN tasks |->
                       [tasks[t] EXCEPT !.freed = @ \/ \E i \in DOMAIN queue : queue[i].task = t]]
        /\ UNCHANGED <<content, user, running, idle>>
    BY <1>5 DEF E!Join
  <2>2. M = 0 /\ queue \in Seq(Entry) /\ tasks \in Seq(Task)
    BY <1>1, <2>1 DEF EglTypes, EglPhases
  <2>3. queue = <<>> /\ DOMAIN queue = {}
    BY <2>2 DEF M
  <2>4. \A t \in DOMAIN tasks :
          [tasks[t] EXCEPT !.freed = @ \/ \E i \in DOMAIN queue : queue[i].task = t] = tasks[t]
    <3> SUFFICES ASSUME NEW t \in DOMAIN tasks
                 PROVE  [tasks[t] EXCEPT !.freed = @ \/ \E i \in DOMAIN queue : queue[i].task = t]
                        = tasks[t]
      OBVIOUS
    <3>1. tasks[t] \in Task
      BY <2>2
    <3>2. (tasks[t].freed \/ \E i \in DOMAIN queue : queue[i].task = t) = tasks[t].freed
      BY <2>3, <3>1 DEF Task
    <3> QED BY <3>1, <3>2 DEF Task
  <2>5. tasks' = tasks
    BY <2>1, <2>2, <2>4
  <2>6. EglTypes' /\ EglPhases'
    BY <1>1, <2>1, <2>3, <2>5 DEF EglTypes, EglPhases, N, M
  <2> QED BY <2>1, <2>3, <2>5, <2>6, EglSame
<1>6. ASSUME NEW s \in Slot, E!AcquireSlot(s)
      PROVE  EglInv'
  <2>1. /\ egl = "up" /\ ~idle /\ user[s] = "none" /\ user' = [user EXCEPT ![s] = "streams"]
        /\ UNCHANGED <<egl, tasks, queue, content, running, idle>>
    BY <1>6 DEF E!AcquireSlot
  <2>2. EglTypes' /\ EglPhases'
    BY <1>1, <2>1 DEF EglTypes, EglPhases, N, M
  <2>3. \A x \in Slot : x # s => user'[x] = user[x]
    BY <1>1, <2>1 DEF EglTypes
  <2> QED BY <2>1, <2>2, <2>3, EglSame
<1> QED BY <1>2, <1>3, <1>4, <1>5, <1>6

\* A stream is gone: its sync task is done, hence no entry of its slot is left.
LEMMA EglReleaseStep ==
  ASSUME EglInv, NEW s \in Slot, E!ReleaseSlot(s)
  PROVE  EglInv'
<1>1. /\ user[s] = "syncs" /\ tasks' = E!Ended(tasks, content[s], FALSE)
      /\ content' = [content EXCEPT ![s] = 0] /\ user' = [user EXCEPT ![s] = "released"]
      /\ UNCHANGED <<egl, queue, running, idle>>
  BY DEF E!ReleaseSlot, E!Synced, E!Replaced
<1>2. EglTypes /\ EglPhases
  BY DEF EglInv
<1>3. PICK t \in 1 .. N : tasks[t].kind = "sync" /\ tasks[t].slot = s /\ tasks[t].calls = 1
  BY <1>2 DEF E!ReleaseSlot, E!Synced, EglTypes, N
<1>4. tasks[t].freed
  BY <1>3 DEF EglInv, EglTask
<1>5. ASSUME NEW i \in 1 .. M, queue[i] = E!OfSlot(s)
      PROVE  FALSE
  <2>1. PICK j \in i + 1 .. M : queue[j].task = t
    BY <1>3, <1>5 DEF EglInv, EglSync
  <2>2. j \in 1 .. M /\ t # 0
    BY <1>2 DEF EglTypes, M
  <2> QED BY <1>4, <2>1, <2>2 DEF EglInv, EglEntry
<1>6. content[s] = 0
  BY <1>5 DEF EglInv, EglContent
<1>7. tasks' = tasks /\ content' = content
  BY <1>1, <1>2, <1>6 DEF E!Ended, EglTypes
<1>8. EglTypes' /\ EglPhases'
  BY <1>1, <1>2, <1>7 DEF EglTypes, EglPhases, N, M
<1>9. \A x \in Slot : x # s => user'[x] = user[x]
  BY <1>1, <1>2 DEF EglTypes
<1>10. user'[s] = "released"
  BY <1>1, <1>2 DEF EglTypes
<1> QED BY <1>1, <1>5, <1>7, <1>8, <1>9, <1>10, EglSame

\* new is list after the task t has ended.
EndsIn(new, list, t, ok) ==
  /\ new \in Seq(Task) /\ Len(new) = Len(list)
  /\ \A x \in 1 .. Len(list) : x # t => new[x] = list[x]
  /\ new[t].kind = list[t].kind /\ new[t].slot = list[t].slot
  /\ new[t].calls = 1 /\ new[t].freed = TRUE /\ new[t].ok = ok

\* The callback of a task is called, and it is freed.
LEMMA EglEnded ==
  ASSUME NEW list \in Seq(Task), NEW t \in 1 .. Len(list), list[t].calls = 0, NEW ok \in BOOLEAN
  PROVE  EndsIn(E!Ended(list, t, ok), list, t, ok)
<1> DEFINE end == [list[t] EXCEPT !.calls = @ + 1, !.ok = ok, !.freed = TRUE]
           new == E!Ended(list, t, ok)
<1>1. t # 0 /\ list[t] \in Task
  OBVIOUS
<1>2. new = [list EXCEPT ![t] = end]
  <2>1. new = [list EXCEPT ![t].calls = @ + 1, ![t].ok = ok, ![t].freed = TRUE]
    BY <1>1 DEF E!Ended
  <2> QED BY <1>1, <2>1
<1>3. /\ end \in Task /\ end.kind = list[t].kind /\ end.slot = list[t].slot
      /\ end.calls = 1 /\ end.freed = TRUE /\ end.ok = ok
  <2> DEFINE o == list[t]
  <2>1. o \in Task /\ o.calls = 0
    BY <1>1
  <2>2. end = [o EXCEPT !.calls = 1, !.ok = ok, !.freed = TRUE]
    BY <2>1
  <2> HIDE DEF o, end
  <2>5. end = [kind |-> o.kind, slot |-> o.slot, calls |-> 1, ok |-> ok, freed |-> TRUE]
    BY <2>1, <2>2 DEF Task
  <2>6. o.kind \in E!Kinds /\ o.slot \in Slot \cup {"none"} /\ 1 \in 0 .. 2
    BY <2>1 DEF Task
  <2>3. end \in Task /\ end.kind = o.kind /\ end.slot = o.slot
    BY <2>5, <2>6 DEF Task
  <2>4. end.calls = 1 /\ end.freed = TRUE /\ end.ok = ok
    BY <2>1, <2>2 DEF Task
  <2> QED BY <2>3, <2>4 DEF o
<1> HIDE DEF end, new
<1>4. /\ new \in Seq(Task) /\ Len(new) = Len(list) /\ new[t] = end
      /\ \A x \in 1 .. Len(list) : x # t => new[x] = list[x]
  BY <1>2, <1>3
<1> QED BY <1>3, <1>4 DEF new, EndsIn

\* A task ends that is in no queue and no slot.
LEMMA EglRunStep ==
  ASSUME EglInv, E!RunTask
  PROVE  EglInv'
<1> DEFINE r == running
<1>1. PICK ok \in BOOLEAN : tasks' = E!Ended(tasks, r, ok)
  BY DEF E!RunTask, E!Outcomes
<1>2. r # 0 /\ running' = 0 /\ UNCHANGED <<egl, queue, content, user, idle>>
  BY DEF E!RunTask
<1>3. /\ tasks \in Seq(Task) /\ N \in Nat /\ r \in 1 .. N /\ ~tasks[r].freed /\ tasks[r].calls = 0
      /\ Ordered(r)
  BY <1>2 DEF EglInv, EglTypes, EglRunning, EglTask, N
<1>4. /\ tasks' \in Seq(Task) /\ N' = N /\ M' = M
      /\ \A x \in 1 .. N : x # r => tasks'[x] = tasks[x]
      /\ tasks'[r].kind = tasks[r].kind /\ tasks'[r].slot = tasks[r].slot
      /\ tasks'[r].calls = 1 /\ tasks'[r].freed = TRUE /\ tasks'[r].ok = ok
  <2>1. r \in 1 .. Len(tasks) /\ tasks[r].calls = 0 /\ tasks \in Seq(Task)
    BY <1>3 DEF N
  <2>2. EndsIn(E!Ended(tasks, r, ok), tasks, r, ok)
    BY <2>1, EglEnded
  <2> QED BY <1>1, <1>2, <2>2 DEF N, M, EndsIn
<1> HIDE DEF r
<1>5. EglTypes' /\ EglPhases'
  BY <1>2, <1>3, <1>4 DEF EglInv, EglTypes, EglPhases
<1>6. \A x \in 1 .. N : /\ tasks'[x].kind = tasks[x].kind /\ tasks'[x].slot = tasks[x].slot
                        /\ tasks[x].freed => tasks'[x].freed
  BY <1>4
<1>7. \A x \in 1 .. N : Ordered(x) => Ordered(x)'
  BY <1>3, <1>6 DEF Ordered
<1>8. ASSUME NEW t \in 1 .. N
      PROVE  EglTask(t)' /\ EglPlaced(t)' /\ (tasks'[t].ok => Ordered(t)') /\ EglSync(t)'
  <2>1. EglTask(t) /\ EglPlaced(t) /\ (tasks[t].ok => Ordered(t)) /\ EglSync(t)
    BY DEF EglInv
  <2>2. EglTask(t)'
    BY <1>4, <1>6, <2>1 DEF EglTask
  <2>3. EglPlaced(t)'
    BY <1>2, <1>4, <2>1 DEF EglPlaced, r
  <2>4. tasks'[t].ok => Ordered(t)'
    BY <1>3, <1>4, <1>7, <2>1
  <2>5. EglSync(t)'
    BY <1>2, <1>4, <1>6, <2>1 DEF EglSync, EglTypes
  <2> QED BY <2>2, <2>3, <2>4, <2>5
<1>9. ASSUME NEW s \in Slot
      PROVE  EglContent(s)'
  <2>1. EglContent(s) /\ content[s] \in 0 .. N
    BY DEF EglInv, EglTypes
  <2> QED BY <1>2, <1>3, <1>4, <2>1 DEF EglContent, r
<1>10. ASSUME NEW i \in 1 .. M
       PROVE  EglEntry(i)'
  <2>1. EglEntry(i) /\ queue[i].task \in Nat
    <3>1. EglEntry(i) /\ queue[i] \in Entry
      BY DEF EglInv, EglTypes, M
    <3> QED BY <3>1, EglConstants DEF Entry
  <2> QED BY <1>2, <1>3, <1>4, <2>1 DEF EglEntry, Direct, r
<1>11. EglRunning' /\ EglFifo'
  BY <1>2, <1>4 DEF EglInv, EglRunning, EglFifo
<1> QED BY <1>4, <1>5, <1>8, <1>9, <1>10, <1>11 DEF EglInv

\* The thread takes the first entry of the queue.
LEMMA EglDispatchStep ==
  ASSUME EglInv, E!Dispatch
  PROVE  EglInv'
<1> DEFINE h == queue[1]
           r == running'
<1>1. /\ egl = "up" /\ running = 0 /\ M > 0 /\ queue' = Tail(queue)
      /\ running' = (IF h.task # 0 THEN h.task ELSE content[h.slot])
      /\ content' = (IF h.task # 0 THEN content ELSE [content EXCEPT ![h.slot] = 0])
      /\ UNCHANGED <<egl, tasks, user, idle>>
  <2>1. queue \in Seq(Entry) /\ queue # <<>>
    BY DEF EglInv, EglTypes, E!Dispatch
  <2>2. M > 0 /\ Head(queue) = h
    BY <2>1 DEF M
  <2> QED BY <2>2 DEF E!Dispatch
<1>2. EglTypes /\ EglPhases /\ EglFifo
  BY DEF EglInv
<1>3. /\ queue \in Seq(Entry) /\ N \in Nat /\ M \in Nat /\ M > 0 /\ h \in Entry
      /\ content \in [Slot -> 0 .. N]
  BY <1>1, <1>2 DEF EglTypes, N, M
<1>4. /\ queue' \in Seq(Entry) /\ M' = M - 1 /\ N' = N
      /\ \A i \in 1 .. M - 1 : queue'[i] = queue[i + 1]
  BY <1>1, <1>3 DEF N, M
<1>5. \A i \in 1 .. M : EglEntry(i) /\ queue[i] \in Entry
  BY <1>3 DEF EglInv, M
<1>6. EglEntry(1)
  BY <1>3, <1>5
<1>7. \A s \in Slot : EglContent(s) /\ content[s] \in 0 .. N
  BY <1>3 DEF EglInv
<1>8. \A t \in 1 .. N : EglTask(t) /\ EglPlaced(t) /\ (tasks[t].ok => Ordered(t)) /\ EglSync(t)
  BY DEF EglInv
<1>11. \A i \in 1 .. M - 1 : i + 1 \in 1 .. M /\ queue'[i] = queue[i + 1]
  BY <1>3, <1>4
<1>12. \A j \in 1 .. M : j # 1 => j - 1 \in 1 .. M - 1 /\ queue'[j - 1] = queue[j]
  <2> SUFFICES ASSUME NEW j \in 1 .. M, j # 1
               PROVE  j - 1 \in 1 .. M - 1 /\ queue'[j - 1] = queue[j]
    OBVIOUS
  <2>1. j - 1 \in 1 .. M - 1 /\ (j - 1) + 1 = j
    BY <1>3
  <2> QED BY <1>4, <2>1
<1>13. 1 \in 1 .. M /\ h = queue[1]
  BY <1>3
<1> HIDE DEF h
<1>14. EglFifo'
  <2> SUFFICES ASSUME NEW i \in 1 .. M - 1, NEW j \in 1 .. M - 1,
                      i < j, queue'[i].task # 0, queue'[j].task # 0
               PROVE  queue'[i].task < queue'[j].task
    BY <1>4 DEF EglFifo
  <2>1. /\ i + 1 \in 1 .. M /\ queue'[i] = queue[i + 1]
        /\ j + 1 \in 1 .. M /\ queue'[j] = queue[j + 1]
    BY <1>11
  <2>2. i + 1 < j + 1
    OBVIOUS
  <2>3. \A x, y \in 1 .. M :
          x < y /\ queue[x].task # 0 /\ queue[y].task # 0 => queue[x].task < queue[y].task
    BY <1>2 DEF EglFifo
  <2>4. queue[i + 1].task # 0 /\ queue[j + 1].task # 0 => queue[i + 1].task < queue[j + 1].task
    BY ONLY <2>1, <2>2, <2>3
  <2> QED BY <2>1, <2>4
<1>15. ASSUME NEW t \in 1 .. N
       PROVE  EglTask(t)' /\ EglSync(t)' /\ (tasks'[t].ok => Ordered(t)')
  <2>1. EglTask(t)' /\ (tasks'[t].ok => Ordered(t)')
    BY <1>1, <1>8 DEF EglTask, Ordered
  <2>2. EglSync(t)'
    <3> SUFFICES ASSUME tasks[t].kind = "sync"
                 PROVE  EglSync(t)'
      BY <1>1 DEF EglSync
    <3>1. ASSUME NEW i \in 1 .. M - 1, queue'[i] = E!OfSlot(tasks[t].slot)
          PROVE  \E j \in i + 1 .. M - 1 : queue'[j].task = t
      <4>1. PICK j \in i + 1 + 1 .. M : queue[j].task = t
        BY <1>8, <1>11, <3>1 DEF EglSync
      <4>2. j \in 1 .. M /\ j # 1 /\ j - 1 \in i + 1 .. M - 1
        BY <1>3, <4>1
      <4> QED BY <1>12, <4>1, <4>2
    <3> QED BY <1>1, <1>4, <1>8, <3>1 DEF EglSync
  <2> QED BY <2>1, <2>2
<1>16. ASSUME NEW s \in Slot, content[s] # 0, h # E!OfSlot(s)
       PROVE  \E i \in 1 .. M - 1 : /\ queue'[i] = E!OfSlot(s)
                                   /\ \A j \in 1 .. M - 1 : queue'[j].task > content[s] => i < j
  <2>1. PICK i \in 1 .. M : /\ queue[i] = E!OfSlot(s)
                            /\ \A j \in 1 .. M : queue[j].task > content[s] => i < j
    BY <1>7, <1>16 DEF EglContent
  <2>2. i # 1
    BY <1>13, <1>16, <2>1
  <2>3. ASSUME NEW j \in 1 .. M - 1, queue'[j].task > content[s]
        PROVE  i - 1 < j
    <3>1. i < j + 1
      BY <1>11, <2>1, <2>3
    <3> QED BY <2>1, <3>1
  <2> QED BY <1>12, <2>1, <2>2, <2>3
<1>17. ASSUME NEW i \in 1 .. M - 1, queue'[i].task # 0 => queue'[i].task # running'
       PROVE  EglEntry(i)'
  <2>1. EglEntry(i + 1) /\ queue'[i] = queue[i + 1]
    BY <1>5, <1>11
  <2> QED BY <1>1, <1>4, <1>17, <2>1 DEF EglEntry, Direct
<1>9. CASE h.task # 0
  <2> DEFINE t == h.task
  <2>1. running' = t /\ content' = content /\ t \in 1 .. N /\ Direct(t) /\ ~tasks[t].freed
    BY <1>1, <1>3, <1>6, <1>9, <1>13, EglConstants DEF EglEntry, Entry
  <2>0. queue[1].task = t
    BY <1>13
  <2> HIDE DEF t
  <2>2. \A s \in Slot : content[s] # 0 => content[s] # t
    BY <1>7, <2>1, EglConstants DEF EglContent, Direct
  <2>3. \A i \in 1 .. M : i # 1 /\ queue[i].task # 0 => t < queue[i].task
    BY <1>2, <1>3, <1>13, <2>0, <2>1 DEF EglFifo
  <2>4. Ordered(t)
    <3> SUFFICES ASSUME NEW u \in 1 .. t - 1,
                        tasks[t].kind = "sync" \/ tasks[t].slot = tasks[u].slot, ~tasks[u].freed
                 PROVE  FALSE
      BY DEF Ordered
    <3>1. u \in 1 .. N /\ u # 0 /\ u < t
      BY <1>3, <2>1
    <3>2. CASE \E i \in 1 .. M : queue[i].task = u
      BY <1>3, <2>0, <2>1, <2>3, <3>1, <3>2
    <3>3. ASSUME NEW s \in Slot, content[s] = u
          PROVE  FALSE
      <4>1. tasks[u].slot = s /\ \A i \in 1 .. M : queue[i] = E!OfSlot(s) =>
                                    ~\A j \in 1 .. M : queue[j].task > u => i < j
        <5>1. tasks[u].slot = s
          BY <1>7, <3>1, <3>3 DEF EglContent
        <5>2. \A i \in 1 .. M : ~\A j \in 1 .. M : queue[j].task > u => i < j
          BY <1>13, <2>0, <2>1, <3>1
        <5> QED BY <5>1, <5>2
      <4> QED BY <1>7, <3>1, <3>3, <4>1 DEF EglContent
    <3> QED BY <1>1, <1>8, <3>1, <3>2, <3>3 DEF EglPlaced
  <2>5. ASSUME NEW x \in 1 .. N
        PROVE  EglPlaced(x)'
    <3>1. EglPlaced(x) /\ x # 0
      BY <1>8
    <3>2. ASSUME NEW i \in 1 .. M, queue[i].task = x
          PROVE  x = t \/ \E j \in 1 .. M - 1 : queue'[j].task = x
      BY <1>12, <2>0, <3>2
    <3> QED BY <1>1, <1>4, <2>1, <3>1, <3>2 DEF EglPlaced
  <2>6. ASSUME NEW s \in Slot
        PROVE  EglContent(s)'
    <3>1. h # E!OfSlot(s)
      BY <1>9 DEF E!OfSlot
    <3> QED BY <1>1, <1>4, <1>7, <1>16, <2>1, <2>2, <3>1 DEF EglContent
  <2>7. ASSUME NEW i \in 1 .. M - 1
        PROVE  EglEntry(i)'
    <3>1. queue'[i] = queue[i + 1] /\ i + 1 \in 1 .. M /\ i + 1 # 1
      BY <1>11
    <3>2. queue'[i].task # 0 => queue'[i].task # t
      BY <2>1, <2>3, <3>1
    <3> QED BY <1>17, <2>1, <3>2
  <2>8. EglTypes'
    <3>1. content' \in [Slot -> 0 .. N] /\ running' \in 0 .. N
      BY <1>3, <2>1
    <3> QED BY <1>1, <1>2, <1>4, <3>1 DEF EglTypes
  <2>9. EglPhases' /\ EglRunning'
    BY <1>1, <1>2, <2>1, <2>4 DEF EglPhases, EglRunning, Ordered
  <2> QED BY <1>4, <1>14, <1>15, <2>5, <2>6, <2>7, <2>8, <2>9 DEF EglInv
<1>10. CASE h.task = 0
  <2> DEFINE s == h.slot
             c == content[s]
  <2>1. s \in Slot /\ running' = c /\ content' = [content EXCEPT ![s] = 0] /\ h = E!OfSlot(s)
    BY <1>1, <1>3, <1>6, <1>10, <1>13 DEF EglEntry, Entry, E!OfSlot
  <2> HIDE DEF s
  <2>2. c \in 0 .. N /\ EglContent(s)
    BY <1>7, <2>1
  <2>3. \A x \in Slot : x # s => content'[x] = content[x]
    BY <1>3, <2>1
  <2>4. content'[s] = 0
    BY <1>3, <2>1
  <2> HIDE DEF c
  <2>5. c # 0 => /\ c \in 1 .. N /\ ~tasks[c].freed /\ tasks[c].slot = s /\ tasks[c].kind # "sync"
    BY <1>3, <2>2 DEF EglContent, c
  <2>6. ASSUME c # 0
        PROVE  Ordered(c)
    <3> SUFFICES ASSUME NEW u \in 1 .. c - 1, tasks[c].slot = tasks[u].slot, ~tasks[u].freed
                 PROVE  FALSE
      BY <2>5, <2>6 DEF Ordered
    <3>1. u \in 1 .. N /\ u # 0 /\ u < c /\ tasks[u].slot = s /\ c \in u + 1 .. N
      BY <1>3, <2>5, <2>6
    <3>2. ASSUME NEW x \in Slot, content[x] = u
          PROVE  FALSE
      <4>1. x = s
        BY <1>7, <3>1, <3>2 DEF EglContent
      <4> QED BY <3>1, <3>2, <4>1 DEF c
    <3>3. tasks[u].kind # "sync"
      BY <1>8, <2>5, <2>6, <3>1 DEF EglSync
    <3>4. ASSUME NEW i \in 1 .. M, queue[i].task = u
          PROVE  FALSE
      BY <1>5, <2>1, <3>1, <3>3, <3>4, EglConstants DEF EglEntry, Direct
    <3> QED BY <1>1, <1>8, <3>1, <3>2, <3>4 DEF EglPlaced
  <2>7. ASSUME NEW x \in 1 .. N
        PROVE  EglPlaced(x)'
    <3>1. EglPlaced(x) /\ x # 0
      BY <1>8
    <3>2. ASSUME NEW i \in 1 .. M, queue[i].task = x
          PROVE  \E j \in 1 .. M - 1 : queue'[j].task = x
      BY <1>10, <1>12, <1>13, <3>1, <3>2
    <3>3. ASSUME NEW y \in Slot, content[y] = x
          PROVE  x = running' \/ \E z \in Slot : content'[z] = x
      BY <2>1, <2>3, <3>3 DEF c
    <3> QED BY <1>1, <1>4, <3>1, <3>2, <3>3 DEF EglPlaced
  <2>8. ASSUME NEW x \in Slot
        PROVE  EglContent(x)'
    <3>1. CASE x = s
      BY <2>4, <3>1 DEF EglContent
    <3>2. CASE x # s
      <4>1. h # E!OfSlot(x) /\ content'[x] = content[x]
        BY <2>1, <2>3, <3>2 DEF E!OfSlot
      <4>2. content[x] # 0 => content[x] # c
        BY <1>7, <2>5, <3>2 DEF EglContent
      <4> QED BY <1>1, <1>4, <1>7, <1>16, <2>1, <4>1, <4>2 DEF EglContent
    <3> QED BY <3>1, <3>2
  <2>9. ASSUME NEW i \in 1 .. M - 1
        PROVE  EglEntry(i)'
    <3>1. EglEntry(i + 1) /\ queue'[i] = queue[i + 1]
      BY <1>5, <1>11
    <3>2. queue'[i].task # 0 => queue'[i].task # c
      BY <2>1, <2>5, <3>1, EglConstants DEF EglEntry, Direct
    <3> QED BY <1>17, <2>1, <3>2
  <2>10. EglTypes'
    <3>1. content' \in [Slot -> 0 .. N]
      BY <1>3, <2>1
    <3> QED BY <1>1, <1>2, <1>4, <2>1, <2>2, <3>1 DEF EglTypes
  <2>11. EglPhases' /\ EglRunning'
    BY <1>1, <1>2, <2>1, <2>5, <2>6 DEF EglPhases, EglRunning, Ordered
  <2> QED BY <1>4, <1>14, <1>15, <2>7, <2>8, <2>9, <2>10, <2>11 DEF EglInv
<1> QED BY <1>9, <1>10

\* A task n and an entry e are queued, and the task c, which a slot held, is replaced.
Grown(c, n, e) ==
  /\ tasks' \in Seq(Task) /\ N' = N + 1 /\ tasks'[N + 1] = n
  /\ n.calls = 0 /\ n.ok = FALSE /\ n.freed = FALSE
  /\ \A x \in 1 .. N : x # c => tasks'[x] = tasks[x]
  /\ \A x \in 1 .. N : tasks'[x].kind = tasks[x].kind /\ tasks'[x].slot = tasks[x].slot
  /\ c # 0 => tasks'[c].calls = 1 /\ tasks'[c].ok = FALSE /\ tasks'[c].freed = TRUE
  /\ queue' \in Seq(Entry) /\ M' = M + 1 /\ queue'[M + 1] = e
  /\ \A i \in 1 .. M : queue'[i] = queue[i]
  /\ e.task \in {0, N + 1}
  /\ running' = running /\ egl = "up" /\ egl' = "up" /\ ~idle /\ ~idle'

\* What was there before keeps its part of the invariant.
LEMMA EglGrows ==
  ASSUME EglInv, NEW c \in 0 .. N, NEW n, NEW e, Grown(c, n, e),
         c # 0 => c # running /\ ~Direct(c),
         \A y \in Slot : content'[y] = content[y] \/ content[y] = c,
         \A y \in Slot : content[y] = c /\ c # 0 => content'[y] # c,
         \A t \in 1 .. N : tasks[t].kind = "sync" => /\ user'[tasks[t].slot] = user[tasks[t].slot]
                                                     /\ n.slot # tasks[t].slot
                                                     /\ e # E!OfSlot(tasks[t].slot),
         \A y \in Slot : user[y] \in {"streams", "syncs"} => user'[y] \in {"streams", "syncs"}
  PROVE  /\ EglPhases' /\ EglRunning' /\ EglFifo'
         /\ \A t \in 1 .. N : /\ EglTask(t)' /\ EglPlaced(t)' /\ EglSync(t)'
                              /\ tasks'[t].ok => Ordered(t)'
         /\ \A y \in Slot : content'[y] = content[y] => EglContent(y)'
         /\ \A i \in 1 .. M : EglEntry(i)'
<1>1. EglTypes /\ EglPhases /\ EglRunning /\ EglFifo
  BY DEF EglInv
<1>2. /\ N \in Nat /\ M \in Nat /\ N' = N + 1 /\ M' = M + 1 /\ running \in 0 .. N
      /\ running' = running /\ tasks \in Seq(Task) /\ queue \in Seq(Entry)
  BY <1>1 DEF EglTypes, N, M, Grown
<1>3. \A x \in 1 .. N : /\ tasks'[x].kind = tasks[x].kind /\ tasks'[x].slot = tasks[x].slot
                        /\ tasks[x].freed => tasks'[x].freed
                        /\ x # c => tasks'[x] = tasks[x]
                        /\ x = c => tasks'[x].calls = 1 /\ tasks'[x].ok = FALSE /\ tasks'[x].freed
  <2> SUFFICES ASSUME NEW x \in 1 .. N
               PROVE  /\ tasks'[x].kind = tasks[x].kind /\ tasks'[x].slot = tasks[x].slot
                      /\ tasks[x].freed => tasks'[x].freed
                      /\ x # c => tasks'[x] = tasks[x]
                      /\ x = c => tasks'[x].calls = 1 /\ tasks'[x].ok = FALSE /\ tasks'[x].freed
    OBVIOUS
  <2>1. tasks'[x].kind = tasks[x].kind /\ tasks'[x].slot = tasks[x].slot
    BY DEF Grown
  <2>2. x # c => tasks'[x] = tasks[x]
    BY DEF Grown
  <2>3. x = c => tasks'[x].calls = 1 /\ tasks'[x].ok = FALSE /\ tasks'[x].freed = TRUE
    BY <1>2 DEF Grown
  <2> QED BY <2>1, <2>2, <2>3
<1>4. \A i \in 1 .. M : queue'[i] = queue[i] /\ i \in 1 .. M + 1
  BY <1>2 DEF Grown
<1>5. \A t \in 1 .. N : EglTask(t) /\ EglPlaced(t) /\ (tasks[t].ok => Ordered(t)) /\ EglSync(t)
  BY DEF EglInv
<1>6. \A y \in Slot : EglContent(y) /\ content[y] \in 0 .. N
  BY <1>1 DEF EglInv, EglTypes
<1>7. \A i \in 1 .. M : EglEntry(i) /\ queue[i].task \in Nat /\ queue[i].task <= N
  <2> SUFFICES ASSUME NEW i \in 1 .. M
               PROVE  EglEntry(i) /\ queue[i].task \in Nat /\ queue[i].task <= N
    OBVIOUS
  <2>1. EglEntry(i) /\ queue[i] \in Entry
    BY <1>2 DEF EglInv, M
  <2> QED BY <1>2, <2>1, EglConstants DEF EglEntry, Entry
<1>8. queue'[M + 1] = e /\ (e.task = 0 \/ e.task = N + 1)
  BY DEF Grown
<1>9. \A x \in 1 .. N : Ordered(x) => Ordered(x)'
  <2> SUFFICES ASSUME NEW x \in 1 .. N, Ordered(x), NEW u \in 1 .. x - 1,
                      tasks'[x].kind = "sync" \/ tasks'[x].slot = tasks'[u].slot
               PROVE  tasks'[u].freed
    BY DEF Ordered
  <2>1. u \in 1 .. N
    BY <1>2
  <2> QED BY <1>3, <2>1 DEF Ordered
<1>10. EglPhases'
  BY DEF EglPhases, Grown
<1>11. EglRunning'
  <2> SUFFICES ASSUME running # 0
               PROVE  EglRunning'
    BY <1>2 DEF EglRunning
  <2>1. PICK r \in 1 .. N : r = running
    BY <1>2
  <2>2. ~tasks[r].freed /\ Ordered(r) /\ r # c
    BY <1>1, <2>1 DEF EglRunning
  <2>3. ~tasks'[r].freed /\ Ordered(r)'
    BY <1>3, <1>9, <2>2
  <2>4. running' = r
    BY <1>2, <2>1
  <2> QED BY <2>3, <2>4 DEF EglRunning
<1>12. EglFifo'
  <2> SUFFICES ASSUME NEW i \in 1 .. M + 1, NEW j \in 1 .. M + 1,
                      i < j, queue'[i].task # 0, queue'[j].task # 0
               PROVE  queue'[i].task < queue'[j].task
    BY <1>2 DEF EglFifo
  <2>1. i \in 1 .. M
    BY <1>2
  <2>2. CASE j \in 1 .. M
    BY <1>1, <1>4, <2>1, <2>2 DEF EglFifo
  <2>3. CASE j = M + 1
    <3>1. queue'[j].task = N + 1
      BY <1>8, <2>3
    <3>2. queue'[i].task = queue[i].task /\ queue[i].task \in Nat /\ queue[i].task <= N
      BY <1>4, <1>7, <2>1
    <3>3. N \in Nat
      BY <1>2
    <3> QED BY ONLY <3>1, <3>2, <3>3
  <2> QED BY <1>2, <2>2, <2>3
<1>13. ASSUME NEW t \in 1 .. N
       PROVE  EglTask(t)' /\ EglPlaced(t)' /\ EglSync(t)' /\ (tasks'[t].ok => Ordered(t)')
  <2>1. EglTask(t)'
    BY <1>3, <1>5 DEF EglTask
  <2>2. tasks'[t].ok => Ordered(t)'
    BY <1>3, <1>5, <1>9
  <2>3. EglPlaced(t)'
    <3> SUFFICES ASSUME ~tasks'[t].freed
                 PROVE  \/ t = running'
                        \/ \E y \in Slot : content'[y] = t
                        \/ \E i \in 1 .. M + 1 : queue'[i].task = t
      BY <1>2 DEF EglPlaced
    <3>1. t # c /\ ~tasks[t].freed
      BY <1>3
    <3> QED BY <1>2, <1>4, <1>5, <3>1 DEF EglPlaced
  <2>4. EglSync(t)'
    <3> SUFFICES ASSUME tasks[t].kind = "sync"
                 PROVE  EglSync(t)'
      BY <1>3 DEF EglSync
    <3> DEFINE y == tasks[t].slot
    <3>1. /\ tasks'[t].slot = y /\ user'[y] \in {"syncs", "released"}
          /\ n.slot # y /\ e # E!OfSlot(y)
      BY <1>3, <1>5 DEF EglSync
    <3>2. \A u \in t + 1 .. N + 1 : tasks'[u].slot # y
      <4> SUFFICES ASSUME NEW u \in t + 1 .. N + 1
                   PROVE  tasks'[u].slot # y
        OBVIOUS
      <4>1. u = N + 1 \/ (u \in t + 1 .. N /\ u \in 1 .. N)
        <5>1. N \in Nat
          BY <1>2
        <5>2. u \in Nat /\ t \in Nat /\ 1 <= t /\ t + 1 <= u /\ u <= N + 1
          BY ONLY <5>1, t \in 1 .. N, u \in t + 1 .. N + 1
        <5>3. u = N + 1 \/ u <= N
          BY ONLY <5>1, <5>2
        <5>4. u <= N => u \in t + 1 .. N /\ u \in 1 .. N
          BY ONLY <5>1, <5>2
        <5> QED BY <5>3, <5>4
      <4> QED BY <1>3, <1>5, <3>1, <4>1 DEF EglSync, Grown
    <3>3. ASSUME NEW i \in 1 .. M + 1, queue'[i] = E!OfSlot(y)
          PROVE  \E j \in i + 1 .. M + 1 : queue'[j].task = t
      <4>1. i \in 1 .. M /\ queue[i] = E!OfSlot(y)
        BY <1>2, <1>4, <1>8, <3>1, <3>3
      <4>2. PICK j \in i + 1 .. M : queue[j].task = t
        BY <1>5, <4>1 DEF EglSync
      <4>3. j \in 1 .. M /\ j \in i + 1 .. M + 1
        BY <1>2, <4>1
      <4> QED BY <1>4, <4>2, <4>3
    <3> HIDE DEF y
    <3> QED BY <1>2, <3>1, <3>2, <3>3 DEF EglSync
  <2> QED BY <2>1, <2>2, <2>3, <2>4
<1>14. ASSUME NEW y \in Slot, content'[y] = content[y]
       PROVE  EglContent(y)'
  <2> SUFFICES ASSUME content[y] # 0
               PROVE  EglContent(y)'
    BY <1>14 DEF EglContent
  <2> DEFINE d == content[y]
  <2>1. /\ d \in 1 .. N /\ ~tasks[d].freed /\ tasks[d].slot = y /\ tasks[d].kind # "sync"
        /\ d # running
    BY <1>2, <1>6 DEF EglContent
  <2>2. PICK i \in 1 .. M : /\ queue[i] = E!OfSlot(y)
                            /\ \A j \in 1 .. M : queue[j].task > d => i < j
    BY <1>6 DEF EglContent
  <2>3. d # c
    BY <1>14
  <2>4. content'[y] = d
    BY <1>14
  <2> HIDE DEF d
  <2>5. i \in 1 .. M + 1 /\ queue'[i] = E!OfSlot(y)
    BY <1>4, <2>2
  <2>6. \A j \in 1 .. M + 1 : queue'[j].task > d => i < j
    <3> SUFFICES ASSUME NEW j \in 1 .. M + 1, queue'[j].task > d
                 PROVE  i < j
      OBVIOUS
    <3>1. CASE j \in 1 .. M
      BY <1>4, <2>2, <3>1
    <3>2. CASE j = M + 1
      BY <1>2, <3>2
    <3> QED BY <1>2, <3>1, <3>2
  <2>7. ~tasks'[d].freed /\ tasks'[d].slot = y /\ tasks'[d].kind # "sync"
    BY <1>3, <2>1, <2>3
  <2> QED BY <1>2, <2>1, <2>4, <2>5, <2>6, <2>7 DEF EglContent
<1>15. ASSUME NEW i \in 1 .. M
       PROVE  EglEntry(i)'
  <2>1. EglEntry(i) /\ queue'[i] = queue[i] /\ queue[i].task \in Nat /\ queue[i].task <= N
    BY <1>4, <1>7
  <2>2. CASE queue[i].task = 0
    BY <2>1, <2>2 DEF EglEntry
  <2>3. CASE queue[i].task # 0
    <3>0. PICK t \in 1 .. N : t = queue[i].task
      BY <1>2, <2>1, <2>3
    <3>1. t \in 1 .. N /\ Direct(t) /\ ~tasks[t].freed /\ t # running /\ queue[i].slot = "none"
      BY <2>1, <2>3, <3>0 DEF EglEntry
    <3>2. t # c
      BY <3>1
    <3>3. ~tasks'[t].freed /\ Direct(t)'
      BY <1>3, <3>1, <3>2 DEF Direct
    <3>4. queue'[i].task = t /\ queue'[i].slot = "none"
      BY <2>1, <3>0, <3>1
    <3> QED BY <1>2, <3>1, <3>3, <3>4 DEF EglEntry
  <2> QED BY <2>2, <2>3
<1> QED BY <1>10, <1>11, <1>12, <1>13, <1>14, <1>15

\* A new task did not end yet.
LEMMA EglNewTask ==
  ASSUME NEW kind \in E!Kinds, NEW s \in Slot \cup {"none"}
  PROVE  /\ E!NewTask(kind, s) \in Task
         /\ E!NewTask(kind, s).kind = kind /\ E!NewTask(kind, s).slot = s
         /\ E!NewTask(kind, s).calls = 0 /\ E!NewTask(kind, s).ok = FALSE
         /\ E!NewTask(kind, s).freed = FALSE
<1>1. 0 \in 0 .. 2
  OBVIOUS
<1> QED BY <1>1 DEF E!NewTask, Task

\* A list that grows at its end.
LEMMA EglAppended ==
  ASSUME NEW S, NEW list \in Seq(S), NEW x \in S
  PROVE  /\ Append(list, x) \in Seq(S) /\ Len(Append(list, x)) = Len(list) + 1
         /\ Append(list, x)[Len(list) + 1] = x
         /\ \A i \in 1 .. Len(list) : Append(list, x)[i] = list[i]
OBVIOUS

\* A task without a slot, or a sync task, is queued.
LEMMA EglPushStep ==
  ASSUME EglInv, \/ \E kind \in TaskKinds : E!Push(kind)
                 \/ \E s \in Slot : E!Sync(s)
  PROVE  EglInv'
<1>0. EglTypes /\ EglPhases
  BY DEF EglInv
<1>1. PICK kind \in E!Kinds, s \in Slot \cup {"none"} :
        /\ egl = "up" /\ ~idle /\ N < MaxTasks
        /\ kind = "sync" => /\ s \in Slot /\ user[s] = "streams"
                            /\ user' = [user EXCEPT ![s] = "syncs"]
        /\ kind # "sync" => s = "none" /\ user' = user
        /\ tasks' = Append(tasks, E!NewTask(kind, s))
        /\ queue' = Append(queue, E!OfTask(N + 1))
        /\ UNCHANGED <<egl, content, running, idle>>
  <2>1. CASE \E k \in TaskKinds : E!Push(k)
    <3>1. PICK k \in TaskKinds : E!Push(k)
      BY <2>1
    <3>2. k \in E!Kinds
      BY EglConstants DEF E!Kinds
    <3> QED BY <3>1, <3>2 DEF E!Push, N
  <2>2. CASE \E x \in Slot : E!Sync(x)
    <3>1. PICK x \in Slot : E!Sync(x)
      BY <2>2
    <3>2. egl = "up" /\ ~idle
      BY <1>0, <3>1 DEF E!Sync, EglPhases
    <3>3. "sync" \in E!Kinds
      BY DEF E!Kinds
    <3> QED BY <3>1, <3>2, <3>3 DEF E!Sync, N
  <2> QED BY <2>1, <2>2
<1> DEFINE n == E!NewTask(kind, s)
           e == E!OfTask(N + 1)
<1>2. /\ n \in Task /\ n.kind = kind /\ n.slot = s /\ n.calls = 0 /\ n.ok = FALSE /\ n.freed = FALSE
  BY EglNewTask
<1>3. /\ N \in Nat /\ M \in Nat /\ MaxTasks \in Nat /\ tasks \in Seq(Task) /\ queue \in Seq(Entry)
      /\ content \in [Slot -> 0 .. N] /\ running \in 0 .. N
      /\ user \in [Slot -> {"none", "streams", "syncs", "released"}]
  BY <1>0, EglConstants DEF EglTypes, N, M
<1>4. e \in Entry /\ e.task = N + 1 /\ e.slot = "none"
  <2>1. N + 1 \in 0 .. MaxTasks
    BY <1>1, <1>3
  <2> QED BY <2>1 DEF E!OfTask, Entry
<1>5. kind = "sync" => /\ user'[s] = "syncs" /\ \A y \in Slot : y # s => user'[y] = user[y]
  BY <1>1, <1>3
<1> HIDE DEF n, e
<1>6. /\ tasks' \in Seq(Task) /\ N' = N + 1 /\ tasks'[N + 1] = n
      /\ \A x \in 1 .. N : tasks'[x] = tasks[x]
  <2>1. tasks' = Append(tasks, n)
    BY <1>1 DEF n
  <2> QED BY <1>2, <1>3, <2>1, EglAppended DEF N
<1>7. /\ queue' \in Seq(Entry) /\ M' = M + 1 /\ queue'[M + 1] = e
      /\ \A x \in 1 .. M : queue'[x] = queue[x]
  <2>1. queue' = Append(queue, e)
    BY <1>1 DEF e
  <2> QED BY <1>3, <1>4, <2>1, EglAppended DEF M
<1>8. Grown(0, n, e)
  BY <1>1, <1>2, <1>4, <1>6, <1>7 DEF Grown
<1>9. \A y \in Slot : user[y] \in {"streams", "syncs"} => user'[y] \in {"streams", "syncs"}
  BY <1>1, <1>5
<1>10. \A t \in 1 .. N : tasks[t].kind = "sync" => /\ user'[tasks[t].slot] = user[tasks[t].slot]
                                                   /\ n.slot # tasks[t].slot
                                                   /\ e # E!OfSlot(tasks[t].slot)
  <2> SUFFICES ASSUME NEW t \in 1 .. N, tasks[t].kind = "sync"
               PROVE  /\ user'[tasks[t].slot] = user[tasks[t].slot] /\ n.slot # tasks[t].slot
                      /\ e # E!OfSlot(tasks[t].slot)
    OBVIOUS
  <2>1. tasks[t].slot \in Slot /\ user[tasks[t].slot] \in {"syncs", "released"}
    BY DEF EglInv, EglTask, EglSync
  <2>2. e # E!OfSlot(tasks[t].slot)
    BY <1>3, <1>4 DEF E!OfSlot
  <2>3. s # tasks[t].slot
    BY <1>1, <2>1, EglConstants
  <2> QED BY <1>1, <1>2, <1>5, <2>1, <2>2, <2>3
<1>11. content' = content /\ 0 \in 0 .. N
  BY <1>1, <1>3
<1>12. /\ EglPhases' /\ EglRunning' /\ EglFifo'
       /\ \A t \in 1 .. N : /\ EglTask(t)' /\ EglPlaced(t)' /\ EglSync(t)'
                            /\ tasks'[t].ok => Ordered(t)'
       /\ \A y \in Slot : content'[y] = content[y] => EglContent(y)'
       /\ \A i \in 1 .. M : EglEntry(i)'
  BY <1>8, <1>9, <1>10, <1>11, EglGrows
<1>13. EglTypes'
  <2>1. content' \in [Slot -> 0 .. N + 1] /\ running' \in 0 .. N + 1
    BY <1>1, <1>3
  <2>2. N + 1 <= MaxTasks
    BY <1>1, <1>3
  <2>3. user' \in [Slot -> {"none", "streams", "syncs", "released"}]
    BY <1>1, <1>3
  <2> QED BY <1>0, <1>1, <1>6, <1>7, <2>1, <2>2, <2>3 DEF EglTypes
<1>18. PICK top \in Nat, last \in Nat : top = N + 1 /\ last = M + 1
  BY <1>3
<1>14. EglTask(top)' /\ EglPlaced(top)' /\ ~tasks'[N + 1].ok
  <2>1. EglTask(top)'
    BY <1>1, <1>2, <1>3, <1>6, <1>18 DEF EglTask
  <2>2. M + 1 \in 1 .. M' /\ queue'[M + 1].task = N + 1
    BY <1>3, <1>4, <1>7
  <2>3. EglPlaced(top)'
    BY <1>3, <1>6, <1>18, <2>2 DEF EglPlaced
  <2> QED BY <1>2, <1>6, <2>1, <2>3
<1>15. EglSync(top)'
  <2> SUFFICES ASSUME kind = "sync"
               PROVE  EglSync(top)'
    BY <1>2, <1>6, <1>18 DEF EglSync
  <2>1. ASSUME NEW i \in 1 .. M + 1, queue'[i] = E!OfSlot(s)
        PROVE  \E j \in i + 1 .. M + 1 : queue'[j].task = N + 1
    <3>1. i # M + 1
      <4>1. e # E!OfSlot(s)
        BY <1>3, <1>4 DEF E!OfSlot
      <4> QED BY <1>7, <2>1, <4>1
    <3>2. M + 1 \in i + 1 .. M + 1
      BY <1>3, <3>1
    <3> QED BY <1>4, <1>7, <3>2
  <2>2. N + 2 .. N + 1 = {} /\ (N + 1) + 1 = N + 2
    BY <1>3
  <2>3. tasks'[N + 1].slot = s /\ user'[s] = "syncs"
    BY <1>2, <1>5, <1>6
  <2> QED BY <1>6, <1>7, <1>18, <2>1, <2>2, <2>3 DEF EglSync
<1>16. EglEntry(last)'
  <2>2. Direct(top)'
    BY <1>1, <1>2, <1>6, <1>18 DEF Direct
  <2>3. /\ queue'[last].task = top /\ queue'[last].slot = "none" /\ ~tasks'[top].freed
        /\ top # running' /\ top # 0 /\ top <= N'
    <3>1. queue'[last].task = top /\ queue'[last].slot = "none"
      BY <1>4, <1>7, <1>18
    <3>2. ~tasks'[top].freed
      BY <1>2, <1>6, <1>18
    <3>3. top # running /\ top # 0 /\ N' = top
      BY <1>3, <1>6, <1>18
    <3>4. running' = running
      BY <1>1
    <3>5. top # running' /\ top # 0 /\ top <= N'
      BY ONLY <3>3, <3>4, top \in Nat
    <3> QED BY <3>1, <3>2, <3>5
  <2>4. tasks'[top].kind = "sync" \/ tasks'[top].slot = "none"
    BY <2>2 DEF Direct
  <2> QED BY <2>3, <2>4 DEF EglEntry, Direct
<1>17. /\ \A t \in 1 .. N + 1 : t \in 1 .. N \/ t = N + 1
       /\ \A i \in 1 .. M + 1 : i \in 1 .. M \/ i = M + 1
  BY <1>3
<1> QED BY <1>6, <1>7, <1>11, <1>12, <1>13, <1>14, <1>15, <1>16, <1>17, <1>18 DEF EglInv

\* A task is put in a slot, in place of one that did not start.
LEMMA EglReplaceStep ==
  ASSUME EglInv, NEW s \in Slot, NEW kind \in TaskKinds, E!PushReplaceable(kind, s)
  PROVE  EglInv'
<1> DEFINE c == content[s]
           mid == E!Ended(tasks, c, FALSE)
           n == E!NewTask(kind, s)
           e == E!OfSlot(s)
<1>0. EglTypes /\ EglPhases
  BY DEF EglInv
<1>1. /\ kind \in {"download", "upload"} /\ user[s] = "streams" /\ N < MaxTasks
      /\ tasks' = Append(mid, n)
      /\ content' = [content EXCEPT ![s] = N + 1]
      /\ queue' = Append(queue, e)
      /\ UNCHANGED <<egl, user, running, idle>>
  BY DEF E!PushReplaceable, E!Replaced, N
<1>2. /\ n \in Task /\ n.kind = kind /\ n.slot = s /\ n.calls = 0 /\ n.ok = FALSE /\ n.freed = FALSE
  <2>1. kind \in E!Kinds
    BY <1>1 DEF E!Kinds
  <2>2. s \in Slot \cup {"none"}
    OBVIOUS
  <2> QED BY <2>1, <2>2, EglNewTask
<1>3. /\ N \in Nat /\ M \in Nat /\ MaxTasks \in Nat /\ tasks \in Seq(Task) /\ queue \in Seq(Entry)
      /\ content \in [Slot -> 0 .. N] /\ running \in 0 .. N /\ c \in 0 .. N
      /\ user \in [Slot -> {"none", "streams", "syncs", "released"}]
  BY <1>0, EglConstants DEF EglTypes, N, M
<1>4. e \in Entry /\ e.task = 0 /\ e.slot = s
  <2>1. 0 \in 0 .. MaxTasks
    BY <1>3
  <2> QED BY <2>1 DEF E!OfSlot, Entry
<1>5. c # 0 => /\ c \in 1 .. N /\ ~tasks[c].freed /\ tasks[c].slot = s /\ tasks[c].kind # "sync"
               /\ c # running
  BY <1>3 DEF EglInv, EglContent
<1>6. c # 0 => ~Direct(c) /\ tasks[c].calls = 0
  BY <1>5, EglConstants DEF EglInv, EglTask, Direct
<1>7. /\ mid \in Seq(Task) /\ Len(mid) = N
      /\ \A x \in 1 .. N : x # c => mid[x] = tasks[x]
      /\ \A x \in 1 .. N : mid[x].kind = tasks[x].kind /\ mid[x].slot = tasks[x].slot
      /\ c # 0 => mid[c].calls = 1 /\ mid[c].ok = FALSE /\ mid[c].freed = TRUE
  <2>1. CASE c = 0
    <3>1. mid = tasks
      BY <2>1 DEF E!Ended
    <3> HIDE DEF mid, c
    <3> QED BY <1>3, <2>1, <3>1 DEF N
  <2>2. CASE c # 0
    <3>1. c \in 1 .. Len(tasks) /\ tasks[c].calls = 0
      BY <1>5, <1>6, <2>2 DEF N
    <3>2. EndsIn(mid, tasks, c, FALSE)
      <4> HIDE DEF c
      <4> QED BY <1>3, <3>1, EglEnded
    <3> HIDE DEF mid, c
    <3> QED BY <1>5, <2>2, <3>2 DEF EndsIn, N
  <2> QED BY <2>1, <2>2
<1>8. content'[s] = N + 1 /\ \A y \in Slot : y # s => content'[y] = content[y]
  BY <1>1, <1>3
<1>9. \A y \in Slot : y # s /\ content[y] # 0 => content[y] # c
  BY <1>5 DEF EglInv, EglContent
<1>10. \A y \in Slot : content'[y] = content[y] \/ content[y] = c
  BY <1>8
<1>11. \A y \in Slot : content[y] = c /\ c # 0 => content'[y] # c
  BY <1>3, <1>8, <1>9
<1> HIDE DEF n, e, mid, c
<1>12. Grown(c, n, e)
  <2>1. /\ tasks' \in Seq(Task) /\ N' = N + 1 /\ tasks'[N + 1] = n
        /\ \A x \in 1 .. N : tasks'[x] = mid[x]
    BY <1>1, <1>2, <1>7, EglAppended DEF N
  <2>2. /\ queue' \in Seq(Entry) /\ M' = M + 1 /\ queue'[M + 1] = e
        /\ \A x \in 1 .. M : queue'[x] = queue[x]
    BY <1>1, <1>3, <1>4, EglAppended DEF M
  <2>3. egl = "up" /\ ~idle
    BY <1>0, <1>1 DEF EglPhases
  <2>4. c # 0 => tasks'[c] = mid[c]
    BY <1>5, <2>1
  <2> QED BY <1>1, <1>2, <1>4, <1>7, <2>1, <2>2, <2>3, <2>4 DEF Grown
<1>13. \A t \in 1 .. N : tasks[t].kind = "sync" => /\ user'[tasks[t].slot] = user[tasks[t].slot]
                                                   /\ n.slot # tasks[t].slot
                                                   /\ e # E!OfSlot(tasks[t].slot)
  <2> SUFFICES ASSUME NEW t \in 1 .. N, tasks[t].kind = "sync"
               PROVE  n.slot # tasks[t].slot /\ e # E!OfSlot(tasks[t].slot)
    BY <1>1
  <2>1. user[tasks[t].slot] \in {"syncs", "released"}
    BY DEF EglInv, EglSync
  <2>2. s # tasks[t].slot
    BY <1>1, <2>1
  <2> QED BY <1>2, <1>4, <2>2 DEF E!OfSlot
<1>14. \A y \in Slot : user[y] \in {"streams", "syncs"} => user'[y] \in {"streams", "syncs"}
  BY <1>1
<1>15. c # 0 => c # running /\ ~Direct(c)
  BY <1>5, <1>6
<1>16. /\ EglPhases' /\ EglRunning' /\ EglFifo'
       /\ \A t \in 1 .. N : /\ EglTask(t)' /\ EglPlaced(t)' /\ EglSync(t)'
                            /\ tasks'[t].ok => Ordered(t)'
       /\ \A y \in Slot : content'[y] = content[y] => EglContent(y)'
       /\ \A i \in 1 .. M : EglEntry(i)'
  BY <1>3, <1>10, <1>11, <1>12, <1>13, <1>14, <1>15, EglGrows
<1>17. /\ N' = N + 1 /\ M' = M + 1 /\ tasks'[N + 1] = n /\ queue'[M + 1] = e
       /\ tasks' \in Seq(Task) /\ queue' \in Seq(Entry)
       /\ \A i \in 1 .. M : queue'[i] = queue[i]
  BY <1>12 DEF Grown
<1>18. EglTypes'
  <2>1. content' \in [Slot -> 0 .. N + 1] /\ running' \in 0 .. N + 1
    BY <1>1, <1>3
  <2>2. N + 1 <= MaxTasks
    BY <1>1, <1>3
  <2> QED BY <1>0, <1>1, <1>17, <2>1, <2>2 DEF EglTypes
<1>24. PICK top \in Nat, last \in Nat : top = N + 1 /\ last = M + 1
  BY <1>3
<1>19. EglTask(top)' /\ EglPlaced(top)' /\ ~tasks'[N + 1].ok /\ EglSync(top)'
  <2>1. EglTask(top)' /\ EglSync(top)'
    <3>1. /\ tasks'[top].kind # "sync" /\ tasks'[top].calls = 0 /\ tasks'[top].freed = FALSE
      BY <1>1, <1>2, <1>17, <1>24
    <3> QED BY <3>1 DEF EglTask, EglSync
  <2>2. EglPlaced(top)'
    BY <1>8, <1>24 DEF EglPlaced
  <2> QED BY <1>2, <1>17, <2>1, <2>2
<1>20. EglEntry(last)'
  BY <1>1, <1>4, <1>17, <1>24 DEF EglEntry
<1>21. EglContent(s)'
  <2>1. M + 1 \in 1 .. M + 1 /\ N + 1 # 0 /\ N + 1 # running'
    BY <1>1, <1>3
  <2>2. \A j \in 1 .. M + 1 : ~(queue'[j].task > N + 1)
    <3> SUFFICES ASSUME NEW j \in 1 .. M + 1
                 PROVE  ~(queue'[j].task > N + 1)
      OBVIOUS
    <3>1. j \in 1 .. M \/ j = M + 1
      BY <1>3
    <3>2. ASSUME j \in 1 .. M
          PROVE  queue'[j].task \in Nat /\ queue'[j].task <= N + 1
      <4>1. EglEntry(j) /\ queue[j] \in Entry
        BY <1>3, <3>2 DEF EglInv, M
      <4>2. queue[j].task \in Nat /\ queue[j].task <= N
        BY <1>3, <4>1 DEF EglEntry, Entry
      <4>3. queue'[j] = queue[j]
        BY <1>17, <3>2
      <4> QED BY <1>3, <4>2, <4>3
    <3>3. queue'[j].task \in Nat /\ queue'[j].task <= N + 1
      BY <1>3, <1>4, <1>17, <3>1, <3>2
    <3> QED BY <1>3, <3>3
  <2>3. tasks'[N + 1].slot = s /\ tasks'[N + 1].kind # "sync" /\ ~tasks'[N + 1].freed
    BY <1>1, <1>2, <1>17
  <2>4. queue'[M + 1] = E!OfSlot(s)
    BY <1>17 DEF e
  <2> QED BY <1>8, <1>17, <2>1, <2>2, <2>3, <2>4 DEF EglContent
<1>22. /\ \A t \in 1 .. N + 1 : t \in 1 .. N \/ t = N + 1
       /\ \A i \in 1 .. M + 1 : i \in 1 .. M \/ i = M + 1
  BY <1>3
<1>23. \A y \in Slot : EglContent(y)'
  BY <1>8, <1>16, <1>21
<1> QED BY <1>16, <1>17, <1>18, <1>19, <1>20, <1>22, <1>23, <1>24 DEF EglInv

\* A step of the thread or of its clients keeps the invariant.
LEMMA EglStep == EglInv /\ E!Next => EglInv'
<1> SUFFICES ASSUME EglInv, E!Next
             PROVE  EglInv'
  OBVIOUS
<1>1. CASE \/ E!Initialize \/ E!Free \/ E!QuitMainLoop \/ E!Join
           \/ \E s \in Slot : E!AcquireSlot(s)
  BY <1>1, EglCalmStep
<1>2. CASE E!Dispatch
  BY <1>2, EglDispatchStep
<1>3. CASE E!RunTask
  BY <1>3, EglRunStep
<1>4. CASE (\E kind \in TaskKinds : E!Push(kind)) \/ (\E s \in Slot : E!Sync(s))
  BY <1>4, EglPushStep
<1>5. ASSUME NEW s \in Slot, E!ReleaseSlot(s)
      PROVE  EglInv'
  BY <1>5, EglReleaseStep
<1>6. ASSUME NEW s \in Slot, NEW kind \in TaskKinds, E!PushReplaceable(kind, s)
      PROVE  EglInv'
  BY <1>6, EglReplaceStep
<1> QED BY <1>1, <1>2, <1>3, <1>4, <1>5, <1>6 DEF E!Next

\* The other scenarios leave the thread alone.
LEMMA EglStutters == EglInv /\ UNCHANGED eglVars => EglInv'
<1> SUFFICES ASSUME EglInv, UNCHANGED eglVars
             PROVE  EglInv'
  OBVIOUS
<1>1. UNCHANGED <<egl, tasks, queue, content, user, running, idle>>
  BY DEF eglVars
<1>2. EglTypes' /\ EglPhases'
  BY <1>1 DEF EglInv, EglTypes, EglPhases, N, M
<1> QED BY <1>1, <1>2, EglSame

\* The invariant implies what the runs check.
LEMMA EglSound == EglInv => E!TypeOK /\ E!TasksOnce /\ E!SlotsLive
<1> SUFFICES ASSUME EglInv
             PROVE  E!TypeOK /\ E!TasksOnce /\ E!SlotsLive
  OBVIOUS
<1>1. /\ EglTypes /\ N \in Nat /\ M \in Nat /\ MaxTasks \in Nat /\ N <= MaxTasks
      /\ DOMAIN tasks = 1 .. N /\ DOMAIN queue = 1 .. M
  BY EglConstants DEF EglInv, EglTypes, N, M
<1>2. \A i \in 1 .. M : EglEntry(i) /\ queue[i] \in Entry
  BY <1>1 DEF EglInv, EglTypes
<1>3. E!TypeOK
  <2>1. \A t \in DOMAIN tasks : tasks[t] \in Task
    BY <1>1 DEF EglTypes
  <2>2. \A i \in DOMAIN queue : queue[i].slot \in Slot \/ queue[i].task \in DOMAIN tasks
    BY <1>1, <1>2, EglConstants DEF EglEntry, Entry
  <2>3. content \in [Slot -> 0 .. MaxTasks] /\ running \in 0 .. MaxTasks
    <3>1. \A x \in 0 .. N : x \in 0 .. MaxTasks
      BY <1>1
    <3> QED BY <1>1, <3>1 DEF EglTypes
  <2> QED BY <1>1, <2>1, <2>2, <2>3 DEF E!TypeOK, EglTypes, Task
<1>4. E!TasksOnce
  BY <1>1 DEF E!TasksOnce, EglInv, EglTask, Ordered
<1>5. E!SlotsLive
  <2>1. \A i \in DOMAIN queue : queue[i].task = 0 => user[queue[i].slot] \in {"streams", "syncs"}
    BY <1>1, <1>2 DEF EglEntry
  <2>2. \A s \in Slot : content[s] # 0 => \E i \in DOMAIN queue : queue[i] = E!OfSlot(s)
    BY <1>1 DEF EglInv, EglContent
  <2>3. egl \in {"quitting", "joined"} => \A s \in Slot : user[s] \in {"none", "released"}
    BY <1>1 DEF EglInv, EglPhases, EglTypes
  <2> QED BY <2>1, <2>2, <2>3 DEF E!SlotsLive
<1> QED BY <1>3, <1>4, <1>5

--------------------------------------------------------------------------------
(* The stream of a VNC session. *)

\* The thread unlocks a buffer before it takes the next one.
VncBuffers ==
  /\ V!DownloadsHold /\ dequeued \in [PwBuffer -> {0, 1}]
  /\ download # NoBuffer => releasing = NoBuffer

\* A pending size has its format, and the encodings are awaited.
VncSizes ==
  /\ formats \in Nat
  /\ resize # 0 => formats > 0 /\ ~encodings
  /\ CalmSizes => V!ScreenFollowsStream

VncInv == V!TypeOK /\ VncBuffers /\ VncSizes

\* What is known about the constants.
LEMMA VncConstants ==
  /\ FrameSizes \subseteq Nat \ {0} /\ 1 \in FrameSizes /\ NoBuffer \notin PwBuffer
  /\ CalmSizes \in BOOLEAN /\ MaxFormats \in Nat
BY ScreensAssumption

\* A stream begins without buffers.
LEMMA VncInit == Init => VncInv
<1> SUFFICES ASSUME Init
             PROVE  VncInv
  OBVIOUS
<1> USE DEF Init, V!Init
<1>1. V!TypeOK
  BY VncConstants DEF V!TypeOK
<1>2. VncBuffers
  <2>1. dequeued \in [PwBuffer -> {0, 1}] /\ \A b \in PwBuffer : dequeued[b] = 0
    OBVIOUS
  <2>2. \A b \in PwBuffer : b \notin {slotTask, download}
    BY VncConstants
  <2>3. locked = {} /\ {slotTask, download, releasing} \ {NoBuffer} = {}
    OBVIOUS
  <2> QED BY <2>1, <2>2, <2>3 DEF VncBuffers, V!DownloadsHold
<1>3. VncSizes
  BY DEF VncSizes, V!ScreenFollowsStream
<1> QED BY <1>1, <1>2, <1>3 DEF VncInv

\* The main thread's steps that leave the buffers alone.
LEMMA VncCalmStep ==
  ASSUME VncInv, UNCHANGED <<bufs, dequeued, locked, slotTask, download, releasing>>,
         \/ \E size \in FrameSizes : V!ParamChanged(size)
         \/ \E b \in PwBuffer : V!AwaitUnlocked(b)
         \/ V!StartStreaming \/ V!RenderFrame \/ V!RenderMousePointer
         \/ V!HandleSocketData \/ V!ClientGone \/ V!Finalize \/ V!Synced
  PROVE  VncInv'
<1> USE DEF V!streamVars, V!eglVars, V!screenVars
<1>0. VncBuffers'
  BY DEF VncInv, VncBuffers, V!DownloadsHold
<1>1. ASSUME NEW size \in FrameSizes, V!ParamChanged(size)
      PROVE  VncInv'
  <2>1. /\ format' = size /\ formats' = formats + 1 /\ (CalmSizes => (resize # 0 => size # screen))
        /\ stream' \in {"adding", "removing"}
        /\ UNCHANGED <<dma, waitsFor, frame, pointer, encodings, rfbClient, dequeuing>>
        /\ \/ size = screen /\ UNCHANGED <<screen, resize>>
           \/ size # screen /\ ~encodings /\ resize' = size /\ UNCHANGED screen
           \/ size # screen /\ encodings /\ screen' = size /\ UNCHANGED resize
    BY <1>1 DEF V!ParamChanged, V!QueueResizeFramebuffer
  <2>2. V!TypeOK'
    BY <2>1 DEF VncInv, V!TypeOK
  <2>3. VncSizes'
    BY <2>1, VncConstants DEF VncInv, VncSizes, V!ScreenFollowsStream, V!TypeOK
  <2> QED BY <1>0, <2>2, <2>3 DEF VncInv
<1>2. ASSUME NEW b \in PwBuffer, V!AwaitUnlocked(b)
      PROVE  VncInv'
  <2>1. V!TypeOK' /\ VncSizes'
    BY <1>2 DEF VncInv, V!TypeOK, VncSizes, V!ScreenFollowsStream, V!AwaitUnlocked
  <2> QED BY <1>0, <2>1 DEF VncInv
<1>3. CASE V!StartStreaming
  <2>1. V!TypeOK' /\ VncSizes'
    BY <1>3 DEF VncInv, V!TypeOK, VncSizes, V!ScreenFollowsStream, V!StartStreaming
  <2> QED BY <1>0, <2>1 DEF VncInv
<1>4. CASE V!RenderFrame \/ V!RenderMousePointer
  <2>0. /\ frame' \in {frame, FALSE} /\ pointer' \in {pointer, "none"}
        /\ UNCHANGED <<stream, bufs, waitsFor, dequeuing, formats, dma, format, screen, resize,
                       encodings, rfbClient>>
    BY <1>4 DEF V!RenderFrame, V!RenderMousePointer
  <2>1. V!TypeOK' /\ VncSizes'
    BY <2>0 DEF VncInv, V!TypeOK, VncSizes, V!ScreenFollowsStream
  <2> QED BY <1>0, <2>1 DEF VncInv
<1>5. CASE V!HandleSocketData
  <2>1. /\ encodings' = TRUE /\ screen' = (IF resize # 0 THEN resize ELSE screen) /\ resize' = 0
        /\ UNCHANGED <<stream, bufs, waitsFor, dequeuing, formats, dma, frame, pointer, format,
                       rfbClient>>
    BY <1>5 DEF V!HandleSocketData
  <2>2. V!TypeOK'
    BY <2>1 DEF VncInv, V!TypeOK
  <2>3. VncSizes'
    BY <2>1, VncConstants DEF VncInv, VncSizes, V!ScreenFollowsStream, V!TypeOK
  <2> QED BY <1>0, <2>2, <2>3 DEF VncInv
<1>6. CASE V!ClientGone
  <2>1. V!TypeOK' /\ VncSizes'
    BY <1>6 DEF VncInv, V!TypeOK, VncSizes, V!ScreenFollowsStream, V!ClientGone
  <2> QED BY <1>0, <2>1 DEF VncInv
<1>7. CASE V!Finalize \/ V!Synced
  <2>0. /\ stream' \in {"syncing", "destroying", "gone"} /\ dequeuing' \in {dequeuing, FALSE}
        /\ UNCHANGED <<bufs, waitsFor, frame, pointer, formats, dma, format, screen, resize,
                       encodings, rfbClient>>
    BY <1>7 DEF V!Finalize, V!Synced
  <2>1. V!TypeOK' /\ VncSizes'
    BY <2>0 DEF VncInv, V!TypeOK, VncSizes, V!ScreenFollowsStream
  <2> QED BY <1>0, <2>1 DEF VncInv
<1> QED BY <1>1, <1>2, <1>3, <1>4, <1>5, <1>6, <1>7

\* PipeWire adds and removes buffers.
LEMMA VncBufferStep ==
  ASSUME VncInv, V!RemoveBuffer \/ \E b \in PwBuffer : V!AddBuffer(b)
  PROVE  VncInv'
<1> USE DEF V!streamVars, V!eglVars, V!screenVars
<1>1. /\ UNCHANGED <<dequeued, locked, slotTask, download, releasing>>
      /\ UNCHANGED <<dma, frame, pointer, format, screen, resize, encodings, rfbClient, formats>>
      /\ locked \subseteq bufs' /\ bufs' \subseteq PwBuffer
      /\ waitsFor' \in {waitsFor, NoBuffer} /\ dequeuing' \in {dequeuing, FALSE}
      /\ stream' \in {stream, "adding", "gone", "failed"}
  BY DEF V!RemoveBuffer, V!AddBuffer, VncInv, VncBuffers, V!DownloadsHold, V!TypeOK
<1>2. V!TypeOK'
  BY <1>1 DEF VncInv, V!TypeOK
<1>3. VncBuffers'
  BY <1>1 DEF VncInv, VncBuffers, V!DownloadsHold
<1>4. VncSizes'
  BY <1>1 DEF VncInv, VncSizes, V!ScreenFollowsStream
<1> QED BY <1>2, <1>3, <1>4 DEF VncInv

\* The EGL thread's steps.
LEMMA VncEglStep ==
  ASSUME VncInv, V!EglThread
  PROVE  VncInv'
<1> USE DEF V!streamVars, V!eglVars, V!screenVars
<1>1. /\ UNCHANGED <<stream, bufs, waitsFor, dequeuing, formats, dma, pointer, format, screen,
                     resize, encodings, rfbClient>>
      /\ frame' \in {frame, TRUE, FALSE}
  <2>1. CASE V!StartDownload \/ V!ReleaseLock
    BY <2>1 DEF V!StartDownload, V!ReleaseLock
  <2>2. ASSUME NEW success \in BOOLEAN, V!FrameReady(success)
        PROVE  /\ UNCHANGED <<stream, bufs, waitsFor, dequeuing, formats, dma, pointer, format,
                              screen, resize, encodings, rfbClient>>
               /\ frame' \in {frame, TRUE, FALSE}
    BY <2>2 DEF V!FrameReady, VncInv, V!TypeOK
  <2> QED BY <2>1, <2>2 DEF V!EglThread
<1>2. VncSizes'
  BY <1>1 DEF VncInv, VncSizes, V!ScreenFollowsStream
<1>3. CASE V!StartDownload
  <2>1. V!TypeOK'
    BY <1>1, <1>3 DEF VncInv, V!TypeOK, V!StartDownload
  <2>2. VncBuffers'
    BY <1>1, <1>3 DEF VncInv, VncBuffers, V!DownloadsHold, V!StartDownload
  <2> QED BY <1>2, <2>1, <2>2 DEF VncInv
<1>4. ASSUME NEW success \in BOOLEAN, V!FrameReady(success)
      PROVE  VncInv'
  <2>1. /\ download \in PwBuffer /\ dequeued' = [dequeued EXCEPT ![download] = @ - 1]
        /\ releasing' = download /\ download' = NoBuffer /\ UNCHANGED <<slotTask, locked>>
    BY <1>4 DEF V!FrameReady, V!Queued, VncInv, V!TypeOK
  <2>2. V!TypeOK'
    BY <1>1, <2>1 DEF VncInv, V!TypeOK
  <2>3. /\ \A b \in PwBuffer : dequeued[b] = IF b \in {slotTask, download} THEN 1 ELSE 0
        /\ dequeued \in [PwBuffer -> {0, 1}]
        /\ locked = {slotTask, download, releasing} \ {NoBuffer} /\ locked \subseteq bufs
        /\ slotTask # NoBuffer => slotTask # download
        /\ releasing = NoBuffer /\ download # NoBuffer
    BY <2>1, VncConstants DEF VncInv, VncBuffers, V!DownloadsHold
  <2>4. \A b \in PwBuffer : dequeued'[b] = IF b = slotTask THEN 1 ELSE 0
    BY <2>1, <2>3, VncConstants
  <2>5. dequeued' \in [PwBuffer -> {0, 1}]
    BY <2>1, <2>3, <2>4
  <2>6. VncBuffers'
    <3>1. \A b \in PwBuffer : b \in {slotTask', download'} <=> b = slotTask
      BY <2>1, VncConstants
    <3>2. locked' = {slotTask', download', releasing'} \ {NoBuffer}
      BY <2>1, <2>3
    <3> QED BY <1>1, <2>1, <2>3, <2>4, <2>5, <3>1, <3>2 DEF VncBuffers, V!DownloadsHold
  <2> QED BY <1>2, <2>2, <2>6 DEF VncInv
<1>5. CASE V!ReleaseLock
  <2>1. V!TypeOK'
    BY <1>1, <1>5 DEF VncInv, V!TypeOK, V!ReleaseLock
  <2>2. VncBuffers'
    BY <1>1, <1>5 DEF VncInv, VncBuffers, V!DownloadsHold, V!ReleaseLock
  <2> QED BY <1>2, <2>1, <2>2 DEF VncInv
<1> QED BY <1>3, <1>4, <1>5 DEF V!EglThread

\* grd_vnc_pw_buffer_queue_pw_buffer
LEMMA VncQueued ==
  ASSUME NEW count \in [PwBuffer -> Int], NEW b \in PwBuffer \cup {NoBuffer}
  PROVE  /\ V!Queued(count, b) \in [PwBuffer -> Int]
         /\ \A x \in PwBuffer : V!Queued(count, b)[x] = count[x] - (IF x = b THEN 1 ELSE 0)
<1>1. CASE b = NoBuffer
  BY <1>1, VncConstants DEF V!Queued
<1>2. CASE b \in PwBuffer
  BY <1>2, VncConstants DEF V!Queued
<1> QED BY <1>1, <1>2

\* The buffers that are away from PipeWire, when those two are kept.
Kept(count, p, f) ==
  /\ p \in PwBuffer \cup {NoBuffer} /\ f \in PwBuffer \cup {NoBuffer}
  /\ count \in [PwBuffer -> Int]
  /\ \A x \in PwBuffer : count[x] = dequeued[x] + (IF x \in {p, f} THEN 1 ELSE 0)

\* Of the buffers that were dequeued, those are queued again that are not kept.
LEMMA VncDrain ==
  ASSUME dequeued \in [PwBuffer -> {0, 1}],
         NEW d, Kept(d.count, d.pointer, d.frame),
         NEW b \in PwBuffer, b \notin {d.pointer, d.frame}, NEW c \in V!Content
  PROVE  LET e == V!Drain(d, <<b, c>>)
         IN  /\ Kept(e.count, e.pointer, e.frame)
             /\ {e.pointer, e.frame} \subseteq {d.pointer, d.frame, b}
<1> DEFINE p == d.pointer
           f == d.frame
           taken == [d.count EXCEPT ![b] = @ + 1]
           e == V!Drain(d, <<b, c>>)
           Away(count, S) == /\ count \in [PwBuffer -> Int]
                             /\ \A x \in PwBuffer :
                                  count[x] = dequeued[x] + (IF x \in S THEN 1 ELSE 0)
<1>1. p \in PwBuffer \cup {NoBuffer} /\ f \in PwBuffer \cup {NoBuffer} /\ b \notin {p, f}
      /\ dequeued \in [PwBuffer -> {0, 1}]
  BY DEF Kept
<1>2. Away(taken, {p, f, b})
  BY <1>1 DEF Kept
<1> DEFINE bitmap == c \in {"bitmap", "both"}
           data == c \in {"frame", "both"}
           q == IF bitmap THEN b ELSE p
           one == IF bitmap /\ p # f THEN V!Queued(taken, p) ELSE taken
           two == IF data /\ q # f THEN V!Queued(one, f) ELSE one
<1>3. e = [pointer |-> q, frame |-> IF data THEN b ELSE f,
           count |-> IF bitmap \/ data THEN two ELSE V!Queued(two, b)]
  BY DEF V!Drain
<1> HIDE DEF taken, p, f, e
<1>4. ASSUME NEW count, NEW S, Away(count, S), NEW x \in S, x \in PwBuffer \cup {NoBuffer}
      PROVE  Away(V!Queued(count, x), S \ {x})
  <2>1. /\ V!Queued(count, x) \in [PwBuffer -> Int]
        /\ \A y \in PwBuffer : V!Queued(count, x)[y] = count[y] - (IF y = x THEN 1 ELSE 0)
    BY <1>4, VncQueued
  <2>2. \A y \in PwBuffer : /\ dequeued[y] \in Int
                            /\ count[y] = dequeued[y] + (IF y \in S THEN 1 ELSE 0)
    BY <1>1, <1>4
  <2> HIDE DEF Away
  <2>3. \A y \in PwBuffer :
          V!Queued(count, x)[y] = dequeued[y] + (IF y \in S \ {x} THEN 1 ELSE 0)
    BY <2>1, <2>2
  <2> QED BY <2>1, <2>3 DEF Away
<1>5. /\ Away(V!Queued(taken, p), {p, f, b} \ {p})
      /\ Away(V!Queued(taken, f), {p, f, b} \ {f})
      /\ Away(V!Queued(taken, b), {p, f, b} \ {b})
  <2> HIDE DEF Away
  <2> QED BY <1>1, <1>2, <1>4
<1> HIDE DEF Away
<1>6. ASSUME p # f
      PROVE  Away(V!Queued(V!Queued(taken, p), f), {b})
  <2>1. f \in {p, f, b} \ {p}
    BY <1>6
  <2>2. Away(V!Queued(V!Queued(taken, p), f), ({p, f, b} \ {p}) \ {f})
    BY <1>1, <1>4, <1>5, <2>1
  <2>3. ({p, f, b} \ {p}) \ {f} = {b}
    BY <1>1, <1>6
  <2> QED BY <2>2, <2>3
<1>8. CASE c = "nothing"
  <2>1. e.pointer = p /\ e.frame = f /\ e.count = V!Queued(taken, b)
    BY <1>3, <1>8
  <2>2. {p, f, b} \ {b} = {p, f}
    BY <1>1
  <2>3. Kept(e.count, e.pointer, e.frame)
    BY <1>1, <1>5, <2>1, <2>2 DEF Kept, Away
  <2> QED BY <2>1, <2>3 DEF p, f, e
<1>9. CASE c = "bitmap"
  <2>1. e.pointer = b /\ e.frame = f /\ e.count = IF p # f THEN V!Queued(taken, p) ELSE taken
    BY <1>3, <1>9
  <2>2. Away(e.count, {b, f})
    <3>1. CASE p # f
      <4>1. {p, f, b} \ {p} = {b, f}
        BY <1>1, <3>1
      <4> QED BY <1>5, <2>1, <3>1, <4>1
    <3>2. CASE p = f
      <4>1. {p, f, b} = {b, f}
        BY <3>2
      <4> QED BY <1>2, <2>1, <3>2, <4>1
    <3> QED BY <3>1, <3>2
  <2>3. Kept(e.count, e.pointer, e.frame)
    BY <1>1, <2>1, <2>2 DEF Kept, Away
  <2> QED BY <2>1, <2>3 DEF p, f, e
<1>10. CASE c = "frame"
  <2>1. e.pointer = p /\ e.frame = b /\ e.count = IF p # f THEN V!Queued(taken, f) ELSE taken
    BY <1>3, <1>10
  <2>2. Away(e.count, {p, b})
    <3>1. CASE p # f
      <4>1. {p, f, b} \ {f} = {p, b}
        BY <1>1, <3>1
      <4> QED BY <1>5, <2>1, <3>1, <4>1
    <3>2. CASE p = f
      <4>1. {p, f, b} = {p, b}
        BY <3>2
      <4> QED BY <1>2, <2>1, <3>2, <4>1
    <3> QED BY <3>1, <3>2
  <2>3. Kept(e.count, e.pointer, e.frame)
    BY <1>1, <2>1, <2>2 DEF Kept, Away
  <2> QED BY <2>1, <2>3 DEF p, f, e
<1>11. CASE c = "both"
  <2>1. e.pointer = b /\ e.frame = b
        /\ e.count = IF p # f THEN V!Queued(V!Queued(taken, p), f) ELSE V!Queued(taken, f)
    BY <1>1, <1>3, <1>11
  <2>2. Away(e.count, {b})
    <3>1. p = f => {p, f, b} \ {f} = {b}
      BY <1>1
    <3> QED BY <1>5, <1>6, <2>1, <3>1
  <2>3. Kept(e.count, e.pointer, e.frame)
    BY <1>1, <2>1, <2>2 DEF Kept, Away
  <2> QED BY <2>1, <2>3 DEF p, f, e
<1> QED BY <1>8, <1>9, <1>10, <1>11 DEF V!Content, e

\* The newest pointer and the newest frame are kept, and nothing else.
LEMMA VncDrained ==
  ASSUME VncInv, NEW batch \in V!Batches
  PROVE  LET d == V!Drained(batch)
             back == {b \in bufs : dequeued[b] = 0}
         IN  /\ Kept(d.count, d.pointer, d.frame)
             /\ {d.pointer, d.frame} \subseteq back \cup {NoBuffer}
<1> DEFINE back == {b \in bufs : dequeued[b] = 0}
           start == [pointer |-> NoBuffer, frame |-> NoBuffer, count |-> dequeued]
           first == V!Drain(start, batch[1])
           d == V!Drained(batch)
           Good(x) == /\ Kept(x.count, x.pointer, x.frame)
                      /\ {x.pointer, x.frame} \subseteq back \cup {NoBuffer}
<1>1. /\ dequeued \in [PwBuffer -> {0, 1}] /\ back \subseteq PwBuffer
      /\ NoBuffer \notin PwBuffer
  BY VncConstants DEF VncInv, VncBuffers, V!TypeOK
<1>2. PICK n \in 1 .. 2 : batch \in [1 .. n -> back \X V!Content]
  BY DEF V!Batches
<1>3. \A i, j \in 1 .. n : batch[i][1] = batch[j][1] => i = j
  BY <1>2 DEF V!Batches
<1>4. Good(start)
  BY <1>1 DEF Kept
<1>5. \A i \in 1 .. n : /\ batch[i][1] \in back /\ batch[i][2] \in V!Content
                        /\ batch[i] = <<batch[i][1], batch[i][2]>>
  BY <1>2
<1>6. d = IF n = 1 THEN first ELSE V!Drain(first, batch[2])
  <2>1. Len(batch) = n
    BY <1>2
  <2> QED BY <2>1 DEF V!Drained
<1>7. Kept(start.count, start.pointer, start.frame)
      /\ start.pointer = NoBuffer /\ start.frame = NoBuffer
  BY <1>4
<1> HIDE DEF back, start, d
<1>8. Kept(first.count, first.pointer, first.frame)
      /\ {first.pointer, first.frame} \subseteq {NoBuffer, batch[1][1]}
  <2>1. batch[1][1] \in PwBuffer /\ batch[1][1] \notin {start.pointer, start.frame}
        /\ batch[1][2] \in V!Content /\ batch[1] = <<batch[1][1], batch[1][2]>>
    BY <1>1, <1>5, <1>7
  <2>2. LET e == V!Drain(start, <<batch[1][1], batch[1][2]>>)
        IN  Kept(e.count, e.pointer, e.frame)
            /\ {e.pointer, e.frame} \subseteq {start.pointer, start.frame, batch[1][1]}
    BY ONLY <1>1, <1>7, <2>1, VncDrain
  <2>3. Kept(first.count, first.pointer, first.frame)
        /\ {first.pointer, first.frame} \subseteq {start.pointer, start.frame, batch[1][1]}
    BY ONLY <2>1, <2>2
  <2> QED BY ONLY <1>7, <2>3
<1> HIDE DEF first
<1>9. CASE n = 1
  <2>1. Good(first)
    BY <1>5, <1>8, <1>9
  <2>2. d = first
    BY <1>6, <1>9
  <2> QED BY <2>1, <2>2 DEF d, back
<1>10. CASE n = 2
  <2>1. batch[2][1] \in PwBuffer /\ batch[2][1] \notin {first.pointer, first.frame}
        /\ batch[2][2] \in V!Content /\ batch[2] = <<batch[2][1], batch[2][2]>>
        /\ batch[2][1] \in back /\ batch[1][1] \in back
    BY <1>1, <1>3, <1>5, <1>8, <1>10
  <2>2. LET e == V!Drain(first, <<batch[2][1], batch[2][2]>>)
        IN  Kept(e.count, e.pointer, e.frame)
            /\ {e.pointer, e.frame} \subseteq {first.pointer, first.frame, batch[2][1]}
    BY ONLY <1>1, <1>8, <2>1, VncDrain
  <2>3. d = V!Drain(first, <<batch[2][1], batch[2][2]>>)
    BY <1>6, <1>10, <2>1
  <2>4. Kept(d.count, d.pointer, d.frame)
        /\ {d.pointer, d.frame} \subseteq {first.pointer, first.frame, batch[2][1]}
    BY ONLY <2>2, <2>3
  <2>5. {d.pointer, d.frame} \subseteq back \cup {NoBuffer}
    BY <1>8, <2>1, <2>4
  <2> QED BY <2>4, <2>5 DEF d, back
<1> QED BY <1>9, <1>10

\* PipeWire's data thread has new buffers.
LEMMA VncProcessStep ==
  ASSUME VncInv, NEW batch \in V!Batches, V!Process(batch)
  PROVE  VncInv'
<1> DEFINE back == {b \in bufs : dequeued[b] = 0}
           d == V!Drained(batch)
           count == IF d.pointer # d.frame THEN V!Queued(d.count, d.pointer) ELSE d.count
<1>1. /\ Kept(d.count, d.pointer, d.frame)
      /\ {d.pointer, d.frame} \subseteq back \cup {NoBuffer}
  BY VncDrained
<1>2. /\ UNCHANGED <<stream, bufs, waitsFor, dequeuing, formats, dma, download, releasing,
                     format, screen, resize, encodings, rfbClient>>
      /\ pointer' \in {pointer, "bitmap", "moved"}
      /\ \/ d.frame = NoBuffer /\ dequeued' = count /\ UNCHANGED <<slotTask, locked, frame>>
         \/ d.frame # NoBuffer /\ dma /\ V!ProcessDmaBuf(d.frame, count)
         \/ d.frame # NoBuffer /\ ~dma /\ V!ProcessMemFd(d.frame, count)
  BY DEF V!Process, V!streamVars, V!screenVars
<1>3. /\ back \subseteq PwBuffer /\ back \subseteq bufs /\ NoBuffer \notin PwBuffer
      /\ dequeued \in [PwBuffer -> {0, 1}] /\ \A b \in back : dequeued[b] = 0
      /\ \A b \in PwBuffer : dequeued[b] = IF b \in {slotTask, download} THEN 1 ELSE 0
      /\ locked = {slotTask, download, releasing} \ {NoBuffer} /\ locked \subseteq bufs
      /\ slotTask # NoBuffer => slotTask \notin {download, releasing}
      /\ download # NoBuffer => releasing = NoBuffer
      /\ {slotTask, download, releasing} \subseteq PwBuffer \cup {NoBuffer}
      /\ dma \in BOOLEAN /\ frame \in BOOLEAN
  BY VncConstants DEF VncInv, VncBuffers, V!DownloadsHold, V!TypeOK
<1> HIDE DEF back, d
<1>4. /\ count \in [PwBuffer -> Int]
      /\ \A x \in PwBuffer : count[x] = dequeued[x] + (IF x = d.frame THEN 1 ELSE 0)
  <2>1. CASE d.pointer = d.frame
    BY <1>1, <2>1 DEF Kept
  <2>2. CASE d.pointer # d.frame
    <3>1. /\ V!Queued(d.count, d.pointer) \in [PwBuffer -> Int]
          /\ \A x \in PwBuffer :
               V!Queued(d.count, d.pointer)[x] = d.count[x] - (IF x = d.pointer THEN 1 ELSE 0)
      BY <1>1, VncQueued DEF Kept
    <3>2. count = V!Queued(d.count, d.pointer)
      BY <2>2
    <3>3. \A x \in PwBuffer :
            /\ d.count[x] = dequeued[x] + (IF x \in {d.pointer, d.frame} THEN 1 ELSE 0)
            /\ dequeued[x] \in Int
      BY <1>1, <1>3 DEF Kept
    <3> QED BY <2>2, <3>1, <3>2, <3>3
  <2> QED BY <2>1, <2>2
<1> HIDE DEF count
<1>5. /\ slotTask' \in back \cup {slotTask} /\ frame' \in BOOLEAN
      /\ locked' = {slotTask', download, releasing} \ {NoBuffer}
      /\ locked' \subseteq bufs
      /\ slotTask' # NoBuffer => slotTask' \notin {download, releasing}
      /\ dequeued' \in [PwBuffer -> {0, 1}]
      /\ \A b \in PwBuffer : dequeued'[b] = IF b \in {slotTask', download} THEN 1 ELSE 0
  <2>1. CASE d.frame = NoBuffer /\ dequeued' = count /\ UNCHANGED <<slotTask, locked, frame>>
    <3>1. \A x \in PwBuffer : count[x] = dequeued[x]
      BY <1>3, <1>4, <2>1
    <3>2. count \in [PwBuffer -> {0, 1}]
      BY <1>3, <1>4, <3>1
    <3> QED BY <1>3, <2>1, <3>1, <3>2
  <2>2. CASE d.frame # NoBuffer /\ dma /\ V!ProcessDmaBuf(d.frame, count)
    <3> DEFINE b == d.frame
    <3>1. /\ b \in back /\ b \notin locked /\ slotTask' = b
          /\ locked' = (locked \ {slotTask}) \cup {b} /\ dequeued' = V!Queued(count, slotTask)
          /\ frame' = frame
      BY <1>1, <2>2 DEF V!ProcessDmaBuf
    <3> HIDE DEF b
    <3>2. b \in PwBuffer /\ b \in bufs /\ b # slotTask /\ b # download /\ b # releasing
      BY <1>3, <3>1
    <3>3. locked' = {b, download, releasing} \ {NoBuffer} /\ locked' \subseteq bufs
      BY <1>3, <3>1, <3>2
    <3>4. /\ dequeued' \in [PwBuffer -> Int]
          /\ \A x \in PwBuffer : dequeued'[x] = count[x] - (IF x = slotTask THEN 1 ELSE 0)
      BY <1>3, <1>4, <3>1, VncQueued
    <3>5. \A x \in PwBuffer : count[x] = dequeued[x] + (IF x = b THEN 1 ELSE 0)
      BY <1>4 DEF b
    <3>6. \A x \in PwBuffer : dequeued'[x] = IF x \in {b, download} THEN 1 ELSE 0
      <4> SUFFICES ASSUME NEW x \in PwBuffer
                   PROVE  dequeued'[x] = IF x \in {b, download} THEN 1 ELSE 0
        OBVIOUS
      <4>1. /\ dequeued'[x] = count[x] - (IF x = slotTask THEN 1 ELSE 0)
            /\ count[x] = dequeued[x] + (IF x = b THEN 1 ELSE 0)
            /\ dequeued[x] = IF x \in {slotTask, download} THEN 1 ELSE 0
        BY <1>3, <3>4, <3>5
      <4>2. x = slotTask => x # download /\ x # b
        BY <1>3, <3>2
      <4>3. x = b => x # download
        BY <3>2
      <4> QED BY <4>1, <4>2, <4>3
    <3>7. dequeued' \in [PwBuffer -> {0, 1}]
      BY <3>4, <3>6
    <3> QED BY <1>3, <3>1, <3>2, <3>3, <3>6, <3>7
  <2>3. CASE d.frame # NoBuffer /\ ~dma /\ V!ProcessMemFd(d.frame, count)
    <3>1. /\ frame' \in {frame, TRUE} /\ dequeued' = V!Queued(count, d.frame)
          /\ UNCHANGED <<slotTask, locked>> /\ d.frame \in PwBuffer
      BY <1>1, <1>3, <2>3 DEF V!ProcessMemFd
    <3>2. /\ dequeued' \in [PwBuffer -> Int]
          /\ \A x \in PwBuffer : dequeued'[x] = count[x] - (IF x = d.frame THEN 1 ELSE 0)
      BY <1>4, <3>1, VncQueued
    <3>3. \A x \in PwBuffer : dequeued'[x] = dequeued[x]
      BY <1>3, <1>4, <3>2
    <3>4. dequeued' \in [PwBuffer -> {0, 1}]
      BY <1>3, <3>2, <3>3
    <3> QED BY <1>3, <3>1, <3>3, <3>4
  <2> QED BY <1>2, <2>1, <2>2, <2>3
<1>6. V!TypeOK'
  <2>1. locked' \subseteq PwBuffer /\ slotTask' \in PwBuffer \cup {NoBuffer}
    BY <1>3, <1>5
  <2>2. pointer' \in {"none", "moved", "bitmap"}
    BY <1>2 DEF VncInv, V!TypeOK
  <2> QED BY <1>2, <1>5, <2>1, <2>2 DEF VncInv, V!TypeOK
<1>7. VncBuffers'
  BY <1>2, <1>3, <1>5 DEF VncBuffers, V!DownloadsHold
<1>8. VncSizes'
  BY <1>2 DEF VncInv, VncSizes, V!ScreenFollowsStream
<1> QED BY <1>6, <1>7, <1>8 DEF VncInv

\* A step of a VNC stream or of its client keeps the invariant.
LEMMA VncStep == VncInv /\ V!Next => VncInv'
<1> SUFFICES ASSUME VncInv, V!Next
             PROVE  VncInv'
  OBVIOUS
<1> USE DEF V!streamVars, V!eglVars, V!screenVars
<1>1. CASE \/ \E size \in FrameSizes : V!ParamChanged(size)
           \/ \E b \in PwBuffer : V!AwaitUnlocked(b)
           \/ V!StartStreaming \/ V!RenderFrame \/ V!RenderMousePointer
           \/ V!HandleSocketData \/ V!ClientGone \/ V!Finalize \/ V!Synced
  <2>1. UNCHANGED <<bufs, dequeued, locked, slotTask, download, releasing>>
    BY <1>1 DEF V!ParamChanged, V!AwaitUnlocked, V!StartStreaming, V!RenderFrame,
       V!RenderMousePointer, V!HandleSocketData, V!ClientGone, V!Finalize, V!Synced
  <2> QED BY <1>1, <2>1, VncCalmStep
<1>2. CASE V!RemoveBuffer \/ \E b \in PwBuffer : V!AddBuffer(b)
  BY <1>2, VncBufferStep
<1>3. CASE V!EglThread
  BY <1>3, VncEglStep
<1>4. ASSUME NEW batch \in V!Batches, V!Process(batch)
      PROVE  VncInv'
  BY <1>4, VncProcessStep
<1> QED BY <1>1, <1>2, <1>3, <1>4 DEF V!Next, V!MainThread

\* The other scenarios leave the stream alone.
LEMMA VncStutters == VncInv /\ UNCHANGED vncVars => VncInv'
BY DEF VncInv, VncBuffers, VncSizes, V!TypeOK, V!DownloadsHold, V!ScreenFollowsStream, vncVars

--------------------------------------------------------------------------------
(* The theorems. *)

PicturesInv == CursorInv /\ EglInv /\ VncInv

\* The invariant of the pictures holds in every behaviour of Screens: a step is one of a
\* component, and the others keep their state.
THEOREM PicturesInvariant == Spec => []PicturesInv
<1>1. Init => PicturesInv
  BY CursorInit, EglInit, VncInit DEF PicturesInv
<1>2. PicturesInv /\ [Next]_vars => PicturesInv'
  <2> SUFFICES ASSUME PicturesInv, [Next]_vars
               PROVE  PicturesInv'
    OBVIOUS
  <2>1. C!Next \/ UNCHANGED cursorVars
    BY DEF Next, OfLayout, OfCursor, OfEgl, OfVnc, vars
  <2>2. E!Next \/ UNCHANGED eglVars
    BY DEF Next, OfLayout, OfCursor, OfEgl, OfVnc, vars
  <2>3. V!Next \/ UNCHANGED vncVars
    BY DEF Next, OfLayout, OfCursor, OfEgl, OfVnc, vars
  <2>4. CursorInv'
    BY <2>1, CursorStep, CursorStutters DEF PicturesInv
  <2>5. EglInv'
    BY <2>2, EglStep, EglStutters DEF PicturesInv
  <2>6. VncInv'
    BY <2>3, VncStep, VncStutters DEF PicturesInv
  <2> QED BY <2>4, <2>5, <2>6 DEF PicturesInv
<1> QED BY <1>1, <1>2, PTL DEF Spec

\* The state of all four components stays well-formed.
THEOREM TypeCorrect == Spec => []TypeOK
<1>1. PicturesInv => C!TypeOK /\ E!TypeOK /\ V!TypeOK
  BY EglSound DEF PicturesInv, CursorInv, VncInv
<1>2. L!TypeOK /\ PicturesInv => TypeOK
  BY <1>1 DEF TypeOK
<1> QED BY <1>2, LayoutTypeCorrect, PicturesInvariant, PTL

\* Every task of the EGL thread ends once and in order, a stream that released its slot left
\* nothing behind in the queue (grd_egl_thread_sync and grd_egl_thread_release_slot), and a
\* buffer of a VNC stream is locked until it was copied and queued (on_dma_buf_downloaded).
THEOREM PixelsCorrect == Spec => []PixelsHeld
<1>1. PicturesInv => PixelsHeld
  BY EglSound DEF PicturesInv, VncInv, VncBuffers, PixelsHeld
<1> QED BY <1>1, PicturesInvariant, PTL

\* The client has the pointers that the server believes it has, and the one that is shown is
\* the last to lose its slot (get_client_cursor, submit_cursor and use_cached_cursor).
THEOREM PointersAgree == Spec => [](C!CacheAgrees /\ C!ShownIsRecent)
<1>1. PicturesInv => C!CacheAgrees /\ C!ShownIsRecent
  BY DEF PicturesInv, CursorInv, CursorCache
<1> QED BY <1>1, PicturesInvariant, PTL

\* When no size comes back to the screen's while the client awaits another, the framebuffer
\* of a VNC session follows its stream as well (grd_session_vnc_queue_resize_framebuffer).
THEOREM PicturesCorrect ==
  ASSUME CalmSizes
  PROVE  Spec => []PicturesSound
<1>1. PicturesInv => PixelsHeld
  BY EglSound DEF PicturesInv, VncInv, VncBuffers, PixelsHeld
<1>2. PicturesInv => ClientsAgree
  BY DEF PicturesInv, CursorInv, CursorCache, VncInv, VncSizes, ClientsAgree
<1>3. PicturesInv => PicturesSound
  BY <1>1, <1>2 DEF PicturesSound
<1> QED BY <1>3, PicturesInvariant, PTL

================================================================================
