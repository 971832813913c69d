------------------------- MODULE BootRecoveryProofs -------------------------
(***************************************************************************)
(* Proofs about BootRecovery for every finite set of neighbours, whatever  *)
(* they remember and learn, and every value of the limits: type            *)
(* correctness, and that samples, slices and pages return what they are    *)
(* meant to.                                                               *)
(***************************************************************************)
EXTENDS BootRecovery, FiniteSetTheorems, SequenceTheorems, TLAPS

-----------------------------------------------------------------------------
(* The inductive invariant *)

Tasks == [of : ToSet(sources), number : Nat]
Results == [task : Tasks, ok : BOOLEAN, events : SUBSET Universe]

LedgersOK ==
  /\ start \in [Neighbour -> SUBSET Universe] /\ held \in [Neighbour -> SUBSET Universe]
  /\ \A n \in Neighbour : start[n] \subseteq held[n] /\ IsFiniteSet(held[n])
  /\ mine \subseteq Universe

\* Who is asked.
PeersOK ==
  /\ addressed \subseteq Neighbour /\ online \subseteq Neighbour /\ listed \subseteq Neighbour
  /\ sources \in Seq(listed \cap addressed)

CallsOK ==
  /\ todo \in Seq(Tasks) /\ running \subseteq Tasks /\ results \subseteq Results
  /\ IsFiniteSet(running) /\ Cardinality(running) <= MaxConcurrent
  /\ failed \in Seq(Nat) /\ responded \subseteq ToSet(sources) /\ complete \in BOOLEAN

FetchOK ==
  /\ candidates \subseteq listed /\ from \in addressed \cup {None} /\ cursor \in Nat
  /\ got \subseteq Universe /\ fetched \in 0 .. TargetSuccessfulFetches
  /\ paged \subseteq addressed \ candidates
  /\ from # None => fetched < TargetSuccessfulFetches /\ from \notin candidates

MessagesOK ==
  /\ \A r \in requests : r.to \in Neighbour
  /\ responses \subseteq SUBSET Universe

\* How far the recovery is.
PhasesOK ==
  /\ phase \in {"discover", "launch", "collect", "checkpoints", "done"}
  /\ mode \in {None, "sample", "slice", "retry"} /\ attempt \in 0 .. 2
  /\ phase = "discover" => mode = None /\ responded = {} /\ sources = <<>>
  /\ mode # None => sources # <<>>
  /\ phase \in {"launch", "collect"} => mode # None
  /\ phase \notin {"launch"} => todo = <<>>
  /\ phase \notin {"launch", "collect"} => running = {} /\ results = {}
  /\ phase \in {"discover", "launch", "collect"} => candidates = {} /\ paged = {}
  /\ from # None => phase = "checkpoints"

\* What a sample brings.
Critical(n) == {e \in held[n] : isCriticalEvent(e)}
Fits(n) == Cardinality(Critical(n)) <= SampleSize

SamplesOK ==
  mode = "sample" =>
    /\ \A r \in results : r.ok /\ Fits(r.task.of) => Announcements(start[r.task.of]) \subseteq r.events
    /\ RespondersRemembered

\* What the pages up to the cursor bring.
Checkpoints(S) == Matching(S, {"checkpoint"}, {})

PagesOK ==
  /\ from # None /\ Distinct(Checkpoints(held[from]))
       => \A e \in Checkpoints(start[from]) : e.ts <= cursor => e \in got
  /\ PagesComplete

\* What the slices bring, when the sources remember the same.
Same ==
  /\ \A n \in ToSet(sources), k \in ToSet(sources) : start[n] = start[k] /\ Older(start[n], held[k] \ start[k])
  /\ Distinct(Everything) /\ Cardinality(Everything) <= EventsPerSlice

Rank(S, t) == Cardinality({u \in {e.ts : e \in S} : u <= t})
Asked(n) == Matching(start[n], {}, listed \cup {Me})
Belongs(k, n) == {e \in Asked(n) : (Rank(Asked(n), e.ts) - 1) % Len(sources) = k}
Covered(k) == Same => \A n \in ToSet(sources) : FilterEventsForIngestion(Belongs(k, n)) \subseteq mine

UnderWay(k) ==
  \/ \E i \in DOMAIN todo : todo[i].number = k
  \/ \E t \in running : t.number = k
  \/ \E r \in results : r.task.number = k
  \/ mode = "slice" /\ phase \in {"launch", "collect"} /\ \E i \in DOMAIN failed : failed[i] = k

SlicesOK ==
  mode \in {"slice", "retry"} =>
    /\ \A r \in results :
         /\ r.ok /\ Same => \A n \in ToSet(sources) : Belongs(r.task.number, n) \subseteq r.events
         /\ ~r.ok => r.events = {}
    /\ complete => \A k \in 0 .. Len(sources) - 1 : Covered(k) \/ UnderWay(k)

BootTypes == LedgersOK /\ PeersOK /\ CallsOK /\ FetchOK /\ MessagesOK /\ PhasesOK
BootInv == BootTypes /\ SamplesOK /\ PagesOK /\ SlicesOK

-----------------------------------------------------------------------------
(* Answers *)

(* A finite set in some order: each element once. *)
LEMMA Arranged ==
  ASSUME NEW S, IsFiniteSet(S), NEW q \in SetToSeqs(S)
  PROVE  /\ q \in Seq(S) /\ Len(q) \in Nat /\ Len(q) = Cardinality(S) /\ DOMAIN q = 1 .. Len(q)
         /\ \A i \in 1 .. Len(q) : q[i] \in S
         /\ \A i, j \in 1 .. Len(q) : q[i] = q[j] => i = j
         /\ \A e \in S : \E i \in 1 .. Len(q) : q[i] = e
<1> DEFINE n == Cardinality(S)
<1>1. n \in Nat
  BY FS_CardinalityType
<1>2. q \in [1 .. n -> S] /\ \A i, j \in 1 .. n : i # j => q[i] # q[j]
  BY DEF SetToSeqs
<1>3. q \in Seq(S)
  BY <1>1, <1>2
<1>4. Len(q) = n /\ DOMAIN q = 1 .. n
  BY <1>1, <1>2, <1>3, LenProperties
<1>5. q \in Injection(1 .. n, S)
  BY <1>2 DEF Injection, IsInjective
<1>6. IsFiniteSet(1 .. n) /\ Cardinality(1 .. n) = n
  BY <1>1, FS_Interval
<1>7. q \in Surjection(1 .. n, S)
  BY <1>5, <1>6, FS_Injection
<1>8. \A e \in S : \E i \in 1 .. n : q[i] = e
  BY <1>7 DEF Surjection
<1> QED BY <1>1, <1>2, <1>3, <1>4, <1>8

(* The first ones of a sequence. *)
LEMMA FirstOfFacts ==
  ASSUME NEW S, NEW q \in Seq(S), NEW n \in Nat
  PROVE  /\ FirstOf(q, n) \in Seq(S)
         /\ Len(FirstOf(q, n)) = IF Len(q) < n THEN Len(q) ELSE n
         /\ \A i \in 1 .. Len(FirstOf(q, n)) : FirstOf(q, n)[i] = q[i]
         /\ Len(q) <= n => FirstOf(q, n) = q
<1> DEFINE m == IF Len(q) < n THEN Len(q) ELSE n
<1>1. Len(q) \in Nat /\ m \in Nat /\ m <= Len(q)
  BY LenProperties
<1>2. \A i \in 1 .. m : q[i] \in S
  BY <1>1, ElementOfSeq
<1>3. FirstOf(q, n) = SubSeq(q, 1, m)
  BY DEF FirstOf
<1> HIDE DEF m
<1>4. /\ SubSeq(q, 1, m) \in Seq(S) /\ Len(SubSeq(q, 1, m)) = IF 1 <= m THEN m - 1 + 1 ELSE 0
      /\ \A i \in 1 .. m - 1 + 1 : SubSeq(q, 1, m)[i] = q[1 + i - 1]
  BY <1>1, <1>2, SubSeqProperties
<1>5. Len(SubSeq(q, 1, m)) = m /\ \A i \in 1 .. m : SubSeq(q, 1, m)[i] = q[i]
  BY <1>1, <1>4
<1>6. Len(q) <= n => SubSeq(q, 1, m) = q
  BY <1>1, SubSeqFull DEF m
<1> QED BY <1>1, <1>3, <1>4, <1>5, <1>6 DEF m

(* The last ones of a sequence: elements of it, all if they fit. *)
LEMMA LastOfFacts ==
  ASSUME NEW S, NEW q \in Seq(S), NEW n \in Nat
  PROVE  /\ ToSet(LastOf(q, n)) \subseteq S
         /\ Len(q) <= n => LastOf(q, n) = q
<1>1. Len(q) \in Nat /\ DOMAIN q = 1 .. Len(q) /\ \A i \in 1 .. Len(q) : q[i] \in S
  BY LenProperties, ElementOfSeq
<1>2. CASE Len(q) <= n
  BY <1>1, <1>2 DEF LastOf, ToSet
<1>3. CASE ~(Len(q) <= n)
  <2> DEFINE a == Len(q) - n + 1
             r == SubSeq(q, a, Len(q))
  <2>1. LastOf(q, n) = r
    BY <1>3 DEF LastOf
  <2>2. a \in Int /\ a >= 1 /\ \A i \in a .. Len(q) : q[i] \in S
    BY <1>1, <1>3
  <2>3. r \in Seq(S)
    BY <1>1, <2>2, SubSeqProperties
  <2>4. DOMAIN r = 1 .. Len(r) /\ \A i \in 1 .. Len(r) : r[i] \in S
    BY <2>3, LenProperties, ElementOfSeq
  <2> QED BY <1>3, <2>1, <2>4 DEF ToSet
<1> QED BY <1>2, <1>3

(* A sample is of what is there, and has all that is critical if it fits. *)
LEMMA SampleFacts ==
  ASSUME NEW S, IsFiniteSet(S), NEW size \in Nat, NEW T \in SampleEvents(S, size)
  PROVE  /\ T \subseteq S
         /\ Cardinality({e \in S : isCriticalEvent(e)}) <= size
              => {e \in S : isCriticalEvent(e)} \subseteq T
<1> DEFINE C == {e \in S : isCriticalEvent(e)}
           room == size - Cardinality(C)
<1>1. C \in SUBSET S /\ IsFiniteSet(C) /\ Cardinality(C) \in Nat
  BY FS_Subset, FS_CardinalityType
<1>2. CASE room <= 0
  <2>1. PICK q \in InOrder(C) : T = ToSet(FirstOf(q, size))
    BY <1>2 DEF SampleEvents
  <2>2. q \in SetToSeqs(C)
    BY <2>1 DEF InOrder
  <2> HIDE DEF C
  <2>3. /\ q \in Seq(C) /\ Len(q) = Cardinality(C) /\ DOMAIN q = 1 .. Len(q)
        /\ \A e \in C : \E i \in 1 .. Len(q) : q[i] = e
    BY <1>1, <2>2, Arranged
  <2>4. FirstOf(q, size) \in Seq(C) /\ (Len(q) <= size => FirstOf(q, size) = q)
    BY <2>3, FirstOfFacts
  <2>5. T \subseteq C
    BY <2>1, <2>4, LenProperties, ElementOfSeq DEF ToSet
  <2>6. Cardinality(C) <= size => C \subseteq T
    BY <2>1, <2>3, <2>4 DEF ToSet
  <2> QED BY <1>1, <2>5, <2>6 DEF C
<1>3. CASE ~(room <= 0)
  <2>1. PICK U \in SUBSET (S \ C) : T = C \cup U
    BY <1>3, Zenon DEF SampleEvents, kSubset
  <2> QED BY <1>1, <2>1
<1> QED BY <1>2, <1>3

(* A page has events of the ledger; up to its cursor, or when it is the last *)
(* one, it misses nothing newer than the cursor it was asked with.          *)
LEMMA PageFacts ==
  ASSUME NEW S, IsFiniteSet(S), \A e \in S : e.ts \in Nat \ {NoCursor},
         NEW c \in Nat, NEW n \in Nat \ {0}, NEW a \in GetEventsPage(S, c, n, {"checkpoint"})
  PROVE  /\ a.events \subseteq Checkpoints(S) /\ a.next \in Nat
         /\ a.next = NoCursor => \A e \in Checkpoints(S) : e.ts > c => e \in a.events
         /\ a.next # NoCursor /\ Distinct(Checkpoints(S))
              => \A e \in Checkpoints(S) : e.ts > c /\ e.ts <= a.next => e \in a.events
<1> DEFINE M == Checkpoints(S)
           newer == {e \in M : e.ts > c}
<1>1. M \subseteq S
  BY DEF Checkpoints, Matching
<1>2. newer \in SUBSET S /\ IsFiniteSet(newer)
  <2>1. newer \in SUBSET S
    BY <1>1
  <2> QED BY <2>1, FS_Subset
<1>3. PICK q \in InOrder(newer) :
        a = [events |-> ToSet(FirstOf(q, n)),
             next |-> IF Len(FirstOf(q, n)) = n THEN PageCursor(q, FirstOf(q, n)) ELSE NoCursor]
  BY Zenon DEF GetEventsPage, Checkpoints
<1> DEFINE p == FirstOf(q, n)
<1>4. a.events = ToSet(p) /\ a.next = IF Len(p) = n THEN PageCursor(q, p) ELSE NoCursor
  BY <1>3
<1>5. q \in SetToSeqs(newer) /\ \A i, j \in DOMAIN q : i < j => q[i].ts <= q[j].ts
  BY DEF InOrder
<1> HIDE DEF newer
<1>6. /\ q \in Seq(newer) /\ Len(q) \in Nat /\ DOMAIN q = 1 .. Len(q)
      /\ \A i \in 1 .. Len(q) : q[i] \in newer
      /\ \A i, j \in 1 .. Len(q) : q[i] = q[j] => i = j
      /\ \A e \in newer : \E i \in 1 .. Len(q) : q[i] = e
  BY <1>2, <1>5, Arranged
<1>7. /\ p \in Seq(newer) /\ (Len(q) < n => Len(p) = Len(q)) /\ (Len(q) >= n => Len(p) = n)
      /\ \A i \in 1 .. Len(p) : p[i] = q[i]
  <2>1. q \in Seq(newer) /\ n \in Nat /\ Len(q) \in Nat
    BY <1>6
  <2> HIDE DEF p
  <2>2. /\ p \in Seq(newer) /\ Len(p) = IF Len(q) < n THEN Len(q) ELSE n
        /\ \A i \in 1 .. Len(p) : p[i] = q[i]
    BY <2>1, FirstOfFacts, Zenon DEF p
  <2>3. (Len(q) < n => Len(p) = Len(q)) /\ (Len(q) >= n => Len(p) = n)
    BY <2>1, <2>2
  <2> QED BY <2>2, <2>3
<1>8. /\ Len(p) \in Nat /\ DOMAIN p = 1 .. Len(p) /\ Len(p) <= Len(q)
      /\ \A i \in 1 .. Len(p) : p[i] \in newer
  BY <1>6, <1>7, LenProperties, ElementOfSeq
<1> HIDE DEF p
<1>9. ToSet(p) \subseteq newer
  BY <1>8 DEF ToSet
<1>10. \A i \in 1 .. Len(p) : q[i] \in ToSet(p)
  BY <1>7, <1>8 DEF ToSet
<1>11. \A i \in 1 .. Len(q) : q[i].ts \in Nat \ {NoCursor}
  BY <1>2, <1>6
<1>12. CASE Len(p) = n
  <2>1. a.next = q[n].ts /\ n \in 1 .. Len(q)
    BY <1>4, <1>7, <1>8, <1>12 DEF PageCursor
  <2>2. a.next \in Nat /\ a.next # NoCursor
    BY <1>11, <2>1
  <2>3. ASSUME Distinct(M), NEW e \in M, e.ts > c, e.ts <= a.next
        PROVE  e \in a.events
    <3>1. PICK i \in 1 .. Len(q) : q[i] = e
      BY <1>6, <2>3 DEF newer
    <3>2. CASE i <= n
      BY <1>4, <1>10, <1>12, <3>1, <3>2
    <3>3. CASE i > n
      <4>1. q[n].ts <= q[i].ts
        BY <1>5, <1>6, <2>1, <3>3
      <4>2. q[n].ts = q[i].ts
        BY <1>11, <2>1, <2>3, <3>1, <4>1
      <4>3. q[n] = q[i]
        BY <1>6, <2>1, <2>3, <4>2 DEF Distinct, newer
      <4>4. n = i
        BY <1>6, <2>1, <4>3
      <4> QED BY <3>3, <4>4
    <3> QED BY <2>1, <3>2, <3>3
  <2>4. a.events \subseteq M
    BY <1>4, <1>9 DEF newer
  <2> QED BY <2>2, <2>3, <2>4
<1>13. CASE Len(p) # n
  <2>1. a.next = NoCursor
    BY <1>4, <1>13
  <2>2. Len(p) = Len(q)
    BY <1>6, <1>7, <1>13
  <2>3. \A i \in 1 .. Len(q) : q[i] \in a.events
    BY <1>4, <1>10, <2>2
  <2>4. \A e \in newer : e \in a.events
    BY <1>6, <2>3
  <2> QED BY <1>4, <1>9, <2>1, <2>4 DEF newer, NoCursor
<1> QED BY <1>12, <1>13

(* The position of an event among the events in order is its rank. *)
LEMMA RankIsPosition ==
  ASSUME NEW M, IsFiniteSet(M), \A e \in M : e.ts \in Nat, Distinct(M),
         NEW q \in InOrder(M), NEW i \in 1 .. Len(q)
  PROVE  Rank(M, q[i].ts) = i
<1>1. q \in SetToSeqs(M) /\ \A k, j \in DOMAIN q : k < j => q[k].ts <= q[j].ts
  BY DEF InOrder
<1>2. /\ Len(q) \in Nat /\ DOMAIN q = 1 .. Len(q)
      /\ \A k \in 1 .. Len(q) : q[k] \in M
      /\ \A k, j \in 1 .. Len(q) : q[k] = q[j] => k = j
      /\ \A e \in M : \E k \in 1 .. Len(q) : q[k] = e
  BY <1>1, Arranged
<1> DEFINE U == {u \in {e.ts : e \in M} : u <= q[i].ts}
           f == [k \in 1 .. i |-> q[k].ts]
<1>3. i \in Nat /\ 1 .. i \subseteq 1 .. Len(q) /\ \A k \in 1 .. Len(q) : q[k].ts \in Nat
  BY <1>2
<1>4. \A k \in 1 .. i : q[k].ts \in U
  <2> SUFFICES ASSUME NEW k \in 1 .. i PROVE q[k].ts \in U
    OBVIOUS
  <2>1. q[k].ts <= q[i].ts
    BY <1>1, <1>2, <1>3
  <2> QED BY <1>2, <1>3, <2>1
<1>5. \A k, j \in 1 .. i : q[k].ts = q[j].ts => k = j
  BY <1>2, <1>3 DEF Distinct
<1>6. \A u \in U : \E k \in 1 .. i : q[k].ts = u
  <2> SUFFICES ASSUME NEW u \in U PROVE \E k \in 1 .. i : q[k].ts = u
    OBVIOUS
  <2>1. PICK k \in 1 .. Len(q) : q[k].ts = u
    BY <1>2
  <2>2. CASE k <= i
    BY <2>1, <2>2
  <2>3. CASE k > i
    <3>1. q[i].ts <= q[k].ts
      BY <1>1, <1>2, <2>3
    <3>2. q[k].ts = q[i].ts
      BY <1>3, <2>1, <3>1
    <3> QED BY <1>3, <2>1, <3>2
  <2> QED BY <1>3, <2>2, <2>3
<1> HIDE DEF U
<1>7. f \in [1 .. i -> U]
  BY <1>4
<1>8. f \in Bijection(1 .. i, U)
  BY <1>5, <1>6, <1>7 DEF Bijection, Injection, Surjection, IsInjective
<1>9. Cardinality(U) = i
  BY <1>3, <1>8, FS_CountingElements DEF ExistsBijection
<1> QED BY <1>9 DEF U, Rank

(* A slice is of what is there, and when nothing is cut off it has every *)
(* event whose rank is of that slice.                                    *)
LEMMA SliceFacts ==
  ASSUME NEW S, IsFiniteSet(S), \A e \in S : e.ts \in Nat,
         NEW subjects, NEW index \in Nat, NEW total \in Nat \ {0}, NEW max \in Nat,
         NEW T \in GetEventsForSync(S, subjects, index, total, max)
  PROVE  /\ T \subseteq S
         /\ Distinct(S) /\ Cardinality(S) <= max =>
              \A e \in Matching(S, {}, subjects) :
                (Rank(Matching(S, {}, subjects), e.ts) - 1) % total = index => e \in T
<1> DEFINE M == Matching(S, {}, subjects)
<1>1. M \in SUBSET S /\ IsFiniteSet(M) /\ Cardinality(S) \in Nat
  <2>1. M \in SUBSET S
    BY DEF Matching
  <2> QED BY <2>1, FS_Subset, FS_CardinalityType
<1>2. PICK q \in InOrder(M) : \E r \in InOrder(Slice(q, index, total)) : T = ToSet(LastOf(r, max))
  BY Zenon DEF GetEventsForSync
<1> HIDE DEF M
<1> DEFINE C == Slice(q, index, total)
<1>3. PICK r \in InOrder(C) : T = ToSet(LastOf(r, max))
  BY <1>2
<1>4. q \in SetToSeqs(M) /\ r \in SetToSeqs(C)
  BY DEF InOrder
<1>5. /\ Len(q) \in Nat /\ DOMAIN q = 1 .. Len(q)
      /\ \A i \in 1 .. Len(q) : q[i] \in M
      /\ \A e \in M : \E i \in 1 .. Len(q) : q[i] = e
  BY <1>1, <1>4, Arranged
<1>6. C \in SUBSET S
  BY <1>1, <1>5 DEF Slice
<1>7. IsFiniteSet(C) /\ Cardinality(C) <= Cardinality(S) /\ Cardinality(C) \in Nat
  BY <1>6, FS_Subset, FS_CardinalityType
<1> HIDE DEF C
<1>8. /\ r \in Seq(C) /\ Len(r) = Cardinality(C) /\ DOMAIN r = 1 .. Len(r)
      /\ \A e \in C : \E i \in 1 .. Len(r) : r[i] = e
  BY <1>4, <1>7, Arranged
<1>9. ToSet(LastOf(r, max)) \subseteq C /\ (Len(r) <= max => LastOf(r, max) = r)
  BY <1>8, LastOfFacts
<1>10. ASSUME Distinct(S), Cardinality(S) <= max, NEW e \in M, (Rank(M, e.ts) - 1) % total = index
      PROVE  e \in T
  <2>1. PICK i \in 1 .. Len(q) : q[i] = e
    BY <1>5
  <2>2. Distinct(M) /\ \A x \in M : x.ts \in Nat
    BY <1>1, <1>10 DEF Distinct
  <2>3. Rank(M, q[i].ts) = i
    BY <1>1, <2>2, RankIsPosition
  <2>4. e \in C
    BY <1>5, <1>10, <2>1, <2>3 DEF C, Slice
  <2>5. LastOf(r, max) = r
    BY <1>1, <1>7, <1>8, <1>9, <1>10
  <2> QED BY <1>8, <1>3, <2>4, <2>5 DEF ToSet
<1> QED BY <1>1, <1>6, <1>9, <1>10, <1>3 DEF M

(* What a neighbour holds: finitely many events, with those from the start. *)
LEMMA HeldFacts ==
  ASSUME LedgersOK, NEW n \in Neighbour
  PROVE  /\ held[n] \in SUBSET Universe /\ IsFiniteSet(held[n]) /\ start[n] \subseteq held[n]
         /\ \A e \in held[n] : e.ts \in Nat \ {NoCursor} /\ e.ts \in Nat
BY BootAssumption DEF LedgersOK

(* The answer to a sample call. *)
LEMMA SampleAnswer ==
  ASSUME LedgersOK, NEW n \in Neighbour,
         NEW a \in Answers(n, [mode |-> "sample", size |-> SampleSize])
  PROVE  a.events \subseteq held[n] /\ (Fits(n) => Critical(n) \subseteq a.events)
<1>1. PICK T \in SampleEvents(held[n], SampleSize) : a = [events |-> T, next |-> NoCursor]
  BY DEF Answers, httpEventsSyncHandler
<1>2. SampleSize \in Nat
  BY BootAssumption
<1>3. /\ T \subseteq held[n]
      /\ Cardinality({e \in held[n] : isCriticalEvent(e)}) <= SampleSize
              => {e \in held[n] : isCriticalEvent(e)} \subseteq T
  BY <1>2, HeldFacts, SampleFacts
<1> QED BY <1>1, <1>3 DEF Fits, Critical

(* The answer to a slice call. *)
LEMMA SliceAnswer ==
  ASSUME LedgersOK, NEW n \in Neighbour, NEW subjects, NEW index \in Nat, NEW total \in Nat \ {0},
         NEW a \in Answers(n, [mode |-> "slice", subjects |-> subjects, index |-> index,
                               total |-> total, size |-> EventsPerSlice])
  PROVE  /\ a.events \subseteq held[n]
         /\ Distinct(held[n]) /\ Cardinality(held[n]) <= EventsPerSlice =>
              \A e \in Matching(held[n], {}, subjects) :
                (Rank(Matching(held[n], {}, subjects), e.ts) - 1) % total = index => e \in a.events
<1>1. PICK T \in GetEventsForSync(held[n], subjects, index, total, EventsPerSlice) :
        a = [events |-> T, next |-> NoCursor]
  BY DEF Answers, httpEventsSyncHandler
<1>2. EventsPerSlice \in Nat
  BY BootAssumption
<1>3. /\ T \subseteq held[n]
      /\ Distinct(held[n]) /\ Cardinality(held[n]) <= EventsPerSlice =>
              \A e \in Matching(held[n], {}, subjects) :
                (Rank(Matching(held[n], {}, subjects), e.ts) - 1) % total = index => e \in T
  BY <1>2, HeldFacts, SliceFacts
<1> QED BY <1>1, <1>3

(* The answer to a question for what is recent. *)
LEMMA RecentAnswer ==
  ASSUME LedgersOK, NEW n \in Neighbour,
         NEW a \in Answers(n, [mode |-> "recent", size |-> RecentLimit])
  PROVE  a.events \subseteq held[n]
<1>1. PICK q \in InOrder(held[n]) : a = [events |-> ToSet(LastOf(q, RecentLimit)), next |-> NoCursor]
  BY DEF Answers, httpEventsSyncHandler, GetRecentEvents
<1>2. q \in SetToSeqs(held[n])
  BY DEF InOrder
<1>3. q \in Seq(held[n])
  BY <1>2, HeldFacts, Arranged
<1> QED BY <1>1, <1>3, LastOfFacts, BootAssumption

(* The answer to a page request. *)
LEMMA PageAnswer ==
  ASSUME LedgersOK, NEW n \in Neighbour, cursor \in Nat,
         NEW a \in Answers(n, [mode |-> "page", cursor |-> cursor, size |-> PageSize])
  PROVE  /\ a.events \subseteq Checkpoints(held[n]) /\ a.events \subseteq held[n] /\ a.next \in Nat
         /\ a.next = NoCursor => \A e \in Checkpoints(held[n]) : e.ts > cursor => e \in a.events
         /\ a.next # NoCursor /\ Distinct(Checkpoints(held[n]))
              => \A e \in Checkpoints(held[n]) : e.ts > cursor /\ e.ts <= a.next => e \in a.events
<1>1. a \in GetEventsPage(held[n], cursor, PageSize, {"checkpoint"})
  BY DEF Answers, httpEventsSyncHandler
<1>2. PageSize \in Nat \ {0}
  BY BootAssumption
<1>3. Checkpoints(held[n]) \subseteq held[n]
  BY DEF Checkpoints, Matching
<1>4. /\ a.events \subseteq Checkpoints(held[n]) /\ a.next \in Nat
      /\ a.next = NoCursor => \A e \in Checkpoints(held[n]) : e.ts > cursor => e \in a.events
      /\ a.next # NoCursor /\ Distinct(Checkpoints(held[n]))
              => \A e \in Checkpoints(held[n]) : e.ts > cursor /\ e.ts <= a.next => e \in a.events
  BY <1>1, <1>2, HeldFacts, PageFacts
<1> QED BY <1>3, <1>4

(* What a task asks for. *)
LEMMA RequestFacts ==
  ASSUME LedgersOK, PeersOK, NEW t \in Tasks, sources # <<>>,
         NEW a \in Answers(t.of, Request(t))
  PROVE  /\ t.of \in Neighbour /\ t.of \in ToSet(sources) /\ a.events \subseteq held[t.of]
         /\ mode = "sample" /\ Fits(t.of) => Critical(t.of) \subseteq a.events
         /\ mode # "sample" /\ Distinct(held[t.of]) /\ Cardinality(held[t.of]) <= EventsPerSlice =>
              \A e \in Matching(held[t.of], {}, listed \cup {Me}) :
                (Rank(Matching(held[t.of], {}, listed \cup {Me}), e.ts) - 1) % Len(sources) = t.number
                  => e \in a.events
<1>1. sources \in Seq(Neighbour) /\ DOMAIN sources = 1 .. Len(sources) /\ Len(sources) \in Nat \ {0}
  <2>1. sources \in Seq(Neighbour)
    BY SeqMonotonic DEF PeersOK
  <2> QED BY <2>1, LenProperties, EmptySeq
<1>2. t.of \in ToSet(sources) /\ t.number \in Nat /\ t.of \in Neighbour
  BY <1>1, ElementOfSeq DEF Tasks, ToSet
<1>3. CASE mode = "sample"
  <2>1. a \in Answers(t.of, [mode |-> "sample", size |-> SampleSize])
    BY <1>3 DEF Request
  <2> QED BY <1>2, <1>3, <2>1, SampleAnswer
<1>4. CASE mode # "sample"
  <2>1. a \in Answers(t.of, [mode |-> "slice", subjects |-> listed \cup {Me}, index |-> t.number,
                             total |-> Len(sources), size |-> EventsPerSlice])
    BY <1>4 DEF Request
  <2> QED BY <1>1, <1>2, <1>4, <2>1, SliceAnswer
<1> QED BY <1>3, <1>4

-----------------------------------------------------------------------------
(* Ledgers only grow *)

Grows == start' = start /\ mine \subseteq mine' /\ \A n \in Neighbour : held[n] \subseteq held'[n]

(* What the neighbours hold together is finite. *)
LEMMA UnionFinite ==
  ASSUME NEW h \in [Neighbour -> SUBSET Universe], \A n \in Neighbour : IsFiniteSet(h[n])
  PROVE  IsFiniteSet(UNION {h[n] : n \in Neighbour})
<1> DEFINE R == {h[n] : n \in Neighbour}
<1>1. h \in Surjection(Neighbour, R)
  BY DEF Surjection
<1>2. IsFiniteSet(Neighbour)
  BY BootAssumption
<1>3. \A T \in R : IsFiniteSet(T)
  OBVIOUS
<1> HIDE DEF R
<1>4. IsFiniteSet(R)
  BY <1>1, <1>2, FS_Surjection
<1>5. IsFiniteSet(UNION R)
  BY <1>3, <1>4, FS_UNION
<1> QED BY <1>5 DEF R

(* What fits later fitted before. *)
LEMMA GrowsFits ==
  ASSUME LedgersOK, LedgersOK', Grows, NEW n \in Neighbour, Fits(n)'
  PROVE  Fits(n)
<1> DEFINE C == {e \in held[n] : isCriticalEvent(e)}
           D == {e \in held'[n] : isCriticalEvent(e)}
<1>1. C \in SUBSET D
  BY DEF Grows
<1>2. D \in SUBSET held'[n] /\ IsFiniteSet(held'[n])
  BY DEF LedgersOK
<1> HIDE DEF C, D
<1>3. IsFiniteSet(D) /\ Cardinality(D) \in Nat
  BY <1>2, FS_Subset, FS_CardinalityType
<1>4. Cardinality(C) \in Nat /\ Cardinality(C) <= Cardinality(D)
  BY <1>1, <1>3, FS_Subset, FS_CardinalityType
<1>5. Cardinality(D) <= SampleSize
  BY DEF D, Fits, Critical
<1>6. Cardinality(C) <= SampleSize
  BY <1>3, <1>4, <1>5, BootAssumption
<1> QED BY <1>6 DEF C, Fits, Critical

(* The conditions under which the slices make up the whole held before. *)
LEMMA GrowsSame ==
  ASSUME LedgersOK, LedgersOK', PeersOK, Grows, sources' = sources, Same'
  PROVE  Same
<1> DEFINE E == UNION {held[n] : n \in Neighbour}
           F == UNION {held'[n] : n \in Neighbour}
<1>1. E \in SUBSET F
  BY DEF Grows
<1>2. IsFiniteSet(F)
  BY UnionFinite DEF LedgersOK
<1>3. Distinct(F) /\ Cardinality(F) <= EventsPerSlice
  BY DEF Same, Everything
<1>4. Distinct(E)
  BY <1>1, <1>3 DEF Distinct
<1> HIDE DEF E, F
<1>5. Cardinality(E) \in Nat /\ Cardinality(F) \in Nat /\ Cardinality(E) <= Cardinality(F)
  BY <1>1, <1>2, FS_Subset, FS_CardinalityType
<1>6. Cardinality(E) <= EventsPerSlice
  BY <1>3, <1>5, BootAssumption
<1>7. \A n \in ToSet(sources) : n \in Neighbour
  <2>1. sources \in Seq(Neighbour)
    BY SeqMonotonic DEF PeersOK
  <2> QED BY <2>1, LenProperties, ElementOfSeq DEF ToSet
<1>8. ASSUME NEW n \in ToSet(sources), NEW k \in ToSet(sources)
      PROVE  start[n] = start[k] /\ Older(start[n], held[k] \ start[k])
  <2>1. start[n] = start[k] /\ Older(start[n], held'[k] \ start[k])
    BY <1>8 DEF Same, Grows
  <2>2. held[k] \subseteq held'[k]
    BY <1>7 DEF Grows
  <2> QED BY <2>1, <2>2 DEF Older
<1> QED BY <1>4, <1>6, <1>8 DEF E, Same, Everything

(* What is covered stays covered. *)
LEMMA GrowsCovered ==
  ASSUME LedgersOK, LedgersOK', PeersOK, Grows, sources' = sources, listed' = listed,
         NEW k, Covered(k)
  PROVE  Covered(k)'
<1> SUFFICES ASSUME Same', NEW n \in ToSet(sources)
             PROVE  FilterEventsForIngestion(Belongs(k, n))' \subseteq mine'
  BY DEF Covered
<1>1. Same
  BY GrowsSame
<1>2. FilterEventsForIngestion(Belongs(k, n)) \subseteq mine
  BY <1>1 DEF Covered
<1>3. Belongs(k, n)' = Belongs(k, n)
  BY DEF Belongs, Asked, Grows
<1> QED BY <1>2, <1>3 DEF Grows, FilterEventsForIngestion

-----------------------------------------------------------------------------
(* Steps that disturb neither the samples, the pages nor the slices *)

(* A task is for one of the sources. *)
LEMMA TaskPeer ==
  ASSUME PeersOK, NEW t \in Tasks
  PROVE  t.of \in Neighbour /\ t.of \in ToSet(sources) /\ t.number \in Nat
<1>1. sources \in Seq(Neighbour)
  BY SeqMonotonic DEF PeersOK
<1> QED BY <1>1, LenProperties, ElementOfSeq DEF Tasks, ToSet

(* The samples stay what they are. *)
LEMMA SamplesKept ==
  ASSUME BootTypes, LedgersOK', Grows, SamplesOK, mode' = mode, results' \subseteq results,
         responded' \subseteq responded
  PROVE  SamplesOK'
<1> SUFFICES ASSUME mode = "sample"
             PROVE  /\ \A r \in results' :
                       r.ok /\ Fits(r.task.of)' => Announcements(start[r.task.of]) \subseteq r.events
                    /\ RespondersRemembered'
  BY DEF SamplesOK, Grows
<1>1. ASSUME NEW r \in results', r.ok, Fits(r.task.of)'
      PROVE  Announcements(start[r.task.of]) \subseteq r.events
  <2>1. r.task.of \in Neighbour
    BY TaskPeer DEF BootTypes, CallsOK, Results
  <2>2. Fits(r.task.of)
    BY <1>1, <2>1, GrowsFits DEF BootTypes
  <2> QED BY <1>1, <2>2 DEF SamplesOK
<1>2. ASSUME NEW n \in responded', Fits(n)'
      PROVE  FilterEventsForIngestion(Announcements(start[n])) \subseteq mine'
  <2>1. n \in Neighbour
    <3>1. sources \in Seq(Neighbour)
      BY SeqMonotonic DEF BootTypes, PeersOK
    <3> QED BY <3>1, LenProperties, ElementOfSeq DEF BootTypes, CallsOK, ToSet
  <2>2. Fits(n)
    BY <1>2, <2>1, GrowsFits DEF BootTypes
  <2> QED BY <2>2 DEF SamplesOK, RespondersRemembered, Grows, Fits, Critical
<1>3. RespondersRemembered'
  BY <1>2 DEF RespondersRemembered, Grows, Fits, Critical
<1> QED BY <1>1, <1>3

(* The pages stay what they are. *)
LEMMA PagesKept ==
  ASSUME BootTypes, LedgersOK', Grows, PagesOK, paged' = paged,
         from' = None \/ (from' = from /\ cursor' = cursor /\ got' = got)
  PROVE  PagesOK'
<1>1. \A n \in Neighbour : Distinct(Checkpoints(held'[n])) => Distinct(Checkpoints(held[n]))
  BY DEF Grows, Checkpoints, Matching, Distinct
<1>2. ASSUME from' # None, Distinct(Checkpoints(held'[from])),
             NEW e \in Checkpoints(start[from]), e.ts <= cursor
      PROVE  e \in got
  <2>1. from \in Neighbour /\ from # None
    BY <1>2 DEF BootTypes, FetchOK, PeersOK
  <2> QED BY <1>1, <1>2, <2>1 DEF PagesOK
<1>3. ASSUME NEW n \in paged, Distinct(Checkpoints(held'[n]))
      PROVE  FilterEventsForIngestion(Checkpoints(start[n])) \subseteq mine'
  <2>1. n \in Neighbour
    BY DEF BootTypes, FetchOK, PeersOK
  <2> QED BY <1>1, <1>3, <2>1 DEF PagesOK, PagesComplete, Checkpoints, Grows
<1>4. PagesComplete'
  BY <1>3 DEF PagesComplete, Checkpoints, Grows
<1>5. from' # None /\ Distinct(Checkpoints(held'[from']))
       => \A e \in Checkpoints(start'[from']) : e.ts <= cursor' => e \in got'
  BY <1>2 DEF Grows
<1> QED BY <1>4, <1>5 DEF PagesOK

(* The slices stay what they are. *)
LEMMA SlicesKept ==
  ASSUME BootTypes, LedgersOK', Grows, SlicesOK, mode' = mode, sources' = sources, listed' = listed,
         results' \subseteq results, complete' => complete,
         complete' => \A k \in 0 .. Len(sources) - 1 : UnderWay(k) => Covered(k)' \/ UnderWay(k)'
  PROVE  SlicesOK'
<1> SUFFICES ASSUME mode \in {"slice", "retry"} PROVE SlicesOK'
  BY DEF SlicesOK
<1>1. ASSUME NEW r \in results', r.ok, Same', NEW n \in ToSet(sources)
      PROVE  Belongs(r.task.number, n)' \subseteq r.events
  <2>1. Same
    BY <1>1, GrowsSame DEF BootTypes
  <2>2. Belongs(r.task.number, n) \subseteq r.events
    BY <1>1, <2>1 DEF SlicesOK
  <2>3. Belongs(r.task.number, n)' = Belongs(r.task.number, n)
    BY DEF Belongs, Asked, Grows
  <2> QED BY <2>2, <2>3
<1>2. \A r \in results' : ~r.ok => r.events = {}
  BY DEF SlicesOK
<1>3. ASSUME complete', NEW k \in 0 .. Len(sources) - 1
      PROVE  Covered(k)' \/ UnderWay(k)'
  <2>1. Covered(k) \/ UnderWay(k)
    BY <1>3 DEF SlicesOK
  <2>2. Covered(k) => Covered(k)'
    BY GrowsCovered DEF BootTypes
  <2> QED BY <1>3, <2>1, <2>2
<1> QED BY <1>1, <1>2, <1>3 DEF SlicesOK

(* What the types become when a step leaves their variables alone. *)
LEMMA Unmoved ==
  ASSUME BootTypes
  PROVE  /\ UNCHANGED <<world, held>> /\ mine \subseteq mine' /\ mine' \subseteq Universe => LedgersOK' /\ Grows
         /\ UNCHANGED <<world, online, listed, sources>> => PeersOK'
         /\ UNCHANGED <<calls, sources>> => CallsOK'
         /\ UNCHANGED <<world, listed, fetch>> => FetchOK'
         /\ UNCHANGED <<requests, responses>> => MessagesOK'
<1>1. ASSUME UNCHANGED <<world, held>>, mine \subseteq mine', mine' \subseteq Universe
      PROVE  LedgersOK' /\ Grows
  BY <1>1 DEF BootTypes, LedgersOK, Grows, world
<1>2. ASSUME UNCHANGED <<world, online, listed, sources>> PROVE PeersOK'
  BY <1>2 DEF BootTypes, PeersOK, world
<1>3. ASSUME UNCHANGED <<calls, sources>> PROVE CallsOK'
  BY <1>3 DEF BootTypes, CallsOK, calls, Tasks, Results
<1>4. ASSUME UNCHANGED <<world, listed, fetch>> PROVE FetchOK'
  BY <1>4 DEF BootTypes, FetchOK, fetch, world
<1>5. ASSUME UNCHANGED <<requests, responses>> PROVE MessagesOK'
  BY <1>5 DEF BootTypes, MessagesOK
<1> QED BY <1>1, <1>2, <1>3, <1>4, <1>5

(* Steps outside the parallel calls. *)
LEMMA CallsIdle ==
  ASSUME BootInv, LedgersOK', Grows, UNCHANGED <<calls, listed, sources>>,
         phase \in {"launch", "collect"} => phase' \in {"launch", "collect"}
  PROVE  SamplesOK' /\ SlicesOK'
<1>1. mode' = mode /\ results' = results /\ responded' = responded /\ sources' = sources
      /\ listed' = listed /\ complete' = complete
  BY DEF calls
<1>2. SamplesOK'
  BY <1>1, SamplesKept DEF BootInv
<1>3. \A k : UnderWay(k) => UnderWay(k)'
  BY DEF UnderWay, calls
<1>4. SlicesOK'
  BY <1>1, <1>3, SlicesKept DEF BootInv
<1> QED BY <1>2, <1>4

-----------------------------------------------------------------------------
(* The calls *)

(* A call starts when the semaphore has room, or all have started. *)
LEMMA LaunchKeeps == BootInv /\ Launch => BootInv'
<1> SUFFICES ASSUME BootInv, Launch PROVE BootInv'
  OBVIOUS
<1>1. /\ UNCHANGED <<world, held, mine, online, attempt, listed, sources, mode, results,
                     failed, responded, complete, fetch, mqtt>>
      /\ phase = "launch"
  BY DEF Launch
<1>2. BootTypes /\ SamplesOK /\ PagesOK /\ SlicesOK
  BY DEF BootInv
<1>3. LedgersOK' /\ Grows /\ PeersOK' /\ FetchOK' /\ MessagesOK'
  BY <1>1, <1>2, Unmoved DEF BootTypes, LedgersOK, mqtt
<1>4. Tasks' = Tasks /\ Results' = Results
  BY <1>1 DEF Tasks, Results
<1>5. CallsOK' /\ PhasesOK' /\ \A k : UnderWay(k) => UnderWay(k)'
  <2>1. CASE todo = <<>>
    <3>1. phase' = "collect" /\ todo' = todo /\ running' = running
      BY <2>1 DEF Launch
    <3>2. CallsOK'
      BY <1>1, <1>2, <1>4, <3>1 DEF BootTypes, CallsOK
    <3>3. PhasesOK'
      BY <1>1, <1>2, <2>1, <3>1 DEF BootTypes, PhasesOK, fetch
    <3>4. \A k : UnderWay(k) => UnderWay(k)'
      BY <1>1, <3>1 DEF UnderWay
    <3> QED BY <3>2, <3>3, <3>4
  <2>2. CASE todo # <<>>
    <3>1. /\ Cardinality(running) < MaxConcurrent /\ phase' = phase
          /\ running' = running \cup {Head(todo)} /\ todo' = Tail(todo)
      BY <2>2 DEF Launch
    <3>2. todo \in Seq(Tasks) /\ running \subseteq Tasks /\ IsFiniteSet(running)
      BY <1>2 DEF BootTypes, CallsOK
    <3>3. /\ Head(todo) \in Tasks /\ Tail(todo) \in Seq(Tasks) /\ Head(todo) = todo[1]
          /\ Len(Tail(todo)) = Len(todo) - 1
          /\ \A i \in 1 .. Len(Tail(todo)) : Tail(todo)[i] = todo[i + 1]
      BY <2>2, <3>2, HeadTailProperties
    <3>4. /\ DOMAIN todo = 1 .. Len(todo) /\ Len(todo) \in Nat
          /\ DOMAIN Tail(todo) = 1 .. Len(Tail(todo))
      BY <3>2, <3>3, LenProperties
    <3>5. IsFiniteSet(running') /\ Cardinality(running') <= MaxConcurrent
      <4>1. /\ IsFiniteSet(running')
            /\ Cardinality(running') = Cardinality(running) \/ Cardinality(running') = Cardinality(running) + 1
        BY <3>1, <3>2, FS_AddElement
      <4>2. Cardinality(running) \in Nat /\ MaxConcurrent \in Nat
        BY <3>2, FS_CardinalityType, BootAssumption
      <4> QED BY <3>1, <4>1, <4>2
    <3>6. CallsOK'
      BY <1>1, <1>2, <1>4, <3>1, <3>3, <3>5 DEF BootTypes, CallsOK
    <3>7. PhasesOK'
      BY <1>1, <1>2, <3>1 DEF BootTypes, PhasesOK, fetch
    <3>8. ASSUME NEW k, NEW i \in DOMAIN todo, todo[i].number = k
          PROVE  UnderWay(k)'
      <4>1. CASE i = 1
        BY <3>1, <3>3, <3>8, <4>1 DEF UnderWay
      <4>2. CASE i # 1
        <5>1. i - 1 \in DOMAIN Tail(todo) /\ Tail(todo)[i - 1] = todo[i]
          BY <3>3, <3>4, <4>2
        <5> QED BY <3>1, <3>8, <5>1 DEF UnderWay
      <4> QED BY <4>1, <4>2
    <3>9. \A k : UnderWay(k) => UnderWay(k)'
      BY <1>1, <3>1, <3>8 DEF UnderWay
    <3> QED BY <3>6, <3>7, <3>9
  <2> QED BY <2>1, <2>2
<1>6. BootTypes'
  BY <1>3, <1>5 DEF BootTypes
<1>7. SamplesOK'
  BY <1>1, <1>2, <1>3, SamplesKept
<1>8. PagesOK'
  BY <1>1, <1>2, <1>3, PagesKept DEF fetch
<1>9. SlicesOK'
  BY <1>1, <1>2, <1>3, <1>5, SlicesKept
<1> QED BY <1>6, <1>7, <1>8, <1>9 DEF BootInv

(* A neighbour that is asked for a slice answers with the part of any       *)
(* source's memory that is of this slice: what it learned since is newer,   *)
(* so it has not moved what it held from the start to other slices.         *)
LEMMA SliceBelongs ==
  ASSUME LedgersOK, PeersOK, Same, mode # "sample", sources # <<>>,
         NEW t \in Tasks, NEW a \in Answers(t.of, Request(t)), NEW n \in ToSet(sources)
  PROVE  Belongs(t.number, n) \subseteq a.events
<1> DEFINE k == t.of
           A == Asked(k)
           M == Matching(held[k], {}, listed \cup {Me})
<1>1. k \in Neighbour /\ k \in ToSet(sources)
  BY TaskPeer
<1>2. start[n] = start[k] /\ Older(start[k], held[k] \ start[k])
  BY <1>1 DEF Same
<1>3. /\ start[k] \subseteq held[k] /\ held[k] \in SUBSET Universe
      /\ \A e \in held[k] : e.ts \in Nat
  BY <1>1, HeldFacts
<1>4. Distinct(held[k]) /\ Cardinality(held[k]) <= EventsPerSlice
  <2> DEFINE V == UNION {held[m] : m \in Neighbour}
  <2>1. IsFiniteSet(V)
    BY UnionFinite DEF LedgersOK
  <2>2. held[k] \in SUBSET V
    BY <1>1
  <2>3. Distinct(V) /\ Cardinality(V) <= EventsPerSlice
    BY DEF Same, Everything
  <2> HIDE DEF V
  <2>4. /\ Cardinality(V) \in Nat /\ Cardinality(held[k]) \in Nat
        /\ Cardinality(held[k]) <= Cardinality(V)
    BY <2>1, <2>2, FS_Subset, FS_CardinalityType
  <2>5. Cardinality(held[k]) <= EventsPerSlice
    BY <2>3, <2>4, BootAssumption
  <2>6. Distinct(held[k])
    BY <2>2, <2>3 DEF Distinct
  <2> QED BY <2>5, <2>6
<1>5. A \subseteq M /\ A \subseteq start[k] /\ M \subseteq held[k]
  BY <1>3 DEF Asked, Matching
<1>6. \A x \in M : x \in start[k] => x \in A
  BY DEF Asked, Matching
<1>7. ASSUME NEW e \in A PROVE Rank(M, e.ts) = Rank(A, e.ts)
  <2> DEFINE U == {u \in {x.ts : x \in M} : u <= e.ts}
             W == {u \in {x.ts : x \in A} : u <= e.ts}
  <2>1. W \subseteq U
    BY <1>5
  <2>2. ASSUME NEW x \in M, x.ts <= e.ts PROVE x \in A
    <3>1. CASE x \in start[k]
      BY <1>6, <3>1
    <3>2. CASE x \notin start[k]
      <4>1. e.ts < x.ts
        BY <1>2, <1>5, <3>2 DEF Older
      <4>2. x.ts \in Nat /\ e.ts \in Nat
        BY <1>3, <1>5
      <4> QED BY <2>2, <4>1, <4>2
    <3> QED BY <3>1, <3>2
  <2>3. U \subseteq W
    BY <2>2
  <2>4. U = W
    BY <2>1, <2>3
  <2> QED BY <2>4 DEF Rank
<1>8. Asked(n) = A /\ Belongs(t.number, n) = {e \in A : (Rank(A, e.ts) - 1) % Len(sources) = t.number}
  BY <1>2 DEF Asked, Belongs
<1>9. \A e \in M : (Rank(M, e.ts) - 1) % Len(sources) = t.number => e \in a.events
  BY <1>4, RequestFacts
<1> HIDE DEF A, M, k
<1>10. ASSUME NEW e \in A, (Rank(A, e.ts) - 1) % Len(sources) = t.number
       PROVE  e \in a.events
  BY <1>5, <1>7, <1>9, <1>10
<1> QED BY <1>8, <1>10

(* A call ends, with an answer of the neighbour or with an error. *)
LEMMA FetchReturnsKeeps == BootInv /\ (\E t \in running : FetchReturns(t)) => BootInv'
<1> SUFFICES ASSUME BootInv, NEW t \in running, FetchReturns(t) PROVE BootInv'
  OBVIOUS
<1>1. /\ running' = running \ {t}
      /\ UNCHANGED <<world, held, mine, online, phase, attempt, listed, sources, mode, todo,
                     failed, responded, complete, fetch, mqtt>>
  BY DEF FetchReturns
<1>2. PICK r \in {[task |-> t, ok |-> TRUE, events |-> a.events] : a \in Answers(t.of, Request(t))}
                 \cup {[task |-> t, ok |-> FALSE, events |-> {}]} :
        results' = results \cup {r}
  BY DEF FetchReturns
<1>3. BootTypes /\ SamplesOK /\ PagesOK /\ SlicesOK
  BY DEF BootInv
<1>4. /\ r.task = t /\ r.ok \in BOOLEAN /\ (~r.ok => r.events = {})
      /\ r.ok => \E a \in Answers(t.of, Request(t)) : r.events = a.events
      /\ r = [task |-> r.task, ok |-> r.ok, events |-> r.events]
  <2>1. CASE r \in {[task |-> t, ok |-> TRUE, events |-> a.events] : a \in Answers(t.of, Request(t))}
    <3>1. PICK a \in Answers(t.of, Request(t)) : r = [task |-> t, ok |-> TRUE, events |-> a.events]
      BY <2>1
    <3> QED BY <3>1
  <2>2. CASE r = [task |-> t, ok |-> FALSE, events |-> {}]
    BY <2>2
  <2> QED BY <1>2, <2>1, <2>2
<1>5. t \in Tasks /\ sources # <<>> /\ phase \in {"launch", "collect"} /\ mode # None
  BY <1>3 DEF BootTypes, CallsOK, PhasesOK
<1>6. LedgersOK' /\ Grows /\ PeersOK' /\ FetchOK' /\ MessagesOK'
  BY <1>1, <1>3, Unmoved DEF BootTypes, LedgersOK, mqtt
<1>7. LedgersOK /\ PeersOK
  BY <1>3 DEF BootTypes
<1>8. CallsOK'
  <2>1. Tasks' = Tasks /\ Results' = Results
    BY <1>1 DEF Tasks, Results
  <2>2. r.events \subseteq Universe
    <3>1. t.of \in Neighbour
      BY <1>5, <1>7, TaskPeer
    <3>2. \A a \in Answers(t.of, Request(t)) : a.events \subseteq held[t.of]
      BY <1>5, <1>7, RequestFacts
    <3> QED BY <1>4, <1>7, <3>1, <3>2, HeldFacts
  <2>3. r \in Results
    BY <1>4, <1>5, <2>2 DEF Results
  <2>4. IsFiniteSet(running') /\ Cardinality(running') <= MaxConcurrent
    <3>1. IsFiniteSet(running) /\ Cardinality(running) <= MaxConcurrent
      BY <1>3 DEF BootTypes, CallsOK
    <3>2. /\ IsFiniteSet(running') /\ Cardinality(running') <= Cardinality(running)
          /\ Cardinality(running) \in Nat /\ Cardinality(running') \in Nat
      BY <1>1, <3>1, FS_Subset, FS_CardinalityType
    <3> QED BY <3>1, <3>2, BootAssumption
  <2> QED BY <1>1, <1>2, <1>3, <2>1, <2>3, <2>4 DEF BootTypes, CallsOK
<1>9. PhasesOK'
  BY <1>1, <1>3, <1>5 DEF BootTypes, PhasesOK, fetch
<1>10. BootTypes'
  BY <1>6, <1>8, <1>9 DEF BootTypes
<1>11. SamplesOK'
  <2> SUFFICES ASSUME mode = "sample"
               PROVE  /\ \A x \in results' :
                         x.ok /\ Fits(x.task.of)' => Announcements(start[x.task.of]) \subseteq x.events
                      /\ RespondersRemembered'
    BY <1>1, <1>6 DEF SamplesOK, Grows
  <2>1. \A n : Fits(n)' <=> Fits(n)
    BY <1>1 DEF Fits, Critical
  <2>2. RespondersRemembered'
    BY <1>1, <1>3 DEF SamplesOK, RespondersRemembered, world
  <2>3. ASSUME r.ok, Fits(t.of) PROVE Announcements(start[t.of]) \subseteq r.events
    <3>1. PICK a \in Answers(t.of, Request(t)) : r.events = a.events
      BY <1>4, <2>3
    <3>2. Critical(t.of) \subseteq a.events /\ t.of \in Neighbour
      BY <1>5, <1>7, <2>3, RequestFacts
    <3>3. start[t.of] \subseteq held[t.of]
      BY <1>7, <3>2, HeldFacts
    <3>4. Announcements(start[t.of]) \subseteq Critical(t.of)
      BY <3>3 DEF Announcements, Critical, isCriticalEvent
    <3> QED BY <3>1, <3>2, <3>4
  <2>4. ASSUME NEW x \in results', x.ok, Fits(x.task.of)
        PROVE  Announcements(start[x.task.of]) \subseteq x.events
    <3>1. CASE x \in results
      BY <1>3, <2>4, <3>1 DEF SamplesOK
    <3>2. CASE x = r
      BY <1>4, <2>3, <2>4, <3>2
    <3> QED BY <1>2, <3>1, <3>2
  <2> QED BY <2>1, <2>2, <2>4
<1>12. PagesOK'
  BY <1>1, <1>3, <1>6, PagesKept DEF fetch
<1>13. SlicesOK'
  <2> SUFFICES ASSUME mode \in {"slice", "retry"} PROVE SlicesOK'
    BY <1>1 DEF SlicesOK
  <2>1. (Same' <=> Same) /\ (\A k, n : Belongs(k, n)' = Belongs(k, n)) /\ \A k : Covered(k)' <=> Covered(k)
    BY <1>1 DEF Same, Belongs, Asked, Covered, Everything, world
  <2>2. ASSUME NEW x \in results', x.ok, Same, NEW n \in ToSet(sources)
        PROVE  Belongs(x.task.number, n) \subseteq x.events
    <3>1. CASE x \in results
      BY <1>3, <2>2, <3>1 DEF SlicesOK
    <3>2. CASE x = r
      <4>1. PICK a \in Answers(t.of, Request(t)) : r.events = a.events
        BY <1>4, <2>2, <3>2
      <4>2. Belongs(t.number, n) \subseteq a.events
        BY <1>5, <1>7, <2>2, SliceBelongs
      <4> QED BY <1>4, <3>2, <4>1, <4>2
    <3> QED BY <1>2, <3>1, <3>2
  <2>3. \A x \in results' : ~x.ok => x.events = {}
    BY <1>2, <1>3, <1>4 DEF SlicesOK
  <2>4. \A k : UnderWay(k) => UnderWay(k)'
    BY <1>1, <1>2, <1>4 DEF UnderWay
  <2>5. complete' => \A k \in 0 .. Len(sources) - 1 : Covered(k)' \/ UnderWay(k)'
    BY <1>1, <1>3, <2>1, <2>4 DEF SlicesOK
  <2> QED BY <1>1, <2>1, <2>2, <2>3, <2>5 DEF SlicesOK
<1> QED BY <1>10, <1>11, <1>12, <1>13 DEF BootInv

(* A result is merged, or its slice is noted as failed. *)
LEMMA ProcessResultKeeps == BootInv /\ (\E r \in results : ProcessResult(r)) => BootInv'
<1> SUFFICES ASSUME BootInv, NEW r \in results, ProcessResult(r) PROVE BootInv'
  OBVIOUS
<1> DEFINE useful == IF mode = "sample" THEN r.ok ELSE r.events # {}
<1>1. /\ phase = "collect" /\ results' = results \ {r}
      /\ UNCHANGED <<world, held, online, phase, attempt, listed, sources, mode, todo, running,
                     fetch, mqtt>>
      /\ complete' = (complete /\ (mode = "retry" => r.ok))
  BY DEF ProcessResult
<1>2. /\ IF useful THEN mine' = mine \cup FilterEventsForIngestion(r.events) ELSE mine' = mine
      /\ failed' = IF useful \/ mode = "retry" THEN failed ELSE Append(failed, r.task.number)
      /\ responded' = IF useful /\ mode # "retry" THEN responded \cup {r.task.of} ELSE responded
  BY DEF ProcessResult, MergeSyncEventsWithVerification
<1> HIDE DEF useful
<1>3. BootTypes /\ SamplesOK /\ PagesOK /\ SlicesOK /\ LedgersOK /\ PeersOK
  BY DEF BootInv, BootTypes
<1>4. /\ r.task \in Tasks /\ r.ok \in BOOLEAN /\ r.events \subseteq Universe
      /\ results \subseteq Results /\ r \in Results /\ failed \in Seq(Nat)
  BY <1>3 DEF BootTypes, CallsOK, Results
<1>5. r.task.of \in Neighbour /\ r.task.of \in ToSet(sources) /\ r.task.number \in Nat
  BY <1>3, <1>4, TaskPeer
<1>6. LedgersOK' /\ Grows
  <2>1. mine \subseteq mine' /\ mine' \subseteq Universe
    BY <1>2, <1>3, <1>4 DEF LedgersOK, FilterEventsForIngestion
  <2> QED BY <1>1, <1>3, <2>1, Unmoved
<1>7. PeersOK' /\ FetchOK' /\ MessagesOK'
  BY <1>1, <1>3, Unmoved DEF mqtt
<1>8. CallsOK'
  <2>1. Tasks' = Tasks /\ Results' = Results
    BY <1>1 DEF Tasks, Results
  <2>2. failed' \in Seq(Nat)
    BY <1>2, <1>4, <1>5, AppendProperties
  <2>3. responded' \subseteq ToSet(sources)
    BY <1>2, <1>3, <1>5 DEF BootTypes, CallsOK
  <2> QED BY <1>1, <1>3, <1>4, <2>1, <2>2, <2>3 DEF BootTypes, CallsOK
<1>9. PhasesOK'
  BY <1>1, <1>3 DEF BootTypes, PhasesOK, fetch
<1>10. BootTypes'
  BY <1>6, <1>7, <1>8, <1>9 DEF BootTypes
<1>11. SamplesOK'
  <2> SUFFICES ASSUME mode = "sample"
               PROVE  /\ \A x \in results' :
                         x.ok /\ Fits(x.task.of)' => Announcements(start[x.task.of]) \subseteq x.events
                      /\ RespondersRemembered'
    BY <1>1, <1>6 DEF SamplesOK, Grows
  <2>1. \A n : Fits(n)' <=> Fits(n)
    BY <1>1 DEF Fits, Critical
  <2>2. \A x \in results' : x.ok /\ Fits(x.task.of) => Announcements(start[x.task.of]) \subseteq x.events
    BY <1>1, <1>3 DEF SamplesOK
  <2>3. ASSUME NEW n \in responded', Fits(n)
        PROVE  FilterEventsForIngestion(Announcements(start[n])) \subseteq mine'
    <3>1. CASE n \in responded
      <4>1. FilterEventsForIngestion(Announcements(start[n])) \subseteq mine
        BY <1>3, <2>3, <3>1 DEF SamplesOK, RespondersRemembered, Fits, Critical
      <4> QED BY <1>6, <4>1 DEF Grows
    <3>2. CASE n \notin responded
      <4>1. useful /\ n = r.task.of
        BY <1>2, <2>3, <3>2
      <4>2. r.ok /\ mine' = mine \cup FilterEventsForIngestion(r.events)
        BY <1>2, <4>1 DEF useful
      <4>3. Announcements(start[n]) \subseteq r.events
        BY <1>3, <2>3, <4>1, <4>2 DEF SamplesOK
      <4> QED BY <4>2, <4>3 DEF FilterEventsForIngestion
    <3> QED BY <3>1, <3>2
  <2>4. RespondersRemembered'
    BY <1>1, <2>3 DEF RespondersRemembered, Fits, Critical, world
  <2> QED BY <2>1, <2>2, <2>4
<1>12. PagesOK'
  BY <1>1, <1>3, <1>6, PagesKept DEF fetch
<1>13. SlicesOK'
  <2>1. CASE mode \notin {"slice", "retry"}
    BY <1>1, <2>1 DEF SlicesOK
  <2>2. CASE mode \in {"slice", "retry"}
    <3>1. useful <=> r.events # {}
      BY <2>2 DEF useful
    <3>2. ASSUME complete', NEW k \in 0 .. Len(sources) - 1, UnderWay(k)
          PROVE  Covered(k)' \/ UnderWay(k)'
      <4>1. CASE r.task.number = k
        <5>1. CASE mode = "slice" /\ r.events = {}
          <6>1. failed' = Append(failed, k) /\ Len(failed) + 1 \in DOMAIN failed' /\ failed'[Len(failed) + 1] = k
            <7>1. failed' = Append(failed, k)
              BY <1>2, <3>1, <4>1, <5>1
            <7>2. k \in Nat /\ Append(failed, k) \in Seq(Nat) /\ Len(Append(failed, k)) = Len(failed) + 1
                  /\ Append(failed, k)[Len(failed) + 1] = k
              BY <1>4, <1>5, <4>1, AppendProperties
            <7>3. Len(failed) + 1 \in DOMAIN Append(failed, k)
              BY <1>4, <7>2, LenProperties
            <7> QED BY <7>1, <7>2, <7>3
          <6> QED BY <1>1, <5>1, <6>1 DEF UnderWay
        <5>2. CASE ~(mode = "slice" /\ r.events = {})
          <6>1. r.ok
            BY <1>1, <1>3, <1>4, <2>2, <3>2, <5>2 DEF SlicesOK
          <6>2. FilterEventsForIngestion(r.events) \subseteq mine'
            BY <1>2, <3>1 DEF FilterEventsForIngestion
          <6>3. ASSUME Same', NEW n \in ToSet(sources) PROVE FilterEventsForIngestion(Belongs(k, n)) \subseteq mine'
            <7>1. Same
              BY <1>1, <1>3, <1>6, <6>3, GrowsSame
            <7>2. Belongs(k, n) \subseteq r.events
              BY <1>3, <2>2, <4>1, <6>1, <6>3, <7>1 DEF SlicesOK
            <7> QED BY <6>2, <7>2 DEF FilterEventsForIngestion
          <6>4. \A n : Belongs(k, n)' = Belongs(k, n)
            BY <1>1 DEF Belongs, Asked, world
          <6> QED BY <1>1, <6>3, <6>4 DEF Covered, FilterEventsForIngestion
        <5> QED BY <5>1, <5>2
      <4>2. CASE r.task.number # k
        <5>1. \A i \in DOMAIN failed : i \in DOMAIN failed' /\ failed'[i] = failed[i]
          <6>1. CASE failed' = failed
            BY <6>1
          <6>2. CASE failed' = Append(failed, r.task.number)
            <7>1. /\ Append(failed, r.task.number) \in Seq(Nat)
                  /\ Len(Append(failed, r.task.number)) = Len(failed) + 1
                  /\ \A i \in 1 .. Len(failed) : Append(failed, r.task.number)[i] = failed[i]
              BY <1>4, <1>5, AppendProperties
            <7>2. /\ DOMAIN failed = 1 .. Len(failed) /\ Len(failed) \in Nat
                  /\ DOMAIN Append(failed, r.task.number) = 1 .. Len(failed) + 1
              BY <1>4, <7>1, LenProperties
            <7> QED BY <6>2, <7>1, <7>2
          <6> QED BY <1>2, <6>1, <6>2
        <5> QED BY <1>1, <3>2, <4>2, <5>1 DEF UnderWay
      <4> QED BY <4>1, <4>2
    <3>3. complete' => complete
      BY <1>1
    <3> QED BY <1>1, <1>3, <1>6, <3>2, <3>3, SlicesKept
  <2> QED BY <2>1, <2>2
<1> QED BY <1>10, <1>11, <1>12, <1>13 DEF BootInv

(* A new round of calls. *)
LEMMA StartCalls ==
  ASSUME BootTypes, NEW m, NEW STATE tasks, Start(m, tasks), tasks \in Seq(Tasks'),
         responded' \subseteq ToSet(sources'), complete' \in BOOLEAN
  PROVE  CallsOK'
<1>1. /\ todo' = tasks /\ failed' = <<>> /\ running' = {} /\ results' = {}
  BY DEF Start
<1>2. IsFiniteSet(running') /\ Cardinality(running') <= MaxConcurrent
  BY <1>1, FS_EmptySet, BootAssumption
<1>3. failed' \in Seq(Nat)
  BY <1>1, EmptySeq
<1> QED BY <1>1, <1>2, <1>3 DEF CallsOK

(* The checkpoints, with everybody known yet to be asked for theirs. *)
LEMMA CheckpointsBegin ==
  ASSUME BootTypes, ToCheckpoints, phase = "collect", running = {}, results = {},
         UNCHANGED <<world, listed, sources, attempt, from, cursor, got, fetched, paged>>,
         responded' = responded, complete' \in BOOLEAN
  PROVE  CallsOK' /\ FetchOK' /\ PhasesOK'
<1>1. /\ phase' = "checkpoints" /\ candidates' = listed
      /\ UNCHANGED <<mode, todo, running, results, failed>>
  BY DEF ToCheckpoints
<1>2. CallsOK'
  BY <1>1 DEF BootTypes, CallsOK, Tasks, Results
<1>3. paged = {} /\ from = None
  BY DEF BootTypes, PhasesOK
<1>4. FetchOK'
  BY <1>1, <1>3 DEF BootTypes, FetchOK, world
<1>5. PhasesOK'
  BY <1>1, <1>3 DEF BootTypes, PhasesOK
<1> QED BY <1>2, <1>4, <1>5

(* The samples are in: the checkpoints are next, or slices when too many failed. *)
LEMMA SampleEndsKeeps == BootInv /\ SampleEnds => BootInv'
<1> SUFFICES ASSUME BootInv, SampleEnds PROVE BootInv'
  OBVIOUS
<1>1. /\ phase = "collect" /\ running = {} /\ results = {} /\ mode = "sample"
      /\ UNCHANGED <<world, held, mine, online, attempt, listed, sources, complete,
                     from, cursor, got, fetched, paged, mqtt>>
  BY DEF SampleEnds, AllCallsEnded
<1>2. BootTypes /\ SamplesOK /\ PagesOK /\ SlicesOK /\ LedgersOK /\ PeersOK
  BY DEF BootInv, BootTypes
<1>3. LedgersOK' /\ Grows /\ PeersOK' /\ MessagesOK'
  BY <1>1, <1>2, Unmoved DEF LedgersOK, mqtt
<1>4. complete \in BOOLEAN
  BY <1>2 DEF BootTypes, CallsOK
<1>5. PagesOK'
  BY <1>1, <1>2, <1>3, PagesKept
<1>6. CASE Start("slice", SliceTasks) /\ responded' = {} /\ UNCHANGED candidates
  <2>1. /\ phase' = "launch" /\ mode' = "slice" /\ todo' = SliceTasks /\ results' = {} /\ running' = {}
    BY <1>6 DEF Start
  <2>2. sources # <<>> /\ sources \in Seq(Neighbour)
    BY <1>1, <1>2, SeqMonotonic DEF BootTypes, PhasesOK, PeersOK
  <2>3. Len(sources) \in Nat /\ DOMAIN sources = 1 .. Len(sources)
    BY <2>2, LenProperties
  <2>4. SliceTasks \in Seq(Tasks)
    <3>1. \A i \in 1 .. Len(sources) : Task(sources[i], i - 1) \in Tasks
      BY <2>3 DEF Task, Tasks, ToSet
    <3>2. SliceTasks \in [1 .. Len(sources) -> Tasks]
      BY <2>3, <3>1 DEF SliceTasks
    <3> QED BY <2>3, <3>2
  <2>5. CallsOK'
    <3>1. Tasks' = Tasks
      BY <1>1 DEF Tasks
    <3> QED BY <1>1, <1>2, <1>4, <1>6, <2>4, <3>1, StartCalls
  <2>6. FetchOK'
    BY <1>1, <1>2, <1>6 DEF BootTypes, FetchOK, world
  <2>7. PhasesOK'
    <3>1. from = None /\ candidates = {} /\ paged = {} /\ attempt \in 0 .. 2
      BY <1>1, <1>2 DEF BootTypes, PhasesOK
    <3> QED BY <1>1, <1>6, <2>1, <2>2, <3>1 DEF PhasesOK, None
  <2>8. \A k \in 0 .. Len(sources) - 1 : UnderWay(k)'
    <3> SUFFICES ASSUME NEW k \in 0 .. Len(sources) - 1 PROVE UnderWay(k)'
      OBVIOUS
    <3>1. k + 1 \in DOMAIN SliceTasks /\ SliceTasks[k + 1].number = k
      BY <2>3 DEF SliceTasks, Task
    <3> QED BY <2>1, <3>1 DEF UnderWay
  <2>9. SlicesOK'
    BY <1>1, <2>1, <2>8 DEF SlicesOK
  <2>10. SamplesOK'
    BY <2>1 DEF SamplesOK
  <2> QED BY <1>3, <1>5, <2>5, <2>6, <2>7, <2>9, <2>10 DEF BootInv, BootTypes
<1>7. CASE ToCheckpoints /\ UNCHANGED responded
  <2>1. mode' = mode /\ results' = results
    BY <1>7 DEF ToCheckpoints
  <2>2. CallsOK' /\ FetchOK' /\ PhasesOK'
    BY <1>1, <1>2, <1>4, <1>7, CheckpointsBegin
  <2>3. SamplesOK'
    BY <1>2, <1>3, <1>7, <2>1, SamplesKept
  <2>4. SlicesOK'
    BY <1>1, <2>1 DEF SlicesOK
  <2> QED BY <1>3, <1>5, <2>2, <2>3, <2>4 DEF BootInv, BootTypes
<1> QED BY <1>6, <1>7 DEF SampleEnds

(* The slices are in: those that failed are asked for once more, or not. *)
LEMMA SlicesEndKeeps == BootInv /\ SlicesEnd => BootInv'
<1> SUFFICES ASSUME BootInv, SlicesEnd PROVE BootInv'
  OBVIOUS
<1>1. /\ phase = "collect" /\ running = {} /\ results = {} /\ mode \in {"slice", "retry"}
      /\ UNCHANGED <<world, held, mine, online, attempt, listed, sources, responded,
                     from, cursor, got, fetched, paged, mqtt>>
  BY DEF SlicesEnd, AllCallsEnded
<1>2. BootTypes /\ SamplesOK /\ PagesOK /\ SlicesOK /\ LedgersOK /\ PeersOK
  BY DEF BootInv, BootTypes
<1>3. LedgersOK' /\ Grows /\ PeersOK' /\ MessagesOK'
  BY <1>1, <1>2, Unmoved DEF LedgersOK, mqtt
<1>4. complete \in BOOLEAN /\ todo = <<>> /\ failed \in Seq(Nat) /\ responded \subseteq ToSet(sources)
  BY <1>1, <1>2 DEF BootTypes, CallsOK, PhasesOK
<1>5. PagesOK'
  BY <1>1, <1>2, <1>3, PagesKept
<1>6. \A k : UnderWay(k) => mode = "slice" /\ \E i \in DOMAIN failed : failed[i] = k
  BY <1>1, <1>4 DEF UnderWay
<1>7. CASE mode = "slice" /\ failed # <<>> /\ responded # {}
  <2>1. PICK naras \in SetToSeqs(responded) : Start("retry", RetryTasks(failed, naras))
    BY <1>7 DEF SlicesEnd, available
  <2>2. /\ phase' = "launch" /\ mode' = "retry" /\ todo' = RetryTasks(failed, naras)
        /\ results' = {} /\ running' = {}
    BY <2>1 DEF Start
  <2>3. complete' = complete /\ candidates' = candidates
    BY <1>7 DEF SlicesEnd
  <2>4. sources # <<>> /\ sources \in Seq(Neighbour)
    BY <1>1, <1>2, SeqMonotonic DEF BootTypes, PhasesOK, PeersOK
  <2>5. Len(naras) \in Nat \ {0} /\ \A i \in 1 .. Len(naras) : naras[i] \in responded
    <3>1. IsFiniteSet(responded)
      <4>1. responded \in SUBSET Neighbour
        BY <1>4, <2>4, LenProperties, ElementOfSeq DEF ToSet
      <4> QED BY <4>1, FS_Subset, BootAssumption
    <3>2. /\ Len(naras) \in Nat /\ Len(naras) = Cardinality(responded)
          /\ \A i \in 1 .. Len(naras) : naras[i] \in responded
      BY <3>1, Arranged
    <3>3. Cardinality(responded) # 0
      BY <1>7, <3>1, FS_EmptySet
    <3> QED BY <3>2, <3>3
  <2>6. DOMAIN failed = 1 .. Len(failed) /\ Len(failed) \in Nat
    BY <1>4, LenProperties
  <2>7. RetryTasks(failed, naras) \in Seq(Tasks)
    <3>1. \A i \in 1 .. Len(failed) : Task(naras[((i - 1) % Len(naras)) + 1], failed[i]) \in Tasks
      <4> SUFFICES ASSUME NEW i \in 1 .. Len(failed)
                   PROVE  Task(naras[((i - 1) % Len(naras)) + 1], failed[i]) \in Tasks
        OBVIOUS
      <4>1. (i - 1) % Len(naras) \in 0 .. Len(naras) - 1
        BY <2>5, <2>6
      <4>2. ((i - 1) % Len(naras)) + 1 \in 1 .. Len(naras)
        BY <2>5, <4>1
      <4>3. naras[((i - 1) % Len(naras)) + 1] \in ToSet(sources)
        BY <1>4, <2>5, <4>2
      <4>4. failed[i] \in Nat
        BY <1>4, ElementOfSeq
      <4> QED BY <4>3, <4>4 DEF Task, Tasks
    <3>2. RetryTasks(failed, naras) \in [1 .. Len(failed) -> Tasks]
      BY <2>6, <3>1 DEF RetryTasks
    <3> QED BY <2>6, <3>2
  <2>8. CallsOK'
    <3>1. Tasks' = Tasks
      BY <1>1 DEF Tasks
    <3> QED BY <1>1, <1>2, <1>4, <2>1, <2>3, <2>7, <3>1, StartCalls
  <2>9. FetchOK'
    BY <1>1, <1>2, <2>3 DEF BootTypes, FetchOK, world
  <2>10. PhasesOK'
    <3>1. from = None /\ candidates = {} /\ paged = {} /\ attempt \in 0 .. 2
      BY <1>1, <1>2 DEF BootTypes, PhasesOK
    <3> QED BY <1>1, <2>2, <2>3, <2>4, <3>1 DEF PhasesOK, None
  <2>11. ASSUME NEW k, NEW i \in DOMAIN failed, failed[i] = k PROVE UnderWay(k)'
    <3>1. i \in DOMAIN RetryTasks(failed, naras) /\ RetryTasks(failed, naras)[i].number = k
      BY <2>11 DEF RetryTasks, Task
    <3> QED BY <2>2, <3>1 DEF UnderWay
  <2>12. SlicesOK'
    <3>1. ASSUME complete, NEW k \in 0 .. Len(sources) - 1 PROVE Covered(k)' \/ UnderWay(k)'
      <4>1. Covered(k) \/ UnderWay(k)
        BY <1>1, <1>2, <3>1 DEF SlicesOK
      <4>2. Covered(k) => Covered(k)'
        BY <1>1, <1>2, <1>3, GrowsCovered
      <4>3. UnderWay(k) => UnderWay(k)'
        BY <1>6, <2>11
      <4> QED BY <4>1, <4>2, <4>3
    <3> QED BY <1>1, <2>2, <2>3, <3>1 DEF SlicesOK
  <2>13. SamplesOK'
    BY <2>2 DEF SamplesOK
  <2> QED BY <1>3, <1>5, <2>8, <2>9, <2>10, <2>12, <2>13 DEF BootInv, BootTypes
<1>8. CASE ~(mode = "slice" /\ failed # <<>> /\ responded # {})
  <2>1. ToCheckpoints /\ complete' = (complete /\ (mode = "slice" => failed = <<>>))
    BY <1>8 DEF SlicesEnd
  <2>2. mode' = mode /\ results' = results
    BY <2>1 DEF ToCheckpoints
  <2>3. CallsOK' /\ FetchOK' /\ PhasesOK'
    BY <1>1, <1>2, <1>4, <2>1, CheckpointsBegin
  <2>4. SamplesOK'
    BY <1>1, <2>2 DEF SamplesOK
  <2>5. SlicesOK'
    <3>1. ASSUME complete', NEW k, UnderWay(k) PROVE FALSE
      <4>1. mode = "slice" /\ DOMAIN failed # {}
        BY <1>6, <3>1
      <4>2. failed = <<>>
        BY <2>1, <3>1, <4>1
      <4> QED BY <4>1, <4>2
    <3> QED BY <1>1, <1>2, <1>3, <2>1, <2>2, <3>1, SlicesKept
  <2> QED BY <1>3, <1>5, <2>3, <2>4, <2>5 DEF BootInv, BootTypes
<1> QED BY <1>7, <1>8

-----------------------------------------------------------------------------
(* Discovery *)

(* Before anybody is asked, nothing is under way. *)
LEMMA Discovering ==
  ASSUME BootTypes, phase = "discover"
  PROVE  /\ mode = None /\ responded = {} /\ sources = <<>> /\ todo = <<>>
         /\ running = {} /\ results = {} /\ candidates = {} /\ paged = {} /\ from = None
BY DEF BootTypes, PhasesOK

(* The sample calls are planned. *)
LEMMA MeshBegins ==
  ASSUME BootInv, phase = "discover", online \cap addressed # {}, bootRecoveryViaMesh(online),
         listed' = online, UNCHANGED <<world, held, mine, online, attempt, responded, complete, fetch, mqtt>>
  PROVE  BootInv'
<1>1. BootTypes /\ SamplesOK /\ PagesOK /\ LedgersOK /\ PeersOK
  BY DEF BootInv, BootTypes
<1> DEFINE reached == online \cap addressed
<1>2. PICK q \in SetToSeqs(reached) :
        sources' = FirstOf(q, MaxMeshNeighbours) /\ Start("sample", SampleTasks(sources'))
  BY DEF bootRecoveryViaMesh
<1>3. reached \in SUBSET Neighbour /\ reached # {} /\ IsFiniteSet(reached)
  <2>1. reached \in SUBSET Neighbour
    BY <1>1 DEF PeersOK
  <2> QED BY <2>1, FS_Subset, BootAssumption
<1> HIDE DEF reached
<1>4. q \in Seq(reached) /\ Len(q) \in Nat \ {0}
  <2>1. q \in Seq(reached) /\ Len(q) \in Nat /\ Len(q) = Cardinality(reached)
    BY <1>3, Arranged
  <2>2. Cardinality(reached) # 0
    BY <1>3, FS_EmptySet
  <2> QED BY <2>1, <2>2
<1>5. sources' \in Seq(reached) /\ Len(sources') \in Nat \ {0}
  <2>1. MaxMeshNeighbours \in Nat \ {0}
    BY BootAssumption
  <2>2. /\ FirstOf(q, MaxMeshNeighbours) \in Seq(reached)
        /\ Len(FirstOf(q, MaxMeshNeighbours)) = IF Len(q) < MaxMeshNeighbours THEN Len(q) ELSE MaxMeshNeighbours
    BY <1>4, <2>1, FirstOfFacts
  <2>3. sources' \in Seq(reached)
    BY <1>2, <2>2
  <2>4. Len(sources') = IF Len(q) < MaxMeshNeighbours THEN Len(q) ELSE MaxMeshNeighbours
    BY <1>2, <2>2
  <2> QED BY <1>4, <2>1, <2>3, <2>4
<1>6. /\ phase' = "launch" /\ mode' = "sample" /\ todo' = SampleTasks(sources')
      /\ results' = {} /\ running' = {}
  BY <1>2 DEF Start
<1>7. LedgersOK' /\ Grows /\ MessagesOK'
  BY <1>1, Unmoved DEF LedgersOK, mqtt
<1>8. PeersOK'
  BY <1>1, <1>5 DEF reached, PeersOK, world
<1>9. SampleTasks(sources') \in Seq(Tasks')
  <2>1. DOMAIN sources' = 1 .. Len(sources')
    BY <1>5, LenProperties
  <2>2. CallsNeeded \in Nat
    BY BootAssumption
  <2>3. ASSUME NEW i \in 1 .. CallsNeeded
        PROVE  Task(sources'[((i - 1) % Len(sources')) + 1], i - 1) \in Tasks'
    <3>1. (i - 1) % Len(sources') \in 0 .. Len(sources') - 1
      BY <1>5, <2>2
    <3>2. ((i - 1) % Len(sources')) + 1 \in DOMAIN sources'
      BY <1>5, <2>1, <3>1
    <3>3. sources'[((i - 1) % Len(sources')) + 1] \in ToSet(sources')
      BY <3>2 DEF ToSet
    <3>4. i - 1 \in Nat
      BY <2>2
    <3> QED BY <3>3, <3>4 DEF Task, Tasks
  <2>4. SampleTasks(sources') \in [1 .. CallsNeeded -> Tasks']
    BY <2>3 DEF SampleTasks
  <2> QED BY <2>2, <2>4
<1>10. CallsOK'
  <2>1. responded' \subseteq ToSet(sources') /\ complete' \in BOOLEAN
    BY <1>1, Discovering DEF BootTypes, CallsOK
  <2> QED BY <1>1, <1>2, <1>9, <2>1, StartCalls
<1>11. /\ from' = None /\ candidates' = {} /\ paged' = {} /\ attempt' \in 0 .. 2 /\ responded' = {}
  BY <1>1, Discovering DEF BootTypes, PhasesOK, fetch
<1>12. FetchOK'
  BY <1>1, <1>11 DEF BootTypes, FetchOK, fetch, world
<1>13. sources' # <<>>
  BY <1>5, EmptySeq
<1>14. PhasesOK'
  BY <1>6, <1>11, <1>13 DEF PhasesOK, None
<1>15. SamplesOK'
  BY <1>6, <1>11 DEF SamplesOK, RespondersRemembered
<1>16. SlicesOK'
  BY <1>6 DEF SlicesOK
<1>17. PagesOK'
  BY <1>1, <1>7, PagesKept DEF fetch
<1> QED BY <1>7, <1>8, <1>10, <1>12, <1>14, <1>15, <1>16, <1>17 DEF BootInv, BootTypes

(* A step of discovery that asks nobody through the mesh. *)
LEMMA WithoutMesh ==
  ASSUME BootInv, phase = "discover", UNCHANGED <<world, held, mine, online, sources, calls, responses>>,
         UNCHANGED <<from, cursor, got, fetched, paged>>,
         phase' \in {"discover", "checkpoints", "done"}, attempt' \in 0 .. 2,
         listed' \in SUBSET Neighbour, candidates' \subseteq listed',
         phase' = "discover" => candidates' = {}, MessagesOK'
  PROVE  BootInv'
<1>1. BootTypes /\ SamplesOK /\ PagesOK /\ LedgersOK /\ PeersOK
  BY DEF BootInv, BootTypes
<1>2. /\ mode = None /\ responded = {} /\ sources = <<>> /\ todo = <<>>
      /\ running = {} /\ results = {} /\ candidates = {} /\ paged = {} /\ from = None
  BY <1>1, Discovering
<1>3. LedgersOK' /\ Grows
  BY <1>1, Unmoved DEF LedgersOK
<1>4. PeersOK'
  <2>1. sources' \in Seq(listed' \cap addressed')
    BY <1>2, EmptySeq
  <2> QED BY <1>1, <2>1 DEF PeersOK, world
<1>5. CallsOK'
  BY <1>1, Unmoved
<1>6. FetchOK'
  BY <1>1, <1>2 DEF BootTypes, FetchOK, world
<1>7. PhasesOK'
  BY <1>2 DEF PhasesOK, calls, None
<1>8. SamplesOK' /\ SlicesOK'
  BY <1>2 DEF SamplesOK, SlicesOK, calls, None
<1>9. PagesOK'
  BY <1>1, <1>3, PagesKept
<1> QED BY <1>3, <1>4, <1>5, <1>6, <1>7, <1>8, <1>9 DEF BootInv, BootTypes

(* A look for neighbours: another wait, the mesh, MQTT, or the end. *)
LEMMA LookForNeighboursKeeps == BootInv /\ LookForNeighbours => BootInv'
<1> SUFFICES ASSUME BootInv, LookForNeighbours PROVE BootInv'
  OBVIOUS
<1>1. /\ phase = "discover"
      /\ UNCHANGED <<world, held, mine, online, from, cursor, got, fetched, paged, responses, startTimeKnown>>
  BY DEF LookForNeighbours
<1>2. BootTypes /\ PeersOK /\ MessagesOK /\ candidates = {} /\ paged = {} /\ from = None
      /\ listed \in SUBSET Neighbour /\ online \in SUBSET Neighbour /\ attempt \in 0 .. 2
  BY <1>1, Discovering DEF BootInv, BootTypes, PhasesOK, PeersOK
<1>3. CASE LooksAgain(online)
  <2>1. attempt' = attempt + 1 /\ UNCHANGED <<phase, listed, sources, calls, candidates, requests>>
    BY <1>3 DEF LookForNeighbours
  <2>2. attempt' \in 0 .. 2
    BY <1>2, <1>3, <2>1 DEF LooksAgain
  <2>3. MessagesOK'
    BY <1>1, <1>2, <2>1, Unmoved
  <2> QED BY <1>1, <1>2, <2>1, <2>2, <2>3, WithoutMesh
<1>4. CASE ~LooksAgain(online)
  <2>1. /\ listed' = online /\ attempt' = attempt
        /\ CASE online = {} -> phase' = "done" /\ UNCHANGED <<sources, calls, candidates, requests>>
               [] online \cap addressed # {} ->
                    bootRecoveryViaMesh(online) /\ UNCHANGED <<responded, complete, candidates, requests>>
               [] OTHER ->
                    /\ bootRecoveryViaMQTT(online)
                    /\ candidates' = (IF mesh THEN online ELSE {})
                    /\ phase' = (IF mesh THEN "checkpoints" ELSE "done")
                    /\ UNCHANGED <<sources, calls>>
    BY <1>4 DEF LookForNeighbours
  <2>2. CASE online = {}
    <3>1. phase' = "done" /\ UNCHANGED <<sources, calls, candidates, requests>>
      BY <2>1, <2>2
    <3>2. MessagesOK'
      BY <1>1, <1>2, <3>1, Unmoved
    <3> QED BY <1>1, <1>2, <2>1, <3>1, <3>2, WithoutMesh
  <2>3. CASE online # {} /\ online \cap addressed # {}
    <3>1. bootRecoveryViaMesh(online) /\ UNCHANGED <<responded, complete, candidates, requests>>
      BY <2>1, <2>3
    <3> QED BY <1>1, <2>1, <2>3, <3>1, MeshBegins DEF fetch, mqtt
  <2>4. CASE online # {} /\ online \cap addressed = {}
    <3>1. /\ bootRecoveryViaMQTT(online)
          /\ candidates' = (IF mesh THEN online ELSE {})
          /\ phase' = (IF mesh THEN "checkpoints" ELSE "done")
          /\ UNCHANGED <<sources, calls>>
      BY <2>1, <2>4
    <3> DEFINE most == IF Cardinality(online) < MaxMQTTNeighbours THEN Cardinality(online) ELSE MaxMQTTNeighbours
               subjects == online \cup {Me}
    <3>2. PICK q \in SetToSeqs(online), part \in PartitionSubjects(subjects, most) :
            requests' = {r \in {[to |-> q[i], subjects |-> {s \in subjects : part[s] = i}] : i \in 1 .. most} :
                           r.subjects # {}}
      BY <3>1, Zenon DEF bootRecoveryViaMQTT
    <3>3. IsFiniteSet(online)
      BY <1>2, FS_Subset, BootAssumption
    <3>4. /\ Len(q) \in Nat /\ Len(q) = Cardinality(online) /\ \A i \in 1 .. Len(q) : q[i] \in online
      BY <3>3, Arranged
    <3>5. 1 .. most \subseteq 1 .. Len(q)
      BY <3>4, BootAssumption
    <3> HIDE DEF most, subjects
    <3>6. \A r \in requests' : r.to \in Neighbour
      BY <1>2, <3>2, <3>4, <3>5
    <3>7. MessagesOK'
      BY <1>1, <1>2, <3>6 DEF MessagesOK
    <3>8. phase' \in {"checkpoints", "done"} /\ candidates' \subseteq listed'
      BY <2>1, <3>1
    <3> QED BY <1>1, <1>2, <2>1, <3>1, <3>7, <3>8, WithoutMesh
  <2> QED BY <2>2, <2>3, <2>4
<1> QED BY <1>3, <1>4

(* The program stops during a wait. *)
LEMMA ShutdownKeeps == BootInv /\ Shutdown => BootInv'
<1> SUFFICES ASSUME BootInv, Shutdown PROVE BootInv'
  OBVIOUS
<1>1. /\ phase = "discover" /\ phase' = "done"
      /\ UNCHANGED <<world, held, mine, online, attempt, listed, sources, calls, fetch, mqtt>>
  BY DEF Shutdown
<1>2. /\ BootTypes /\ listed \in SUBSET Neighbour /\ attempt \in 0 .. 2 /\ candidates = {}
  BY <1>1, Discovering DEF BootInv, BootTypes, PhasesOK, PeersOK
<1>3. MessagesOK'
  BY <1>1, <1>2, Unmoved DEF mqtt
<1>4. UNCHANGED <<responses, from, cursor, got, fetched, paged, candidates>>
  BY <1>1 DEF fetch, mqtt
<1> QED BY <1>1, <1>2, <1>3, <1>4, WithoutMesh

-----------------------------------------------------------------------------
(* Checkpoints *)

(* The next candidate for checkpoints is taken, or enough were read. *)
LEMMA NextCandidateKeeps == BootInv /\ NextCandidate => BootInv'
<1> SUFFICES ASSUME BootInv, NextCandidate PROVE BootInv'
  OBVIOUS
<1>1. phase = "checkpoints" /\ from = None /\ UNCHANGED <<syncing, mine, fetched, paged>>
  BY DEF NextCandidate
<1>2. BootTypes /\ PagesOK /\ LedgersOK /\ PhasesOK /\ FetchOK
  BY DEF BootInv, BootTypes
<1>3. LedgersOK' /\ Grows /\ PeersOK' /\ CallsOK' /\ MessagesOK'
  BY <1>1, <1>2, Unmoved DEF LedgersOK, syncing, mqtt
<1>4. SamplesOK' /\ SlicesOK'
  BY <1>1, <1>3, CallsIdle DEF syncing
<1>5. CASE phase' = "done" /\ UNCHANGED <<candidates, from, cursor, got>>
  <2>1. FetchOK'
    BY <1>1, <1>2, <1>5 DEF FetchOK, syncing, world
  <2>2. PhasesOK'
    BY <1>1, <1>2, <1>5 DEF PhasesOK, syncing, calls
  <2>3. PagesOK'
    BY <1>1, <1>2, <1>3, <1>5, PagesKept
  <2> QED BY <1>3, <1>4, <2>1, <2>2, <2>3 DEF BootInv, BootTypes
<1>6. CASE ~(fetched >= TargetSuccessfulFetches) /\
           \E n \in candidates :
              /\ candidates' = candidates \ {n}
              /\ from' = (IF n \in addressed THEN n ELSE None)
              /\ cursor' = NoCursor /\ got' = {}
              /\ UNCHANGED phase
  <2>1. PICK n \in candidates :
          /\ candidates' = candidates \ {n}
          /\ from' = (IF n \in addressed THEN n ELSE None)
          /\ cursor' = NoCursor /\ got' = {}
          /\ UNCHANGED phase
    BY <1>6
  <2>2. FetchOK'
    <3>1. fetched < TargetSuccessfulFetches
      BY <1>2, <1>6, BootAssumption DEF FetchOK
    <3> QED BY <1>1, <1>2, <2>1, <3>1 DEF FetchOK, syncing, world, NoCursor
  <2>3. PhasesOK'
    BY <1>1, <1>2, <2>1 DEF PhasesOK, syncing, calls
  <2>4. PagesOK'
    <3>1. PagesComplete'
      BY <1>1, <1>2 DEF PagesOK, PagesComplete, syncing, world
    <3>2. from' # None => \A e \in Checkpoints(start[from']) : ~(e.ts <= cursor')
      <4> SUFFICES ASSUME from' # None, NEW e \in Checkpoints(start[from']) PROVE ~(e.ts <= cursor')
        OBVIOUS
      <4>1. from' \in Neighbour
        BY <1>1, <2>2 DEF FetchOK, syncing, world, PeersOK, BootInv, BootTypes
      <4>2. e \in Universe
        BY <1>2, <4>1 DEF LedgersOK, Checkpoints, Matching
      <4> QED BY <2>1, <4>2, BootAssumption DEF NoCursor
    <3> QED BY <1>3, <3>1, <3>2 DEF PagesOK, Grows
  <2> QED BY <1>3, <1>4, <2>2, <2>3, <2>4 DEF BootInv, BootTypes
<1> QED BY <1>5, <1>6 DEF NextCandidate

(* A candidate that is done with, whose pages were or were not read to the last. *)
LEMMA CandidateDoneKeeps ==
  ASSUME BootInv, phase = "checkpoints", from # None, UNCHANGED <<syncing, phase, candidates>>,
         NEW S \in SUBSET Universe, CandidateDone(S),
         \/ paged' = paged
         \/ paged' = paged \cup {from} /\
              (Distinct(Checkpoints(held[from])) => Checkpoints(start[from]) \subseteq S)
  PROVE  BootInv'
<1>1. /\ mine' = mine \cup FilterEventsForIngestion(S)
      /\ fetched' = (IF S = {} THEN fetched ELSE fetched + 1)
      /\ from' = None /\ cursor' = NoCursor /\ got' = {}
  BY DEF CandidateDone, MergeSyncEventsWithVerification
<1>2. BootTypes /\ PagesOK /\ LedgersOK /\ PhasesOK /\ FetchOK
  BY DEF BootInv, BootTypes
<1>3. LedgersOK' /\ Grows
  <2>1. mine \subseteq mine' /\ mine' \subseteq Universe
    BY <1>1, <1>2 DEF LedgersOK, FilterEventsForIngestion
  <2> QED BY <1>2, <2>1, Unmoved DEF syncing
<1>4. PeersOK' /\ CallsOK' /\ MessagesOK'
  BY <1>2, Unmoved DEF syncing, mqtt
<1>5. SamplesOK' /\ SlicesOK'
  BY <1>3, CallsIdle DEF syncing
<1>6. FetchOK'
  <2>1. fetched' \in 0 .. TargetSuccessfulFetches
    BY <1>1, <1>2, BootAssumption DEF FetchOK
  <2>2. paged' \subseteq addressed \ candidates
    BY <1>2 DEF FetchOK
  <2> QED BY <1>1, <1>2, <2>1, <2>2 DEF FetchOK, syncing, world, NoCursor
<1>7. PhasesOK'
  BY <1>1, <1>2 DEF PhasesOK, syncing, calls
<1>8. PagesOK'
  <2>1. ASSUME NEW n \in paged', Distinct(Checkpoints(held[n]))
        PROVE  FilterEventsForIngestion(Checkpoints(start[n])) \subseteq mine'
    <3>1. CASE n \in paged
      <4>1. FilterEventsForIngestion(Checkpoints(start[n])) \subseteq mine
        BY <1>2, <2>1, <3>1 DEF PagesOK, PagesComplete, Checkpoints
      <4> QED BY <1>1, <4>1
    <3>2. CASE n \notin paged
      <4>1. n = from /\ Checkpoints(start[n]) \subseteq S
        BY <2>1, <3>2
      <4> QED BY <1>1, <4>1 DEF FilterEventsForIngestion
    <3> QED BY <3>1, <3>2
  <2>2. PagesComplete'
    BY <2>1 DEF PagesComplete, Checkpoints, syncing, world
  <2> QED BY <1>1, <2>2 DEF PagesOK
<1> QED BY <1>3, <1>4, <1>5, <1>6, <1>7, <1>8 DEF BootInv, BootTypes

(* The checkpoints come from the old endpoint. *)
LEMMA FetchLegacyKeeps ==
  ASSUME BootInv, phase = "checkpoints", from # None, FetchLegacy,
         UNCHANGED <<syncing, phase, candidates, paged>>
  PROVE  BootInv'
<1>1. PICK T \in SUBSET Matching(held[from], {"checkpoint"}, {}) : CandidateDone(T)
  BY DEF FetchLegacy
<1>2. from \in Neighbour /\ LedgersOK
  BY DEF BootInv, BootTypes, FetchOK, PeersOK
<1>3. T \in SUBSET Universe
  BY <1>2 DEF LedgersOK, Matching
<1> QED BY <1>1, <1>3, CandidateDoneKeeps

(* A page could not be fetched. *)
LEMMA UnifiedAPIFailsKeeps == BootInv /\ UnifiedAPIFails => BootInv'
BY FetchLegacyKeeps DEF UnifiedAPIFails

(* A page of checkpoints arrives. *)
LEMMA FetchCheckpointsKeeps == BootInv /\ fetchCheckpointsViaUnifiedAPI => BootInv'
<1> SUFFICES ASSUME BootInv, fetchCheckpointsViaUnifiedAPI PROVE BootInv'
  OBVIOUS
<1>1. phase = "checkpoints" /\ from # None /\ UNCHANGED <<syncing, phase, candidates>>
  BY DEF fetchCheckpointsViaUnifiedAPI
<1>2. PICK a \in Answers(from, [mode |-> "page", cursor |-> cursor, size |-> PageSize]) :
        IF a.next # NoCursor
        THEN got' = got \cup a.events /\ cursor' = a.next /\ UNCHANGED <<from, mine, fetched, paged>>
        ELSE IF got \cup a.events # {}
        THEN CandidateDone(got \cup a.events) /\ paged' = paged \cup {from}
        ELSE FetchLegacy /\ UNCHANGED paged
  BY DEF fetchCheckpointsViaUnifiedAPI
<1>3. BootTypes /\ PagesOK /\ LedgersOK /\ PhasesOK /\ FetchOK
  BY DEF BootInv, BootTypes
<1>4. from \in Neighbour /\ cursor \in Nat /\ got \subseteq Universe
  BY <1>1, <1>3 DEF BootTypes, FetchOK, PeersOK
<1>5. /\ a.events \subseteq held[from] /\ a.next \in Nat
      /\ a.next = NoCursor => \A e \in Checkpoints(held[from]) : e.ts > cursor => e \in a.events
      /\ a.next # NoCursor /\ Distinct(Checkpoints(held[from]))
           => \A e \in Checkpoints(held[from]) : e.ts > cursor /\ e.ts <= a.next => e \in a.events
  BY <1>3, <1>4, PageAnswer
<1>6. /\ Checkpoints(start[from]) \subseteq Checkpoints(held[from])
      /\ \A e \in Checkpoints(start[from]) : e.ts \in Nat
      /\ held[from] \subseteq Universe
  BY <1>3, <1>4, HeldFacts DEF Checkpoints, Matching
<1>7. Distinct(Checkpoints(held[from])) => \A e \in Checkpoints(start[from]) : e.ts <= cursor => e \in got
  BY <1>1, <1>3 DEF PagesOK
<1>8. CASE a.next # NoCursor
  <2>1. got' = got \cup a.events /\ cursor' = a.next /\ UNCHANGED <<from, mine, fetched, paged>>
    BY <1>2, <1>8
  <2>2. LedgersOK' /\ Grows /\ PeersOK' /\ CallsOK' /\ MessagesOK'
    BY <1>1, <1>3, <2>1, Unmoved DEF LedgersOK, syncing, mqtt
  <2>3. SamplesOK' /\ SlicesOK'
    BY <1>1, <2>2, CallsIdle DEF syncing
  <2>4. FetchOK'
    BY <1>1, <1>3, <1>4, <1>5, <1>6, <2>1 DEF FetchOK, syncing, world
  <2>5. PhasesOK'
    BY <1>1, <1>3, <2>1 DEF PhasesOK, syncing, calls
  <2>6. PagesOK'
    <3>1. PagesComplete'
      BY <1>1, <1>3, <2>1 DEF PagesOK, PagesComplete, syncing, world
    <3>2. ASSUME Distinct(Checkpoints(held[from])), NEW e \in Checkpoints(start[from]), e.ts <= a.next
          PROVE  e \in got'
      <4>1. CASE e.ts <= cursor
        BY <1>7, <2>1, <3>2, <4>1
      <4>2. CASE ~(e.ts <= cursor)
        <5>1. e.ts > cursor
          BY <1>4, <1>6, <4>2
        <5> QED BY <1>5, <1>6, <1>8, <2>1, <3>2, <5>1
      <4> QED BY <4>1, <4>2
    <3> QED BY <1>1, <2>1, <3>1, <3>2 DEF PagesOK, syncing, world
  <2> QED BY <2>2, <2>3, <2>4, <2>5, <2>6 DEF BootInv, BootTypes
<1>9. CASE a.next = NoCursor /\ got \cup a.events # {}
  <2>1. CandidateDone(got \cup a.events) /\ paged' = paged \cup {from}
    BY <1>2, <1>9
  <2>2. got \cup a.events \in SUBSET Universe
    BY <1>4, <1>5, <1>6
  <2>3. ASSUME Distinct(Checkpoints(held[from])), NEW e \in Checkpoints(start[from])
        PROVE  e \in got \cup a.events
    <3>1. e.ts <= cursor \/ e.ts > cursor
      BY <1>4, <1>6
    <3> QED BY <1>5, <1>6, <1>7, <1>9, <2>3, <3>1
  <2> QED BY <1>1, <2>1, <2>2, <2>3, CandidateDoneKeeps
<1>10. CASE a.next = NoCursor /\ got \cup a.events = {}
  <2>1. FetchLegacy /\ UNCHANGED paged
    BY <1>2, <1>10
  <2> QED BY <1>1, <2>1, FetchLegacyKeeps
<1> QED BY <1>8, <1>9, <1>10

-----------------------------------------------------------------------------
(* Steps that only add to a ledger, or move a message *)

(* Steps outside bootRecovery that leave calls and fetches alone. *)
LEMMA Aside ==
  ASSUME BootInv, LedgersOK', Grows, MessagesOK', online' \in SUBSET Neighbour,
         UNCHANGED <<world, phase, attempt, listed, sources, calls, fetch>>
  PROVE  BootInv'
<1>1. BootTypes /\ PagesOK
  BY DEF BootInv
<1>2. CallsOK' /\ FetchOK'
  BY <1>1, Unmoved
<1>3. PeersOK' /\ PhasesOK'
  BY <1>1 DEF BootTypes, PeersOK, PhasesOK, world, calls, fetch
<1>4. SamplesOK' /\ SlicesOK'
  BY CallsIdle
<1>5. PagesOK'
  BY <1>1, PagesKept DEF fetch
<1> QED BY <1>2, <1>3, <1>4, <1>5 DEF BootInv, BootTypes

(* Such a step that may add to the ledger of the booting nara. *)
LEMMA Merges ==
  ASSUME BootInv, mine \subseteq mine', mine' \subseteq Universe, MessagesOK',
         UNCHANGED <<world, held, online, phase, attempt, listed, sources, calls, fetch>>
  PROVE  BootInv'
<1>1. BootTypes /\ online \in SUBSET Neighbour
  BY DEF BootInv, BootTypes, PeersOK
<1>2. LedgersOK' /\ Grows
  BY <1>1, Unmoved
<1> QED BY <1>1, <1>2, Aside

(* MQTT requests and responses are handled or lost. *)
LEMMA MessagesKeep ==
  BootInv /\ (MessageLost \/ (\E r \in requests : handleLedgerRequest(r))
                \/ (\E S \in responses : handleLedgerResponse(S))) => BootInv'
<1> SUFFICES ASSUME BootInv PROVE
      /\ MessageLost => BootInv'
      /\ \A r \in requests : handleLedgerRequest(r) => BootInv'
      /\ \A S \in responses : handleLedgerResponse(S) => BootInv'
  OBVIOUS
<1>1. MessagesOK /\ LedgersOK /\ mine \subseteq Universe
  BY DEF BootInv, BootTypes, LedgersOK
<1>2. ASSUME MessageLost PROVE BootInv'
  <2>1. MessagesOK'
    BY <1>1, <1>2 DEF MessageLost, MessagesOK
  <2>2. UNCHANGED <<world, held, mine, online, phase, attempt, listed, sources, calls, fetch>>
    BY <1>2 DEF MessageLost
  <2> QED BY <1>1, <2>1, <2>2, Merges
<1>3. ASSUME NEW r \in requests, handleLedgerRequest(r) PROVE BootInv'
  <2>1. /\ requests' = requests \ {r}
        /\ responses' = responses \cup {GetSocialEventsForSubjects(held[r.to], r.subjects)}
        /\ UNCHANGED <<world, held, mine, online, phase, attempt, listed, sources, calls, fetch>>
    BY <1>3 DEF handleLedgerRequest
  <2>2. GetSocialEventsForSubjects(held[r.to], r.subjects) \in SUBSET Universe
    BY <1>1 DEF MessagesOK, LedgersOK, GetSocialEventsForSubjects, Matching
  <2>3. MessagesOK'
    BY <1>1, <2>1, <2>2 DEF MessagesOK
  <2> QED BY <1>1, <2>1, <2>3, Merges
<1>4. ASSUME NEW S \in responses, handleLedgerResponse(S) PROVE BootInv'
  <2>1. /\ requests' = requests /\ responses' = responses \ {S}
        /\ mine' = mine \cup {e \in S : socialEventIsMeaningful(e, Personality)}
        /\ UNCHANGED <<world, held, online, phase, attempt, listed, sources, calls, fetch>>
    BY <1>4 DEF handleLedgerResponse
  <2>2. MessagesOK' /\ mine' \subseteq Universe
    BY <1>1, <2>1 DEF MessagesOK
  <2> QED BY <2>1, <2>2, Merges
<1> QED BY <1>2, <1>3, <1>4

(* Background syncs, the own start time, neighbours that appear. *)
LEMMA AfterwardsKeeps ==
  ASSUME BootInv, NEW n \in Neighbour,
         performBackgroundSync(n) \/ recoverSelfStartTimeFromMesh(n) \/ NeighbourAppears(n)
  PROVE  BootInv'
<1>1. /\ BootTypes /\ LedgersOK /\ mine \subseteq Universe
      /\ held[n] \subseteq Universe /\ online \in SUBSET Neighbour
  BY DEF BootInv, BootTypes, LedgersOK, PeersOK
<1>2. CASE performBackgroundSync(n)
  <2>1. PICK a \in Answers(n, [mode |-> "recent", size |-> RecentLimit]) :
          mine' = mine \cup
            {e \in a.events : \/ e.service = "ping"
                              \/ /\ e.service \in {"observation", "social"}
                                 /\ e.ts >= RecentSince
                                 /\ PassesFilter(e, Personality)}
    BY <1>2, Zenon DEF performBackgroundSync
  <2>2. UNCHANGED <<world, held, online, phase, attempt, listed, sources, calls, fetch, mqtt>>
    BY <1>2 DEF performBackgroundSync
  <2>3. a.events \subseteq held[n]
    BY <1>1, RecentAnswer
  <2>4. mine' \subseteq Universe /\ mine \subseteq mine'
    BY <1>1, <2>1, <2>3
  <2>5. MessagesOK'
    BY <1>1, <2>2, Unmoved DEF mqtt
  <2> QED BY <2>2, <2>4, <2>5, Merges
<1>3. CASE recoverSelfStartTimeFromMesh(n)
  <2>1. PICK a \in Answers(n, [mode |-> "slice", subjects |-> {Me}, index |-> 0, total |-> 1,
                               size |-> EventsPerSlice]) :
          mine' = mine \cup FilterEventsForIngestion({e \in a.events : e.service = "observation" /\ Me \in e.names})
    BY <1>3 DEF recoverSelfStartTimeFromMesh
  <2>2. UNCHANGED <<world, held, online, phase, attempt, listed, sources, calls, fetch, requests, responses>>
    BY <1>3 DEF recoverSelfStartTimeFromMesh
  <2>3. a.events \subseteq held[n]
    <3>1. 0 \in Nat /\ 1 \in Nat \ {0}
      OBVIOUS
    <3> QED BY <1>1, <3>1, SliceAnswer, Zenon
  <2>4. mine' \subseteq Universe /\ mine \subseteq mine'
    BY <1>1, <2>1, <2>3 DEF FilterEventsForIngestion
  <2>5. MessagesOK'
    BY <1>1, <2>2, Unmoved
  <2> QED BY <2>2, <2>4, <2>5, Merges
<1>4. CASE NeighbourAppears(n)
  <2>1. /\ online' = online \cup {n}
        /\ UNCHANGED <<world, held, mine, phase, attempt, listed, sources, calls, fetch, mqtt>>
    BY <1>4 DEF NeighbourAppears
  <2>2. LedgersOK' /\ Grows /\ MessagesOK'
    BY <1>1, <2>1, Unmoved DEF mqtt
  <2> QED BY <1>1, <2>1, <2>2, Aside
<1> QED BY <1>2, <1>3, <1>4

(* A neighbour learns an event. *)
LEMMA NeighbourLearnsKeeps ==
  ASSUME BootInv, NEW n \in Neighbour, NEW e \in Universe, NeighbourLearns(n, e)
  PROVE  BootInv'
<1>1. /\ held' = [held EXCEPT ![n] = @ \cup {e}]
      /\ UNCHANGED <<world, mine, online, phase, attempt, listed, sources, calls, fetch, mqtt>>
  BY DEF NeighbourLearns
<1>2. BootTypes /\ LedgersOK /\ online \in SUBSET Neighbour
  BY DEF BootInv, BootTypes, PeersOK
<1>3. IsFiniteSet(held[n] \cup {e})
  BY <1>2, FS_AddElement DEF LedgersOK
<1>4. LedgersOK' /\ Grows
  BY <1>1, <1>2, <1>3 DEF LedgersOK, Grows, world
<1>5. MessagesOK'
  BY <1>1, <1>2, Unmoved DEF mqtt
<1> QED BY <1>1, <1>2, <1>4, <1>5, Aside

-----------------------------------------------------------------------------
(* The theorems *)

(* At the start. *)
LEMMA BootInvInit == Init => BootInv
<1> SUFFICES ASSUME Init PROVE BootInv
  OBVIOUS
<1>1. /\ mesh \in BOOLEAN /\ addressed \in SUBSET Neighbour
      /\ start \in [Neighbour -> Ledgers] /\ held = start /\ mine = {} /\ online = {}
      /\ phase = "discover" /\ attempt = 0 /\ listed = {} /\ sources = <<>>
      /\ mode = None /\ todo = <<>> /\ running = {} /\ results = {}
      /\ failed = <<>> /\ responded = {} /\ complete = TRUE
      /\ candidates = {} /\ from = None /\ cursor = NoCursor /\ got = {} /\ fetched = 0
      /\ paged = {} /\ requests = {} /\ responses = {}
  BY DEF Init
<1>2. LedgersOK
  <2>1. \A n \in Neighbour : start[n] \subseteq Universe /\ IsFiniteSet(start[n])
    BY <1>1, BootAssumption
  <2>2. start \in [Neighbour -> SUBSET Universe]
    BY <1>1, <2>1
  <2> QED BY <1>1, <2>1, <2>2 DEF LedgersOK
<1>3. PeersOK
  BY <1>1, EmptySeq DEF PeersOK
<1>4. CallsOK
  BY <1>1, EmptySeq, FS_EmptySet, BootAssumption DEF CallsOK
<1>5. FetchOK /\ MessagesOK
  BY <1>1, BootAssumption DEF FetchOK, MessagesOK, NoCursor
<1>6. PhasesOK
  BY <1>1 DEF PhasesOK
<1>7. SamplesOK /\ PagesOK /\ SlicesOK
  BY <1>1 DEF SamplesOK, PagesOK, PagesComplete, SlicesOK, None
<1> QED BY <1>2, <1>3, <1>4, <1>5, <1>6, <1>7 DEF BootInv, BootTypes

(* Every step. *)
LEMMA BootInvNext == BootInv /\ [Next]_vars => BootInv'
<1> SUFFICES ASSUME BootInv, [Next]_vars PROVE BootInv'
  OBVIOUS
<1>1. CASE bootRecovery
  BY <1>1, LookForNeighboursKeeps, LaunchKeeps, SampleEndsKeeps, SlicesEndKeeps, ProcessResultKeeps,
     NextCandidateKeeps, FetchCheckpointsKeeps, UnifiedAPIFailsKeeps DEF bootRecovery
<1>2. CASE \E t \in running : FetchReturns(t)
  BY <1>2, FetchReturnsKeeps
<1>3. CASE Shutdown
  BY <1>3, ShutdownKeeps
<1>4. CASE MessageLost \/ (\E r \in requests : handleLedgerRequest(r))
             \/ \E S \in responses : handleLedgerResponse(S)
  BY <1>4, MessagesKeep
<1>5. CASE \E n \in Neighbour : performBackgroundSync(n) \/ recoverSelfStartTimeFromMesh(n) \/ NeighbourAppears(n)
  BY <1>5, AfterwardsKeeps
<1>6. CASE \E n \in Neighbour, e \in Universe : NeighbourLearns(n, e)
  BY <1>6, NeighbourLearnsKeeps
<1>7. CASE UNCHANGED vars
  <2>1. UNCHANGED <<world, held, mine, online, phase, attempt, listed, sources, calls, fetch, mqtt>>
    BY <1>7 DEF vars
  <2>2. BootTypes /\ mine \subseteq Universe
    BY DEF BootInv, BootTypes, LedgersOK
  <2>3. MessagesOK'
    BY <2>1, <2>2, Unmoved DEF mqtt
  <2> QED BY <2>1, <2>2, <2>3, Merges
<1> QED BY <1>1, <1>2, <1>3, <1>4, <1>5, <1>6, <1>7 DEF Next

(* The recovery keeps its ledgers, calls, pages and phases in step, and what *)
(* a sample, the pages and the slices have brought so far is what it should. *)
THEOREM BootInvariant == Spec => []BootInv
<1>1. Init => BootInv
  BY BootInvInit
<1>2. BootInv /\ [Next]_vars => BootInv'
  BY BootInvNext
<1> QED BY <1>1, <1>2, PTL DEF Spec

(* The waits for neighbours are bounded, the lists of neighbours agree with  *)
(* one another, no more calls run than the semaphore lets through, and no    *)
(* more neighbours are read than are wanted, whatever their number.          *)
THEOREM RecoveryTypeCorrect == Spec => []TypeOK
<1>1. BootInv => TypeOK
  <2> SUFFICES ASSUME BootInv PROVE TypeOK
    OBVIOUS
  <2>1. BootTypes
    BY DEF BootInv
  <2>2. ToSet(sources) \subseteq listed \cap addressed
    BY <2>1, LenProperties, ElementOfSeq DEF BootTypes, PeersOK, ToSet
  <2>3. fetched <= TargetSuccessfulFetches
    BY <2>1, BootAssumption DEF BootTypes, FetchOK
  <2> QED BY <2>1, <2>2, <2>3 DEF TypeOK, BootTypes, LedgersOK, PeersOK, CallsOK, FetchOK, PhasesOK
<1> QED BY <1>1, BootInvariant, PTL

(* A neighbour whose sample was merged is remembered: no critical event it   *)
(* held at the start is left out, when they fit the sample, however many of  *)
(* the parallel calls failed and whatever it learned meanwhile.              *)
THEOREM SamplesRememberResponders == Spec => []RespondersRemembered
<1>1. BootInv => RespondersRemembered
  BY DEF BootInv, SamplesOK, RespondersRemembered
<1> QED BY <1>1, BootInvariant, PTL

(* Pages of any size over a growing ledger miss no checkpoint that was there *)
(* at the start, when no two of its checkpoints share a timestamp.           *)
THEOREM PagesMissNothing == Spec => []PagesComplete
<1>1. BootInv => PagesComplete
  BY DEF BootInv, PagesOK
<1> QED BY <1>1, BootInvariant, PTL

(* Slices of one memory, asked of any number of neighbours and again of      *)
(* others when they failed, make up the whole.                               *)
THEOREM SlicesMakeTheWhole == Spec => []SlicesComplete
<1>1. BootInv => SlicesComplete
  <2> SUFFICES ASSUME BootInv, mode \in {"slice", "retry"}, phase \in {"checkpoints", "done"}, complete,
                      Same, NEW n \in ToSet(sources), NEW e \in Asked(n), e.reason # "before-cutoff"
               PROVE  e \in mine
    BY DEF SlicesComplete, Same, Asked, FilterEventsForIngestion
  <2>1. BootTypes /\ SlicesOK /\ LedgersOK
    BY DEF BootInv, BootTypes
  <2>2. todo = <<>> /\ running = {} /\ results = {} /\ sources # <<>>
    BY <2>1 DEF BootTypes, PhasesOK, None
  <2>3. \A k : ~UnderWay(k)
    BY <2>2 DEF UnderWay
  <2>4. sources \in Seq(Neighbour)
    BY <2>1, SeqMonotonic DEF BootTypes, PeersOK
  <2>5. Len(sources) \in Nat \ {0} /\ n \in Neighbour
    BY <2>2, <2>4, EmptySeq, LenProperties, ElementOfSeq DEF ToSet
  <2> DEFINE k == (Rank(Asked(n), e.ts) - 1) % Len(sources)
  <2>6. Rank(Asked(n), e.ts) \in Int
    <3> DEFINE times == {x.ts : x \in Asked(n)}
               upTo == {u \in times : u <= e.ts}
    <3>1. times \in SUBSET {x.ts : x \in held[n]} /\ upTo \in SUBSET Nat /\ \A u \in upTo : u <= e.ts
      BY <2>1, <2>5, HeldFacts DEF Asked, Matching
    <3>2. e.ts \in Nat
      BY <2>1, <2>5, HeldFacts DEF Asked, Matching
    <3> HIDE DEF upTo
    <3>3. Cardinality(upTo) \in Nat
      BY <3>1, <3>2, FS_BoundedSetOfNaturals, FS_CardinalityType
    <3> QED BY <3>3 DEF upTo, Rank
  <2>7. k \in 0 .. Len(sources) - 1
    BY <2>5, <2>6
  <2>8. e \in Belongs(k, n)
    BY DEF Belongs
  <2> HIDE DEF k
  <2>9. FilterEventsForIngestion(Belongs(k, n)) \subseteq mine
    BY <2>1, <2>3, <2>7 DEF SlicesOK, Covered
  <2> QED BY <2>8, <2>9 DEF FilterEventsForIngestion
<1> QED BY <1>1, BootInvariant, PTL
=============================================================================
