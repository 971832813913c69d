----------------------- MODULE LedgerProjectionProofs -----------------------
(***************************************************************************)
(* Proofs about LedgerProjection for every set of naras and events and     *)
(* every value of the limits: a projection that has caught up with a log   *)
(* that was not reordered behind its back agrees with it, however the      *)
(* ledger moved between its reads.                                         *)
(***************************************************************************)
EXTENDS LedgerProjection, SyncLedgerProofs

-----------------------------------------------------------------------------
(* The inductive invariant *)

\* What the version the projection works with says of the log: it is current.
Reading == \/ pc = "idle" /\ lastVersion = version
           \/ pc = "handling" /\ batchVersion = version

\* What a status says after the events S, in whatever order they were handled.
Says(S, n, status) ==
  \/ /\ \A e \in S : n \notin Affected(e)
     /\ status = Unknown
  \/ \E e \in S : /\ n \in Affected(e)
                  /\ \A f \in S : n \in Affected(f) => f.ts <= e.ts
                  /\ status = [status |-> ImpliedStatus(e), ts |-> e.ts]

\* The read model tl, st is that of the events S, each handled once.
Reflects(S, tl, st) ==
  /\ \A i \in Id : tl[i] = IF \E e \in S : e.id = i THEN 1 ELSE 0
  /\ \A n \in Nara : Says(S, n, st[n])

Front(s, n) == {s[j] : j \in 1 .. n}
Goal == position + Len(batch)

\* What is fetched and not handled yet is the rest of the front of the log.
Progress ==
  /\ Elements(batch) \subseteq Front(events, Goal)
  /\ Distinct(batch)
  /\ Reflects(Front(events, Goal) \ Elements(batch), tally, states)

StatesType == [Nara -> [status : OnlineState \cup {""}, ts : Nat]]
TallyType == [Id -> Nat]

ProjTypeOK ==
  /\ pc \in {"idle", "refetch", "handling"}
  /\ position \in Nat
  /\ lastVersion \in -1 .. version
  /\ batch \in Seq(Universe)
  /\ batchVersion \in 0 .. version
  /\ states \in StatesType
  /\ tally \in TallyType
  /\ disturbed \in BOOLEAN

Blank == position = 0 /\ states = NoStates /\ tally = NoTally

ProjInv ==
  /\ LedgerInv
  /\ ProjTypeOK
  /\ pc = "idle" => batch = <<>>
  /\ (pc = "idle" /\ lastVersion = -1) \/ pc = "refetch" => Blank
  /\ Reading => Goal <= Len(events)
  /\ Reading /\ ~disturbed => Progress

-----------------------------------------------------------------------------
(* What the version tells *)

(* A prune that leaves the version alone has removed nothing. *)
LEMMA PruneTells ==
  ASSUME NEW STATE s, NEW STATE ids, NEW STATE v, Consistent(s, ids), v \in Int,
         PruneTo(s, ids, v)
  PROVE  version' \in {v, v + 1} /\ (version' = v => Len(events') = Len(s))
<1>1. CASE Len(s) <= MaxEvents
  BY <1>1 DEF PruneTo
<1>2. CASE ~(Len(s) <= MaxEvents)
  <2>1. PICK p \in PruneOrders(s) :
          \/ events' = Reordered(s, p) /\ version' = v
          \/ version' = v + 1
    BY <1>2, Zenon DEF PruneTo
  <2>2. p \in Arrangements(DOMAIN s)
    BY Zenon DEF PruneOrders
  <2>3. Len(Reordered(s, p)) = Len(s)
    BY <2>2, ReorderedSelects DEF Consistent
  <2> QED BY <2>1, <2>3
<1> QED BY <1>1, <1>2

(* Where nothing is left out, nothing gets shorter. *)
LEMMA WithoutNone ==
  ASSUME NEW S, NEW s \in Seq(S)
  PROVE  Without(s, {}) \in Seq(S) /\ Len(Without(s, {})) = Len(s)
<1>1. DOMAIN s = 1 .. Len(s) /\ Len(s) \in Nat
  BY LenProperties
<1>2. Cardinality(1 .. Len(s)) = Len(s)
  BY <1>1, FS_Interval
<1>3. Without(s, {}) \in Seq(S)
  BY WithoutSelects
<1>4. DOMAIN Without(s, {}) = 1 .. Cardinality(DOMAIN s \ {})
  BY DEF Without
<1>5. DOMAIN s \ {} = 1 .. Len(s)
  BY <1>1
<1>6. DOMAIN Without(s, {}) = 1 .. Len(s)
  BY <1>2, <1>4, <1>5
<1> QED BY <1>1, <1>3, <1>6, LenProperties

(* The ledger's version only grows, and as long as it stays the log does not *)
(* get shorter: whatever takes an event away moves it.                       *)
LEMMA VersionTells ==
  ASSUME LedgerInv, [LedgerNext]_ledgerVars
  PROVE  version' >= version /\ (version' = version => Len(events') >= Len(events))
<1>1. /\ events \in Seq(Universe) /\ Distinct(events) /\ Len(events) \in Nat
      /\ version \in Int
  BY LenProperties DEF LedgerInv, Consistent
<1>2. CASE UNCHANGED ledgerVars
  BY <1>1, <1>2 DEF ledgerVars
<1>3. ASSUME NEW e \in Universe, NEW d \in BOOLEAN, addObservationWithCompaction(e, d)
      PROVE  version' >= version /\ (version' = version => Len(events') >= Len(events))
  <2> DEFINE evicted == EvictedForPair(events, e)
             kept    == Without(events, evicted)
  <2>1. /\ events' = Append(kept, e) \/ events' = kept
        /\ version' = IF evicted = {} THEN version ELSE version + 1
    BY <1>3 DEF addObservationWithCompaction
  <2>2. CASE evicted = {}
    <3>1. kept \in Seq(Universe) /\ Len(kept) = Len(events)
      BY <1>1, <2>2, WithoutNone
    <3> HIDE DEF kept, evicted
    <3>2. Len(Append(kept, e)) = Len(kept) + 1
      BY <3>1, AppendProperties
    <3> QED BY <1>1, <2>1, <2>2, <3>1, <3>2
  <2>3. CASE evicted # {}
    BY <1>1, <2>1, <2>3
  <2> QED BY <2>2, <2>3
<1>4. ASSUME NEW e \in Universe, AddNonObservation(e)
      PROVE  version' >= version /\ (version' = version => Len(events') >= Len(events))
  <2> DEFINE evicted == EvictedForPing(events, e)
             kept    == Without(events, evicted)
             keptIDs == eventIDs \ {events[i].id : i \in evicted}
             v       == IF evicted = {} THEN version ELSE version + 1
  <2>1. e.id \notin eventIDs /\ PruneTo(Append(kept, e), keptIDs \cup {e.id}, v)
    BY <1>4, Zenon DEF AddNonObservation
  <2>2. evicted \in SUBSET DOMAIN events
    BY EvictedInLog
  <2>3. Consistent(kept, keptIDs)
    <3> HIDE DEF evicted
    <3> QED BY <2>2, WithoutConsistent DEF LedgerInv
  <2>4. e.id \notin keptIDs
    BY <2>1
  <2>5. v \in Int /\ v >= version /\ (v = version => evicted = {})
    BY <1>1
  <2>6. evicted = {} => Len(kept) = Len(events)
    <3> SUFFICES ASSUME evicted = {} PROVE Len(kept) = Len(events)
      OBVIOUS
    <3> QED BY <1>1, WithoutNone
  <2> HIDE DEF evicted, kept, keptIDs, v
  <2>7. Consistent(Append(kept, e), keptIDs \cup {e.id})
    BY <2>3, <2>4, AppendConsistent
  <2>8. version' \in {v, v + 1} /\ (version' = v => Len(events') = Len(Append(kept, e)))
    BY <2>1, <2>5, <2>7, PruneTells
  <2>9. Len(Append(kept, e)) = Len(kept) + 1
    BY <2>3, AppendProperties DEF Consistent
  <2> QED BY <1>1, <2>5, <2>6, <2>8, <2>9
<1>5. ASSUME NEW e \in Universe, AddEvent(e)
      PROVE  version' >= version /\ (version' = version => Len(events') >= Len(events))
  <2>1. addObservationWithCompaction(e, FALSE) \/ AddNonObservation(e)
    BY <1>5, Zenon DEF AddEvent
  <2> QED BY <1>3, <1>4, <2>1
<1>6. ASSUME NEW e \in Universe, AddEventWithDedup(e)
      PROVE  version' >= version /\ (version' = version => Len(events') >= Len(events))
  <2>1. addObservationWithCompaction(e, TRUE)
    BY <1>6, Zenon DEF AddEventWithDedup
  <2> QED BY <1>3, <2>1
<1>7. CASE \E n \in Nara : RemoveEventsFor(n)
  <2>1. version' = version + 1
    BY <1>7 DEF RemoveEventsFor
  <2> QED BY <1>1, <2>1
<1>8. CASE Prune
  <2>1. PruneTo(events, eventIDs, version)
    BY <1>8, Zenon DEF Prune
  <2>2. version' \in {version, version + 1}
        /\ (version' = version => Len(events') = Len(events))
    BY <1>1, <2>1, PruneTells DEF LedgerInv
  <2> QED BY <1>1, <2>2
<1>9. CASE \E n \in Nara : KeyLearned(n) \/ KeyForgotten(n)
  BY <1>1, <1>9 DEF KeyLearned, KeyForgotten
<1> QED BY <1>2, <1>5, <1>6, <1>7, <1>8, <1>9, Zenon DEF LedgerNext

-----------------------------------------------------------------------------
(* The read models *)

(* Before anything is handled they say nothing. *)
LEMMA ReflectsNone == Reflects({}, NoTally, NoStates)
<1>1. \A i \in Id : NoTally[i] = 0
  BY DEF NoTally
<1>2. \A n \in Nara : NoStates[n] = Unknown
  BY DEF NoStates
<1> QED BY <1>1, <1>2 DEF Reflects, Says

\* What handleEvent makes of them.
TallyAfter(h, tl) == [tl EXCEPT ![h.id] = @ + 1]
StatesAfter(h, st) ==
  [n \in Nara |-> IF n \in Affected(h) /\ Supersedes(h, st[n])
                  THEN [status |-> ImpliedStatus(h), ts |-> h.ts] ELSE st[n]]

(* The newest event wins when one more is handled: a strictly newer one      *)
(* replaces what is known, any other leaves it.                              *)
LEMMA SaysOneMore ==
  ASSUME NEW S \in SUBSET Universe, NEW h \in Universe, NEW n, NEW status, Says(S, n, status)
  PROVE  Says(S \cup {h}, n,
              IF n \in Affected(h) /\ Supersedes(h, status)
              THEN [status |-> ImpliedStatus(h), ts |-> h.ts] ELSE status)
<1>1. \A e \in Universe : e.ts \in Nat \ {0}
  BY LedgerAssumption DEF Event
<1> DEFINE new == [status |-> ImpliedStatus(h), ts |-> h.ts]
<1>2. CASE n \notin Affected(h)
  BY <1>2 DEF Says
<1>3. CASE n \in Affected(h) /\ \A e \in S : n \notin Affected(e)
  <2>1. status = Unknown \/ \E e \in S : n \in Affected(e)
    BY Zenon DEF Says
  <2>2. status = Unknown
    BY <1>3, <2>1
  <2> HIDE DEF new
  <2>6. status.ts = 0
    BY <2>2 DEF Unknown
  <2>3. Supersedes(h, status)
    BY <1>1, <2>6 DEF Supersedes
  <2>4. \A f \in S \cup {h} : n \in Affected(f) => f.ts <= h.ts
    BY <1>1, <1>3
  <2>5. Says(S \cup {h}, n, new)
    BY <1>3, <2>4, Zenon DEF Says, new
  <2> QED BY <1>3, <2>3, <2>5 DEF new
<1>4. CASE n \in Affected(h) /\ \E e \in S : n \in Affected(e)
  <2>1. PICK e \in S : /\ n \in Affected(e)
                       /\ \A f \in S : n \in Affected(f) => f.ts <= e.ts
                       /\ status = [status |-> ImpliedStatus(e), ts |-> e.ts]
    BY <1>4, Zenon DEF Says
  <2>2. status.ts = e.ts
    BY <2>1
  <2>3. e.ts \in Nat /\ h.ts \in Nat /\ \A f \in S : f.ts \in Nat
    BY <1>1
  <2>4. CASE h.ts > e.ts
    <3>1. \A f \in S \cup {h} : n \in Affected(f) => f.ts <= h.ts
      BY <2>1, <2>3, <2>4
    <3>2. Says(S \cup {h}, n, new)
      BY <1>4, <3>1, Zenon DEF Says
    <3>3. Supersedes(h, status)
      BY <2>2, <2>4 DEF Supersedes
    <3> HIDE DEF new
    <3> QED BY <1>4, <3>2, <3>3 DEF new
  <2>5. CASE ~(h.ts > e.ts)
    <3>1. \A f \in S \cup {h} : n \in Affected(f) => f.ts <= e.ts
      BY <2>1, <2>3, <2>5
    <3>2. Says(S \cup {h}, n, status)
      BY <2>1, <3>1, Zenon DEF Says
    <3>3. ~Supersedes(h, status)
      BY <2>2, <2>5 DEF Supersedes
    <3> QED BY <3>2, <3>3
  <2> QED BY <2>4, <2>5
<1> QED BY <1>2, <1>3, <1>4

(* Handling an event not handled yet adds it to the events reflected. *)
LEMMA ReflectsOneMore ==
  ASSUME NEW S \in SUBSET Universe, NEW h \in Universe, \A e \in S : e.id # h.id,
         NEW tl \in TallyType, NEW st, Reflects(S, tl, st)
  PROVE  Reflects(S \cup {h}, TallyAfter(h, tl), StatesAfter(h, st))
<1>1. h.id \in Id
  BY LedgerAssumption DEF Event
<1>2. ASSUME NEW i \in Id
      PROVE  TallyAfter(h, tl)[i] = IF \E e \in S \cup {h} : e.id = i THEN 1 ELSE 0
  <2>1. tl[i] = IF \E e \in S : e.id = i THEN 1 ELSE 0
    BY DEF Reflects
  <2>2. CASE i = h.id
    <3>1. tl[i] = 0
      BY <2>1, <2>2
    <3>2. TallyAfter(h, tl)[i] = 1
      BY <1>1, <2>2, <3>1 DEF TallyAfter, TallyType
    <3> QED BY <2>2, <3>2
  <2>3. CASE i # h.id
    <3>1. TallyAfter(h, tl)[i] = tl[i]
      BY <2>3 DEF TallyAfter, TallyType
    <3>2. (\E e \in S \cup {h} : e.id = i) <=> (\E e \in S : e.id = i)
      BY <2>3
    <3> QED BY <2>1, <3>1, <3>2
  <2> QED BY <2>2, <2>3
<1>3. ASSUME NEW n \in Nara PROVE Says(S \cup {h}, n, StatesAfter(h, st)[n])
  <2>1. Says(S, n, st[n])
    BY DEF Reflects
  <2>2. StatesAfter(h, st)[n] = IF n \in Affected(h) /\ Supersedes(h, st[n])
                                THEN [status |-> ImpliedStatus(h), ts |-> h.ts] ELSE st[n]
    BY DEF StatesAfter
  <2> QED BY <2>1, <2>2, SaysOneMore
<1> QED BY <1>2, <1>3 DEF Reflects

(* They stay of their types. *)
LEMMA TallyTypeKept ==
  ASSUME NEW h \in Universe, NEW tl \in TallyType
  PROVE  TallyAfter(h, tl) \in TallyType
<1>1. h.id \in Id
  BY LedgerAssumption DEF Event
<1> QED BY <1>1 DEF TallyAfter, TallyType

(* The read model keeps its types with every event handled. *)
LEMMA ReadModelTypes ==
  ASSUME NEW h \in Universe, NEW tl \in TallyType,
         NEW st \in StatesType
  PROVE  /\ TallyAfter(h, tl) \in TallyType
         /\ StatesAfter(h, st) \in StatesType
<1>1. h.id \in Id /\ h.ts \in Nat /\ h.state \in OnlineState
  BY LedgerAssumption DEF Event
<1>2. TallyAfter(h, tl) \in TallyType
  BY TallyTypeKept
<1>3. ImpliedStatus(h) \in OnlineState
  BY <1>1 DEF ImpliedStatus, OnlineState
<1>4. [status |-> ImpliedStatus(h), ts |-> h.ts] \in [status : OnlineState \cup {""}, ts : Nat]
  BY <1>1, <1>3
<1> QED BY <1>2, <1>4 DEF StatesAfter, StatesType

-----------------------------------------------------------------------------
(* The front of the log *)

(* Of a log whose ids are distinct, two events of one id are one. *)
LEMMA FrontDistinct ==
  ASSUME NEW s \in Seq(Universe), Distinct(s), NEW n \in Nat, n <= Len(s)
  PROVE  /\ Front(s, n) \in SUBSET Universe
         /\ \A e, f \in Front(s, n) : e.id = f.id => e = f
<1>1. Len(s) \in Nat /\ DOMAIN s = 1 .. Len(s) /\ \A i \in DOMAIN s : s[i] \in Universe
  BY LenProperties, ElementOfSeq
<1>2. \A j \in 1 .. n : j \in DOMAIN s
  BY <1>1
<1> QED BY <1>1, <1>2 DEF Front, Distinct

(* The whole log is its own front, and what SubSeq leaves out is the front   *)
(* before it.                                                                *)
LEMMA FrontRest ==
  ASSUME NEW s \in Seq(Universe), Distinct(s), NEW n \in 0 .. Len(s)
  PROVE  LET t == SubSeq(s, n + 1, Len(s))
         IN  /\ t \in Seq(Universe) /\ Distinct(t) /\ n + Len(t) = Len(s)
             /\ Elements(t) \subseteq Front(s, Len(s))
             /\ Front(s, Len(s)) \ Elements(t) = Front(s, n)
             /\ Front(s, Len(s)) = Elements(s)
<1> DEFINE t == SubSeq(s, n + 1, Len(s))
           l == Len(s)
           K == (n + 1) .. l
<1>1. DOMAIN s = 1 .. l /\ l \in Nat /\ n \in Nat /\ n <= l
      /\ \A i \in DOMAIN s : s[i] \in Universe
  BY LenProperties, ElementOfSeq
<1>2. t \in Seq(Universe) /\ Selection(t, s, K)
  BY DropSelects
<1>3. K \in SUBSET DOMAIN s
  BY <1>1
<1>4. n + Len(t) = l
  <2>1. n + 1 \in Int /\ l \in Int /\ \A i \in (n + 1) .. l : s[i] \in Universe
    BY <1>1
  <2>2. Len(t) = IF n + 1 <= l THEN l - (n + 1) + 1 ELSE 0
    BY <2>1, SubSeqProperties
  <2> HIDE DEF t, l
  <2> QED BY <1>1, <2>2
<1> HIDE DEF t, l, K
<1>5. Distinct(t)
  BY <1>2, <1>3, SelectionIds
<1>6. Elements(t) = {s[i] : i \in K}
  BY <1>2, SelectionElements
<1>7. \A i, j \in DOMAIN s : s[i] = s[j] => i = j
  BY DEF Distinct
<1>8. \A i \in DOMAIN s : i \in K <=> i \notin 1 .. n
  BY <1>1 DEF K
<1>9. 1 .. n \subseteq DOMAIN s
  BY <1>1
<1>10. Front(s, l) \ Elements(t) = Front(s, n)
  BY <1>1, <1>3, <1>6, <1>7, <1>8, <1>9 DEF Front
<1>11. Front(s, l) = Elements(s) /\ Elements(t) \subseteq Front(s, l)
  BY <1>1, <1>3, <1>6 DEF Front, Elements
<1> QED BY <1>2, <1>4, <1>5, <1>10, <1>11 DEF t, l

(* The head of a batch leaves it. *)
LEMMA HeadLeaves ==
  ASSUME NEW s \in Seq(Universe), Distinct(s), s # <<>>
  PROVE  /\ Head(s) \in Elements(s) /\ Head(s) \in Universe
         /\ Tail(s) \in Seq(Universe) /\ Distinct(Tail(s))
         /\ Len(Tail(s)) = Len(s) - 1 /\ Len(s) \in Nat
         /\ Elements(Tail(s)) = Elements(s) \ {Head(s)}
<1>1. Len(s) \in Nat \ {0} /\ DOMAIN s = 1 .. Len(s)
  BY EmptySeq, LenProperties
<1>2. 1 \in 0 .. Len(s)
  BY <1>1
<1>3. Tail(s) = SubSeq(s, 1 + 1, Len(s))
  BY TailIsSubSeq
<1>4. /\ Tail(s) \in Seq(Universe) /\ Distinct(Tail(s))
      /\ Elements(Tail(s)) = Elements(s) \ Front(s, 1)
  <2>1. /\ Tail(s) \in Seq(Universe) /\ Distinct(Tail(s))
        /\ Elements(Tail(s)) \subseteq Front(s, Len(s))
        /\ Front(s, Len(s)) \ Elements(Tail(s)) = Front(s, 1)
        /\ Front(s, Len(s)) = Elements(s)
    BY <1>2, <1>3, FrontRest
  <2> QED BY <2>1
<1>5. Head(s) = s[1] /\ 1 \in DOMAIN s
  BY <1>1
<1>6. Front(s, 1) = {s[1]}
  BY DEF Front
<1>7. Head(s) \in Elements(s) /\ Elements(Tail(s)) = Elements(s) \ {Head(s)}
  BY <1>4, <1>5, <1>6 DEF Elements
<1>8. Head(s) \in Universe /\ Len(Tail(s)) = Len(s) - 1
  BY HeadTailProperties
<1>9. Len(s) \in Nat
  BY <1>1
<1> QED BY <1>4, <1>7, <1>8, <1>9

-----------------------------------------------------------------------------
(* The projection *)

(* A projection starts at the start of an empty log. *)
LEMMA ProjInit == Init => ProjInv
<1> SUFFICES ASSUME Init PROVE ProjInv
  OBVIOUS
<1>1. LedgerInv
  BY LedgerInvInit DEF Init
<1>2. /\ pc = "idle" /\ position = 0 /\ lastVersion = -1 /\ batch = <<>> /\ batchVersion = 0
      /\ states = NoStates /\ tally = NoTally /\ disturbed = FALSE /\ version = 0
  BY DEF Init, LedgerInit
<1>3. batch \in Seq(Universe)
  BY <1>2, EmptySeq
<1>4. NoTally \in TallyType
  BY DEF NoTally, TallyType
<1>5. NoStates \in StatesType
  BY DEF NoStates, Unknown, StatesType
<1>6. ProjTypeOK
  <2>1. -1 \in -1 .. 0 /\ 0 \in 0 .. 0 /\ 0 \in Nat
    OBVIOUS
  <2> QED BY <1>2, <1>3, <1>4, <1>5, <2>1 DEF ProjTypeOK
<1>7. ~Reading /\ Blank
  BY <1>2 DEF Reading, Blank
<1> QED BY <1>1, <1>2, <1>6, <1>7 DEF ProjInv

(* What the ledger does meanwhile: with another version, what was read is    *)
(* known to be out of date; with the same one, and not disturbed, the log    *)
(* has only been appended to.                                                *)
LEMMA LedgerStepKeeps ==
  ASSUME ProjInv, LedgerStep
  PROVE  ProjInv'
<1>1. /\ LedgerNext
      /\ pc' = pc /\ position' = position /\ lastVersion' = lastVersion
      /\ batch' = batch /\ batchVersion' = batchVersion
      /\ states' = states /\ tally' = tally
      /\ disturbed' = (/\ version' = version
                       /\ \/ disturbed
                          \/ ~(Len(events') >= Len(events)
                               /\ SubSeq(events', 1, Len(events)) = events))
  BY DEF LedgerStep, projVars
<1>2. LedgerInv /\ ProjTypeOK
  BY DEF ProjInv
<1>3. LedgerInv'
  BY <1>1, <1>2, LedgerInvNext
<1>4. version' >= version /\ (version' = version => Len(events') >= Len(events))
  BY <1>1, <1>2, VersionTells
<1>5. version \in Int /\ version' \in Int
  BY <1>2, <1>3 DEF LedgerInv
<1>6. lastVersion \in -1 .. version' /\ batchVersion \in 0 .. version'
  BY <1>2, <1>4, <1>5 DEF ProjTypeOK
<1>7. disturbed' \in BOOLEAN
  BY <1>1
<1>8. ProjTypeOK'
  BY <1>1, <1>2, <1>6, <1>7 DEF ProjTypeOK
<1>9. Reading' => version' = version /\ Reading
  BY <1>1, <1>2, <1>4, <1>5 DEF Reading, ProjTypeOK
<1>10. /\ Len(events) \in Nat /\ Len(events') \in Nat
       /\ events \in Seq(Universe) /\ events' \in Seq(Universe)
  BY <1>2, <1>3, LenProperties DEF LedgerInv, Consistent
<1>11. position \in Nat /\ Len(batch) \in Nat
  BY <1>2, LenProperties DEF ProjTypeOK
<1>12. Goal' = Goal /\ Goal \in Nat
  BY <1>1, <1>11 DEF Goal
<1>13. Reading' => Goal' <= Len(events')
  BY <1>4, <1>9, <1>10, <1>12 DEF ProjInv
<1>14. ASSUME Reading', ~disturbed' PROVE Progress'
  <2>1. version' = version /\ Reading /\ Goal <= Len(events)
    BY <1>9, <1>14 DEF ProjInv
  <2>2. SubSeq(events', 1, Len(events)) = events /\ ~disturbed
    BY <1>1, <1>14, <2>1
  <2>3. Len(events') >= Len(events)
    BY <1>4, <2>1
  <2>4. PICK l : l = Len(events)
    OBVIOUS
  <2>5. PICK t : t = events'
    OBVIOUS
  <2>6. \A i \in 1 .. l : t[i] \in Universe
    BY <1>10, <2>3, <2>4, <2>5, LenProperties
  <2>7. \A i \in 1 .. l : SubSeq(t, 1, l)[i] = t[i]
    <3>1. \A i \in 1 .. (l - 1 + 1) : SubSeq(t, 1, l)[i] = t[1 + i - 1]
      BY <1>10, <2>4, <2>6, SubSeqProperties
    <3>2. l \in Nat
      BY <1>10, <2>4
    <3>3. l - 1 + 1 = l /\ \A i \in 1 .. l : 1 + i - 1 = i
      BY <3>2
    <3> QED BY <3>1, <3>3
  <2>8. \A i \in 1 .. Goal : events'[i] = events[i]
    BY <1>10, <1>12, <2>1, <2>2, <2>4, <2>5, <2>7
  <2>9. Front(events', Goal) = Front(events, Goal)
    BY <2>8 DEF Front
  <2>10. Progress
    BY <2>1, <2>2 DEF ProjInv
  <2> QED BY <1>1, <1>12, <2>9, <2>10 DEF Progress
<1>15. (pc' = "idle" => batch' = <<>>)
       /\ ((pc' = "idle" /\ lastVersion' = -1) \/ pc' = "refetch" => Blank')
  BY <1>1 DEF ProjInv, Blank
<1> QED BY <1>3, <1>8, <1>13, <1>14, <1>15 DEF ProjInv

(* The first read: either it forgets everything, or the rest of the log is   *)
(* what follows the front it has handled.                                    *)
LEMMA FetchKeeps ==
  ASSUME ProjInv, Fetch
  PROVE  ProjInv'
<1>1. LedgerInv /\ ProjTypeOK /\ pc = "idle" /\ batch = <<>>
  BY DEF ProjInv, Fetch
<1>2. /\ events' = events /\ eventIDs' = eventIDs /\ version' = version /\ known' = known
      /\ lastVersion' = lastVersion /\ disturbed' = disturbed
  BY DEF Fetch, ledgerVars
<1>3. LedgerInv'
  BY <1>1, <1>2 DEF LedgerInv
<1>4. CASE NeedsReset
  <2>1. /\ pc' = "refetch" /\ position' = 0 /\ states' = NoStates /\ tally' = NoTally
        /\ batch' = batch /\ batchVersion' = batchVersion
    BY <1>4 DEF Fetch
  <2>2. NoTally \in TallyType
    BY DEF NoTally, TallyType
  <2>3. NoStates \in StatesType
    BY DEF NoStates, Unknown, StatesType
  <2>4. ProjTypeOK'
    BY <1>1, <1>2, <2>1, <2>2, <2>3 DEF ProjTypeOK
  <2>5. ~Reading' /\ Blank'
    BY <2>1 DEF Reading, Blank
  <2> QED BY <1>3, <2>1, <2>4, <2>5 DEF ProjInv
<1>5. CASE ~NeedsReset
  <2>1. /\ pc' = "handling" /\ batch' = SubSeq(events, position + 1, Len(events))
        /\ batchVersion' = version
        /\ position' = position /\ states' = states /\ tally' = tally
    BY <1>5 DEF Fetch, GetEventsSince
  <2>2. events \in Seq(Universe) /\ Distinct(events) /\ Len(events) \in Nat /\ version \in Nat
    BY <1>1, LenProperties DEF LedgerInv, Consistent
  <2>3. position \in Nat /\ Len(batch) = 0 /\ Goal = position
    BY <1>1, EmptySeq DEF ProjTypeOK, Goal
  <2>4. lastVersion = version \/ lastVersion = -1
    BY <1>1, <1>5, <2>2 DEF NeedsReset, ProjTypeOK
  <2>5. position \in 0 .. Len(events)
    <3>1. CASE lastVersion = -1
      <4>1. position = 0
        BY <1>1, <3>1 DEF ProjInv, Blank
      <4> QED BY <2>2, <4>1
    <3>2. CASE lastVersion = version
      <4>1. Goal <= Len(events)
        BY <1>1, <3>2 DEF ProjInv, Reading
      <4> QED BY <2>2, <2>3, <4>1
    <3> QED BY <2>4, <3>1, <3>2
  <2>6. /\ batch' \in Seq(Universe) /\ Distinct(batch') /\ position + Len(batch') = Len(events)
        /\ Elements(batch') \subseteq Front(events, Len(events))
        /\ Front(events, Len(events)) \ Elements(batch') = Front(events, position)
    BY <2>1, <2>2, <2>5, FrontRest
  <2>7. ProjTypeOK'
    BY <1>1, <1>2, <2>1, <2>2, <2>6 DEF ProjTypeOK
  <2>8. Goal' = Len(events)
    BY <2>1, <2>6 DEF Goal
  <2>9. ASSUME ~disturbed' PROVE Progress'
    <3>1. Reflects(Front(events, position), tally, states)
      <4>1. CASE lastVersion = -1
        <5>1. position = 0 /\ tally = NoTally /\ states = NoStates
          BY <1>1, <4>1 DEF ProjInv, Blank
        <5>2. Front(events, 0) = {}
          BY DEF Front
        <5> QED BY <5>1, <5>2, ReflectsNone
      <4>2. CASE lastVersion = version
        <5>1. Progress
          BY <1>1, <1>2, <2>9, <4>2 DEF ProjInv, Reading
        <5>2. Elements(batch) = {}
          BY <1>1 DEF Elements
        <5> QED BY <2>3, <5>1, <5>2 DEF Progress
      <4> QED BY <2>4, <4>1, <4>2
    <3> QED BY <1>2, <2>1, <2>6, <2>8, <3>1 DEF Progress
  <2>10. Goal' <= Len(events')
    BY <1>2, <2>2, <2>8
  <2> QED BY <1>3, <2>1, <2>7, <2>9, <2>10 DEF ProjInv
<1> QED BY <1>4, <1>5

(* The second read: the whole log, with nothing handled. *)
LEMMA RefetchKeeps ==
  ASSUME ProjInv, Refetch
  PROVE  ProjInv'
<1>1. LedgerInv /\ ProjTypeOK /\ Blank
  BY DEF ProjInv, Refetch
<1>2. /\ pc' = "handling" /\ batchVersion' = version
      /\ events' = events /\ eventIDs' = eventIDs /\ version' = version /\ known' = known
      /\ position' = position /\ lastVersion' = lastVersion /\ states' = states
      /\ tally' = tally /\ disturbed' = disturbed
  BY Zenon DEF Refetch, ledgerVars
<1>3. PICK p \in Chronological(events) : batch' = Reordered(events, p)
  BY Zenon DEF Refetch
<1>4. p \in Arrangements(DOMAIN events)
  BY Zenon DEF Chronological
<1>5. LedgerInv'
  BY <1>1, <1>2 DEF LedgerInv
<1>6. events \in Seq(Universe) /\ Distinct(events) /\ Len(events) \in Nat /\ version \in Nat
      /\ DOMAIN events = 1 .. Len(events)
  BY <1>1, LenProperties DEF LedgerInv, Consistent
<1>7. /\ batch' \in Seq(Universe) /\ Len(batch') = Len(events)
      /\ Selection(batch', events, DOMAIN events)
  BY <1>3, <1>4, <1>6, ReorderedSelects
<1>8. Elements(batch') = Elements(events)
  BY <1>3, <1>4, <1>6, ReorderedElements
<1>9. Distinct(batch')
  <2>1. PICK b : b = batch'
    OBVIOUS
  <2>2. Distinct(b)
    BY <1>6, <1>7, <2>1, SelectionIds
  <2> QED BY <2>1, <2>2
<1>10. position = 0 /\ tally = NoTally /\ states = NoStates
  BY <1>1 DEF Blank
<1>11. Goal' = Len(events)
  BY <1>2, <1>6, <1>7, <1>10 DEF Goal
<1>12. ProjTypeOK'
  BY <1>1, <1>2, <1>6, <1>7 DEF ProjTypeOK
<1>13. Front(events, Len(events)) = Elements(events)
  BY <1>6 DEF Front, Elements
<1>14. Front(events', Goal') \ Elements(batch') = {}
  BY <1>2, <1>8, <1>11, <1>13
<1>15. Reflects(Front(events', Goal') \ Elements(batch'), tally', states')
  BY <1>2, <1>10, <1>14, ReflectsNone
<1>16. Progress'
  BY <1>2, <1>8, <1>9, <1>11, <1>13, <1>15 DEF Progress
<1>17. Goal' <= Len(events')
  BY <1>2, <1>6, <1>11
<1> QED BY <1>2, <1>5, <1>12, <1>16, <1>17 DEF ProjInv

(* One event handled: it leaves the batch and joins what is reflected. *)
LEMMA HandleKeeps ==
  ASSUME ProjInv, Handle
  PROVE  ProjInv'
<1> DEFINE h == Head(batch)
<1>1. LedgerInv /\ ProjTypeOK /\ pc = "handling" /\ batch # <<>>
  BY DEF ProjInv, Handle
<1>2. /\ states' = StatesAfter(h, states) /\ tally' = TallyAfter(h, tally)
      /\ position' = position + 1 /\ batch' = Tail(batch)
      /\ pc' = pc /\ lastVersion' = lastVersion /\ batchVersion' = batchVersion
      /\ events' = events /\ eventIDs' = eventIDs /\ version' = version /\ known' = known
      /\ disturbed' = disturbed
  BY DEF Handle, handleEvent, StatesAfter, TallyAfter, ledgerVars
<1>3. LedgerInv'
  BY <1>1, <1>2 DEF LedgerInv
<1>4. batch \in Seq(Universe) /\ position \in Nat
  BY <1>1 DEF ProjTypeOK
<1>5. h \in Universe /\ Tail(batch) \in Seq(Universe)
  BY <1>1, <1>4, HeadTailProperties
<1>6. tally \in TallyType /\ states \in StatesType
  BY <1>1 DEF ProjTypeOK
<1> HIDE DEF h
<1>7. tally' \in TallyType /\ states' \in StatesType
  BY <1>2, <1>5, <1>6, ReadModelTypes
<1>8. position' \in Nat
  BY <1>2, <1>4
<1>9. ProjTypeOK'
  BY <1>1, <1>2, <1>5, <1>7, <1>8 DEF ProjTypeOK
<1>10. Len(Tail(batch)) = Len(batch) - 1 /\ Len(batch) \in Nat
  BY <1>1, <1>4, HeadTailProperties, LenProperties
<1>11. Goal' = Goal /\ Goal \in Nat
  <2>1. \A k, m \in Nat : (k + 1) + (m - 1) = k + m /\ k + m \in Nat
    OBVIOUS
  <2>2. Goal' = (position + 1) + (Len(batch) - 1)
    BY <1>2, <1>10, Zenon DEF Goal
  <2> QED BY <1>4, <1>10, <2>1, <2>2, Zenon DEF Goal
<1>12. Reading' <=> Reading
  BY <1>1, <1>2 DEF Reading
<1>13. Reading' => Goal' <= Len(events')
  BY <1>2, <1>11, <1>12 DEF ProjInv
<1>14. ASSUME Reading', ~disturbed' PROVE Progress'
  <2>1. Progress /\ Goal <= Len(events)
    BY <1>2, <1>12, <1>14 DEF ProjInv
  <2> DEFINE front == Front(events, Goal)
             done  == front \ Elements(batch)
  <2>2. Elements(batch) \subseteq front /\ Distinct(batch) /\ Reflects(done, tally, states)
    BY <2>1 DEF Progress
  <2>3. /\ h \in Elements(batch) /\ Distinct(Tail(batch))
        /\ Elements(Tail(batch)) = Elements(batch) \ {h}
    BY <1>1, <1>4, <2>2, HeadLeaves DEF h
  <2>4. front \in SUBSET Universe /\ \A e, f \in front : e.id = f.id => e = f
    <3>1. events \in Seq(Universe) /\ Distinct(events)
      BY <1>1 DEF LedgerInv, Consistent
    <3>2. PICK n \in Nat : n = Goal
      BY <1>11
    <3>3. Front(events, n) \in SUBSET Universe /\ \A e, f \in Front(events, n) : e.id = f.id => e = f
      BY <2>1, <3>1, <3>2, FrontDistinct
    <3> QED BY <3>2, <3>3
  <2> HIDE DEF front
  <2>5. done \in SUBSET Universe /\ \A e \in done : e.id # h.id
    BY <2>2, <2>3, <2>4
  <2>6. front \ Elements(Tail(batch)) = done \cup {h}
    BY <2>2, <2>3
  <2> HIDE DEF done
  <2>7. Reflects(done \cup {h}, TallyAfter(h, tally), StatesAfter(h, states))
    BY <1>5, <1>6, <2>2, <2>5, ReflectsOneMore
  <2>8. Front(events', Goal') = front
    BY <1>2, <1>11 DEF front
  <2> QED BY <1>2, <2>2, <2>3, <2>6, <2>7, <2>8 DEF Progress
<1>15. (pc' = "idle" => batch' = <<>>)
       /\ ((pc' = "idle" /\ lastVersion' = -1) \/ pc' = "refetch" => Blank')
  BY <1>1, <1>2
<1> QED BY <1>3, <1>9, <1>13, <1>14, <1>15 DEF ProjInv

(* The end of a run: the version remembered is that of the copy. *)
LEMMA FinishKeeps ==
  ASSUME ProjInv, Finish
  PROVE  ProjInv'
<1>1. /\ LedgerInv /\ ProjTypeOK /\ pc = "handling" /\ batch = <<>>
      /\ lastVersion' = batchVersion /\ pc' = "idle"
      /\ events' = events /\ eventIDs' = eventIDs /\ version' = version /\ known' = known
      /\ position' = position /\ batch' = batch /\ batchVersion' = batchVersion
      /\ states' = states /\ tally' = tally /\ disturbed' = disturbed
  BY DEF ProjInv, Finish, ledgerVars
<1>2. LedgerInv'
  BY <1>1 DEF LedgerInv
<1>3. batchVersion \in 0 .. version /\ version \in Nat
  BY <1>1 DEF ProjTypeOK, LedgerInv
<1>4. lastVersion' \in -1 .. version'
  BY <1>1, <1>3
<1>5. ProjTypeOK'
  BY <1>1, <1>4 DEF ProjTypeOK
<1>6. Goal' = Goal /\ (Progress' <=> Progress) /\ (Reading' <=> Reading)
  BY <1>1 DEF Goal, Progress, Reading
<1>7. lastVersion' # -1
  BY <1>1, <1>3
<1> QED BY <1>1, <1>2, <1>5, <1>6, <1>7 DEF ProjInv

(* The invariant holds beside any ledger traffic. *)
LEMMA ProjInvariant == Spec => []ProjInv
<1>1. ProjInv /\ [Next]_vars => ProjInv'
  <2> SUFFICES ASSUME ProjInv, [Next]_vars PROVE ProjInv'
    OBVIOUS
  <2>1. CASE UNCHANGED vars
    BY <2>1 DEF vars, projVars, ledgerVars, ProjInv, LedgerInv, ProjTypeOK, Blank, Reading,
                Goal, Progress
  <2>2. CASE LedgerStep
    BY <2>2, LedgerStepKeeps
  <2>3. CASE RunOnce
    BY <2>3, FetchKeeps, RefetchKeeps, HandleKeeps, FinishKeeps DEF RunOnce
  <2> QED BY <2>1, <2>2, <2>3 DEF Next
<1> QED BY <1>1, ProjInit, PTL DEF Spec

-----------------------------------------------------------------------------
(* What follows from it *)

(* The projection's variables keep their types beside any ledger traffic     *)
(* (TypeOK).                                                                 *)
THEOREM ProjectionTypeCorrect == Spec => []TypeOK
<1>1. ProjInv => TypeOK
  <2> SUFFICES ASSUME ProjInv PROVE TypeOK
    OBVIOUS
  <2>1. LedgerTypeOK /\ version \in 0 .. VersionLimit
    BY LedgerInvImplies DEF ProjInv, LedgerInv
  <2>2. lastVersion \in -1 .. VersionLimit /\ batchVersion \in 0 .. VersionLimit
    BY <2>1, LedgerAssumption DEF ProjInv, ProjTypeOK
  <2> QED BY <2>1, <2>2 DEF TypeOK, ProjInv, ProjTypeOK, StatesType, TallyType
<1> QED BY <1>1, ProjInvariant, PTL

(* An idle projection of the current version never stands past the end of    *)
(* the log (NeverPastTheEnd), disturbed or not: every removal moves the      *)
(* version, which RunOnce compares before it uses its position.              *)
THEOREM PositionStaysInside == Spec => []NeverPastTheEnd
<1>1. ProjInv => NeverPastTheEnd
  <2> SUFFICES ASSUME ProjInv, pc = "idle" /\ lastVersion = version
               PROVE  position <= Len(events)
    BY DEF NeverPastTheEnd
  <2>1. Goal <= Len(events) /\ batch = <<>> /\ position \in Nat
    BY DEF ProjInv, Reading, ProjTypeOK
  <2>2. Goal = position
    BY <2>1, EmptySeq DEF Goal
  <2> QED BY <2>1, <2>2
<1> QED BY <1>1, ProjInvariant, PTL

(* What a projection that has caught up reflects is the whole log. *)
LEMMA CaughtUpReflectsAll ==
  ASSUME ProjInv, CaughtUp, ~disturbed
  PROVE  Reflects(Elements(events), tally, states)
<1>1. batch = <<>> /\ position = Len(events) /\ Progress
  BY DEF ProjInv, CaughtUp, Reading
<1>2. Goal = Len(events)
  <2>1. Len(events) \in Nat
    BY LenProperties DEF ProjInv, LedgerInv, Consistent
  <2> QED BY <1>1, <2>1, EmptySeq DEF Goal
<1>3. Elements(batch) = {}
  BY <1>1 DEF Elements
<1>4. Front(events, Len(events)) = Elements(events)
  BY LenProperties DEF Front, Elements, ProjInv, LedgerInv, Consistent
<1> QED BY <1>1, <1>2, <1>3, <1>4 DEF Progress

(* A projection that has caught up has handled every stored event exactly    *)
(* once and no other, unless the log was reordered with its version          *)
(* unchanged (ExactUnlessDisturbed).                                         *)
THEOREM CaughtUpIsExact == Spec => []ExactUnlessDisturbed
<1>1. ProjInv => ExactUnlessDisturbed
  <2> SUFFICES ASSUME ProjInv, CaughtUp, ~disturbed, NEW i \in Id
               PROVE  tally[i] = IF i \in eventIDs THEN 1 ELSE 0
    BY DEF ExactUnlessDisturbed, HandledOnce
  <2>1. tally[i] = IF \E e \in Elements(events) : e.id = i THEN 1 ELSE 0
    BY CaughtUpReflectsAll DEF Reflects
  <2>2. i \in eventIDs <=> \E e \in Elements(events) : e.id = i
    BY DEF ProjInv, LedgerInv, Consistent, IdsOf, Elements
  <2> QED BY <2>1, <2>2
<1> QED BY <1>1, ProjInvariant, PTL

(* Then the status of every nara is that of the newest stored event about it *)
(* (NewestEventWins), whatever the order in which the events were handled.   *)
THEOREM NewestEventAlwaysWins == Spec => []NewestEventWins
<1>1. ASSUME ProjInv, CaughtUp, ~disturbed, NEW n \in Nara
      PROVE  LET about == {e \in Elements(events) : n \in Affected(e)}
             IN  IF about = {} THEN states[n] = Unknown
                 ELSE \E e \in about :
                        /\ \A f \in about : f.ts <= e.ts
                        /\ states[n] = [status |-> ImpliedStatus(e), ts |-> e.ts]
  <2> DEFINE about == {e \in Elements(events) : n \in Affected(e)}
  <2>1. Says(Elements(events), n, states[n])
    BY <1>1, CaughtUpReflectsAll DEF Reflects
  <2>2. CASE \A e \in Elements(events) : n \notin Affected(e)
    <3>1. about = {} /\ states[n] = Unknown
      BY <2>1, <2>2, Zenon DEF Says
    <3> QED BY <3>1
  <2>3. CASE \E e \in Elements(events) : n \in Affected(e)
    <3>1. PICK e \in Elements(events) :
             /\ n \in Affected(e)
             /\ \A f \in Elements(events) : n \in Affected(f) => f.ts <= e.ts
             /\ states[n] = [status |-> ImpliedStatus(e), ts |-> e.ts]
      BY <2>1, <2>3, Zenon DEF Says
    <3>2. e \in about /\ \A f \in about : f.ts <= e.ts
      BY <3>1
    <3> HIDE DEF about
    <3>3. about # {} /\ \E x \in about :
                        /\ \A f \in about : f.ts <= x.ts
                        /\ states[n] = [status |-> ImpliedStatus(x), ts |-> x.ts]
      BY <3>1, <3>2
    <3>4. IF about = {} THEN states[n] = Unknown
          ELSE \E x \in about :
                        /\ \A f \in about : f.ts <= x.ts
                        /\ states[n] = [status |-> ImpliedStatus(x), ts |-> x.ts]
      BY <3>3
    <3> QED BY <3>4 DEF about
  <2> QED BY <2>2, <2>3
<1>2. ProjInv => NewestEventWins
  BY <1>1 DEF NewestEventWins
<1> QED BY <1>2, ProjInvariant, PTL
=============================================================================
