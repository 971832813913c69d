-------------------------- MODULE SyncLedgerProofs --------------------------
(***************************************************************************)
(* Proofs about SyncLedger for every set of naras and events and every     *)
(* value of the limits: type correctness, the agreement of the dedup index *)
(* with the log, the caps on pings and observations, and what pruning and  *)
(* compaction do to critical history.                                      *)
(***************************************************************************)
EXTENDS SyncLedger, FiniteSetTheorems, SequenceTheorems, TLAPS

-----------------------------------------------------------------------------
(* Positions *)

(* The sorts only ever reorder: an arrangement is a permutation. *)
LEMMA ArrangementIsPermutation ==
  ASSUME NEW D, NEW p \in Arrangements(D)
  PROVE  IsPermutation(p, D)
  BY Zenon DEF Arrangements

Rank(K, i) == Cardinality({j \in K : j <= i})

(* The rank of a member of a finite set of positions counts from 1 and grows *)
(* with the member.                                                          *)
LEMMA RankFacts ==
  ASSUME NEW K \in SUBSET Nat, IsFiniteSet(K)
  PROVE  /\ \A i \in K : Rank(K, i) \in 1 .. Cardinality(K)
         /\ \A i, j \in K : i < j => Rank(K, i) < Rank(K, j)
<1>1. \A i \in K : /\ IsFiniteSet({j \in K : j <= i})
                   /\ Rank(K, i) \in Nat
                   /\ Rank(K, i) <= Cardinality(K)
  <2> TAKE i \in K
  <2>1. {j \in K : j <= i} \in SUBSET K
    OBVIOUS
  <2> QED BY <2>1, FS_Subset, FS_CardinalityType DEF Rank
<1>2. \A i \in K : Rank(K, i) >= 1
  <2> TAKE i \in K
  <2>1. {i} \in SUBSET {j \in K : j <= i}
    OBVIOUS
  <2>2. Cardinality({i}) <= Cardinality({j \in K : j <= i})
    BY <2>1, <1>1, FS_Subset
  <2>3. Cardinality({i}) = 1
    BY FS_Singleton
  <2> QED BY <2>2, <2>3, <1>1 DEF Rank
<1>3. ASSUME NEW i \in K, NEW j \in K, i < j
      PROVE  Rank(K, i) < Rank(K, j)
  <2> DEFINE B == {m \in K : m <= j}
  <2>1. {m \in K : m <= i} \in SUBSET (B \ {j})
    <3>1. i \in Nat /\ j \in Nat /\ i < j
      BY <1>3
    <3>2. \A m \in K : m <= i => m <= j /\ m # j
      BY <3>1
    <3> QED BY <3>2
  <2>2. IsFiniteSet(B) /\ j \in B
    BY <1>1
  <2>3. IsFiniteSet(B \ {j}) /\ Cardinality(B \ {j}) = Cardinality(B) - 1
    BY <2>2, FS_RemoveElement
  <2>4. Rank(K, i) <= Cardinality(B \ {j})
    BY <2>1, <2>3, FS_Subset DEF Rank
  <2>5. Cardinality(B) = Rank(K, j)
    BY DEF Rank
  <2>6. Rank(K, i) \in Nat /\ Rank(K, j) \in Nat
    BY <1>1
  <2> HIDE DEF B
  <2> QED BY <2>3, <2>4, <2>5, <2>6
<1>4. Cardinality(K) \in Nat
  BY FS_CardinalityType
<1>5. \A i \in K : Rank(K, i) \in 1 .. Cardinality(K)
  <2> TAKE i \in K
  <2>1. Rank(K, i) \in Nat /\ Rank(K, i) <= Cardinality(K) /\ Rank(K, i) >= 1
    BY <1>1, <1>2, Zenon
  <2> DEFINE r == Rank(K, i)
             c == Cardinality(K)
  <2>2. r \in Nat /\ c \in Nat /\ r <= c /\ r >= 1
    BY <2>1, <1>4
  <2> HIDE DEF r, c
  <2>3. r \in 1 .. c
    BY <2>2
  <2> QED BY <2>3 DEF r, c
<1> QED BY <1>3, <1>5

(* Every rank is taken: Nth enumerates the set, each member once. *)
LEMMA NthFacts ==
  ASSUME NEW K \in SUBSET Nat, IsFiniteSet(K)
  PROVE  /\ Cardinality(K) \in Nat
         /\ \A k \in 1 .. Cardinality(K) : Nth(K, k) \in K /\ Rank(K, Nth(K, k)) = k
         /\ \A k, m \in 1 .. Cardinality(K) : Nth(K, k) = Nth(K, m) => k = m
         /\ \A i \in K : \E k \in 1 .. Cardinality(K) : Nth(K, k) = i
<1> DEFINE c == Cardinality(K)
<1>0. c \in Nat
  BY FS_CardinalityType
<1>1. ASSUME NEW k \in 1 .. c PROVE \E i \in K : Rank(K, i) = k
  <2> DEFINE T == (1 .. c) \ {k}
             f == [i \in K |-> Rank(K, i)]
  <2> SUFFICES ASSUME \A i \in K : Rank(K, i) # k PROVE FALSE
    OBVIOUS
  <2>1. f \in [K -> T]
    BY RankFacts
  <2>2. IsFiniteSet(1 .. c) /\ Cardinality(1 .. c) = c
    BY <1>0, FS_Interval
  <2>3. IsFiniteSet(T) /\ Cardinality(T) = c - 1
    BY <2>2, FS_RemoveElement
  <2>4. Cardinality(T) < Cardinality(K)
    BY <2>3, <1>0
  <2> HIDE DEF T, f, c
  <2>5. PICK x, y \in K : x # y /\ f[x] = f[y]
    BY <2>1, <2>3, <2>4, FS_PigeonHole
  <2>6. x \in Nat /\ y \in Nat /\ Rank(K, x) = Rank(K, y)
    BY <2>5 DEF f
  <2>7. Rank(K, x) \in Nat /\ Rank(K, y) \in Nat
    BY RankFacts, <1>0 DEF c
  <2> QED BY <2>5, <2>6, <2>7, RankFacts
<1>2. \A k \in 1 .. c : Nth(K, k) \in K /\ Rank(K, Nth(K, k)) = k
  BY <1>1 DEF Nth, Rank
<1>3. \A i \in K : Nth(K, Rank(K, i)) = i
  <2> TAKE i \in K
  <2>1. Rank(K, i) \in 1 .. c
    BY RankFacts
  <2> DEFINE n == Nth(K, Rank(K, i))
  <2>2. n \in K /\ Rank(K, n) = Rank(K, i)
    BY <2>1, <1>2
  <2>3. n \in Nat /\ i \in Nat
    BY <2>2
  <2> HIDE DEF n
  <2>4. ~(n < i) /\ ~(i < n)
    BY <2>1, <2>2, <2>3, <1>0, RankFacts
  <2> QED BY <2>3, <2>4 DEF n
<1> QED BY <1>0, <1>2, <1>3, RankFacts

-----------------------------------------------------------------------------
(* Logs built from other logs *)

Distinct(s) == \A i, j \in DOMAIN s : i # j => s[i].id # s[j].id

(* t lists the positions K of s, each exactly once. *)
Selection(t, s, K) ==
  \E f \in [DOMAIN t -> K] :
    /\ \A k, m \in DOMAIN t : f[k] = f[m] => k = m
    /\ \A i \in K : \E k \in DOMAIN t : f[k] = i
    /\ \A k \in DOMAIN t : t[k] = s[f[k]]

(* A selection keeps ids distinct and loses exactly the ids left out. *)
LEMMA SelectionIds ==
  ASSUME NEW s, NEW t, NEW K \in SUBSET DOMAIN s, Distinct(s), Selection(t, s, K)
  PROVE  /\ Distinct(t)
         /\ IdsOf(t) = IdsOf(s) \ {s[i].id : i \in DOMAIN s \ K}
<1>1. PICK f \in [DOMAIN t -> K] :
        /\ \A k, m \in DOMAIN t : f[k] = f[m] => k = m
        /\ \A i \in K : \E k \in DOMAIN t : f[k] = i
        /\ \A k \in DOMAIN t : t[k] = s[f[k]]
  BY DEF Selection
<1>2. \A k \in DOMAIN t : f[k] \in DOMAIN s
  BY <1>1
<1>3. Distinct(t)
  BY <1>1, <1>2 DEF Distinct
<1>4. \A x : x \in IdsOf(t) <=> \E i \in K : x = s[i].id
  BY <1>1 DEF IdsOf
<1>5. \A x : x \in IdsOf(s) \ {s[i].id : i \in DOMAIN s \ K} <=> \E i \in K : x = s[i].id
  BY DEF IdsOf, Distinct
<1> QED BY <1>3, <1>4, <1>5

(* Without(s, I) is the selection of the positions not in I. *)
LEMMA WithoutSelects ==
  ASSUME NEW S, NEW s \in Seq(S), NEW I
  PROVE  /\ Without(s, I) \in Seq(S)
         /\ Selection(Without(s, I), s, DOMAIN s \ I)
<1> DEFINE K == DOMAIN s \ I
           t == Without(s, I)
           c == Cardinality(K)
<1>1. DOMAIN s = 1 .. Len(s) /\ Len(s) \in Nat /\ \A i \in DOMAIN s : s[i] \in S
  BY LenProperties, ElementOfSeq
<1>2. IsFiniteSet(1 .. Len(s))
  BY <1>1, FS_Interval
<1>3. K \in SUBSET Nat /\ IsFiniteSet(K)
  BY <1>1, <1>2, FS_Subset
<1>4. /\ c \in Nat
      /\ \A k \in 1 .. c : Nth(K, k) \in K
      /\ \A k, m \in 1 .. c : Nth(K, k) = Nth(K, m) => k = m
      /\ \A i \in K : \E k \in 1 .. c : Nth(K, k) = i
  <2> HIDE DEF K
  <2> QED BY <1>3, NthFacts
<1>5. t = [k \in 1 .. c |-> s[Nth(K, k)]]
  BY DEF Without
<1>6. K \subseteq DOMAIN s
  OBVIOUS
<1> HIDE DEF K, t, c
<1>7. t \in Seq(S)
  <2>1. \A k \in 1 .. c : s[Nth(K, k)] \in S
    BY <1>1, <1>4, <1>6
  <2> QED BY <2>1, <1>4, <1>5, IsASeq
<1>8. Selection(t, s, K)
  <2> DEFINE f == [k \in 1 .. c |-> Nth(K, k)]
  <2>1. DOMAIN t = 1 .. c /\ f \in [DOMAIN t -> K]
    BY <1>4, <1>5
  <2>2. \A k, m \in DOMAIN t : f[k] = f[m] => k = m
    BY <2>1, <1>4
  <2>3. \A i \in K : \E k \in DOMAIN t : f[k] = i
    BY <2>1, <1>4
  <2>4. \A k \in DOMAIN t : t[k] = s[f[k]]
    BY <2>1, <1>5
  <2> HIDE DEF f
  <2> QED BY <2>1, <2>2, <2>3, <2>4 DEF Selection
<1> QED BY <1>7, <1>8 DEF K, t

(* A reordered log selects every position. *)
LEMMA ReorderedSelects ==
  ASSUME NEW S, NEW s \in Seq(S), NEW p \in Arrangements(DOMAIN s)
  PROVE  /\ Reordered(s, p) \in Seq(S)
         /\ DOMAIN Reordered(s, p) = DOMAIN s
         /\ Len(Reordered(s, p)) = Len(s)
         /\ Selection(Reordered(s, p), s, DOMAIN s)
<1>1. IsPermutation(p, DOMAIN s)
  BY ArrangementIsPermutation
<1>2. DOMAIN s = 1 .. Len(s) /\ Len(s) \in Nat /\ \A i \in DOMAIN s : s[i] \in S
  BY LenProperties, ElementOfSeq
<1>3. \A k \in 1 .. Len(s) : s[p[k]] \in S
  BY <1>1, <1>2 DEF IsPermutation
<1>4. Reordered(s, p) \in Seq(S) /\ DOMAIN Reordered(s, p) = DOMAIN s
  BY <1>2, <1>3, IsASeq DEF Reordered
<1>5. Len(Reordered(s, p)) = Len(s)
  BY <1>2, <1>4, LenProperties
<1>6. Selection(Reordered(s, p), s, DOMAIN s)
  BY <1>1, <1>4 DEF Selection, IsPermutation, Reordered
<1> QED BY <1>4, <1>5, <1>6

(* Dropping the first n events selects the rest. *)
LEMMA DropSelects ==
  ASSUME NEW S, NEW s \in Seq(S), NEW n \in 0 .. Len(s)
  PROVE  /\ SubSeq(s, n + 1, Len(s)) \in Seq(S)
         /\ Selection(SubSeq(s, n + 1, Len(s)), s, (n + 1) .. Len(s))
<1> DEFINE t == SubSeq(s, n + 1, Len(s))
           l == Len(s)
<1>1. DOMAIN s = 1 .. l /\ l \in Nat /\ n \in Nat /\ n <= l
  BY LenProperties
<1>2. /\ t \in Seq(S)
      /\ DOMAIN t = 1 .. (l - n)
      /\ \A k \in 1 .. (l - n) : t[k] = s[n + k]
  <2>1. n + 1 \in Int /\ l \in Int /\ \A i \in (n + 1) .. l : s[i] \in S
    BY <1>1
  <2>2. /\ t \in Seq(S)
        /\ Len(t) = IF n + 1 <= l THEN l - (n + 1) + 1 ELSE 0
        /\ \A i \in 1 .. (l - (n + 1) + 1) : t[i] = s[n + 1 + i - 1]
    BY <2>1, SubSeqProperties
  <2>3. Len(t) = l - n /\ \A k \in 1 .. (l - n) : t[k] = s[n + k]
    <3> HIDE DEF t, l
    <3>1. l - (n + 1) + 1 = l - n
      BY <1>1
    <3>2. \A i \in 1 .. (l - n) : n + 1 + i - 1 = n + i
      BY <1>1
    <3> QED BY <1>1, <2>2, <3>1, <3>2
  <2>4. DOMAIN t = 1 .. (l - n)
    BY <2>2, <2>3, LenProperties
  <2> QED BY <2>2, <2>3, <2>4
<1> HIDE DEF t, l
<1>3. Selection(t, s, (n + 1) .. l)
  <2> DEFINE f == [k \in 1 .. (l - n) |-> n + k]
  <2>1. f \in [DOMAIN t -> (n + 1) .. l]
    BY <1>1, <1>2
  <2>2. \A k, m \in DOMAIN t : f[k] = f[m] => k = m
    BY <1>1, <1>2
  <2>3. \A i \in (n + 1) .. l : i - n \in DOMAIN t /\ f[i - n] = i
    BY <1>1, <1>2
  <2>4. \A k \in DOMAIN t : t[k] = s[f[k]]
    BY <1>2
  <2> HIDE DEF f
  <2> QED BY <2>1, <2>2, <2>3, <2>4 DEF Selection
<1> QED BY <1>2, <1>3 DEF t, l

(* Appending an event with a fresh id keeps ids distinct. *)
LEMMA AppendIds ==
  ASSUME NEW S, NEW s \in Seq(S), NEW e \in S, Distinct(s), e.id \notin IdsOf(s)
  PROVE  /\ Append(s, e) \in Seq(S)
         /\ Distinct(Append(s, e))
         /\ IdsOf(Append(s, e)) = IdsOf(s) \cup {e.id}
<1> DEFINE t == Append(s, e)
           l == Len(s)
<1>1. DOMAIN s = 1 .. l /\ l \in Nat
  BY LenProperties
<1>2. /\ t \in Seq(S)
      /\ DOMAIN t = 1 .. (l + 1)
      /\ \A i \in 1 .. l : t[i] = s[i]
      /\ t[l + 1] = e
  BY <1>1, AppendProperties, LenProperties
<1> HIDE DEF t, l
<1>3. \A i \in DOMAIN t : (i \in DOMAIN s /\ t[i] = s[i]) \/ (i = l + 1 /\ t[i] = e)
  BY <1>1, <1>2
<1>4. DOMAIN s \subseteq DOMAIN t /\ l + 1 \in DOMAIN t
  BY <1>1, <1>2
<1>5. \A i \in DOMAIN s : s[i].id # e.id
  BY DEF IdsOf
<1>6. Distinct(t)
  BY <1>3, <1>5 DEF Distinct
<1>7. IdsOf(t) = IdsOf(s) \cup {e.id}
  BY <1>1, <1>2, <1>3, <1>4 DEF IdsOf
<1> QED BY <1>2, <1>6, <1>7 DEF t

-----------------------------------------------------------------------------
(* The ledger *)

(* What every operation establishes of the log and the index it leaves. *)
Consistent(s, ids) == s \in Seq(Universe) /\ ids = IdsOf(s) /\ Distinct(s)

(* A selection of a consistent log, with the left-out ids deleted from the   *)
(* index, is consistent.                                                     *)
LEMMA SelectionConsistent ==
  ASSUME NEW s, NEW ids, NEW t \in Seq(Universe), NEW K \in SUBSET DOMAIN s,
         Consistent(s, ids), Selection(t, s, K)
  PROVE  Consistent(t, ids \ {s[i].id : i \in DOMAIN s \ K})
BY SelectionIds DEF Consistent

(* A log without the positions I, and an index without their ids. *)
LEMMA WithoutConsistent ==
  ASSUME NEW s, NEW ids, NEW I \in SUBSET DOMAIN s, Consistent(s, ids)
  PROVE  Consistent(Without(s, I), ids \ {s[i].id : i \in I})
<1>1. s \in Seq(Universe)
  BY DEF Consistent
<1>2. Without(s, I) \in Seq(Universe) /\ Selection(Without(s, I), s, DOMAIN s \ I)
  BY <1>1, WithoutSelects
<1>3. DOMAIN s \ (DOMAIN s \ I) = I
  OBVIOUS
<1> QED BY <1>2, <1>3, SelectionConsistent

(* A log with one more event, whose id was not in the index. *)
LEMMA AppendConsistent ==
  ASSUME NEW s, NEW ids, NEW e \in Universe, Consistent(s, ids), e.id \notin ids
  PROVE  Consistent(Append(s, e), ids \cup {e.id})
BY AppendIds DEF Consistent

(* A log in another order. *)
LEMMA ReorderedConsistent ==
  ASSUME NEW s, NEW ids, NEW p \in Arrangements(DOMAIN s), Consistent(s, ids)
  PROVE  Consistent(Reordered(s, p), ids)
<1>1. s \in Seq(Universe)
  BY DEF Consistent
<1>2. Reordered(s, p) \in Seq(Universe) /\ Selection(Reordered(s, p), s, DOMAIN s)
  BY <1>1, ReorderedSelects
<1>3. ids \ {s[i].id : i \in DOMAIN s \ DOMAIN s} = ids
  OBVIOUS
<1> QED BY <1>2, <1>3, SelectionConsistent

(* A log without its first events. *)
LEMMA DropConsistent ==
  ASSUME NEW s, NEW ids, NEW n \in 0 .. Len(s), Consistent(s, ids)
  PROVE  Consistent(SubSeq(s, n + 1, Len(s)), ids \ {s[i].id : i \in 1 .. n})
<1>1. s \in Seq(Universe)
  BY DEF Consistent
<1>2. DOMAIN s = 1 .. Len(s) /\ Len(s) \in Nat
  BY <1>1, LenProperties
<1> DEFINE K == (n + 1) .. Len(s)
<1>3. K \in SUBSET DOMAIN s /\ DOMAIN s \ K = 1 .. n
  BY <1>2
<1>4. SubSeq(s, n + 1, Len(s)) \in Seq(Universe) /\ Selection(SubSeq(s, n + 1, Len(s)), s, K)
  BY <1>1, DropSelects
<1> QED BY <1>3, <1>4, SelectionConsistent

(* pruneUnlocked leaves a consistent ledger, whether it removes events, only *)
(* reorders them, or has nothing to do.                                      *)
LEMMA PruneConsistent ==
  ASSUME NEW STATE s, NEW STATE ids, NEW STATE v, Consistent(s, ids),
         v \in 0 .. VersionLimit, PruneTo(s, ids, v)
  PROVE  Consistent(events', eventIDs') /\ version' \in 0 .. VersionLimit
<1>1. CASE Len(s) <= MaxEvents
  BY <1>1 DEF PruneTo
<1>2. CASE ~(Len(s) <= MaxEvents)
  <2>1. PICK p \in PruneOrders(s) :
          LET sorted == Reordered(s, p)
          IN  \E n \in RemovedCount(sorted) :
               \/ /\ n = 0
                  /\ events' = sorted /\ eventIDs' = ids /\ version' = v
               \/ /\ n > 0 /\ v < VersionLimit
                  /\ LET kept == SubSeq(sorted, n + 1, Len(sorted))
                     IN  \E q \in Chronological(kept) : events' = Reordered(kept, q)
                  /\ eventIDs' = ids \ {sorted[i].id : i \in 1 .. n}
                  /\ version' = v + 1
    BY <1>2, Zenon DEF PruneTo
  <2> DEFINE sorted == Reordered(s, p)
  <2>2. p \in Arrangements(DOMAIN s)
    BY Zenon DEF PruneOrders
  <2>3. Consistent(sorted, ids)
    BY <2>2, ReorderedConsistent
  <2> HIDE DEF sorted
  <2>4. PICK n \in RemovedCount(sorted) :
           \/ /\ n = 0
              /\ events' = sorted /\ eventIDs' = ids /\ version' = v
           \/ /\ n > 0 /\ v < VersionLimit
              /\ \E q \in Chronological(SubSeq(sorted, n + 1, Len(sorted))) :
                    events' = Reordered(SubSeq(sorted, n + 1, Len(sorted)), q)
              /\ eventIDs' = ids \ {sorted[i].id : i \in 1 .. n}
              /\ version' = v + 1
    BY <2>1, Zenon DEF sorted
  <2>5. CASE n = 0 /\ events' = sorted /\ eventIDs' = ids /\ version' = v
    BY <2>3, <2>5
  <2>6. CASE /\ n > 0 /\ v < VersionLimit
             /\ \E q \in Chronological(SubSeq(sorted, n + 1, Len(sorted))) :
                   events' = Reordered(SubSeq(sorted, n + 1, Len(sorted)), q)
             /\ eventIDs' = ids \ {sorted[i].id : i \in 1 .. n}
             /\ version' = v + 1
    <3> DEFINE kept == SubSeq(sorted, n + 1, Len(sorted))
               keptIDs == ids \ {sorted[i].id : i \in 1 .. n}
    <3>1. n \in 0 .. Len(sorted)
      <4>1. n \in 0 .. (Len(sorted) - MaxEvents)
        BY Zenon DEF RemovedCount
      <4>2. Len(sorted) \in Nat
        BY <2>3, LenProperties DEF Consistent
      <4> QED BY <4>1, <4>2, LedgerAssumption
    <3>2. Consistent(kept, keptIDs)
      BY <2>3, <3>1, DropConsistent
    <3>3. PICK q \in Chronological(kept) : events' = Reordered(kept, q)
      BY <2>6
    <3> HIDE DEF kept, keptIDs
    <3>4. q \in Arrangements(DOMAIN kept)
      BY Zenon DEF Chronological
    <3>5. Consistent(Reordered(kept, q), keptIDs)
      BY <3>2, <3>4, ReorderedConsistent
    <3>6. version' \in 0 .. VersionLimit
      BY <2>6, LedgerAssumption
    <3> QED BY <2>6, <3>3, <3>5, <3>6 DEF keptIDs
  <2> QED BY <2>4, <2>5, <2>6
<1> QED BY <1>1, <1>2

(* The inductive invariant: IndexMatchesLog is not inductive alone, as an    *)
(* eviction by position needs the log to be a sequence of events.            *)
LedgerInv == /\ Consistent(events, eventIDs)
             /\ version \in 0 .. VersionLimit
             /\ known \in SUBSET Nara

(* What the invariant says in terms of the module. *)
LEMMA LedgerInvImplies == LedgerInv => LedgerTypeOK /\ IndexMatchesLog
<1> SUFFICES ASSUME LedgerInv PROVE LedgerTypeOK /\ IndexMatchesLog
  OBVIOUS
<1>1. \A i \in DOMAIN events : events[i].id \in Id
  <2>1. \A i \in DOMAIN events : events[i] \in Event
    BY LedgerAssumption, ElementOfSeq, LenProperties DEF LedgerInv, Consistent
  <2> QED BY <2>1 DEF Event
<1>2. eventIDs \in SUBSET Id
  BY <1>1 DEF LedgerInv, Consistent, IdsOf
<1> QED BY <1>2 DEF LedgerInv, Consistent, LedgerTypeOK, IndexMatchesLog, Distinct

(* The new ledger. *)
LEMMA LedgerInvInit == LedgerInit => LedgerInv
<1> SUFFICES ASSUME LedgerInit PROVE LedgerInv
  OBVIOUS
<1>1. events \in Seq(Universe) /\ DOMAIN events = {}
  BY EmptySeq DEF LedgerInit
<1> QED BY <1>1, LedgerAssumption DEF LedgerInit, LedgerInv, Consistent, IdsOf, Distinct

(* The positions an add evicts are positions of the log. *)
LEMMA EvictedInLog ==
  ASSUME NEW s, NEW e
  PROVE  EvictedForPair(s, e) \subseteq DOMAIN s /\ EvictedForPing(s, e) \subseteq DOMAIN s
<1>1. PairIndices(s, e) \subseteq DOMAIN s /\ PingIndices(s, e) \subseteq DOMAIN s
  BY DEF PairIndices, PingIndices
<1>2. \A I : Oldest(s, I) \subseteq I
  BY DEF Oldest
<1>3. EvictedForPair(s, e) \subseteq PairIndices(s, e)
  BY <1>2 DEF EvictedForPair
<1>4. EvictedForPing(s, e) \subseteq PingIndices(s, e)
  BY <1>2 DEF EvictedForPing
<1> QED BY <1>1, <1>3, <1>4

(* Compaction, then the add: consistent whether or not e is accepted. *)
LEMMA ObservationConsistent ==
  ASSUME LedgerInv, NEW e \in Universe, NEW d \in BOOLEAN,
         addObservationWithCompaction(e, d)
  PROVE  Consistent(events', eventIDs') /\ version' \in 0 .. VersionLimit
<1> DEFINE evicted  == EvictedForPair(events, e)
           kept     == Without(events, evicted)
           keptIDs  == eventIDs \ {events[i].id : i \in evicted}
           accepted == e.ok /\ e.id \notin keptIDs
<1>1. /\ evicted # {} => version < VersionLimit
      /\ events' = IF accepted THEN Append(kept, e) ELSE kept
      /\ eventIDs' = IF accepted THEN keptIDs \cup {e.id} ELSE keptIDs
      /\ version' = IF evicted = {} THEN version ELSE version + 1
  BY DEF addObservationWithCompaction
<1>2. evicted \in SUBSET DOMAIN events
  BY EvictedInLog
<1>3. Consistent(kept, keptIDs)
  <2> HIDE DEF evicted
  <2> QED BY <1>2, WithoutConsistent DEF LedgerInv
<1> HIDE DEF evicted, kept, keptIDs
<1>4. ASSUME accepted PROVE Consistent(Append(kept, e), keptIDs \cup {e.id})
  BY <1>3, <1>4, AppendConsistent
<1>5. version' \in 0 .. VersionLimit
  BY <1>1, LedgerAssumption DEF LedgerInv
<1> HIDE DEF accepted
<1> QED BY <1>1, <1>3, <1>4, <1>5

(* AddEvent of anything but an observation. *)
LEMMA NonObservationConsistent ==
  ASSUME LedgerInv, NEW e \in Universe, AddNonObservation(e)
  PROVE  Consistent(events', eventIDs') /\ version' \in 0 .. VersionLimit
<1> DEFINE evicted == EvictedForPing(events, e)
           kept    == Without(events, evicted)
           keptIDs == eventIDs \ {events[i].id : i \in evicted}
           v       == IF evicted = {} THEN version ELSE version + 1
<1>1. /\ e.id \notin eventIDs
      /\ evicted # {} => version < VersionLimit
      /\ PruneTo(Append(kept, e), keptIDs \cup {e.id}, v)
  BY Zenon DEF AddNonObservation
<1>2. evicted \in SUBSET DOMAIN events
  BY EvictedInLog
<1>3. Consistent(kept, keptIDs)
  <2> HIDE DEF evicted
  <2> QED BY <1>2, WithoutConsistent DEF LedgerInv
<1>4. e.id \notin keptIDs
  BY <1>1
<1> HIDE DEF evicted, kept, keptIDs
<1>5. Consistent(Append(kept, e), keptIDs \cup {e.id})
  BY <1>3, <1>4, AppendConsistent
<1>6. v \in 0 .. VersionLimit
  BY <1>1, LedgerAssumption DEF LedgerInv
<1> HIDE DEF v
<1> QED BY <1>1, <1>5, <1>6, PruneConsistent

(* Every operation keeps the invariant. *)
LEMMA LedgerInvNext == LedgerInv /\ [LedgerNext]_ledgerVars => LedgerInv'
<1> SUFFICES ASSUME LedgerInv, [LedgerNext]_ledgerVars PROVE LedgerInv'
  OBVIOUS
<1> USE DEF LedgerInv
<1>1. CASE UNCHANGED ledgerVars
  BY <1>1 DEF ledgerVars, Consistent, IdsOf, Distinct
<1>2. ASSUME NEW e \in Universe, AddEvent(e) PROVE LedgerInv'
  <2>1. known' = known
    BY <1>2, Zenon DEF AddEvent
  <2>2. CASE IsObservation(e)
    <3>1. addObservationWithCompaction(e, FALSE)
      BY <1>2, <2>2, Zenon DEF AddEvent
    <3> QED BY <2>1, <3>1, ObservationConsistent
  <2>3. CASE ~IsObservation(e)
    <3>1. AddNonObservation(e)
      BY <1>2, <2>3, Zenon DEF AddEvent
    <3> QED BY <2>1, <3>1, NonObservationConsistent
  <2> QED BY <2>2, <2>3
<1>3. ASSUME NEW e \in Universe, AddEventWithDedup(e) PROVE LedgerInv'
  <2>1. addObservationWithCompaction(e, TRUE) /\ known' = known
    BY <1>3, Zenon DEF AddEventWithDedup
  <2> QED BY <2>1, ObservationConsistent
<1>4. ASSUME NEW n \in Nara, RemoveEventsFor(n) PROVE LedgerInv'
  <2> DEFINE gone == {i \in DOMAIN events : n \in Involved(events[i])}
  <2>1. /\ version < VersionLimit
        /\ events' = Without(events, gone)
        /\ eventIDs' = eventIDs \ {events[i].id : i \in gone}
        /\ version' = version + 1
        /\ known' = known
    BY <1>4 DEF RemoveEventsFor
  <2>2. gone \in SUBSET DOMAIN events
    OBVIOUS
  <2> HIDE DEF gone
  <2>3. Consistent(Without(events, gone), eventIDs \ {events[i].id : i \in gone})
    BY <2>2, WithoutConsistent
  <2>4. version' \in 0 .. VersionLimit
    BY <2>1, LedgerAssumption
  <2> QED BY <2>1, <2>3, <2>4
<1>5. CASE Prune
  <2>1. PruneTo(events, eventIDs, version) /\ known' = known
    BY <1>5, Zenon DEF Prune
  <2> QED BY <2>1, PruneConsistent
<1>6. ASSUME NEW n \in Nara, KeyLearned(n) \/ KeyForgotten(n) PROVE LedgerInv'
  BY <1>6 DEF KeyLearned, KeyForgotten, Consistent, IdsOf, Distinct
<1> QED BY <1>1, <1>2, <1>3, <1>4, <1>5, <1>6 DEF LedgerNext

(* Every reachable ledger is type-correct (NewSyncLedger and every method).  *)
THEOREM LedgerTypeCorrect == LedgerSpec => []LedgerTypeOK
<1>1. LedgerSpec => []LedgerInv
  BY LedgerInvInit, LedgerInvNext, PTL DEF LedgerSpec
<1> QED BY <1>1, LedgerInvImplies, PTL

(* eventIDs is exactly the set of ids of Events and no id is stored twice,   *)
(* for every event universe, capacity and cap: the evictions of AddEvent and *)
(* addObservationWithCompaction, the prune with its two unstable sorts, and  *)
(* the purge of RemoveEventsFor all keep index and log together.             *)
THEOREM IndexAlwaysMatches == LedgerSpec => []IndexMatchesLog
<1>1. LedgerSpec => []LedgerInv
  BY LedgerInvInit, LedgerInvNext, PTL DEF LedgerSpec
<1> QED BY <1>1, LedgerInvImplies, PTL

-----------------------------------------------------------------------------
(* Logs as sets of events: no event is in a consistent log twice *)

(* The log is finite, and has an event for each position. *)
LEMMA Counted ==
  ASSUME NEW S, NEW s \in Seq(S), Distinct(s), NEW I \in SUBSET DOMAIN s
  PROVE  /\ IsFiniteSet(I) /\ IsFiniteSet({s[i] : i \in I}) /\ IsFiniteSet(Elements(s))
         /\ Cardinality({s[i] : i \in I}) = Cardinality(I)
<1>1. DOMAIN s = 1 .. Len(s) /\ Len(s) \in Nat
  BY LenProperties
<1>2. IsFiniteSet(DOMAIN s)
  BY <1>1, FS_Interval
<1>3. ASSUME NEW J \in SUBSET DOMAIN s
      PROVE  IsFiniteSet({s[i] : i \in J}) /\ Cardinality({s[i] : i \in J}) = Cardinality(J)
  <2> DEFINE T == {s[i] : i \in J}
             f == [i \in J |-> s[i]]
  <2>1. f \in Surjection(J, T)
    BY DEF Surjection
  <2>2. \A i, j \in J : f[i] = f[j] => i = j
    BY DEF Distinct
  <2>3. IsFiniteSet(J) /\ f \in [J -> T]
    BY <1>2, FS_Subset
  <2> HIDE DEF f, T
  <2>4. f \in Injection(J, T)
    BY <2>2, <2>3 DEF Injection, IsInjective
  <2>5. IsFiniteSet(T) /\ Cardinality(T) = Cardinality(J)
    BY <2>1, <2>3, <2>4, FS_Surjection
  <2> QED BY <2>5 DEF T
<1>4. IsFiniteSet(I)
  BY <1>2, FS_Subset
<1>5. IsFiniteSet(Elements(s))
  BY <1>3 DEF Elements
<1> QED BY <1>3, <1>4, <1>5

(* What is selected, appended or left out, as sets. *)
LEMMA SelectionElements ==
  ASSUME NEW s, NEW t, NEW K, Selection(t, s, K)
  PROVE  Elements(t) = {s[i] : i \in K}
BY DEF Selection, Elements

(* What is left when positions are removed. *)
LEMMA WithoutElements ==
  ASSUME NEW S, NEW s \in Seq(S), Distinct(s), NEW I \in SUBSET DOMAIN s
  PROVE  Elements(Without(s, I)) = Elements(s) \ {s[i] : i \in I}
<1>1. Elements(Without(s, I)) = {s[i] : i \in DOMAIN s \ I}
  BY WithoutSelects, SelectionElements
<1>2. \A i, j \in DOMAIN s : s[i] = s[j] => i = j
  BY DEF Distinct
<1> QED BY <1>1, <1>2 DEF Elements

(* What is there when one is appended. *)
LEMMA AppendElements ==
  ASSUME NEW S, NEW s \in Seq(S), NEW e \in S
  PROVE  Elements(Append(s, e)) = Elements(s) \cup {e}
<1> DEFINE t == Append(s, e)
           l == Len(s)
<1>1. l \in Nat /\ DOMAIN s = 1 .. l /\ DOMAIN t = 1 .. (l + 1)
      /\ (\A i \in 1 .. l : t[i] = s[i]) /\ t[l + 1] = e
  BY AppendProperties, LenProperties
<1> HIDE DEF t, l
<1>2. \A i \in DOMAIN t : i \in DOMAIN s \/ i = l + 1
  BY <1>1
<1>3. DOMAIN s \subseteq DOMAIN t /\ l + 1 \in DOMAIN t
  BY <1>1
<1>4. Elements(t) = Elements(s) \cup {e}
  BY <1>1, <1>2, <1>3 DEF Elements
<1> QED BY <1>4 DEF t

(* A sort neither adds nor removes. *)
LEMMA ReorderedElements ==
  ASSUME NEW S, NEW s \in Seq(S), NEW p \in Arrangements(DOMAIN s)
  PROVE  Elements(Reordered(s, p)) = Elements(s)
<1>1. Selection(Reordered(s, p), s, DOMAIN s)
  BY ReorderedSelects
<1>2. Elements(Reordered(s, p)) = {s[i] : i \in DOMAIN s}
  BY <1>1, SelectionElements
<1> QED BY <1>2 DEF Elements

(* A non-empty set of positions has an oldest event, and only one. *)
LEMMA LeastMember ==
  ASSUME NEW K \in SUBSET Nat, IsFiniteSet(K), K # {}
  PROVE  \E i \in K : \A j \in K : i <= j
<1>1. Cardinality(K) \in Nat /\ Cardinality(K) # 0
  BY FS_CardinalityType, FS_EmptySet
<1>2. 1 \in 1 .. Cardinality(K)
  BY <1>1
<1>3. \E i \in K : Rank(K, i) = 1
  BY <1>2, NthFacts
<1>4. PICK i \in K : Rank(K, i) = 1
  BY <1>3
<1>5. ASSUME NEW j \in K PROVE i <= j
  <2>1. ~(j < i)
    <3>1. Rank(K, j) \in 1 .. Cardinality(K)
      BY RankFacts
    <3>2. j < i => Rank(K, j) < Rank(K, i)
      BY RankFacts
    <3> QED BY <1>1, <1>4, <3>1, <3>2
  <2> QED BY <2>1
<1> QED BY <1>4, <1>5

(* There is one oldest position, if any. *)
LEMMA OldestFacts ==
  ASSUME NEW s \in Seq(Universe), NEW I \in SUBSET DOMAIN s
  PROVE  /\ Oldest(s, I) \subseteq I
         /\ \A i, j \in Oldest(s, I) : i = j
         /\ I # {} => Oldest(s, I) # {}
<1>1. DOMAIN s = 1 .. Len(s) /\ Len(s) \in Nat
  BY LenProperties
<1>2. \A i \in DOMAIN s : i \in Nat /\ s[i].ts \in Nat
  <2>1. \A i \in DOMAIN s : s[i] \in Event
    BY LedgerAssumption, ElementOfSeq, LenProperties
  <2> QED BY <1>1, <2>1 DEF Event
<1>3. \A i, j \in Oldest(s, I) : i = j
  BY <1>2 DEF Oldest
<1>4. ASSUME I # {} PROVE Oldest(s, I) # {}
  <2>1. IsFiniteSet(DOMAIN s)
    BY <1>1, FS_Interval
  <2>2. IsFiniteSet(I)
    BY <2>1, FS_Subset
  <2> DEFINE T == {s[i].ts : i \in I}
             f == [i \in I |-> s[i].ts]
  <2>3. f \in Surjection(I, T)
    BY DEF Surjection
  <2>4. T \in SUBSET Nat /\ T # {}
    BY <1>2, <1>4
  <2>5. IsFiniteSet(T)
    <3> HIDE DEF T, f
    <3> QED BY <2>2, <2>3, FS_Surjection
  <2>6. PICK t \in T : \A u \in T : t <= u
    <3> HIDE DEF T
    <3> QED BY <2>4, <2>5, LeastMember
  <2> DEFINE J == {i \in I : s[i].ts = t}
  <2>7. J \in SUBSET Nat /\ J # {} /\ J \in SUBSET I
    BY <1>2, <2>6
  <2>8. IsFiniteSet(J)
    BY <2>2, <2>7, FS_Subset
  <2>9. PICK i \in J : \A j \in J : i <= j
    <3> HIDE DEF J
    <3> QED BY <2>7, <2>8, LeastMember
  <2>10. \A j \in I : t <= s[j].ts /\ t \in Nat
    BY <2>4, <2>6
  <2>11. i \in Oldest(s, I)
    BY <1>2, <2>9, <2>10 DEF Oldest
  <2> QED BY <2>11
<1> QED BY <1>3, <1>4 DEF Oldest

-----------------------------------------------------------------------------
(* What a step does to the set of events *)

(* A prune only takes events away, and none that is critical.                *)
LEMMA PruneElements ==
  ASSUME NEW STATE s, NEW STATE ids, NEW STATE v, Consistent(s, ids), PruneTo(s, ids, v)
  PROVE  /\ Elements(events') \subseteq Elements(s)
         /\ \A e \in Elements(s) \ Elements(events') : ~Critical(e)
         /\ Len(events') > MaxEvents =>
              \/ \A e \in Elements(events') : Critical(e)
              \/ \E e \in Elements(events') : Critical(e) /\ isEventFromUnknownNara(e)
<1>1. CASE Len(s) <= MaxEvents
  <2>1. events' = s
    BY <1>1 DEF PruneTo
  <2>2. Len(s) \in Nat
    BY LenProperties DEF Consistent
  <2>3. ~(Len(s) > MaxEvents)
    BY <1>1, <2>2, LedgerAssumption
  <2> QED BY <2>1, <2>3
<1>2. CASE ~(Len(s) <= MaxEvents)
  <2>1. PICK p \in PruneOrders(s) : \E n \in RemovedCount(Reordered(s, p)) :
               \/ n = 0 /\ events' = Reordered(s, p)
               \/ \E q \in Chronological(SubSeq(Reordered(s, p), n + 1, Len(Reordered(s, p)))) :
                    events' = Reordered(SubSeq(Reordered(s, p), n + 1, Len(Reordered(s, p))), q)
    BY <1>2, Zenon DEF PruneTo
  <2> DEFINE sorted == Reordered(s, p)
             l == Len(sorted)
  <2>2. PICK n \in RemovedCount(sorted) :
               \/ n = 0 /\ events' = sorted
               \/ \E q \in Chronological(SubSeq(sorted, n + 1, l)) :
                    events' = Reordered(SubSeq(sorted, n + 1, l), q)
    BY <2>1
  <2>3. p \in Arrangements(DOMAIN s)
        /\ \A j, k \in DOMAIN s : j < k => ~PrunedBefore(s[p[k]], s[p[j]])
    BY Zenon DEF PruneOrders
  <2>4. s \in Seq(Universe)
    BY DEF Consistent
  <2>5. /\ sorted \in Seq(Universe) /\ DOMAIN sorted = DOMAIN s /\ l = Len(s)
        /\ Elements(sorted) = Elements(s)
    BY <2>3, <2>4, ReorderedSelects, ReorderedElements
  <2>6. \A j, k \in DOMAIN sorted : j < k => ~PrunedBefore(sorted[k], sorted[j])
    BY <2>3, <2>5 DEF Reordered
  <2>7. DOMAIN sorted = 1 .. l /\ l \in Nat
    BY <2>5, LenProperties
  <2>8. /\ n \in 0 .. (l - MaxEvents)
        /\ \A i \in 1 .. n : ~Critical(sorted[i])
        /\ n = l - MaxEvents \/ Critical(sorted[n + 1])
    BY Zenon DEF RemovedCount
  <2> DEFINE kept == SubSeq(sorted, n + 1, l)
  <2> HIDE DEF sorted, l
  <2>9. n \in 0 .. l /\ n \in Nat
    BY <2>7, <2>8, LedgerAssumption
  <2>10. kept \in Seq(Universe) /\ Elements(kept) = {sorted[i] : i \in (n + 1) .. l}
    BY <2>5, <2>9, DropSelects, SelectionElements DEF l
  <2>11. Len(kept) = l - n
    BY <2>5, <2>7, <2>9, SubSeqProperties, DropSelects, LenProperties
  <2> HIDE DEF kept
  <2>12. events' \in Seq(Universe) /\ Elements(events') = {sorted[i] : i \in (n + 1) .. l}
         /\ Len(events') = l - n
    <3>1. CASE n = 0 /\ events' = sorted
      BY <2>5, <2>7, <3>1 DEF Elements, l
    <3>2. CASE \E q \in Chronological(kept) : events' = Reordered(kept, q)
      <4>1. PICK q \in Chronological(kept) : events' = Reordered(kept, q)
        BY <3>2
      <4>2. q \in Arrangements(DOMAIN kept)
        BY Zenon DEF Chronological
      <4> QED BY <2>10, <2>11, <4>1, <4>2, ReorderedSelects, ReorderedElements
    <3> QED BY <2>2, <3>1, <3>2 DEF kept
  <2>13. Elements(s) = {sorted[i] : i \in 1 .. l}
    BY <2>5, <2>7 DEF Elements
  <2>14. \A i \in 1 .. l : i \in 1 .. n \/ i \in (n + 1) .. l
    BY <2>7, <2>9
  <2>15. (n + 1) .. l \subseteq 1 .. l
    BY <2>7, <2>9
  <2>16. ASSUME Len(events') > MaxEvents, ~isEventFromUnknownNara(sorted[n + 1])
         PROVE  \A i \in (n + 1) .. l : Critical(sorted[i])
    <3>1. Critical(sorted[n + 1]) /\ n + 1 \in 1 .. l
      BY <2>7, <2>8, <2>12, <2>16, LedgerAssumption
    <3> SUFFICES ASSUME NEW i \in (n + 2) .. l PROVE Critical(sorted[i])
      BY <2>7, <2>9, <3>1
    <3>2. ~PrunedBefore(sorted[i], sorted[n + 1])
      BY <2>6, <2>7, <2>9, <3>1
    <3>3. eventPruningPriority(sorted[n + 1]) = 0
      BY <3>1 DEF Critical
    <3>4. eventPruningPriority(sorted[i]) \in 0 .. 4
      <4>1. sorted[i] \in Event
        BY <2>5, <2>7, <2>9, LedgerAssumption, ElementOfSeq DEF l
      <4>2. sorted[i].kind \in Kind
        BY <4>1 DEF Event
      <4> QED BY <4>2 DEF Kind, ObservationKind, eventPruningPriority
    <3>5. ~isEventFromUnknownNara(sorted[i])
      BY <2>16, <3>2 DEF PrunedBefore, isEventFromUnknownNara
    <3>6. ~(eventPruningPriority(sorted[i]) > eventPruningPriority(sorted[n + 1]))
      BY <2>16, <3>2, <3>3, <3>4, <3>5 DEF PrunedBefore, isEventFromUnknownNara
    <3> QED BY <3>3, <3>4, <3>6 DEF Critical
  <2>17. Len(events') > MaxEvents => Critical(sorted[n + 1]) /\ n + 1 \in (n + 1) .. l
    BY <2>7, <2>8, <2>9, <2>12, LedgerAssumption
  <2> QED BY <2>8, <2>12, <2>13, <2>14, <2>15, <2>16, <2>17
<1> QED BY <1>1, <1>2

(* Compaction takes at most one event away, of the pair of the one that      *)
(* comes in, and adds at most that one.                                      *)
LEMMA ObservationElements ==
  ASSUME LedgerInv, NEW e \in Universe, NEW d \in BOOLEAN,
         addObservationWithCompaction(e, d)
  PROVE  LET gone == {events[i] : i \in EvictedForPair(events, e)}
         IN  /\ Elements(events') \subseteq (Elements(events) \ gone) \cup {e}
             /\ Elements(events) \ gone \subseteq Elements(events')
<1> DEFINE evicted  == EvictedForPair(events, e)
           gone     == {events[i] : i \in evicted}
           kept     == Without(events, evicted)
           accepted == e.ok /\ e.id \notin eventIDs \ {events[i].id : i \in evicted}
<1>1. events' = IF accepted THEN Append(kept, e) ELSE kept
  BY DEF addObservationWithCompaction
<1>2. evicted \in SUBSET DOMAIN events
  BY EvictedInLog
<1>3. events \in Seq(Universe) /\ Distinct(events)
  BY DEF LedgerInv, Consistent
<1>4. kept \in Seq(Universe) /\ Elements(kept) = Elements(events) \ gone
  <2> HIDE DEF evicted
  <2> QED BY <1>2, <1>3, WithoutSelects, WithoutElements
<1> HIDE DEF kept, accepted
<1>5. Elements(Append(kept, e)) = Elements(kept) \cup {e}
  BY <1>4, AppendElements
<1> HIDE DEF gone
<1>6. Elements(events') \subseteq (Elements(events) \ gone) \cup {e}
      /\ Elements(events) \ gone \subseteq Elements(events')
  BY <1>1, <1>4, <1>5
<1> QED BY <1>6 DEF gone

(* Any other add takes at most a ping of the same target away before it      *)
(* prunes.                                                                   *)
LEMMA NonObservationElements ==
  ASSUME LedgerInv, NEW e \in Universe, AddNonObservation(e)
  PROVE  LET gone == {events[i] : i \in EvictedForPing(events, e)}
         IN  /\ Elements(events') \subseteq (Elements(events) \ gone) \cup {e}
             /\ \A f \in (Elements(events) \ gone) \ Elements(events') : ~Critical(f)
             /\ Len(events') > MaxEvents =>
                  \/ \A f \in Elements(events') : Critical(f)
                  \/ \E f \in Elements(events') : Critical(f) /\ isEventFromUnknownNara(f)
<1> DEFINE evicted == EvictedForPing(events, e)
           gone    == {events[i] : i \in evicted}
           kept    == Without(events, evicted)
           keptIDs == eventIDs \ {events[i].id : i \in evicted}
           v       == IF evicted = {} THEN version ELSE version + 1
<1>1. /\ e.id \notin eventIDs
      /\ PruneTo(Append(kept, e), keptIDs \cup {e.id}, v)
  BY Zenon DEF AddNonObservation
<1>2. evicted \in SUBSET DOMAIN events
  BY EvictedInLog
<1>3. events \in Seq(Universe) /\ Distinct(events)
  BY DEF LedgerInv, Consistent
<1>4. Consistent(kept, keptIDs) /\ Elements(kept) = Elements(events) \ gone
  <2> HIDE DEF evicted
  <2> QED BY <1>2, <1>3, WithoutConsistent, WithoutElements DEF LedgerInv
<1>5. e.id \notin keptIDs
  BY <1>1
<1> HIDE DEF evicted, kept, keptIDs, v
<1>6. Consistent(Append(kept, e), keptIDs \cup {e.id})
  BY <1>4, <1>5, AppendConsistent
<1>7. Elements(Append(kept, e)) = Elements(kept) \cup {e}
  BY <1>4, AppendElements DEF Consistent
<1>8. /\ Elements(events') \subseteq Elements(Append(kept, e))
      /\ \A f \in Elements(Append(kept, e)) \ Elements(events') : ~Critical(f)
      /\ Len(events') > MaxEvents =>
                  \/ \A f \in Elements(events') : Critical(f)
                  \/ \E f \in Elements(events') : Critical(f) /\ isEventFromUnknownNara(f)
  BY <1>1, <1>6, PruneElements
<1> HIDE DEF gone
<1>9. /\ Elements(events') \subseteq (Elements(events) \ gone) \cup {e}
      /\ \A f \in (Elements(events) \ gone) \ Elements(events') : ~Critical(f)
  BY <1>4, <1>7, <1>8
<1> QED BY <1>8, <1>9 DEF gone, evicted

(* A purge takes away what involves the nara, and nothing else. *)
LEMMA PurgeElements ==
  ASSUME LedgerInv, NEW n, RemoveEventsFor(n)
  PROVE  Elements(events') = {e \in Elements(events) : n \notin Involved(e)}
<1> DEFINE gone == {i \in DOMAIN events : n \in Involved(events[i])}
<1>1. events' = Without(events, gone)
  BY DEF RemoveEventsFor
<1>2. events \in Seq(Universe) /\ Distinct(events)
  BY DEF LedgerInv, Consistent
<1>3. gone \in SUBSET DOMAIN events
  OBVIOUS
<1>4. Elements(events') = Elements(events) \ {events[i] : i \in gone}
  <2> HIDE DEF gone
  <2> QED BY <1>1, <1>2, <1>3, WithoutElements
<1>5. \A e \in Elements(events) : e \in {events[i] : i \in gone} <=> n \in Involved(e)
  BY DEF Elements
<1> QED BY <1>4, <1>5

-----------------------------------------------------------------------------
(* The caps *)

Pings(E, n) == {e \in E : e.kind = "ping" /\ e.about = n}
Pair(E, o, n) == {e \in E : IsObservation(e) /\ e.from = o /\ e.about = n}
Soft(E, o, n) == {e \in Pair(E, o, n) : e.kind # "restart"}

\* Both caps, on the log as a set: PingsBounded and OverCapOnlyRestarts.
Capped(E) ==
  /\ \A n : Cardinality(Pings(E, n)) <= MaxPingsPerTarget
  /\ \A o, n : Cardinality(Pair(E, o, n)) > MaxObservationsPerPair =>
                 Cardinality(Soft(E, o, n)) <= 1

(* The selections of a finite set are finite, and grow with it.              *)
LEMMA Fewer ==
  ASSUME NEW E, IsFiniteSet(E), NEW A \in SUBSET E, NEW B \in SUBSET A
  PROVE  /\ IsFiniteSet(A) /\ IsFiniteSet(B)
         /\ Cardinality(A) \in Nat /\ Cardinality(B) \in Nat
         /\ Cardinality(B) <= Cardinality(A)
<1>1. IsFiniteSet(A)
  BY FS_Subset
<1> QED BY <1>1, FS_Subset, FS_CardinalityType

(* A log that only lost events keeps to its caps. *)
LEMMA CappedSubset ==
  ASSUME NEW E, IsFiniteSet(E), Capped(E), NEW F \in SUBSET E
  PROVE  Capped(F)
<1>1. ASSUME NEW n PROVE Cardinality(Pings(F, n)) <= MaxPingsPerTarget
  <2>1. Pings(F, n) \subseteq Pings(E, n) /\ Pings(E, n) \subseteq E
    BY DEF Pings
  <2> QED BY <2>1, Fewer, LedgerAssumption DEF Capped
<1>2. ASSUME NEW o, NEW n, Cardinality(Pair(F, o, n)) > MaxObservationsPerPair
      PROVE  Cardinality(Soft(F, o, n)) <= 1
  <2>1. /\ Pair(F, o, n) \subseteq Pair(E, o, n) /\ Pair(E, o, n) \subseteq E
        /\ Soft(F, o, n) \subseteq Soft(E, o, n) /\ Soft(E, o, n) \subseteq E
    BY DEF Pair, Soft
  <2>2. Cardinality(Pair(E, o, n)) > MaxObservationsPerPair
    BY <1>2, <2>1, Fewer, LedgerAssumption
  <2> QED BY <2>1, <2>2, Fewer DEF Capped
<1> QED BY <1>1, <1>2 DEF Capped

(* One event replaced by another, or added. *)
LEMMA Swapped ==
  ASSUME NEW A, IsFiniteSet(A), NEW D \in SUBSET A, NEW e, NEW B \in SUBSET ((A \ D) \cup {e})
  PROVE  /\ IsFiniteSet(B) /\ Cardinality(B) \in Nat /\ Cardinality(A) \in Nat
         /\ Cardinality(B) <= Cardinality(A) + 1
         /\ D # {} => Cardinality(B) <= Cardinality(A)
<1>1. IsFiniteSet(A \ D) /\ Cardinality(A \ D) \in Nat /\ Cardinality(A) \in Nat
      /\ Cardinality(A \ D) <= Cardinality(A)
  BY FS_Subset, FS_CardinalityType
<1>2. IsFiniteSet((A \ D) \cup {e}) /\ Cardinality((A \ D) \cup {e}) \in Nat
      /\ Cardinality((A \ D) \cup {e}) <= Cardinality(A \ D) + 1
  <2> DEFINE R == A \ D
  <2>1. IsFiniteSet(R) /\ Cardinality(R) \in Nat
    BY <1>1
  <2> HIDE DEF R
  <2>2. IsFiniteSet(R \cup {e}) /\ Cardinality(R \cup {e}) \in Nat
        /\ Cardinality(R \cup {e}) <= Cardinality(R) + 1
    BY <2>1, FS_AddElement, FS_CardinalityType
  <2> QED BY <2>2 DEF R
<1>3. IsFiniteSet(B) /\ Cardinality(B) \in Nat /\ Cardinality(B) <= Cardinality((A \ D) \cup {e})
  BY <1>2, FS_Subset, FS_CardinalityType
<1>4. ASSUME D # {} PROVE Cardinality(A \ D) <= Cardinality(A) - 1
  <2>1. PICK x \in D : TRUE
    BY <1>4
  <2>2. IsFiniteSet(A \ {x}) /\ Cardinality(A \ {x}) = Cardinality(A) - 1
    BY FS_RemoveElement
  <2>3. A \ D \subseteq A \ {x}
    BY <2>1
  <2> QED BY <2>2, <2>3, FS_Subset
<1> QED BY <1>1, <1>2, <1>3, <1>4

(* A ping comes in: at the limit, the oldest of its target made room.        *)
LEMMA PingCapped ==
  ASSUME LedgerInv, Capped(Elements(events)), NEW e \in Universe, ~IsObservation(e),
         NEW F \in SUBSET ((Elements(events) \ {events[i] : i \in EvictedForPing(events, e)}) \cup {e})
  PROVE  Capped(F)
<1> DEFINE E == Elements(events)
           evicted == EvictedForPing(events, e)
           gone == {events[i] : i \in evicted}
           P == PingIndices(events, e)
<1>1. events \in Seq(Universe) /\ Distinct(events)
  BY DEF LedgerInv, Consistent
<1>2. P \in SUBSET DOMAIN events /\ {events[i] : i \in P} = Pings(E, e.about)
  BY DEF PingIndices, Pings, Elements
<1>3. IsFiniteSet(E) /\ Cardinality(Pings(E, e.about)) = Cardinality(P)
  <2> HIDE DEF E, P
  <2> QED BY <1>1, <1>2, Counted DEF E
<1>4. Capped(E)
  OBVIOUS
<1>5. ASSUME e.kind = "ping"
      PROVE  gone \in SUBSET Pings(E, e.about)
             /\ (gone # {} \/ Cardinality(Pings(E, e.about)) < MaxPingsPerTarget)
  <2>1. CASE Cardinality(P) >= MaxPingsPerTarget
    <3>1. evicted = Oldest(events, P)
      BY <1>5, <2>1 DEF EvictedForPing
    <3>2. P # {}
      <4>1. Cardinality(P) # 0
        BY <2>1, LedgerAssumption
      <4> QED BY <4>1, FS_EmptySet
    <3>3. evicted \subseteq P /\ evicted # {}
      <4> HIDE DEF P, evicted
      <4> QED BY <1>1, <1>2, <3>1, <3>2, OldestFacts
    <3> HIDE DEF evicted, P, E
    <3> QED BY <1>2, <3>3
  <2>2. CASE ~(Cardinality(P) >= MaxPingsPerTarget)
    <3>1. evicted = {}
      BY <2>2 DEF EvictedForPing
    <3>2. Cardinality(P) \in Nat
      <4> HIDE DEF P
      <4> QED BY <1>1, <1>2, Counted, FS_CardinalityType
    <3> HIDE DEF P, evicted, E
    <3> QED BY <1>3, <2>2, <3>1, <3>2, LedgerAssumption
  <2> QED BY <2>1, <2>2
<1> HIDE DEF E, evicted, gone, P
<1>6. F \subseteq (E \ gone) \cup {e}
  BY DEF E, evicted, gone
<1>7. ASSUME NEW n PROVE Cardinality(Pings(F, n)) <= MaxPingsPerTarget
  <2>1. Pings(E, n) \subseteq E /\ Cardinality(Pings(E, n)) <= MaxPingsPerTarget
    BY <1>4 DEF Pings, Capped
  <2>2. IsFiniteSet(Pings(E, n))
    BY <1>3, <2>1, Fewer
  <2>3. CASE e.kind = "ping" /\ e.about = n
    <3>1. gone \in SUBSET Pings(E, n)
          /\ (gone # {} \/ Cardinality(Pings(E, n)) < MaxPingsPerTarget)
      BY <1>5, <2>3
    <3>2. Pings(F, n) \in SUBSET ((Pings(E, n) \ gone) \cup {e})
      BY <1>6 DEF Pings
    <3>3. /\ Cardinality(Pings(F, n)) \in Nat /\ Cardinality(Pings(E, n)) \in Nat
          /\ Cardinality(Pings(F, n)) <= Cardinality(Pings(E, n)) + 1
          /\ gone # {} => Cardinality(Pings(F, n)) <= Cardinality(Pings(E, n))
      BY <2>2, <3>1, <3>2, Swapped
    <3> QED BY <2>1, <3>1, <3>3, LedgerAssumption
  <2>4. CASE ~(e.kind = "ping" /\ e.about = n)
    <3>1. Pings(F, n) \subseteq Pings(E, n)
      BY <1>6, <2>4 DEF Pings
    <3> QED BY <1>3, <2>1, <3>1, Fewer, LedgerAssumption
  <2> QED BY <2>3, <2>4
<1>8. ASSUME NEW o, NEW n, Cardinality(Pair(F, o, n)) > MaxObservationsPerPair
      PROVE  Cardinality(Soft(F, o, n)) <= 1
  <2>1. /\ Pair(F, o, n) \subseteq Pair(E, o, n) /\ Pair(E, o, n) \subseteq E
        /\ Soft(F, o, n) \subseteq Soft(E, o, n) /\ Soft(E, o, n) \subseteq E
    BY <1>6 DEF Pair, Soft
  <2>2. Cardinality(Pair(E, o, n)) > MaxObservationsPerPair
    BY <1>3, <1>8, <2>1, Fewer, LedgerAssumption
  <2> QED BY <1>3, <1>4, <2>1, <2>2, Fewer DEF Capped
<1> QED BY <1>7, <1>8 DEF Capped

(* An observation comes in: at the cap a non-restart of its pair made room   *)
(* if there was one, and otherwise all that is left of the pair are restarts.*)
LEMMA ObservationCapped ==
  ASSUME LedgerInv, Capped(Elements(events)), NEW e \in Universe, IsObservation(e),
         NEW F \in SUBSET ((Elements(events) \ {events[i] : i \in EvictedForPair(events, e)}) \cup {e})
  PROVE  Capped(F)
<1> DEFINE E == Elements(events)
           evicted == EvictedForPair(events, e)
           gone == {events[i] : i \in evicted}
           P == PairIndices(events, e)
           Q == {i \in P : events[i].kind # "restart"}
           pair == Pair(E, e.from, e.about)
           soft == Soft(E, e.from, e.about)
<1>1. events \in Seq(Universe) /\ Distinct(events)
  BY DEF LedgerInv, Consistent
<1>2. /\ P \in SUBSET DOMAIN events /\ {events[i] : i \in P} = pair
      /\ Q \in SUBSET DOMAIN events /\ {events[i] : i \in Q} = soft
  BY DEF PairIndices, Pair, Soft, Elements
<1>3. IsFiniteSet(E) /\ Cardinality(pair) = Cardinality(P)
  <2> HIDE DEF E, P, pair, soft, Q
  <2> QED BY <1>1, <1>2, Counted DEF E
<1>4. Capped(E)
  OBVIOUS
<1>5. /\ pair \subseteq E /\ soft \subseteq pair
      /\ Cardinality(pair) \in Nat /\ Cardinality(soft) \in Nat
      /\ IsFiniteSet(pair) /\ IsFiniteSet(soft)
  <2>1. pair \subseteq E /\ soft \subseteq pair
    BY DEF Pair, Soft
  <2> HIDE DEF pair, soft, E
  <2> QED BY <1>3, <2>1, Fewer
<1>6. \/ Cardinality(pair) < MaxObservationsPerPair
      \/ gone \subseteq soft /\ gone # {}
      \/ soft = {}
  <2>1. CASE Cardinality(P) >= MaxObservationsPerPair /\ Q # {}
    <3>1. evicted = Oldest(events, Q)
      <4>1. ~(Cardinality(P) < MaxObservationsPerPair)
        <5> HIDE DEF P, pair
        <5> QED BY <1>3, <1>5, <2>1, LedgerAssumption
      <4> QED BY <2>1, <4>1 DEF EvictedForPair
    <3> HIDE DEF P, Q, evicted, E, soft, pair
    <3>2. evicted \subseteq Q /\ evicted # {}
      BY <1>1, <1>2, <2>1, <3>1, OldestFacts
    <3> QED BY <1>2, <3>2
  <2>2. CASE Q = {}
    <3> HIDE DEF Q, E, soft, pair
    <3> QED BY <1>2, <2>2
  <2> HIDE DEF P, Q, E, soft, pair, evicted
  <2> QED BY <1>3, <1>5, <2>1, <2>2, LedgerAssumption
<1> HIDE DEF E, evicted, gone, P, Q, pair, soft
<1>7. F \subseteq (E \ gone) \cup {e}
  BY DEF E, evicted, gone
<1>8. ASSUME NEW n PROVE Cardinality(Pings(F, n)) <= MaxPingsPerTarget
  <2>1. Pings(E, n) \subseteq E /\ Cardinality(Pings(E, n)) <= MaxPingsPerTarget
    BY <1>4 DEF Pings, Capped
  <2>2. Pings(F, n) \subseteq Pings(E, n)
    BY <1>7 DEF Pings, IsObservation, ObservationKind
  <2> QED BY <1>3, <2>1, <2>2, Fewer, LedgerAssumption
<1>9. ASSUME NEW o, NEW n, Cardinality(Pair(F, o, n)) > MaxObservationsPerPair
      PROVE  Cardinality(Soft(F, o, n)) <= 1
  <2>1. CASE o = e.from /\ n = e.about
    <3>1. /\ Pair(F, o, n) \subseteq (pair \ gone) \cup {e}
          /\ Soft(F, o, n) \subseteq (soft \ gone) \cup {e}
      BY <1>7, <2>1 DEF Pair, Soft, pair, soft
    <3>2. CASE Cardinality(pair) < MaxObservationsPerPair
      <4>1. Pair(F, o, n) \in SUBSET ((pair \ {}) \cup {e}) /\ {} \in SUBSET pair
        BY <3>1
      <4>2. Cardinality(Pair(F, o, n)) \in Nat /\ Cardinality(Pair(F, o, n)) <= Cardinality(pair) + 1
        BY <1>5, <4>1, Swapped
      <4> QED BY <1>5, <1>9, <3>2, <4>2, LedgerAssumption
    <3>3. CASE gone \subseteq soft /\ gone # {}
      <4>1. Cardinality(Pair(F, o, n)) <= Cardinality(pair)
        BY <1>5, <3>1, <3>3, Swapped
      <4>2. Cardinality(Pair(F, o, n)) \in Nat
        BY <1>5, <3>1, <3>3, Swapped
      <4>3. Cardinality(soft) <= 1
        BY <1>4, <1>5, <1>9, <2>1, <4>1, <4>2, LedgerAssumption DEF Capped, pair, soft
      <4>4. Cardinality(Soft(F, o, n)) \in Nat /\ Cardinality(Soft(F, o, n)) <= Cardinality(soft)
        BY <1>5, <3>1, <3>3, Swapped
      <4> QED BY <1>5, <4>3, <4>4
    <3>4. CASE soft = {}
      <4>1. Soft(F, o, n) \in SUBSET {e}
        BY <3>1, <3>4
      <4>2. IsFiniteSet({e}) /\ Cardinality({e}) = 1 /\ {e} \in SUBSET {e}
        BY FS_Singleton
      <4>3. Cardinality(Soft(F, o, n)) <= Cardinality({e})
        BY <4>1, <4>2, Fewer
      <4> QED BY <4>2, <4>3
    <3> QED BY <1>6, <3>2, <3>3, <3>4
  <2>2. CASE ~(o = e.from /\ n = e.about)
    <3>1. /\ Pair(F, o, n) \subseteq Pair(E, o, n) /\ Pair(E, o, n) \subseteq E
          /\ Soft(F, o, n) \subseteq Soft(E, o, n) /\ Soft(E, o, n) \subseteq E
      BY <1>7, <2>2 DEF Pair, Soft
    <3>2. Cardinality(Pair(E, o, n)) > MaxObservationsPerPair
      BY <1>3, <1>9, <3>1, Fewer, LedgerAssumption
    <3> QED BY <1>3, <1>4, <3>1, <3>2, Fewer DEF Capped
  <2> QED BY <2>1, <2>2
<1> QED BY <1>8, <1>9 DEF Capped

-----------------------------------------------------------------------------
(* The caps hold, and critical history stays *)


(* The steps of the ledger, by what they do to the events. *)
LEMMA LedgerSteps ==
  ASSUME [LedgerNext]_ledgerVars
  PROVE  \/ events' = events
         \/ \E e \in Universe : IsObservation(e)
              /\ (addObservationWithCompaction(e, FALSE) \/ addObservationWithCompaction(e, TRUE))
         \/ \E e \in Universe : ~IsObservation(e) /\ AddNonObservation(e) /\ known' = known
         \/ \E n \in Nara : RemoveEventsFor(n)
         \/ PruneTo(events, eventIDs, version)
<1>1. CASE UNCHANGED ledgerVars
  BY <1>1 DEF ledgerVars
<1>2. CASE \E n \in Nara : KeyLearned(n) \/ KeyForgotten(n)
  BY <1>2 DEF KeyLearned, KeyForgotten
<1>3. CASE Prune
  BY <1>3, Zenon DEF Prune
<1>4. CASE \E e \in Universe : AddEvent(e)
  BY <1>4, Zenon DEF AddEvent
<1>5. CASE \E e \in Universe : AddEventWithDedup(e)
  BY <1>5, Zenon DEF AddEventWithDedup
<1> QED BY <1>1, <1>2, <1>3, <1>4, <1>5, Zenon DEF LedgerNext

(* Whatever the step, the caps stay. *)
LEMMA CappedNext ==
  ASSUME LedgerInv, Capped(Elements(events)), [LedgerNext]_ledgerVars
  PROVE  Capped(Elements(events'))
<1> DEFINE F == Elements(events')
<1>1. IsFiniteSet(Elements(events)) /\ Consistent(events, eventIDs)
  BY Counted DEF LedgerInv, Consistent
<1>2. CASE events' = events
  BY <1>2
<1>3. CASE \E e \in Universe : IsObservation(e)
              /\ (addObservationWithCompaction(e, FALSE) \/ addObservationWithCompaction(e, TRUE))
  <2>1. PICK e \in Universe, d \in BOOLEAN : IsObservation(e) /\ addObservationWithCompaction(e, d)
    BY <1>3, Zenon
  <2>2. F \subseteq (Elements(events) \ {events[i] : i \in EvictedForPair(events, e)}) \cup {e}
    BY <2>1, ObservationElements
  <2> HIDE DEF F
  <2>3. Capped(F)
    BY <2>1, <2>2, ObservationCapped
  <2> QED BY <2>3 DEF F
<1>4. CASE \E e \in Universe : ~IsObservation(e) /\ AddNonObservation(e) /\ known' = known
  <2>1. PICK e \in Universe : ~IsObservation(e) /\ AddNonObservation(e)
    BY <1>4, Zenon
  <2>2. F \subseteq (Elements(events) \ {events[i] : i \in EvictedForPing(events, e)}) \cup {e}
    BY <2>1, NonObservationElements
  <2> HIDE DEF F
  <2>3. Capped(F)
    BY <2>1, <2>2, PingCapped
  <2> QED BY <2>3 DEF F
<1>5. CASE \E n \in Nara : RemoveEventsFor(n)
  <2>1. F \subseteq Elements(events)
    BY <1>5, PurgeElements
  <2> QED BY <1>1, <2>1, CappedSubset
<1>6. CASE PruneTo(events, eventIDs, version)
  <2>1. F \subseteq Elements(events)
    BY <1>1, <1>6, PruneElements
  <2> QED BY <1>1, <2>1, CappedSubset
<1> QED BY <1>2, <1>3, <1>4, <1>5, <1>6, LedgerSteps

CapInv == LedgerInv /\ Capped(Elements(events))

(* The caps hold in every execution. *)
LEMMA CapInvariant == LedgerSpec => []CapInv
<1>1. LedgerInit => CapInv
  <2> SUFFICES ASSUME LedgerInit PROVE CapInv
    OBVIOUS
  <2>1. Elements(events) = {}
    BY DEF LedgerInit, Elements
  <2>2. Cardinality({}) = 0
    BY FS_EmptySet
  <2>3. \A n : Pings({}, n) = {}
    BY DEF Pings
  <2>4. \A o, n : Pair({}, o, n) = {}
    BY DEF Pair
  <2>5. /\ \A n : Cardinality(Pings({}, n)) = 0
        /\ \A o, n : Cardinality(Pair({}, o, n)) = 0
    BY <2>2, <2>3, <2>4
  <2>6. 0 <= MaxPingsPerTarget /\ ~(0 > MaxObservationsPerPair)
    BY LedgerAssumption
  <2>7. Capped({})
    BY <2>5, <2>6, Zenon DEF Capped
  <2> QED BY <2>1, <2>7, LedgerInvInit DEF CapInv
<1>2. CapInv /\ [LedgerNext]_ledgerVars => CapInv'
  BY LedgerInvNext, CappedNext DEF CapInv
<1> QED BY <1>1, <1>2, PTL DEF LedgerSpec

(* AddEvent keeps at most MaxPingsPerTarget pings about a target             *)
(* (PingsBounded), whatever the order of arrival and the other traffic.      *)
THEOREM PingsAlwaysBounded == LedgerSpec => []PingsBounded
<1>1. CapInv => PingsBounded
  <2> SUFFICES ASSUME CapInv, NEW n
               PROVE  Cardinality({i \in DOMAIN events :
                          events[i].kind = "ping" /\ events[i].about = n}) <= MaxPingsPerTarget
    BY DEF PingsBounded
  <2> DEFINE I == {i \in DOMAIN events : events[i].kind = "ping" /\ events[i].about = n}
  <2>1. I \in SUBSET DOMAIN events /\ {events[i] : i \in I} = Pings(Elements(events), n)
    BY DEF Pings, Elements
  <2>2. events \in Seq(Universe) /\ Distinct(events)
    BY DEF CapInv, LedgerInv, Consistent
  <2> HIDE DEF I
  <2>3. Cardinality(I) = Cardinality(Pings(Elements(events), n))
    BY <2>1, <2>2, Counted
  <2>4. Cardinality(I) <= MaxPingsPerTarget
    BY <2>3 DEF CapInv, Capped
  <2> QED BY <2>4 DEF I
<1> QED BY <1>1, CapInvariant, PTL

\* The positions of the observations of o about n, and those that are not restarts.
PairAt(o, n) == {i \in DOMAIN events : IsObservation(events[i])
                                       /\ events[i].from = o /\ events[i].about = n}
SoftAt(o, n) == {i \in PairAt(o, n) : events[i].kind # "restart"}

(* A pair over MaxObservationsPerPair holds at most one observation that is  *)
(* not a restart (OverCapOnlyRestarts): compaction gives up only when there  *)
(* is nothing but restarts to give up.                                       *)
THEOREM OverCapAlwaysRestarts == LedgerSpec => []OverCapOnlyRestarts
<1>1. ASSUME CapInv, NEW o, NEW n
      PROVE  Cardinality(PairAt(o, n)) > MaxObservationsPerPair =>
               Cardinality(SoftAt(o, n)) <= 1
  <2> DEFINE P == PairAt(o, n)
             Q == SoftAt(o, n)
  <2>1. /\ {events[i] : i \in P} = Pair(Elements(events), o, n)
        /\ {events[i] : i \in Q} = Soft(Elements(events), o, n)
    BY DEF Pair, Soft, Elements, PairAt, SoftAt
  <2>2. events \in Seq(Universe) /\ Distinct(events)
    BY <1>1 DEF CapInv, LedgerInv, Consistent
  <2>3. P \in SUBSET DOMAIN events
    BY DEF PairAt
  <2>4. Q \in SUBSET DOMAIN events
    BY DEF SoftAt, PairAt
  <2> HIDE DEF P, Q
  <2>5. Cardinality({events[i] : i \in P}) = Cardinality(P)
    BY <2>2, <2>3, Counted
  <2>6. Cardinality({events[i] : i \in Q}) = Cardinality(Q)
    BY <2>2, <2>4, Counted
  <2>7. Cardinality(P) > MaxObservationsPerPair => Cardinality(Q) <= 1
    BY <1>1, <2>1, <2>5, <2>6 DEF CapInv, Capped
  <2> QED BY <2>7 DEF P, Q
<1>2. ASSUME CapInv PROVE OverCapOnlyRestarts
  <2> SUFFICES \A o, n \in Nara :
        Cardinality(PairAt(o, n)) > MaxObservationsPerPair => Cardinality(SoftAt(o, n)) <= 1
    BY DEF OverCapOnlyRestarts, PairAt, SoftAt
  <2> QED BY <1>1, <1>2
<1> QED BY <1>2, CapInvariant, PTL

(* What an observation at the cap makes room by taking. *)
LEMMA CompactedHistory ==
  ASSUME LedgerInv, NEW e \in Universe,
         NEW f \in {events[i] : i \in EvictedForPair(events, e)}
  PROVE  /\ IsObservation(f)
         /\ Cardinality(PairIndices(events, f)) >= MaxObservationsPerPair
         /\ f.kind = "restart" => HasCheckpoint(events, f.about)
<1> DEFINE P == PairIndices(events, e)
           Q == {i \in P : events[i].kind # "restart"}
<1>1. PICK i \in EvictedForPair(events, e) : f = events[i]
  OBVIOUS
<1>2. \A I : Oldest(events, I) \subseteq I
  BY DEF Oldest
<1>3. /\ i \in P /\ ~(Cardinality(P) < MaxObservationsPerPair)
      /\ Q = {} \/ i \in Q
      /\ Q = {} => HasCheckpoint(events, e.about)
  BY <1>1, <1>2 DEF EvictedForPair
<1>4. IsObservation(f) /\ f.from = e.from /\ f.about = e.about
  BY <1>1, <1>3 DEF PairIndices
<1>5. PairIndices(events, f) = P
  BY <1>4 DEF PairIndices
<1>6. Cardinality(P) \in Nat
  <2>1. P \in SUBSET DOMAIN events
    BY DEF PairIndices
  <2>2. events \in Seq(Universe) /\ Distinct(events)
    BY DEF LedgerInv, Consistent
  <2> HIDE DEF P
  <2> QED BY <2>1, <2>2, Counted, FS_CardinalityType
<1>7. f.kind = "restart" => i \notin Q
  BY <1>1
<1> HIDE DEF P, Q
<1> QED BY <1>3, <1>4, <1>5, <1>6, <1>7, LedgerAssumption

(* Critical history leaves the ledger only through a purge, which leaves     *)
(* nothing of that nara, or through compaction of a full pair, which takes a *)
(* restart only when a checkpoint covers its subject (CriticalHistoryKept).  *)
THEOREM CriticalHistoryStays == LedgerSpec => CriticalHistoryKept
<1>1. ASSUME LedgerInv, [LedgerNext]_ledgerVars,
             NEW f \in Elements(events) \ Elements(events'), Critical(f)
      PROVE  \/ \E n \in Involved(f) : \A g \in Elements(events') : n \notin Involved(g)
             \/ /\ IsObservation(f)
                /\ Cardinality(PairIndices(events, f)) >= MaxObservationsPerPair
                /\ f.kind = "restart" => HasCheckpoint(events, f.about)
  <2>1. CASE events' = events
    BY <1>1, <2>1
  <2>2. CASE \E e \in Universe : IsObservation(e)
              /\ (addObservationWithCompaction(e, FALSE) \/ addObservationWithCompaction(e, TRUE))
    <3>1. PICK e \in Universe, d \in BOOLEAN : addObservationWithCompaction(e, d)
      BY <2>2, Zenon
    <3>2. f \in {events[i] : i \in EvictedForPair(events, e)}
      BY <1>1, <3>1, ObservationElements
    <3> QED BY <1>1, <3>2, CompactedHistory
  <2>3. CASE \E e \in Universe : ~IsObservation(e) /\ AddNonObservation(e) /\ known' = known
    <3>1. PICK e \in Universe : AddNonObservation(e)
      BY <2>3, Zenon
    <3>2. f \in {events[i] : i \in EvictedForPing(events, e)}
      BY <1>1, <3>1, NonObservationElements
    <3>3. f.kind = "ping"
      <4>1. \A i \in EvictedForPing(events, e) : events[i].kind = "ping"
        BY DEF EvictedForPing, Oldest, PingIndices
      <4> QED BY <3>2, <4>1
    <3>4. eventPruningPriority(f) = 4
      BY <3>3 DEF eventPruningPriority
    <3> QED BY <1>1, <3>4 DEF Critical
  <2>4. CASE \E n \in Nara : RemoveEventsFor(n)
    <3>1. PICK n \in Nara : RemoveEventsFor(n)
      BY <2>4
    <3>2. Elements(events') = {e \in Elements(events) : n \notin Involved(e)}
      BY <1>1, <3>1, PurgeElements
    <3> QED BY <1>1, <3>2
  <2>5. CASE PruneTo(events, eventIDs, version)
    <3>1. Consistent(events, eventIDs)
      BY <1>1 DEF LedgerInv
    <3> QED BY <1>1, <2>5, <3>1, PruneElements
  <2> QED BY <1>1, <2>1, <2>2, <2>3, <2>4, <2>5, LedgerSteps
<1>2. LedgerInv /\ [LedgerNext]_ledgerVars =>
        [\A e \in Elements(events) \ Elements(events') :
           Critical(e) =>
             \/ \E n \in Involved(e) : \A f \in Elements(events') : n \notin Involved(f)
             \/ /\ IsObservation(e)
                /\ Cardinality(PairIndices(events, e)) >= MaxObservationsPerPair
                /\ e.kind = "restart" => HasCheckpoint(events, e.about)]_ledgerVars
  BY <1>1
<1>3. LedgerSpec => []LedgerInv
  BY LedgerInvInit, LedgerInvNext, PTL DEF LedgerSpec
<1> QED BY <1>2, <1>3, PTL DEF LedgerSpec, CriticalHistoryKept

(* After an add that prunes, the ledger is over MaxEvents only if everything *)
(* left is critical, or a critical event of an unknown nara stops the        *)
(* removal (OverflowOnlyBehindCritical).                                     *)
THEOREM OverflowIsCritical == LedgerSpec => OverflowOnlyBehindCritical
<1>1. ASSUME LedgerInv, [LedgerNext]_ledgerVars,
             NEW f \in Elements(events') \ Elements(events), ~IsObservation(f),
             Len(events') > MaxEvents
      PROVE  \/ \A e \in Elements(events') : Critical(e)
             \/ \E e \in Elements(events') : Critical(e) /\ isEventFromUnknownNara(e)
  <2>1. CASE events' = events
    BY <1>1, <2>1
  <2>2. CASE \E e \in Universe : IsObservation(e)
              /\ (addObservationWithCompaction(e, FALSE) \/ addObservationWithCompaction(e, TRUE))
    <3>1. PICK e \in Universe, d \in BOOLEAN : IsObservation(e) /\ addObservationWithCompaction(e, d)
      BY <2>2, Zenon
    <3>2. f = e
      BY <1>1, <3>1, ObservationElements
    <3> QED BY <1>1, <3>1, <3>2
  <2>3. CASE \E e \in Universe : ~IsObservation(e) /\ AddNonObservation(e) /\ known' = known
    <3>1. PICK e \in Universe : AddNonObservation(e)
      BY <2>3, Zenon
    <3> QED BY <1>1, <3>1, NonObservationElements
  <2>4. CASE \E n \in Nara : RemoveEventsFor(n)
    BY <1>1, <2>4, PurgeElements
  <2>5. CASE PruneTo(events, eventIDs, version)
    <3>1. Consistent(events, eventIDs)
      BY <1>1 DEF LedgerInv
    <3> QED BY <1>1, <2>5, <3>1, PruneElements
  <2> QED BY <1>1, <2>1, <2>2, <2>3, <2>4, <2>5, LedgerSteps
<1>2. LedgerInv /\ [LedgerNext]_ledgerVars =>
        [(\E e \in Elements(events') \ Elements(events) : ~IsObservation(e))
           /\ Len(events') > MaxEvents =>
             \/ \A e \in Elements(events') : Critical(e)
             \/ \E e \in Elements(events') : Critical(e) /\ isEventFromUnknownNara(e)]_ledgerVars
  BY <1>1
<1>3. LedgerSpec => []LedgerInv
  BY LedgerInvInit, LedgerInvNext, PTL DEF LedgerSpec
<1> QED BY <1>2, <1>3, PTL DEF LedgerSpec, OverflowOnlyBehindCritical
=============================================================================
