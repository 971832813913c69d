--------------------------- MODULE LockingProofs ---------------------------
(***************************************************************************)
(* Proofs about Locking for every number of goroutines and every way of    *)
(* giving them handlers: the order in which mutexes are nested, and that   *)
(* the only circle of waiting goes through the ledger's callback.          *)
(*                                                                         *)
(* The handlers are checked by rules like those of a type system: a block  *)
(* is a sequence of lock operations that releases what it takes, nests     *)
(* mutexes as After allows and uses no others than stated.  Blocks one     *)
(* after the other are a block, and so is Hold around a block.             *)
(***************************************************************************)
EXTENDS Locking, Integers, SequenceTheorems, TLAPS

\* The mutexes a handler may ask for while it holds l.
After(l) ==
  CASE l = "local" -> {"me", "nara", "ledger", "clout", "opinion"}
    [] l = "me" -> {}
    [] l = "nara" -> {"me"}
    [] l = "ledger" -> {"local", "nara"}
    [] l \in {"clout", "opinion", "online"} -> {"ledger"}
    [] l = "votes" -> {"me", "local"}
    [] l = "coord" -> {"local", "nara", "me"}

\* From position i on, the first operation of w on l is its release: whoever
\* is about to perform w[i] holds l.
HeldAt(w, l, i) ==
  \E j \in DOMAIN w :
    /\ i <= j /\ w[j].op = "Unlock" /\ w[j].mu = l
    /\ \A k \in DOMAIN w : i <= k /\ k < j => w[k].mu # l

\* Operation i of w, seen from what is held around it: what is locked is held
\* afterwards, what is released or passed is not, and what is asked for comes
\* after everything held.
Nested(w, i) ==
  /\ HeldAt(w, w[i].mu, i + 1) <=> w[i].op = "Lock"
  /\ w[i].op # "Unlock" => \A l \in Lock : HeldAt(w, l, i) => w[i].mu \in After(l)

\* A handler, or what is left of it.
Remainder(w) == w \in Seq(Ops) /\ \A i \in DOMAIN w : Nested(w, i)

\* A complete piece of a handler that uses the mutexes M.
Block(w, M) ==
  /\ Remainder(w)
  /\ \A l \in Lock : ~HeldAt(w, l, 1)
  /\ \A i \in DOMAIN w : w[i].mu \in M

-----------------------------------------------------------------------------
(* The rules *)

(* Doing nothing is a block. *)
LEMMA NothingBlock == \A M : Block(<<>>, M)
  BY EmptySeq DEF Block, Remainder, HeldAt

(* More mutexes may be stated than are used. *)
LEMMA Weakened ==
  ASSUME NEW w, NEW M, NEW N, Block(w, M), M \subseteq N
  PROVE  Block(w, N)
  BY DEF Block

(* Where the two halves of a sequence are. *)
LEMMA Halves ==
  ASSUME NEW S, NEW a \in Seq(S), NEW b \in Seq(S)
  PROVE  /\ a \o b \in Seq(S) /\ Len(a) \in Nat /\ Len(b) \in Nat
         /\ DOMAIN a = 1 .. Len(a) /\ DOMAIN b = 1 .. Len(b)
         /\ DOMAIN (a \o b) = 1 .. (Len(a) + Len(b))
         /\ \A i \in DOMAIN a : (a \o b)[i] = a[i]
         /\ \A i \in DOMAIN b : (a \o b)[Len(a) + i] = b[i]
  BY LenProperties

(* What is held within the first or the second of two blocks is what that    *)
(* block holds.                                                              *)
LEMMA HeldInSequence ==
  ASSUME NEW a \in Seq(Ops), NEW b \in Seq(Ops), NEW l, ~HeldAt(b, l, 1)
  PROVE  /\ \A i \in 1 .. (Len(a) + 1) : HeldAt(a \o b, l, i) <=> HeldAt(a, l, i)
         /\ \A i \in 1 .. (Len(b) + 1) : HeldAt(a \o b, l, Len(a) + i) <=> HeldAt(b, l, i)
<1> DEFINE c == a \o b
           m == Len(a)
           n == Len(b)
<1>1. /\ m \in Nat /\ n \in Nat /\ DOMAIN a = 1 .. m /\ DOMAIN b = 1 .. n
      /\ DOMAIN c = 1 .. (m + n)
      /\ \A i \in DOMAIN a : c[i] = a[i]
      /\ \A i \in DOMAIN b : c[m + i] = b[i]
  BY Halves
<1> HIDE DEF c, m, n
<1>2. \A k \in DOMAIN c : k \in DOMAIN a \/ (k - m \in DOMAIN b /\ k = m + (k - m))
  BY <1>1
<1>3. ASSUME NEW i \in 1 .. (m + 1), HeldAt(c, l, i) PROVE HeldAt(a, l, i)
  <2>1. PICK j \in DOMAIN c : /\ i <= j /\ c[j].op = "Unlock" /\ c[j].mu = l
                              /\ \A k \in DOMAIN c : i <= k /\ k < j => c[k].mu # l
    BY <1>3 DEF HeldAt
  <2>2. CASE j \in DOMAIN a
    <3>1. \A k \in DOMAIN a : i <= k /\ k < j => a[k].mu # l
      BY <1>1, <2>1
    <3> QED BY <1>1, <2>1, <2>2, <3>1 DEF HeldAt
  <2>3. CASE j - m \in DOMAIN b /\ j = m + (j - m)
    <3> DEFINE r == j - m
    <3>1. b[r].op = "Unlock" /\ b[r].mu = l /\ 1 <= r
      BY <1>1, <2>1, <2>3
    <3>2. ASSUME NEW k \in DOMAIN b, 1 <= k, k < r PROVE b[k].mu # l
      <4>1. m + k \in DOMAIN c /\ i <= m + k /\ m + k < j
        BY <1>1, <2>3, <3>2
      <4> QED BY <1>1, <2>1, <4>1
    <3> QED BY <2>3, <3>1, <3>2 DEF HeldAt
  <2> QED BY <1>2, <2>2, <2>3
<1>4. ASSUME NEW i \in 1 .. (m + 1), HeldAt(a, l, i) PROVE HeldAt(c, l, i)
  <2>1. PICK j \in DOMAIN a : /\ i <= j /\ a[j].op = "Unlock" /\ a[j].mu = l
                              /\ \A k \in DOMAIN a : i <= k /\ k < j => a[k].mu # l
    BY <1>4 DEF HeldAt
  <2>2. j \in DOMAIN c /\ c[j] = a[j]
    BY <1>1
  <2>3. \A k \in DOMAIN c : i <= k /\ k < j => k \in DOMAIN a
    BY <1>1
  <2> QED BY <1>1, <2>1, <2>2, <2>3 DEF HeldAt
<1>5. ASSUME NEW i \in 1 .. (n + 1), HeldAt(c, l, m + i) PROVE HeldAt(b, l, i)
  <2>1. PICK j \in DOMAIN c : /\ m + i <= j /\ c[j].op = "Unlock" /\ c[j].mu = l
                              /\ \A k \in DOMAIN c : m + i <= k /\ k < j => c[k].mu # l
    BY <1>5 DEF HeldAt
  <2> DEFINE r == j - m
  <2>2. r \in DOMAIN b /\ i <= r /\ b[r] = c[j]
    BY <1>1, <2>1
  <2>3. ASSUME NEW k \in DOMAIN b, i <= k, k < r PROVE b[k].mu # l
    <3>1. m + k \in DOMAIN c /\ m + i <= m + k /\ m + k < j
      BY <1>1, <2>1, <2>3
    <3> QED BY <1>1, <2>1, <3>1
  <2> QED BY <2>1, <2>2, <2>3 DEF HeldAt
<1>6. ASSUME NEW i \in 1 .. (n + 1), HeldAt(b, l, i) PROVE HeldAt(c, l, m + i)
  <2>1. PICK j \in DOMAIN b : /\ i <= j /\ b[j].op = "Unlock" /\ b[j].mu = l
                              /\ \A k \in DOMAIN b : i <= k /\ k < j => b[k].mu # l
    BY <1>6 DEF HeldAt
  <2>2. m + j \in DOMAIN c /\ c[m + j] = b[j] /\ m + i <= m + j
    BY <1>1, <2>1
  <2>3. ASSUME NEW k \in DOMAIN c, m + i <= k, k < m + j PROVE c[k].mu # l
    <3>1. k - m \in DOMAIN b /\ i <= k - m /\ k - m < j /\ c[k] = b[k - m]
      BY <1>1, <2>3
    <3> QED BY <2>1, <3>1
  <2> QED BY <2>1, <2>2, <2>3 DEF HeldAt
<1> QED BY <1>3, <1>4, <1>5, <1>6 DEF c, m, n

(* One block after the other. *)
LEMMA SequenceBlock ==
  ASSUME NEW a, NEW b, NEW M, Block(a, M), Block(b, M)
  PROVE  Block(a \o b, M)
<1> DEFINE c == a \o b
           m == Len(a)
           n == Len(b)
<1>1. /\ a \in Seq(Ops) /\ b \in Seq(Ops)
      /\ \A i \in DOMAIN a : Nested(a, i) /\ a[i].mu \in M
      /\ \A i \in DOMAIN b : Nested(b, i) /\ b[i].mu \in M
      /\ \A l \in Lock : ~HeldAt(a, l, 1) /\ ~HeldAt(b, l, 1)
  BY DEF Block, Remainder
<1>0. /\ \A i \in DOMAIN a : a[i].mu \in Lock
      /\ \A i \in DOMAIN b : b[i].mu \in Lock
  <2>1. \A x \in Ops : x.mu \in Lock
    BY DEF Ops
  <2>2. /\ \A i \in DOMAIN a : a[i] \in Ops
        /\ \A i \in DOMAIN b : b[i] \in Ops
    BY <1>1
  <2> QED BY <2>1, <2>2
<1>2. /\ c \in Seq(Ops)
      /\ m \in Nat /\ n \in Nat /\ DOMAIN a = 1 .. m /\ DOMAIN b = 1 .. n
      /\ DOMAIN c = 1 .. (m + n)
      /\ \A i \in DOMAIN a : c[i] = a[i]
      /\ \A i \in DOMAIN b : c[m + i] = b[i]
  BY <1>1, Halves
<1>3. ASSUME NEW l \in Lock
      PROVE  /\ \A i \in 1 .. (m + 1) : HeldAt(c, l, i) <=> HeldAt(a, l, i)
             /\ \A i \in 1 .. (n + 1) : HeldAt(c, l, m + i) <=> HeldAt(b, l, i)
  BY <1>1, HeldInSequence
<1> HIDE DEF c, m, n
<1>4. \A i \in DOMAIN c : i \in DOMAIN a \/ (i - m \in DOMAIN b /\ i = m + (i - m))
  BY <1>2
<1>5. ASSUME NEW i \in DOMAIN a PROVE Nested(c, i)
  <2>1. /\ i \in 1 .. (m + 1) /\ i + 1 \in 1 .. (m + 1) /\ c[i] = a[i] /\ a[i].mu \in Lock
    BY <1>0, <1>2
  <2>2. HeldAt(c, c[i].mu, i + 1) <=> HeldAt(a, a[i].mu, i + 1)
    BY <1>3, <2>1
  <2>3. \A l \in Lock : HeldAt(c, l, i) <=> HeldAt(a, l, i)
    BY <1>3, <2>1
  <2> QED BY <1>1, <2>1, <2>2, <2>3 DEF Nested
<1>6. ASSUME NEW i \in DOMAIN b PROVE Nested(c, m + i)
  <2>1. /\ i \in 1 .. (n + 1) /\ i + 1 \in 1 .. (n + 1) /\ c[m + i] = b[i] /\ b[i].mu \in Lock
        /\ m + (i + 1) = (m + i) + 1
    BY <1>0, <1>2
  <2>2. HeldAt(c, c[m + i].mu, (m + i) + 1) <=> HeldAt(b, b[i].mu, i + 1)
    BY <1>3, <2>1
  <2>3. \A l \in Lock : HeldAt(c, l, m + i) <=> HeldAt(b, l, i)
    BY <1>3, <2>1
  <2> QED BY <1>1, <2>1, <2>2, <2>3 DEF Nested
<1>7. \A i \in DOMAIN c : Nested(c, i) /\ c[i].mu \in M
  BY <1>1, <1>2, <1>4, <1>5, <1>6
<1>8. \A l \in Lock : ~HeldAt(c, l, 1)
  BY <1>1, <1>2, <1>3
<1> QED BY <1>2, <1>7, <1>8 DEF Block, Remainder, c

(* A mutex nobody waits on while nothing else is asked for. *)
LEMMA PassBlock ==
  ASSUME NEW l \in Lock
  PROVE  Block(Hold(l, <<>>), {l})
<1> DEFINE w == <<[op |-> "Pass", mu |-> l]>>
<1>1. Hold(l, <<>>) = w
  BY DEF Hold, Op
<1>2. w \in Seq(Ops) /\ DOMAIN w = {1} /\ w[1].op = "Pass" /\ w[1].mu = l
  BY DEF Ops
<1> HIDE DEF w
<1>3. \A m, i : ~HeldAt(w, m, i)
  BY <1>2 DEF HeldAt
<1>4. Nested(w, 1)
  BY <1>2, <1>3 DEF Nested
<1> QED BY <1>1, <1>2, <1>3, <1>4 DEF Block, Remainder

(* No mutex comes after itself. *)
LEMMA AfterFacts ==
  ASSUME NEW l \in Lock
  PROVE  l \notin After(l) /\ After(l) \subseteq Lock
  BY DEF Lock, After

(* A mutex held around a block that asks for none but those after it. *)
LEMMA LockBlock ==
  ASSUME NEW l \in Lock, NEW body, NEW M, Block(body, M), M \subseteq After(l)
  PROVE  Block(Op("Lock", l) \o body \o Op("Unlock", l), {l} \cup M)
<1> DEFINE c == Op("Lock", l) \o body \o Op("Unlock", l)
           n == Len(body)
<1>1. /\ body \in Seq(Ops) /\ n \in Nat /\ DOMAIN body = 1 .. n
      /\ \A i \in DOMAIN body : /\ Nested(body, i) /\ body[i] \in Ops
                                /\ body[i].mu \in M /\ body[i].mu \in After(l)
      /\ \A m \in Lock : ~HeldAt(body, m, 1)
  BY LenProperties, ElementOfSeq DEF Block, Remainder
<1>2. /\ c \in Seq(Ops) /\ DOMAIN c = 1 .. (n + 2)
      /\ c[1].op = "Lock" /\ c[1].mu = l
      /\ \A i \in DOMAIN body : c[i + 1] = body[i]
      /\ c[n + 2].op = "Unlock" /\ c[n + 2].mu = l
  <2> DEFINE x == [op |-> "Lock", mu |-> l]
             y == [op |-> "Unlock", mu |-> l]
             d == <<x>> \o body
  <2>1. /\ <<x>> \in Seq(Ops) /\ Len(<<x>>) = 1 /\ <<x>>[1] = x
        /\ <<y>> \in Seq(Ops) /\ Len(<<y>>) = 1 /\ <<y>>[1] = y
    BY DEF Ops
  <2>2. x.op = "Lock" /\ x.mu = l /\ y.op = "Unlock" /\ y.mu = l
    OBVIOUS
  <2>3. c = d \o <<y>>
    BY DEF Op
  <2> HIDE DEF x, y, c, n
  <2>4. /\ d \in Seq(Ops) /\ Len(d) = n + 1 /\ d[1] = x
        /\ \A i \in DOMAIN body : d[i + 1] = body[i]
    BY <1>1, <2>1 DEF n
  <2> HIDE DEF d
  <2>5. /\ c \in Seq(Ops) /\ Len(c) = n + 2 /\ DOMAIN c = 1 .. (n + 2)
        /\ \A i \in 1 .. (n + 1) : c[i] = d[i]
        /\ c[n + 2] = y
    BY <1>1, <2>1, <2>3, <2>4
  <2> QED BY <1>1, <2>2, <2>4, <2>5
<1> HIDE DEF c, n
<1>3. \A k \in DOMAIN c : k = 1 \/ (k - 1 \in DOMAIN body /\ c[k] = body[k - 1]) \/ k = n + 2
  <2> TAKE k \in DOMAIN c
  <2>1. k = 1 \/ k - 1 \in 1 .. n \/ k = n + 2
    BY <1>1, <1>2
  <2>2. k - 1 \in DOMAIN body => c[(k - 1) + 1] = body[k - 1]
    BY <1>2
  <2>3. (k - 1) + 1 = k
    BY <1>2
  <2> QED BY <1>1, <2>1, <2>2, <2>3
<1>4. \A i \in DOMAIN body : body[i].mu # l
  BY <1>1, AfterFacts
<1>5. \A i \in 2 .. (n + 2) : HeldAt(c, l, i)
  <2> TAKE i \in 2 .. (n + 2)
  <2>1. \A k \in DOMAIN c : i <= k /\ k < n + 2 => c[k].mu # l
    BY <1>1, <1>2, <1>3, <1>4
  <2> QED BY <1>1, <1>2, <2>1 DEF HeldAt
<1>6. ~HeldAt(c, l, 1) /\ ~HeldAt(c, l, n + 3)
  <2>1. ~HeldAt(c, l, 1)
    <3> SUFFICES ASSUME HeldAt(c, l, 1) PROVE FALSE
      OBVIOUS
    <3>1. PICK j \in DOMAIN c : /\ 1 <= j /\ c[j].op = "Unlock" /\ c[j].mu = l
                                /\ \A k \in DOMAIN c : 1 <= k /\ k < j => c[k].mu # l
      BY DEF HeldAt
    <3>2. j # 1 /\ 1 \in DOMAIN c
      BY <1>1, <1>2, <3>1
    <3> QED BY <1>1, <1>2, <3>1, <3>2
  <2>2. ~HeldAt(c, l, n + 3)
    BY <1>1, <1>2 DEF HeldAt
  <2> QED BY <2>1, <2>2
<1>7. ASSUME NEW m \in Lock, m # l
      PROVE  /\ \A i \in 1 .. (n + 1) : HeldAt(c, m, i + 1) <=> HeldAt(body, m, i)
             /\ HeldAt(c, m, 1) => HeldAt(c, m, 1 + 1)
             /\ ~HeldAt(c, m, 1)
  <2>1. ASSUME NEW i \in 1 .. (n + 1), HeldAt(c, m, i + 1) PROVE HeldAt(body, m, i)
    <3>1. PICK j \in DOMAIN c : /\ i + 1 <= j /\ c[j].op = "Unlock" /\ c[j].mu = m
                                /\ \A k \in DOMAIN c : i + 1 <= k /\ k < j => c[k].mu # m
      BY <2>1 DEF HeldAt
    <3>2. j - 1 \in DOMAIN body /\ c[j] = body[j - 1] /\ i <= j - 1
      BY <1>1, <1>2, <1>3, <1>7, <3>1
    <3>3. ASSUME NEW k \in DOMAIN body, i <= k, k < j - 1 PROVE body[k].mu # m
      <4>1. k + 1 \in DOMAIN c /\ i + 1 <= k + 1 /\ k + 1 < j
        BY <1>1, <1>2, <3>3
      <4> QED BY <1>2, <3>1, <4>1
    <3> QED BY <3>1, <3>2, <3>3 DEF HeldAt
  <2>2. ASSUME NEW i \in 1 .. (n + 1), HeldAt(body, m, i) PROVE HeldAt(c, m, i + 1)
    <3>1. PICK j \in DOMAIN body : /\ i <= j /\ body[j].op = "Unlock" /\ body[j].mu = m
                                   /\ \A k \in DOMAIN body : i <= k /\ k < j => body[k].mu # m
      BY <2>2 DEF HeldAt
    <3>2. j + 1 \in DOMAIN c /\ c[j + 1] = body[j] /\ i + 1 <= j + 1
      BY <1>1, <1>2, <3>1
    <3>3. ASSUME NEW k \in DOMAIN c, i + 1 <= k, k < j + 1 PROVE c[k].mu # m
      <4>1. k - 1 \in DOMAIN body /\ c[k] = body[k - 1] /\ i <= k - 1 /\ k - 1 < j
        <5>1. i \in Nat /\ j \in Nat /\ j <= n /\ 1 <= i /\ k \in Nat
          BY <1>1, <1>2
        <5>2. k # 1 /\ k # n + 2 /\ i <= k - 1 /\ k - 1 < j
          BY <1>1, <3>3, <5>1
        <5> QED BY <1>3, <5>2
      <4> QED BY <3>1, <4>1
    <3> QED BY <3>1, <3>2, <3>3 DEF HeldAt
  <2>3. HeldAt(c, m, 1) => HeldAt(c, m, 1 + 1)
    BY <1>1, <1>2, <1>7 DEF HeldAt
  <2> QED BY <1>1, <2>1, <2>2, <2>3
<1>8. Nested(c, 1)
  <2>1. HeldAt(c, l, 1 + 1)
    BY <1>1, <1>5
  <2>2. \A m \in Lock : ~HeldAt(c, m, 1)
    BY <1>6, <1>7
  <2> QED BY <1>2, <2>1, <2>2 DEF Nested
<1>9. Nested(c, n + 2)
  <2>1. ~HeldAt(c, l, (n + 2) + 1)
    BY <1>1, <1>6
  <2> QED BY <1>2, <2>1 DEF Nested
<1>10. ASSUME NEW i \in DOMAIN body PROVE Nested(c, i + 1)
  <2>1. /\ c[i + 1] = body[i] /\ body[i].mu \in Lock /\ body[i].mu # l /\ body[i].mu \in After(l)
        /\ i \in 1 .. (n + 1) /\ i + 1 \in 1 .. (n + 1)
    BY <1>1, <1>2, <1>4, AfterFacts
  <2>2. HeldAt(c, body[i].mu, (i + 1) + 1) <=> HeldAt(body, body[i].mu, i + 1)
    BY <1>7, <2>1
  <2>3. \A m \in Lock : HeldAt(c, m, i + 1) => m = l \/ HeldAt(body, m, i)
    BY <1>7, <2>1
  <2> QED BY <1>1, <2>1, <2>2, <2>3 DEF Nested
<1>11. \A i \in DOMAIN c : Nested(c, i) /\ c[i].mu \in {l} \cup M
  <2> TAKE i \in DOMAIN c
  <2>1. CASE i - 1 \in DOMAIN body /\ c[i] = body[i - 1]
    <3>1. Nested(c, (i - 1) + 1) /\ (i - 1) + 1 = i
      BY <1>2, <1>10, <2>1
    <3> QED BY <1>1, <2>1, <3>1
  <2> QED BY <1>2, <1>3, <1>8, <1>9, <2>1
<1>12. \A m \in Lock : ~HeldAt(c, m, 1)
  BY <1>6, <1>7
<1> QED BY <1>2, <1>11, <1>12 DEF Block, Remainder, c

(* Hold around a block, whichever way it is performed. *)
LEMMA HoldBlock ==
  ASSUME NEW l \in Lock, NEW body, NEW M, Block(body, M), M \subseteq After(l),
         NEW N, l \in N, M \subseteq N
  PROVE  Block(Hold(l, body), N)
<1>1. CASE body = <<>>
  BY <1>1, PassBlock, Weakened
<1>2. CASE body # <<>>
  <2>1. Block(Hold(l, body), {l} \cup M)
    BY <1>2, LockBlock DEF Hold
  <2> QED BY <2>1, Weakened
<1> QED BY <1>1, <1>2

(* Any mutex may be taken for a moment. *)
LEMMA Taken == \A l \in Lock : \A M : l \in M => Block(Hold(l, <<>>), M)
  BY PassBlock, Weakened

(* What comes after what, one mutex at a time. *)
LEMMA AfterEach ==
  /\ After("local") = {"me", "nara", "ledger", "clout", "opinion"}
  /\ After("nara") = {"me"} /\ After("ledger") = {"local", "nara"}
  /\ After("clout") = {"ledger"} /\ After("opinion") = {"ledger"} /\ After("online") = {"ledger"}
  /\ After("votes") = {"me", "local"} /\ After("coord") = {"local", "nara", "me"}
  /\ After("me") = {}
  BY DEF After

-----------------------------------------------------------------------------
(* The handlers follow the rules *)

(* The functions on the neighbourhood and on observations. *)
LEMMA NeighbourhoodBlocks ==
  ASSUME NEW M, {"local", "me", "nara"} \subseteq M
  PROVE  /\ Block(getNara, M) /\ Block(getObservation, M) /\ Block(getObservationLocked, M)
         /\ Block(setObservation, M) /\ Block(importNara, M) /\ Block(getPublicKeyForNara, M)
         /\ Block(NeighbourhoodNames, M) /\ Block(getNaraIDByName, M) /\ Block(RegisterKey, M)
         /\ Block(getOnlineNarasSnapshot, M) /\ Block(isGhostNara, M) /\ Block(OnlinePeers, M)
<1>1. /\ {"local", "me", "nara", "ledger"} \subseteq Lock
      /\ \A l \in {"local", "me", "nara"} : Block(Hold(l, <<>>), M)
      /\ Block(Hold("me", <<>>), {"me"}) /\ Block(Hold("nara", <<>>), {"nara"})
  BY Taken DEF Lock
<1>2. Block(getNara, M) /\ Block(getObservation, M) /\ Block(getObservationLocked, M)
      /\ Block(NeighbourhoodNames, M) /\ Block(getNaraIDByName, M)
  BY <1>1 DEF getNara, getObservation, getObservationLocked, NeighbourhoodNames, getNaraIDByName
<1>3. Block(Hold("local", Hold("me", <<>>)), M) /\ Block(Hold("local", Hold("nara", <<>>)), M)
  <2>1. {"me"} \subseteq After("local") /\ {"nara"} \subseteq After("local")
    BY AfterEach
  <2> QED BY <1>1, <2>1, HoldBlock
<1>4. Block(setObservation, M) /\ Block(importNara, M) /\ Block(getNaraByID, M) /\ Block(OnlinePeers, M)
      /\ Block(getOnlineNarasSnapshot, M)
  BY <1>3 DEF setObservation, importNara, getNaraByID, OnlinePeers, getOnlineNarasSnapshot,
              getObservationLocked
<1>5. Block(getPublicKeyForNara, M)
  BY <1>1, SequenceBlock DEF getPublicKeyForNara
<1>6. Block(RegisterKey, M)
  BY <1>1, <1>4, SequenceBlock DEF RegisterKey
<1>7. Block(isGhostNara, M)
  BY <1>2, <1>3, SequenceBlock DEF isGhostNara
<1> QED BY <1>2, <1>4, <1>5, <1>6, <1>7

(* The ledger and the projections. *)
LEMMA LedgerBlocks ==
  ASSUME NEW full \in BOOLEAN
  PROVE  /\ \A M : "ledger" \in M => /\ Block(readLedger, M) /\ Block(RemoveEventsFor, M)
                                     /\ Block(addObservationWithCompaction, M)
                                     /\ Block(DeriveOpinionWithValidation, M)
         /\ \A p \in {"clout", "opinion", "online"} : \A M : {p, "ledger"} \subseteq M => Block(RunOnce(p), M)
         /\ \A M : {"clout", "opinion", "ledger"} \subseteq M => Block(Trigger, M)
         /\ Block(AddEvent(full), Lock) /\ Block(Prune(full), Lock)
<1>1. "ledger" \in Lock /\ {"clout", "opinion", "online"} \subseteq Lock
      /\ {"local", "me", "nara"} \subseteq Lock
  BY DEF Lock
<1>2. ASSUME NEW M, "ledger" \in M
      PROVE  /\ Block(readLedger, M) /\ Block(RemoveEventsFor, M)
             /\ Block(addObservationWithCompaction, M) /\ Block(DeriveOpinionWithValidation, M)
  BY <1>1, <1>2, Taken
     DEF readLedger, RemoveEventsFor, addObservationWithCompaction, DeriveOpinionWithValidation
<1>3. ASSUME NEW p \in {"clout", "opinion", "online"}, NEW M, {p, "ledger"} \subseteq M
      PROVE  Block(RunOnce(p), M)
  <2>1. Block(readLedger, {"ledger"}) /\ {"ledger"} \subseteq After(p) /\ p \in Lock
    BY <1>1, <1>2, AfterEach
  <2> QED BY <1>3, <2>1, HoldBlock DEF RunOnce
<1>4. ASSUME NEW M, {"clout", "opinion", "ledger"} \subseteq M PROVE Block(Trigger, M)
  BY <1>3, <1>4, SequenceBlock DEF Trigger
<1>5. Block(pruneUnlocked(full), {"local", "nara"})
  <2>1. Block(Hold("local", <<>>), {"local", "nara"}) /\ Block(Hold("nara", <<>>), {"local", "nara"})
    BY <1>1, Taken
  <2> QED BY <2>1, SequenceBlock, NothingBlock DEF pruneUnlocked, getPublicKeyForNara
<1>6. Block(Hold("ledger", pruneUnlocked(full)), Lock)
  BY <1>1, <1>5, AfterEach, HoldBlock
<1> QED BY <1>2, <1>3, <1>4, <1>6 DEF AddEvent, Prune

(* Pruning, ghosts and barrios. *)
LEMMA PruningBlocks ==
  ASSUME NEW found \in BOOLEAN, NEW full \in BOOLEAN
  PROVE  /\ Block(IsInMyBarrio, Lock) /\ Block(pruneInactiveNaras(found, full), Lock)
         /\ Block(garbageCollectGhostNaras(found), Lock)
         /\ Block(applyStartTimeConsensus, Lock) /\ Block(backfillObservations, Lock)
         /\ Block(markOnlineFromPing(full), Lock)
<1>1. \A l \in Lock : Block(Hold(l, <<>>), Lock)
  BY Taken
<1>2. /\ "local" \in Lock /\ "me" \in Lock /\ "nara" \in Lock /\ "votes" \in Lock
      /\ "ledger" \in Lock /\ "online" \in Lock
      /\ {"local", "me", "nara"} \subseteq Lock /\ {"clout", "opinion", "ledger"} \subseteq Lock
      /\ {"online", "ledger"} \subseteq Lock
  BY DEF Lock
<1>3. /\ Block(readLedger, Lock) /\ Block(RemoveEventsFor, Lock) /\ Block(Trigger, Lock)
      /\ Block(addObservationWithCompaction, Lock) /\ Block(AddEvent(full), Lock)
      /\ Block(RunOnce("online"), Lock)
  BY <1>2, LedgerBlocks
<1>4. /\ Block(NeighbourhoodNames, Lock) /\ Block(isGhostNara, Lock)
      /\ Block(getObservation, Lock) /\ Block(setObservation, Lock)
  BY <1>2, NeighbourhoodBlocks
<1>5. Block(IsInMyBarrio, Lock)
  BY <1>1, <1>2, <1>3, SequenceBlock DEF IsInMyBarrio
<1>6. Block(pruneInactiveNaras(found, full), Lock)
  <2> DEFINE M == After("local")
             purge == IF found THEN RemoveEventsFor \o Trigger ELSE <<>>
             inner == getObservationLocked \o Hold("nara", <<>>) \o purge
             last == IF found THEN Hold("me", <<>>) ELSE <<>>
  <2>1. M = {"me", "nara", "ledger", "clout", "opinion"}
    BY AfterEach
  <2>2. Block(getObservationLocked, M) /\ Block(Hold("nara", <<>>), M)
    BY <1>2, <2>1, Taken DEF getObservationLocked
  <2>3. Block(RemoveEventsFor, M) /\ Block(Trigger, M)
    BY <2>1, LedgerBlocks
  <2>4. Block(purge, M)
    BY <2>3, SequenceBlock, NothingBlock
  <2>5. Block(last, Lock)
    BY <1>1, <1>2, NothingBlock
  <2> HIDE DEF M, purge, last
  <2>6. Block(inner, M)
    BY <2>2, <2>4, SequenceBlock
  <2> HIDE DEF inner
  <2>7. Block(Hold("local", inner), Lock)
    BY <1>2, <2>1, <2>6, AfterFacts, HoldBlock DEF M
  <2>8. Block(Hold("local", inner) \o last, Lock)
    BY <2>5, <2>7, SequenceBlock
  <2> QED BY <2>8 DEF pruneInactiveNaras, inner, purge, last
<1>7. Block(garbageCollectGhostNaras(found), Lock)
  <2> DEFINE last == IF found THEN Hold("local", <<>>) \o Hold("me", <<>>) \o RemoveEventsFor ELSE <<>>
  <2>1. Block(last, Lock)
    BY <1>1, <1>2, <1>3, SequenceBlock, NothingBlock
  <2> HIDE DEF last
  <2>2. Block(NeighbourhoodNames \o isGhostNara \o last, Lock)
    BY <1>4, <2>1, SequenceBlock
  <2> QED BY <2>2 DEF garbageCollectGhostNaras, last
<1>8. Block(applyStartTimeConsensus, Lock)
  <2> DEFINE M == {"me", "local"}
  <2>1. Block(getObservation, M) /\ Block(Hold("me", <<>>), {"me"})
    BY <1>2, Taken DEF getObservation
  <2>2. {"me"} \subseteq After("local") /\ "local" \in M /\ {"me"} \subseteq M
    BY AfterEach
  <2>3. Block(setObservation, M)
    BY <1>2, <2>1, <2>2, HoldBlock DEF setObservation
  <2>4. Block(getObservation \o setObservation, M)
    BY <2>1, <2>3, SequenceBlock
  <2>5. M \subseteq After("votes") /\ M \subseteq Lock
    BY <1>2, AfterEach
  <2> QED BY <1>2, <2>4, <2>5, HoldBlock DEF applyStartTimeConsensus
<1>9. Block(backfillObservations, Lock)
  BY <1>1, <1>2, <1>3, SequenceBlock DEF backfillObservations
<1>10. Block(markOnlineFromPing(full), Lock)
  BY <1>3, <1>4, SequenceBlock DEF markOnlineFromPing
<1> QED BY <1>5, <1>6, <1>7, <1>8, <1>9, <1>10

(* The rounds of periodic work. *)
LEMMA RoundBlocks ==
  ASSUME NEW found \in BOOLEAN, NEW full \in BOOLEAN
  PROVE  /\ Block(socialMaintenance(found, full), Lock)
         /\ Block(runOpinionPass(found, full), Lock)
         /\ Block(observationMaintenanceOnce(full), Lock)
<1>1. \A l \in Lock : Block(Hold(l, <<>>), Lock)
  BY Taken
<1>2. /\ "local" \in Lock /\ "me" \in Lock /\ "nara" \in Lock
      /\ {"local", "me", "nara"} \subseteq Lock /\ {"opinion", "ledger"} \subseteq Lock
      /\ {"online", "ledger"} \subseteq Lock /\ "ledger" \in Lock
  BY DEF Lock
<1>3. /\ Block(readLedger, Lock) /\ Block(Prune(full), Lock)
      /\ Block(RunOnce("opinion"), Lock) /\ Block(RunOnce("online"), Lock)
      /\ Block(DeriveOpinionWithValidation, Lock)
  BY <1>2, LedgerBlocks
<1>4. /\ Block(NeighbourhoodNames, Lock) /\ Block(isGhostNara, Lock) /\ Block(getNara, Lock)
      /\ Block(getObservation, Lock) /\ Block(setObservation, Lock)
      /\ Block(getOnlineNarasSnapshot, Lock)
  BY <1>2, NeighbourhoodBlocks
<1>5. /\ Block(IsInMyBarrio, Lock) /\ Block(pruneInactiveNaras(found, full), Lock)
      /\ Block(garbageCollectGhostNaras(found), Lock)
      /\ Block(applyStartTimeConsensus, Lock) /\ Block(backfillObservations, Lock)
      /\ Block(markOnlineFromPing(full), Lock)
  BY PruningBlocks
<1>6. Block(socialMaintenance(found, full), Lock)
  BY <1>3, <1>5, SequenceBlock DEF socialMaintenance
<1>7. Block(runOpinionPass(found, full), Lock)
  BY <1>3, <1>4, <1>5, SequenceBlock DEF runOpinionPass
<1>8. Block(observationMaintenanceOnce(full), Lock)
  <2>1. Block(Hold("local", Hold("me", <<>>)), Lock)
    <3>1. Block(Hold("me", <<>>), {"me"}) /\ {"me"} \subseteq After("local") /\ {"me"} \subseteq Lock
      BY <1>2, Taken, AfterEach
    <3> QED BY <1>2, <3>1, HoldBlock
  <2>2. Block(verifyOnlineWithPing(full), Lock)
    BY <1>1, <1>2, <1>4, <1>5, SequenceBlock DEF verifyOnlineWithPing
  <2> QED BY <1>1, <1>2, <1>3, <1>4, <1>5, <2>1, <2>2, SequenceBlock DEF observationMaintenanceOnce
<1> QED BY <1>6, <1>7, <1>8

(* The handlers of messages. *)
LEMMA HandlerBlocks ==
  ASSUME NEW full \in BOOLEAN
  PROVE  /\ Block(handleHeyThereEvent(full), Lock) /\ Block(handleHowdyEvent(full), Lock)
         /\ Block(handleChauEvent(full), Lock) /\ Block(maybeRespondWithHowdy, Lock)
<1>1. \A l \in Lock : Block(Hold(l, <<>>), Lock)
  BY Taken
<1>2. /\ "local" \in Lock /\ "me" \in Lock /\ "nara" \in Lock /\ "votes" \in Lock /\ "coord" \in Lock
      /\ {"local", "me", "nara"} \subseteq Lock /\ {"opinion", "ledger"} \subseteq Lock
      /\ {"clout", "opinion", "ledger"} \subseteq Lock /\ "ledger" \in Lock
  BY DEF Lock
<1>3. /\ Block(AddEvent(full), Lock) /\ Block(Trigger, Lock) /\ Block(RunOnce("opinion"), Lock)
      /\ Block(DeriveOpinionWithValidation, Lock) /\ Block(addObservationWithCompaction, Lock)
  BY <1>2, LedgerBlocks
<1>4. /\ Block(getNara, Lock) /\ Block(importNara, Lock) /\ Block(getNaraIDByName, Lock)
      /\ Block(getObservation, Lock) /\ Block(setObservation, Lock)
      /\ Block(getOnlineNarasSnapshot, Lock) /\ Block(RegisterKey, Lock)
      /\ Block(getPublicKeyForNara, Lock)
  BY <1>2, NeighbourhoodBlocks
<1>5. Block(checkAndTease(full), Lock)
  <2>1. Block(IsInMyBarrio, Lock)
    BY PruningBlocks
  <2> QED BY <1>3, <1>4, <2>1, SequenceBlock DEF checkAndTease
<1>6. Block(recordObservationOnlineNara(full), Lock)
  BY <1>3, <1>4, <1>5, SequenceBlock DEF recordObservationOnlineNara
<1>7. Block(handleHeyThereEvent(full), Lock)
  BY <1>1, <1>2, <1>3, <1>4, <1>6, SequenceBlock DEF handleHeyThereEvent
<1>8. Block(handleHowdyEvent(full), Lock)
  BY <1>1, <1>2, <1>3, <1>4, <1>6, SequenceBlock DEF handleHowdyEvent, onHowdySeen
<1>9. Block(handleChauEvent(full), Lock)
  BY <1>1, <1>2, <1>3, <1>4, SequenceBlock DEF handleChauEvent
<1>10. Block(maybeRespondWithHowdy, Lock)
  <2> DEFINE M == {"local", "nara", "me"}
             own == Hold("local", getObservationLocked)
             other == Hold("local", Hold("nara", getObservationLocked))
             inner == own \o other \o Hold("me", <<>>) \o getObservation \o Hold("local", <<>>)
  <2>1. /\ Block(getObservationLocked, {"me"}) /\ Block(getObservation, M)
        /\ Block(Hold("me", <<>>), M) /\ Block(Hold("local", <<>>), M)
    BY <1>2, Taken DEF getObservationLocked, getObservation
  <2>2. {"me"} \subseteq After("local") /\ {"me"} \subseteq After("nara")
        /\ {"nara", "me"} \subseteq After("local")
    BY AfterEach
  <2>3. Block(own, M)
    BY <1>2, <2>1, <2>2, HoldBlock
  <2>4. Block(Hold("nara", getObservationLocked), {"nara", "me"})
    BY <1>2, <2>1, <2>2, HoldBlock
  <2>5. Block(other, M)
    BY <1>2, <2>2, <2>4, HoldBlock
  <2>6. M \subseteq After("coord") /\ M \subseteq Lock
    BY <1>2, AfterEach
  <2> HIDE DEF own, other, M
  <2>7. Block(inner, M)
    BY <2>1, <2>3, <2>5, SequenceBlock
  <2> HIDE DEF inner
  <2>8. Block(Hold("coord", inner), Lock)
    BY <1>2, <2>6, <2>7, HoldBlock
  <2> QED BY <2>8 DEF maybeRespondWithHowdy, inner, own, other
<1> QED BY <1>7, <1>8, <1>9, <1>10

(* Whatever a goroutine runs is a block. *)
LEMMA WaysAreBlocks ==
  ASSUME NEW g \in Goroutine, NEW h \in Handlers[g], NEW w \in Ways(h)
  PROVE  Block(w, Lock)
<1>1. h \in {"socialMaintenance", "runOpinionPass", "observationMaintenanceOnce",
             "handleHeyThereEvent", "handleHowdyEvent", "handleChauEvent",
             "maybeRespondWithHowdy", "OnlinePeers"}
  BY HandlersAssumption
<1>2. PICK found \in BOOLEAN, full \in BOOLEAN : w = Way(h, found, full)
  BY DEF Ways
<1>3. /\ Block(socialMaintenance(found, full), Lock) /\ Block(runOpinionPass(found, full), Lock)
      /\ Block(observationMaintenanceOnce(full), Lock)
  BY RoundBlocks
<1>4. /\ Block(handleHeyThereEvent(full), Lock) /\ Block(handleHowdyEvent(full), Lock)
      /\ Block(handleChauEvent(full), Lock) /\ Block(maybeRespondWithHowdy, Lock)
  BY HandlerBlocks
<1>5. Block(OnlinePeers, Lock)
  <2>1. {"local", "me", "nara"} \subseteq Lock
    BY DEF Lock
  <2> QED BY <2>1, NeighbourhoodBlocks
<1> QED BY <1>1, <1>2, <1>3, <1>4, <1>5 DEF Way

-----------------------------------------------------------------------------
(* One operation after the other *)

(* What is held from the second operation on. *)
LEMMA TailHeld ==
  ASSUME NEW w \in Seq(Ops), w # <<>>, NEW l, NEW i \in Nat \ {0}
  PROVE  HeldAt(Tail(w), l, i) <=> HeldAt(w, l, i + 1)
<1> DEFINE t == Tail(w)
           n == Len(w)
<1>1. /\ n \in Nat \ {0} /\ DOMAIN w = 1 .. n /\ DOMAIN t = 1 .. (n - 1)
      /\ \A k \in DOMAIN t : t[k] = w[k + 1]
  BY HeadTailProperties, LenProperties
<1> HIDE DEF t, n
<1>2. ASSUME HeldAt(t, l, i) PROVE HeldAt(w, l, i + 1)
  <2>1. PICK j \in DOMAIN t : /\ i <= j /\ t[j].op = "Unlock" /\ t[j].mu = l
                              /\ \A k \in DOMAIN t : i <= k /\ k < j => t[k].mu # l
    BY <1>2 DEF HeldAt
  <2>2. j + 1 \in DOMAIN w /\ w[j + 1] = t[j] /\ i + 1 <= j + 1
    BY <1>1, <2>1
  <2>3. ASSUME NEW k \in DOMAIN w, i + 1 <= k, k < j + 1 PROVE w[k].mu # l
    <3>1. k - 1 \in DOMAIN t /\ i <= k - 1 /\ k - 1 < j /\ (k - 1) + 1 = k
      BY <1>1, <2>3
    <3>2. t[k - 1] = w[(k - 1) + 1]
      BY <1>1, <3>1
    <3> QED BY <2>1, <3>1, <3>2
  <2> QED BY <2>1, <2>2, <2>3 DEF HeldAt
<1>3. ASSUME HeldAt(w, l, i + 1) PROVE HeldAt(t, l, i)
  <2>1. PICK j \in DOMAIN w : /\ i + 1 <= j /\ w[j].op = "Unlock" /\ w[j].mu = l
                              /\ \A k \in DOMAIN w : i + 1 <= k /\ k < j => w[k].mu # l
    BY <1>3 DEF HeldAt
  <2>2. j - 1 \in DOMAIN t /\ (j - 1) + 1 = j /\ i <= j - 1
    BY <1>1, <2>1
  <2>3. t[j - 1] = w[(j - 1) + 1]
    BY <1>1, <2>2
  <2>4. ASSUME NEW k \in DOMAIN t, i <= k, k < j - 1 PROVE t[k].mu # l
    <3>1. k + 1 \in DOMAIN w /\ i + 1 <= k + 1 /\ k + 1 < j
      BY <1>1, <2>1, <2>4
    <3> QED BY <1>1, <2>1, <3>1
  <2> QED BY <2>1, <2>2, <2>3, <2>4 DEF HeldAt
<1> QED BY <1>2, <1>3 DEF t

(* The rest of a handler is a remainder; what is held changes by its first   *)
(* operation only.                                                           *)
LEMMA FirstDone ==
  ASSUME NEW w, Remainder(w), w # <<>>
  PROVE  /\ Remainder(Tail(w)) /\ Head(w) \in Ops
         /\ Head(w).op = "Unlock" => HeldAt(w, Head(w).mu, 1)
         /\ HeldAt(Tail(w), Head(w).mu, 1) <=> Head(w).op = "Lock"
         /\ Head(w).op # "Unlock" => \A l \in Lock : HeldAt(w, l, 1) => Head(w).mu \in After(l)
         /\ \A l \in Lock : l # Head(w).mu => (HeldAt(Tail(w), l, 1) <=> HeldAt(w, l, 1))
<1> DEFINE t == Tail(w)
           n == Len(w)
<1>1. /\ w \in Seq(Ops) /\ \A i \in DOMAIN w : Nested(w, i)
      /\ n \in Nat \ {0} /\ DOMAIN w = 1 .. n /\ DOMAIN t = 1 .. (n - 1)
      /\ t \in Seq(Ops) /\ Head(w) = w[1] /\ w[1] \in Ops
      /\ \A k \in DOMAIN t : t[k] = w[k + 1]
  BY HeadTailProperties, LenProperties, ElementOfSeq DEF Remainder
<1>2. \A l : \A i \in Nat \ {0} : HeldAt(t, l, i) <=> HeldAt(w, l, i + 1)
  BY <1>1, TailHeld
<1> HIDE DEF t, n
<1>3. Nested(w, 1)
  BY <1>1
<1>4. ASSUME NEW i \in DOMAIN t PROVE Nested(t, i)
  <2>1. Nested(w, i + 1) /\ t[i] = w[i + 1] /\ i \in Nat \ {0} /\ i + 1 \in Nat \ {0}
    BY <1>1
  <2> QED BY <1>2, <2>1 DEF Nested
<1>5. Head(w).op = "Unlock" => HeldAt(w, Head(w).mu, 1)
  <2>1. 1 \in DOMAIN w
    BY <1>1
  <2> QED BY <1>1, <2>1 DEF HeldAt
<1>6. HeldAt(t, Head(w).mu, 1) <=> HeldAt(w, Head(w).mu, 1 + 1)
  BY <1>2
<1>7. ASSUME NEW l \in Lock, l # Head(w).mu
      PROVE  HeldAt(w, l, 1 + 1) <=> HeldAt(w, l, 1)
  BY <1>1, <1>7 DEF HeldAt
<1>8. \A l \in Lock : HeldAt(t, l, 1) <=> HeldAt(w, l, 1 + 1)
  BY <1>2
<1> QED BY <1>1, <1>3, <1>4, <1>5, <1>6, <1>7, <1>8 DEF Nested, Remainder, t

-----------------------------------------------------------------------------
(* The invariant *)

\* What each goroutine has left to do is the rest of a handler, and a mutex is
\* held by exactly the goroutine that is still going to release it.
LockInv ==
  /\ \A g \in Goroutine : Remainder(todo[g])
  /\ todo = [g \in Goroutine |-> todo[g]]
  /\ holder \in [Lock -> Goroutine \cup {Nobody}]
  /\ \A g \in Goroutine : \A l \in Lock : holder[l] = g <=> HeldAt(todo[g], l, 1)

(* Nothing is held before anything runs. *)
LEMMA InitLocks == Init => LockInv
<1> SUFFICES ASSUME Init PROVE LockInv
  OBVIOUS
<1>1. \A g \in Goroutine : todo[g] = <<>>
  BY DEF Init
<1>2. Remainder(<<>>) /\ \A l : ~HeldAt(<<>>, l, 1)
  <2>1. DOMAIN <<>> = {} /\ <<>> \in Seq(Ops)
    BY EmptySeq
  <2> QED BY <2>1 DEF Remainder, HeldAt
<1> QED BY <1>1, <1>2, NobodyAssumption DEF Init, LockInv

(* One goroutine moves from w to v, the others stay. *)
LEMMA Moved ==
  ASSUME LockInv, NEW g \in Goroutine, NEW v, Remainder(v),
         todo' = [todo EXCEPT ![g] = v], holder' \in [Lock -> Goroutine \cup {Nobody}],
         \A l \in Lock : holder'[l] = g <=> HeldAt(v, l, 1),
         \A l \in Lock : \A h \in Goroutine \ {g} : holder'[l] = h <=> holder[l] = h
  PROVE  LockInv'
<1>1. todo'[g] = v /\ \A h \in Goroutine \ {g} : todo'[h] = todo[h]
  BY DEF LockInv
<1>2. todo' = [h \in Goroutine |-> todo'[h]]
  BY DEF LockInv
<1>3. \A h \in Goroutine : Remainder(todo'[h])
  BY <1>1 DEF LockInv
<1>4. \A h \in Goroutine : \A l \in Lock : holder'[l] = h <=> HeldAt(todo'[h], l, 1)
  BY <1>1 DEF LockInv
<1> QED BY <1>2, <1>3, <1>4 DEF LockInv

(* Every step keeps the invariant. *)
LEMMA NextLocks == LockInv /\ [Next]_vars => LockInv'
<1> SUFFICES ASSUME LockInv, [Next]_vars PROVE LockInv'
  OBVIOUS
<1>1. CASE UNCHANGED vars
  BY <1>1 DEF LockInv, vars
<1>2. ASSUME NEW g \in Goroutine, Begin(g) PROVE LockInv'
  <2>1. PICK h \in Handlers[g] : \E way \in Ways(h) : todo' = [todo EXCEPT ![g] = way]
    BY <1>2 DEF Begin
  <2>2. PICK way \in Ways(h) : todo' = [todo EXCEPT ![g] = way]
    BY <2>1
  <2>3. Block(way, Lock)
    BY WaysAreBlocks
  <2>4. todo[g] = <<>> /\ holder' = holder
    BY <1>2 DEF Begin
  <2>5. \A l : ~HeldAt(<<>>, l, 1)
    BY EmptySeq DEF HeldAt
  <2>6. \A l \in Lock : holder'[l] = g <=> HeldAt(way, l, 1)
    BY <2>3, <2>4, <2>5 DEF LockInv, Block
  <2> QED BY <2>2, <2>3, <2>4, <2>6, Moved DEF LockInv, Block
<1>3. ASSUME NEW g \in Goroutine, Acquire(g) PROVE LockInv'
  <2> DEFINE w == todo[g]
             t == Tail(todo[g])
  <2>1. PICK l \in Lock :
          /\ Wants(g, l) /\ holder[l] = Nobody
          /\ holder' = IF Head(w).op = "Lock" THEN [holder EXCEPT ![l] = g] ELSE holder
          /\ todo' = [todo EXCEPT ![g] = t]
    BY <1>3 DEF Acquire
  <2>2. w # <<>> /\ Head(w).mu = l /\ Head(w).op \in {"Lock", "Pass"}
    BY <2>1 DEF Wants
  <2>3. Remainder(w)
    BY DEF LockInv
  <2>4. /\ Remainder(t)
        /\ HeldAt(t, l, 1) <=> Head(w).op = "Lock"
        /\ \A m \in Lock : m # l => (HeldAt(t, m, 1) <=> HeldAt(w, m, 1))
    BY <2>2, <2>3, FirstDone
  <2>5. \A m \in Lock : holder[m] = g <=> HeldAt(w, m, 1)
    BY DEF LockInv
  <2>6. Nobody # g
    BY NobodyAssumption
  <2> HIDE DEF w, t
  <2>7. holder' \in [Lock -> Goroutine \cup {Nobody}]
    BY <2>1 DEF LockInv
  <2>8. \A m \in Lock : holder'[m] = IF Head(w).op = "Lock" /\ m = l THEN g ELSE holder[m]
    BY <2>1 DEF LockInv
  <2>9. \A m \in Lock : holder'[m] = g <=> HeldAt(t, m, 1)
    BY <2>1, <2>4, <2>5, <2>6, <2>8
  <2>10. \A m \in Lock : \A h \in Goroutine \ {g} : holder'[m] = h <=> holder[m] = h
    BY <2>1, <2>8, NobodyAssumption
  <2> QED BY <2>1, <2>4, <2>7, <2>9, <2>10, Moved
<1>4. ASSUME NEW g \in Goroutine, Release(g) PROVE LockInv'
  <2> DEFINE w == todo[g]
             t == Tail(todo[g])
             l == Head(todo[g]).mu
  <2>1. /\ w # <<>> /\ Head(w).op = "Unlock" /\ holder' = [holder EXCEPT ![l] = Nobody]
        /\ todo' = [todo EXCEPT ![g] = t]
    BY <1>4 DEF Release
  <2>2. Remainder(w)
    BY DEF LockInv
  <2>3. /\ Remainder(t) /\ Head(w) \in Ops /\ HeldAt(w, l, 1) /\ ~HeldAt(t, l, 1)
        /\ \A m \in Lock : m # l => (HeldAt(t, m, 1) <=> HeldAt(w, m, 1))
    BY <2>1, <2>2, FirstDone
  <2>4. l \in Lock
    BY <2>3 DEF Ops
  <2>5. \A m \in Lock : holder[m] = g <=> HeldAt(w, m, 1)
    BY DEF LockInv
  <2> HIDE DEF w, t, l
  <2>6. holder' \in [Lock -> Goroutine \cup {Nobody}]
        /\ \A m \in Lock : holder'[m] = IF m = l THEN Nobody ELSE holder[m]
    BY <2>1 DEF LockInv
  <2>7. \A m \in Lock : holder'[m] = g <=> HeldAt(t, m, 1)
    BY <2>3, <2>5, <2>6, NobodyAssumption
  <2>8. holder[l] = g
    BY <2>3, <2>4, <2>5
  <2>9. \A m \in Lock : \A h \in Goroutine \ {g} : holder'[m] = h <=> holder[m] = h
    BY <2>6, <2>8, NobodyAssumption
  <2> QED BY <2>1, <2>3, <2>6, <2>7, <2>9, Moved
<1> QED BY <1>1, <1>2, <1>3, <1>4 DEF Next

(* The invariant behind the theorems below holds in every execution. *)
THEOREM LockInvariant == Spec => []LockInv
<1> QED BY InitLocks, NextLocks, PTL DEF Spec

(* Every lock operation is one of the code's, and whoever is done holds      *)
(* nothing (LockingTypeOK).                                                  *)
THEOREM LocksArePaired == Spec => []LockingTypeOK
<1>1. LockInv => LockingTypeOK
  <2> SUFFICES ASSUME LockInv PROVE LockingTypeOK
    OBVIOUS
  <2>1. ASSUME NEW g \in Goroutine, NEW i \in DOMAIN todo[g] PROVE todo[g][i] \in Ops
    BY ElementOfSeq, LenProperties DEF LockInv, Remainder
  <2>2. ASSUME NEW g \in Goroutine, todo[g] = <<>>, NEW l \in Lock PROVE holder[l] # g
    <3>1. ~HeldAt(<<>>, l, 1)
      BY EmptySeq DEF HeldAt
    <3> QED BY <2>2, <3>1 DEF LockInv
  <2> QED BY <2>1, <2>2 DEF LockingTypeOK, LockInv
<1> QED BY <1>1, LockInvariant, PTL

(* A goroutine that holds one mutex asks only for those that come after it. *)
LEMMA AskedInOrder ==
  ASSUME LockInv, NEW g \in Goroutine, NEW l \in Lock, NEW m, holder[l] = g, Wants(g, m)
  PROVE  m \in After(l)
<1>1. todo[g] # <<>> /\ Head(todo[g]).op # "Unlock" /\ Head(todo[g]).mu = m
  BY DEF Wants
<1>2. HeldAt(todo[g], l, 1) /\ Remainder(todo[g])
  BY DEF LockInv
<1> QED BY <1>1, <1>2, FirstDone

(* Nobody who holds Me.mu asks for local.mu, as applyObservationDeletes'     *)
(* comment demands of all code (LocalBeforeMe).                              *)
THEOREM LocalMutexFirst == Spec => []LocalBeforeMe
<1>1. LockInv => LocalBeforeMe
  <2> SUFFICES ASSUME LockInv, NEW g \in Goroutine, holder["me"] = g, Wants(g, "local")
               PROVE  FALSE
    BY DEF LocalBeforeMe
  <2>1. "me" \in Lock
    BY DEF Lock
  <2>2. "local" \in After("me")
    BY <2>1, AskedInOrder
  <2> QED BY <2>2, AfterEach
<1> QED BY <1>1, LockInvariant, PTL

(* Goroutines that wait in a circle, however many they are and whatever they *)
(* run, do so through the ledger's callback (OnlyLedgerCallbackDeadlocks):   *)
(* but for that, nobody in the circle waits for a mutex after which no other *)
(* may be taken, so nobody for one before those, and so on to the first.     *)
THEOREM OnlyCallbackCircles == Spec => []OnlyLedgerCallbackDeadlocks
<1>1. ASSUME LockInv, NEW S \in SUBSET Goroutine, Deadlocked(S)
      PROVE  \E g, h \in S : /\ holder["ledger"] = g /\ Wants(g, "local")
                             /\ holder["local"] = h
                             /\ \E l \in {"ledger", "clout", "opinion"} : Wants(h, l)
  <2> DEFINE Waits(g, l) == g \in S /\ l \in Lock /\ Wants(g, l) /\ holder[l] \in S
  <2>1. S # {} /\ \A g \in S : \E l : Waits(g, l)
    BY <1>1 DEF Deadlocked, WaitsFor
  <2>2. \A g, l : Waits(g, l) =>
          \E m : Waits(holder[l], m) /\ m \in After(l)
    <3> SUFFICES ASSUME NEW g, NEW l, Waits(g, l)
                 PROVE  \E m : Waits(holder[l], m) /\ m \in After(l)
      OBVIOUS
    <3>1. PICK m : Waits(holder[l], m)
      BY <2>1
    <3>2. holder[l] \in Goroutine /\ l \in Lock /\ Wants(holder[l], m)
      BY <3>1
    <3>3. m \in After(l)
      BY <1>1, <3>2, AskedInOrder
    <3> QED BY <3>1, <3>3
  <2> SUFFICES ASSUME ~\E g, h \in S : /\ holder["ledger"] = g /\ Wants(g, "local")
                                       /\ holder["local"] = h
                                       /\ \E l \in {"ledger", "clout", "opinion"} : Wants(h, l)
               PROVE  FALSE
    OBVIOUS
  <2>3. \A g : ~Waits(g, "me")
    BY <2>2, AfterEach
  <2>4. \A g : ~Waits(g, "nara")
    BY <2>2, <2>3, AfterEach
  <2>5. \A g : ~Waits(g, "ledger")
    <3> SUFFICES ASSUME NEW g, Waits(g, "ledger") PROVE FALSE
      OBVIOUS
    <3>1. Waits(holder["ledger"], "local")
      BY <2>2, <2>4, AfterEach
    <3>2. PICK m \in {"ledger", "clout", "opinion"} : Waits(holder["local"], m)
      BY <2>2, <2>3, <2>4, <3>1, AfterEach
    <3> QED BY <3>1, <3>2
  <2>6. \A g : ~Waits(g, "clout") /\ ~Waits(g, "opinion") /\ ~Waits(g, "online")
    BY <2>2, <2>5, AfterEach
  <2>7. \A g : ~Waits(g, "local")
    BY <2>2, <2>3, <2>4, <2>5, <2>6, AfterEach
  <2>8. \A g : ~Waits(g, "votes") /\ ~Waits(g, "coord")
    BY <2>2, <2>3, <2>4, <2>7, AfterEach
  <2>9. PICK g, l : Waits(g, l)
    BY <2>1
  <2>10. l \in {"local", "me", "nara", "ledger", "clout", "opinion", "online", "votes", "coord"}
    BY <2>9 DEF Lock
  <2> QED BY <2>3, <2>4, <2>5, <2>6, <2>7, <2>8, <2>9, <2>10
<1>2. LockInv => OnlyLedgerCallbackDeadlocks
  BY <1>1 DEF OnlyLedgerCallbackDeadlocks
<1> QED BY <1>2, LockInvariant, PTL
=============================================================================
