-------------------------- MODULE CheckpointProofs --------------------------
(***************************************************************************)
(* Proofs about Checkpoint for every set of voters and every value of the  *)
(* limits: one checkpoint per proposal, what its signers signed, the       *)
(* history its references form, and that finalizing is final.  The         *)
(* invariant CheckpointInv says nothing of the attested values but that    *)
(* equal ones are equal; that the trimmed mean is a number is only needed  *)
(* for the types.                                                          *)
(***************************************************************************)
EXTENDS Checkpoint, FiniteSetTheorems, SequenceTheorems, WellFoundedInduction, TLAPS

\* A record with the fields of a proposal.
Shaped(p) ==
  p = [round |-> p.round, value |-> p.value, ref |-> p.ref, votes |-> p.votes,
       finalized |-> p.finalized]

Made == {proposals[k] : k \in DOMAIN proposals}

Shape ==
  /\ proposals \in Seq(Made)
  /\ \A k \in DOMAIN proposals : Shaped(proposals[k])
  /\ current = Len(proposals)
  /\ publishing \subseteq 1 .. Len(proposals) /\ windows \subseteq 1 .. Len(proposals)
  /\ publishing \cap windows = {} /\ wakeups \in Nat
  /\ asked \subseteq (1 .. Len(proposals)) \X Voter
  /\ \A w \in counting : w.k \in 1 .. Len(proposals)
  /\ lastSeen \in [Voter -> Nat]

\* A reference of proposal k to an earlier checkpoint, or to none.
Refers(r, k) == r = 0 \/ (r < k /\ \E d \in stored : d.k = r)

\* The votes on proposal k that were counted, or are being counted.
Cast(k) == proposals[k].votes \cup {w \in counting : w.k = k}

\* Every voter is asked once and casts one vote.
Ballot(k) ==
  /\ IsFiniteSet(proposals[k].votes)
  /\ \A w \in Cast(k) :
       /\ w.k = k /\ w.voter \in Voter /\ <<k, w.voter>> \notin asked
       /\ w.approved => w.value = proposals[k].value
       /\ Refers(w.ref, k)
       /\ \A x \in Cast(k) : x.voter = w.voter => x = w

History ==
  /\ \A k \in DOMAIN proposals : Refers(proposals[k].ref, k)
  /\ \A c \in stored : Refers(c.ref, c.k)
  /\ \A v \in Voter : lastSeen[v] # 0 => \E d \in stored : d.k = lastSeen[v]
  /\ stored # {} => \E d \in stored : \A c \in stored : c.k <= d.k

\* Whoever signs a checkpoint voted on its proposal and signed its value.
Agreed(c) ==
  /\ \A w \in c.signers : w.k = c.k /\ w.value = c.value
  /\ Cardinality({w.voter : w \in c.signers}) >= MinVotersRequired

Outcomes ==
  /\ \A k \in deciding : k \in DOMAIN proposals /\ proposals[k].finalized
  /\ \A c \in stored :
       /\ c.k \in DOMAIN proposals /\ proposals[c.k].finalized /\ c.k \notin deciding
       /\ Agreed(c)
       /\ \A d \in stored : d.k = c.k => d = c

\* A finalizer that is awake during the first proposal was woken by enough
\* votes, or by the proposal's own window.
FirstWindow ==
  /\ Len(proposals) = 0 => wakeups = 0
  /\ Len(proposals) = 1 /\ ~proposals[1].finalized /\ wakeups > 0 =>
       \/ 1 \notin windows \cup publishing
       \/ Cardinality(proposals[1].votes) >= MinVotersRequired

CheckpointInv ==
  /\ Shape /\ History /\ Outcomes /\ FirstWindow
  /\ \A k \in DOMAIN proposals : Ballot(k)

-----------------------------------------------------------------------------
(* Steps of the list of proposals *)

(* Nothing has been proposed yet. *)
LEMMA InitInv == ASSUME Init PROVE CheckpointInv
<1>1. Shape
  BY DEF Init, Shape, Made
<1>2. History /\ Outcomes /\ FirstWindow
  BY DEF Init, History, Outcomes, FirstWindow
<1>3. \A k \in DOMAIN proposals : Ballot(k)
  BY DEF Init
<1> QED BY <1>1, <1>2, <1>3 DEF CheckpointInv

(* The positions of the list. *)
LEMMA Positions ==
  ASSUME Shape
  PROVE  Len(proposals) \in Nat /\ DOMAIN proposals = 1 .. Len(proposals)
  BY DEF Shape

(* A sequence is a sequence of its own elements. *)
LEMMA SeqOfElements ==
  ASSUME NEW S, NEW f \in Seq(S)
  PROVE  f \in Seq({f[i] : i \in DOMAIN f})
<1> DEFINE n == Len(f)
           R == {f[i] : i \in DOMAIN f}
<1>1. n \in Nat /\ DOMAIN f = 1 .. n /\ f = [i \in 1 .. n |-> f[i]]
  BY LenProperties
<1>2. \A i \in 1 .. n : f[i] \in R
  BY <1>1
<1> HIDE DEF n, R
<1>3. f \in [1 .. n -> R]
  BY <1>1, <1>2
<1>4. f \in Seq(R)
  BY <1>1, <1>3, SeqDef
<1> QED BY <1>4 DEF R

(* One proposal is replaced. *)
LEMMA Replaced ==
  ASSUME Shape, NEW k \in DOMAIN proposals, NEW p, proposals' = [proposals EXCEPT ![k] = p]
  PROVE  /\ proposals' \in Seq(Made') /\ Len(proposals') = Len(proposals)
         /\ DOMAIN proposals' = DOMAIN proposals
         /\ proposals'[k] = p
         /\ \A i \in DOMAIN proposals \ {k} : proposals'[i] = proposals[i]
<1>1. /\ DOMAIN proposals' = DOMAIN proposals /\ proposals'[k] = p
      /\ \A i \in DOMAIN proposals \ {k} : proposals'[i] = proposals[i]
  OBVIOUS
<1>2. proposals \in Seq(Made \cup {p}) /\ k \in 1 .. Len(proposals)
  BY DEF Shape
<1>3. proposals' \in Seq(Made \cup {p}) /\ Len(proposals') = Len(proposals)
  BY <1>2, ExceptSeq
<1>4. proposals' \in Seq(Made')
  <2> DEFINE S == Made \cup {p}
             f == proposals'
  <2>1. f \in Seq(S)
    BY <1>3
  <2> HIDE DEF S, f
  <2>2. f \in Seq({f[i] : i \in DOMAIN f})
    BY <2>1, SeqOfElements, Zenon
  <2> QED BY <2>2 DEF Made, f
<1> QED BY <1>1, <1>3, <1>4

(* A proposal is appended. *)
LEMMA Pended ==
  ASSUME Shape, NEW round, NEW value, StorePending(round, value)
  PROVE  LET p == [round |-> round, value |-> value, ref |-> OwnReference, votes |-> {},
                   finalized |-> FALSE]
             n == Len(proposals) + 1
         IN /\ proposals' \in Seq(Made') /\ Len(proposals') = n
            /\ DOMAIN proposals' = 1 .. n /\ proposals'[n] = p /\ current' = n
            /\ \A k \in DOMAIN proposals : proposals'[k] = proposals[k]
            /\ publishing' = publishing \cup {n} /\ asked' = asked \cup ({n} \X Voter)
<1> DEFINE p == [round |-> round, value |-> value, ref |-> OwnReference, votes |-> {},
                 finalized |-> FALSE]
           n == Len(proposals) + 1
<1>1. /\ proposals' = Append(proposals, p) /\ current' = n
      /\ publishing' = publishing \cup {n} /\ asked' = asked \cup ({n} \X Voter)
  BY DEF StorePending
<1> HIDE DEF p
<1>2. proposals \in Seq(Made \cup {p}) /\ Len(proposals) \in Nat /\ DOMAIN proposals = 1 .. Len(proposals)
  BY DEF Shape
<1>3. /\ proposals' \in Seq(Made \cup {p}) /\ Len(proposals') = n /\ proposals'[n] = p
      /\ \A k \in DOMAIN proposals : proposals'[k] = proposals[k]
  BY <1>1, <1>2, AppendProperties
<1>4. proposals' \in Seq(Made') /\ DOMAIN proposals' = 1 .. n
  BY <1>3, SeqOfElements, LenProperties DEF Made
<1> QED BY <1>1, <1>3, <1>4 DEF p

(* The reference of a new proposal is a checkpoint of an earlier one. *)
LEMMA OwnReferenceFacts ==
  ASSUME Shape, History, Outcomes
  PROVE  Refers(OwnReference, Len(proposals) + 1)
<1>1. CASE stored = {}
  BY <1>1 DEF OwnReference, Refers
<1>2. CASE stored # {}
  <2> DEFINE K == {c.k : c \in stored}
  <2>1. PICK d \in stored : \A c \in stored : c.k <= d.k
    BY <1>2 DEF History
  <2>2. \A c \in stored : c.k \in 1 .. Len(proposals)
    BY Positions DEF Outcomes
  <2>3. d.k \in K /\ \A y \in K : d.k >= y
    BY <2>1, <2>2, Positions
  <2>4. Max(K) \in K
    <3> HIDE DEF K
    <3> QED BY <2>3 DEF Max
  <2>5. \E c \in stored : c.k = Max(K)
    BY <2>4
  <2>6. OwnReference = Max(K)
    BY <1>2 DEF OwnReference
  <2> HIDE DEF K
  <2>7. OwnReference \in 1 .. Len(proposals)
    BY <2>2, <2>5, <2>6
  <2> QED BY <2>5, <2>6, <2>7, Positions DEF Refers
<1> QED BY <1>1, <1>2

(* A new proposal takes the place of the current one: it has no votes yet,   *)
(* and the votes on the others stay where they are.                          *)
LEMMA PendingInv ==
  ASSUME CheckpointInv, NEW round, NEW value, StorePending(round, value),
         deciding' \subseteq deciding, UNCHANGED <<windows, wakeups, stored, counting, lastSeen>>
  PROVE  CheckpointInv'
<1> DEFINE n == Len(proposals) + 1
           p == [round |-> round, value |-> value, ref |-> OwnReference, votes |-> {},
                 finalized |-> FALSE]
<1>1. /\ Shape /\ History /\ Outcomes /\ FirstWindow /\ \A k \in DOMAIN proposals : Ballot(k)
      /\ Len(proposals) \in Nat /\ DOMAIN proposals = 1 .. Len(proposals)
  BY Positions DEF CheckpointInv
<1>2. /\ proposals' \in Seq(Made') /\ Len(proposals') = n
      /\ DOMAIN proposals' = 1 .. n /\ proposals'[n] = p /\ current' = n
      /\ \A k \in DOMAIN proposals : proposals'[k] = proposals[k]
      /\ publishing' = publishing \cup {n} /\ asked' = asked \cup ({n} \X Voter)
  BY <1>1, Pended
<1>3. Shaped(p) /\ p.ref = OwnReference /\ p.votes = {}
  BY DEF Shaped
<1> HIDE DEF p
<1>4. n \in Nat /\ n \notin DOMAIN proposals /\ \A k \in DOMAIN proposals' : k \in DOMAIN proposals \/ k = n
  BY <1>1, <1>2
<1>5. Shape'
  <2>1. \A k \in DOMAIN proposals' : Shaped(proposals'[k])
    BY <1>1, <1>2, <1>3, <1>4 DEF Shape
  <2>2. publishing' \subseteq 1 .. n /\ windows' \subseteq 1 .. n /\ publishing' \cap windows' = {}
    <3>1. windows' = windows /\ publishing' = publishing \cup {n}
      BY <1>2
    <3>2. publishing \subseteq 1 .. Len(proposals) /\ windows \subseteq 1 .. Len(proposals)
          /\ publishing \cap windows = {}
      BY <1>1 DEF Shape
    <3>3. n \notin windows
      BY <1>1, <3>2
    <3>4. windows \subseteq 1 .. n /\ publishing \cup {n} \subseteq 1 .. n
      <4>1. 1 .. Len(proposals) \subseteq 1 .. n /\ n \in 1 .. n
        BY <1>1
      <4> HIDE DEF n
      <4> QED BY <3>2, <4>1
    <3> QED BY <3>1, <3>2, <3>3, <3>4
  <2>3. asked' \subseteq (1 .. n) \X Voter
    BY <1>1, <1>2 DEF Shape
  <2>4. \A w \in counting' : w.k \in 1 .. n
    BY <1>1 DEF Shape
  <2> QED BY <1>1, <1>2, <2>1, <2>2, <2>3, <2>4 DEF Shape
<1>6. \A r, k : Refers(r, k) => Refers(r, k)'
  BY DEF Refers
<1>7. History'
  <2>1. Refers(OwnReference, n)
    BY <1>1, OwnReferenceFacts
  <2> QED BY <1>1, <1>2, <1>3, <1>4, <1>6, <2>1 DEF History
<1>8. Outcomes'
  <2>1. \A k \in DOMAIN proposals : k \in DOMAIN proposals' /\ proposals'[k] = proposals[k]
    BY <1>1, <1>2
  <2>2. \A c : Agreed(c) => Agreed(c)'
    BY DEF Agreed
  <2> QED BY <1>1, <2>1, <2>2 DEF Outcomes
<1>9. FirstWindow'
  BY <1>1, <1>2 DEF FirstWindow
<1>10. ASSUME NEW k \in DOMAIN proposals' PROVE Ballot(k)'
  <2>1. CASE k \in DOMAIN proposals
    <3>1. Cast(k)' = Cast(k) /\ proposals'[k] = proposals[k]
      BY <1>2, <2>1 DEF Cast
    <3>2. \A v : <<k, v>> \in asked' => <<k, v>> \in asked
      BY <1>2, <1>4, <2>1
    <3> QED BY <1>1, <1>6, <2>1, <3>1, <3>2 DEF Ballot
  <2>2. CASE k = n
    <3>1. Cast(k)' = {}
      BY <1>1, <1>2, <1>3, <2>2 DEF Cast, Shape
    <3>2. IsFiniteSet(proposals'[k].votes)
      BY <1>2, <1>3, <2>2, FS_EmptySet
    <3> QED BY <3>1, <3>2 DEF Ballot
  <2> QED BY <1>4, <2>1, <2>2
<1> QED BY <1>5, <1>7, <1>8, <1>9, <1>10 DEF CheckpointInv

-----------------------------------------------------------------------------
(* Steps that leave the list of proposals alone *)

(* The proposer's own books change, the ballots do not. *)
LEMMA BooksInv ==
  ASSUME CheckpointInv, UNCHANGED <<proposals, current, stored, asked, counting, lastSeen>>,
         publishing' \subseteq publishing, windows' \subseteq windows \cup publishing,
         publishing' \cap windows' = {}, wakeups' \in Nat, deciding' \subseteq deciding,
         FirstWindow'
  PROVE  CheckpointInv'
<1>1. /\ Shape /\ History /\ Outcomes /\ \A k \in DOMAIN proposals : Ballot(k)
  BY DEF CheckpointInv
<1>2. Made' = Made
  BY DEF Made
<1>3. Shape'
  BY <1>1, <1>2 DEF Shape, Shaped
<1>4. History' /\ Outcomes'
  BY <1>1 DEF History, Outcomes, Agreed, Refers
<1>5. \A k \in DOMAIN proposals' : Ballot(k)'
  BY <1>1 DEF Ballot, Cast, Refers
<1> QED BY <1>3, <1>4, <1>5 DEF CheckpointInv

(* A vote arrives: it refers to the last checkpoint its voter has seen,      *)
(* which is of an earlier proposal because this one is not finalized.        *)
LEMMA VoteInv ==
  ASSUME CheckpointInv, NEW k, NEW v, NEW mine, HandleVote(k, v, mine)
  PROVE  CheckpointInv'
<1> DEFINE w == VoteOf(k, v, mine)
<1>1. /\ Shape /\ History /\ Outcomes /\ FirstWindow /\ \A i \in DOMAIN proposals : Ballot(i)
      /\ Len(proposals) \in Nat /\ DOMAIN proposals = 1 .. Len(proposals)
  BY Positions DEF CheckpointInv
<1>2. /\ <<k, v>> \in asked /\ asked' = asked \ {<<k, v>>}
      /\ UNCHANGED <<proposals, current, stored, deciding, publishing, windows, wakeups, lastSeen>>
      /\ counting' = counting \/ (k = current /\ ~proposals[k].finalized /\ counting' = counting \cup {w})
  BY DEF HandleVote, proposerVars
<1>3. k \in DOMAIN proposals /\ v \in Voter
  BY <1>1, <1>2 DEF Shape
<1>4. /\ w.k = k /\ w.voter = v /\ w.ref = lastSeen[v]
      /\ w.approved => w.value = proposals[k].value
  BY DEF VoteOf
<1> HIDE DEF w
<1>5. k = current /\ ~proposals[k].finalized => Refers(lastSeen[v], k)
  <2> SUFFICES ASSUME k = current, ~proposals[k].finalized, lastSeen[v] # 0
               PROVE  Refers(lastSeen[v], k)
    BY DEF Refers
  <2>1. PICK d \in stored : d.k = lastSeen[v]
    BY <1>1, <1>3 DEF History
  <2>2. d.k \in 1 .. Len(proposals) /\ proposals[d.k].finalized
    BY <1>1 DEF Outcomes
  <2>3. d.k # k /\ k = Len(proposals)
    BY <1>1, <2>2 DEF Shape
  <2>4. d.k < k
    BY <1>1, <2>2, <2>3
  <2> QED BY <2>1, <2>4 DEF Refers
<1>6. Made' = Made
  BY <1>2 DEF Made
<1>7. Shape'
  <2>1. \A x \in counting' : x.k \in 1 .. Len(proposals)
    BY <1>1, <1>2, <1>3, <1>4 DEF Shape
  <2>2. asked' \subseteq (1 .. Len(proposals)) \X Voter
    BY <1>1, <1>2 DEF Shape
  <2> QED BY <1>1, <1>2, <1>6, <2>1, <2>2 DEF Shape, Shaped
<1>8. History' /\ Outcomes' /\ FirstWindow'
  BY <1>1, <1>2 DEF History, Outcomes, Agreed, Refers, FirstWindow
<1>9. ASSUME NEW i \in DOMAIN proposals PROVE Ballot(i)'
  <2>1. Ballot(i)
    BY <1>1
  <2>2. \A r : Refers(r, i)' <=> Refers(r, i)
    BY <1>2 DEF Refers
  <2>3. CASE Cast(i)' = Cast(i)
    <3>1. \A u : <<i, u>> \in asked' => <<i, u>> \in asked
      BY <1>2
    <3> QED BY <1>2, <2>1, <2>2, <2>3, <3>1 DEF Ballot
  <2>4. CASE /\ i = k /\ k = current /\ ~proposals[k].finalized /\ Cast(i)' = Cast(i) \cup {w}
    <3>1. \A x \in Cast(i) : x.voter # v
      BY <1>2, <2>1, <2>4 DEF Ballot
    <3>2. \A x \in Cast(i)' : <<i, x.voter>> \notin asked'
      BY <1>2, <1>4, <2>1, <2>4 DEF Ballot
    <3>3. \A x \in Cast(i)' : \A y \in Cast(i)' : y.voter = x.voter => y = x
      BY <1>4, <2>1, <2>4, <3>1 DEF Ballot
    <3>4. \A x \in Cast(i)' : Refers(x.ref, i)
      BY <1>4, <1>5, <2>1, <2>4 DEF Ballot
    <3>5. \A x \in Cast(i)' : x.k = i /\ x.voter \in Voter
                              /\ (x.approved => x.value = proposals[i].value)
      BY <1>3, <1>4, <2>1, <2>4 DEF Ballot
    <3> QED BY <1>2, <2>1, <2>2, <3>2, <3>3, <3>4, <3>5 DEF Ballot
  <2>5. Cast(i)' = Cast(i) \/ (i = k /\ k = current /\ ~proposals[k].finalized
                               /\ Cast(i)' = Cast(i) \cup {w})
    <3>1. CASE counting' = counting
      BY <1>2, <3>1 DEF Cast
    <3>2. CASE k = current /\ ~proposals[k].finalized /\ counting' = counting \cup {w}
      <4>1. CASE i = k
        BY <1>2, <1>4, <3>2, <4>1 DEF Cast
      <4>2. CASE i # k
        BY <1>2, <1>4, <3>2, <4>2 DEF Cast
      <4> QED BY <4>1, <4>2
    <3> QED BY <1>2, <3>1, <3>2
  <2> QED BY <2>3, <2>4, <2>5
<1> QED BY <1>2, <1>7, <1>8, <1>9 DEF CheckpointInv

-----------------------------------------------------------------------------
(* Steps that change one proposal *)

(* Proposal k keeps its value and reference and gains votes or its mark.     *)
LEMMA RevisedInv ==
  ASSUME CheckpointInv, NEW k \in DOMAIN proposals, NEW p, Shaped(p),
         proposals' = [proposals EXCEPT ![k] = p],
         p.value = proposals[k].value, p.ref = proposals[k].ref,
         proposals[k].finalized => p.finalized, IsFiniteSet(p.votes),
         \A i \in DOMAIN proposals : Cast(i)' = Cast(i),
         UNCHANGED <<current, stored, asked, publishing, windows, lastSeen>>,
         counting' \subseteq counting, wakeups' \in Nat,
         \A i \in deciding' : i \in deciding \/ (i = k /\ p.finalized /\ ~proposals[k].finalized),
         FirstWindow'
  PROVE  CheckpointInv'
<1>1. /\ Shape /\ History /\ Outcomes /\ \A i \in DOMAIN proposals : Ballot(i)
  BY DEF CheckpointInv
<1>2. /\ proposals' \in Seq(Made') /\ Len(proposals') = Len(proposals)
      /\ DOMAIN proposals' = DOMAIN proposals /\ proposals'[k] = p
      /\ \A i \in DOMAIN proposals \ {k} : proposals'[i] = proposals[i]
  BY <1>1, Replaced
<1>3. \A i \in DOMAIN proposals :
        /\ proposals'[i].value = proposals[i].value /\ proposals'[i].ref = proposals[i].ref
        /\ proposals[i].finalized => proposals'[i].finalized
        /\ Shaped(proposals'[i]) /\ IsFiniteSet(proposals'[i].votes)
  BY <1>1, <1>2 DEF Shape, Ballot
<1>4. Shape'
  <2>1. \A i \in DOMAIN proposals' : Shaped(proposals'[i])
    BY <1>2, <1>3
  <2> QED BY <1>1, <1>2, <2>1 DEF Shape
<1>5. \A r, i : Refers(r, i)' <=> Refers(r, i)
  BY DEF Refers
<1>6. History'
  BY <1>1, <1>2, <1>3, <1>5 DEF History
<1>7. Outcomes'
  <2>1. \A i \in deciding' : i \in DOMAIN proposals' /\ proposals'[i].finalized
    BY <1>1, <1>2, <1>3 DEF Outcomes
  <2>2. \A c \in stored : c.k \notin deciding'
    BY <1>1 DEF Outcomes
  <2>3. \A c \in stored : Agreed(c)'
    BY <1>1 DEF Outcomes, Agreed
  <2> QED BY <1>1, <1>2, <1>3, <2>1, <2>2, <2>3 DEF Outcomes
<1>8. \A i \in DOMAIN proposals' : Ballot(i)'
  BY <1>1, <1>2, <1>3, <1>5 DEF Ballot
<1> QED BY <1>4, <1>6, <1>7, <1>8 DEF CheckpointInv

(* One field of a proposal is set. *)
LEMMA SetMark ==
  ASSUME NEW q, Shaped(q), NEW x
  PROVE  LET p == [q EXCEPT !.finalized = x]
         IN  /\ Shaped(p) /\ p.votes = q.votes /\ p.value = q.value
             /\ p.ref = q.ref /\ p.finalized = x
  BY DEF Shaped

(* A vote is counted: it stays cast, and there are no fewer of them.  The    *)
(* finalizer it starts had enough votes.                                     *)
LEMMA CountInv ==
  ASSUME CheckpointInv, NEW w, CountVote(w)
  PROVE  CheckpointInv'
<1> DEFINE k == w.k
           got == proposals[k].votes \cup {w}
           p == [proposals[k] EXCEPT !.votes = got]
<1>1. /\ Shape /\ History /\ Outcomes /\ FirstWindow /\ \A i \in DOMAIN proposals : Ballot(i)
      /\ Len(proposals) \in Nat /\ DOMAIN proposals = 1 .. Len(proposals)
  BY Positions DEF CheckpointInv
<1>2. /\ w \in counting /\ counting' = counting \ {w}
      /\ proposals' = [proposals EXCEPT ![k].votes = got]
      /\ wakeups' = IF Cardinality(got) >= MinVotersRequired THEN wakeups + 1 ELSE wakeups
      /\ UNCHANGED <<current, publishing, windows, deciding, stored, asked, lastSeen>>
  BY DEF CountVote
<1>3. k \in DOMAIN proposals
  BY <1>1, <1>2 DEF Shape
<1>4. proposals' = [proposals EXCEPT ![k] = p]
  BY <1>2
<1>5. /\ Shaped(p) /\ p.votes = got /\ p.value = proposals[k].value
      /\ p.ref = proposals[k].ref /\ p.finalized = proposals[k].finalized
  <2>1. Shaped(proposals[k])
    BY <1>1, <1>3 DEF Shape
  <2> HIDE DEF got
  <2> QED BY <2>1 DEF Shaped
<1>6. IsFiniteSet(got) /\ Cardinality(proposals[k].votes) <= Cardinality(got)
      /\ Cardinality(got) \in Nat /\ Cardinality(proposals[k].votes) \in Nat
  <2>1. IsFiniteSet(proposals[k].votes)
    BY <1>1, <1>3 DEF Ballot
  <2>2. IsFiniteSet(got)
    BY <2>1, FS_AddElement
  <2> QED BY <2>1, <2>2, FS_Subset, FS_CardinalityType
<1>7. /\ proposals'[k] = p /\ Len(proposals') = Len(proposals)
      /\ \A i \in DOMAIN proposals \ {k} : proposals'[i] = proposals[i]
  <2> HIDE DEF p, k
  <2> QED BY <1>1, <1>3, <1>4, Replaced
<1>8. \A i \in DOMAIN proposals : Cast(i)' = Cast(i)
  <2> SUFFICES ASSUME NEW i \in DOMAIN proposals PROVE Cast(i)' = Cast(i)
    OBVIOUS
  <2>1. CASE i = k
    <3>1. proposals'[i].votes = proposals[i].votes \cup {w}
      BY <1>5, <1>7, <2>1
    <3> QED BY <1>2, <2>1, <3>1 DEF Cast
  <2>2. CASE i # k
    <3>1. proposals'[i].votes = proposals[i].votes
      BY <1>7, <2>2
    <3> QED BY <1>2, <2>2, <3>1 DEF Cast
  <2> QED BY <2>1, <2>2
<1>9. wakeups' \in Nat
  BY <1>1, <1>2 DEF Shape
<1>10. FirstWindow'
  <2> SUFFICES ASSUME Len(proposals) = 1, ~proposals'[1].finalized, wakeups' > 0,
                      1 \in windows \cup publishing
               PROVE  Cardinality(proposals'[1].votes) >= MinVotersRequired
    BY <1>1, <1>2, <1>3, <1>7 DEF FirstWindow
  <2>1. k = 1 /\ proposals'[1].votes = got /\ ~proposals[1].finalized
    <3>1. k = 1
      BY <1>1, <1>3
    <3>2. proposals'[1] = p
      BY <1>7, <3>1
    <3> HIDE DEF p, got, k
    <3> QED BY <1>5, <3>1, <3>2
  <2>2. CASE Cardinality(got) >= MinVotersRequired
    BY <2>1, <2>2
  <2>3. CASE ~(Cardinality(got) >= MinVotersRequired)
    <3>1. Cardinality(proposals[1].votes) >= MinVotersRequired
      BY <1>1, <1>2, <2>1, <2>3 DEF FirstWindow
    <3> QED BY <1>6, <2>1, <3>1, CheckpointAssumption
  <2> QED BY <2>2, <2>3
<1> HIDE DEF k, p, got
<1> QED BY <1>2, <1>3, <1>4, <1>5, <1>6, <1>8, <1>9, <1>10, RevisedInv

(* The current proposal is marked; only now can its outcome be decided.      *)
LEMMA FinalizeInv ==
  ASSUME CheckpointInv, FinalizeProposal
  PROVE  CheckpointInv'
<1>1. /\ Shape /\ History /\ Outcomes /\ FirstWindow /\ \A i \in DOMAIN proposals : Ballot(i)
      /\ Len(proposals) \in Nat /\ DOMAIN proposals = 1 .. Len(proposals)
  BY Positions DEF CheckpointInv
<1>2. /\ wakeups > 0 /\ wakeups' = wakeups - 1
      /\ UNCHANGED <<current, publishing, windows, stored, asked, counting, lastSeen>>
  BY DEF FinalizeProposal
<1>3. wakeups' \in Nat /\ wakeups \in Nat /\ current = Len(proposals)
  BY <1>1, <1>2 DEF Shape
<1>4. CASE UNCHANGED <<proposals, deciding>>
  <2>1. FirstWindow'
    BY <1>1, <1>2, <1>3, <1>4 DEF FirstWindow
  <2> QED BY <1>1, <1>2, <1>3, <1>4, <2>1, BooksInv DEF Shape
<1>5. CASE /\ current # 0 /\ ~proposals[current].finalized
           /\ proposals' = [proposals EXCEPT ![current].finalized = TRUE]
           /\ deciding' = deciding \cup {current}
  <2> DEFINE k == current
             p == [proposals[k] EXCEPT !.finalized = TRUE]
  <2>1. k \in DOMAIN proposals /\ k = Len(proposals)
    BY <1>1, <1>3, <1>5
  <2>2. proposals' = [proposals EXCEPT ![k] = p]
    BY <1>5
  <2>3. /\ Shaped(p) /\ p.votes = proposals[k].votes /\ p.value = proposals[k].value
        /\ p.ref = proposals[k].ref /\ p.finalized
    <3>1. Shaped(proposals[k])
      BY <1>1, <2>1 DEF Shape
    <3> QED BY <3>1, SetMark
  <2> HIDE DEF p
  <2>4. /\ proposals'[k] = p /\ Len(proposals') = Len(proposals)
        /\ \A i \in DOMAIN proposals \ {k} : proposals'[i] = proposals[i]
    BY <1>1, <2>1, <2>2, Replaced
  <2>5. \A i \in DOMAIN proposals : Cast(i)' = Cast(i)
    <3>1. \A i \in DOMAIN proposals : proposals'[i].votes = proposals[i].votes
      BY <2>3, <2>4
    <3> QED BY <1>2, <3>1 DEF Cast
  <2>6. IsFiniteSet(p.votes)
    BY <1>1, <2>1, <2>3 DEF Ballot
  <2>7. FirstWindow'
    <3>1. Len(proposals) # 0
      BY <1>1, <2>1
    <3>2. Len(proposals) = 1 => proposals'[1].finalized
      BY <2>1, <2>3, <2>4
    <3> QED BY <2>4, <3>1, <3>2 DEF FirstWindow
  <2> QED BY <1>2, <1>3, <1>5, <2>1, <2>2, <2>3, <2>5, <2>6, <2>7, RevisedInv
<1> QED BY <1>4, <1>5 DEF FinalizeProposal

-----------------------------------------------------------------------------
(* What consensus was found on *)

(* The smaller of two numbers. *)
LEMMA MinOfTwo ==
  ASSUME NEW a \in Int, NEW b \in Int
  PROVE  Min({a, b}) = IF a <= b THEN a ELSE b
<1> DEFINE m == IF a <= b THEN a ELSE b
<1>1. m \in {a, b} /\ \A y \in {a, b} : m <= y
  OBVIOUS
<1>2. \A x \in {a, b} : (\A y \in {a, b} : x <= y) => x = m
  OBVIOUS
<1> QED BY <1>1, <1>2 DEF Min

(* Naming the elements of a finite set one to one keeps their number. *)
LEMMA SameNumber ==
  ASSUME NEW S, IsFiniteSet(S), \A x, y \in S : x.voter = y.voter => x = y
  PROVE  Cardinality({x.voter : x \in S}) = Cardinality(S)
<1> DEFINE T == {x.voter : x \in S}
           f == [x \in S |-> x.voter]
<1>1. f \in Surjection(S, T)
  BY DEF Surjection
<1>2. f \in Injection(S, T)
  <2>1. \A x, y \in S : f[x] = f[y] => x = y
    OBVIOUS
  <2>2. f \in [S -> T]
    BY <1>1 DEF Surjection
  <2> HIDE DEF T, f
  <2> QED BY <2>1, <2>2 DEF Injection, IsInjective
<1> HIDE DEF T, f
<1>3. Cardinality(T) = Cardinality(S)
  BY <1>1, <1>2, FS_Surjection
<1> QED BY <1>3 DEF T

(* The group consensus is found on: enough votes for one value, and a        *)
(* reference that resolves.                                                  *)
LEMMA ConsensusFacts ==
  ASSUME NEW k \in DOMAIN proposals, Ballot(k), Refers(proposals[k].ref, k),
         NEW g \in TryFindConsensus(proposals[k])
  PROVE  /\ g.votes \subseteq proposals[k].votes
         /\ \A w \in g.votes : w.value = g.value
         /\ Refers(g.ref, k)
         /\ Cardinality(g.votes) >= MinVotersRequired
<1> DEFINE q == proposals[k]
<1>1. /\ g \in Groups(q.votes) \/ g = Approvals(q)
      /\ Cardinality(g.votes) >= MinVotersRequired
  <2>1. CASE g = Approvals(q) /\ Cardinality(Approvals(q).votes) >= MinVotersRequired
    BY <2>1
  <2>2. CASE g \in Groups(q.votes) /\ Cardinality(g.votes) >= MinVotersRequired
    BY <2>2
  <2> QED BY <2>1, <2>2, Zenon DEF TryFindConsensus
<1>2. \A w \in q.votes : /\ Refers(w.ref, k) /\ (w.approved => w.value = q.value)
  BY DEF Ballot, Cast
<1>3. CASE g \in Groups(q.votes)
  <2>1. PICK w \in q.votes :
          g = [value |-> w.value, ref |-> w.ref,
               votes |-> {x \in q.votes : x.value = w.value /\ x.ref = w.ref}]
    BY <1>3 DEF Groups
  <2>2. /\ g.value = w.value /\ g.ref = w.ref
        /\ g.votes = {x \in q.votes : x.value = w.value /\ x.ref = w.ref}
    BY <2>1
  <2> QED BY <1>1, <1>2, <2>2
<1>4. CASE g = Approvals(q)
  <2>1. /\ g.value = q.value /\ g.ref = q.ref /\ g.votes = {w \in q.votes : w.approved}
    BY <1>4 DEF Approvals
  <2> QED BY <1>1, <1>2, <2>1
<1> QED BY <1>1, <1>3, <1>4

(* However the signatures are trimmed, enough voters sign, and each of them  *)
(* voted on this proposal for this value.                                    *)
LEMMA BuiltFacts ==
  ASSUME NEW k \in DOMAIN proposals, Ballot(k), Refers(proposals[k].ref, k),
         NEW g \in TryFindConsensus(proposals[k]), NEW c \in Build(k, g)
  PROVE  c.k = k /\ Refers(c.ref, k) /\ Agreed(c)
<1>1. /\ g.votes \subseteq proposals[k].votes /\ Refers(g.ref, k)
      /\ \A w \in g.votes : w.value = g.value
      /\ Cardinality(g.votes) >= MinVotersRequired
  BY ConsensusFacts
<1>2. IsFiniteSet(g.votes) /\ Cardinality(g.votes) \in Nat
  BY <1>1, FS_Subset, FS_CardinalityType DEF Ballot
<1> DEFINE self == g.value = proposals[k].value /\ g.ref = proposals[k].ref
           room == MaxCheckpointSignatures - (IF self THEN 1 ELSE 0)
<1>3. PICK S \in SUBSET g.votes :
        /\ Cardinality(S) = Min({room, Cardinality(g.votes)})
        /\ c = [k |-> k, value |-> g.value, ref |-> g.ref, self |-> self, signers |-> S]
  BY DEF Build
<1>4. c.k = k /\ c.value = g.value /\ c.ref = g.ref /\ c.signers = S
  <2> HIDE DEF self
  <2> QED BY <1>3
<1>5. Cardinality(S) >= MinVotersRequired
  <2>1. room \in Int /\ room >= MinVotersRequired
    BY CheckpointAssumption
  <2> HIDE DEF room
  <2> QED BY <1>1, <1>2, <1>3, <2>1, MinOfTwo, CheckpointAssumption
<1>6. IsFiniteSet(S)
  BY <1>2, FS_Subset
<1>7. \A w \in S : w \in Cast(k) /\ w.value = g.value
  BY <1>1 DEF Cast
<1>8. Cardinality({w.voter : w \in S}) = Cardinality(S)
  <2>1. \A x, y \in S : x.voter = y.voter => x = y
    BY <1>7 DEF Ballot
  <2> QED BY <1>6, <2>1, SameNumber
<1>9. \A w \in S : w.k = k
  BY <1>7 DEF Ballot
<1> QED BY <1>1, <1>4, <1>5, <1>7, <1>8, <1>9 DEF Agreed

(* A checkpoint of a marked proposal joins the history: its proposal has no  *)
(* checkpoint yet, and the mark that would allow another is taken away.      *)
LEMMA DecideInv ==
  ASSUME CheckpointInv, NEW k, DecideCheckpoint(k)
  PROVE  CheckpointInv'
<1>1. /\ Shape /\ History /\ Outcomes /\ FirstWindow /\ \A i \in DOMAIN proposals : Ballot(i)
      /\ Len(proposals) \in Nat /\ DOMAIN proposals = 1 .. Len(proposals)
  BY Positions DEF CheckpointInv
<1>2. /\ k \in deciding /\ deciding' = deciding \ {k}
      /\ UNCHANGED <<proposals, current, publishing, windows, wakeups, asked, counting, lastSeen>>
  BY DEF DecideCheckpoint
<1>3. PICK g \in TryFindConsensus(proposals[k]) : \E c \in Build(k, g) :
        stored' = IF Verifies(c) THEN stored \cup {c} ELSE stored
  BY DEF DecideCheckpoint
<1>4. PICK c \in Build(k, g) : stored' = IF Verifies(c) THEN stored \cup {c} ELSE stored
  BY <1>3
<1>5. k \in DOMAIN proposals /\ proposals[k].finalized /\ \A d \in stored : d.k # k
  BY <1>1, <1>2 DEF Outcomes
<1>6. Ballot(k) /\ Refers(proposals[k].ref, k)
  BY <1>1, <1>5 DEF History
<1>7. c.k = k /\ Refers(c.ref, k) /\ Agreed(c)
  BY <1>3, <1>4, <1>5, <1>6, BuiltFacts
<1>8. CASE stored' = stored
  <2>1. FirstWindow'
    BY <1>1, <1>2 DEF FirstWindow
  <2> QED BY <1>1, <1>2, <1>8, <2>1, BooksInv DEF Shape
<1>9. CASE stored' = stored \cup {c}
  <2>1. Made' = Made
    BY <1>2 DEF Made
  <2>2. Shape'
    BY <1>1, <1>2, <2>1 DEF Shape, Shaped
  <2>3. \A r, i : Refers(r, i) => Refers(r, i)'
    BY <1>9 DEF Refers
  <2>4. History'
    <3>1. \E d \in stored' : \A e \in stored' : e.k <= d.k
      <4>1. CASE stored = {}
        BY <1>1, <1>5, <1>7, <1>9, <4>1
      <4>2. CASE stored # {}
        <5>1. PICK d \in stored : \A e \in stored : e.k <= d.k
          BY <1>1, <4>2 DEF History
        <5>2. \A e \in stored' : e.k \in 1 .. Len(proposals)
          BY <1>1, <1>5, <1>7, <1>9 DEF Outcomes
        <5>3. CASE d.k <= k
          <6>1. \A e \in stored' : e.k <= c.k
            BY <1>5, <1>7, <1>9, <5>1, <5>2, <5>3
          <6> QED BY <1>9, <6>1
        <5>4. CASE k <= d.k
          <6>1. \A e \in stored' : e.k <= d.k
            BY <1>7, <1>9, <5>1, <5>4
          <6> QED BY <1>9, <6>1
        <5> QED BY <1>1, <1>5, <1>9, <5>2, <5>3, <5>4
      <4> QED BY <4>1, <4>2
    <3>2. \A i \in DOMAIN proposals' : Refers(proposals[i].ref, i)'
      BY <1>1, <1>2, <2>3 DEF History
    <3>3. \A e \in stored' : Refers(e.ref, e.k)'
      BY <1>1, <1>7, <1>9, <2>3 DEF History
    <3>4. \A v \in Voter : lastSeen'[v] # 0 => \E d \in stored' : d.k = lastSeen'[v]
      BY <1>1, <1>2, <1>9 DEF History
    <3> QED BY <3>1, <3>2, <3>3, <3>4 DEF History
  <2>5. Outcomes'
    <3>1. \A i \in deciding' : i \in DOMAIN proposals /\ proposals[i].finalized
      BY <1>1, <1>2 DEF Outcomes
    <3>2. \A e \in stored' :
            /\ e.k \in DOMAIN proposals /\ proposals[e.k].finalized /\ e.k \notin deciding'
            /\ Agreed(e)
      BY <1>1, <1>2, <1>5, <1>7, <1>9 DEF Outcomes
    <3>3. \A d, e \in stored' : d.k = e.k => e = d
      BY <1>1, <1>5, <1>7, <1>9 DEF Outcomes
    <3> QED BY <1>2, <3>1, <3>2, <3>3 DEF Outcomes, Agreed
  <2>6. \A i \in DOMAIN proposals' : Ballot(i)'
    <3>1. \A i : Cast(i)' = Cast(i)
      BY <1>2 DEF Cast
    <3> QED BY <1>1, <1>2, <2>3, <3>1 DEF Ballot
  <2>7. FirstWindow'
    BY <1>1, <1>2 DEF FirstWindow
  <2> QED BY <2>2, <2>4, <2>5, <2>6, <2>7 DEF CheckpointInv
<1> QED BY <1>4, <1>8, <1>9

-----------------------------------------------------------------------------
(* Every step *)

(* The proposer's steps that make no proposal and count no vote: a window    *)
(* that closes wakes a finalizer, and is no longer open.                     *)
LEMMA QuietInv ==
  ASSUME CheckpointInv,
         \/ CheckAndPropose \/ DayPasses
         \/ \E k \in publishing : Published(k) \/ PublishFailed(k)
         \/ \E k \in windows : WindowCloses(k)
         \/ \E k \in deciding : DecideGiveUp(k)
  PROVE  CheckpointInv'
<1>1. /\ Shape /\ FirstWindow /\ Len(proposals) \in Nat
      /\ publishing \cap windows = {} /\ wakeups \in Nat
      /\ windows \subseteq 1 .. Len(proposals)
  BY Positions DEF CheckpointInv, Shape
<1>2. CASE CheckAndPropose
  <2>1. UNCHANGED <<proposals, current, publishing, windows, wakeups, deciding, stored,
                    asked, counting, lastSeen>>
    BY <1>2 DEF CheckAndPropose
  <2> QED BY <1>1, <2>1, BooksInv DEF FirstWindow
<1>3. CASE DayPasses
  <2>1. UNCHANGED <<proposals, current, publishing, windows, wakeups, deciding, stored,
                    asked, counting, lastSeen>>
    BY <1>3 DEF DayPasses
  <2> QED BY <1>1, <2>1, BooksInv DEF FirstWindow
<1>4. CASE \E k \in publishing : Published(k)
  <2>1. PICK k \in publishing : Published(k)
    BY <1>4
  <2>2. /\ publishing' = publishing \ {k} /\ windows' = windows \cup {k}
        /\ UNCHANGED <<proposals, current, wakeups, deciding, stored, asked, counting, lastSeen>>
    BY <2>1 DEF Published
  <2>3. FirstWindow'
    BY <1>1, <2>1, <2>2 DEF FirstWindow
  <2> QED BY <1>1, <2>1, <2>2, <2>3, BooksInv
<1>5. CASE \E k \in publishing : PublishFailed(k)
  <2>1. PICK k \in publishing : PublishFailed(k)
    BY <1>5
  <2>2. /\ publishing' = publishing \ {k}
        /\ UNCHANGED <<proposals, current, windows, wakeups, deciding, stored, asked,
                       counting, lastSeen>>
    BY <2>1 DEF PublishFailed
  <2>3. FirstWindow'
    BY <1>1, <2>1, <2>2 DEF FirstWindow
  <2> QED BY <1>1, <2>1, <2>2, <2>3, BooksInv
<1>6. CASE \E k \in windows : WindowCloses(k)
  <2>1. PICK k \in windows : WindowCloses(k)
    BY <1>6
  <2>2. /\ windows' = windows \ {k} /\ wakeups' = wakeups + 1
        /\ UNCHANGED <<proposals, current, publishing, deciding, stored, asked, counting, lastSeen>>
    BY <2>1 DEF WindowCloses
  <2>3. FirstWindow'
    <3>1. Len(proposals) # 0 /\ (Len(proposals) = 1 => k = 1)
      <4>1. k \in 1 .. Len(proposals)
        BY <1>1, <2>1
      <4>2. \A n \in Nat : k \in 1 .. n => n # 0 /\ (n = 1 => k = 1)
        OBVIOUS
      <4> QED BY <1>1, <4>1, <4>2, Zenon
    <3>2. k \notin windows' \cup publishing'
      BY <1>1, <2>1, <2>2
    <3> QED BY <2>2, <3>1, <3>2 DEF FirstWindow
  <2> QED BY <1>1, <2>1, <2>2, <2>3, BooksInv
<1>7. CASE \E k \in deciding : DecideGiveUp(k)
  <2>1. PICK k \in deciding : DecideGiveUp(k)
    BY <1>7
  <2>2. /\ deciding' = deciding \ {k}
        /\ UNCHANGED <<proposals, current, publishing, windows, wakeups, stored, asked,
                       counting, lastSeen>>
    BY <2>1 DEF DecideGiveUp
  <2> QED BY <1>1, <2>2, BooksInv DEF FirstWindow
<1> QED BY <1>2, <1>3, <1>4, <1>5, <1>6, <1>7

(* A proposal is made, or dropped because MQTT is down. *)
LEMMA ProposeInv ==
  ASSUME CheckpointInv,
         \/ \E x \in Value, connected \in BOOLEAN : ProposeCheckpoint(x, connected)
         \/ \E k \in deciding, connected \in BOOLEAN : DecideRound2(k, connected)
  PROVE  CheckpointInv'
<1>1. /\ Shape /\ FirstWindow
      /\ publishing \cap windows = {} /\ wakeups \in Nat
  BY DEF CheckpointInv, Shape
<1>2. CASE UNCHANGED <<proposals, current, publishing, asked, windows, wakeups, stored,
                       counting, lastSeen>> /\ deciding' \subseteq deciding
  BY <1>1, <1>2, BooksInv DEF FirstWindow
<1>3. CASE \E x \in Value, connected \in BOOLEAN : ProposeCheckpoint(x, connected)
  <2>1. PICK x \in Value, connected \in BOOLEAN : ProposeCheckpoint(x, connected)
    BY <1>3
  <2>2. UNCHANGED <<windows, wakeups, deciding, stored, counting, lastSeen>>
    BY <2>1 DEF ProposeCheckpoint
  <2>3. CASE StorePending(1, x)
    BY <2>2, <2>3, PendingInv
  <2>4. CASE UNCHANGED <<proposals, current, publishing, asked>>
    BY <1>2, <2>2, <2>4
  <2> QED BY <2>1, <2>3, <2>4 DEF ProposeCheckpoint
<1>4. CASE \E k \in deciding, connected \in BOOLEAN : DecideRound2(k, connected)
  <2>1. PICK k \in deciding, connected \in BOOLEAN : DecideRound2(k, connected)
    BY <1>4
  <2> DEFINE mean == TrimmedMean(proposals[k].votes)
  <2>2. UNCHANGED <<windows, wakeups, stored, counting, lastSeen>> /\ deciding' \subseteq deciding
    BY <2>1 DEF DecideRound2
  <2>3. StorePending(2, mean) \/ UNCHANGED <<proposals, current, publishing, asked>>
    BY <2>1, Zenon DEF DecideRound2
  <2>4. CASE StorePending(2, mean)
    <3> HIDE DEF mean
    <3> QED BY <2>2, <2>4, PendingInv
  <2>5. CASE UNCHANGED <<proposals, current, publishing, asked>>
    BY <1>2, <2>2, <2>5
  <2> QED BY <2>3, <2>4, <2>5
<1> QED BY <1>3, <1>4

(* A voter learns of a checkpoint that is stored. *)
LEMMA LearnInv ==
  ASSUME CheckpointInv, NEW c, NEW v, HandleFinalCheckpoint(c, v)
  PROVE  CheckpointInv'
<1>1. /\ Shape /\ History /\ Outcomes /\ FirstWindow /\ \A k \in DOMAIN proposals : Ballot(k)
      /\ DOMAIN proposals = 1 .. Len(proposals) /\ Len(proposals) \in Nat
  BY Positions DEF CheckpointInv
<1>2. /\ c \in stored /\ lastSeen' = [lastSeen EXCEPT ![v] = c.k]
      /\ UNCHANGED <<proposals, current, publishing, windows, wakeups, deciding, stored,
                     asked, counting>>
  BY DEF HandleFinalCheckpoint, proposerVars
<1>3. c.k \in Nat
  BY <1>1, <1>2 DEF Outcomes
<1>4. lastSeen' \in [Voter -> Nat]
      /\ \A u \in Voter : lastSeen'[u] = lastSeen[u] \/ lastSeen'[u] = c.k
  BY <1>1, <1>2, <1>3 DEF Shape
<1>5. Made' = Made
  BY <1>2 DEF Made
<1>6. Shape'
  BY <1>1, <1>2, <1>4, <1>5 DEF Shape, Shaped
<1>7. \A u \in Voter : lastSeen'[u] # 0 => \E d \in stored' : d.k = lastSeen'[u]
  BY <1>1, <1>2, <1>4 DEF History
<1>8. History'
  BY <1>1, <1>2, <1>7 DEF History, Refers
<1>9. Outcomes' /\ FirstWindow'
  BY <1>1, <1>2 DEF Outcomes, Agreed, FirstWindow
<1>10. \A k \in DOMAIN proposals' : Ballot(k)'
  BY <1>1, <1>2 DEF Ballot, Cast, Refers
<1> QED BY <1>6, <1>8, <1>9, <1>10 DEF CheckpointInv

(* Every step keeps the invariant. *)
LEMMA NextInv ==
  ASSUME CheckpointInv, [Next]_vars
  PROVE  CheckpointInv'
<1>1. CASE UNCHANGED vars
  <2>1. Made' = Made
    BY <1>1 DEF Made, vars, proposerVars
  <2> QED BY <1>1, <2>1, BooksInv DEF CheckpointInv, FirstWindow, Shape, vars, proposerVars
<1>2. CASE \E w \in counting : CountVote(w)
  BY <1>2, CountInv
<1>3. CASE FinalizeProposal
  BY <1>3, FinalizeInv
<1>4. CASE \E k \in deciding : DecideCheckpoint(k)
  BY <1>4, DecideInv
<1>5. CASE \E a \in asked, x \in Value : HandleVote(a[1], a[2], x)
  BY <1>5, VoteInv
<1>6. CASE \E c \in stored, v \in Voter : HandleFinalCheckpoint(c, v)
  BY <1>6, LearnInv
<1> QED BY <1>1, <1>2, <1>3, <1>4, <1>5, <1>6, QuietInv, ProposeInv, Zenon DEF Next, Proposer

(* The invariant behind the theorems below holds in every execution. *)
THEOREM CheckpointInvariant == Spec => []CheckpointInv
<1>1. Init => CheckpointInv
  BY InitInv
<1>2. CheckpointInv /\ [Next]_vars => CheckpointInv'
  BY NextInv
<1> QED BY <1>1, <1>2, PTL DEF Spec

-----------------------------------------------------------------------------
(* What the trimmed mean of a second round returns *)

(* A set of natural numbers has a least member. *)
LEMMA LeastMember ==
  ASSUME NEW N \in SUBSET Nat, N # {}
  PROVE  \E n \in N : \A m \in N : n <= m
<1>1. PICK n \in N : \A m \in N : ~(<<m, n>> \in OpToRel(<, Nat))
  BY WFMin, NatLessThanWellFounded, Zenon
<1>2. \A m \in N : ~(m < n)
  BY <1>1 DEF OpToRel
<1> QED BY <1>2

\* Finitely many votes that attest natural numbers.
Valued(W) == IsFiniteSet(W) /\ \A w \in W : w.value \in Nat

\* The vote a sum over s starts with.
Picked(s) == CHOOSE w \in s : TRUE

\* g adds the value picked from s to what it has for the rest.
SumsUp(g, s) == g[s] = IF s = {} THEN 0 ELSE Picked(s).value + g[s \ {Picked(s)}]

\* The function behind the sum over W, given by its recursion.
IsSum(g, W) ==
  g = [s \in SUBSET W |-> IF s = {} THEN 0 ELSE Picked(s).value + g[s \ {Picked(s)}]]

(* The sum is what some function with that recursion has for W. *)
LEMMA TheSum ==
  ASSUME NEW W
  PROVE  MapThenSumSet(LAMBDA w : w.value, W) = (CHOOSE g : IsSum(g, W))[W]
  BY Zenon DEF MapThenSumSet, MapThenFoldSet, IsSum, Picked

(* Without the picked vote a set is one smaller. *)
LEMMA OneLess ==
  ASSUME NEW s, IsFiniteSet(s), s # {}
  PROVE  /\ Picked(s) \in s /\ IsFiniteSet(s \ {Picked(s)})
         /\ Cardinality(s) \in Nat /\ Cardinality(s) > 0
         /\ Cardinality(s \ {Picked(s)}) = Cardinality(s) - 1
<1>1. Picked(s) \in s
  BY DEF Picked
<1>2. Cardinality(s) \in Nat /\ Cardinality(s) # 0
  BY FS_CardinalityType, FS_EmptySet
<1> QED BY <1>1, <1>2, FS_RemoveElement

(* There is such a function: built up to sets of n votes, it extends to sets *)
(* of n + 1, and no least n is out of its reach.                             *)
LEMMA SumExists ==
  ASSUME NEW W, Valued(W)
  PROVE  \E g : IsSum(g, W)
<1> DEFINE Small(n) == {s \in SUBSET W : Cardinality(s) <= n}
           Good(n) == \E g \in [Small(n) -> Nat] : \A s \in Small(n) : SumsUp(g, s)
           Bad == {n \in Nat : ~Good(n)}
<1>0. \A s \in SUBSET W : IsFiniteSet(s) /\ Cardinality(s) \in Nat
  BY FS_Subset, FS_CardinalityType DEF Valued
<1>1. Good(0)
  <2> DEFINE g == [s \in Small(0) |-> 0]
  <2>1. \A s \in Small(0) : s = {}
    BY <1>0, FS_EmptySet
  <2>2. g \in [Small(0) -> Nat] /\ \A s \in Small(0) : SumsUp(g, s)
    BY <2>1 DEF SumsUp
  <2> QED BY <2>2
<1>2. ASSUME NEW n \in Nat, Good(n) PROVE Good(n + 1)
  <2>1. PICK g \in [Small(n) -> Nat] : \A s \in Small(n) : SumsUp(g, s)
    BY <1>2
  <2> DEFINE h == [s \in Small(n + 1) |-> IF s = {} THEN 0 ELSE Picked(s).value + g[s \ {Picked(s)}]]
  <2>2. ASSUME NEW s \in Small(n + 1), s # {}
        PROVE  /\ s \ {Picked(s)} \in Small(n) /\ Picked(s).value \in Nat
    <3>1. IsFiniteSet(s) /\ s \in SUBSET W /\ Cardinality(s) <= n + 1
      BY <1>0
    <3>2. /\ Picked(s) \in s /\ Cardinality(s) \in Nat
          /\ Cardinality(s \ {Picked(s)}) = Cardinality(s) - 1
      BY <2>2, <3>1, OneLess
    <3>3. Cardinality(s \ {Picked(s)}) <= n
      BY <3>1, <3>2
    <3> QED BY <3>1, <3>2, <3>3 DEF Valued
  <2>3. \A s \in Small(n) : s \in Small(n + 1)
    BY <1>0
  <2>4. h \in [Small(n + 1) -> Nat]
    <3> HIDE DEF Small
    <3>1. \A s \in Small(n + 1) : (IF s = {} THEN 0 ELSE Picked(s).value + g[s \ {Picked(s)}]) \in Nat
      BY <2>1, <2>2
    <3> QED BY <3>1
  <2>5. \A s \in Small(n) : h[s] = g[s]
    <3> HIDE DEF Small
    <3> QED BY <2>1, <2>3 DEF SumsUp
  <2>6. \A s \in Small(n + 1) : SumsUp(h, s)
    <3> SUFFICES ASSUME NEW s \in Small(n + 1) PROVE SumsUp(h, s)
      OBVIOUS
    <3>1. h[s] = IF s = {} THEN 0 ELSE Picked(s).value + g[s \ {Picked(s)}]
      OBVIOUS
    <3>2. s # {} => h[s \ {Picked(s)}] = g[s \ {Picked(s)}]
      BY <2>2, <2>5
    <3> HIDE DEF h, Small
    <3> QED BY <3>1, <3>2 DEF SumsUp
  <2> HIDE DEF h, Small
  <2> QED BY <2>4, <2>6
<1>3. Bad = {}
  <2> SUFFICES ASSUME Bad # {} PROVE FALSE
    OBVIOUS
  <2>1. PICK n \in Bad : \A m \in Bad : n <= m
    <3>1. Bad \in SUBSET Nat
      OBVIOUS
    <3> HIDE DEF Bad
    <3> QED BY <3>1, LeastMember
  <2> HIDE DEF Good
  <2>2. n \in Nat /\ n # 0 /\ ~Good(n)
    BY <1>1
  <2>3. n - 1 \in Nat /\ ~(n <= n - 1) /\ (n - 1) + 1 = n
    BY <2>2
  <2>4. Good(n - 1)
    BY <2>1, <2>3
  <2> QED BY <1>2, <2>2, <2>3, <2>4
<1>4. Cardinality(W) \in Nat /\ \A s \in SUBSET W : Cardinality(s) <= Cardinality(W)
  BY FS_Subset, FS_CardinalityType DEF Valued
<1>5. Good(Cardinality(W)) /\ Small(Cardinality(W)) = SUBSET W
  <2>1. Small(Cardinality(W)) = SUBSET W
    BY <1>4
  <2> HIDE DEF Good, Small
  <2> QED BY <1>3, <1>4, <2>1
<1>6. PICK g \in [SUBSET W -> Nat] : \A s \in SUBSET W : SumsUp(g, s)
  <2> HIDE DEF Small
  <2> QED BY <1>5
<1>7. g = [s \in SUBSET W |-> g[s]]
  BY <1>6
<1>8. IsSum(g, W)
  BY <1>6, <1>7 DEF IsSum, SumsUp
<1> QED BY <1>8

(* A sum of natural numbers is one: a smallest set with another sum has a    *)
(* smaller one.                                                              *)
LEMMA SumIsNatural ==
  ASSUME NEW W, Valued(W)
  PROVE  MapThenSumSet(LAMBDA w : w.value, W) \in Nat
<1> DEFINE g == CHOOSE f : IsSum(f, W)
           Bad == {n \in Nat : \E s \in SUBSET W : Cardinality(s) = n /\ g[s] \notin Nat}
<1>1. IsSum(g, W)
  BY SumExists
<1> HIDE DEF g
<1>2. \A s \in SUBSET W : SumsUp(g, s)
  BY <1>1 DEF IsSum, SumsUp
<1>3. \A s \in SUBSET W : IsFiniteSet(s) /\ Cardinality(s) \in Nat
  BY FS_Subset, FS_CardinalityType DEF Valued
<1>4. Bad = {}
  <2> SUFFICES ASSUME Bad # {} PROVE FALSE
    OBVIOUS
  <2>1. PICK n \in Bad : \A m \in Bad : n <= m
    <3>1. Bad \in SUBSET Nat
      OBVIOUS
    <3> HIDE DEF Bad
    <3> QED BY <3>1, LeastMember
  <2>2. PICK s \in SUBSET W : Cardinality(s) = n /\ g[s] \notin Nat
    OBVIOUS
  <2>3. s # {}
    BY <1>2, <2>2 DEF SumsUp
  <2> DEFINE r == s \ {Picked(s)}
  <2>4. r \in SUBSET W /\ Cardinality(r) \in Nat /\ Cardinality(r) = n - 1 /\ n \in Nat /\ Picked(s) \in s
    BY <1>3, <2>2, <2>3, OneLess
  <2>5. g[s] = Picked(s).value + g[r]
    BY <1>2, <2>2, <2>3 DEF SumsUp
  <2>6. g[r] \in Nat
    <3> HIDE DEF r
    <3> QED BY <2>1, <2>4
  <2>7. Picked(s).value \in Nat
    BY <2>2, <2>4 DEF Valued
  <2> HIDE DEF r
  <2> QED BY <2>2, <2>5, <2>6, <2>7
<1>5. Cardinality(W) \in Nat
  BY <1>3
<1>6. g[W] \in Nat
  BY <1>4, <1>5
<1> QED BY <1>6, TheSum DEF g

(* A finite set of natural numbers has a greatest member. *)
LEMMA GreatestMember ==
  ASSUME NEW N \in SUBSET Nat, N # {}, IsFiniteSet(N)
  PROVE  \E n \in N : \A m \in N : m <= n
<1> DEFINE Counts == {Cardinality({m \in N : m > n}) : n \in N}
<1>1. \A n \in N : IsFiniteSet({m \in N : m > n}) /\ Cardinality({m \in N : m > n}) \in Nat
  BY FS_Subset, FS_CardinalityType
<1>2. Counts \in SUBSET Nat /\ Counts # {}
  BY <1>1
<1>3. PICK c \in Counts : \A d \in Counts : c <= d
  <2> HIDE DEF Counts
  <2> QED BY <1>2, LeastMember
<1>4. PICK n \in N : c = Cardinality({m \in N : m > n})
  OBVIOUS
<1>5. ASSUME NEW m \in N, m > n PROVE FALSE
  <2> DEFINE X == {k \in N : k > n}
             Y == {k \in N : k > m}
  <2>1. Y \in SUBSET X /\ m \in X /\ m \notin Y
    <3>1. n \in Nat /\ m \in Nat /\ \A k \in N : k \in Nat
      OBVIOUS
    <3>2. \A k \in N : k > m => k > n
      BY <1>5, <3>1
    <3>3. ~(m > m)
      BY <3>1
    <3> QED BY <1>5, <3>2, <3>3
  <2>2. IsFiniteSet(X) /\ Cardinality(X) \in Nat /\ Cardinality(Y) \in Nat
    BY <1>1
  <2>3. Cardinality(X) <= Cardinality(Y)
    BY <1>3, <1>4
  <2> HIDE DEF X, Y
  <2>4. Cardinality(Y) <= Cardinality(X) /\ (Cardinality(X) = Cardinality(Y) => X = Y)
    BY <2>1, <2>2, FS_Subset
  <2> QED BY <2>1, <2>2, <2>3, <2>4
<1> QED BY <1>5

(* The median is there and is one of the values: the least one that more     *)
(* than half of the votes do not exceed.                                     *)
LEMMA MedianIsAValue ==
  ASSUME NEW W, Valued(W), W # {}
  PROVE  \E w \in W : Median(W) = w.value
<1> DEFINE V == {w.value : w \in W}
           h == Cardinality(W) \div 2
           Below(x) == {w \in W : w.value < x}
           UpTo(x) == {w \in W : w.value <= x}
           Many == {x \in V : h < Cardinality(UpTo(x))}
<1>1. IsFiniteSet(W) /\ (\A w \in W : w.value \in Nat) /\ Cardinality(W) \in Nat /\ Cardinality(W) > 0
  BY FS_EmptySet, FS_CardinalityType DEF Valued
<1>2. V \in SUBSET Nat /\ V # {} /\ IsFiniteSet(V)
  <2> DEFINE f == [w \in W |-> w.value]
  <2>1. f \in Surjection(W, V)
    BY DEF Surjection
  <2>2. IsFiniteSet(V)
    <3> HIDE DEF f, V
    <3> QED BY <1>1, <2>1, FS_Surjection
  <2> QED BY <1>1, <2>2
<1>3. h \in Nat /\ h < Cardinality(W)
  BY <1>1
<1>4. Many # {}
  <2>1. PICK x \in V : \A y \in V : y <= x
    <3> HIDE DEF V
    <3> QED BY <1>2, GreatestMember
  <2>2. UpTo(x) = W
    BY <2>1
  <2> HIDE DEF V, UpTo, h
  <2> QED BY <1>3, <2>2
<1>5. PICK x \in Many : \A y \in Many : x <= y
  <2>1. Many \in SUBSET Nat
    BY <1>2
  <2> HIDE DEF Many
  <2> QED BY <1>4, <2>1, LeastMember
<1>6. x \in V /\ h < Cardinality(UpTo(x)) /\ x \in Nat
  BY <1>2
<1>7. Cardinality(Below(x)) <= h
  <2> DEFINE Less == {y \in V : y < x}
  <2>1. CASE Less = {}
    <3>1. Below(x) = {}
      BY <2>1
    <3> QED BY <1>3, <3>1, FS_EmptySet
  <2>2. CASE Less # {}
    <3>1. PICK y \in Less : \A z \in Less : z <= y
      <4>1. Less \in SUBSET V
        OBVIOUS
      <4>2. Less \in SUBSET Nat /\ IsFiniteSet(Less)
        <5> HIDE DEF Less, V
        <5> QED BY <1>2, <4>1, FS_Subset
      <4> HIDE DEF Less
      <4> QED BY <2>2, <4>2, GreatestMember
    <3>2. y \in V /\ y < x /\ y \in Nat
      BY <1>2
    <3>3. Below(x) = UpTo(y)
      BY <1>1, <1>6, <3>1, <3>2
    <3>4. y \notin Many
      BY <1>5, <1>6, <3>2
    <3>5. ~(h < Cardinality(UpTo(y)))
      BY <3>2, <3>4
    <3>6. Cardinality(UpTo(y)) \in Nat
      BY <1>1, FS_Subset, FS_CardinalityType
    <3> HIDE DEF UpTo, Below, h
    <3> QED BY <1>3, <3>3, <3>5, <3>6
  <2> QED BY <2>1, <2>2
<1>8. Median(W) \in V
  BY <1>6, <1>7 DEF Median
<1> QED BY <1>8

(* The trimmed mean is a natural number; the median is never trimmed away,   *)
(* so there is something to divide by.                                       *)
LEMMA MeanIsNatural ==
  ASSUME NEW W, Valued(W), W # {}
  PROVE  TrimmedMean(W) \in Nat
<1> DEFINE m == Median(W)
           kept == {w \in W : IF m = 0 THEN w.value <= 10
                              ELSE m \div 5 <= w.value /\ w.value <= 5 * m}
           sum == MapThenSumSet(LAMBDA w : w.value, kept)
<1>1. PICK w \in W : m = w.value
  BY MedianIsAValue
<1>2. m \in Nat /\ kept \in SUBSET W
  BY <1>1 DEF Valued
<1> HIDE DEF m
<1>3. w \in kept
  BY <1>1, <1>2
<1>4. Valued(kept)
  <2>1. IsFiniteSet(kept)
    <3> HIDE DEF kept
    <3> QED BY <1>2, FS_Subset DEF Valued
  <2> QED BY <1>2, <2>1 DEF Valued
<1>5. TrimmedMean(W) = IF kept = {} THEN m ELSE sum \div Cardinality(kept)
  BY Zenon DEF TrimmedMean, m
<1> HIDE DEF kept
<1>6. sum \in Nat
  BY <1>4, SumIsNatural
<1>7. Cardinality(kept) \in Nat /\ Cardinality(kept) > 0
  BY <1>3, <1>4, FS_CardinalityType, FS_EmptySet DEF Valued
<1> HIDE DEF sum
<1> QED BY <1>3, <1>5, <1>6, <1>7

-----------------------------------------------------------------------------
(* Types *)

Vote == [k : Nat, voter : Voter, value : Nat, ref : Nat, approved : BOOLEAN]

\* What the attested values are, added to CheckpointInv.
Typed ==
  /\ \A k \in DOMAIN proposals : proposals[k] \in Proposal
  /\ counting \subseteq Vote
  /\ due \in BOOLEAN /\ cleared \in BOOLEAN

(* A vote that arrives attests a natural number. *)
LEMMA VoteTyped ==
  ASSUME CheckpointInv, Typed, NEW a \in asked, NEW x \in Value
  PROVE  VoteOf(a[1], a[2], x) \in Vote
<1> DEFINE k == a[1]
           v == a[2]
           p == proposals[k].value
<1>1. k \in DOMAIN proposals /\ v \in Voter /\ k \in Nat
  BY Positions DEF CheckpointInv, Shape
<1>2. p \in Nat /\ x \in Nat
  BY <1>1, CheckpointAssumption DEF Typed, Proposal
<1>3. lastSeen[v] \in Nat
  BY <1>1 DEF CheckpointInv, Shape
<1>4. ValuesMatch(p, x) \in BOOLEAN
  BY DEF ValuesMatch
<1>5. VoteOf(k, v, x) = [k |-> k, voter |-> v, approved |-> ValuesMatch(p, x), ref |-> lastSeen[v],
                         value |-> IF ValuesMatch(p, x) THEN p ELSE x]
  BY Zenon DEF VoteOf
<1> HIDE DEF k, v, p
<1>6. (IF ValuesMatch(p, x) THEN p ELSE x) \in Nat
  BY <1>2
<1>7. VoteOf(k, v, x) \in Vote
  <2> DEFINE ok == ValuesMatch(p, x)
             y == IF ok THEN p ELSE x
  <2>1. VoteOf(k, v, x) = [k |-> k, voter |-> v, approved |-> ok, ref |-> lastSeen[v], value |-> y]
    BY <1>5
  <2>2. ok \in BOOLEAN /\ y \in Nat
    BY <1>4, <1>6
  <2> HIDE DEF ok, y
  <2> QED BY <1>1, <1>3, <2>1, <2>2 DEF Vote
<1> QED BY <1>7 DEF k, v

(* A proposal is made of a natural number, the mean of a second round being  *)
(* one as well.                                                              *)
LEMMA NewIsTyped ==
  ASSUME CheckpointInv, Typed, NEW round \in {1, 2}, NEW value \in Nat, StorePending(round, value)
  PROVE  \A k \in DOMAIN proposals' : proposals'[k] \in Proposal
<1> DEFINE n == Len(proposals) + 1
           p == [round |-> round, value |-> value, ref |-> OwnReference, votes |-> {},
                 finalized |-> FALSE]
<1>1. /\ Shape /\ History /\ Outcomes
      /\ DOMAIN proposals = 1 .. Len(proposals) /\ Len(proposals) \in Nat
  BY Positions DEF CheckpointInv
<1>2. OwnReference \in Nat
  <2>1. Refers(OwnReference, n)
    BY <1>1, OwnReferenceFacts
  <2>2. \A d \in stored : d.k \in Nat
    BY <1>1 DEF Outcomes
  <2> QED BY <2>1, <2>2 DEF Refers
<1>3. p \in Proposal
  BY <1>2 DEF Proposal
<1>4. /\ DOMAIN proposals' = 1 .. n /\ proposals'[n] = p
      /\ \A k \in DOMAIN proposals : proposals'[k] = proposals[k]
  BY <1>1, Pended
<1> HIDE DEF p
<1>5. \A k \in 1 .. n : k = n \/ k \in DOMAIN proposals
  BY <1>1
<1> QED BY <1>3, <1>4, <1>5 DEF Typed

(* A step that makes a proposal makes it of a natural number. *)
LEMMA PendingSteps ==
  ASSUME CheckpointInv, Typed,
         \/ \E x \in Value, connected \in BOOLEAN : ProposeCheckpoint(x, connected)
         \/ \E k \in deciding, connected \in BOOLEAN : DecideRound2(k, connected)
  PROVE  /\ \A k \in DOMAIN proposals' : proposals'[k] \in Proposal
         /\ counting' = counting /\ due' = due /\ cleared' \in {FALSE, cleared}
<1>1. CASE proposals' = proposals
  <2>1. counting' = counting /\ due' = due /\ cleared' \in {FALSE, cleared}
    BY Zenon DEF ProposeCheckpoint, DecideRound2, StorePending
  <2> QED BY <1>1, <2>1 DEF Typed
<1>2. CASE \E x \in Value, connected \in BOOLEAN : ProposeCheckpoint(x, connected)
  <2>1. PICK x \in Value, connected \in BOOLEAN : ProposeCheckpoint(x, connected)
    BY <1>2
  <2>2. counting' = counting /\ due' = due /\ cleared' = FALSE
        /\ (StorePending(1, x) \/ proposals' = proposals)
    BY <2>1, Zenon DEF ProposeCheckpoint
  <2>3. x \in Nat
    BY CheckpointAssumption
  <2> QED BY <1>1, <2>2, <2>3, NewIsTyped
<1>3. CASE \E k \in deciding, connected \in BOOLEAN : DecideRound2(k, connected)
  <2>1. PICK k \in deciding, connected \in BOOLEAN : DecideRound2(k, connected)
    BY <1>3
  <2> DEFINE W == proposals[k].votes
             mean == TrimmedMean(W)
  <2>2. counting' = counting /\ due' = due /\ cleared' = cleared
        /\ ((StorePending(2, mean) /\ W # {}) \/ proposals' = proposals)
    BY <2>1, Zenon DEF DecideRound2, StorePending
  <2>3. Valued(W)
    <3>1. k \in DOMAIN proposals
      BY DEF CheckpointInv, Outcomes
    <3>2. IsFiniteSet(W)
      BY <3>1 DEF CheckpointInv, Ballot
    <3>3. proposals[k] \in Proposal
      BY <3>1 DEF Typed
    <3> QED BY <3>2, <3>3 DEF Valued, Proposal
  <2> HIDE DEF W
  <2>4. W # {} => mean \in Nat
    BY <2>3, MeanIsNatural
  <2> HIDE DEF mean
  <2> QED BY <1>1, <2>2, <2>4, NewIsTyped
<1> QED BY <1>2, <1>3

(* Every step keeps the types. *)
LEMMA TypedStep ==
  ASSUME CheckpointInv, Typed, [Next]_vars
  PROVE  Typed'
<1>1. CASE proposals' = proposals /\ counting' \subseteq counting /\ due' \in BOOLEAN /\ cleared' \in BOOLEAN
  BY <1>1 DEF Typed
<1>2. CASE UNCHANGED vars
  <2>1. UNCHANGED <<proposals, counting, due, cleared>>
    BY <1>2 DEF vars, proposerVars
  <2> QED BY <1>1, <2>1 DEF Typed
<1>3. CASE CheckAndPropose \/ DayPasses \/ \E k \in publishing : Published(k) \/ PublishFailed(k)
  BY <1>1, <1>3 DEF CheckAndPropose, DayPasses, Published, PublishFailed, Typed
<1>4. CASE \/ \E k \in windows : WindowCloses(k)
           \/ \E k \in deciding : DecideCheckpoint(k) \/ DecideGiveUp(k)
  <2>1. proposals' = proposals /\ counting' = counting /\ cleared' = cleared /\ due' \in {FALSE, due}
    BY <1>4, Zenon DEF WindowCloses, DecideCheckpoint, DecideGiveUp
  <2> QED BY <1>1, <2>1 DEF Typed
<1>5. CASE \/ \E x \in Value, connected \in BOOLEAN : ProposeCheckpoint(x, connected)
           \/ \E k \in deciding, connected \in BOOLEAN : DecideRound2(k, connected)
  <2>1. /\ \A k \in DOMAIN proposals' : proposals'[k] \in Proposal
        /\ counting' = counting /\ due' = due /\ cleared' \in {FALSE, cleared}
    BY <1>5, PendingSteps, Zenon
  <2> QED BY <2>1 DEF Typed
<1>6. CASE \E a \in asked, x \in Value : HandleVote(a[1], a[2], x)
  <2>1. PICK a \in asked, x \in Value : HandleVote(a[1], a[2], x)
    BY <1>6
  <2>2. /\ counting' \subseteq counting \cup {VoteOf(a[1], a[2], x)}
        /\ UNCHANGED <<proposals, due, cleared>>
    BY <2>1, Zenon DEF HandleVote, proposerVars
  <2> QED BY <2>2, VoteTyped DEF Typed
<1>7. CASE \E w \in counting : CountVote(w)
  <2>1. PICK w \in counting : CountVote(w)
    BY <1>7
  <2> DEFINE got == proposals[w.k].votes \cup {w}
  <2>2. /\ w.k \in DOMAIN proposals /\ w \in Vote
        /\ proposals' = [proposals EXCEPT ![w.k].votes = got]
        /\ UNCHANGED <<due, cleared>> /\ counting' \subseteq counting
    BY <2>1, Positions, Zenon DEF CountVote, CheckpointInv, Shape, Typed
  <2>3. got \subseteq Vote
    BY <2>2 DEF Typed, Proposal, Vote
  <2> HIDE DEF got
  <2>4. [proposals[w.k] EXCEPT !.votes = got] \in Proposal
    BY <2>2, <2>3 DEF Typed, Proposal, Vote
  <2>5. \A k \in DOMAIN proposals' : proposals'[k] \in Proposal
    BY <2>2, <2>4 DEF Typed
  <2> QED BY <2>2, <2>5 DEF Typed
<1>8. CASE FinalizeProposal
  <2>1. UNCHANGED <<due, cleared, counting>>
    BY <1>8 DEF FinalizeProposal
  <2>2. CASE proposals' = proposals
    BY <1>1, <2>1, <2>2 DEF Typed
  <2>3. CASE current # 0 /\ proposals' = [proposals EXCEPT ![current].finalized = TRUE]
    <3>1. current \in DOMAIN proposals
      BY <2>3, Positions DEF CheckpointInv, Shape
    <3>2. [proposals[current] EXCEPT !.finalized = TRUE] \in Proposal
      BY <3>1 DEF Typed, Proposal
    <3>3. \A k \in DOMAIN proposals' : proposals'[k] \in Proposal
      BY <2>3, <3>1, <3>2 DEF Typed
    <3> QED BY <2>1, <3>3 DEF Typed
  <2> QED BY <1>8, <2>2, <2>3, Zenon DEF FinalizeProposal
<1>9. CASE \E c \in stored, v \in Voter : HandleFinalCheckpoint(c, v)
  <2>1. UNCHANGED <<proposals, counting, due, cleared>>
    BY <1>9 DEF HandleFinalCheckpoint, proposerVars
  <2> QED BY <1>1, <2>1 DEF Typed
<1> QED BY <1>2, <1>3, <1>4, <1>5, <1>6, <1>7, <1>8, <1>9, Zenon DEF Next, Proposer

(* Proposals stay within their types (TypeOK): in particular the value a     *)
(* second round proposes, TrimmedMeanInt64 of the votes, is a natural number *)
(* for every set of votes.                                                   *)
THEOREM CheckpointTypeCorrect == Spec => []TypeOK
<1>1. Init => Typed
  <2>1. ASSUME Init PROVE proposals = <<>> /\ counting = {} /\ due = FALSE /\ cleared = FALSE
    BY <2>1 DEF Init
  <2>2. \A f : f = <<>> => DOMAIN f = {}
    OBVIOUS
  <2>3. Init => DOMAIN proposals = {}
    BY <2>1, <2>2, Zenon
  <2> QED BY <2>1, <2>3 DEF Typed
<1>2. Typed /\ CheckpointInv /\ [Next]_vars => Typed'
  BY TypedStep
<1>3. ASSUME CheckpointInv, Typed PROVE TypeOK
  <2>1. /\ Shape /\ History /\ Outcomes
        /\ DOMAIN proposals = 1 .. Len(proposals) /\ Len(proposals) \in Nat
    BY <1>3, Positions DEF CheckpointInv
  <2>2. proposals \in Seq(Proposal)
    <3>1. proposals \in Seq(Made) /\ Made \subseteq Proposal
      BY <1>3, <2>1 DEF Shape, Made, Typed
    <3>2. \A i \in 1 .. Len(proposals) : proposals[i] \in Proposal
      BY <1>3, <2>1 DEF Typed
    <3>3. proposals = [i \in 1 .. Len(proposals) |-> proposals[i]]
      BY <3>1, LenProperties
    <3> QED BY <2>1, <3>2, <3>3, SeqDef
  <2>3. current \in 0 .. Len(proposals) /\ wakeups \in Nat
    BY <2>1 DEF Shape
  <2>4. deciding \subseteq 1 .. Len(proposals) /\ \A c \in stored : c.k \in 1 .. Len(proposals)
    BY <2>1 DEF Outcomes
  <2>5. lastSeen \in [Voter -> 0 .. Len(proposals)]
    <3>1. \A v \in Voter : lastSeen[v] \in 0 .. Len(proposals)
      BY <2>1, <2>4 DEF History
    <3> QED BY <2>1, <3>1 DEF Shape
  <2> QED BY <1>3, <2>1, <2>2, <2>3, <2>4, <2>5 DEF TypeOK, Typed, Shape
<1> QED BY <1>1, <1>2, <1>3, CheckpointInvariant, PTL DEF Spec

-----------------------------------------------------------------------------
(* What the runs check *)

(* However many finalizers the window's timer and the votes start, a         *)
(* proposal yields at most one checkpoint (OneCheckpointPerProposal).        *)
THEOREM OneCheckpointEach == Spec => []OneCheckpointPerProposal
<1>1. CheckpointInv => OneCheckpointPerProposal
  BY DEF CheckpointInv, Outcomes, OneCheckpointPerProposal
<1> QED BY <1>1, CheckpointInvariant, PTL

(* At least MinVotersRequired different voters sign a stored checkpoint, all *)
(* of them for its proposal and its value (SignersAgree), whichever group of *)
(* votes won and however signatures were trimmed.                            *)
THEOREM EnoughSignersAgree == Spec => []SignersAgree
<1>1. CheckpointInv => SignersAgree
  BY DEF CheckpointInv, Outcomes, Agreed, SignersAgree
<1> QED BY <1>1, CheckpointInvariant, PTL

(* The reference of every stored checkpoint is to an earlier stored one, or  *)
(* to none (ReferencesResolve).                                              *)
THEOREM LinearHistory == Spec => []ReferencesResolve
<1>1. CheckpointInv => ReferencesResolve
  BY DEF CheckpointInv, History, Refers, ReferencesResolve
<1> QED BY <1>1, CheckpointInvariant, PTL

(* The list of proposals changes in one of three ways: a proposal is made, a *)
(* vote counted, or the current proposal marked.                             *)
LEMMA ListSteps ==
  ASSUME [Next]_vars
  PROVE  \/ proposals' = proposals
         \/ \E round, value : StorePending(round, value)
         \/ \E w \in counting : CountVote(w)
         \/ FinalizeProposal
<1>1. CASE UNCHANGED vars
  BY <1>1 DEF vars, proposerVars
<1>2. CASE CheckAndPropose \/ DayPasses \/ \E k \in publishing : Published(k) \/ PublishFailed(k)
  BY <1>2 DEF CheckAndPropose, DayPasses, Published, PublishFailed
<1>3. CASE \/ \E k \in windows : WindowCloses(k)
           \/ \E k \in deciding : DecideCheckpoint(k) \/ DecideGiveUp(k)
  BY <1>3, Zenon DEF WindowCloses, DecideCheckpoint, DecideGiveUp
<1>4. CASE \E k \in deciding, connected \in BOOLEAN : DecideRound2(k, connected)
  <2>1. PICK k \in deciding, connected \in BOOLEAN : DecideRound2(k, connected)
    BY <1>4
  <2>2. StorePending(2, TrimmedMean(proposals[k].votes))
        \/ UNCHANGED <<proposals, current, publishing, asked>>
    BY <2>1, Zenon DEF DecideRound2
  <2>3. CASE StorePending(2, TrimmedMean(proposals[k].votes))
    BY <2>3, Zenon
  <2> QED BY <2>2, <2>3
<1>5. CASE \E x \in Value, connected \in BOOLEAN : ProposeCheckpoint(x, connected)
  BY <1>5, Zenon DEF ProposeCheckpoint
<1>6. CASE \/ \E a \in asked, x \in Value : HandleVote(a[1], a[2], x)
           \/ \E c \in stored, v \in Voter : HandleFinalCheckpoint(c, v)
  BY <1>6, Zenon DEF HandleVote, HandleFinalCheckpoint, proposerVars
<1> QED BY <1>1, <1>2, <1>3, <1>4, <1>5, <1>6, Zenon DEF Next, Proposer

(* What a step may do to a proposal: it stays, keeps its mark and its votes. *)
(* A new mark is the work of a finalizer, and leaves the votes alone.        *)
LEMMA ProposalSteps ==
  ASSUME CheckpointInv, [Next]_vars, NEW k \in DOMAIN proposals
  PROVE  /\ k \in DOMAIN proposals'
         /\ proposals[k].finalized => proposals'[k].finalized
         /\ proposals[k].votes \subseteq proposals'[k].votes
         /\ proposals'[k].finalized /\ ~proposals[k].finalized =>
              FinalizeProposal /\ k = Len(proposals)
<1>1. Shape /\ Shaped(proposals[k]) /\ DOMAIN proposals = 1 .. Len(proposals) /\ Len(proposals) \in Nat
  BY Positions DEF CheckpointInv, Shape
<1>2. CASE proposals' = proposals
  BY <1>2
<1>3. CASE \E round, value : StorePending(round, value)
  <2>1. PICK round, value : StorePending(round, value)
    BY <1>3
  <2>2. proposals'[k] = proposals[k] /\ DOMAIN proposals' = 1 .. (Len(proposals) + 1)
    BY <1>1, <2>1, Pended
  <2> QED BY <1>1, <2>2
<1>4. CASE \E w \in counting : CountVote(w)
  <2>1. PICK w \in counting : CountVote(w)
    BY <1>4
  <2> DEFINE got == proposals[w.k].votes \cup {w}
  <2>2. w.k \in DOMAIN proposals /\ proposals' = [proposals EXCEPT ![w.k].votes = got]
    BY <1>1, <2>1 DEF CountVote, Shape
  <2>3. DOMAIN proposals' = DOMAIN proposals
        /\ proposals'[k] = IF k = w.k THEN [proposals[k] EXCEPT !.votes = got] ELSE proposals[k]
    <3> HIDE DEF got
    <3> QED BY <2>2
  <2>4. got = proposals[k].votes \cup {w} \/ k # w.k
    OBVIOUS
  <2> HIDE DEF got
  <2>5. proposals'[k].finalized = proposals[k].finalized
        /\ ((proposals'[k].votes = got /\ k = w.k) \/ proposals'[k].votes = proposals[k].votes)
    BY <1>1, <2>3 DEF Shaped
  <2> QED BY <2>3, <2>4, <2>5
<1>5. CASE FinalizeProposal
  <2>1. CASE proposals' = proposals
    BY <2>1
  <2>2. CASE current # 0 /\ proposals' = [proposals EXCEPT ![current].finalized = TRUE]
    <3>1. current = Len(proposals) /\ current \in DOMAIN proposals
      BY <1>1, <2>2 DEF Shape
    <3>2. DOMAIN proposals' = DOMAIN proposals
          /\ (k # current => proposals'[k] = proposals[k])
      BY <2>2
    <3>3. CASE k = current
      <4>1. proposals'[k] = [proposals[k] EXCEPT !.finalized = TRUE]
        BY <2>2, <3>1, <3>3
      <4>2. proposals'[k].votes = proposals[k].votes /\ proposals'[k].finalized
        BY <1>1, <4>1, SetMark
      <4> QED BY <1>5, <3>1, <3>2, <3>3, <4>2
    <3> QED BY <3>2, <3>3
  <2> QED BY <1>5, <2>1, <2>2, Zenon DEF FinalizeProposal
<1> QED BY <1>2, <1>3, <1>4, <1>5, ListSteps

(* Finalizing is final: no step reopens, forgets or takes a vote from a      *)
(* proposal (FinalizedStays).                                                *)
THEOREM FinalIsFinal == Spec => FinalizedStays
<1>1. CheckpointInv /\ [Next]_vars =>
        [\A k \in DOMAIN proposals :
           /\ k \in DOMAIN proposals'
           /\ proposals[k].finalized => proposals'[k].finalized
           /\ proposals[k].votes \subseteq proposals'[k].votes]_vars
  BY ProposalSteps
<1> QED BY <1>1, CheckpointInvariant, PTL DEF Spec, FinalizedStays

(* The first proposal is marked when its own window has closed or enough     *)
(* votes are in, not before (FirstWindowRespected): there is no earlier      *)
(* proposal a finalizer could be left over from.                             *)
THEOREM FirstVoteIsNotCutShort == Spec => FirstWindowRespected
<1>1. ASSUME CheckpointInv, [Next]_vars, NEW k \in DOMAIN proposals,
             k = 1, proposals'[k].finalized, ~proposals[k].finalized
      PROVE  \/ k \notin windows \cup publishing
             \/ Cardinality(proposals[k].votes) >= MinVotersRequired
  <2>1. FinalizeProposal /\ k = Len(proposals)
    BY <1>1, ProposalSteps
  <2>2. wakeups > 0
    BY <2>1 DEF FinalizeProposal
  <2> QED BY <1>1, <2>1, <2>2 DEF CheckpointInv, FirstWindow
<1>2. CheckpointInv /\ [Next]_vars =>
        [\A k \in DOMAIN proposals :
           (k = 1 /\ proposals'[k].finalized /\ ~proposals[k].finalized) =>
             \/ k \notin windows \cup publishing
             \/ Cardinality(proposals[k].votes) >= MinVotersRequired]_vars
  BY <1>1
<1> QED BY <1>2, CheckpointInvariant, PTL DEF Spec, FirstWindowRespected
=============================================================================
