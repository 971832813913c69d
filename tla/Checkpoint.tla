----------------------------- MODULE Checkpoint -----------------------------
(***************************************************************************)
(* Checkpoint consensus (src/checkpoint_service.go): one nara, the         *)
(* subject, proposes a snapshot of itself over MQTT, peers vote, and the   *)
(* subject finalizes after MinVotersRequired votes or when the vote window *)
(* closes; a failed round 1 is followed by a round 2 with the trimmed mean *)
(* of the votes.  MQTT handlers, timers and finalizers are goroutines of   *)
(* their own (SetOrderMatters(false)), so their steps interleave; messages *)
(* may be delayed and reordered, and one that is never handled is lost.    *)
(*                                                                         *)
(* A proposal is named by its number k, which stands for its AsOfTime and  *)
(* round; a checkpoint id is the number of the proposal it came from, 0    *)
(* when there is none.  One number stands for the attested values          *)
(* (restarts, uptime, first seen).                                         *)
(***************************************************************************)
EXTENDS Integers, Sequences, FiniteSets, FiniteSetsExt

CONSTANTS
  Voter,                    \* the peers
  Value,                    \* what a ledger may say of the subject
  Tolerance,                \* 5 restarts, 60 seconds in the code
  MinVotersRequired,        \* 5 in the code
  MaxCheckpointSignatures,  \* 10 in the code
  MinCheckpointSignatures,  \* 2 in the code
  MaxProposals              \* bound on proposals, for model checking only

ASSUME CheckpointAssumption ==
  /\ IsFiniteSet(Voter)
  /\ Value \subseteq Nat
  /\ Tolerance \in Nat
  /\ MinVotersRequired \in Nat \ {0}
  /\ MaxCheckpointSignatures \in Nat /\ MaxCheckpointSignatures > MinVotersRequired
  /\ MinCheckpointSignatures \in Nat
  /\ MaxProposals \in Nat

VARIABLES
  (* The proposer *)
  proposals,   \* every pendingProposal made, in order
  current,     \* s.myPendingProposal, 0 for nil
  due,         \* more than 24h since s.lastCheckpointTime
  cleared,     \* checkAndPropose has passed its checks and not yet proposed
  publishing,  \* proposals whose Publish has not returned
  windows,     \* proposals whose vote window (a goroutine) is open
  wakeups,     \* goroutines about to call finalizeProposal
  deciding,    \* proposals marked finalized whose outcome is not acted on yet
  stored,      \* checkpoints stored in our ledger
  (* The network *)
  asked,       \* <<k, v>>: proposal k on its way to v
  counting,    \* votes whose handler has passed the finalized check
  (* The voters *)
  lastSeen     \* latest checkpoint of the subject in a voter's ledger

proposerVars ==
  <<proposals, current, due, cleared, publishing, windows, wakeups, deciding, stored>>
vars == <<proposerVars, asked, counting, lastSeen>>

Proposal == [round : {1, 2}, value : Nat, ref : Nat, votes : SUBSET [
               k : Nat, voter : Voter, value : Nat, ref : Nat, approved : BOOLEAN],
             finalized : BOOLEAN]

-----------------------------------------------------------------------------
(* Derived values *)

ValuesMatch(x, y) == x - y <= Tolerance /\ y - x <= Tolerance

Median(W) ==
  CHOOSE x \in {w.value : w \in W} :
    /\ Cardinality({w \in W : w.value < x}) <= Cardinality(W) \div 2
    /\ Cardinality(W) \div 2 < Cardinality({w \in W : w.value <= x})

(* TrimmedMeanInt64 on the values of a non-empty set of votes. *)
TrimmedMean(W) ==
  LET m    == Median(W)
      kept == {w \in W : IF m = 0 THEN w.value <= 10
                         ELSE m \div 5 <= w.value /\ w.value <= 5 * m}
  IN  IF kept = {} THEN m
      ELSE MapThenSumSet(LAMBDA w : w.value, kept) \div Cardinality(kept)

(* GetLatestCheckpointID of the subject about itself. *)
OwnReference == IF stored = {} THEN 0 ELSE Max({c.k : c \in stored})

-----------------------------------------------------------------------------
(* Proposing: proposeCheckpointRound up to and including Publish *)

(* Mutant: the proposal's number is taken one too high. *)
StorePendingOffByOne(round, value) ==
  /\ Len(proposals) < MaxProposals
  /\ proposals' = Append(proposals, [round |-> round, value |-> value,
                     ref |-> OwnReference, votes |-> {}, finalized |-> FALSE])
  /\ current' = Len(proposals) + 2
  /\ publishing' = publishing \cup {Len(proposals) + 1}
  /\ asked' = asked \cup ({Len(proposals) + 1} \X Voter)

StorePending(round, value) ==
  /\ Len(proposals) < MaxProposals
  /\ proposals' = Append(proposals, [round |-> round, value |-> value,
                     ref |-> OwnReference, votes |-> {}, finalized |-> FALSE])
  /\ current' = Len(proposals) + 1
  /\ publishing' = publishing \cup {Len(proposals) + 1}
  /\ asked' = asked \cup ({Len(proposals) + 1} \X Voter)

(* The checks of checkAndPropose and the proposal that follows are two steps *)
(* (s.myPendingProposalMu is released in between); nothing is proposed while *)
(* MQTT is down.                                                             *)
CheckAndPropose ==
  /\ due /\ ~cleared
  /\ current # 0 => proposals[current].finalized
  /\ cleared' = TRUE
  /\ UNCHANGED <<proposals, current, due, publishing, windows, wakeups, deciding,
                 stored, asked, counting, lastSeen>>

ProposeCheckpoint(value, connected) ==
  /\ cleared
  /\ cleared' = FALSE
  /\ IF connected THEN StorePending(1, value)
     ELSE UNCHANGED <<proposals, current, publishing, asked>>
  /\ UNCHANGED <<due, windows, wakeups, deciding, stored, counting, lastSeen>>

(* Publish returns, and the vote window opens; peers may have the proposal   *)
(* already.  After an error no window is opened, though the broker may have  *)
(* taken the message all the same.                                           *)
Published(k) ==
  /\ k \in publishing
  /\ publishing' = publishing \ {k}
  /\ windows' = windows \cup {k}
  /\ UNCHANGED <<proposals, current, due, cleared, wakeups, deciding, stored,
                 asked, counting, lastSeen>>

PublishFailed(k) ==
  /\ k \in publishing
  /\ publishing' = publishing \ {k}
  /\ UNCHANGED <<proposals, current, due, cleared, windows, wakeups, deciding,
                 stored, asked, counting, lastSeen>>

DayPasses ==
  /\ ~due /\ due' = TRUE
  /\ UNCHANGED <<proposals, current, cleared, publishing, windows, wakeups,
                 deciding, stored, asked, counting, lastSeen>>

-----------------------------------------------------------------------------
(* Voting *)

(* Mutant: an approval signs the voter's own value too. *)
VoteOfOwnValue(k, v, mine) ==
  [k |-> k, voter |-> v, approved |-> ValuesMatch(proposals[k].value, mine),
   ref |-> lastSeen[v], value |-> mine]

(* Mutant: the previous proposal is taken for the previous checkpoint. *)
VoteOfPreviousProposal(k, v, mine) ==
  LET approved == ValuesMatch(proposals[k].value, mine)
  IN  [k |-> k, voter |-> v, approved |-> approved, ref |-> k - 1,
       value |-> IF approved THEN proposals[k].value ELSE mine]

(* HandleProposal at v, whose ledger says mine: an approval signs the        *)
(* proposed value, anything else the voter's own.                            *)
VoteOf(k, v, mine) ==
  LET approved == ValuesMatch(proposals[k].value, mine)
  IN  [k |-> k, voter |-> v, approved |-> approved, ref |-> lastSeen[v],
       value |-> IF approved THEN proposals[k].value ELSE mine]

(* The vote of v on k arrives: HandleVote up to the finalized check drops    *)
(* votes for anything but the current, unfinalized proposal.  The proposal   *)
(* is handled at v in the same step: a vote on its way is a proposal not yet *)
(* handled, since whatever else v does in between commutes with the arrival. *)
HandleVote(k, v, mine) ==
  /\ <<k, v>> \in asked
  /\ asked' = asked \ {<<k, v>>}
  /\ counting' = IF k = current /\ ~proposals[k].finalized
                 THEN counting \cup {VoteOf(k, v, mine)} ELSE counting
  /\ UNCHANGED <<proposerVars, lastSeen>>

(* Mutant: the vote is written back with the mark read before the check. *)
CountVoteStaleMark(w) ==
  LET got == proposals[w.k].votes \cup {w}
  IN  /\ w \in counting
      /\ counting' = counting \ {w}
      /\ proposals' = [proposals EXCEPT ![w.k].votes = got, ![w.k].finalized = FALSE]
      /\ wakeups' = IF Cardinality(got) >= MinVotersRequired THEN wakeups + 1 ELSE wakeups
      /\ UNCHANGED <<current, due, cleared, publishing, windows, deciding, stored,
                     asked, lastSeen>>

(* Mutant: one vote short of enough wakes the finalizer. *)
CountVoteEarly(w) ==
  LET got == proposals[w.k].votes \cup {w}
  IN  /\ w \in counting
      /\ counting' = counting \ {w}
      /\ proposals' = [proposals EXCEPT ![w.k].votes = got]
      /\ wakeups' = IF Cardinality(got) >= MinVotersRequired - 1 THEN wakeups + 1 ELSE wakeups
      /\ UNCHANGED <<current, due, cleared, publishing, windows, deciding, stored,
                     asked, lastSeen>>

(* HandleVote after the check: count the vote, and start a finalizer once    *)
(* there are enough.                                                         *)
CountVote(w) ==
  LET got == proposals[w.k].votes \cup {w}
  IN  /\ w \in counting
      /\ counting' = counting \ {w}
      /\ proposals' = [proposals EXCEPT ![w.k].votes = got]
      /\ wakeups' = IF Cardinality(got) >= MinVotersRequired THEN wakeups + 1 ELSE wakeups
      /\ UNCHANGED <<current, due, cleared, publishing, windows, deciding, stored,
                 asked, lastSeen>>

-----------------------------------------------------------------------------
(* Finalizing *)

(* Mutant: without a vote there is nothing to finalize. *)
WindowClosesOnVotes(k) ==
  /\ k \in windows
  /\ windows' = windows \ {k}
  /\ wakeups' = IF proposals[k].votes = {} THEN wakeups ELSE wakeups + 1
  /\ UNCHANGED <<proposals, current, due, cleared, publishing, deciding, stored,
                 asked, counting, lastSeen>>

WindowCloses(k) ==
  /\ k \in windows
  /\ windows' = windows \ {k}
  /\ wakeups' = wakeups + 1
  /\ UNCHANGED <<proposals, current, due, cleared, publishing, deciding, stored,
                 asked, counting, lastSeen>>

(* Mutant: the mark is not looked at. *)
FinalizeProposalTwice ==
  /\ wakeups > 0
  /\ wakeups' = wakeups - 1
  /\ IF current # 0
     THEN /\ proposals' = [proposals EXCEPT ![current].finalized = TRUE]
          /\ deciding' = deciding \cup {current}
     ELSE UNCHANGED <<proposals, deciding>>
  /\ UNCHANGED <<current, due, cleared, publishing, windows, stored, asked,
                 counting, lastSeen>>

(* finalizeProposal up to the mark: whatever woke it, it takes the proposal  *)
(* that is current now, unless that one is finalized already.                *)
FinalizeProposal ==
  /\ wakeups > 0
  /\ wakeups' = wakeups - 1
  /\ IF current # 0 /\ ~proposals[current].finalized
     THEN /\ proposals' = [proposals EXCEPT ![current].finalized = TRUE]
          /\ deciding' = deciding \cup {current}
     ELSE UNCHANGED <<proposals, deciding>>
  /\ UNCHANGED <<current, due, cleared, publishing, windows, stored, asked,
                 counting, lastSeen>>

(* tryFindConsensus: the groups of votes it may settle on, each with the     *)
(* value and reference the checkpoint will carry.  The largest group of      *)
(* identical votes wins, unless there are more approvals than that.          *)
Groups(W) ==
  {[value |-> w.value, ref |-> w.ref,
    votes |-> {x \in W : x.value = w.value /\ x.ref = w.ref}] : w \in W}

Approvals(p) ==
  [value |-> p.value, ref |-> p.ref, votes |-> {w \in p.votes : w.approved}]

TryFindConsensus(p) ==
  LET enough == {g \in Groups(p.votes) : Cardinality(g.votes) >= MinVotersRequired}
      best   == {g \in enough : \A h \in enough : Cardinality(h.votes) <= Cardinality(g.votes)}
      app    == Approvals(p)
  IN  IF /\ Cardinality(app.votes) >= MinVotersRequired
         /\ \A g \in best : Cardinality(app.votes) > Cardinality(g.votes)
      THEN {app} ELSE best

(* The checkpoints that may be built from group g of proposal k: the         *)
(* proposer signs when its values won, and the voters of highest uptime fill *)
(* the remaining places.                                                     *)
Build(k, g) ==
  LET self == g.value = proposals[k].value /\ g.ref = proposals[k].ref
      room == MaxCheckpointSignatures - (IF self THEN 1 ELSE 0)
  IN  {[k |-> k, value |-> g.value, ref |-> g.ref, self |-> self, signers |-> S] :
         S \in {T \in SUBSET g.votes : Cardinality(T) = Min({room, Cardinality(g.votes)})}}

(* verifyCheckpointSignatures: a signature holds for exactly the signed      *)
(* value and reference.                                                      *)
ValidSigners(c) == {w \in c.signers : w.k = c.k /\ w.value = c.value /\ w.ref = c.ref}
SignatureCount(c) == Cardinality(c.signers) + (IF c.self THEN 1 ELSE 0)
Verifies(c) ==
  Cardinality(ValidSigners(c)) + (IF c.self THEN 1 ELSE 0) >= MinCheckpointSignatures

(* finalizeProposal after the mark, when consensus is found.  The clock is   *)
(* reset even when storeCheckpoint refuses the checkpoint.                   *)
DecideCheckpoint(k) ==
  /\ k \in deciding
  /\ \E g \in TryFindConsensus(proposals[k]) : \E c \in Build(k, g) :
       stored' = IF Verifies(c) THEN stored \cup {c} ELSE stored
  /\ deciding' = deciding \ {k}
  /\ due' = FALSE
  /\ UNCHANGED <<proposals, current, cleared, publishing, windows, wakeups, asked,
                 counting, lastSeen>>

(* No consensus in round 1: round 2 on the trimmed mean, unless there were   *)
(* no votes or MQTT is down.                                                 *)
DecideRound2(k, connected) ==
  /\ k \in deciding
  /\ TryFindConsensus(proposals[k]) = {} /\ proposals[k].round = 1
  /\ deciding' = deciding \ {k}
  /\ IF connected /\ proposals[k].votes # {}
     THEN StorePending(2, TrimmedMean(proposals[k].votes))
     ELSE UNCHANGED <<proposals, current, publishing, asked>>
  /\ UNCHANGED <<due, cleared, windows, wakeups, stored, counting, lastSeen>>

DecideGiveUp(k) ==
  /\ k \in deciding
  /\ TryFindConsensus(proposals[k]) = {} /\ proposals[k].round = 2
  /\ deciding' = deciding \ {k}
  /\ due' = FALSE
  /\ UNCHANGED <<proposals, current, cleared, publishing, windows, wakeups, stored,
                 asked, counting, lastSeen>>

(* HandleFinalCheckpoint at v, at any time after the broadcast: AddEvent     *)
(* makes a second delivery harmless, and an earlier checkpoint than the one  *)
(* v knows leaves GetLatestCheckpointID as it is.                            *)
HandleFinalCheckpoint(c, v) ==
  /\ c \in stored /\ c.k > lastSeen[v]
  /\ SignatureCount(c) >= MinVotersRequired /\ Verifies(c)
  /\ lastSeen' = [lastSeen EXCEPT ![v] = c.k]
  /\ UNCHANGED <<proposerVars, asked, counting>>

-----------------------------------------------------------------------------
Init ==
  /\ proposals = <<>> /\ current = 0 /\ due = FALSE /\ cleared = FALSE
  /\ publishing = {} /\ windows = {} /\ wakeups = 0 /\ deciding = {}
  /\ stored = {}
  /\ asked = {} /\ counting = {}
  /\ lastSeen = [v \in Voter |-> 0]

(* What the proposer's goroutines do once started. *)
Proposer ==
  \/ \E k \in publishing : Published(k) \/ PublishFailed(k)
  \/ \E k \in windows : WindowCloses(k)
  \/ FinalizeProposal
  \/ \E k \in deciding : DecideCheckpoint(k) \/ DecideGiveUp(k)
  \/ \E k \in deciding, connected \in BOOLEAN : DecideRound2(k, connected)
  \/ \E w \in counting : CountVote(w)

Next ==
  \/ Proposer
  \/ CheckAndPropose
  \/ \E x \in Value, connected \in BOOLEAN : ProposeCheckpoint(x, connected)
  \/ DayPasses
  \/ \E a \in asked, x \in Value : HandleVote(a[1], a[2], x)
  \/ \E c \in stored, v \in Voter : HandleFinalCheckpoint(c, v)

(* Goroutines that can run do run, timers fire and Publish returns; nothing  *)
(* is assumed of the voters, of message delivery or of the 24 hour clock.    *)
Spec == Init /\ [][Next]_vars /\ WF_vars(Proposer)

-----------------------------------------------------------------------------
(* Properties *)

TypeOK ==
  /\ proposals \in Seq(Proposal)
  /\ current \in 0 .. Len(proposals)
  /\ due \in BOOLEAN /\ cleared \in BOOLEAN
  /\ publishing \subseteq 1 .. Len(proposals)
  /\ windows \subseteq 1 .. Len(proposals)
  /\ deciding \subseteq 1 .. Len(proposals)
  /\ wakeups \in Nat
  /\ \A c \in stored : c.k \in 1 .. Len(proposals)
  /\ asked \subseteq (1 .. Len(proposals)) \X Voter
  /\ lastSeen \in [Voter -> 0 .. Len(proposals)]

(* A proposal yields at most one checkpoint, although the window's timer and *)
(* every vote from the MinVotersRequired-th on start a finalizer of their    *)
(* own.                                                                      *)
OneCheckpointPerProposal == \A c, d \in stored : c.k = d.k => c = d

(* "All voters must sign the exact same AsOfTime and set of values": whoever *)
(* signs a stored checkpoint voted on that proposal, signed that value, and  *)
(* there are enough of them, whichever group won and however signatures were *)
(* trimmed.                                                                  *)
SignersAgree ==
  \A c \in stored :
    /\ \A w \in c.signers : w.k = c.k /\ w.value = c.value
    /\ Cardinality({w.voter : w \in c.signers}) >= MinVotersRequired

(* "forming a linear history": following references from any stored          *)
(* checkpoint leads through earlier stored ones to the beginning, although   *)
(* proposer and voters take their references from ledgers that disagree.     *)
ReferencesResolve ==
  \A c \in stored : c.ref # 0 => c.ref < c.k /\ \E d \in stored : d.k = c.ref

(* Finalizing is final: a proposal that was marked is never voted into a     *)
(* different outcome, reopened or forgotten.                                 *)
FinalizedStays ==
  [][\A k \in DOMAIN proposals :
       /\ k \in DOMAIN proposals'
       /\ proposals[k].finalized => proposals'[k].finalized
       /\ proposals[k].votes \subseteq proposals'[k].votes]_vars

(* A proposal whose Publish succeeded is finalized by its own vote window at *)
(* the latest, unless another proposal has taken its place.                  *)
WindowFinalizes ==
  \A k \in 1 .. MaxProposals :
    k \in windows ~> (current # k \/ proposals[k].finalized)

(* "1-minute window on MQTT for collecting votes" (checkpoints.md:28): the    *)
(* first proposal is finalized when its own window has closed or enough votes *)
(* are in.  Later ones may be cut short: finalizeProposal takes whatever is   *)
(* current, so a finalizer left over from one proposal ends the next.         *)
FirstWindowRespected ==
  [][\A k \in DOMAIN proposals :
       (k = 1 /\ proposals'[k].finalized /\ ~proposals[k].finalized) =>
         \/ k \notin windows \cup publishing
         \/ Cardinality(proposals[k].votes) >= MinVotersRequired]_vars
=============================================================================
