---------------------------- MODULE StashProofs ----------------------------
(***************************************************************************)
(* Proofs about Stash for every set of peers and strangers and every value *)
(* of the limits and bounds: type correctness, the registry's empty        *)
(* channels, the acknowledged stashes, the confidants, and that the calls  *)
(* implement CallService.  The invariant StashInv follows one request      *)
(* through the owner's runtime, the network and the peer.                  *)
(***************************************************************************)
EXTENDS Stash, FiniteSetTheorems, TLAPS

AnyData == Data \cup {NoData, Probe}
JobOp == {"none", "first", "rest", "distribute", "recover"}
Job == [op : JobOp, left : SUBSET Peer, online : SUBSET Peer, chosen : SUBSET Peer,
        call : CallId \cup {NoId}, data : AnyData]
Phase == {"unused", "emitting", "failing", "waiting", "returned"}
CallOutcome == {Nothing, "accepted", "refused", "failed", "timeout", "gone"}
Calls == [phase : Phase, to : Peer \cup {Nothing}, kind : {"stash:store", "stash:request", Nothing},
          data : AnyData, outcome : CallOutcome]
Result == [answer : {"accepted", "refused", "failed", "timeout"}, data : AnyData]
Replies == [id : CallId \cup {NoId}, from : Peer, answer : {"accepted", "refused"}, data : AnyData]
Message == [id : CallId, to : Peer, kind : {"stash:store", "stash:request"}, data : AnyData]

StashTypes ==
  /\ myStash \in AnyData /\ confidants \in SUBSET Peer /\ job \in Job
  /\ recovering \in SUBSET AnyData /\ version \in 0 .. MaxVersions
  /\ call \in [CallId -> Calls]
  /\ pending \in SUBSET CallId
  /\ resolving \in SUBSET Replies /\ replies \in SUBSET Replies
  /\ chan \in [CallId -> {<<>>} \cup {<<r>> : r \in Result}]
  /\ handled \in [CallId -> {Nothing, "accepted", "refused", "ignored"}]
  /\ requests \in SUBSET Message
  /\ \A m \in admitted :
       \/ m \in Message
       \/ \E p \in Peer, s \in Stranger : m = StrangerRequest(p, s)
  /\ stored \in [Peer -> [data : AnyData, call : CallId \cup {NoId}]]
  /\ others \in [Peer -> SUBSET Stranger]

\* The calls made so far are the first ones, and the job's call is the last.
Used == {i \in CallId : call[i].phase # "unused"}
InOrder ==
  /\ \E n \in 0 .. MaxCalls : Used = 1 .. n /\ (job.call # NoId => job.call = n)
  /\ job.op = "none" => job.call = NoId

\* One call: who waits for it, and what can be in its channel.
CallOK(i) ==
  /\ call[i].phase = "unused" =>
       call[i] = NoCall /\ handled[i] = Nothing /\ chan[i] = <<>> /\ i \notin pending
  /\ call[i].phase # "unused" => call[i].to \in Peer
  /\ call[i].phase \notin {"unused", "returned"} => i = job.call
  /\ call[i].phase # "returned" => call[i].outcome = Nothing
  /\ i \in pending =>
       /\ chan[i] = <<>> /\ call[i].phase \in {"emitting", "waiting"}
       /\ \A r \in resolving : r.id # i
  /\ chan[i] # <<>> =>
       chan[i][1].answer \in {"failed", "timeout"} \/ chan[i][1].answer = handled[i]
  /\ handled[i] = Nothing /\ call[i].phase = "waiting" =>
       chan[i] # <<>> /\ chan[i][1].answer = "failed"
  /\ handled[i] = Nothing /\ call[i].phase = "returned" => call[i].outcome \in {"failed", "gone"}
  /\ call[i].outcome \in {"accepted", "refused"} => call[i].outcome = handled[i]
  /\ i = job.call =>
       call[i].kind = IF job.op = "recover" THEN "stash:request" ELSE "stash:store"

\* A request under way is that of a call, and has not been handled.
RequestOf(i) == [id |-> i, to |-> call[i].to, kind |-> call[i].kind, data |-> call[i].data]
Open(m) ==
  /\ m.id \in CallId /\ call[m.id].phase # "unused" /\ handled[m.id] = Nothing
  /\ m = RequestOf(m.id)

UnderWayOnce ==
  /\ \A m \in requests : Open(m) /\ m \notin admitted
  /\ \A m \in admitted : m.kind # "stranger" => Open(m)

\* A reply to a call says what the peer made of its request.
AnswersTrue ==
  /\ \A r \in replies : r.id # NoId => r.answer = handled[r.id]
  /\ \A r \in resolving : r.id \in CallId /\ r.answer = handled[r.id]

SaidYes(p) ==
  \E i \in CallId : call[i].to = p /\ call[i].kind = "stash:store" /\ handled[i] = "accepted"

\* Every request to p that was not handled is still waited for.
NothingGivenUp(p) == \A k \in CallId : call[k].to = p => call[k].outcome \notin {"failed", "gone"}

NewestStored(p) ==
  \A i \in CallId :
    /\ stored[p] # NoStash /\ NothingGivenUp(p)
    /\ call[i].to = p /\ call[i].kind = "stash:store" /\ handled[i] = "accepted"
    => stored[p].call >= i

StashInv ==
  /\ StashTypes /\ InOrder /\ UnderWayOnce /\ AnswersTrue
  /\ \A i \in CallId : CallOK(i)
  /\ \A p \in confidants \cup job.chosen : SaidYes(p)
  /\ \A p \in Peer : NewestStored(p)

-----------------------------------------------------------------------------
(* Nothing has been called, sent or stored yet. *)
LEMMA InitInv == ASSUME StashInit PROVE StashInv
<1>1. StashTypes
  <2>1. NoJob \in Job
    BY DEF NoJob, Job, JobOp, AnyData
  <2>2. NoCall \in Calls
    BY DEF NoCall, Calls, Phase, CallOutcome, AnyData
  <2>3. NoStash \in [data : AnyData, call : CallId \cup {NoId}]
    BY DEF NoStash, AnyData
  <2>4. 0 \in 0 .. MaxVersions /\ NoData \in AnyData
    BY StashAssumption DEF AnyData
  <2> QED BY <2>1, <2>2, <2>3, <2>4 DEF StashInit, StashTypes
<1>2. InOrder
  <2>1. Used = 1 .. 0
    BY DEF StashInit, Used, NoCall
  <2>2. job.call = NoId /\ 0 \in 0 .. MaxCalls
    BY StashAssumption DEF StashInit, NoJob
  <2> QED BY <2>1, <2>2 DEF InOrder
<1>3. UnderWayOnce /\ AnswersTrue
  BY DEF StashInit, UnderWayOnce, AnswersTrue
<1>4. \A i \in CallId : CallOK(i)
  BY DEF StashInit, CallOK, NoCall, NoJob, CallId, NoId, Nothing
<1>5. \A p \in confidants \cup job.chosen : SaidYes(p)
  BY DEF StashInit, NoJob
<1>6. \A p \in Peer : NewestStored(p)
  BY DEF StashInit, NewestStored
<1> QED BY <1>1, <1>2, <1>3, <1>4, <1>5, <1>6 DEF StashInv

(* The next call has the smallest id that was never used, and the job's call *)
(* is older.                                                                 *)
LEMMA NextCallIsNew ==
  ASSUME StashInv
  PROVE  /\ NextCall \in Nat /\ Used = 1 .. NextCall - 1
         /\ \A i \in CallId : call[i].phase # "unused" <=> i < NextCall
         /\ job.call # NoId => job.call = NextCall - 1
<1>1. PICK n \in 0 .. MaxCalls : Used = 1 .. n /\ (job.call # NoId => job.call = n)
  BY DEF StashInv, InOrder
<1>2. n \in Nat /\ Cardinality(1 .. n) = n
  BY <1>1, StashAssumption, FS_Interval
<1>3. NextCall = n + 1
  BY <1>1, <1>2 DEF NextCall, Used
<1>4. ASSUME NEW i \in CallId PROVE call[i].phase # "unused" <=> i \in 1 .. n
  BY <1>1 DEF Used
<1> QED BY <1>1, <1>2, <1>3, <1>4, StashAssumption DEF CallId

(* A step that keeps what is known of the calls, and changes nothing at the  *)
(* peers or of the requests, leaves only the caller's side to be looked at.  *)
LEMMA CallerStepFrame ==
  ASSUME StashInv, StashTypes', UNCHANGED <<requests, admitted, handled, stored>>,
         \A i \in CallId :
           /\ call'[i].to = call[i].to /\ call'[i].kind = call[i].kind
           /\ call'[i].data = call[i].data
           /\ call'[i].phase = "unused" <=> call[i].phase = "unused"
           /\ call[i].outcome \in {"failed", "gone"} => call'[i].outcome \in {"failed", "gone"},
         job'.call # NoId => job'.call = job.call, job'.op = "none" => job'.call = NoId,
         AnswersTrue', \A i \in CallId : CallOK(i)',
         \A p \in confidants' \cup job'.chosen : SaidYes(p)
  PROVE  StashInv'
<1>1. InOrder'
  <2>1. Used' = Used
    BY DEF Used
  <2>2. PICK n \in 0 .. MaxCalls : Used = 1 .. n /\ (job.call # NoId => job.call = n)
    BY DEF StashInv, InOrder
  <2>3. job'.call # NoId => job'.call = n
    BY <2>2
  <2> QED BY <2>1, <2>2, <2>3 DEF InOrder
<1>2. UnderWayOnce'
  BY DEF StashInv, UnderWayOnce, Open, RequestOf
<1>3. \A p \in confidants' \cup job'.chosen : SaidYes(p)'
  BY DEF SaidYes
<1>4. ASSUME NEW p \in Peer PROVE NewestStored(p)'
  <2>1. NothingGivenUp(p)' => NothingGivenUp(p)
    BY DEF NothingGivenUp
  <2>2. NewestStored(p)
    BY DEF StashInv
  <2> QED BY <2>1, <2>2 DEF NewestStored
<1> QED BY <1>1, <1>2, <1>3, <1>4 DEF StashInv

(* What the owner decides between two calls changes no call. *)
LEMMA OwnerFrame ==
  ASSUME StashInv, StashTypes',
         UNCHANGED <<runtimeVars, requests, admitted, handled, stored>>,
         replies' \subseteq replies,
         job'.call = job.call, job'.op # job.op => job.call = NoId,
         confidants' \cup job'.chosen \subseteq confidants \cup job.chosen
  PROVE  StashInv'
<1>1. UNCHANGED <<call, pending, resolving, chan>>
  BY DEF runtimeVars
<1>2. AnswersTrue'
  BY <1>1 DEF StashInv, AnswersTrue
<1>3. ASSUME NEW i \in CallId PROVE CallOK(i)'
  <2>1. CallOK(i) /\ i # NoId
    BY DEF StashInv, CallId, NoId
  <2> QED BY <1>1, <2>1 DEF CallOK
<1>4. \A p \in confidants' \cup job'.chosen : SaidYes(p)
  BY DEF StashInv
<1>5. job'.op = "none" => job'.call = NoId
  BY DEF StashInv, InOrder
<1> QED BY <1>1, <1>2, <1>3, <1>4, <1>5, CallerStepFrame

-----------------------------------------------------------------------------
(* The owner's service *)

(* New data starts a job that has called nobody and chosen nobody, and       *)
(* appoints no confidant.                                                    *)
LEMMA NewDataJob ==
  ASSUME StashTypes, NEW data \in AnyData, NEW online \in SUBSET Peer,
         SetStashDataWith(data, online)
  PROVE  /\ myStash' \in AnyData /\ confidants' \in SUBSET Peer /\ job' \in Job
         /\ job'.call = NoId /\ job'.chosen = {} /\ confidants' \subseteq confidants
<1>1. /\ NoJob \in Job /\ NoJob.call = NoId /\ NoJob.chosen = {}
      /\ confidants \in SUBSET Peer
  BY DEF NoJob, Job, JobOp, AnyData, StashTypes
<1>2. \/ job' = [NoJob EXCEPT !.op = "distribute", !.left = confidants, !.data = data]
      \/ job' = NoJob
      \/ job' = [NoJob EXCEPT !.op = "first", !.left = online, !.online = online]
  BY DEF SetStashDataWith, DistributeToConfidants
<1>3. job' \in Job /\ job'.call = NoId /\ job'.chosen = {}
  BY <1>1, <1>2 DEF Job, JobOp
<1> QED BY <1>1, <1>3 DEF SetStashDataWith

(* A new stash. *)
LEMMA SetStashDataInv == ASSUME StashInv, SetStashData PROVE StashInv'
<1>1. PICK online \in SUBSET Peer : SetStashDataWith(version', online)
  BY DEF SetStashData, OnlinePeers
<1>2. StashTypes /\ job.call = NoId
  BY DEF StashInv, InOrder, SetStashData
<1>3. version' \in 0 .. MaxVersions /\ version' \in AnyData
  BY <1>2, StashAssumption DEF SetStashData, StashTypes, AnyData, Data
<1>4. /\ myStash' \in AnyData /\ confidants' \in SUBSET Peer /\ job' \in Job
      /\ job'.call = NoId /\ job'.chosen = {} /\ confidants' \subseteq confidants
  BY <1>1, <1>2, <1>3, NewDataJob
<1>5. UNCHANGED <<recovering, runtimeVars, netVars, peerVars>>
  BY DEF SetStashData, runtimeIdle
<1>6. StashTypes'
  BY <1>2, <1>3, <1>4, <1>5 DEF StashTypes, runtimeVars, netVars, peerVars
<1> QED BY <1>2, <1>4, <1>5, <1>6, OwnerFrame DEF netVars, peerVars

(* Recovery asks the confidants. *)
LEMMA RecoverFromAnyInv == ASSUME StashInv, RecoverFromAny PROVE StashInv'
<1>1. StashTypes /\ job.call = NoId
  BY DEF StashInv, InOrder, RecoverFromAny
<1>2. job' \in Job /\ job'.call = NoId /\ job'.chosen = {}
  BY <1>1 DEF RecoverFromAny, NoJob, Job, JobOp, AnyData, StashTypes
<1>3. UNCHANGED <<myStash, confidants, recovering, version, runtimeVars, netVars, peerVars>>
  BY DEF RecoverFromAny, runtimeIdle
<1>4. StashTypes'
  BY <1>1, <1>2, <1>3 DEF StashTypes, runtimeVars, netVars, peerVars
<1> QED BY <1>1, <1>2, <1>3, <1>4, OwnerFrame DEF netVars, peerVars

(* Whoever was chosen becomes a confidant, all at once, or nobody does. *)
LEMMA FinishInv == ASSUME StashInv, Finish PROVE StashInv'
<1>1. StashTypes /\ job.call = NoId
  BY DEF StashInv, Finish
<1>2. /\ confidants' \in SUBSET Peer /\ job' \in Job
      /\ job'.call = NoId /\ job'.chosen = {} /\ confidants' \subseteq confidants \cup job.chosen
  <2>1. /\ NoJob \in Job /\ NoJob.call = NoId /\ NoJob.chosen = {}
        /\ confidants \in SUBSET Peer /\ job.chosen \in SUBSET Peer /\ myStash \in AnyData
    BY <1>1 DEF NoJob, Job, JobOp, AnyData, StashTypes
  <2>2. \/ /\ confidants' = job.chosen
           /\ job' = [NoJob EXCEPT !.op = "distribute", !.left = job.chosen, !.data = myStash]
        \/ confidants' = confidants /\ job' = NoJob
    BY DEF Finish, DistributeToConfidants
  <2>3. job' \in Job /\ job'.call = NoId /\ job'.chosen = {}
    BY <2>1, <2>2 DEF Job, JobOp
  <2> QED BY <2>1, <2>2, <2>3
<1>3. UNCHANGED <<myStash, recovering, version, runtimeVars, netVars, peerVars>>
  BY DEF Finish, runtimeIdle
<1>4. StashTypes'
  BY <1>1, <1>2, <1>3 DEF StashTypes, runtimeVars, netVars, peerVars
<1> QED BY <1>1, <1>2, <1>3, <1>4, OwnerFrame DEF netVars, peerVars

(* A stash nobody asked for, and taking it over: the data is some peer's. *)
LEMMA PushedInv ==
  ASSUME StashInv,
         \/ \E r \in replies : handleResponse(r)
         \/ \E data \in recovering : handleRecoveryPayload(data)
  PROVE  StashInv'
<1>1. StashTypes
  BY DEF StashInv
<1>2. CASE \E r \in replies : handleResponse(r)
  <2>1. PICK r \in replies : handleResponse(r)
    BY <1>2
  <2>2. r.data \in AnyData
    BY <1>1 DEF StashTypes, Replies
  <2>0. /\ replies' = replies \ {r}
        /\ recovering' = IF myStash = NoData /\ r.data # NoData
                         THEN recovering \cup {r.data} ELSE recovering
        /\ UNCHANGED <<myStash, confidants, job, version, runtimeVars, requests, admitted,
                       handled, peerVars>>
    BY <2>1, Zenon DEF handleResponse
  <2>3. recovering' \in SUBSET AnyData /\ replies' \subseteq replies
    BY <1>1, <2>0, <2>2 DEF StashTypes
  <2>4. StashTypes'
    BY <1>1, <2>0, <2>3 DEF StashTypes, runtimeVars, peerVars
  <2> QED BY <2>0, <2>3, <2>4, OwnerFrame DEF peerVars
<1>3. CASE \E data \in recovering : handleRecoveryPayload(data)
  <2>1. /\ myStash' \in AnyData /\ recovering' \in SUBSET AnyData
        /\ UNCHANGED <<confidants, job, version, runtimeVars, netVars, peerVars>>
    BY <1>1, <1>3 DEF StashTypes, handleRecoveryPayload
  <2>2. StashTypes'
    BY <1>1, <2>1 DEF StashTypes, runtimeVars, netVars, peerVars
  <2> QED BY <2>1, <2>2, OwnerFrame DEF netVars, peerVars
<1> QED BY <1>2, <1>3

(* The owner restarts: its call is over, whatever the peer makes of it. *)
LEMMA RestartOwnerInv == ASSUME StashInv, RestartOwner PROVE StashInv'
<1> DEFINE over(i) == [call[i] EXCEPT !.phase = "returned", !.outcome = "gone"]
<1>1. StashTypes /\ \A i \in CallId : CallOK(i)
  BY DEF StashInv
<1>2. \A i \in CallId :
        call'[i] = IF call[i].phase \in {"unused", "returned"} THEN call[i] ELSE over(i)
  BY DEF RestartOwner
<1>3. \A i \in CallId :
        /\ over(i) \in Calls /\ over(i).phase = "returned" /\ over(i).outcome = "gone"
        /\ over(i).to = call[i].to /\ over(i).kind = call[i].kind /\ over(i).data = call[i].data
  BY <1>1 DEF StashTypes, Calls, Phase, CallOutcome
<1> HIDE DEF over
<1>4. /\ myStash' = NoData /\ confidants' = {} /\ job' = NoJob /\ recovering' = {}
      /\ pending' = {} /\ resolving' = {} /\ chan' = [i \in CallId |-> <<>>]
      /\ UNCHANGED <<version, netVars, peerVars>>
      /\ NoJob \in Job /\ NoJob.call = NoId /\ NoJob.chosen = {} /\ NoData \in AnyData
  BY DEF RestartOwner, NoJob, Job, JobOp, AnyData
<1>5. call' \in [CallId -> Calls]
  <2>1. DOMAIN call' = CallId /\ call' = [i \in CallId |-> call'[i]]
    BY DEF RestartOwner
  <2>2. \A i \in CallId : call'[i] \in Calls
    BY <1>1, <1>2, <1>3 DEF StashTypes
  <2> QED BY <2>1, <2>2
<1>6. StashTypes'
  BY <1>1, <1>4, <1>5 DEF StashTypes, netVars, peerVars
<1>7. ASSUME NEW i \in CallId PROVE CallOK(i)'
  <2>1. CallOK(i) /\ i # NoId
    BY <1>1 DEF CallId, NoId
  <2>2. /\ chan'[i] = <<>> /\ handled'[i] = handled[i] /\ job'.call = NoId /\ i \notin pending'
    BY <1>4 DEF netVars
  <2>3. CASE call[i].phase \in {"unused", "returned"}
    BY <1>2, <2>1, <2>2, <2>3 DEF CallOK
  <2>4. CASE call[i].phase \notin {"unused", "returned"}
    BY <1>2, <1>3, <2>1, <2>2, <2>4 DEF CallOK
  <2> QED BY <2>3, <2>4
<1>8. AnswersTrue'
  BY <1>4 DEF StashInv, AnswersTrue, netVars
<1>9. \A i \in CallId :
        /\ call'[i].to = call[i].to /\ call'[i].kind = call[i].kind
        /\ call'[i].data = call[i].data
        /\ call'[i].phase = "unused" <=> call[i].phase = "unused"
        /\ call[i].outcome \in {"failed", "gone"} => call'[i].outcome \in {"failed", "gone"}
  BY <1>2, <1>3
<1>10. /\ UNCHANGED <<requests, admitted, handled, stored>>
       /\ job'.call = NoId /\ confidants' \cup job'.chosen = {}
  BY <1>4 DEF netVars, peerVars
<1> QED BY <1>6, <1>7, <1>8, <1>9, <1>10, CallerStepFrame

-----------------------------------------------------------------------------
(* The owner's runtime *)

(* A step of the runtime that neither handles nor sends a request, changes   *)
(* at most the phases of calls that were made, and loses or moves replies.   *)
LEMMA RuntimeFrame ==
  ASSUME StashInv, UNCHANGED <<ownerVars, requests, admitted, handled, peerVars>>,
         NEW i \in CallId, call[i].phase # "unused", NEW f \in Phase \ {"unused"},
         call' = [call EXCEPT ![i].phase = f],
         pending' \in SUBSET CallId, resolving' \in SUBSET Replies, replies' \in SUBSET Replies,
         chan' \in [CallId -> {<<>>} \cup {<<r>> : r \in Result}],
         AnswersTrue', \A k \in CallId : CallOK(k)'
  PROVE  StashInv'
<1>1. StashTypes
  BY DEF StashInv
<1>2. call[i] \in Calls /\ [call[i] EXCEPT !.phase = f] \in Calls
  BY <1>1 DEF StashTypes, Calls
<1>3. call' \in [CallId -> Calls]
  BY <1>1, <1>2 DEF StashTypes
<1>4. StashTypes'
  BY <1>1, <1>3 DEF StashTypes, ownerVars, peerVars
<1>5. \A k \in CallId :
        /\ call'[k].to = call[k].to /\ call'[k].kind = call[k].kind
        /\ call'[k].data = call[k].data
        /\ call'[k].phase = "unused" <=> call[k].phase = "unused"
        /\ call[k].outcome \in {"failed", "gone"} => call'[k].outcome \in {"failed", "gone"}
  BY <1>1, <1>2 DEF StashTypes, Calls
<1>6. /\ job'.call # NoId => job'.call = job.call
      /\ job'.op = "none" => job'.call = NoId
      /\ \A p \in confidants' \cup job'.chosen : SaidYes(p)
  BY DEF StashInv, InOrder, ownerVars
<1> QED BY <1>4, <1>5, <1>6, CallerStepFrame DEF peerVars

\* What is known of the fields of call i after a change of its phase to f.
PhaseOnly(i, f) ==
  /\ call'[i].phase = f /\ call'[i].to = call[i].to /\ call'[i].kind = call[i].kind
  /\ call'[i].outcome = call[i].outcome

(* The phase of one call changes, and nothing else of any call. *)
LEMMA PhaseChange ==
  ASSUME StashTypes, NEW i \in CallId, NEW f, call' = [call EXCEPT ![i].phase = f]
  PROVE  PhaseOnly(i, f) /\ \A k \in CallId \ {i} : call'[k] = call[k]
<1>1. call \in [CallId -> Calls] /\ call[i] \in Calls
  BY DEF StashTypes
<1> QED BY <1>1 DEF PhaseOnly, Calls

(* The POST is answered: the peer has handled the request. *)
LEMMA EmitDoneInv ==
  ASSUME StashInv, NEW i \in CallId, EmitDone(i)
  PROVE  StashInv'
<1>1. /\ call[i].phase = "emitting" /\ handled[i] # Nothing
      /\ call' = [call EXCEPT ![i].phase = "waiting"]
      /\ UNCHANGED <<ownerVars, pending, resolving, chan, netVars, peerVars>>
  BY Zenon DEF EmitDone
<1>2. StashTypes /\ \A k \in CallId : CallOK(k)
  BY DEF StashInv
<1>3. PhaseOnly(i, "waiting") /\ \A k \in CallId \ {i} : call'[k] = call[k]
  BY <1>1, <1>2, PhaseChange
<1>4. ASSUME NEW k \in CallId PROVE CallOK(k)'
  <2>1. CallOK(k) /\ UNCHANGED <<job, pending, resolving, chan, handled>>
    BY <1>1, <1>2 DEF ownerVars, netVars
  <2>2. CASE k = i
    BY <1>1, <1>3, <2>1, <2>2 DEF CallOK, PhaseOnly
  <2>3. CASE k # i
    BY <1>3, <2>1, <2>3 DEF CallOK
  <2> QED BY <2>2, <2>3
<1>5. AnswersTrue'
  BY <1>1 DEF StashInv, AnswersTrue, netVars
<1>6. "waiting" \in Phase \ {"unused"} /\ call[i].phase # "unused"
  BY <1>1 DEF Phase
<1> QED BY <1>1, <1>2, <1>4, <1>5, <1>6, RuntimeFrame DEF StashTypes, netVars

(* The POST fails: the call is taken out of the registry. *)
LEMMA EmitFailInv ==
  ASSUME StashInv, NEW i \in CallId, EmitFail(i)
  PROVE  StashInv'
<1>1. /\ call[i].phase = "emitting" /\ pending' = pending \ {i}
      /\ call' = [call EXCEPT ![i].phase = "failing"]
      /\ UNCHANGED <<ownerVars, resolving, chan, netVars, peerVars>>
  BY Zenon DEF EmitFail
<1>2. StashTypes /\ \A k \in CallId : CallOK(k)
  BY DEF StashInv
<1>3. PhaseOnly(i, "failing") /\ \A k \in CallId \ {i} : call'[k] = call[k]
  BY <1>1, <1>2, PhaseChange
<1>4. ASSUME NEW k \in CallId PROVE CallOK(k)'
  <2>1. CallOK(k) /\ UNCHANGED <<job, resolving, chan, handled>>
    BY <1>1, <1>2 DEF ownerVars, netVars
  <2>2. CASE k = i
    BY <1>1, <1>3, <2>1, <2>2 DEF CallOK, PhaseOnly
  <2>3. CASE k # i
    BY <1>1, <1>3, <2>1, <2>3 DEF CallOK
  <2> QED BY <2>2, <2>3
<1>5. AnswersTrue'
  BY <1>1 DEF StashInv, AnswersTrue, netVars
<1>6. "failing" \in Phase \ {"unused"} /\ call[i].phase # "unused"
  BY <1>1 DEF Phase
<1>7. pending' \in SUBSET CallId
  BY <1>1, <1>2 DEF StashTypes
<1> QED BY <1>1, <1>2, <1>4, <1>5, <1>6, <1>7, RuntimeFrame DEF StashTypes, netVars

\* A one-place channel that has room for r, and then holds it.
Put(i, r) ==
  /\ chan[i] = <<>> /\ chan'[i] = <<r>>
  /\ \A k \in CallId \ {i} : chan'[k] = chan[k]
  /\ chan' \in [CallId -> {<<>>} \cup {<<q>> : q \in Result}]

(* Putting a result into an empty channel. *)
LEMMA PutResult ==
  ASSUME StashTypes, NEW i \in CallId, NEW r \in Result, chan[i] = <<>>,
         chan' = [chan EXCEPT ![i] = <<r>>]
  PROVE  Put(i, r)
<1>1. chan \in [CallId -> {<<>>} \cup {<<q>> : q \in Result}]
  BY DEF StashTypes
<1>2. <<r>> \in {<<q>> : q \in Result}
  OBVIOUS
<1> QED BY <1>1, <1>2 DEF Put

(* The failure is reported to the caller, who finds nothing else there. *)
LEMMA ReportFailureInv ==
  ASSUME StashInv, NEW i \in CallId, ReportFailure(i)
  PROVE  StashInv'
<1> DEFINE r == [answer |-> "failed", data |-> NoData]
<1>1. /\ call[i].phase = "failing" /\ chan[i] = <<>>
      /\ chan' = [chan EXCEPT ![i] = <<r>>]
      /\ call' = [call EXCEPT ![i].phase = "waiting"]
      /\ UNCHANGED <<ownerVars, pending, resolving, netVars, peerVars>>
  BY Zenon DEF ReportFailure
<1>2. StashTypes /\ \A k \in CallId : CallOK(k)
  BY DEF StashInv
<1>3. r \in Result /\ r.answer = "failed"
  BY DEF Result, AnyData
<1> HIDE DEF r
<1>4. PhaseOnly(i, "waiting") /\ (\A k \in CallId \ {i} : call'[k] = call[k]) /\ Put(i, r)
  BY <1>1, <1>2, <1>3, PhaseChange, PutResult
<1>5. ASSUME NEW k \in CallId PROVE CallOK(k)'
  <2>1. CallOK(k) /\ UNCHANGED <<job, pending, resolving, handled>>
    BY <1>1, <1>2 DEF ownerVars, netVars
  <2>2. CASE k = i
    <3>1. chan'[i] # <<>> /\ chan'[i][1] = r
      BY <1>4 DEF Put
    <3> QED BY <1>1, <1>3, <1>4, <2>1, <2>2, <3>1 DEF CallOK, PhaseOnly
  <2>3. CASE k # i
    <3>1. chan'[k] = chan[k] /\ call'[k] = call[k]
      BY <1>4, <2>3 DEF Put
    <3> QED BY <3>1, <2>1, <2>3 DEF CallOK
  <2> QED BY <2>2, <2>3
<1>6. AnswersTrue'
  BY <1>1 DEF StashInv, AnswersTrue, netVars
<1>7. "waiting" \in Phase \ {"unused"} /\ call[i].phase # "unused"
  BY <1>1 DEF Phase
<1>8. chan' \in [CallId -> {<<>>} \cup {<<q>> : q \in Result}]
  BY <1>4 DEF Put
<1> QED BY <1>1, <1>2, <1>5, <1>6, <1>7, <1>8, RuntimeFrame DEF StashTypes, netVars

(* A step of the registry or of a channel alone. *)
LEMMA RegistryFrame ==
  ASSUME StashInv, UNCHANGED <<ownerVars, call, requests, admitted, handled, peerVars>>,
         pending' \in SUBSET CallId, resolving' \in SUBSET Replies, replies' \in SUBSET Replies,
         chan' \in [CallId -> {<<>>} \cup {<<r>> : r \in Result}],
         AnswersTrue', \A k \in CallId : CallOK(k)'
  PROVE  StashInv'
<1>1. StashTypes'
  BY DEF StashInv, StashTypes, ownerVars, peerVars
<1>2. /\ job'.call # NoId => job'.call = job.call
      /\ job'.op = "none" => job'.call = NoId
      /\ \A p \in confidants' \cup job'.chosen : SaidYes(p)
  BY DEF StashInv, InOrder, ownerVars
<1> QED BY <1>1, <1>2, CallerStepFrame DEF peerVars

(* A reply takes its call out of the registry. *)
LEMMA ResolveInv ==
  ASSUME StashInv, NEW r \in replies, Resolve(r)
  PROVE  StashInv'
<1>1. PICK i \in pending :
        /\ r.id = i /\ pending' = pending \ {i}
        /\ resolving' = resolving \cup {[r EXCEPT !.id = i]} /\ replies' = replies \ {r}
        /\ UNCHANGED <<ownerVars, call, chan, requests, admitted, handled, peerVars>>
  BY DEF Resolve, AnswersTo
<1>2. StashTypes /\ AnswersTrue /\ (\A k \in CallId : CallOK(k)) /\ i \in CallId
  BY DEF StashInv, StashTypes
<1>3. r \in Replies /\ [r EXCEPT !.id = i] = r /\ i # NoId
  BY <1>1, <1>2 DEF StashTypes, Replies, CallId, NoId
<1>4. resolving' = resolving \cup {r}
  BY <1>1, <1>3
<1>5. AnswersTrue'
  BY <1>1, <1>2, <1>3, <1>4 DEF AnswersTrue
<1>6. ASSUME NEW k \in CallId PROVE CallOK(k)'
  <2>1. CallOK(k) /\ UNCHANGED <<job, call, chan, handled>>
    BY <1>1, <1>2 DEF ownerVars
  <2>2. k \in pending' => k \in pending /\ k # i
    BY <1>1
  <2>3. k \in pending' => \A q \in resolving' : q.id # k
    BY <2>1, <2>2, <1>1, <1>4 DEF CallOK
  <2> QED BY <2>1, <2>2, <2>3 DEF CallOK
<1>7. pending' \in SUBSET CallId /\ resolving' \in SUBSET Replies /\ replies' \in SUBSET Replies
  BY <1>1, <1>2, <1>3, <1>4 DEF StashTypes
<1> QED BY <1>1, <1>2, <1>5, <1>6, <1>7, RegistryFrame DEF StashTypes

(* With the registry's lock released, the reply goes into the channel. *)
LEMMA DeliverInv ==
  ASSUME StashInv, NEW r \in resolving, Deliver(r)
  PROVE  StashInv'
<1> DEFINE i == r.id
           q == [answer |-> r.answer, data |-> r.data]
<1>1. /\ chan[i] = <<>> /\ chan' = [chan EXCEPT ![i] = <<q>>] /\ resolving' = resolving \ {r}
      /\ UNCHANGED <<ownerVars, call, pending, netVars, peerVars>>
  BY DEF Deliver
<1>2. StashTypes /\ AnswersTrue /\ \A k \in CallId : CallOK(k)
  BY DEF StashInv
<1>3. i \in CallId /\ r.answer = handled[i] /\ r.answer \in {"accepted", "refused"}
  BY <1>2 DEF StashTypes, AnswersTrue, Replies
<1>4. q \in Result /\ q.answer = handled[i]
  BY <1>2, <1>3 DEF StashTypes, Replies, Result
<1> HIDE DEF q, i
<1>5. Put(i, q)
  BY <1>1, <1>2, <1>3, <1>4, PutResult
<1>6. ASSUME NEW k \in CallId PROVE CallOK(k)'
  <2>1. CallOK(k) /\ UNCHANGED <<job, call, pending, handled>> /\ resolving' \subseteq resolving
    BY <1>1, <1>2 DEF ownerVars, netVars
  <2>2. CASE k = i
    <3>1. chan'[i] # <<>> /\ chan'[i][1] = q
      BY <1>5 DEF Put
    <3>2. call[i].phase # "unused"
      BY <1>2, <1>3 DEF CallOK, Nothing
    <3>3. i \notin pending
      BY <1>2, <1>3 DEF CallOK, i
    <3>4. handled[i] # Nothing
      BY <1>3 DEF Nothing
    <3> QED BY <1>4, <2>1, <2>2, <3>1, <3>2, <3>3, <3>4 DEF CallOK
  <2>3. CASE k # i
    <3>1. chan'[k] = chan[k]
      BY <1>5, <2>3 DEF Put
    <3> QED BY <3>1, <2>1, <2>3 DEF CallOK
  <2> QED BY <2>2, <2>3
<1>7. AnswersTrue'
  BY <1>1, <1>2 DEF AnswersTrue, netVars
<1>8. chan' \in [CallId -> {<<>>} \cup {<<x>> : x \in Result}]
  BY <1>5 DEF Put
<1>9. resolving' \in SUBSET Replies /\ replies' \in SUBSET Replies /\ pending' \in SUBSET CallId
  BY <1>1, <1>2 DEF StashTypes, netVars
<1> QED BY <1>1, <1>6, <1>7, <1>8, <1>9, RegistryFrame DEF netVars

(* The reaper finds the channel of a registered call empty and fills it. *)
LEMMA ReapInv ==
  ASSUME StashInv, NEW i \in CallId, reapLoop(i)
  PROVE  StashInv'
<1> DEFINE q == [answer |-> "timeout", data |-> NoData]
<1>1. /\ i \in pending /\ call[i].phase = "waiting" /\ chan[i] = <<>>
      /\ chan' = [chan EXCEPT ![i] = <<q>>] /\ pending' = pending \ {i}
      /\ UNCHANGED <<ownerVars, call, resolving, netVars, peerVars>>
  BY DEF reapLoop
<1>2. StashTypes /\ AnswersTrue /\ \A k \in CallId : CallOK(k)
  BY DEF StashInv
<1>3. q \in Result /\ q.answer = "timeout"
  BY DEF Result, AnyData
<1> HIDE DEF q
<1>4. Put(i, q)
  BY <1>1, <1>2, <1>3, PutResult
<1>5. ASSUME NEW k \in CallId PROVE CallOK(k)'
  <2>1. CallOK(k) /\ UNCHANGED <<job, call, resolving, handled>>
    BY <1>1, <1>2 DEF ownerVars, netVars
  <2>2. CASE k = i
    <3>1. chan'[i] # <<>> /\ chan'[i][1] = q
      BY <1>4 DEF Put
    <3>2. handled[i] # Nothing
      BY <1>1, <2>1, <2>2 DEF CallOK
    <3> QED BY <1>1, <1>3, <2>1, <2>2, <3>1, <3>2 DEF CallOK
  <2>3. CASE k # i
    <3>1. chan'[k] = chan[k]
      BY <1>4, <2>3 DEF Put
    <3> QED BY <1>1, <3>1, <2>1, <2>3 DEF CallOK
  <2> QED BY <2>2, <2>3
<1>6. AnswersTrue'
  BY <1>1, <1>2 DEF AnswersTrue, netVars
<1>7. chan' \in [CallId -> {<<>>} \cup {<<x>> : x \in Result}]
  BY <1>4 DEF Put
<1>8. resolving' \in SUBSET Replies /\ replies' \in SUBSET Replies /\ pending' \in SUBSET CallId
  BY <1>1, <1>2 DEF StashTypes, netVars
<1> QED BY <1>1, <1>5, <1>6, <1>7, <1>8, RegistryFrame DEF netVars

(* The caller gets the result that is in its channel: the peer's own answer, *)
(* or an error.  Only a peer that said yes to a stash is chosen.             *)
LEMMA ReturnedFacts ==
  ASSUME StashInv, NEW i \in CallId, Returned(i)
  PROVE  LET result == chan[i][1]
             ok == Accepted(result.answer)
             chosen == IF ok THEN job.chosen \cup {call[i].to} ELSE job.chosen
         IN /\ i = job.call /\ call[i].phase = "waiting" /\ chan[i] # <<>>
            /\ result \in Result /\ i \notin pending /\ call[i].to \in Peer
            /\ result.answer \in {"failed", "timeout"} \/ result.answer = handled[i]
            /\ handled[i] = Nothing => result.answer = "failed"
            /\ call' = [call EXCEPT ![i].phase = "returned", ![i].outcome = result.answer]
            /\ chan' = [chan EXCEPT ![i] = <<>>]
            /\ IF job.op = "recover" /\ ok
               THEN Recovered(result.data)
               ELSE /\ job' = IF job.op = "first" /\ ok THEN FirstFound([job EXCEPT !.chosen = chosen])
                              ELSE [job EXCEPT !.chosen = chosen, !.call = NoId]
                    /\ UNCHANGED <<myStash, confidants>>
            /\ UNCHANGED <<recovering, version, pending, resolving, netVars, peerVars>>
            /\ chosen \in SUBSET Peer
            /\ ok => handled[i] = "accepted"
<1> DEFINE result == chan[i][1]
           ok == Accepted(result.answer)
           chosen == IF ok THEN job.chosen \cup {call[i].to} ELSE job.chosen
<1>1. /\ i = job.call /\ call[i].phase = "waiting" /\ chan[i] # <<>>
      /\ call' = [call EXCEPT ![i].phase = "returned", ![i].outcome = result.answer]
      /\ chan' = [chan EXCEPT ![i] = <<>>]
      /\ IF job.op = "recover" /\ ok
         THEN Recovered(result.data)
         ELSE /\ job' = IF job.op = "first" /\ ok THEN FirstFound([job EXCEPT !.chosen = chosen])
                        ELSE [job EXCEPT !.chosen = chosen, !.call = NoId]
              /\ UNCHANGED <<myStash, confidants>>
      /\ UNCHANGED <<recovering, version, pending, resolving, netVars, peerVars>>
  BY DEF Returned
<1>2. CallOK(i) /\ StashTypes
  BY DEF StashInv
<1>3. result \in Result
  BY <1>1, <1>2 DEF StashTypes
<1>4. /\ i \notin pending /\ call[i].to \in Peer
      /\ result.answer \in {"failed", "timeout"} \/ result.answer = handled[i]
      /\ handled[i] = Nothing => result.answer = "failed"
  BY <1>1, <1>2 DEF CallOK
<1>5. chosen \in SUBSET Peer
  BY <1>2, <1>4 DEF StashTypes, Job
<1>6. ok => handled[i] = "accepted"
  BY <1>4 DEF Accepted
<1> HIDE DEF result, ok, chosen
<1>7. /\ i = job.call /\ call[i].phase = "waiting" /\ chan[i] # <<>>
      /\ result \in Result /\ i \notin pending /\ call[i].to \in Peer
      /\ result.answer \in {"failed", "timeout"} \/ result.answer = handled[i]
      /\ handled[i] = Nothing => result.answer = "failed"
      /\ call' = [call EXCEPT ![i].phase = "returned", ![i].outcome = result.answer]
      /\ chan' = [chan EXCEPT ![i] = <<>>]
      /\ IF job.op = "recover" /\ ok
         THEN Recovered(result.data)
         ELSE /\ job' = IF job.op = "first" /\ ok THEN FirstFound([job EXCEPT !.chosen = chosen])
                        ELSE [job EXCEPT !.chosen = chosen, !.call = NoId]
              /\ UNCHANGED <<myStash, confidants>>
      /\ UNCHANGED <<recovering, version, pending, resolving, netVars, peerVars>>
      /\ chosen \in SUBSET Peer
      /\ ok => handled[i] = "accepted"
  BY <1>1, <1>3, <1>4, <1>5, <1>6, Zenon
<1> QED BY <1>7, Zenon DEF result, ok, chosen

(* The job after a call: it waits for nobody, and whoever it has chosen now  *)
(* has said yes.                                                             *)
LEMMA ReturnedJob ==
  ASSUME StashInv, NEW i \in CallId, Returned(i)
  PROVE  /\ job' \in Job /\ job'.call = NoId
         /\ myStash' \in AnyData /\ confidants' \in SUBSET Peer
         /\ \A p \in confidants' \cup job'.chosen : SaidYes(p)
<1> DEFINE result == chan[i][1]
           ok == Accepted(result.answer)
           chosen == IF ok THEN job.chosen \cup {call[i].to} ELSE job.chosen
<1>1. /\ i = job.call /\ result \in Result
      /\ IF job.op = "recover" /\ ok
         THEN Recovered(result.data)
         ELSE /\ job' = IF job.op = "first" /\ ok THEN FirstFound([job EXCEPT !.chosen = chosen])
                        ELSE [job EXCEPT !.chosen = chosen, !.call = NoId]
              /\ UNCHANGED <<myStash, confidants>>
      /\ chosen \in SUBSET Peer
      /\ ok => handled[i] = "accepted"
  BY ReturnedFacts, Zenon
<1>2. StashTypes /\ CallOK(i) /\ \A p \in confidants \cup job.chosen : SaidYes(p)
  BY DEF StashInv
<1>3. CASE job.op = "recover" /\ ok
  <2>1. PICK online \in SUBSET Peer : SetStashDataWith(result.data, online)
    BY <1>1, <1>3 DEF Recovered, OnlinePeers
  <2>2. result.data \in AnyData
    BY <1>1 DEF Result
  <2> HIDE DEF result
  <2>3. /\ myStash' \in AnyData /\ confidants' \in SUBSET Peer /\ job' \in Job
        /\ job'.call = NoId /\ job'.chosen = {} /\ confidants' \subseteq confidants
    BY <1>2, <2>1, <2>2, NewDataJob
  <2> QED BY <1>2, <2>3
<1>4. CASE ~(job.op = "recover" /\ ok)
  <2>1. job \in Job /\ myStash \in AnyData /\ confidants \in SUBSET Peer
    BY <1>2 DEF StashTypes
  <2>2. /\ job' = IF job.op = "first" /\ ok THEN FirstFound([job EXCEPT !.chosen = chosen])
                  ELSE [job EXCEPT !.chosen = chosen, !.call = NoId]
        /\ UNCHANGED <<myStash, confidants>>
    BY <1>1, <1>4
  <2>3. \A p \in chosen : SaidYes(p)
    <3>1. ok => SaidYes(call[i].to)
      BY <1>1, <1>2, <1>4 DEF CallOK, SaidYes
    <3> HIDE DEF ok
    <3> QED BY <1>2, <3>1
  <2> HIDE DEF chosen, ok
  <2>4. [job EXCEPT !.chosen = chosen] \in Job /\ [job EXCEPT !.chosen = chosen].chosen = chosen
    BY <1>1, <2>1 DEF Job
  <2>5. /\ FirstFound([job EXCEPT !.chosen = chosen]) \in Job
        /\ FirstFound([job EXCEPT !.chosen = chosen]).call = NoId
        /\ FirstFound([job EXCEPT !.chosen = chosen]).chosen = chosen
    BY <2>4 DEF FirstFound, Job, JobOp
  <2>6. /\ [job EXCEPT !.chosen = chosen, !.call = NoId] \in Job
        /\ [job EXCEPT !.chosen = chosen, !.call = NoId].call = NoId
        /\ [job EXCEPT !.chosen = chosen, !.call = NoId].chosen = chosen
    BY <1>1, <2>1 DEF Job
  <2>7. job' \in Job /\ job'.call = NoId /\ job'.chosen = chosen
    BY <2>2, <2>5, <2>6
  <2> QED BY <1>2, <2>1, <2>2, <2>3, <2>7
<1> QED BY <1>3, <1>4

(* Call returns. *)
LEMMA ReturnedInv ==
  ASSUME StashInv, NEW i \in CallId, Returned(i)
  PROVE  StashInv'
<1> DEFINE answer == chan[i][1].answer
<1>1. /\ i = job.call /\ call[i].phase = "waiting"
      /\ chan[i][1] \in Result /\ i \notin pending /\ call[i].to \in Peer
      /\ answer \in {"failed", "timeout"} \/ answer = handled[i]
      /\ handled[i] = Nothing => answer = "failed"
      /\ call' = [call EXCEPT ![i].phase = "returned", ![i].outcome = answer]
      /\ chan' = [chan EXCEPT ![i] = <<>>]
      /\ UNCHANGED <<recovering, version, pending, resolving, netVars, peerVars>>
  BY ReturnedFacts, Zenon
<1>2. StashTypes /\ AnswersTrue /\ \A k \in CallId : CallOK(k)
  BY DEF StashInv
<1>3. answer \in {"accepted", "refused", "failed", "timeout"}
  BY <1>1 DEF Result
<1> HIDE DEF answer
<1>4. /\ call' \in [CallId -> Calls]
      /\ call'[i].phase = "returned" /\ call'[i].outcome = answer
      /\ call'[i].to = call[i].to /\ call'[i].kind = call[i].kind /\ call'[i].data = call[i].data
      /\ \A k \in CallId \ {i} : call'[k] = call[k]
  <2>1. call \in [CallId -> Calls] /\ call[i] \in Calls
    BY <1>2 DEF StashTypes
  <2>2. call' = [call EXCEPT ![i] = [call[i] EXCEPT !.phase = "returned", !.outcome = answer]]
    BY <1>1
  <2>3. [call[i] EXCEPT !.phase = "returned", !.outcome = answer] \in Calls
    BY <1>3, <2>1 DEF Calls, Phase, CallOutcome
  <2> QED BY <2>1, <2>2, <2>3 DEF Calls
<1>5. /\ chan' \in [CallId -> {<<>>} \cup {<<r>> : r \in Result}]
      /\ chan'[i] = <<>> /\ \A k \in CallId \ {i} : chan'[k] = chan[k]
  BY <1>1, <1>2 DEF StashTypes
<1>6. /\ job' \in Job /\ job'.call = NoId
      /\ myStash' \in AnyData /\ confidants' \in SUBSET Peer
      /\ \A p \in confidants' \cup job'.chosen : SaidYes(p)
  BY ReturnedJob
<1>7. StashTypes'
  BY <1>1, <1>2, <1>4, <1>5, <1>6 DEF StashTypes, netVars, peerVars
<1>8. ASSUME NEW k \in CallId PROVE CallOK(k)'
  <2>1. CallOK(k) /\ UNCHANGED <<pending, resolving, handled>> /\ k # NoId
    BY <1>1, <1>2 DEF netVars, CallId, NoId
  <2>2. CASE k = i
    BY <1>1, <1>3, <1>4, <1>5, <1>6, <2>1, <2>2 DEF CallOK
  <2>3. CASE k # i
    <3>1. chan'[k] = chan[k] /\ call'[k] = call[k]
      BY <1>4, <1>5, <2>3
    <3> QED BY <1>1, <1>6, <3>1, <2>1, <2>3 DEF CallOK
  <2> QED BY <2>2, <2>3
<1>9. AnswersTrue'
  BY <1>1, <1>2 DEF AnswersTrue, netVars
<1>10. \A k \in CallId :
        /\ call'[k].to = call[k].to /\ call'[k].kind = call[k].kind
        /\ call'[k].data = call[k].data
        /\ call'[k].phase = "unused" <=> call[k].phase = "unused"
        /\ call[k].outcome \in {"failed", "gone"} => call'[k].outcome \in {"failed", "gone"}
  <2>1. call[i].outcome = Nothing
    BY <1>1, <1>2 DEF CallOK
  <2> QED BY <1>1, <1>4, <2>1 DEF Nothing
<1> QED BY <1>1, <1>6, <1>7, <1>8, <1>9, <1>10, CallerStepFrame DEF netVars, peerVars

(* A call is registered under a new id before its request is sent: nothing   *)
(* in the network or in a channel can be taken for its answer.               *)
LEMMA CallNextInv ==
  ASSUME StashInv, NEW p \in Peer, CallNext(p)
  PROVE  StashInv'
<1> DEFINE n == NextCall
           kind == IF job.op = "recover" THEN "stash:request" ELSE "stash:store"
<1>1. PICK data \in AnyData : Call(p, kind, data)
  <2>1. CASE job.op = "recover"
    BY <2>1, Zenon DEF CallNext, RequestFrom, AnyData
  <2>2. CASE job.op # "recover"
    <3>1. (IF job.op = "distribute" THEN job.data ELSE Probe) \in AnyData
      BY DEF StashInv, StashTypes, Job, AnyData
    <3>2. Call(p, "stash:store", IF job.op = "distribute" THEN job.data ELSE Probe)
      BY <2>2, Zenon DEF CallNext, StoreWith
    <3> QED BY <2>2, <3>1, <3>2
  <2> QED BY <2>1, <2>2
<1> DEFINE c == [phase |-> "emitting", to |-> p, kind |-> kind, data |-> data, outcome |-> Nothing]
           m == [id |-> n, to |-> p, kind |-> kind, data |-> data]
<1>2. /\ n \in CallId /\ call' = [call EXCEPT ![n] = c]
      /\ pending' = pending \cup {n} /\ requests' = requests \cup {m}
      /\ UNCHANGED <<resolving, chan, admitted, replies, handled>>
  BY <1>1 DEF Call
<1>3. /\ job.op # "none" /\ job.call = NoId
      /\ job' = [job EXCEPT !.call = n, !.left = @ \ {p}]
      /\ UNCHANGED <<myStash, confidants, recovering, version, peerVars>>
  BY DEF CallNext
<1>4. /\ c \in Calls /\ c.phase = "emitting" /\ c.to = p /\ c.kind = kind /\ c.data = data
      /\ c.outcome = Nothing
  BY DEF Calls, Phase, CallOutcome
<1>5. m \in Message /\ m.id = n /\ m.to = p /\ m.kind = kind /\ m.data = data
  BY <1>2 DEF Message
<1>6. /\ StashTypes /\ UnderWayOnce /\ AnswersTrue /\ \A i \in CallId : CallOK(i)
      /\ \A q \in confidants \cup job.chosen : SaidYes(q)
      /\ \A q \in Peer : NewestStored(q)
  BY DEF StashInv
<1>7. /\ n \in Nat /\ Used = 1 .. n - 1 /\ call[n].phase = "unused"
  BY <1>2, NextCallIsNew
<1>8. /\ call[n] = NoCall /\ handled[n] = Nothing /\ chan[n] = <<>> /\ n # NoId
  BY <1>2, <1>6, <1>7 DEF CallOK, CallId, NoId
<1>9. /\ job' \in Job /\ job'.call = n /\ job'.op = job.op /\ job'.chosen = job.chosen
  BY <1>2, <1>3, <1>6 DEF StashTypes, Job
<1> HIDE DEF c, m, kind, n
<1>10. /\ call' \in [CallId -> Calls] /\ call'[n] = c
       /\ \A i \in CallId \ {n} : call'[i] = call[i]
  BY <1>2, <1>4, <1>6 DEF StashTypes
<1>11. StashTypes'
  BY <1>2, <1>3, <1>5, <1>6, <1>9, <1>10 DEF StashTypes, peerVars
<1>12. InOrder'
  <2>1. Used' = Used \cup {n}
    BY <1>2, <1>4, <1>10 DEF Used
  <2>2. Used' = 1 .. n
    BY <2>1, <1>7, <1>2 DEF CallId
  <2>3. n \in 0 .. MaxCalls
    BY <1>2, StashAssumption DEF CallId
  <2> QED BY <2>2, <2>3, <1>3, <1>9 DEF InOrder
<1>13. \A i \in CallId : handled[i] # Nothing => i # n
  BY <1>8
<1>14. UnderWayOnce'
  <2>1. ASSUME NEW q, Open(q) PROVE Open(q)' /\ q.id # n
    <3>1. q.id # n
      BY <2>1, <1>7 DEF Open
    <3>2. call'[q.id] = call[q.id]
      BY <2>1, <3>1, <1>10 DEF Open
    <3> QED BY <2>1, <3>1, <3>2, <1>2 DEF Open, RequestOf
  <2>2. ASSUME NEW q, q = m PROVE Open(q)'
    <3>1. q.id = n /\ q = [id |-> n, to |-> p, kind |-> kind, data |-> data]
      BY <2>2, <1>5 DEF m
    <3>2. /\ call'[n].phase # "unused" /\ handled'[n] = Nothing
          /\ call'[n].to = p /\ call'[n].kind = kind /\ call'[n].data = data
      BY <1>2, <1>4, <1>8, <1>10
    <3> QED BY <3>1, <3>2, <1>2 DEF Open, RequestOf
  <2>3. m \notin admitted
    <3>1. m.kind # "stranger"
      BY <1>5 DEF kind
    <3> QED BY <3>1, <2>1, <1>5, <1>6 DEF UnderWayOnce
  <2>4. \A q \in requests' : (q \in requests \/ q = m) /\ admitted' = admitted
    BY <1>2
  <2> QED BY <2>1, <2>2, <2>3, <2>4, <1>2, <1>6 DEF UnderWayOnce
<1>15. AnswersTrue'
  BY <1>2, <1>6 DEF AnswersTrue
<1>16. ASSUME NEW i \in CallId PROVE CallOK(i)'
  <2>1. CallOK(i) /\ UNCHANGED <<resolving, chan, handled>> /\ i # NoId
    BY <1>2, <1>6 DEF CallId, NoId
  <2>2. CASE i = n
    <3>1. \A r \in resolving : r.id # n
      BY <1>6, <1>8 DEF AnswersTrue, StashTypes, Replies, Nothing
    <3>2. c.kind = IF job'.op = "recover" THEN "stash:request" ELSE "stash:store"
      BY <1>4, <1>9 DEF kind
    <3> QED BY <1>4, <1>8, <1>9, <1>10, <2>1, <2>2, <3>1, <3>2 DEF CallOK, Nothing
  <2>3. CASE i # n
    <3>1. call'[i] = call[i] /\ (i \in pending' => i \in pending)
      BY <1>2, <1>10, <2>3
    <3> QED BY <1>3, <1>9, <3>1, <2>1, <2>3 DEF CallOK
  <2> QED BY <2>2, <2>3
<1>17. \A q \in confidants' \cup job'.chosen : SaidYes(q)'
  <2>1. \A q : SaidYes(q) => SaidYes(q)'
    BY <1>2, <1>10, <1>13 DEF SaidYes, Nothing
  <2> QED BY <2>1, <1>3, <1>6, <1>9
<1>18. ASSUME NEW q \in Peer PROVE NewestStored(q)'
  <2>1. NothingGivenUp(q)' => NothingGivenUp(q)
    BY <1>8, <1>10 DEF NothingGivenUp, NoCall, Nothing
  <2>2. \A i \in CallId : handled'[i] = "accepted" => handled[i] = "accepted" /\ call'[i] = call[i]
    BY <1>2, <1>10, <1>13 DEF Nothing
  <2>3. NewestStored(q) /\ stored' = stored
    BY <1>3, <1>6 DEF peerVars
  <2> QED BY <2>1, <2>2, <2>3 DEF NewestStored
<1> QED BY <1>11, <1>12, <1>14, <1>15, <1>16, <1>17, <1>18 DEF StashInv

-----------------------------------------------------------------------------
(* The peers *)

(* A peer handles a request that is under way: nobody can have heard an      *)
(* answer to it yet, and it is under way no more.                            *)
LEMMA HandleFrame ==
  ASSUME StashInv, UNCHANGED <<ownerVars, runtimeVars, others>>,
         NEW m, Open(m), NEW what \in {"accepted", "refused", "ignored"}, Handled(m, what),
         requests' \subseteq requests \ {m}, admitted' \subseteq admitted \ {m},
         \A r \in replies' : r \in replies \/ (r \in Replies /\ r.id = m.id /\ r.answer = what),
         stored' \in [Peer -> [data : AnyData, call : CallId \cup {NoId}]],
         \A p \in Peer : NewestStored(p)'
  PROVE  StashInv'
<1>1. /\ UNCHANGED <<myStash, confidants, job, recovering, version>>
      /\ UNCHANGED <<call, pending, resolving, chan>>
  BY DEF ownerVars, runtimeVars
<1>2. /\ StashTypes /\ InOrder /\ UnderWayOnce /\ AnswersTrue /\ \A i \in CallId : CallOK(i)
      /\ \A p \in confidants \cup job.chosen : SaidYes(p)
  BY DEF StashInv
<1>3. /\ m.id \in CallId /\ handled[m.id] = Nothing /\ what # Nothing
      /\ handled' = [handled EXCEPT ![m.id] = what] /\ handled'[m.id] = what
      /\ \A i \in CallId \ {m.id} : handled'[i] = handled[i]
  BY <1>2 DEF Open, Handled, StashTypes, Nothing
<1>4. StashTypes'
  <2>1. handled' \in [CallId -> {Nothing, "accepted", "refused", "ignored"}]
    BY <1>2, <1>3 DEF StashTypes
  <2>2. replies' \in SUBSET Replies
    BY <1>2 DEF StashTypes
  <2> QED BY <1>1, <1>2, <2>1, <2>2 DEF StashTypes
<1>5. InOrder'
  BY <1>1, <1>2 DEF InOrder, Used
<1>6. UnderWayOnce'
  <2>1. ASSUME NEW q, Open(q), q # m PROVE Open(q)'
    <3>1. q.id # m.id
      BY <2>1 DEF Open
    <3> QED BY <2>1, <3>1, <1>1, <1>3 DEF Open, RequestOf
  <2> QED BY <1>2, <2>1 DEF UnderWayOnce
<1>7. AnswersTrue'
  <2>1. ASSUME NEW r \in replies \cup resolving, r.id # NoId
        PROVE  r.answer = handled'[r.id] /\ r.id \in CallId
    <3>1. r \in Replies /\ r.answer = handled[r.id] /\ r.id \in CallId
      BY <1>2, <2>1 DEF StashTypes, AnswersTrue, Replies
    <3>2. r.id # m.id
      BY <3>1, <1>3 DEF Replies, Nothing
    <3> QED BY <3>1, <3>2, <1>3
  <2>2. \A r \in resolving : r.id # NoId
    BY <1>2 DEF AnswersTrue, CallId, NoId
  <2> QED BY <1>1, <1>3, <2>1, <2>2 DEF AnswersTrue
<1>8. ASSUME NEW i \in CallId PROVE CallOK(i)'
  <2>1. CallOK(i)
    BY <1>2
  <2>2. CASE i = m.id
    <3>1. call[i].phase # "unused"
      BY <2>2 DEF Open
    <3>2. chan[i] # <<>> => chan[i][1] \in Result
      BY <1>2 DEF StashTypes
    <3>3. chan[i] # <<>> => chan[i][1].answer \in {"failed", "timeout"}
      BY <2>1, <2>2, <1>3, <3>2 DEF CallOK, Result, Nothing
    <3>4. call[i].outcome \notin {"accepted", "refused"}
      BY <2>1, <2>2, <1>3 DEF CallOK, Nothing
    <3> QED BY <1>1, <1>3, <2>1, <2>2, <3>1, <3>3, <3>4 DEF CallOK
  <2>3. CASE i # m.id
    <3>1. handled'[i] = handled[i]
      BY <1>3, <2>3
    <3> QED BY <1>1, <2>1, <3>1 DEF CallOK
  <2> QED BY <2>2, <2>3
<1>9. \A p \in confidants' \cup job'.chosen : SaidYes(p)'
  <2>1. \A p : SaidYes(p) => SaidYes(p)'
    BY <1>1, <1>3 DEF SaidYes, Nothing
  <2> QED BY <2>1, <1>1, <1>2
<1> QED BY <1>4, <1>5, <1>6, <1>7, <1>8, <1>9 DEF StashInv

(* Unless a stash is acknowledged, the acknowledged ones stay the newest.    *)
LEMMA NothingNewAccepted ==
  ASSUME StashInv, NEW m, Open(m), NEW what, Handled(m, what), UNCHANGED <<call, stored>>,
         what # "accepted" \/ m.kind # "stash:store"
  PROVE  \A p \in Peer : NewestStored(p)'
<1>1. call[m.id].kind = m.kind /\ m.id \in CallId
  BY DEF Open, RequestOf
<1>2. \A i \in CallId : call[i].kind = "stash:store" /\ handled'[i] = "accepted" =>
                         handled[i] = "accepted"
  BY <1>1 DEF Handled, StashInv, StashTypes
<1>3. \A p \in Peer : NewestStored(p) /\ (NothingGivenUp(p)' => NothingGivenUp(p))
  BY DEF StashInv, NothingGivenUp
<1> QED BY <1>2, <1>3 DEF NewestStored

(* The request of a store is dropped, refused, or passes the check of the    *)
(* limit, after which it is as much under way as before.                     *)
LEMMA ReceiveStoreInv ==
  ASSUME StashInv, NEW m \in requests, NEW keyKnown \in BOOLEAN, ReceiveStore(m, keyKnown)
  PROVE  StashInv'
<1>1. /\ m.kind = "stash:store" /\ requests' = requests \ {m}
      /\ UNCHANGED <<ownerVars, runtimeVars, peerVars>>
      /\ \/ Handled(m, "ignored") /\ UNCHANGED <<admitted, replies>>
         \/ admitted' = admitted \cup {m} /\ UNCHANGED <<replies, handled>>
         \/ /\ replies' = replies \cup {Reply(m.id, m.to, "refused", NoData)}
            /\ Handled(m, "refused") /\ UNCHANGED admitted
  BY Zenon DEF ReceiveStore
<1>2. /\ Open(m) /\ m \notin admitted /\ m \in Message
      /\ StashTypes /\ UnderWayOnce
  BY DEF StashInv, UnderWayOnce, StashTypes
<1>3. UNCHANGED <<call, stored, others>> /\ stored \in [Peer -> [data : AnyData, call : CallId \cup {NoId}]]
  BY <1>1, <1>2 DEF runtimeVars, peerVars, StashTypes
<1>4. CASE Handled(m, "ignored") /\ UNCHANGED <<admitted, replies>>
  <2>1. \A p \in Peer : NewestStored(p)'
    BY <1>2, <1>3, <1>4, NothingNewAccepted
  <2> QED BY <1>1, <1>2, <1>3, <1>4, <2>1, HandleFrame
<1>5. CASE /\ replies' = replies \cup {Reply(m.id, m.to, "refused", NoData)}
           /\ Handled(m, "refused") /\ UNCHANGED admitted
  <2>1. \A p \in Peer : NewestStored(p)'
    BY <1>2, <1>3, <1>5, NothingNewAccepted
  <2> DEFINE r == Reply(m.id, m.to, "refused", NoData)
  <2>2. r \in Replies /\ r.id = m.id /\ r.answer = "refused"
    BY <1>2 DEF Reply, Replies, Message, AnyData
  <2> HIDE DEF r
  <2>3. \A q \in replies' : q \in replies \/ (q \in Replies /\ q.id = m.id /\ q.answer = "refused")
    BY <1>5, <2>2 DEF r
  <2>4. requests' \subseteq requests \ {m} /\ admitted' \subseteq admitted \ {m}
    BY <1>1, <1>2, <1>5
  <2> QED BY <1>1, <1>2, <1>3, <1>5, <2>1, <2>3, <2>4, HandleFrame
<1>6. CASE admitted' = admitted \cup {m} /\ UNCHANGED <<replies, handled>>
  <2>1. UNCHANGED <<confidants, job, call, pending, resolving, chan, replies, handled, stored>>
    BY <1>1, <1>6 DEF ownerVars, runtimeVars, peerVars
  <2>2. StashTypes'
    BY <1>1, <1>2, <1>6 DEF StashTypes, ownerVars, runtimeVars, peerVars
  <2>3. UnderWayOnce'
    <3>1. \A q : Open(q) => Open(q)'
      BY <2>1 DEF Open, RequestOf
    <3> QED BY <3>1, <1>1, <1>2, <1>6 DEF UnderWayOnce
  <2>4. InOrder' /\ AnswersTrue'
    BY <2>1 DEF StashInv, InOrder, Used, AnswersTrue
  <2>5. \A i \in CallId : CallOK(i)'
    BY <2>1 DEF StashInv, CallOK
  <2>6. \A p \in confidants' \cup job'.chosen : SaidYes(p)'
    BY <2>1 DEF StashInv, SaidYes
  <2>7. \A p \in Peer : NewestStored(p)'
    BY <2>1 DEF StashInv, NewestStored, NothingGivenUp
  <2> QED BY <2>2, <2>3, <2>4, <2>5, <2>6, <2>7 DEF StashInv
<1> QED BY <1>1, <1>4, <1>5, <1>6

(* A request for the stash is answered from what is stored. *)
LEMMA HandleRequestInv ==
  ASSUME StashInv, NEW m \in requests, handleRequest(m)
  PROVE  StashInv'
<1> DEFINE r == buildStashResponse(m.id, m.to)
<1>1. /\ m.kind = "stash:request" /\ requests' = requests \ {m}
      /\ replies' = replies \cup {r} /\ Handled(m, r.answer)
      /\ UNCHANGED <<ownerVars, runtimeVars, admitted, peerVars>>
  BY Zenon DEF handleRequest
<1>2. /\ Open(m) /\ m \notin admitted /\ m \in Message
      /\ stored \in [Peer -> [data : AnyData, call : CallId \cup {NoId}]]
  BY DEF StashInv, UnderWayOnce, StashTypes
<1>3. UNCHANGED <<call, stored, others>>
  BY <1>1 DEF runtimeVars, peerVars
<1>4. r \in Replies /\ r.id = m.id /\ r.answer \in {"accepted", "refused", "ignored"}
  BY <1>2 DEF Reply, Replies, Message, AnyData, buildStashResponse
<1> HIDE DEF r
<1>5. \A p \in Peer : NewestStored(p)'
  BY <1>1, <1>2, <1>3, NothingNewAccepted
<1>6. PICK what \in {"accepted", "refused", "ignored"} : what = r.answer
  BY <1>4
<1> QED BY <1>1, <1>2, <1>3, <1>4, <1>5, <1>6, HandleFrame

(* A store that replaces a newer stash belongs to a request that was given   *)
(* up: every other one is handled before the next call is made.              *)
LEMMA StoreInv ==
  ASSUME StashInv, NEW m \in admitted, store(m)
  PROVE  StashInv'
<1>1. /\ m.kind = "stash:store" /\ admitted' = admitted \ {m}
      /\ stored' = [stored EXCEPT ![m.to] = [data |-> m.data, call |-> m.id]]
      /\ replies' = replies \cup {Reply(m.id, m.to, "accepted", NoData)}
      /\ Handled(m, "accepted")
      /\ UNCHANGED <<ownerVars, runtimeVars, requests, others>>
  BY DEF store
<1>2. StashTypes /\ Open(m) /\ m \notin requests
  BY <1>1 DEF StashInv, UnderWayOnce
<1>3. m \in Message
  BY <1>1, <1>2 DEF StashTypes, StrangerRequest
<1> DEFINE r == Reply(m.id, m.to, "accepted", NoData)
<1>4. r \in Replies /\ r.id = m.id /\ r.answer = "accepted"
  BY <1>3 DEF Reply, Replies, Message, AnyData
<1> HIDE DEF r
<1>5. stored' \in [Peer -> [data : AnyData, call : CallId \cup {NoId}]]
  BY <1>1, <1>2, <1>3 DEF StashTypes, Message
<1>6. /\ m.id \in CallId /\ m.to \in Peer /\ stored'[m.to].call = m.id
      /\ \A p \in Peer \ {m.to} : stored'[p] = stored[p]
      /\ call[m.id].to = m.to /\ call[m.id].kind = "stash:store"
      /\ call[m.id].phase # "unused" /\ handled[m.id] = Nothing
  BY <1>1, <1>2, <1>3 DEF StashTypes, Message, Open, RequestOf
<1>7. \A i \in CallId : handled'[i] = "accepted" => handled[i] = "accepted" \/ i = m.id
  BY <1>1, <1>2 DEF Handled, StashTypes
<1>8. UNCHANGED call /\ \A p : NothingGivenUp(p)' => NothingGivenUp(p)
  BY <1>1 DEF runtimeVars, NothingGivenUp
<1>9. ASSUME NEW p \in Peer \ {m.to} PROVE NewestStored(p)'
  <2>1. NewestStored(p) /\ stored'[p] = stored[p]
    BY <1>6 DEF StashInv
  <2>2. \A i \in CallId : call[i].to = p /\ handled'[i] = "accepted" => handled[i] = "accepted"
    BY <1>6, <1>7
  <2> QED BY <1>8, <2>1, <2>2 DEF NewestStored
<1>10. NewestStored(m.to)'
  <2> SUFFICES ASSUME NothingGivenUp(m.to), NEW i \in CallId, handled[i] = "accepted" \/ i = m.id
               PROVE  m.id >= i
    BY <1>6, <1>7, <1>8 DEF NewestStored
  <2>1. m.id = job.call
    <3>1. CallOK(m.id) /\ call[m.id].outcome \notin {"failed", "gone"}
      BY <1>6 DEF StashInv, NothingGivenUp
    <3> QED BY <3>1, <1>6 DEF CallOK
  <2>2. m.id = NextCall - 1 /\ NextCall \in Nat
    BY <2>1, <1>6, NextCallIsNew DEF CallId, NoId
  <2>3. CASE i = m.id
    BY <2>3, <1>6, StashAssumption DEF CallId
  <2>4. CASE handled[i] = "accepted"
    <3>1. call[i].phase # "unused"
      BY <2>4 DEF StashInv, CallOK, Nothing
    <3>2. i < NextCall
      BY <3>1, NextCallIsNew
    <3> QED BY <2>2, <3>2, <1>6 DEF CallId
  <2> QED BY <2>3, <2>4
<1>11. \A p \in Peer : NewestStored(p)'
  BY <1>9, <1>10
<1>12. \A q \in replies' : q \in replies \/ (q \in Replies /\ q.id = m.id /\ q.answer = "accepted")
  BY <1>1, <1>4 DEF r
<1>13. requests' \subseteq requests \ {m} /\ admitted' \subseteq admitted \ {m}
  BY <1>1, <1>2
<1> QED BY <1>1, <1>2, <1>5, <1>11, <1>12, <1>13, HandleFrame

(* A step of a peer that handles no request of the owner: strangers' stashes *)
(* come and go, replies that answer no call are sent, a stash is lost.       *)
LEMMA PeerFrame ==
  ASSUME StashInv, UNCHANGED <<ownerVars, runtimeVars, requests, handled>>,
         \A m \in admitted' :
           m \in admitted \/ \E p \in Peer, s \in Stranger : m = StrangerRequest(p, s),
         \A r \in replies' : r \in replies \/ (r \in Replies /\ r.id = NoId),
         stored' \in [Peer -> [data : AnyData, call : CallId \cup {NoId}]],
         \A p \in Peer : stored'[p] \in {stored[p], NoStash},
         others' \in [Peer -> SUBSET Stranger]
  PROVE  StashInv'
<1>1. UNCHANGED <<myStash, confidants, job, recovering, version, call, pending, resolving, chan>>
  BY DEF ownerVars, runtimeVars
<1>2. /\ StashTypes /\ InOrder /\ UnderWayOnce /\ AnswersTrue /\ \A i \in CallId : CallOK(i)
      /\ \A p \in confidants \cup job.chosen : SaidYes(p)
      /\ \A p \in Peer : NewestStored(p)
  BY DEF StashInv
<1>3. StashTypes'
  <2>1. replies' \in SUBSET Replies
    BY <1>2 DEF StashTypes
  <2> QED BY <1>1, <1>2, <2>1 DEF StashTypes
<1>4. InOrder' /\ AnswersTrue'
  BY <1>1, <1>2 DEF InOrder, Used, AnswersTrue
<1>5. UnderWayOnce'
  <2>1. \A m : Open(m) => Open(m)'
    BY <1>1 DEF Open, RequestOf
  <2>2. \A m \in admitted' : m \in admitted \/ m.kind = "stranger"
    BY DEF StrangerRequest
  <2>3. \A m \in requests : m.kind # "stranger"
    BY <1>2 DEF StashTypes, Message
  <2> QED BY <1>2, <2>1, <2>2, <2>3 DEF UnderWayOnce
<1>6. \A i \in CallId : CallOK(i)'
  BY <1>1, <1>2 DEF CallOK
<1>7. \A p \in confidants' \cup job'.chosen : SaidYes(p)'
  BY <1>1, <1>2 DEF SaidYes
<1>8. \A p \in Peer : NewestStored(p)'
  BY <1>1, <1>2 DEF NewestStored, NothingGivenUp
<1> QED BY <1>3, <1>4, <1>5, <1>6, <1>7, <1>8 DEF StashInv

(* A stranger's stash is admitted and stored, or a peer pushes what it       *)
(* stores for the owner, or restarts.                                        *)
LEMMA PeerInv ==
  ASSUME StashInv, NEW p \in Peer,
         \/ \E s \in Stranger : ReceiveStranger(p, s) \/ storeStranger(p, s)
         \/ checkAndPushStash(p)
         \/ RestartPeer(p)
  PROVE  StashInv'
<1>1. /\ StashTypes
      /\ stored \in [Peer -> [data : AnyData, call : CallId \cup {NoId}]]
      /\ others \in [Peer -> SUBSET Stranger]
  BY DEF StashInv, StashTypes
<1>2. ASSUME NEW s \in Stranger, ReceiveStranger(p, s) PROVE StashInv'
  <2>1. /\ admitted' = admitted \cup {StrangerRequest(p, s)}
        /\ UNCHANGED <<ownerVars, runtimeVars, requests, replies, handled, peerVars>>
    BY <1>2 DEF ReceiveStranger
  <2> QED BY <1>1, <2>1, PeerFrame DEF peerVars
<1>3. ASSUME NEW s \in Stranger, storeStranger(p, s) PROVE StashInv'
  <2>1. /\ admitted' = admitted \ {StrangerRequest(p, s)}
        /\ others' = [others EXCEPT ![p] = @ \cup {s}]
        /\ UNCHANGED <<ownerVars, runtimeVars, requests, replies, handled, stored>>
    BY <1>3 DEF storeStranger
  <2>2. others' \in [Peer -> SUBSET Stranger]
    BY <1>1, <2>1
  <2> QED BY <1>1, <2>1, <2>2, PeerFrame
<1>4. ASSUME checkAndPushStash(p) PROVE StashInv'
  <2> DEFINE r == buildStashResponse(NoId, p)
  <2>1. /\ replies' = replies \cup {r}
        /\ UNCHANGED <<ownerVars, runtimeVars, requests, admitted, handled, stored, others>>
    BY <1>4 DEF checkAndPushStash, PushTo
  <2>2. r \in Replies /\ r.id = NoId
    BY <1>1 DEF Reply, Replies, AnyData, buildStashResponse
  <2> HIDE DEF r
  <2> QED BY <1>1, <2>1, <2>2, PeerFrame
<1>5. ASSUME RestartPeer(p) PROVE StashInv'
  <2>1. /\ stored' = [stored EXCEPT ![p] = NoStash] /\ others' = [others EXCEPT ![p] = {}]
        /\ admitted' = {m \in admitted : m.to # p}
        /\ UNCHANGED <<ownerVars, runtimeVars, requests, replies, handled>>
    BY <1>5 DEF RestartPeer
  <2>2. NoStash \in [data : AnyData, call : CallId \cup {NoId}]
    BY DEF NoStash, AnyData
  <2>3. /\ stored' \in [Peer -> [data : AnyData, call : CallId \cup {NoId}]]
        /\ \A q \in Peer : stored'[q] \in {stored[q], NoStash}
        /\ others' \in [Peer -> SUBSET Stranger]
    BY <1>1, <2>1, <2>2
  <2> QED BY <2>1, <2>3, PeerFrame
<1> QED BY <1>2, <1>3, <1>4, <1>5

-----------------------------------------------------------------------------
(* The invariant holds at all times. *)
THEOREM StashInvariant == StashSpec => []StashInv
<1>1. StashInit => StashInv
  BY InitInv
<1>2. StashInv /\ [StashNext]_vars => StashInv'
  <2> SUFFICES ASSUME StashInv, [StashNext]_vars PROVE StashInv'
    OBVIOUS
  <2>1. CASE SetStashData \/ RecoverFromAny \/ Finish \/ RestartOwner
    BY <2>1, SetStashDataInv, RecoverFromAnyInv, FinishInv, RestartOwnerInv
  <2>2. CASE \E p \in Peer : CallNext(p) \/ checkAndPushStash(p) \/ RestartPeer(p)
    BY <2>2, CallNextInv, PeerInv
  <2>3. CASE \E i \in CallId :
               EmitDone(i) \/ EmitFail(i) \/ ReportFailure(i) \/ reapLoop(i) \/ Returned(i)
    BY <2>3, EmitDoneInv, EmitFailInv, ReportFailureInv, ReapInv, ReturnedInv
  <2>4. CASE \E r \in replies : Resolve(r) \/ handleResponse(r)
    BY <2>4, ResolveInv, PushedInv
  <2>5. CASE \E r \in resolving : Deliver(r)
    BY <2>5, DeliverInv
  <2>6. CASE \E data \in recovering : handleRecoveryPayload(data)
    BY <2>6, PushedInv
  <2>7. CASE \E m \in requests, keyKnown \in BOOLEAN : ReceiveStore(m, keyKnown)
    BY <2>7, ReceiveStoreInv
  <2>8. CASE \E m \in requests : handleRequest(m)
    BY <2>8, HandleRequestInv
  <2>9. CASE \E m \in admitted : store(m)
    BY <2>9, StoreInv
  <2>10. CASE \E p \in Peer, s \in Stranger : ReceiveStranger(p, s) \/ storeStranger(p, s)
    BY <2>10, PeerInv
  <2>11. CASE UNCHANGED vars
    <3>1. UNCHANGED <<ownerVars, runtimeVars, requests, admitted, replies, handled, stored, others>>
      BY <2>11 DEF vars, netVars, peerVars
    <3>2. /\ stored \in [Peer -> [data : AnyData, call : CallId \cup {NoId}]]
          /\ others \in [Peer -> SUBSET Stranger]
      BY DEF StashInv, StashTypes
    <3> QED BY <3>1, <3>2, PeerFrame
  <2> QED BY <2>1, <2>2, <2>3, <2>4, <2>5, <2>6, <2>7, <2>8, <2>9, <2>10, <2>11 DEF StashNext
<1> QED BY <1>1, <1>2, PTL DEF StashSpec

(* Every variable keeps its type: what is stored, chosen and waited for is   *)
(* the owner's data, one of its peers, and one of its calls.                 *)
THEOREM StashTypeCorrect == StashSpec => []StashTypeOK
<1>1. StashInv => StashTypeOK
  <2> SUFFICES ASSUME StashInv PROVE StashTypeOK
    OBVIOUS
  <2>1. StashTypes /\ AnswersTrue
    BY DEF StashInv
  <2>2. \A i \in CallId : call[i].phase \in Phase
    BY <2>1 DEF StashTypes, Calls
  <2>3. \A p \in Peer : stored[p].data \in AnyData /\ others[p] \subseteq Stranger
    BY <2>1 DEF StashTypes
  <2>4. job.op \in JobOp /\ job.call \in CallId \cup {NoId}
    BY <2>1 DEF StashTypes, Job
  <2> QED BY <2>1, <2>2, <2>3, <2>4 DEF StashTypes, StashTypeOK, AnswersTrue, AnyData, JobOp, Phase
<1> QED BY <1>1, StashInvariant, PTL

(* A registered call has an empty channel, so the reaper's send under the    *)
(* registry's lock never waits (CallRegistry).                               *)
THEOREM ReaperIsFree == StashSpec => []ReaperNeverBlocks
<1>1. StashInv => ReaperNeverBlocks
  BY DEF StashInv, StashTypes, CallOK, ReaperNeverBlocks
<1> QED BY <1>1, StashInvariant, PTL

(* As long as no request to a peer was given up, the peer's stash is never   *)
(* older than the newest one it acknowledged (StoreWith).                    *)
THEOREM AcknowledgedStashStays == StashSpec => []AcknowledgedStays
<1>1. StashInv => AcknowledgedStays
  <2> SUFFICES ASSUME StashInv, NEW p \in Peer, NEW i \in CallId,
                      stored[p] # NoStash, call[i].to = p, call[i].kind = "stash:store",
                      call[i].outcome = "accepted",
                      \A k \in CallId : call[k].to = p => call[k].outcome \notin {"failed", "gone"}
               PROVE  stored[p].call >= i
    BY DEF AcknowledgedStays
  <2>1. handled[i] = "accepted"
    BY DEF StashInv, CallOK
  <2> QED BY <2>1 DEF StashInv, NewestStored, NothingGivenUp
<1> QED BY <1>1, StashInvariant, PTL

(* Every confidant has said yes to a stash of the owner                      *)
(* (SelectConfidantsAutomatically).                                          *)
THEOREM ConfidantsSaidYes == StashSpec => []ConfidantsAccepted
<1>1. StashInv => ConfidantsAccepted
  BY DEF StashInv, SaidYes, ConfidantsAccepted
<1> QED BY <1>1, StashInvariant, PTL

-----------------------------------------------------------------------------
(* The calls implement CallService *)

Asked(i) == call[i].phase # "unused"

(* A step after which the same calls have been made, handled and returned    *)
(* is no step of the service.                                                *)
LEMMA ServiceStutter ==
  ASSUME handled' = handled,
         \A i \in CallId : (Asked(i)' <=> Asked(i)) /\ call'[i].outcome = call[i].outcome
  PROVE  UNCHANGED Service!vars
<1>1. [i \in CallId |-> call'[i].phase # "unused"] = [i \in CallId |-> call[i].phase # "unused"]
  BY DEF Asked
<1>2. [i \in CallId |-> call'[i].outcome] = [i \in CallId |-> call[i].outcome]
  OBVIOUS
<1> QED BY <1>1, <1>2 DEF Service!vars

(* Registering a call is making a request. *)
LEMMA ServiceAsk ==
  ASSUME StashInv, NEW p \in Peer, CallNext(p)
  PROVE  Service!CallServiceNext
<1>0. PICK n : n = NextCall
  OBVIOUS
<1>1. PICK c : /\ n \in CallId /\ call' = [call EXCEPT ![n] = c] /\ handled' = handled
               /\ c.phase = "emitting" /\ c.outcome = Nothing
  <2>1. PICK kind, data : Call(p, kind, data)
    BY Zenon DEF CallNext, RequestFrom, StoreWith
  <2> DEFINE c == [phase |-> "emitting", to |-> p, kind |-> kind, data |-> data, outcome |-> Nothing]
  <2>2. n \in CallId /\ call' = [call EXCEPT ![n] = c] /\ handled' = handled
    BY <1>0, <2>1 DEF Call
  <2>3. c.phase = "emitting" /\ c.outcome = Nothing
    OBVIOUS
  <2> HIDE DEF c
  <2> QED BY <2>2, <2>3
<1>2. /\ call[n] = NoCall /\ call \in [CallId -> Calls]
  BY <1>0, <1>1, NextCallIsNew DEF StashInv, CallOK, StashTypes
<1>3. call[n].phase = "unused" /\ call[n].outcome = Nothing
  BY <1>2 DEF NoCall
<1>4. call'[n] = c /\ \A i \in CallId \ {n} : call'[i] = call[i]
  BY <1>1, <1>2
<1>5. [i \in CallId |-> call'[i].outcome] = [i \in CallId |-> call[i].outcome]
  BY <1>1, <1>3, <1>4
<1>6. [i \in CallId |-> call'[i].phase # "unused"]
        = [[i \in CallId |-> call[i].phase # "unused"] EXCEPT ![n] = TRUE]
  <2>1. call'[n].phase # "unused"
    BY <1>1, <1>4
  <2> QED BY <1>1, <1>4, <2>1
<1>7. ~[i \in CallId |-> call[i].phase # "unused"][n]
  BY <1>1, <1>3
<1>8. Service!Ask(n)
  BY <1>1, <1>5, <1>6, <1>7 DEF Service!Ask
<1> QED BY <1>1, <1>8 DEF Service!CallServiceNext

(* A peer answers a request that was made and not answered before. *)
LEMMA ServiceSay ==
  ASSUME StashInv, NEW m, Open(m), NEW what \in {"accepted", "refused", "ignored"},
         Handled(m, what), UNCHANGED call
  PROVE  Service!CallServiceNext
<1> DEFINE c == m.id
<1>1. c \in CallId /\ call[c].phase # "unused" /\ handled[c] = Nothing
  BY DEF Open
<1>2. handled' = [handled EXCEPT ![c] = what]
  BY DEF Handled
<1> HIDE DEF c
<1>3. [i \in CallId |-> call[i].phase # "unused"][c]
  BY <1>1
<1>4. Service!Say(c, what)
  BY <1>1, <1>2, <1>3 DEF Service!Say, Nothing
<1>5. what \in Service!Answers
  BY DEF Service!Answers
<1> QED BY <1>1, <1>4, <1>5 DEF Service!CallServiceNext

(* The end of one call: with the peer's own answer, or with an error. *)
LEMMA ServiceReturn ==
  ASSUME StashInv, NEW i \in CallId, call[i].phase # "unused", call[i].outcome = Nothing,
         NEW what, call' = [call EXCEPT ![i] = [call[i] EXCEPT !.phase = "returned", !.outcome = what]],
         \/ what \in {"failed", "timeout", "gone"}
         \/ what \in {"accepted", "refused"} /\ what = handled[i],
         handled' = handled
  PROVE  Service!CallServiceNext
<1>1. call \in [CallId -> Calls] /\ call[i] \in Calls
  BY DEF StashInv, StashTypes
<1> DEFINE c == [call[i] EXCEPT !.phase = "returned", !.outcome = what]
<1>2. c.phase = "returned" /\ c.outcome = what
  BY <1>1 DEF Calls
<1>3. call' = [call EXCEPT ![i] = c]
  OBVIOUS
<1> HIDE DEF c
<1>4. call'[i] = c /\ \A k \in CallId \ {i} : call'[k] = call[k]
  BY <1>1, <1>3
<1>5. [k \in CallId |-> call'[k].phase # "unused"] = [k \in CallId |-> call[k].phase # "unused"]
  <2>1. \A k \in CallId : call'[k].phase # "unused" <=> call[k].phase # "unused"
    BY <1>2, <1>4
  <2> QED BY <2>1
<1>6. [k \in CallId |-> call'[k].outcome]
        = [[k \in CallId |-> call[k].outcome] EXCEPT ![i] = what]
  <2>1. \A k \in CallId : call'[k].outcome = IF k = i THEN what ELSE call[k].outcome
    BY <1>2, <1>4
  <2> QED BY <2>1
<1>7. /\ [k \in CallId |-> call[k].outcome][i] = "nothing"
      /\ [k \in CallId |-> call[k].phase # "unused"][i]
  BY DEF Nothing
<1>8. CASE what \in {"failed", "timeout", "gone"}
  <2>1. Service!GiveUp(i, what) /\ what \in Service!Errors
    BY <1>5, <1>6, <1>7, <1>8 DEF Service!GiveUp, Service!Errors
  <2> QED BY <2>1 DEF Service!CallServiceNext
<1>9. CASE what \in {"accepted", "refused"} /\ what = handled[i]
  <2>1. Service!Answer(i)
    BY <1>5, <1>6, <1>7, <1>9 DEF Service!Answer, Service!Answers
  <2> QED BY <2>1 DEF Service!CallServiceNext
<1> QED BY <1>8, <1>9

(* Every step of the stash service is a step of CallService or none. *)
LEMMA ServiceStep ==
  ASSUME StashInv, [StashNext]_vars
  PROVE  [Service!CallServiceNext]_(Service!vars)
<1>1. /\ StashTypes /\ \A i \in CallId : CallOK(i)
  BY DEF StashInv
<1>2. CASE UNCHANGED <<call, handled>>
  BY <1>2, ServiceStutter DEF Asked
<1>3. ASSUME NEW i \in CallId, NEW f, f # "unused", call[i].phase # "unused",
             call' = [call EXCEPT ![i].phase = f], handled' = handled
      PROVE  UNCHANGED Service!vars
  <2>1. PhaseOnly(i, f) /\ \A k \in CallId \ {i} : call'[k] = call[k]
    BY <1>1, <1>3, PhaseChange
  <2> QED BY <1>3, <2>1, ServiceStutter DEF Asked, PhaseOnly
<1>4. CASE \E i \in CallId : EmitDone(i) \/ EmitFail(i) \/ ReportFailure(i)
  <2>1. PICK i \in CallId : EmitDone(i) \/ EmitFail(i) \/ ReportFailure(i)
    BY <1>4
  <2>2. \E f \in {"waiting", "failing"} :
          /\ call[i].phase # "unused" /\ call' = [call EXCEPT ![i].phase = f]
          /\ handled' = handled
    BY <2>1, Zenon DEF EmitDone, EmitFail, ReportFailure, netVars
  <2> QED BY <1>3, <2>2
<1>5. CASE \E i \in CallId : Returned(i)
  <2>1. PICK i \in CallId : Returned(i)
    BY <1>5
  <2>2. /\ call[i].phase = "waiting" /\ chan[i][1] \in Result
        /\ chan[i][1].answer \in {"failed", "timeout"} \/ chan[i][1].answer = handled[i]
        /\ call' = [call EXCEPT ![i].phase = "returned", ![i].outcome = chan[i][1].answer]
        /\ handled' = handled
    BY <2>1, ReturnedFacts, Zenon DEF netVars
  <2> DEFINE what == chan[i][1].answer
  <2>3. what \in {"accepted", "refused", "failed", "timeout"}
    BY <2>2 DEF Result
  <2>4. call' = [call EXCEPT ![i] = [call[i] EXCEPT !.phase = "returned", !.outcome = what]]
    BY <2>2, <1>1 DEF StashTypes, Calls
  <2>5. call[i].outcome = Nothing /\ call[i].phase # "unused"
    BY <2>2, <1>1 DEF CallOK
  <2>6. what \in {"failed", "timeout"} \/ (what \in {"accepted", "refused"} /\ what = handled[i])
    BY <2>2, <2>3
  <2> HIDE DEF what
  <2>7. handled' = handled
    BY <2>2
  <2> QED BY <2>4, <2>5, <2>6, <2>7, ServiceReturn
<1>6. CASE RestartOwner
  <2> DEFINE open(i) == call[i].phase \notin {"unused", "returned"}
             over(i) == [call[i] EXCEPT !.phase = "returned", !.outcome = "gone"]
  <2>1. /\ handled' = handled
        /\ call' = [i \in CallId |-> IF open(i) THEN over(i) ELSE call[i]]
    BY <1>6 DEF RestartOwner, netVars
  <2>2. CASE \A i \in CallId : ~open(i)
    <3>1. call' = call
      BY <1>1, <2>1, <2>2 DEF StashTypes
    <3> QED BY <2>1, <3>1, <1>2
  <2>3. ASSUME NEW i \in CallId, open(i) PROVE Service!CallServiceNext
    <3>1. \A k \in CallId \ {i} : ~open(k)
      BY <1>1, <2>3 DEF CallOK
    <3>2. call[i].outcome = Nothing /\ call[i].phase # "unused"
      BY <1>1, <2>3 DEF CallOK
    <3>3. \A k \in CallId : call'[k] = IF k = i THEN over(i) ELSE call[k]
      BY <2>1, <2>3, <3>1
    <3>4. call' = [call EXCEPT ![i] = over(i)]
      <4>1. call \in [CallId -> Calls] /\ DOMAIN call' = CallId /\ call' = [k \in CallId |-> call'[k]]
        BY <1>1, <2>1 DEF StashTypes
      <4> HIDE DEF over, open
      <4> QED BY <3>3, <4>1
    <3> QED BY <2>1, <3>2, <3>4, ServiceReturn
  <2> QED BY <2>2, <2>3
<1>7. CASE \E m \in requests, keyKnown \in BOOLEAN : ReceiveStore(m, keyKnown)
  <2>1. PICK m \in requests, keyKnown \in BOOLEAN : ReceiveStore(m, keyKnown)
    BY <1>7
  <2>2. /\ \/ Handled(m, "ignored") \/ Handled(m, "refused") \/ handled' = handled
        /\ UNCHANGED call
    BY <2>1, Zenon DEF ReceiveStore, runtimeVars
  <2>3. Open(m)
    BY DEF StashInv, UnderWayOnce
  <2> QED BY <1>2, <2>2, <2>3, ServiceSay
<1>8. CASE \E m \in requests : handleRequest(m)
  <2>1. PICK m \in requests : handleRequest(m)
    BY <1>8
  <2> DEFINE r == buildStashResponse(m.id, m.to)
  <2>2. Handled(m, r.answer) /\ UNCHANGED call
    BY <2>1, Zenon DEF handleRequest, runtimeVars
  <2>3. Open(m) /\ r.answer \in {"accepted", "refused"}
    BY DEF StashInv, UnderWayOnce, buildStashResponse, Reply
  <2> HIDE DEF r
  <2> QED BY <2>2, <2>3, ServiceSay
<1>9. CASE \E m \in admitted : store(m)
  <2>1. PICK m \in admitted : store(m)
    BY <1>9
  <2>2. m.kind = "stash:store" /\ Handled(m, "accepted") /\ UNCHANGED call
    BY <2>1 DEF store, runtimeVars
  <2>3. Open(m)
    BY <2>2 DEF StashInv, UnderWayOnce
  <2> QED BY <2>2, <2>3, ServiceSay
<1>10. CASE \E p \in Peer : CallNext(p)
  BY <1>10, ServiceAsk
<1>11. CASE \/ SetStashData \/ RecoverFromAny \/ Finish
            \/ \E p \in Peer : checkAndPushStash(p) \/ RestartPeer(p)
            \/ \E data \in recovering : handleRecoveryPayload(data)
            \/ \E r \in replies : Resolve(r) \/ handleResponse(r)
            \/ \E r \in resolving : Deliver(r)
            \/ \E i \in CallId : reapLoop(i)
            \/ \E p \in Peer, s \in Stranger : ReceiveStranger(p, s) \/ storeStranger(p, s)
            \/ UNCHANGED vars
  <2>1. UNCHANGED <<call, handled>>
    BY <1>11, Zenon DEF SetStashData, RecoverFromAny, Finish, runtimeIdle, checkAndPushStash, PushTo,
       RestartPeer, handleRecoveryPayload, Resolve, handleResponse, Deliver, reapLoop,
       ReceiveStranger, storeStranger, vars, runtimeVars, netVars
  <2> QED BY <2>1, <1>2
<1> QED BY <1>4, <1>5, <1>6, <1>7, <1>8, <1>9, <1>10, <1>11 DEF StashNext

(* Runtime.Call keeps CallService's promise: a request is handled at most    *)
(* once, and the caller gets at most one result, the peer's own answer to    *)
(* that request or an error, whatever is lost, late or restarted.            *)
THEOREM CallsImplementService == StashSpec => CallsAreServed
<1>1. StashInit => Service!CallServiceInit
  <2> SUFFICES ASSUME StashInit PROVE Service!CallServiceInit
    OBVIOUS
  <2>1. \A i \in CallId : call[i].phase = "unused" /\ call[i].outcome = "nothing"
    BY DEF StashInit, NoCall, Nothing
  <2>2. [i \in CallId |-> call[i].phase # "unused"] = [i \in CallId |-> FALSE]
    BY <2>1
  <2>3. [i \in CallId |-> call[i].outcome] = [i \in CallId |-> "nothing"]
    BY <2>1
  <2>4. handled = [i \in CallId |-> "nothing"]
    BY DEF StashInit, Nothing
  <2> QED BY <2>2, <2>3, <2>4 DEF Service!CallServiceInit
<1>2. StashInv /\ [StashNext]_vars => [Service!CallServiceNext]_(Service!vars)
  BY ServiceStep
<1> QED BY <1>1, <1>2, StashInvariant, PTL DEF StashSpec, CallsAreServed, Service!CallServiceSpec
=============================================================================
