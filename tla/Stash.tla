------------------------------- MODULE Stash -------------------------------
(***************************************************************************)
(* The stash service (services/stash) of one owner and the peers it keeps  *)
(* its data with, over the runtime's calls (runtime/runtime.go, the        *)
(* CallRegistry of interfaces.go) and mesh HTTP.                           *)
(*                                                                         *)
(* The owner's goroutine makes one call at a time.  A request is a POST;   *)
(* the peer handles it before it answers the POST, and sends the reply in  *)
(* a POST of its own meanwhile.  The owner's POST can fail at any moment,  *)
(* whatever becomes of the request.  A message that is never received is a *)
(* lost one.  Peers handle requests concurrently.                          *)
(***************************************************************************)
EXTENDS Pipeline, FiniteSets, FiniteSetsExt

CONSTANTS
  Peer,          \* the naras that may become confidants
  Stranger,      \* other naras that store something with the same peers
  Target,        \* targetConfidants
  Limit,         \* StorageLimit
  MaxCalls, MaxVersions, MaxRestarts, MaxPushes   \* bounds

ASSUME StashAssumption ==
  /\ Target \in Nat \ {0} /\ Limit \in Nat \ {0}
  /\ MaxCalls \in Nat /\ MaxVersions \in Nat /\ MaxRestarts \in Nat /\ MaxPushes \in Nat

VARIABLES
  \* the owner's service
  myStash,     \* myStashData
  confidants,
  job,         \* what the owner's goroutine is doing
  recovering,  \* pushed stashes that passed the check, not yet taken over
  version,     \* how often SetStashData was called with new data
  \* the owner's runtime
  call,        \* call[i]: the i-th call
  pending,     \* CallRegistry.pending
  resolving,   \* replies taken out of pending, not yet in their channel
  chan,        \* chan[i]: the channel of call i, room for one result
  \* the network
  requests, admitted, replies,
  handled,     \* handled[i]: what the peer made of the request of call i
  \* the peers
  stored,      \* stored[p]: the owner's stash at p, and the call it came with
  others,      \* others[p]: the strangers p stores a stash for
  restarts, pushes

ownerVars == <<myStash, confidants, job, recovering, version>>
runtimeVars == <<call, pending, resolving, chan>>
netVars == <<requests, admitted, replies, handled>>
peerVars == <<stored, others, pushes>>
vars == <<ownerVars, runtimeVars, netVars, peerVars, restarts>>

Nothing == "nothing"
NoData == 0
Probe == MaxVersions + 1      \* the test data of SelectConfidantsAutomatically
Data == 1..MaxVersions
CallId == 1..MaxCalls
NoId == 0

NoJob == [op |-> "none", left |-> {}, online |-> {}, chosen |-> {}, call |-> NoId, data |-> NoData]
NoStash == [data |-> NoData, call |-> NoId]
NoCall == [phase |-> "unused", to |-> Nothing, kind |-> Nothing, data |-> NoData, outcome |-> Nothing]

StashInit ==
  /\ myStash = NoData /\ confidants = {} /\ job = NoJob /\ recovering = {} /\ version = 0
  /\ call = [i \in CallId |-> NoCall]
  /\ pending = {} /\ resolving = {} /\ chan = [i \in CallId |-> <<>>]
  /\ requests = {} /\ admitted = {} /\ replies = {} /\ handled = [i \in CallId |-> Nothing]
  /\ stored = [p \in Peer |-> NoStash] /\ others = [p \in Peer |-> {}]
  /\ restarts = 0 /\ pushes = 0

-----------------------------------------------------------------------------
(* Messages and the pipelines they go through. *)

MessageKind == {"stash:store", "stash:request", "stash:response"}

RegisterBehaviors == [kind \in MessageKind |-> MeshRequest]

\* The ledger adapter stores nothing and knows no id.
Env(reachable, keyKnown) ==
  [target |-> TRUE, reachable |-> reachable, keyKnown |-> keyKnown, signed |-> TRUE, seenID |-> FALSE,
   seenContent |-> FALSE, stores |-> TRUE, veryChill |-> FALSE, cares |-> TRUE]

Emits ==
  [kind \in MessageKind, reachable \in BOOLEAN |->
     Run(buildEmitPipeline(RegisterBehaviors[kind]), Env(reachable, TRUE)).result]

Receives ==
  [kind \in MessageKind, keyKnown \in BOOLEAN |->
     Run(buildReceivePipeline(RegisterBehaviors[kind]), Env(TRUE, keyKnown)).result]

Reply(id, from, answer, data) == [id |-> id, from |-> from, answer |-> answer, data |-> data]

\* Mutant: the call the stash came with is sent for the stash.
buildStashResponseWithCall(id, p) ==
  IF stored[p] = NoStash THEN Reply(id, p, "refused", NoData)
  ELSE Reply(id, p, "accepted", stored[p].call)

buildStashResponse(id, p) ==
  IF stored[p] = NoStash THEN Reply(id, p, "refused", NoData)
  ELSE Reply(id, p, "accepted", stored[p].data)

-----------------------------------------------------------------------------
(* The owner's calls. *)

\* The id of the next call; ids are never used again.
NextCall == Cardinality({i \in CallId : call[i].phase # "unused"}) + 1

\* Register, then the pipeline up to the POST.
Call(p, kind, data) ==
  /\ NextCall \in CallId
  /\ call' = [call EXCEPT ![NextCall] =
                [phase |-> "emitting", to |-> p, kind |-> kind, data |-> data, outcome |-> Nothing]]
  /\ pending' = pending \cup {NextCall}
  /\ requests' = requests \cup {[id |-> NextCall, to |-> p, kind |-> kind, data |-> data]}
  /\ UNCHANGED <<resolving, chan, admitted, replies, handled>>

\* The POST is answered once the peer's handler has returned.
EmitDone(i) ==
  /\ call[i].phase = "emitting" /\ handled[i] # Nothing
  /\ Emits[call[i].kind, TRUE] = "continue"
  /\ call' = [call EXCEPT ![i].phase = "waiting"]
  /\ UNCHANGED <<ownerVars, pending, resolving, chan, netVars, peerVars, restarts>>

\* Emit failed: Cancel, and then the error has to go into the channel.
EmitFail(i) ==
  /\ call[i].phase = "emitting" /\ Emits[call[i].kind, FALSE] = "fail"
  /\ pending' = pending \ {i}
  /\ call' = [call EXCEPT ![i].phase = "failing"]
  /\ UNCHANGED <<ownerVars, resolving, chan, netVars, peerVars, restarts>>

ReportFailure(i) ==
  /\ call[i].phase = "failing" /\ chan[i] = <<>>
  /\ chan' = [chan EXCEPT ![i] = <<[answer |-> "failed", data |-> NoData]>>]
  /\ call' = [call EXCEPT ![i].phase = "waiting"]
  /\ UNCHANGED <<ownerVars, pending, resolving, netVars, peerVars, restarts>>

\* Mutant: any reply of the nara that was called is taken.
AnswersSender(r, i) == r.from = call[i].to

\* InReplyTo.
AnswersTo(r, i) == r.id = i

\* Mutant: the entry of an answered call stays in the registry.
ResolveKeepingEntry(r) ==
  \E i \in pending :
    /\ AnswersTo(r, i) /\ \A q \in resolving : q.id # i
    /\ resolving' = resolving \cup {[r EXCEPT !.id = i]} /\ replies' = replies \ {r}
    /\ UNCHANGED <<ownerVars, call, pending, chan, requests, admitted, handled, peerVars, restarts>>

\* A reply to a pending call, in two steps: out of the registry, and, with the
\* registry's lock released, into the channel.
Resolve(r) ==
  \E i \in pending :
    /\ AnswersTo(r, i)
    /\ pending' = pending \ {i}
    /\ resolving' = resolving \cup {[r EXCEPT !.id = i]} /\ replies' = replies \ {r}
    /\ UNCHANGED <<ownerVars, call, chan, requests, admitted, handled, peerVars, restarts>>

Deliver(r) ==
  /\ r \in resolving /\ chan[r.id] = <<>>
  /\ chan' = [chan EXCEPT ![r.id] = <<[answer |-> r.answer, data |-> r.data]>>]
  /\ resolving' = resolving \ {r}
  /\ UNCHANGED <<ownerVars, call, pending, netVars, peerVars, restarts>>

\* Mutant: an expired call is forgotten without a word to the caller.
reapLoopSilently(i) ==
  /\ i \in pending /\ call[i].phase = "waiting" /\ chan[i] = <<>>
  /\ pending' = pending \ {i}
  /\ UNCHANGED <<ownerVars, call, resolving, chan, netVars, peerVars, restarts>>

\* Calls wait for 30 seconds, a POST for 5: nothing expires while it is emitted.
reapLoop(i) ==
  /\ i \in pending /\ call[i].phase = "waiting" /\ chan[i] = <<>>
  /\ chan' = [chan EXCEPT ![i] = <<[answer |-> "timeout", data |-> NoData]>>]
  /\ pending' = pending \ {i}
  /\ UNCHANGED <<ownerVars, call, resolving, netVars, peerVars, restarts>>

-----------------------------------------------------------------------------
(* The owner's service. *)

runtimeIdle == UNCHANGED <<runtimeVars, netVars>>

DistributeToConfidants(to, data) == [NoJob EXCEPT !.op = "distribute", !.left = to, !.data = data]

\* With too few confidants, those there are are dropped before others are tried.
SetStashDataWith(data, online) ==
  /\ myStash' = data
  /\ IF Cardinality(confidants) >= Target
     THEN job' = DistributeToConfidants(confidants, data) /\ UNCHANGED confidants
     ELSE /\ confidants' = {}
          /\ job' = IF Cardinality(online) < Target THEN NoJob
                    ELSE [NoJob EXCEPT !.op = "first", !.left = online, !.online = online]

OnlinePeers == SUBSET Peer

SetStashData ==
  /\ job.op = "none" /\ version < MaxVersions
  /\ version' = version + 1
  /\ \E online \in OnlinePeers : SetStashDataWith(version', online)
  /\ UNCHANGED recovering /\ runtimeIdle /\ UNCHANGED <<peerVars, restarts>>

\* What was recovered is distributed again.
Recovered(data) == \E online \in OnlinePeers : SetStashDataWith(data, online)

RecoverFromAny ==
  /\ job.op = "none" /\ confidants # {}
  /\ job' = [NoJob EXCEPT !.op = "recover", !.left = confidants]
  /\ UNCHANGED <<myStash, confidants, recovering, version>> /\ runtimeIdle /\ UNCHANGED <<peerVars, restarts>>

\* The order in which a list of peers is gone through is left open.
StoreWith(p) == Call(p, "stash:store", IF job.op = "distribute" THEN job.data ELSE Probe)

RequestFrom(p) == Call(p, "stash:request", NoData)

CallNext(p) ==
  /\ job.op # "none" /\ job.call = NoId /\ p \in job.left
  /\ job.op = "rest" => Cardinality(job.chosen) < Target
  /\ IF job.op = "recover" THEN RequestFrom(p) ELSE StoreWith(p)
  /\ job' = [job EXCEPT !.call = NextCall, !.left = @ \ {p}]
  /\ UNCHANGED <<myStash, confidants, recovering, version, peerVars, restarts>>

\* SelectConfidantsAutomatically: the first confidant has been found.  Those
\* that declined are candidates again.
FirstFound(j) == [j EXCEPT !.op = "rest", !.left = j.online \ j.chosen, !.call = NoId]

\* Mutant: whatever is not a refusal counts as an acknowledgement.
AcceptedUnlessRefused(answer) == answer # "refused"

Accepted(answer) == answer = "accepted"

\* The result of the job's call is there.
Returned(i) ==
  LET result == chan[i][1]
      ok == Accepted(result.answer)
      chosen == IF ok THEN job.chosen \cup {call[i].to} ELSE job.chosen
  IN /\ i = job.call /\ call[i].phase = "waiting" /\ chan[i] # <<>>
     /\ call' = [call EXCEPT ![i].phase = "returned", ![i].outcome = result.answer]
     /\ chan' = [chan EXCEPT ![i] = <<>>]
     /\ IF job.op = "recover" /\ ok
        THEN Recovered(result.data)
        ELSE /\ job' = IF job.op = "first" /\ ok THEN FirstFound([job EXCEPT !.chosen = chosen])
                       ELSE [job EXCEPT !.chosen = chosen, !.call = NoId]
             /\ UNCHANGED <<myStash, confidants>>
     /\ UNCHANGED <<recovering, version, pending, resolving, netVars, peerVars, restarts>>

\* The loop of the job is over: enough confidants, or no peer left to ask.
Finish ==
  LET enough == job.op = "rest" /\ Cardinality(job.chosen) >= Target
  IN /\ job.op # "none" /\ job.call = NoId /\ (enough \/ job.left = {})
     /\ IF enough THEN confidants' = job.chosen /\ job' = DistributeToConfidants(job.chosen, myStash)
        ELSE job' = NoJob /\ UNCHANGED confidants
     /\ UNCHANGED <<myStash, recovering, version>> /\ runtimeIdle /\ UNCHANGED <<peerVars, restarts>>

\* A stash nobody asked for, or whose call is over: the check and the write of
\* handleResponseV1 are not one step.
handleResponse(r) ==
  /\ \A i \in pending : ~AnswersTo(r, i)
  /\ Receives["stash:response", TRUE] = "continue"
  /\ replies' = replies \ {r}
  /\ recovering' = IF myStash = NoData /\ r.data # NoData THEN recovering \cup {r.data} ELSE recovering
  /\ UNCHANGED <<myStash, confidants, job, version, runtimeVars, requests, admitted, handled, peerVars, restarts>>

handleRecoveryPayload(data) ==
  /\ data \in recovering
  /\ myStash' = data /\ recovering' = recovering \ {data}
  /\ UNCHANGED <<confidants, job, version, runtimeVars, netVars, peerVars, restarts>>

\* Everything the owner has is in memory; all its peers hear that it is back.
RestartOwner ==
  /\ restarts < MaxRestarts /\ restarts' = restarts + 1
  /\ myStash' = NoData /\ confidants' = {} /\ job' = NoJob /\ recovering' = {}
  /\ call' = [i \in CallId |->
                IF call[i].phase \in {"unused", "returned"} THEN call[i]
                ELSE [call[i] EXCEPT !.phase = "returned", !.outcome = "gone"]]
  /\ pending' = {} /\ resolving' = {} /\ chan' = [i \in CallId |-> <<>>]
  /\ UNCHANGED <<version, netVars, peerVars>>

-----------------------------------------------------------------------------
(* The peers. *)

OwnersStored(p) == Cardinality(others[p]) + (IF stored[p] = NoStash THEN 0 ELSE 1)

canStore(p, exists) == exists \/ OwnersStored(p) < Limit

Handled(m, what) == handled' = [handled EXCEPT ![m.id] = what]

\* A peer that does not know the owner's key answers the POST and drops the
\* message; otherwise the check of the limit is a step of its own.
ReceiveStore(m, keyKnown) ==
  /\ m \in requests /\ m.kind = "stash:store"
  /\ requests' = requests \ {m}
  /\ \/ /\ Receives[m.kind, keyKnown] = "drop"
        /\ Handled(m, "ignored") /\ UNCHANGED <<admitted, replies>>
     \/ /\ Receives[m.kind, keyKnown] = "continue" /\ canStore(m.to, stored[m.to] # NoStash)
        /\ admitted' = admitted \cup {m} /\ UNCHANGED <<replies, handled>>
     \/ /\ Receives[m.kind, keyKnown] = "continue" /\ ~canStore(m.to, stored[m.to] # NoStash)
        /\ replies' = replies \cup {Reply(m.id, m.to, "refused", NoData)}
        /\ Handled(m, "refused") /\ UNCHANGED admitted
  /\ UNCHANGED <<ownerVars, runtimeVars, peerVars, restarts>>

\* Mutant: a stash that is there is not replaced.
storeOnlyNew(m) ==
  /\ m \in admitted /\ m.kind = "stash:store"
  /\ admitted' = admitted \ {m}
  /\ stored' = IF stored[m.to] # NoStash THEN stored
               ELSE [stored EXCEPT ![m.to] = [data |-> m.data, call |-> m.id]]
  /\ replies' = replies \cup {Reply(m.id, m.to, "accepted", NoData)} /\ Handled(m, "accepted")
  /\ UNCHANGED <<ownerVars, runtimeVars, requests, others, pushes, restarts>>

store(m) ==
  /\ m \in admitted /\ m.kind = "stash:store"
  /\ admitted' = admitted \ {m}
  /\ stored' = [stored EXCEPT ![m.to] = [data |-> m.data, call |-> m.id]]
  /\ replies' = replies \cup {Reply(m.id, m.to, "accepted", NoData)} /\ Handled(m, "accepted")
  /\ UNCHANGED <<ownerVars, runtimeVars, requests, others, pushes, restarts>>

\* The same two steps for a stranger's stash; a stranger has one confidant.
StrangerRequest(p, s) == [id |-> NoId, to |-> p, kind |-> "stranger", data |-> s]

ReceiveStranger(p, s) ==
  /\ \A q \in Peer : s \notin others[q] /\ StrangerRequest(q, s) \notin admitted
  /\ canStore(p, FALSE)
  /\ admitted' = admitted \cup {StrangerRequest(p, s)}
  /\ UNCHANGED <<ownerVars, runtimeVars, requests, replies, handled, peerVars, restarts>>

storeStranger(p, s) ==
  /\ StrangerRequest(p, s) \in admitted
  /\ admitted' = admitted \ {StrangerRequest(p, s)}
  /\ others' = [others EXCEPT ![p] = @ \cup {s}]
  /\ UNCHANGED <<ownerVars, runtimeVars, requests, replies, handled, stored, pushes, restarts>>

handleRequest(m) ==
  /\ m \in requests /\ m.kind = "stash:request"
  /\ Receives[m.kind, TRUE] = "continue"
  /\ requests' = requests \ {m}
  /\ LET r == buildStashResponse(m.id, m.to)
     IN replies' = replies \cup {r} /\ Handled(m, r.answer)
  /\ UNCHANGED <<ownerVars, runtimeVars, admitted, peerVars, restarts>>

PushTo(p) ==
  /\ stored[p] # NoStash
  /\ replies' = replies \cup {buildStashResponse(NoId, p)}
  /\ UNCHANGED <<ownerVars, runtimeVars, requests, admitted, handled, stored, others, restarts>>

\* A hey-there of the owner, at any time, answered after a delay.  (The same
\* push answers a stash-refresh, which no nara of this version sends.)
checkAndPushStash(p) == pushes < MaxPushes /\ pushes' = pushes + 1 /\ PushTo(p)

RestartPeer(p) ==
  /\ restarts < MaxRestarts /\ restarts' = restarts + 1
  /\ stored' = [stored EXCEPT ![p] = NoStash] /\ others' = [others EXCEPT ![p] = {}]
  /\ admitted' = {m \in admitted : m.to # p}
  /\ UNCHANGED <<ownerVars, runtimeVars, requests, replies, handled, pushes>>

-----------------------------------------------------------------------------
StashNext ==
  \/ SetStashData \/ RecoverFromAny \/ Finish \/ RestartOwner
  \/ \E p \in Peer : CallNext(p) \/ checkAndPushStash(p) \/ RestartPeer(p)
  \/ \E i \in CallId : EmitDone(i) \/ EmitFail(i) \/ ReportFailure(i) \/ reapLoop(i) \/ Returned(i)
  \/ \E r \in replies : Resolve(r) \/ handleResponse(r)
  \/ \E r \in resolving : Deliver(r)
  \/ \E data \in recovering : handleRecoveryPayload(data)
  \/ \E m \in requests, keyKnown \in BOOLEAN : ReceiveStore(m, keyKnown)
  \/ \E m \in requests : handleRequest(m)
  \/ \E m \in admitted : store(m)
  \/ \E p \in Peer, s \in Stranger : ReceiveStranger(p, s) \/ storeStranger(p, s)

\* A POST ends, one way or the other, within 5 seconds; the owner's goroutine,
\* its reaper and the receiver of replies keep running.  Nothing is asked of
\* the peers or the network.
CallerStep == \E i \in CallId : EmitDone(i) \/ EmitFail(i) \/ ReportFailure(i) \/ Returned(i)

StashFairness ==
  /\ WF_vars(CallerStep)
  /\ WF_vars(\E i \in CallId : reapLoop(i))
  /\ WF_vars(\E r \in resolving : Deliver(r))

StashSpec == StashInit /\ [][StashNext]_vars /\ StashFairness

-----------------------------------------------------------------------------
(* Properties. *)

StashTypeOK ==
  /\ myStash \in Data \cup {NoData, Probe} /\ confidants \subseteq Peer
  /\ job.op \in {"none", "first", "rest", "distribute", "recover"} /\ job.call \in CallId \cup {NoId}
  /\ \A i \in CallId : call[i].phase \in {"unused", "emitting", "failing", "waiting", "returned"}
  /\ pending \subseteq CallId /\ \A r \in resolving : r.id \in CallId
  /\ \A p \in Peer : stored[p].data \in Data \cup {NoData, Probe} /\ others[p] \subseteq Stranger

\* The reaper sends into a channel with room for one result while it holds the
\* registry's lock; were the channel full, every later call would hang.  So a
\* call that is still registered has an empty channel (CallRegistry).
ReaperNeverBlocks == \A i \in pending : chan[i] = <<>>

\* What StoreWith has acknowledged is not undone by an older request: at every
\* peer that kept running the stash is at least as new as the newest one it
\* acknowledged, as long as no earlier request to it was given up while it may
\* still be under way (a POST that failed, or the owner's restart).
AcknowledgedStays ==
  \A p \in Peer, i \in CallId :
    /\ stored[p] # NoStash
    /\ call[i].to = p /\ call[i].kind = "stash:store" /\ call[i].outcome = "accepted"
    /\ \A k \in CallId : call[k].to = p => call[k].outcome \notin {"failed", "gone"}
    => stored[p].call >= i

\* The configured confidants have all said yes, and a job that distributes goes
\* to all of them: nobody becomes a confidant by a failed or unanswered probe
\* (SelectConfidantsAutomatically).
ConfidantsAccepted ==
  \A p \in confidants :
    \E i \in CallId : call[i].to = p /\ call[i].kind = "stash:store" /\ handled[i] = "accepted"

\* A call hangs only when its emit failed although the peer's reply has already
\* come: the reply fills the channel and Call can not send its error.
Hangs(i) == call[i].phase = "failing" /\ chan[i] # <<>> /\ handled[i] \in {"accepted", "refused"}

\* Apart from that, StoreWith and RequestFrom end: with an answer or an error.
CallReturns ==
  \A i \in CallId : call[i].phase = "emitting" ~> (call[i].phase = "returned" \/ Hangs(i))

\* A caller gets at most one result, and it is the peer's answer to that very
\* call or an error; a peer handles a request at most once.
Service == INSTANCE CallService WITH
  Request <- CallId,
  asked <- [i \in CallId |-> call[i].phase # "unused"],
  said <- handled,
  result <- [i \in CallId |-> call[i].outcome]

CallsAreServed == Service!CallServiceSpec
=============================================================================
