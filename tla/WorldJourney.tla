---------------------------- MODULE WorldJourney ----------------------------
(***************************************************************************)
(* World postcards: a message is relayed from nara to nara, each adding a  *)
(* signed hop, until it is back at its originator, who tells the others.   *)
(*                                                                         *)
(* A relay is an HTTP request whose handler does not answer before its own *)
(* relay to the next nara has: the open requests of a journey form a chain *)
(* in which each caller waits for the rest of the journey, or gives up     *)
(* after the client's timeout while the journey goes on.  calls[j] is that *)
(* chain; the hops of j are the receivers of the requests that were        *)
(* handled.                                                                *)
(*                                                                         *)
(* Who is online, and of how much clout, is each nara's own view and may   *)
(* be anything.  A signature is valid; its key may be unknown to the nara  *)
(* that checks it.  The list of finished journeys for the web page is left *)
(* out.                                                                    *)
(***************************************************************************)
EXTENDS Integers, Sequences, FiniteSets

CONSTANTS
  Nara, Nobody,
  Journey,        \* the journeys that are ever started
  MaxRestarts     \* bound: restarts of naras

ASSUME JourneyAssumption == Nobody \notin Nara

VARIABLES
  originator,     \* who started a journey
  calls,          \* its relays, in order
  pending,        \* pendingJourneys of each nara
  reported,       \* the social events about journeys that each nara has made
  restarts

vars == <<originator, calls, pending, reported, restarts>>

Reason == {"journey-pass", "journey-complete", "journey-timeout"}

\* A relay to a nara: how far its handler is, and what the caller was told.
Call(to) == [to |-> to, handler |-> "sent", told |-> "waiting"]

Hops(j) == {calls[j][k].to : k \in {i \in DOMAIN calls[j] : calls[j][i].handler # "sent"}}
Last(j) == Len(calls[j])
UnderWay(j) == calls[j] # <<>> /\ calls[j][Last(j)].handler = "sent"
CameHome(j) ==
  \E k \in DOMAIN calls[j] : calls[j][k].to = originator[j] /\ calls[j][k].handler = "ok"

\* Whether the ledger keeps it is up to the personality.
Report(n, reason, js) ==
  reported' = [reported EXCEPT ![n] = @ \cup {<<reason, j>> : j \in js}]

(***************************************************************************)
(* The possible choices of nara n, given who it takes to be online; the    *)
(* empty set when the journey is stuck.                                    *)
(***************************************************************************)
\* Mutant: whoever was visited before may be visited again.
ChooseAnyNara(n, from, visited, online) ==
  LET candidates == online \ {n, from}
  IN IF candidates # {} THEN candidates
     ELSE IF n # from THEN {from} \cap online ELSE {}

ChooseNextNara(n, from, visited, online) ==
  LET candidates == online \ ({n, from} \cup visited)
  IN IF candidates # {} THEN candidates
     ELSE IF n # from THEN {from} \cap online ELSE {}

-----------------------------------------------------------------------------
Init ==
  /\ originator = [j \in Journey |-> Nobody]
  /\ calls = [j \in Journey |-> <<>>]
  /\ pending = [n \in Nara |-> {}]
  /\ reported = [n \in Nara |-> {}]
  /\ restarts = 0

StartJourney(n, j, online) ==
  /\ originator[j] = Nobody
  /\ originator' = [originator EXCEPT ![j] = n]
  /\ \E next \in ChooseNextNara(n, n, {}, online) :
       calls' = [calls EXCEPT ![j] = <<Call(next)>>]
  /\ UNCHANGED <<pending, reported, restarts>>

\* The request never arrives, or a hop's key is not known: the journey is dropped.
DropJourney(j) ==
  /\ UnderWay(j)
  /\ calls' = [calls EXCEPT ![j][Last(j)].handler = "error"]
  /\ UNCHANGED <<originator, pending, reported, restarts>>

onWorldJourneyComplete(n, j) ==
  /\ Report(n, "journey-complete", {j})
  /\ pending' = [pending EXCEPT ![n] = @ \ {j}]

onWorldJourneyPassThrough(n, j) ==
  /\ pending' = [pending EXCEPT ![n] = @ \cup {j}]
  /\ Report(n, "journey-pass", {j})

\* Mutant: a stuck journey is no error.
ForwardOrShrug(n, j, online) ==
  LET next == ChooseNextNara(n, originator[j], Hops(j), online)
  IN IF next = {} THEN calls' = [calls EXCEPT ![j][Last(j)].handler = "ok"]
     ELSE \E m \in next :
            calls' = [calls EXCEPT
              ![j] = Append([@ EXCEPT ![Last(j)].handler = "forwarding"], Call(m))]

\* Mutant: the hop is forgotten.
ForwardWithoutHop(n, j, online) ==
  \E m \in ChooseNextNara(n, originator[j], Hops(j), online) :
    calls' = [calls EXCEPT ![j] = Append(@, Call(m))]

Forward(n, j, online) ==
  LET next == ChooseNextNara(n, originator[j], Hops(j), online)
  IN IF next = {} THEN calls' = [calls EXCEPT ![j][Last(j)].handler = "error"]
     ELSE \E m \in next :
            calls' = [calls EXCEPT
              ![j] = Append([@ EXCEPT ![Last(j)].handler = "forwarding"], Call(m))]

HandleIncoming(j, online) ==
  /\ UnderWay(j)
  /\ LET n == calls[j][Last(j)].to
     IN IF n = originator[j]
        THEN /\ onWorldJourneyComplete(n, j)
             /\ calls' = [calls EXCEPT ![j][Last(j)].handler = "ok"]
        ELSE onWorldJourneyPassThrough(n, j) /\ Forward(n, j, online)
  /\ UNCHANGED <<originator, restarts>>

-----------------------------------------------------------------------------
(* Answers run back along the chain *)

Waiting(j, k) == k \in DOMAIN calls[j] /\ calls[j][k].told = "waiting"

\* What the k-th handler has to answer, once it has.
Answer(j, k) ==
  IF calls[j][k].handler = "forwarding" THEN calls[j][k + 1].told ELSE calls[j][k].handler

Tell(j, k, answer) ==
  /\ calls' = [calls EXCEPT ![j][k].told = answer]
  /\ UNCHANGED <<originator, pending, reported, restarts>>

RelayAnswers(j, k) ==
  /\ Waiting(j, k) /\ Answer(j, k) \in {"ok", "error"}
  /\ Tell(j, k, Answer(j, k))

\* Five seconds are over: the caller gives up, the handler does not notice.
RelayTimesOut(j, k) == Waiting(j, k) /\ Tell(j, k, "error")

-----------------------------------------------------------------------------
(* What becomes of pending journeys *)

\* Mutant: who had no part in a journey is not told from who had.
HearAnyCompletion(n, j) ==
  /\ CameHome(j) /\ n # originator[j]
  /\ pending' = [pending EXCEPT ![n] = @ \ {j}]
  /\ Report(n, "journey-complete", {j})
  /\ UNCHANGED <<originator, calls, restarts>>

(***************************************************************************)
(* The originator's broadcast reaches n, some time or never; in gossip     *)
(* mode never.  Hearing it again changes nothing.                          *)
(***************************************************************************)
handleJourneyCompletion(n, j) ==
  /\ CameHome(j) /\ n # originator[j]
  /\ j \in pending[n]
  /\ pending' = [pending EXCEPT ![n] = @ \ {j}]
  /\ Report(n, "journey-complete", {j})
  /\ UNCHANGED <<originator, calls, restarts>>

\* Mutant: what timed out stays pending.
TimeOutAndKeep(n, js) ==
  /\ js # {} /\ js \subseteq pending[n]
  /\ Report(n, "journey-timeout", js)
  /\ UNCHANGED <<originator, calls, pending, restarts>>

\* The journeys that have been pending for five minutes: any, as far as others can tell.
journeyTimeoutMaintenance(n, js) ==
  /\ js # {} /\ js \subseteq pending[n]
  /\ pending' = [pending EXCEPT ![n] = @ \ js]
  /\ Report(n, "journey-timeout", js)
  /\ UNCHANGED <<originator, calls, restarts>>

\* A nara restarts: its handlers are gone, and what it kept in memory.
Restart(n) ==
  /\ restarts < MaxRestarts /\ restarts' = restarts + 1
  /\ pending' = [pending EXCEPT ![n] = {}]
  /\ calls' = [j \in Journey |-> [k \in DOMAIN calls[j] |->
       [calls[j][k] EXCEPT
          !.handler = IF calls[j][k].to = n /\ @ = "forwarding" THEN "error" ELSE @,
          !.told = IF k = 1 /\ originator[j] = n /\ @ = "waiting" THEN "error" ELSE @]]]
  /\ UNCHANGED <<originator, reported>>

-----------------------------------------------------------------------------
Travel ==
  \/ \E n \in Nara, j \in Journey, online \in SUBSET Nara : StartJourney(n, j, online)
  \/ \E j \in Journey, online \in SUBSET Nara : HandleIncoming(j, online)
  \/ \E j \in Journey : DropJourney(j)
  \/ \E n \in Nara, j \in Journey : handleJourneyCompletion(n, j)
  \/ \E n \in Nara : Restart(n)

Answering ==
  \E j \in Journey : \E k \in DOMAIN calls[j] : RelayAnswers(j, k) \/ RelayTimesOut(j, k)

Maintenance(n) == \E js \in SUBSET pending[n] : journeyTimeoutMaintenance(n, js)

Next == Travel \/ Answering \/ \E n \in Nara : Maintenance(n)

\* The maintenance loop turns every 30 seconds, the HTTP client times out.
Fairness == WF_vars(Answering) /\ \A n \in Nara : WF_vars(Maintenance(n))

Spec == Init /\ [][Next]_vars /\ Fairness

-----------------------------------------------------------------------------
TypeOK ==
  /\ originator \in [Journey -> Nara \cup {Nobody}]
  /\ \A j \in Journey : \A k \in DOMAIN calls[j] :
       /\ calls[j][k] \in [to : Nara, handler : {"sent", "forwarding", "ok", "error"},
                           told : {"waiting", "ok", "error"}]
       /\ k < Last(j) => calls[j][k].handler # "sent"
  /\ pending \in [Nara -> SUBSET Journey]
  /\ reported \in [Nara -> SUBSET (Reason \X Journey)]

(* "Cycle-Free" (world-postcards.md:21): no nara receives a journey twice,   *)
(* and its originator only as the last, although each nara chooses by its    *)
(* own view of who is online and no receiver checks.                         *)
CycleFree ==
  \A j \in Journey : \A k \in DOMAIN calls[j] :
    /\ \A i \in 1 .. k - 1 : calls[j][i].to # calls[j][k].to
    /\ calls[j][k].to = originator[j] => k = Last(j)

(* Whoever is told that StartJourney succeeded has a journey that came home: *)
(* one nara's answer stands for all the relays behind it, whatever timed     *)
(* out, was dropped or restarted.  (An error says nothing: the journey may   *)
(* be home all the same.)                                                    *)
SuccessMeansHome ==
  \A j \in Journey : calls[j] # <<>> /\ calls[j][1].told = "ok" => CameHome(j)

(* A nara reports that a journey was completed only when it was and the nara *)
(* had a part in it, and never also that it timed out: the broadcast races   *)
(* with the five minutes.                                                    *)
OneOutcome ==
  \A n \in Nara, j \in Journey :
    <<"journey-complete", j>> \in reported[n] =>
      /\ CameHome(j) /\ n \in Hops(j)
      /\ <<"journey-timeout", j>> \notin reported[n]

(* A journey does not stay pending, wherever it got stuck or lost, nor does  *)
(* anybody wait for it for ever.                                             *)
EveryJourneyEnds ==
  /\ \A n \in Nara, j \in Journey : j \in pending[n] ~> j \notin pending[n]
  /\ \A j \in Journey : Waiting(j, 1) ~> ~Waiting(j, 1)
=============================================================================
