------------------------------ MODULE Locking ------------------------------
(***************************************************************************)
(* The mutexes of one nara process (network.go, observations.go,           *)
(* neighbourhood_*.go, presence_*.go, projections.go, sync_ledger.go).     *)
(* A handler is the sequence of lock operations of the function it is      *)
(* named for, on one of the ways through it; what a function computes      *)
(* between two of them is left out, and a loop is one turn of its body.    *)
(*                                                                         *)
(*   "local"   LocalNara.mu: the neighbourhood                             *)
(*   "me"      Me.mu: my own status with my observations                   *)
(*   "nara"    Nara.mu of a neighbour                                      *)
(*   "ledger"  SyncLedger.mu; a read lock counts as exclusive, which can   *)
(*             only make more goroutines wait                              *)
(*   "clout", "opinion", "online"   Projection.mu                          *)
(*   "votes"   startTimeVotesMu                                            *)
(*   "coord"   howdyCoordinator.mu                                         *)
(*                                                                         *)
(* Mutexes under which no other is ever taken (keyring, buzz, teases, SSE  *)
(* clients, derived states, ping cache) cannot be part of a cycle and are  *)
(* left out.  Go's mutexes are not reentrant.                              *)
(***************************************************************************)
EXTENDS Sequences

CONSTANTS
  Goroutine,   \* the goroutines
  Handlers,    \* Handlers[g]: the names of what g runs, one after the other
  Nobody       \* no goroutine

ASSUME NobodyAssumption == Nobody \notin Goroutine

ASSUME HandlersAssumption ==
  \A g \in Goroutine :
    Handlers[g] \subseteq {"socialMaintenance", "runOpinionPass", "observationMaintenanceOnce",
                          "handleHeyThereEvent", "handleHowdyEvent", "handleChauEvent",
                          "maybeRespondWithHowdy", "OnlinePeers"}

VARIABLES
  todo,     \* todo[g]: the lock operations g still has to perform
  holder    \* holder[l]: the goroutine that holds the mutex

vars == <<todo, holder>>

Lock == {"local", "me", "nara", "ledger", "clout", "opinion", "online", "votes", "coord"}

Ops == [op : {"Lock", "Unlock", "Pass"}, mu : Lock]

Op(what, l) == <<[op |-> what, mu |-> l]>>

\* l.Lock(); body; l.Unlock().  If body takes no other mutex the three are one
\* step, "Pass": nobody waits while they are under way.
Hold(l, body) ==
  IF body = <<>> THEN Op("Pass", l) ELSE Op("Lock", l) \o body \o Op("Unlock", l)

-----------------------------------------------------------------------------
(* Neighbourhood and observations. *)

getNara == Hold("local", <<>>)

getObservation == Hold("me", <<>>)

getObservationLocked == Hold("me", <<>>)

setObservationUnreleased == Op("Lock", "local") \o Hold("me", <<>>)
setObservationReversed == Hold("me", Hold("local", <<>>))
setObservation == Hold("local", Hold("me", <<>>))

\* The new nara's own lock is taken first; nobody else has that nara yet.
importNaraReversed == Hold("nara", Hold("local", <<>>))
importNara == Hold("local", Hold("nara", <<>>))

getPublicKeyForNara == Hold("local", <<>>) \o Hold("nara", <<>>)

NeighbourhoodNames == Hold("local", <<>>)

getNaraIDByName == Hold("local", <<>>)

getNaraByID == Hold("local", Hold("nara", <<>>))

RegisterKey == getNaraByID \o Hold("nara", <<>>)

\* Also the queries behind my flair: who is oldest, youngest, most restarted.
getOnlineNarasSnapshot == Hold("local", getObservationLocked)

\* Any neighbour's observation of the subject, under local.mu.
isGhostNara == getObservation \o Hold("local", Hold("nara", <<>>))

(* The ledger: with full, it holds more than MaxEvents, and sorting its
   events for pruning asks hasPublicKeyFor, still under the ledger's lock. *)

readLedger == Hold("ledger", <<>>)

pruneUnlocked(full) == IF full THEN getPublicKeyForNara ELSE <<>>

AddEvent(full) == Hold("ledger", pruneUnlocked(full))

Prune(full) == Hold("ledger", pruneUnlocked(full))

addObservationWithCompaction == Hold("ledger", <<>>)

RemoveEventsFor == Hold("ledger", <<>>)

(* Projections. *)

\* One read of the ledger stands for the two that follow one another.
RunOnce(p) == Hold(p, readLedger)

\* The online projection is only signalled; the other two run here and now.
Trigger == RunOnce("clout") \o RunOnce("opinion")

DeriveOpinionWithValidation == readLedger

-----------------------------------------------------------------------------
(* Periodic work. *)

\* The grid size comes from the pings in the ledger, the cells from
\* coordinates.
IsInMyBarrio == readLedger \o Hold("me", <<>>) \o Hold("nara", <<>>)

\* With found, some nara has been away for too long.
pruneInactiveNaras(found, full) ==
  Hold("local", getObservationLocked \o Hold("nara", <<>>)
                \o IF found THEN RemoveEventsFor \o Trigger ELSE <<>>)
  \o IF found THEN Hold("me", <<>>) ELSE <<>>

socialMaintenance(found, full) ==
  pruneInactiveNaras(found, full) \o readLedger \o Prune(full) \o readLedger

garbageCollectGhostNaras(found) ==
  NeighbourhoodNames \o isGhostNara
  \o IF found THEN Hold("local", <<>>) \o Hold("me", <<>>) \o RemoveEventsFor ELSE <<>>

applyStartTimeConsensus == Hold("votes", getObservation \o setObservation)

backfillObservations == Hold("me", <<>>) \o readLedger \o addObservationWithCompaction \o Trigger

runOpinionPass(found, full) ==
  NeighbourhoodNames \o isGhostNara \o getObservation
  \o RunOnce("opinion") \o DeriveOpinionWithValidation \o setObservation
  \o applyStartTimeConsensus
  \o garbageCollectGhostNaras(found) \o backfillObservations \o pruneInactiveNaras(found, full)

markOnlineFromPing(full) ==
  getObservation \o setObservation \o AddEvent(full) \o RunOnce("online")

verifyOnlineWithPing(full) == getNara \o Hold("nara", <<>>) \o markOnlineFromPing(full)

\* Snapshot, synchronous projection run, verification by ping, the write
\* under both locks, new barrios, and my own flair.
observationMaintenanceOnce(full) ==
  Hold("local", Hold("me", <<>>)) \o RunOnce("online")
  \o verifyOnlineWithPing(full)
  \o Hold("local", Hold("me", <<>>))
  \o NeighbourhoodNames \o IsInMyBarrio \o getObservation \o setObservation
  \o getObservation \o getOnlineNarasSnapshot
  \o Hold("me", <<>>) \o Hold("me", <<>>)

(* Handlers. *)

\* A tease is an ordinary event, sent to its target afterwards.
checkAndTease(full) ==
  getObservation \o getOnlineNarasSnapshot \o getNara \o IsInMyBarrio
  \o AddEvent(full) \o getNaraIDByName

\* First seen and back online exclude one another: one event at most.
recordObservationOnlineNara(full) ==
  getNara \o importNara \o getObservation \o getNara
  \o RunOnce("opinion") \o DeriveOpinionWithValidation \o setObservation
  \o getNaraIDByName \o addObservationWithCompaction \o Trigger
  \o checkAndTease(full)

handleHeyThereEvent(full) ==
  recordObservationOnlineNara(full) \o AddEvent(full) \o Trigger
  \o getNara \o Hold("nara", <<>>) \o RegisterKey

onHowdySeen == Hold("coord", <<>>)

handleHowdyEvent(full) ==
  onHowdySeen \o importNara \o recordObservationOnlineNara(full) \o Hold("votes", <<>>)
  \o importNara \o getObservation \o setObservation

handleChauEvent(full) ==
  getPublicKeyForNara \o getNara \o Hold("nara", <<>>) \o RegisterKey
  \o AddEvent(full) \o Trigger
  \o getObservation \o setObservation \o AddEvent(full)

\* Publishes while it holds the coordinator.
maybeRespondWithHowdy ==
  Hold("coord", Hold("local", getObservationLocked)
                \o Hold("local", Hold("nara", getObservationLocked))
                \o Hold("me", <<>>) \o getObservation \o Hold("local", <<>>))

OnlinePeers == Hold("local", Hold("nara", <<>>))

\* What the handler named h does, on one of the ways through it.
Way(h, found, full) ==
  CASE h = "socialMaintenance" -> socialMaintenance(found, full)
    [] h = "runOpinionPass" -> runOpinionPass(found, full)
    [] h = "observationMaintenanceOnce" -> observationMaintenanceOnce(full)
    [] h = "handleHeyThereEvent" -> handleHeyThereEvent(full)
    [] h = "handleHowdyEvent" -> handleHowdyEvent(full)
    [] h = "handleChauEvent" -> handleChauEvent(full)
    [] h = "maybeRespondWithHowdy" -> maybeRespondWithHowdy
    [] h = "OnlinePeers" -> OnlinePeers

Ways(h) == {Way(h, found, full) : found, full \in BOOLEAN}

-----------------------------------------------------------------------------

Init ==
  /\ todo = [g \in Goroutine |-> <<>>]
  /\ holder = [l \in Lock |-> Nobody]

Begin(g) ==
  /\ todo[g] = <<>>
  /\ \E h \in Handlers[g] : \E way \in Ways(h) : todo' = [todo EXCEPT ![g] = way]
  /\ UNCHANGED holder

Wants(g, l) ==
  todo[g] # <<>> /\ Head(todo[g]) \in [op : {"Lock", "Pass"}, mu : {l}]

Acquire(g) ==
  \E l \in Lock :
    /\ Wants(g, l)
    /\ holder[l] = Nobody
    /\ holder' = IF Head(todo[g]).op = "Lock" THEN [holder EXCEPT ![l] = g] ELSE holder
    /\ todo' = [todo EXCEPT ![g] = Tail(@)]

Release(g) ==
  /\ todo[g] # <<>>
  /\ Head(todo[g]).op = "Unlock"
  /\ holder' = [holder EXCEPT ![Head(todo[g]).mu] = Nobody]
  /\ todo' = [todo EXCEPT ![g] = Tail(@)]

Next == \E g \in Goroutine : Begin(g) \/ Acquire(g) \/ Release(g)

\* The scheduler runs every goroutine, a ticker starts the next round, and a
\* Go mutex hands over to whoever has waited for a millisecond.
Fairness ==
  \A g \in Goroutine : /\ WF_vars(Begin(g) \/ Release(g))
                       /\ SF_vars(Acquire(g))

Spec == Init /\ [][Next]_vars

FairSpec == Spec /\ Fairness

-----------------------------------------------------------------------------

\* The goroutines' positions and the mutexes agree: every lock operation
\* pairs with one release, so whoever is done holds nothing, and a mutex is
\* held by the goroutine that is still going to release it.
LockingTypeOK ==
  /\ \A g \in Goroutine : \A i \in DOMAIN todo[g] : todo[g][i] \in Ops
  /\ holder \in [Lock -> Goroutine \cup {Nobody}]
  /\ \A g \in Goroutine : todo[g] = <<>> => \A l \in Lock : holder[l] # g

WaitsFor(g, h) == \E l \in Lock : Wants(g, l) /\ holder[l] = h

\* Each of them waits for another of them.
Deadlocked(S) == S # {} /\ \A g \in S : \E h \in S : WaitsFor(g, h)

\* The only way to wait in a circle is through the ledger's callback: somebody
\* adding an event to a full ledger wants local.mu for hasPublicKeyFor, while
\* somebody pruning inactive naras holds local.mu and needs the ledger.
\* (sync_ledger.go:144, neighbourhood_pruning.go:136; every other nesting of
\* mutexes in these handlers is free of circles.)
OnlyLedgerCallbackDeadlocks ==
  \A S \in SUBSET Goroutine :
    Deadlocked(S) =>
      \E g, h \in S : /\ holder["ledger"] = g /\ Wants(g, "local")
                      /\ holder["local"] = h
                      /\ \E l \in {"ledger", "clout", "opinion"} : Wants(h, l)

\* "Other code that needs both locks must follow: local.mu -> Me.mu (never the
\* reverse)" (neighbourhood_pruning.go:118): nobody who holds Me.mu asks for
\* local.mu.
LocalBeforeMe ==
  \A g \in Goroutine : holder["me"] = g => ~Wants(g, "local")

\* "Run every 5 minutes" (neighbourhood_pruning.go:164): a round of social
\* maintenance ends, so that the next one can begin.
SocialMaintenanceGoesOn ==
  \A g \in Goroutine :
    "socialMaintenance" \in Handlers[g] => []<>(todo[g] = <<>>)
=============================================================================
