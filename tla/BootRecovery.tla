---------------------------- MODULE BootRecovery ----------------------------
(***************************************************************************)
(* A nara that starts asks the naras it finds for what they remember       *)
(* (boot_recovery.go), then for their checkpoints (boot_checkpoint.go),    *)
(* and later now and then for what is recent (boot_sync.go).  Meanwhile    *)
(* they learn more, calls fail, and MQTT answers come when they come or    *)
(* not at all (boot_ledger.go).                                            *)
(*                                                                         *)
(* Calls run on goroutines: at most MaxConcurrent hold the semaphore, each *)
(* until its result is in the channel; the main goroutine reads the        *)
(* channel only after it has started all of them.  What a merge does to    *)
(* the neighbourhood is not part of this module.                           *)
(***************************************************************************)
EXTENDS EventRetrieval

CONSTANTS
  Neighbour, Me,
  ShortMemory,         \* the neighbours that advertise a short memory
  Universe,            \* every event there may be
  Ledgers,             \* what a neighbour may hold at the start: sets of events
  Personality,
  CallsNeeded, SampleSize, EventsPerSlice, PageSize, RecentLimit, RecentSince,
  MaxConcurrent, MaxMeshNeighbours, MaxMQTTNeighbours, TargetSuccessfulFetches,
  MaxNews              \* bound: events neighbours learn during the run

ASSUME BootAssumption ==
  /\ IsFiniteSet(Neighbour)
  /\ \A e \in Universe : e.ts \in Nat \ {NoCursor}
  /\ \A S \in Ledgers : S \subseteq Universe /\ IsFiniteSet(S)
  /\ {CallsNeeded, SampleSize, EventsPerSlice, PageSize, MaxConcurrent,
      MaxMeshNeighbours, MaxMQTTNeighbours, TargetSuccessfulFetches,
      RecentLimit} \subseteq Nat \ {0}

VARIABLES
  mesh,                \* is there a mesh
  addressed,           \* the neighbours whose mesh address is known
  start, held, mine,   \* neighbours' ledgers at the start and now; the booting nara's
  online,              \* who it considers online
  phase, attempt, listed, sources,          \* of bootRecovery
  mode, todo, running, results,             \* of the parallel calls
  failed, responded, complete,              \* what came of them
  candidates, from, cursor, got, fetched,   \* of syncCheckpointsFromNetwork
  paged,               \* (history) whose checkpoints were read to the last page
  requests, responses, \* MQTT messages on their way
  startTimeKnown       \* does it know when it first started

world == <<mesh, addressed, start>>
calls == <<mode, todo, running, results, failed, responded, complete>>
fetch == <<candidates, from, cursor, got, fetched, paged>>
mqtt == <<requests, responses, startTimeKnown>>
vars == <<world, held, mine, online, phase, attempt, listed, sources, calls, fetch, mqtt>>

None == "none"

Answers(n, req) == httpEventsSyncHandler(held[n], req)

FilterEventsForIngestion(S) == {e \in S : e.reason # "before-cutoff"}

MergeSyncEventsWithVerification(S) == mine' = mine \cup FilterEventsForIngestion(S)

-----------------------------------------------------------------------------

Init ==
  /\ mesh \in BOOLEAN
  /\ addressed \in SUBSET Neighbour /\ (~mesh => addressed = {})
  /\ start \in [Neighbour -> Ledgers] /\ held = start /\ mine = {}
  /\ online = {}
  /\ phase = "discover" /\ attempt = 0 /\ listed = {} /\ sources = <<>>
  /\ mode = None /\ todo = <<>> /\ running = {} /\ results = {}
  /\ failed = <<>> /\ responded = {} /\ complete = TRUE
  /\ candidates = {} /\ from = None /\ cursor = NoCursor /\ got = {} /\ fetched = 0
  /\ paged = {}
  /\ requests = {} /\ responses = {} /\ startTimeKnown = FALSE

-----------------------------------------------------------------------------
(* The calls. *)

Task(n, k) == [of |-> n, number |-> k]

SampleTasks(ns) ==
  [i \in 1..CallsNeeded |-> Task(ns[((i - 1) % Len(ns)) + 1], i - 1)]

SliceTasks == [i \in DOMAIN sources |-> Task(sources[i], i - 1)]

\* Those that answered, in the order of the sources.
available ==
  {q \in SetToSeqs(responded) :
     \A i, j \in DOMAIN q : i < j =>
       \E k, m \in DOMAIN sources : k < m /\ sources[k] = q[i] /\ sources[m] = q[j]}

\* Mutant: the retry asks for the slice of its own position.
RetriesByPosition(slices, naras) ==
  [i \in DOMAIN slices |-> Task(naras[((i - 1) % Len(naras)) + 1], i - 1)]

RetryTasks(slices, naras) ==
  [i \in DOMAIN slices |-> Task(naras[((i - 1) % Len(naras)) + 1], slices[i])]

Start(m, tasks) ==
  /\ phase' = "launch" /\ mode' = m /\ todo' = tasks
  /\ failed' = <<>> /\ running' = {} /\ results' = {}

Request(t) ==
  IF mode = "sample" THEN [mode |-> "sample", size |-> SampleSize]
  ELSE [mode |-> "slice", subjects |-> listed \cup {Me}, index |-> t.number,
        total |-> Len(sources), size |-> EventsPerSlice]

Launch ==
  /\ phase = "launch"
  /\ IF todo = <<>> THEN phase' = "collect" /\ UNCHANGED <<todo, running>>
     ELSE /\ Cardinality(running) < MaxConcurrent
          /\ running' = running \cup {Head(todo)} /\ todo' = Tail(todo)
          /\ UNCHANGED phase
  /\ UNCHANGED <<world, held, mine, online, attempt, listed, sources, mode, results,
                 failed, responded, complete, fetch, mqtt>>

\* Mutant: a channel without room.
Unbuffered(r) == phase = "collect" /\ results = {}

\* The channel has room for the results of all tasks.
ChannelTakes(r) == TRUE

FetchReturns(t) ==
  /\ t \in running
  /\ \E r \in {[task |-> t, ok |-> TRUE, events |-> a.events] : a \in Answers(t.of, Request(t))}
              \cup {[task |-> t, ok |-> FALSE, events |-> {}]} :
        ChannelTakes(r) /\ results' = results \cup {r}
  /\ running' = running \ {t}
  /\ UNCHANGED <<world, held, mine, online, phase, attempt, listed, sources, mode, todo,
                 failed, responded, complete, fetch, mqtt>>

ProcessResult(r) ==
  /\ phase = "collect" /\ r \in results /\ results' = results \ {r}
  /\ LET useful == IF mode = "sample" THEN r.ok ELSE r.events # {}
     IN /\ IF useful THEN MergeSyncEventsWithVerification(r.events) ELSE UNCHANGED mine
        /\ failed' = IF useful \/ mode = "retry" THEN failed ELSE Append(failed, r.task.number)
        /\ responded' = IF useful /\ mode # "retry" THEN responded \cup {r.task.of} ELSE responded
  /\ complete' = (complete /\ (mode = "retry" => r.ok))
  /\ UNCHANGED <<world, held, online, phase, attempt, listed, sources, mode, todo, running,
                 fetch, mqtt>>

\* The channel is closed and read to its end.
AllCallsEnded == phase = "collect" /\ running = {} /\ results = {}

ToCheckpoints ==
  /\ phase' = "checkpoints" /\ candidates' = listed
  /\ UNCHANGED <<mode, todo, running, results, failed>>

SampleEnds ==
  /\ AllCallsEnded /\ mode = "sample"
  /\ IF Len(failed) > CallsNeeded \div 2
     THEN Start("slice", SliceTasks) /\ responded' = {} /\ UNCHANGED candidates
     ELSE ToCheckpoints /\ UNCHANGED responded
  /\ UNCHANGED <<world, held, mine, online, attempt, listed, sources, complete,
                 from, cursor, got, fetched, paged, mqtt>>

SlicesEnd ==
  /\ AllCallsEnded /\ mode \in {"slice", "retry"}
  /\ IF mode = "slice" /\ failed # <<>> /\ responded # {}
     THEN /\ \E naras \in available : Start("retry", RetryTasks(failed, naras))
          /\ UNCHANGED <<complete, candidates>>
     ELSE ToCheckpoints /\ complete' = (complete /\ (mode = "slice" => failed = <<>>))
  /\ UNCHANGED <<world, held, mine, online, attempt, listed, sources, responded,
                 from, cursor, got, fetched, paged, mqtt>>

-----------------------------------------------------------------------------
(* Discovery, and the way the recovery goes. *)

\* Mutant: another attempt after the last one.
KeepsLooking(found) == found = {}

LooksAgain(found) == found = {} /\ attempt < 2

PartitionSubjects(subjects, n) == [subjects -> 1..n]

bootRecoveryViaMQTT(found) ==
  LET most == IF Cardinality(found) < MaxMQTTNeighbours THEN Cardinality(found) ELSE MaxMQTTNeighbours
      subjects == found \cup {Me}
  IN \E q \in SetToSeqs(found), part \in PartitionSubjects(subjects, most) :
       requests' = {r \in {[to |-> q[i], subjects |-> {s \in subjects : part[s] = i}] : i \in 1..most} :
                      r.subjects # {}}

bootRecoveryViaMesh(found) ==
  \E q \in SetToSeqs(found \cap addressed) :
    /\ sources' = FirstOf(q, MaxMeshNeighbours)
    /\ Start("sample", SampleTasks(sources'))

\* After a wait; in gossip mode without one when somebody is known, and after a
\* look for peers when nobody is (NeighbourAppears, just before).
LookForNeighbours ==
  /\ phase = "discover"
  /\ IF LooksAgain(online)
     THEN attempt' = attempt + 1 /\ UNCHANGED <<phase, listed, sources, calls, candidates, requests>>
     ELSE /\ listed' = online
          /\ CASE online = {} -> phase' = "done" /\ UNCHANGED <<sources, calls, candidates, requests>>
               [] online \cap addressed # {} ->
                    bootRecoveryViaMesh(online) /\ UNCHANGED <<responded, complete, candidates, requests>>
               [] OTHER ->
                    /\ bootRecoveryViaMQTT(online)
                    /\ candidates' = (IF mesh THEN online ELSE {})
                    /\ phase' = (IF mesh THEN "checkpoints" ELSE "done")
                    /\ UNCHANGED <<sources, calls>>
          /\ UNCHANGED attempt
  /\ UNCHANGED <<world, held, mine, online, from, cursor, got, fetched, paged, responses, startTimeKnown>>

\* network.ctx is done during one of the waits.
Shutdown ==
  /\ phase = "discover" /\ phase' = "done"
  /\ UNCHANGED <<world, held, mine, online, attempt, listed, sources, calls, fetch, mqtt>>

-----------------------------------------------------------------------------
(* Checkpoints, one nara after the other. *)

syncing == <<world, held, online, attempt, listed, sources, calls, mqtt>>

NextCandidate ==
  /\ phase = "checkpoints" /\ from = None
  /\ IF candidates = {} \/ fetched >= TargetSuccessfulFetches
     THEN phase' = "done" /\ UNCHANGED <<candidates, from, cursor, got>>
     ELSE \E n \in candidates :
            /\ candidates' = candidates \ {n}
            /\ from' = (IF n \in addressed THEN n ELSE None)
            /\ cursor' = NoCursor /\ got' = {}
            /\ UNCHANGED phase
  /\ UNCHANGED <<syncing, mine, fetched, paged>>

\* What was fetched is merged; nothing fetched is no success.
CandidateDone(S) ==
  /\ MergeSyncEventsWithVerification(S)
  /\ fetched' = (IF S = {} THEN fetched ELSE fetched + 1)
  /\ from' = None /\ cursor' = NoCursor /\ got' = {}

FetchLegacy ==
  LET all == Matching(held[from], {"checkpoint"}, {})
  IN \E T \in {T \in SUBSET all : T = all \/ Cardinality(T) % PageSize = 0} : CandidateDone(T)

fetchCheckpointsViaUnifiedAPI ==
  /\ phase = "checkpoints" /\ from # None
  /\ \E a \in Answers(from, [mode |-> "page", cursor |-> cursor, size |-> PageSize]) :
       IF a.next # NoCursor
       THEN got' = got \cup a.events /\ cursor' = a.next /\ UNCHANGED <<from, mine, fetched, paged>>
       ELSE IF got \cup a.events # {}
       THEN CandidateDone(got \cup a.events) /\ paged' = paged \cup {from}
       ELSE FetchLegacy /\ UNCHANGED paged
  /\ UNCHANGED <<syncing, phase, candidates>>

\* Whatever pages there were are dropped; the old endpoint is read in pages
\* too, and what was read before an error is kept.
UnifiedAPIFails ==
  /\ phase = "checkpoints" /\ from # None
  /\ FetchLegacy
  /\ UNCHANGED <<syncing, phase, candidates, paged>>

-----------------------------------------------------------------------------
(* MQTT. *)

handleLedgerRequest(r) ==
  /\ r \in requests /\ requests' = requests \ {r}
  /\ responses' = responses \cup {GetSocialEventsForSubjects(held[r.to], r.subjects)}
  /\ UNCHANGED <<world, held, mine, online, phase, attempt, listed, sources, calls, fetch, startTimeKnown>>

handleLedgerResponse(S) ==
  /\ S \in responses /\ responses' = responses \ {S}
  /\ mine' = mine \cup {e \in S : socialEventIsMeaningful(e, Personality)}
  /\ UNCHANGED <<world, held, online, phase, attempt, listed, sources, calls, fetch, requests, startTimeKnown>>

MessageLost ==
  /\ \/ \E r \in requests : requests' = requests \ {r} /\ UNCHANGED responses
     \/ \E S \in responses : responses' = responses \ {S} /\ UNCHANGED requests
  /\ UNCHANGED <<world, held, mine, online, phase, attempt, listed, sources, calls, fetch,
                 startTimeKnown>>

-----------------------------------------------------------------------------
(* Afterwards, and around it. *)

(* Each round of performBackgroundSync asks some neighbours for its start    *)
(* time, as long as it does not know it, and then one or two for what is new. *)
\* What a neighbour observed of this nara; the opinion is only derived when
\* that brought something new.
recoverSelfStartTimeFromMesh(n) ==
  /\ phase = "done" /\ mesh /\ ~startTimeKnown /\ n \in online \cap addressed
  /\ \E a \in Answers(n, [mode |-> "slice", subjects |-> {Me}, index |-> 0, total |-> 1, size |-> EventsPerSlice]) :
       LET ofMe == FilterEventsForIngestion({e \in a.events : e.service = "observation" /\ Me \in e.names})
       IN /\ mine' = mine \cup ofMe
          /\ startTimeKnown' = \E e \in ofMe \ mine : e.type \in {"restart", "first-seen"}
  /\ UNCHANGED <<world, held, online, phase, attempt, listed, sources, calls, fetch, requests, responses>>

performBackgroundSync(n) ==
  /\ phase = "done" /\ n \in (online \cap addressed) \ ShortMemory
  /\ \E a \in Answers(n, [mode |-> "recent", size |-> RecentLimit]) :
       mine' = mine \cup
         {e \in a.events : \/ e.service = "ping"
                           \/ /\ e.service \in {"observation", "social"}
                              /\ e.ts >= RecentSince
                              /\ PassesFilter(e, Personality)}
  /\ UNCHANGED <<world, held, online, phase, attempt, listed, sources, calls, fetch, mqtt>>

NeighbourAppears(n) ==
  /\ phase = "discover" /\ n \notin online /\ online' = online \cup {n}
  /\ UNCHANGED <<world, held, mine, phase, attempt, listed, sources, calls, fetch, mqtt>>

Learned == UNION {held[n] \ start[n] : n \in Neighbour}

\* While it is being asked: earlier is another start, later is of no use.
NeighbourLearns(n, e) ==
  /\ phase \notin {"discover", "done"}
  /\ Cardinality(Learned \cup {e}) <= MaxNews
  /\ e \notin held[n] /\ held' = [held EXCEPT ![n] = @ \cup {e}]
  /\ UNCHANGED <<world, mine, online, phase, attempt, listed, sources, calls, fetch, mqtt>>

-----------------------------------------------------------------------------

bootRecovery ==
  \/ LookForNeighbours \/ Launch \/ SampleEnds \/ SlicesEnd
  \/ \E r \in results : ProcessResult(r)
  \/ NextCandidate \/ fetchCheckpointsViaUnifiedAPI \/ UnifiedAPIFails

Next ==
  \/ bootRecovery
  \/ \E t \in running : FetchReturns(t)
  \/ Shutdown \/ MessageLost
  \/ \E r \in requests : handleLedgerRequest(r)
  \/ \E S \in responses : handleLedgerResponse(S)
  \/ \E n \in Neighbour : performBackgroundSync(n) \/ recoverSelfStartTimeFromMesh(n) \/ NeighbourAppears(n)
  \/ \E n \in Neighbour, e \in Universe : NeighbourLearns(n, e)

\* A call ends within the 5 seconds of the mesh client; the wait for
\* neighbours is a timer; the rest is one goroutine that goes on when it can.
Fairness == WF_vars(bootRecovery) /\ WF_vars(\E t \in running : FetchReturns(t))

Spec == Init /\ [][Next]_vars /\ Fairness

-----------------------------------------------------------------------------
(* Properties. *)

\* The waits are bounded, the lists agree with one another and there are never
\* more calls under way than the semaphore lets through.
TypeOK ==
  /\ attempt \in 0..2 /\ listed \subseteq Neighbour /\ ToSet(sources) \subseteq listed \cap addressed
  /\ mine \subseteq Universe /\ \A n \in Neighbour : start[n] \subseteq held[n]
  /\ Cardinality(running) <= MaxConcurrent /\ fetched <= TargetSuccessfulFetches
  /\ paged \subseteq addressed \ candidates

\* No failure, no answer and no number of neighbours keeps the boot recovery
\* from ending, and with it what waits for bootRecoveryDone: the calls are
\* started before a result is read, which the room in the channel makes safe.
RecoveryEnds == <>(phase = "done")

Announcements(S) == {e \in S : e.service \in {"checkpoint", "hey-there", "chau"}}

\* A neighbour that answered a sample call is remembered: the checkpoints,
\* hey-theres and chaus it held when the nara booted are in the ledger, unless
\* what is critical does not fit a sample.
RespondersRemembered ==
  mode = "sample" =>
    \A n \in responded :
      Cardinality({e \in held[n] : isCriticalEvent(e)}) <= SampleSize
        => FilterEventsForIngestion(Announcements(start[n])) \subseteq mine

Distinct(S) == \A e, f \in S : e.ts = f.ts => e = f

Older(S, T) == \A e \in S, f \in T : e.ts < f.ts

Everything == UNION {held[n] : n \in Neighbour}

\* The slices of neighbours that remember the same things make up the whole,
\* whoever ends up answering which, when no call of the retry failed: provided
\* that no two events share a timestamp, that what they learn meanwhile is
\* newer, that the naras the events are about are asked for and that the
\* slices are not cut off.
SlicesComplete ==
  /\ mode \in {"slice", "retry"} /\ phase \in {"checkpoints", "done"} /\ complete
  /\ \A n \in ToSet(sources), k \in ToSet(sources) : start[n] = start[k] /\ Older(start[n], held[k] \ start[k])
  /\ Distinct(Everything)
  /\ Cardinality(Everything) <= EventsPerSlice
  => \A n \in ToSet(sources) :
       FilterEventsForIngestion(Matching(start[n], {}, listed \cup {Me})) \subseteq mine

\* Reading the checkpoints of a nara page by page, while it stores others,
\* misses none that it had, provided that no two share a timestamp.
PagesComplete ==
  \A n \in paged :
    Distinct(Matching(held[n], {"checkpoint"}, {}))
      => FilterEventsForIngestion(Matching(start[n], {"checkpoint"}, {})) \subseteq mine
=============================================================================
