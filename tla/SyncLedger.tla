----------------------------- MODULE SyncLedger -----------------------------
(***************************************************************************)
(* The event ledger of one nara (src/sync_ledger.go, type SyncLedger): an  *)
(* in-memory, deduplicated log of signed events, with per-target retention *)
(* of pings, per-pair compaction of observations and priority pruning.     *)
(* Every operation runs under l.mu, so each is one action.  The sorts of   *)
(* the code (sort.Slice) are not stable: ties may come out in any order.   *)
(***************************************************************************)
EXTENDS Integers, Sequences, FiniteSets, TLC

CONSTANTS
  Nara,                    \* names
  Id,                      \* event ids (hash of timestamp, service, content)
  Universe,                \* the events peers and this nara may hand in
  MaxEvents,               \* ledger capacity of the memory profile
  MaxPingsPerTarget,       \* 5 in the code
  MaxObservationsPerPair,  \* 20 in the code
  VersionLimit             \* bound on version, for model checking only

(* Services and, for the observation service, the observation type. *)
ObservationKind == {"restart", "first-seen", "status-change"}
Kind == ObservationKind \cup
        {"checkpoint", "hey-there", "chau", "social", "seen", "ping"}

OnlineState == {"ONLINE", "OFFLINE", "MISSING"}

(* A SyncEvent.  from/about: observer and subject (or target); both are the  *)
(* announcing nara for hey-there and chau, the subject for a checkpoint.     *)
(* key stands for the (restart_num, start_time) of a restart; ok is          *)
(* IsValid() and not shouldFilterCheckpoint(); ts > 0 because IsValid()      *)
(* refuses a zero timestamp.  The id is the sender's claim: AddEvent only    *)
(* computes it when it is empty.                                             *)
Event == [id : Id, kind : Kind, ts : Nat \ {0}, from : Nara, about : Nara,
          emitter : Nara, key : Nat, state : OnlineState, ok : BOOLEAN]

ASSUME LedgerAssumption ==
  /\ Universe \subseteq Event
  /\ MaxEvents \in Nat \ {0}
  /\ MaxPingsPerTarget \in Nat \ {0}
  /\ MaxObservationsPerPair \in Nat \ {0}
  /\ VersionLimit \in Nat

VARIABLES
  events,    \* l.Events
  eventIDs,  \* l.eventIDs
  version,   \* l.version
  known      \* naras whose public key is known, behind l.isUnknownNara

ledgerVars == <<events, eventIDs, version, known>>

-----------------------------------------------------------------------------
(* Sequences *)

(* The k-th smallest member of a finite set of positions. *)
Nth(I, k) == CHOOSE i \in I : Cardinality({j \in I : j <= i}) = k

(* s without the positions in I, order kept (the "kept" loops). *)
Without(s, I) ==
  LET K == DOMAIN s \ I
  IN  [k \in 1 .. Cardinality(K) |-> s[Nth(K, k)]]

(* The reorderings of the positions D.  Permutations is what TLC enumerates; *)
(* the conjunct says what the proofs use of it.                              *)
IsPermutation(p, D) ==
  /\ p \in [D -> D]
  /\ \A x, y \in D : p[x] = p[y] => x = y
  /\ \A y \in D : \E x \in D : p[x] = y
Arrangements(D) == {p \in Permutations(D) : IsPermutation(p, D)}

Reordered(s, p) == [k \in DOMAIN s |-> s[p[k]]]

IdsOf(s) == {s[i].id : i \in DOMAIN s}
Elements(s) == {s[i] : i \in DOMAIN s}

(* The position of the oldest event among I: first one with the least ts. *)
Oldest(s, I) ==
  {i \in I : \A j \in I : s[i].ts < s[j].ts \/ (s[i].ts = s[j].ts /\ i <= j)}

-----------------------------------------------------------------------------
(* Classification of events *)

IsObservation(e) == e.kind \in ObservationKind

eventPruningPriority(e) ==
  CASE e.kind \in {"checkpoint", "restart", "first-seen"}   -> 0
    [] e.kind \in {"status-change", "hey-there", "chau"}    -> 1
    [] e.kind = "social"                                    -> 2
    [] e.kind = "seen"                                      -> 3
    [] e.kind = "ping"                                      -> 4

Critical(e) == eventPruningPriority(e) = 0

isEventFromUnknownNara(e) ==
  e.kind # "checkpoint" /\ ~({e.from, e.about} \subseteq known)

Involved(e) == {e.emitter, e.from, e.about}

HasCheckpoint(s, n) == \E i \in DOMAIN s : s[i].kind = "checkpoint" /\ s[i].about = n

-----------------------------------------------------------------------------
(* pruneUnlocked *)

(* Mutant: the least important service goes last. *)
PrunedBeforeMostImportantFirst(e, f) ==
  LET ue == isEventFromUnknownNara(e)
      uf == isEventFromUnknownNara(f)
      pe == eventPruningPriority(e)
      pf == eventPruningPriority(f)
  IN  IF ue # uf THEN ue
      ELSE IF pe # pf THEN pe < pf
      ELSE e.ts < f.ts

(* The comparator of the prune sort: unknown naras first, then the least     *)
(* important service, then the oldest.                                       *)
PrunedBefore(e, f) ==
  LET ue == isEventFromUnknownNara(e)
      uf == isEventFromUnknownNara(f)
      pe == eventPruningPriority(e)
      pf == eventPruningPriority(f)
  IN  IF ue # uf THEN ue
      ELSE IF pe # pf THEN pe > pf
      ELSE e.ts < f.ts

PruneOrders(s) ==
  {p \in Arrangements(DOMAIN s) :
     \A j, k \in DOMAIN s : j < k => ~PrunedBefore(s[p[k]], s[p[j]])}

Chronological(s) ==
  {p \in Arrangements(DOMAIN s) :
     \A j, k \in DOMAIN s : j < k => s[p[j]].ts <= s[p[k]].ts}

(* Mutant: the loop has no break at critical events. *)
RemovedCountPastCritical(s) == {Len(s) - MaxEvents}

(* How many of the first events the loop removes: it stops at toRemove or at *)
(* the first critical event.                                                 *)
RemovedCount(s) ==
  {n \in 0 .. (Len(s) - MaxEvents) :
     /\ \A i \in 1 .. n : ~Critical(s[i])
     /\ n = Len(s) - MaxEvents \/ Critical(s[n + 1])}

(* pruneUnlocked on contents s, ids and version v.  When nothing can be      *)
(* removed the events stay in prune order and the version is not touched.    *)
PruneTo(s, ids, v) ==
  IF Len(s) <= MaxEvents
  THEN events' = s /\ eventIDs' = ids /\ version' = v
  ELSE \E p \in PruneOrders(s) :
         LET sorted == Reordered(s, p)
         IN  \E n \in RemovedCount(sorted) :
               \/ /\ n = 0
                  /\ events' = sorted /\ eventIDs' = ids /\ version' = v
               \/ /\ n > 0 /\ v < VersionLimit
                  /\ LET kept == SubSeq(sorted, n + 1, Len(sorted))
                     IN  \E q \in Chronological(kept) : events' = Reordered(kept, q)
                  /\ eventIDs' = ids \ {sorted[i].id : i \in 1 .. n}
                  /\ version' = v + 1

-----------------------------------------------------------------------------
(* Adding *)

PairIndices(s, e) ==
  {i \in DOMAIN s : IsObservation(s[i]) /\ s[i].from = e.from /\ s[i].about = e.about}

(* Mutant: the cap is tested with > instead of >=. *)
EvictedForPairOffByOne(s, e) ==
  LET pair == PairIndices(s, e)
      soft == {i \in pair : s[i].kind # "restart"}
  IN  IF Cardinality(pair) <= MaxObservationsPerPair THEN {}
      ELSE IF soft # {} THEN Oldest(s, soft)
      ELSE IF HasCheckpoint(s, e.about) THEN Oldest(s, pair)
      ELSE {}

(* What compaction evicts before e is looked at any further: at the cap, the *)
(* oldest non-restart of the pair; failing that the oldest restart, but only *)
(* when a checkpoint about the subject is stored.                            *)
EvictedForPair(s, e) ==
  LET pair == PairIndices(s, e)
      soft == {i \in pair : s[i].kind # "restart"}
  IN  IF Cardinality(pair) < MaxObservationsPerPair THEN {}
      ELSE IF soft # {} THEN Oldest(s, soft)
      ELSE IF HasCheckpoint(s, e.about) THEN Oldest(s, pair)
      ELSE {}

ContentDuplicate(e) ==
  \E i \in DOMAIN events :
    LET f == events[i]
    IN  \/ /\ e.kind = "restart" /\ f.kind = "restart"
           /\ f.about = e.about /\ f.key = e.key
        \/ /\ e.kind = "first-seen" /\ f.kind = "first-seen"
           /\ f.from = e.from /\ f.about = e.about

addObservationWithCompaction(e, withDedup) ==
  /\ withDedup => ~ContentDuplicate(e)
  /\ LET evicted  == EvictedForPair(events, e)
         kept     == Without(events, evicted)
         keptIDs  == eventIDs \ {events[i].id : i \in evicted}
         accepted == e.ok /\ e.id \notin keptIDs
     IN  /\ evicted # {} => version < VersionLimit
         /\ events' = IF accepted THEN Append(kept, e) ELSE kept
         /\ eventIDs' = IF accepted THEN keptIDs \cup {e.id} ELSE keptIDs
         /\ version' = IF evicted = {} THEN version ELSE version + 1

PingIndices(s, e) == {i \in DOMAIN s : s[i].kind = "ping" /\ s[i].about = e.about}

(* Mutant: the limit is tested with > instead of >=. *)
EvictedForPingOffByOne(s, e) ==
  IF e.kind = "ping" /\ Cardinality(PingIndices(s, e)) > MaxPingsPerTarget
  THEN Oldest(s, PingIndices(s, e)) ELSE {}

EvictedForPing(s, e) ==
  IF e.kind = "ping" /\ Cardinality(PingIndices(s, e)) >= MaxPingsPerTarget
  THEN Oldest(s, PingIndices(s, e)) ELSE {}

AddNonObservation(e) ==
  /\ e.ok /\ e.id \notin eventIDs
  /\ LET evicted == EvictedForPing(events, e)
         v       == IF evicted = {} THEN version ELSE version + 1
     IN  /\ evicted # {} => version < VersionLimit
         /\ \A i \in evicted : e.ts > events[i].ts
         /\ PruneTo(Append(Without(events, evicted), e),
                    (eventIDs \ {events[i].id : i \in evicted}) \cup {e.id}, v)

(* AddEvent; MergeEvents is one such step per event, AddEventFiltered the    *)
(* same step taken only for events the personality lets through.             *)
AddEvent(e) ==
  /\ IF IsObservation(e) THEN addObservationWithCompaction(e, FALSE)
     ELSE AddNonObservation(e)
  /\ UNCHANGED known

AddEventWithDedup(e) ==
  /\ IsObservation(e)
  /\ addObservationWithCompaction(e, TRUE)
  /\ UNCHANGED known

-----------------------------------------------------------------------------
(* Removing *)

(* Mutant: the ids of purged events stay in the index. *)
RemoveEventsForKeepingIds(n) ==
  LET gone == {i \in DOMAIN events : n \in Involved(events[i])}
  IN  /\ gone # {} /\ version < VersionLimit
      /\ events' = Without(events, gone)
      /\ version' = version + 1
      /\ UNCHANGED <<eventIDs, known>>

(* Mutant: the version moves once for every event purged. *)
RemoveEventsForCountingEach(n) ==
  LET gone == {i \in DOMAIN events : n \in Involved(events[i])}
  IN  /\ gone # {} /\ version < VersionLimit
      /\ events' = Without(events, gone)
      /\ eventIDs' = eventIDs \ {events[i].id : i \in gone}
      /\ version' = version + Cardinality(gone)
      /\ UNCHANGED known

RemoveEventsFor(n) ==
  LET gone == {i \in DOMAIN events : n \in Involved(events[i])}
  IN  /\ gone # {} /\ version < VersionLimit
      /\ events' = Without(events, gone)
      /\ eventIDs' = eventIDs \ {events[i].id : i \in gone}
      /\ version' = version + 1
      /\ UNCHANGED known

Prune == PruneTo(events, eventIDs, version) /\ UNCHANGED known

(* A key arrives with a hey_there, and goes when the nara is pruned from the *)
(* neighbourhood: both change what hasPublicKeyFor answers.                  *)
KeyLearned(n) ==
  n \notin known /\ known' = known \cup {n} /\ UNCHANGED <<events, eventIDs, version>>
KeyForgotten(n) ==
  n \in known /\ known' = known \ {n} /\ UNCHANGED <<events, eventIDs, version>>

-----------------------------------------------------------------------------
LedgerInit ==
  /\ events = <<>>
  /\ eventIDs = {}
  /\ version = 0
  /\ known \in SUBSET Nara

LedgerNext ==
  \/ \E e \in Universe : AddEvent(e)
  \/ \E e \in Universe : AddEventWithDedup(e)
  \/ \E n \in Nara : RemoveEventsFor(n)
  \/ Prune
  \/ \E n \in Nara : KeyLearned(n)
  \/ \E n \in Nara : KeyForgotten(n)

LedgerSpec == LedgerInit /\ [][LedgerNext]_ledgerVars

-----------------------------------------------------------------------------
(* Properties *)

(* The variables hold what the Go types allow. *)
LedgerTypeOK ==
  /\ events \in Seq(Universe)
  /\ eventIDs \in SUBSET Id
  /\ version \in 0 .. VersionLimit
  /\ known \in SUBSET Nara

(* The dedup index and the log agree through every eviction, prune and       *)
(* purge: an id is in eventIDs exactly when one stored event carries it, and *)
(* no two do.  A stale id would make the ledger refuse an event it has lost, *)
(* a missing one would store it twice and count it twice.                    *)
IndexMatchesLog ==
  /\ eventIDs = IdsOf(events)
  /\ \A i, j \in DOMAIN events : i # j => events[i].id # events[j].id

(* AddEvent keeps at most MaxPingsPerTarget pings about a target, whatever   *)
(* order they arrive in ("keep the newest set for this target").             *)
PingsBounded ==
  \A n \in Nara :
    Cardinality({i \in DOMAIN events : events[i].kind = "ping" /\ events[i].about = n})
      <= MaxPingsPerTarget

(* A pair may exceed MaxObservationsPerPair only through restarts that no    *)
(* checkpoint covers yet: never by more than one other observation.          *)
OverCapOnlyRestarts ==
  \A o, n \in Nara :
    LET pair == {i \in DOMAIN events : IsObservation(events[i])
                                       /\ events[i].from = o /\ events[i].about = n}
    IN  Cardinality(pair) > MaxObservationsPerPair =>
          Cardinality({i \in pair : events[i].kind # "restart"}) <= 1

(* Critical history leaves the ledger only in three ways: a purge of a nara  *)
(* it involves (which leaves nothing of that nara), and compaction of a full *)
(* pair, which takes a restart only when a checkpoint covers its subject.    *)
CriticalHistoryKept ==
  [][\A e \in Elements(events) \ Elements(events') :
       Critical(e) =>
         \/ \E n \in Involved(e) : \A f \in Elements(events') : n \notin Involved(f)
         \/ /\ IsObservation(e)
            /\ Cardinality(PairIndices(events, e)) >= MaxObservationsPerPair
            /\ e.kind = "restart" => HasCheckpoint(events, e.about)]_ledgerVars

(* After an add that runs the pruning, the ledger is over MaxEvents only if  *)
(* everything left is critical, or a critical event involving an unknown     *)
(* nara sits at the front and stops the removal loop.                        *)
OverflowOnlyBehindCritical ==
  [][(\E e \in Elements(events') \ Elements(events) : ~IsObservation(e))
       /\ Len(events') > MaxEvents =>
         \/ \A e \in Elements(events') : Critical(e)
         \/ \E e \in Elements(events') : Critical(e) /\ isEventFromUnknownNara(e)]_ledgerVars
=============================================================================
