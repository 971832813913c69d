--------------------------- MODULE EventRetrieval ---------------------------
(***************************************************************************)
(* What a nara answers when another asks for its events (sync_ledger.go,   *)
(* sync_sampling.go, the handler in http_mesh.go), and what the asker lets *)
(* into its own ledger.  A ledger is the set of its events; an event is a  *)
(* record with ts, service, names (actor and target), importance, type and *)
(* reason.  The sorts are not stable, so an answer is one of a set.        *)
(***************************************************************************)
EXTENDS Integers, Sequences, FiniteSets, FiniteSetsExt, SequencesExt

NoCursor == 0      \* "" (timestamps are positive)

InOrder(S) ==
  {q \in SetToSeqs(S) : \A i, j \in DOMAIN q : i < j => q[i].ts <= q[j].ts}

Matching(S, services, subjects) ==
  {e \in S : /\ services # {} => e.service \in services
             /\ subjects # {} => e.names \cap subjects # {}}

FirstOf(q, n) == SubSeq(q, 1, IF Len(q) < n THEN Len(q) ELSE n)
LastOf(q, n) == IF Len(q) <= n THEN q ELSE SubSeq(q, Len(q) - n + 1, Len(q))

\* Every total-th event of q, from the index-th on (counted from 0).
Slice(q, index, total) ==
  {q[i] : i \in {i \in DOMAIN q : (i - 1) % total = index}}

GetEventsForSync(S, subjects, index, total, maxEvents) ==
  UNION { {ToSet(LastOf(r, maxEvents)) : r \in InOrder(Slice(q, index, total))}
            : q \in InOrder(Matching(S, {}, subjects)) }

\* Mutant: the cursor is the newest event's, not the page's last.
PageCursorOfNewest(q, page) == q[Len(q)].ts

PageCursor(q, page) == page[Len(page)].ts

GetEventsPage(S, cursor, pageSize, services) ==
  LET newer == {e \in Matching(S, services, {}) : e.ts > cursor}
  IN { LET page == FirstOf(q, pageSize)
       IN [events |-> ToSet(page),
           next |-> IF Len(page) = pageSize THEN PageCursor(q, page) ELSE NoCursor]
       : q \in InOrder(newer) }

GetRecentEvents(S, limit) == {ToSet(LastOf(q, limit)) : q \in InOrder(S)}

\* Mutant: checkpoints are sampled like everything else.
isCriticalButCheckpoint(e) ==
  e.service \in {"hey-there", "chau"} \/ (e.service = "observation" /\ e.importance = "critical")

isCriticalEvent(e) ==
  \/ e.service \in {"checkpoint", "hey-there", "chau"}
  \/ e.service = "observation" /\ e.importance = "critical"

\* The weights only shift the odds: any choice of the others is possible.
SampleEvents(S, sampleSize) ==
  LET critical == {e \in S : isCriticalEvent(e)}
      others == S \ critical
      room == sampleSize - Cardinality(critical)
  IN IF room <= 0 THEN {ToSet(FirstOf(q, sampleSize)) : q \in InOrder(critical)}
     ELSE {critical \cup T : T \in kSubset(IF Cardinality(others) < room THEN Cardinality(others) ELSE room, others)}

\* The answers to a request; a response has the cursor of page mode.
httpEventsSyncHandler(S, req) ==
  LET Plain(sets) == {[events |-> T, next |-> NoCursor] : T \in sets}
  IN CASE req.mode = "sample" -> Plain(SampleEvents(S, req.size))
       [] req.mode = "page"   -> GetEventsPage(S, req.cursor, req.size, {"checkpoint"})
       [] req.mode = "recent" -> Plain(GetRecentEvents(S, req.size))
       [] req.mode = "slice"  -> Plain(GetEventsForSync(S, req.subjects, req.index, req.total, req.size))

GetSocialEventsForSubjects(S, subjects) == Matching(S, {"social"}, subjects)

-----------------------------------------------------------------------------
(* The personality filters. *)

socialEventIsMeaningful(e, p) ==
  /\ ~(p.chill > 70 /\ e.reason = "random")
  /\ IF e.type = "observation"
     THEN \/ e.reason = "journey-timeout"
          \/ /\ ~(p.chill > 85 /\ e.reason \in {"online", "offline"})
             /\ ~(p.sociability < 30 /\ e.reason \in {"journey-pass", "journey-complete"})
     ELSE /\ p.chill > 85 => e.reason \in {"comeback", "high-restarts"}
          /\ ~(p.agreeableness > 80 /\ e.reason = "trend-abandon")
          /\ ~(p.sociability < 20 /\ e.reason = "random")

\* AddEventFiltered never filters what is critical.
PassesFilter(e, p) == ~(e.service = "observation" /\ e.importance = "normal" /\ p.chill > 85)
=============================================================================
