-------------------------- MODULE LedgerProjection --------------------------
(***************************************************************************)
(* A read model over the ledger (src/projections.go, type Projection, with *)
(* the handler of src/presence_projection.go).  A projection remembers a   *)
(* position and the ledger version it last saw; RunOnce reads the ledger   *)
(* under its read lock, but handles the events after releasing it, so the  *)
(* ledger moves on between the steps.  The state built is                  *)
(*   states: who is ONLINE or OFFLINE, by the newest event (online status) *)
(*   tally:  how often each event was handled since the last reset, all    *)
(*           that the clout and opinion projections, which add up or       *)
(*           collect, depend on.                                           *)
(***************************************************************************)
EXTENDS SyncLedger

VARIABLES
  pc,           \* "idle", "refetch" or "handling"
  position,     \* p.position
  lastVersion,  \* p.lastVersion
  batch,        \* the copy of the events still to be handled
  batchVersion, \* the version returned with that copy
  states,       \* OnlineStatusProjection.states
  tally,        \* id -> times handled since the last reset
  disturbed     \* history: the log was reordered since its version last moved

projVars == <<pc, position, lastVersion, batch, batchVersion, states, tally>>
vars == <<ledgerVars, projVars, disturbed>>

Unknown == [status |-> "", ts |-> 0]
NoStates == [n \in Nara |-> Unknown]
NoTally == [i \in Id |-> 0]

-----------------------------------------------------------------------------
(* handleEvent: the naras an event says something about, and what it says. *)
Affected(e) ==
  CASE e.kind = "checkpoint" -> {}
    [] e.kind = "social"     -> {e.from}
    [] e.kind = "ping"       -> {e.from, e.about}
    [] OTHER                 -> {e.about}

ImpliedStatus(e) ==
  CASE e.kind = "chau"          -> "OFFLINE"
    [] e.kind = "status-change" -> e.state
    [] OTHER                    -> "ONLINE"

(* Mutant: whatever is handled last wins. *)
SupersedesAlways(e, state) == TRUE

(* updateState: a strictly newer event replaces the state. *)
Supersedes(e, state) == e.ts > state.ts

handleEvent(e) ==
  /\ states' = [n \in Nara |->
                  IF n \in Affected(e) /\ Supersedes(e, states[n])
                  THEN [status |-> ImpliedStatus(e), ts |-> e.ts] ELSE states[n]]
  /\ tally' = [tally EXCEPT ![e.id] = @ + 1]

-----------------------------------------------------------------------------
(* RunOnce *)

GetEventsSince(k) == SubSeq(events, k + 1, Len(events))

(* Mutant: version 0 counts as "never run". *)
NeedsResetNotFromZero == version # lastVersion /\ lastVersion > 0

NeedsReset == version # lastVersion /\ lastVersion >= 0

(* Mutant: position is taken for the index of the last handled event. *)
FetchFromMinusOne ==
  /\ pc = "idle"
  /\ IF NeedsReset
     THEN /\ pc' = "refetch" /\ position' = -1
          /\ states' = NoStates /\ tally' = NoTally
          /\ UNCHANGED <<batch, batchVersion>>
     ELSE /\ pc' = "handling"
          /\ batch' = GetEventsSince(position) /\ batchVersion' = version
          /\ UNCHANGED <<position, states, tally>>
  /\ UNCHANGED <<ledgerVars, lastVersion, disturbed>>

(* First read of the ledger; on a changed version, forget everything. *)
Fetch ==
  /\ pc = "idle"
  /\ IF NeedsReset
     THEN /\ pc' = "refetch" /\ position' = 0
          /\ states' = NoStates /\ tally' = NoTally
          /\ UNCHANGED <<batch, batchVersion>>
     ELSE /\ pc' = "handling"
          /\ batch' = GetEventsSince(position) /\ batchVersion' = version
          /\ UNCHANGED <<position, states, tally>>
  /\ UNCHANGED <<ledgerVars, lastVersion, disturbed>>

(* Second read, from the start and sorted by timestamp. *)
Refetch ==
  /\ pc = "refetch"
  /\ pc' = "handling"
  /\ \E p \in Chronological(events) : batch' = Reordered(events, p)
  /\ batchVersion' = version
  /\ UNCHANGED <<ledgerVars, position, lastVersion, states, tally, disturbed>>

Handle ==
  /\ pc = "handling" /\ batch # <<>>
  /\ handleEvent(Head(batch))
  /\ position' = position + 1
  /\ batch' = Tail(batch)
  /\ UNCHANGED <<ledgerVars, pc, lastVersion, batchVersion, disturbed>>

(* Mutant: the version remembered is the ledger's, not that of the copy. *)
FinishAtCurrentVersion ==
  /\ pc = "handling" /\ batch = <<>>
  /\ lastVersion' = version
  /\ pc' = "idle"
  /\ UNCHANGED <<ledgerVars, position, batch, batchVersion, states, tally, disturbed>>

(* Mutant: the version is not remembered. *)
FinishWithoutVersion ==
  /\ pc = "handling" /\ batch = <<>>
  /\ pc' = "idle"
  /\ UNCHANGED <<ledgerVars, position, lastVersion, batch, batchVersion, states, tally,
                 disturbed>>

Finish ==
  /\ pc = "handling" /\ batch = <<>>
  /\ lastVersion' = batchVersion
  /\ pc' = "idle"
  /\ UNCHANGED <<ledgerVars, position, batch, batchVersion, states, tally, disturbed>>

RunOnce == Fetch \/ Refetch \/ Handle \/ Finish

LedgerStep ==
  /\ LedgerNext
  /\ disturbed' = (/\ version' = version
                   /\ \/ disturbed
                      \/ ~(Len(events') >= Len(events)
                           /\ SubSeq(events', 1, Len(events)) = events))
  /\ UNCHANGED projVars

-----------------------------------------------------------------------------
Init ==
  /\ LedgerInit
  /\ pc = "idle" /\ position = 0 /\ lastVersion = -1
  /\ batch = <<>> /\ batchVersion = 0
  /\ states = NoStates /\ tally = NoTally
  /\ disturbed = FALSE

Next == LedgerStep \/ RunOnce

(* The goroutine of RunContinuous runs again at least every 30 seconds (its  *)
(* ticker) and never blocks between two steps of a run.                      *)
Spec == Init /\ [][Next]_vars /\ WF_vars(RunOnce)

-----------------------------------------------------------------------------
(* Properties *)

TypeOK ==
  /\ LedgerTypeOK
  /\ pc \in {"idle", "refetch", "handling"}
  /\ position \in Nat
  /\ lastVersion \in -1 .. VersionLimit
  /\ batch \in Seq(Universe)
  /\ batchVersion \in 0 .. VersionLimit
  /\ states \in [Nara -> [status : OnlineState \cup {""}, ts : Nat]]
  /\ tally \in [Id -> Nat]
  /\ disturbed \in BOOLEAN

(* The projection has seen the whole ledger and nothing has changed since. *)
CaughtUp == pc = "idle" /\ lastVersion = version /\ position = Len(events)

HandledOnce == \A i \in Id : tally[i] = IF i \in eventIDs THEN 1 ELSE 0

(* A projection that has caught up has handled every stored event exactly    *)
(* once and none that has left, however adds, evictions and prunes fell      *)
(* between its reads -- unless a prune that removed nothing reordered the    *)
(* log without a version change.                                             *)
ExactUnlessDisturbed == CaughtUp /\ ~disturbed => HandledOnce

(* Then the online status of a nara is that of the newest stored event about *)
(* it ("most recent event wins"), and none if there is no such event.        *)
NewestEventWins ==
  CaughtUp /\ ~disturbed =>
    \A n \in Nara :
      LET about == {e \in Elements(events) : n \in Affected(e)}
      IN  IF about = {} THEN states[n] = Unknown
          ELSE \E e \in about :
                 /\ \A f \in about : f.ts <= e.ts
                 /\ states[n] = [status |-> ImpliedStatus(e), ts |-> e.ts]

(* A version the projection has not seen is always noticed: at no time does  *)
(* an idle projection of the current version stand past the end of the log,  *)
(* where it would skip the next events.                                      *)
NeverPastTheEnd == pc = "idle" /\ lastVersion = version => position <= Len(events)

(* Once the ledger is left alone the projection catches up; as its versions  *)
(* are bounded, it does so again and again in every behaviour.               *)
EventuallyCaughtUp == []<>CaughtUp

(* What projections.go:1-2 and the version field's comment ("Increments on   *)
(* structural changes", sync_ledger.go:100) promise without exception.       *)
Exact == CaughtUp => HandledOnce

=============================================================================
