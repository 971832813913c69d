--------------------------- MODULE PresenceProofs ---------------------------
(***************************************************************************)
(* Proofs about Presence for any number of episodes and any clock: type    *)
(* correctness, and that a nara that keeps running and can be reached is   *)
(* neither missed nor thought to have restarted.                           *)
(***************************************************************************)
EXTENDS Presence, WellFoundedInduction, NaturalsInduction, TLAPS

-----------------------------------------------------------------------------
(* The types *)

Kinds == {"hey-there", "chau", "social", "missing", "restart", "first-seen", "ping"}
Events == [ts : Nat, kind : Kinds, by : {"subject", "other", "me"}, num : Nat]
Onlines == Unmet \cup Away \cup {"ONLINE"}
Views == [online : Onlines, restarts : Nat]
States == [known : BOOLEAN, view : Views, ledger : SUBSET Events,
           restartReports : SUBSET Nat]

WorldOK ==
  /\ gossip \in BOOLEAN /\ status \in {"down", "up", "leaving"}
  /\ boots \in Nat /\ contacts \in Nat /\ syncs \in Nat
  /\ now \in Nat /\ stale \in Nat /\ ancient \in Nat /\ ancient <= stale /\ stale <= now
  /\ said \subseteq abroad /\ \A e \in said : Sent(e)
  /\ abroad \subseteq Events /\ \A e \in abroad : e.by # "me"

\* A message carries events that others may hold by now.
Carries(m, E) ==
  /\ m.kind \in {"hey-there", "chau", "dm"} => m.event \in E
  /\ m.kind = "chau" => m.event.kind = "chau"
  /\ m.kind \in {"zine", "reply"} => m.events \subseteq E

InboxOK == \A m \in inbox : Carries(m, abroad)

OpinionOK ==
  /\ known \in BOOLEAN /\ view \in Views /\ ledger \subseteq Events
  /\ \A e \in ledger \cup abroad : e.ts <= now
  /\ \A e, f \in ledger \cup abroad : e.ts = f.ts => e = f
  /\ known \/ view.online \notin {"ONLINE", "MISSING"}

GoroutinesOK ==
  /\ missingReports \in Nat /\ restartReports \subseteq Nat
  /\ missingReports > 0 => known
  /\ \/ snapshot = Idle
     \/ snapshot \in Views /\ (known \/ snapshot.online \notin {"ONLINE", "MISSING"})
  /\ settled \in BOOLEAN /\ attempted \in BOOLEAN /\ lastResult \in BOOLEAN
  /\ pinging \in {"nobody", "maintenance", "report"}
  /\ pinging # "nobody" => attempted /\ known
  /\ pinging = "maintenance" => snapshot # Idle

TypeInv == WorldOK /\ InboxOK /\ OpinionOK /\ GoroutinesOK

-----------------------------------------------------------------------------
(* The nara that keeps running *)

\* It has never stopped since it first started, or has not started yet.
Alive ==
  /\ ~gossip /\ syncs = 0
  /\ (boots = 0 /\ status = "down") \/ (boots = 1 /\ status = "up")

NewsSince(mark) == \E e \in ledger : e.ts > mark

\* Nothing under way is old.
Fresh(m) ==
  /\ m.kind \in {"hey-there", "dm"} => Recent(m.event)
  /\ m.kind \in {"zine", "reply"} => \A e \in m.events : Recent(e)

LiveInv ==
  Alive =>
    /\ view.online \in {"none", "ONLINE"}
    /\ boots = 0 => view.online = "none" /\ inbox = {} /\ \A e \in abroad : ~Sent(e)
    /\ \A e \in ledger \cup abroad : e.kind # "chau"
    /\ \A e \in ledger : e.by = "me" => e.kind \notin {"missing", "restart"}
    /\ missingReports = 0 /\ restartReports = {}
    /\ snapshot = Idle \/ (snapshot.online = "ONLINE" /\ view.online = "ONLINE")
    /\ pinging # "report"
    /\ \A m \in inbox : Fresh(m)
    /\ view.online = "ONLINE" => NewsSince(ancient)
    /\ settled /\ view.online = "ONLINE" => NewsSince(stale)
    /\ attempted /\ pinging = "nobody" => lastResult /\ NewsSince(stale)

\* Nobody runs who has not started.
Started == boots = 0 => status = "down"

PresenceInv == TypeInv /\ Started /\ LiveInv

-----------------------------------------------------------------------------
(* The ledger keeps its newest event *)

(* A set of naturals with a bound has a greatest member. *)
LEMMA GreatestNatural ==
  ASSUME NEW T \in SUBSET Nat, NEW b \in Nat, \A t \in T : t <= b, T # {}
  PROVE  \E t \in T : \A u \in T : u <= t
<1> DEFINE R == {b - t : t \in T}
<1>1. R \subseteq Nat /\ R # {}
  <2>1. \A t \in T : b - t \in Nat
    OBVIOUS
  <2> QED BY <2>1
<1> HIDE DEF R
<1>2. PICK m \in R : \A r \in R : ~(<<r, m>> \in OpToRel(<, Nat))
  BY <1>1, WFMin, NatLessThanWellFounded, Zenon
<1>3. \A r \in R : ~(r < m)
  BY <1>1, <1>2, Zenon DEF OpToRel
<1> USE DEF R
<1>4. PICK t \in T : m = b - t
  BY <1>2
<1>5. \A u \in T : ~(b - u < b - t)
  BY <1>3, <1>4
<1> QED BY <1>4, <1>5

(* What Kept leaves out is never the newest event. *)
LEMMA KeptNewest ==
  ASSUME NEW S \in SUBSET Events, NEW b \in Nat, \A e \in S : e.ts <= b, S # {}
  PROVE  \E e \in Kept(S) : \A f \in S : f.ts <= e.ts
<1> DEFINE T == {e.ts : e \in S}
<1>1. T \in SUBSET Nat /\ T # {} /\ \A t \in T : t <= b
  BY DEF Events
<1> HIDE DEF T
<1>2. PICK t \in T : \A u \in T : u <= t
  BY <1>1, GreatestNatural
<1>3. PICK e \in S : \A f \in S : f.ts <= e.ts
  BY <1>2 DEF T
<1>4. e \in Kept(S)
  BY <1>3, Zenon DEF Kept
<1> QED BY <1>3, <1>4

(* The ledger never gains an event by leaving some out. *)
LEMMA KeptSubset == \A S : Kept(S) \subseteq S
  BY Zenon DEF Kept

-----------------------------------------------------------------------------
(* What the helpers make of the observer's state *)

FirstSeen == Event("first-seen", "me", 0)

(* One field of the state set at a time: the others stay. *)
LEMMA SetKnown ==
  ASSUME NEW s \in States, NEW b \in BOOLEAN
  PROVE  LET t == [s EXCEPT !.known = b]
         IN  /\ t \in States /\ (t.known <=> b) /\ t.view = s.view /\ t.ledger = s.ledger
             /\ t.restartReports = s.restartReports
  BY DEF States

(* The same, of the observation. *)
LEMMA SetView ==
  ASSUME NEW s \in States, NEW v \in Views
  PROVE  LET t == [s EXCEPT !.view = v]
         IN  /\ t \in States /\ (t.known <=> s.known) /\ t.view = v /\ t.ledger = s.ledger
             /\ t.restartReports = s.restartReports
  BY DEF States

(* The same, of the ledger. *)
LEMMA SetLedger ==
  ASSUME NEW s \in States, NEW E \in SUBSET Events
  PROVE  LET t == [s EXCEPT !.ledger = E]
         IN  /\ t \in States /\ (t.known <=> s.known) /\ t.view = s.view /\ t.ledger = E
             /\ t.restartReports = s.restartReports
  BY DEF States

(* The same, of the reports. *)
LEMMA SetReports ==
  ASSUME NEW s \in States, NEW R \in SUBSET Nat
  PROVE  LET t == [s EXCEPT !.restartReports = R]
         IN  /\ t \in States /\ (t.known <=> s.known) /\ t.view = s.view /\ t.ledger = s.ledger
             /\ t.restartReports = R
  BY DEF States

(* The same, of the status. *)
LEMMA SetOnline ==
  ASSUME NEW s \in States, NEW o \in Onlines
  PROVE  LET t == [s EXCEPT !.view.online = o]
         IN  /\ t \in States /\ (t.known <=> s.known) /\ t.view.online = o
             /\ t.view.restarts = s.view.restarts /\ t.ledger = s.ledger
             /\ t.restartReports = s.restartReports
  BY DEF States, Views

(* Met, and with a status. *)
LEMMA SetSeen ==
  ASSUME NEW s \in States, NEW b \in BOOLEAN, NEW o \in Onlines
  PROVE  LET t == [s EXCEPT !.known = b, !.view.online = o]
         IN  /\ t \in States /\ (t.known <=> b) /\ t.view.online = o
             /\ t.view.restarts = s.view.restarts /\ t.ledger = s.ledger
             /\ t.restartReports = s.restartReports
  BY DEF States, Views

(* One more restart, and its report. *)
LEMMA SetRestarts ==
  ASSUME NEW s \in States, NEW n \in Nat
  PROVE  LET t == [s EXCEPT !.view.restarts = n, !.restartReports = @ \cup {n}]
         IN  /\ t \in States /\ (t.known <=> s.known) /\ t.view.online = s.view.online
             /\ t.ledger = s.ledger
  BY DEF States, Views

(* Events are added, and nothing else changes. *)
LEMMA AddFacts ==
  ASSUME NEW s \in States, NEW E \in SUBSET Events
  PROVE  /\ Add(s, E) \in States /\ Add(s, E).ledger = s.ledger \cup E
         /\ (Add(s, E).known <=> s.known) /\ Add(s, E).view = s.view
         /\ Add(s, E).restartReports = s.restartReports
  BY DEF States, Add

(* The nara is met, and nothing else changes. *)
LEMMA MeetFacts ==
  ASSUME NEW s \in States
  PROVE  /\ Meet(s) \in States /\ Meet(s).known /\ Meet(s).ledger = s.ledger
         /\ Meet(s).view = s.view /\ Meet(s).restartReports = s.restartReports
<1>1. TRUE \in BOOLEAN
  OBVIOUS
<1> QED BY <1>1, SetKnown, Zenon DEF Meet

(* The first meeting is the newest event there is. *)
LEMMA FirstSeenEvent ==
  ASSUME now \in Nat
  PROVE  FirstSeen \in Events /\ FirstSeen.ts = now + 1 /\ FirstSeen.by = "me"
         /\ FirstSeen.kind = "first-seen"
  BY DEF FirstSeen, Event, Events, Kinds

(* A sign of life: the nara is met, ONLINE when the sign is recent, and a    *)
(* first meeting goes into the ledger.                                       *)
LEMMA RecordFacts ==
  ASSUME now \in Nat, NEW s \in States, NEW recent \in BOOLEAN
  PROVE  LET r == recordObservationOnlineNara(s, recent)
         IN  /\ r \in States
             /\ r = s \/ r.known
             /\ s.ledger \subseteq r.ledger /\ r.ledger \subseteq s.ledger \cup {FirstSeen}
             /\ recent => r.known /\ r.view.online = "ONLINE"
             /\ recent /\ s.view.online \in Unmet => FirstSeen \in r.ledger
             /\ s.view.online \notin Away => r.restartReports = s.restartReports
<1> DEFINE o == IF recent THEN "ONLINE" ELSE IF s.view.online = "none" THEN "" ELSE s.view.online
           seen == [s EXCEPT !.known = TRUE, !.view.online = o]
           n == s.view.restarts + 1
           r == recordObservationOnlineNara(s, recent)
<1>1. s.view.online \in Onlines /\ s.view.restarts \in Nat /\ s.known \in BOOLEAN
  BY DEF States, Views
<1>2. o \in Onlines /\ (recent => o = "ONLINE") /\ TRUE \in BOOLEAN
  BY <1>1 DEF Onlines, Unmet
<1> HIDE DEF o
<1>3. /\ seen \in States /\ seen.known /\ seen.view.online = o
      /\ seen.view.restarts = s.view.restarts /\ seen.ledger = s.ledger
      /\ seen.restartReports = s.restartReports
  BY <1>2, SetSeen
<1>4. n \in Nat
  BY <1>1
<1>5. r = CASE ~s.known /\ ~recent -> s
            [] s.view.online \in Unmet /\ (s.known \/ recent) -> Add(seen, {FirstSeen})
            [] s.view.online \in Away /\ (s.known \/ recent) ->
                 [seen EXCEPT !.view.restarts = n, !.restartReports = @ \cup {n}]
            [] OTHER -> seen
  BY Zenon DEF recordObservationOnlineNara, FirstSeen, o
<1> HIDE DEF seen, n, r
<1>6. FirstSeen \in Events
  BY FirstSeenEvent
<1>7. CASE ~s.known /\ ~recent
  <2>1. r = s
    BY <1>5, <1>7 DEF Unmet, Away
  <2> QED BY <1>7, <2>1 DEF r
<1>8. CASE s.view.online \in Unmet /\ (s.known \/ recent)
  <2>1. r = Add(seen, {FirstSeen})
    BY <1>5, <1>8 DEF Unmet, Away
  <2>2. /\ r \in States /\ r.ledger = s.ledger \cup {FirstSeen} /\ (r.known <=> seen.known)
        /\ r.view = seen.view /\ r.restartReports = s.restartReports
    BY <1>3, <1>6, <2>1, AddFacts
  <2> QED BY <1>2, <1>3, <2>2 DEF r
<1>9. CASE s.view.online \in Away /\ (s.known \/ recent)
  <2>1. r = [seen EXCEPT !.view.restarts = n, !.restartReports = @ \cup {n}]
    BY <1>5, <1>9 DEF Unmet, Away
  <2>2. /\ r \in States /\ (r.known <=> seen.known) /\ r.view.online = seen.view.online
        /\ r.ledger = seen.ledger
    BY <1>3, <1>4, <2>1, SetRestarts
  <2>3. s.view.online \notin Unmet
    BY <1>9 DEF Unmet, Away
  <2> QED BY <1>2, <1>3, <1>9, <2>2, <2>3 DEF r
<1>10. CASE s.view.online \notin Unmet \cup Away /\ (s.known \/ recent)
  <2>1. r = seen
    BY <1>5, <1>10
  <2> QED BY <1>2, <1>3, <1>10, <2>1 DEF r
<1> QED BY <1>7, <1>8, <1>9, <1>10

\* What the observer may conclude from its own state and events of the others ...
Proper(s) ==
  /\ s \in States
  /\ ledger \subseteq s.ledger /\ s.ledger \subseteq ledger \cup abroad \cup {FirstSeen}
  /\ known => s.known
  /\ s.known \/ s.view.online \notin {"ONLINE", "MISSING"}

\* ... and what it may not, of a nara that is there.
Lively(s) ==
  /\ s.view.online \in {"none", "ONLINE"} /\ s.restartReports = {}
  /\ s.view.online = "ONLINE" => view.online = "ONLINE" \/ FirstSeen \in s.ledger
  /\ view.online = "ONLINE" => s.view.online = "ONLINE"

(* The state it has is one it may conclude. *)
LEMMA ProperCurrent ==
  ASSUME TypeInv
  PROVE  /\ Proper(Current)
         /\ view.online \in {"none", "ONLINE"} /\ restartReports = {} => Lively(Current)
<1>1. /\ known \in BOOLEAN /\ view \in Views /\ ledger \in SUBSET Events
      /\ restartReports \in SUBSET Nat
      /\ known \/ view.online \notin {"ONLINE", "MISSING"}
  BY DEF TypeInv, OpinionOK, GoroutinesOK
<1>2. /\ Current \in States /\ (Current.known <=> known) /\ Current.view = view
      /\ Current.ledger = ledger /\ Current.restartReports = restartReports
  BY <1>1 DEF Current, States
<1> QED BY <1>1, <1>2 DEF Proper, Lively

(* Events that others hold may be added. *)
LEMMA ProperAdd ==
  ASSUME TypeInv, NEW s, Proper(s), NEW E \in SUBSET abroad
  PROVE  Proper(Add(s, E)) /\ (Lively(s) => Lively(Add(s, E)))
<1>1. E \in SUBSET Events /\ s \in States
  BY DEF TypeInv, WorldOK, Proper
<1>2. /\ Add(s, E) \in States /\ Add(s, E).ledger = s.ledger \cup E
      /\ (Add(s, E).known <=> s.known) /\ Add(s, E).view = s.view
      /\ Add(s, E).restartReports = s.restartReports
  BY <1>1, AddFacts
<1> QED BY <1>2 DEF Proper, Lively

(* A nara may be met. *)
LEMMA ProperMeet ==
  ASSUME NEW s, Proper(s)
  PROVE  Proper(Meet(s)) /\ (Lively(s) => Lively(Meet(s)))
<1>1. /\ Meet(s) \in States /\ Meet(s).known /\ Meet(s).ledger = s.ledger
      /\ Meet(s).view = s.view /\ Meet(s).restartReports = s.restartReports
  BY MeetFacts DEF Proper
<1> QED BY <1>1 DEF Proper, Lively

(* A sign of life may be recorded. *)
LEMMA ProperRecord ==
  ASSUME TypeInv, NEW s, Proper(s), NEW recent \in BOOLEAN
  PROVE  LET r == recordObservationOnlineNara(s, recent)
         IN  Proper(r) /\ (Lively(s) /\ recent => Lively(r))
<1> DEFINE r == recordObservationOnlineNara(s, recent)
<1>1. now \in Nat /\ s \in States
  BY DEF TypeInv, WorldOK, Proper
<1>2. /\ r \in States
      /\ r = s \/ r.known
      /\ s.ledger \subseteq r.ledger /\ r.ledger \subseteq s.ledger \cup {FirstSeen}
      /\ recent => r.known /\ r.view.online = "ONLINE"
      /\ recent /\ s.view.online \in Unmet => FirstSeen \in r.ledger
      /\ s.view.online \notin Away => r.restartReports = s.restartReports
  BY <1>1, RecordFacts
<1> HIDE DEF r
<1>3. Proper(r)
  BY <1>2 DEF Proper
<1>4. ASSUME Lively(s), recent PROVE Lively(r)
  BY <1>2, <1>4 DEF Lively, Away, Unmet
<1> QED BY <1>3, <1>4 DEF r

(* A goodbye may be believed. *)
LEMMA ProperOffline ==
  ASSUME NEW s, Proper(s)
  PROVE  Proper([s EXCEPT !.view.online = "OFFLINE"])
<1> DEFINE t == [s EXCEPT !.view.online = "OFFLINE"]
<1>1. "OFFLINE" \in Onlines
  BY DEF Onlines, Away
<1>2. /\ t \in States /\ (t.known <=> s.known) /\ t.view.online = "OFFLINE"
      /\ t.ledger = s.ledger
  BY <1>1, SetOnline DEF Proper
<1> HIDE DEF t
<1>3. Proper(t)
  BY <1>2 DEF Proper
<1> QED BY <1>3 DEF t

(* A batch of events, whichever of them comes first. *)
LEMMA ProperMerge ==
  ASSUME TypeInv, NEW s, Proper(s), NEW batch \in SUBSET abroad,
         NEW r \in MergeSyncEventsWithVerification(s, batch)
  PROVE  /\ Proper(r)
         /\ Lively(s) /\ (\A e \in batch : Recent(e) /\ e.kind # "chau") => Lively(r)
<1>1. CASE batch = {}
  <2>1. r = s
    BY <1>1, Zenon DEF MergeSyncEventsWithVerification
  <2> QED BY <2>1
<1>2. CASE batch # {}
  <2> DEFINE met(first) == processHeyThereSyncEvents(discoverNarasFromEvents(s, first), batch)
  <2>1. PICK p \in batch \X batch :
          r = Add(markEmittersAsSeen(processChauSyncEvents(met(p[1]), batch), batch, p[2]), batch)
    BY <1>2, Zenon DEF MergeSyncEventsWithVerification
  <2>2. PICK first \in batch, mine \in batch :
          r = Add(markEmittersAsSeen(processChauSyncEvents(met(first), batch), batch, mine), batch)
    BY <2>1
  <2> DEFINE a == discoverNarasFromEvents(s, first)
             b == met(first)
             c == processChauSyncEvents(b, batch)
             d == markEmittersAsSeen(c, batch, mine)
  <2>3. Proper(a) /\ (Lively(s) => Lively(a))
    <3>1. a = s \/ a = Meet(s)
      BY Zenon DEF discoverNarasFromEvents
    <3> QED BY <3>1, ProperMeet
  <2>4. Proper(b) /\ (Lively(s) => Lively(b))
    <3>1. b = a \/ b = Meet(a)
      BY Zenon DEF processHeyThereSyncEvents
    <3> HIDE DEF a, b
    <3> QED BY <2>3, <3>1, ProperMeet
  <2>5. Proper(c) /\ (Lively(s) /\ (\A e \in batch : e.kind # "chau") => Lively(c))
    <3>1. c = b \/ (c = [b EXCEPT !.view.online = "OFFLINE"] /\ \E e \in batch : e.kind = "chau")
      BY Zenon DEF processChauSyncEvents, Chaus
    <3> HIDE DEF b, c
    <3> QED BY <2>4, <3>1, ProperOffline
  <2>6. /\ Proper(d)
        /\ Lively(s) /\ (\A e \in batch : Recent(e) /\ e.kind # "chau") => Lively(d)
    <3>1. d = c \/ d = recordObservationOnlineNara(c, Recent(mine))
      BY Zenon DEF markEmittersAsSeen
    <3>2. Recent(mine) \in BOOLEAN
      BY DEF Recent
    <3> HIDE DEF c, d
    <3> QED BY <2>5, <3>1, <3>2, ProperRecord
  <2>7. r = Add(d, batch)
    BY <2>2
  <2> HIDE DEF d
  <2> QED BY <2>6, <2>7, ProperAdd
<1> QED BY <1>1, <1>2

-----------------------------------------------------------------------------
(* Type correctness, group by group *)

(* The observer concludes: a proper state becomes its own. *)
LEMMA Concludes ==
  ASSUME TypeInv, NEW s, Proper(s), Becomes(s), abroad' = abroad
  PROVE  /\ OpinionOK' /\ restartReports' \subseteq Nat /\ (known => known')
         /\ now' \in Nat /\ now <= now'
<1>1. /\ s \in States /\ s.ledger \subseteq ledger \cup abroad \cup {FirstSeen}
      /\ known => s.known
      /\ s.known \/ s.view.online \notin {"ONLINE", "MISSING"}
  BY DEF Proper
<1>2. /\ known' = s.known /\ view' = s.view /\ ledger' = Kept(s.ledger)
      /\ restartReports' = s.restartReports
      /\ now' = IF \E e \in s.ledger : e.ts > now THEN now + 1 ELSE now
  BY DEF Becomes
<1>3. s.known \in BOOLEAN /\ s.view \in Views /\ s.ledger \subseteq Events
      /\ s.restartReports \subseteq Nat
  BY <1>1 DEF States
<1>4. /\ now \in Nat /\ abroad \subseteq Events /\ ledger \subseteq Events
      /\ \A e \in ledger \cup abroad : e.ts <= now
      /\ \A e, f \in ledger \cup abroad : e.ts = f.ts => e = f
  BY DEF TypeInv, WorldOK, OpinionOK
<1>5. FirstSeen.ts = now + 1
  BY <1>4, FirstSeenEvent
<1>6. now' \in Nat /\ now <= now' /\ (FirstSeen \in s.ledger => now' = now + 1)
  BY <1>2, <1>4, <1>5
<1>7. ledger' \subseteq s.ledger
  BY <1>2, KeptSubset
<1>8. \A e \in ledger' \cup abroad : e \in ledger \cup abroad \/ (e = FirstSeen /\ e \in s.ledger)
  BY <1>1, <1>7
<1>9. \A e \in ledger' \cup abroad : e.ts <= now'
  <2>1. ASSUME NEW e \in ledger' \cup abroad PROVE e.ts <= now'
    <3>1. CASE e \in ledger \cup abroad
      <4>1. e.ts \in Nat /\ e.ts <= now
        BY <1>4, <3>1 DEF Events
      <4> QED BY <1>4, <1>6, <4>1
    <3>2. CASE e = FirstSeen /\ e \in s.ledger
      BY <1>5, <1>6, <3>2
    <3> QED BY <1>8, <3>1, <3>2
  <2> QED BY <2>1
<1>10. \A e, f \in ledger' \cup abroad : e.ts = f.ts => e = f
  <2>1. \A e \in ledger \cup abroad : e.ts # FirstSeen.ts
    <3>1. \A e \in ledger \cup abroad : e.ts \in Nat /\ e.ts <= now
      BY <1>4 DEF Events
    <3> QED BY <1>4, <1>5, <3>1
  <2> QED BY <1>4, <1>8, <2>1
<1>11. known' \in BOOLEAN /\ view' \in Views /\ ledger' \subseteq Events
  BY <1>2, <1>3, <1>7
<1>12. known' \/ view'.online \notin {"ONLINE", "MISSING"}
  BY <1>1, <1>2
<1>13. OpinionOK'
  BY <1>9, <1>10, <1>11, <1>12 DEF OpinionOK
<1> QED BY <1>1, <1>2, <1>3, <1>6, <1>13

(* What is said or reported is new to everyone. *)
LEMMA NewEvent ==
  ASSUME TypeInv, NEW kind \in Kinds, NEW by \in {"subject", "other", "me"}, NEW num \in Nat
  PROVE  LET e == Event(kind, by, num)
         IN  /\ e \in Events /\ e.ts = now + 1 /\ e.by = by /\ e.kind = kind
             /\ \A f \in ledger \cup abroad : f.ts <= now /\ f.ts \in Nat
  BY DEF Event, Events, TypeInv, WorldOK, OpinionOK

(* What others say leaves the observer's opinion as it was. *)
LEMMA NewEventAbroad ==
  ASSUME TypeInv, NEW kind \in Kinds, NEW by \in {"subject", "other"}, NEW num \in Nat,
         abroad' = abroad \cup {Event(kind, by, num)}, now' = now + 1, UNCHANGED opinion
  PROVE  /\ OpinionOK' /\ now' \in Nat /\ now <= now'
         /\ abroad' \subseteq Events /\ \A e \in abroad' : e.by # "me"
<1> DEFINE n == Event(kind, by, num)
<1>1. /\ n \in Events /\ n.ts = now + 1 /\ n.by = by
      /\ \A f \in ledger \cup abroad : f.ts <= now /\ f.ts \in Nat
  BY NewEvent
<1> HIDE DEF n
<1>2. known' = known /\ view' = view /\ ledger' = ledger
  BY DEF opinion
<1>3. /\ now \in Nat /\ abroad \subseteq Events /\ \A e \in abroad : e.by # "me"
      /\ \A e, f \in ledger \cup abroad : e.ts = f.ts => e = f
      /\ known \in BOOLEAN /\ view \in Views /\ ledger \subseteq Events
      /\ known \/ view.online \notin {"ONLINE", "MISSING"}
  BY DEF TypeInv, WorldOK, OpinionOK
<1>4. abroad' = abroad \cup {n}
  BY DEF n
<1>5. \A e \in ledger' \cup abroad' : e = n \/ e \in ledger \cup abroad
  BY <1>2, <1>4
<1>6. \A f \in ledger \cup abroad : f.ts # n.ts
  BY <1>1, <1>3
<1>7. \A e, f \in ledger' \cup abroad' : e.ts = f.ts => e = f
  BY <1>3, <1>5, <1>6
<1>8. \A e \in ledger' \cup abroad' : e.ts <= now'
  BY <1>1, <1>3, <1>5
<1>9. OpinionOK'
  BY <1>2, <1>3, <1>7, <1>8 DEF OpinionOK
<1> QED BY <1>1, <1>3, <1>4, <1>9

\* The observer's goroutines are not concerned.
LEMMA GoroutinesStay ==
  ASSUME GoroutinesOK, UNCHANGED <<reports, ping, maintenance, known>>
  PROVE  GoroutinesOK'
  BY DEF GoroutinesOK, reports, ping, maintenance

(* Messages stay what they were while others come to hold more. *)
LEMMA InboxStays ==
  ASSUME InboxOK, abroad \subseteq abroad', \A m \in inbox' : m \in inbox \/ Carries(m, abroad')
  PROVE  InboxOK'
<1>1. \A m : Carries(m, abroad) => Carries(m, abroad')
  BY DEF Carries
<1> QED BY <1>1 DEF InboxOK

(* The subject says something: it holds it, and others may come to. *)
LEMMA SaysKeeps ==
  ASSUME TypeInv, NEW kind \in {"hey-there", "chau", "social"}, NEW kept \in SUBSET said,
         Say(kind, kept), UNCHANGED <<gossip, stale, ancient, opinion>>,
         status' \in {"down", "up", "leaving"}, boots' \in Nat, contacts' \in Nat, syncs' \in Nat
  PROVE  /\ WorldOK' /\ OpinionOK' /\ abroad \subseteq abroad' /\ said' \subseteq abroad'
         /\ Own(kind) \in abroad' /\ Own(kind).kind = kind
<1>1. now' = now + 1 /\ said' = kept \cup {Own(kind)} /\ abroad' = abroad \cup {Own(kind)}
  BY DEF Say
<1>2. kind \in Kinds
  BY DEF Kinds
<1>3. /\ OpinionOK' /\ now' \in Nat /\ now <= now'
      /\ abroad' \subseteq Events /\ \A e \in abroad' : e.by # "me"
  BY <1>1, <1>2, NewEventAbroad DEF Own
<1>4. Sent(Own(kind)) /\ Own(kind).kind = kind
  BY DEF Sent, Own, Event
<1>5. said \subseteq abroad /\ \A e \in said : Sent(e)
  BY DEF TypeInv, WorldOK
<1>6. said' \subseteq abroad' /\ \A e \in said' : Sent(e)
  BY <1>1, <1>4, <1>5
<1>7. stale' \in Nat /\ ancient' \in Nat /\ ancient' <= stale' /\ stale' <= now'
  BY <1>3 DEF TypeInv, WorldOK
<1>8. gossip' \in BOOLEAN
  BY DEF TypeInv, WorldOK
<1>9. WorldOK'
  BY <1>3, <1>6, <1>7, <1>8 DEF WorldOK, Sent
<1> QED BY <1>1, <1>3, <1>4, <1>6, <1>9

(* What the subject does *)
LEMMA SubjectKeepsTypes ==
  ASSUME TypeInv, Subject
  PROVE  TypeInv'
<1>1. WorldOK /\ InboxOK /\ OpinionOK /\ GoroutinesOK
  BY DEF TypeInv
<1>2. boots \in Nat /\ contacts \in Nat /\ syncs \in Nat /\ boots + 1 \in Nat
      /\ contacts + 1 \in Nat
  BY <1>1 DEF WorldOK
<1>3. /\ gossip' = gossip /\ stale' = stale /\ ancient' = ancient /\ syncs' = syncs
      /\ UNCHANGED <<opinion, reports, ping, maintenance>>
  BY DEF Subject, Start, heyThereAgain, announce, Chau, Exit, SendDM, performGossipRound, Elsewhere
<1>4. GoroutinesOK'
  BY <1>1, <1>3, GoroutinesStay DEF opinion
<1>5. ASSUME NEW kept \in SUBSET said, heyThere(kept), status' \in {"down", "up", "leaving"},
             boots' \in Nat, contacts' \in Nat
      PROVE  TypeInv'
  <2> DEFINE m == [kind |-> "hey-there", event |-> Own("hey-there")]
  <2>1. Say("hey-there", kept) /\ inbox' \subseteq inbox \cup {m}
    BY <1>5 DEF heyThere, postEvent
  <2>2. /\ WorldOK' /\ OpinionOK' /\ abroad \subseteq abroad' /\ Own("hey-there") \in abroad'
    BY <1>2, <1>3, <1>5, <2>1, SaysKeeps
  <2>3. Carries(m, abroad')
    BY <2>2 DEF Carries
  <2> HIDE DEF m
  <2>4. InboxOK'
    BY <1>1, <2>1, <2>2, <2>3, InboxStays
  <2> QED BY <1>4, <2>2, <2>4 DEF TypeInv
<1>6. CASE Start
  <2>1. /\ heyThere({}) \/ heyThere(said)
        /\ status' = "up" /\ boots' = boots + 1 /\ contacts' = contacts
    BY <1>6 DEF Start
  <2> QED BY <1>2, <1>5, <2>1
<1>7. CASE heyThereAgain
  <2>1. heyThere(said) /\ contacts' = contacts + 1 /\ status' = status /\ boots' = boots
    BY <1>7 DEF heyThereAgain, Contact
  <2> QED BY <1>1, <1>2, <1>5, <2>1 DEF WorldOK
<1>8. ASSUME UNCHANGED <<subject, abroad, now>>, contacts' \in Nat,
             \A m \in inbox' : m \in inbox \/ Carries(m, abroad)
      PROVE  TypeInv'
  <2>1. WorldOK'
    BY <1>1, <1>2, <1>3, <1>8 DEF WorldOK, subject, Sent
  <2>2. OpinionOK'
    BY <1>1, <1>3, <1>8 DEF OpinionOK, opinion
  <2>3. InboxOK'
    BY <1>1, <1>8, InboxStays
  <2> QED BY <1>4, <2>1, <2>2, <2>3 DEF TypeInv
<1>9. CASE announce
  <2>1. /\ inbox' \subseteq inbox \cup {[kind |-> "newspaper"]} /\ UNCHANGED <<subject, abroad, now>>
        /\ contacts' = contacts + 1
    BY <1>9 DEF announce, Contact, postEvent
  <2>2. Carries([kind |-> "newspaper"], abroad)
    BY DEF Carries
  <2> QED BY <1>2, <1>8, <2>1, <2>2
<1>10. CASE Chau
  <2> DEFINE m == [kind |-> "chau", event |-> Own("chau")]
  <2>1. Say("chau", said) /\ inbox' \subseteq inbox \cup {m} /\ status' = "leaving"
        /\ boots' = boots /\ contacts' = contacts
    BY <1>10 DEF Chau, postEvent
  <2>2. /\ WorldOK' /\ OpinionOK' /\ abroad \subseteq abroad' /\ Own("chau") \in abroad'
        /\ Own("chau").kind = "chau"
    BY <1>2, <1>3, <2>1, SaysKeeps
  <2>3. Carries(m, abroad')
    BY <2>2 DEF Carries
  <2> HIDE DEF m
  <2>4. InboxOK'
    BY <1>1, <2>1, <2>2, <2>3, InboxStays
  <2> QED BY <1>4, <2>2, <2>4 DEF TypeInv
<1>11. CASE Exit
  <2>1. /\ status' = "down"
        /\ UNCHANGED <<boots, said, abroad, now, inbox, contacts>>
    BY <1>11 DEF Exit
  <2>2. WorldOK'
    BY <1>1, <1>2, <1>3, <2>1 DEF WorldOK, Sent
  <2>3. OpinionOK'
    BY <1>1, <1>3, <2>1 DEF OpinionOK, opinion
  <2>4. InboxOK'
    BY <1>1, <2>1, InboxStays
  <2> QED BY <1>4, <2>2, <2>3, <2>4 DEF TypeInv
<1>12. CASE SendDM
  <2> DEFINE m == [kind |-> "dm", event |-> Own("social")]
  <2>1. Say("social", said) /\ inbox' \subseteq inbox \cup {m} /\ status' = status
        /\ boots' = boots /\ contacts' = contacts + 1
    BY <1>12 DEF SendDM, Contact
  <2>2. /\ WorldOK' /\ OpinionOK' /\ abroad \subseteq abroad' /\ Own("social") \in abroad'
    <3>1. status' \in {"down", "up", "leaving"}
      BY <1>1, <2>1 DEF WorldOK
    <3> QED BY <1>2, <1>3, <2>1, <3>1, SaysKeeps
  <2>3. Carries(m, abroad')
    BY <2>2 DEF Carries
  <2> HIDE DEF m
  <2>4. InboxOK'
    BY <1>1, <2>1, <2>2, <2>3, InboxStays
  <2> QED BY <1>4, <2>2, <2>4 DEF TypeInv
<1>13. CASE performGossipRound
  <2> DEFINE m == [kind |-> "zine", events |-> createZine(said)]
  <2>1. /\ inbox' \subseteq inbox \cup {m} /\ UNCHANGED <<subject, abroad, now>>
        /\ contacts' = contacts + 1
    BY <1>13 DEF performGossipRound, Contact
  <2>2. createZine(said) \subseteq abroad
    BY <1>1 DEF createZine, WorldOK
  <2>3. Carries(m, abroad)
    BY <2>2 DEF Carries
  <2> HIDE DEF m
  <2> QED BY <1>2, <1>8, <2>1, <2>3
<1> QED BY <1>6, <1>7, <1>9, <1>10, <1>11, <1>12, <1>13 DEF Subject

(* The observer concludes something, and takes a message from its inbox or   *)
(* gets one.                                                                 *)
LEMMA ConcludingKeepsTypes ==
  ASSUME TypeInv, Concluding, NEW s, Proper(s), Becomes(s),
         contacts' \in Nat, syncs' \in Nat, inbox' \subseteq inbox
  PROVE  TypeInv'
<1>1. WorldOK /\ InboxOK /\ OpinionOK /\ GoroutinesOK
  BY DEF TypeInv
<1>2. /\ gossip' = gossip /\ status' = status /\ boots' = boots /\ said' = said
      /\ abroad' = abroad /\ stale' = stale /\ ancient' = ancient
      /\ missingReports' = missingReports /\ UNCHANGED <<ping, maintenance>>
  BY DEF Concluding, subject
<1>3. /\ OpinionOK' /\ restartReports' \subseteq Nat /\ (known => known')
      /\ now' \in Nat /\ now <= now'
  BY <1>2, Concludes
<1>4. stale <= now'
  BY <1>1, <1>3 DEF WorldOK
<1>5. WorldOK'
  BY <1>1, <1>2, <1>3, <1>4 DEF WorldOK, Sent
<1>6. GoroutinesOK'
  BY <1>1, <1>2, <1>3 DEF GoroutinesOK, ping, maintenance
<1>7. InboxOK'
  BY <1>1, <1>2 DEF InboxOK
<1> QED BY <1>3, <1>5, <1>6, <1>7 DEF TypeInv

(* Reports of others are no sign of life. *)
LEMMA MergeUnsent ==
  ASSUME NEW s \in States, NEW batch \in SUBSET Events,
         \A e \in batch : ~Sent(e) /\ e.kind # "chau",
         NEW r \in MergeSyncEventsWithVerification(s, batch)
  PROVE  r.view = s.view
<1>1. CASE batch = {}
  <2>1. r = s
    BY <1>1, Zenon DEF MergeSyncEventsWithVerification
  <2> QED BY <2>1
<1>2. CASE batch # {}
  <2> DEFINE met(first) == processHeyThereSyncEvents(discoverNarasFromEvents(s, first), batch)
  <2>1. PICK p \in batch \X batch :
          r = Add(markEmittersAsSeen(processChauSyncEvents(met(p[1]), batch), batch, p[2]), batch)
    BY <1>2, Zenon DEF MergeSyncEventsWithVerification
  <2>2. PICK first \in batch, mine \in batch :
          r = Add(markEmittersAsSeen(processChauSyncEvents(met(first), batch), batch, mine), batch)
    BY <2>1
  <2> DEFINE a == discoverNarasFromEvents(s, first)
             b == met(first)
             c == processChauSyncEvents(b, batch)
             d == markEmittersAsSeen(c, batch, mine)
  <2>3. a \in States /\ a.view = s.view
    <3>1. a = s \/ a = Meet(s)
      BY Zenon DEF discoverNarasFromEvents
    <3> QED BY <3>1, MeetFacts
  <2>4. b \in States /\ b.view = s.view
    <3>1. b = a \/ b = Meet(a)
      BY Zenon DEF processHeyThereSyncEvents
    <3> HIDE DEF a, b
    <3> QED BY <2>3, <3>1, MeetFacts
  <2>5. c = b
    <3>1. ~ \E e \in batch : e.kind = "chau"
      OBVIOUS
    <3>2. Chaus(batch) = {}
      BY <3>1 DEF Chaus
    <3> QED BY <3>2, Zenon DEF processChauSyncEvents
  <2>6. d = c
    <3>1. ~Sent(mine)
      OBVIOUS
    <3> QED BY <3>1, Zenon DEF markEmittersAsSeen
  <2>7. r = Add(b, batch)
    BY <2>2, <2>5, <2>6
  <2> HIDE DEF b
  <2> QED BY <2>4, <2>7, AddFacts
<1> QED BY <1>1, <1>2

\* What reaches the observer, and what it makes of it.
Hearing ==
  \/ \E m \in inbox :
       \/ handleHeyThereEvent(m) \/ handleChauEvent(m) \/ handleNewspaperEvent(m)
       \/ httpDMHandler(m) \/ httpGossipZineHandler(m) \/ zineReceived(m)
  \/ discoverMeshPeers
  \/ \E batch \in SUBSET createZine(abroad) : ZineOfAnother(batch)
  \/ \E batch \in SUBSET abroad : performBackgroundSync(batch)

(* Whatever it is, the observer's next state is a proper one; and about a    *)
(* nara that keeps running it is a lively one.                               *)
LEMMA HearingConcludes ==
  ASSUME TypeInv, Hearing
  PROVE  /\ Concluding /\ inbox' \subseteq inbox /\ contacts' \in Nat /\ syncs' \in Nat
         /\ \E s : /\ Proper(s) /\ Becomes(s)
                   /\ LiveInv /\ Alive' =>
                        /\ Alive /\ Lively(s)
                        /\ boots = 0 => s.view.online = "none"
<1> DEFINE Goal(s) ==
             LiveInv /\ Alive' => Alive /\ Lively(s) /\ (boots = 0 => s.view.online = "none")
<1>1. /\ contacts \in Nat /\ syncs \in Nat /\ contacts + 1 \in Nat /\ syncs + 1 \in Nat
      /\ ~(syncs + 1 = 0)
  BY DEF TypeInv, WorldOK
<1>2. Proper(Current) /\ Current \in States /\ Current.view = view
  <2>1. Proper(Current)
    BY ProperCurrent
  <2>2. Current.view = view
    BY DEF Current
  <2> QED BY <2>1, <2>2 DEF Proper
<1>3. Alive /\ LiveInv => Lively(Current)
  BY ProperCurrent DEF LiveInv
<1>4. TRUE \in BOOLEAN /\ \A e : Recent(e) \in BOOLEAN
  BY DEF Recent
<1>5. Concluding /\ syncs' = syncs => (Alive' => Alive)
  BY DEF Concluding, subject, Alive
<1>6. ASSUME NEW m \in inbox, Take(m), LiveInv, Alive'
      PROVE  Alive /\ boots # 0 /\ Fresh(m) /\ \A e \in abroad : e.kind # "chau"
  BY <1>5, <1>6 DEF Take, bounds, LiveInv
<1>7. ASSUME NEW m \in inbox, Take(m)
      PROVE  /\ Concluding /\ inbox' \subseteq inbox /\ contacts' \in Nat /\ syncs' \in Nat
             /\ Carries(m, abroad)
  BY <1>1, <1>7 DEF Take, bounds, TypeInv, InboxOK
<1>8. ASSUME NEW m \in inbox, handleHeyThereEvent(m)
      PROVE  Take(m) /\ \E s : Proper(s) /\ Becomes(s) /\ Goal(s)
  <2> DEFINE a == recordObservationOnlineNara(Current, Recent(m.event))
             s == Add(a, {m.event})
  <2>1. Take(m) /\ Becomes(s) /\ m.kind = "hey-there"
    BY <1>8, Zenon DEF handleHeyThereEvent
  <2>2. Proper(a) /\ (Lively(Current) /\ Recent(m.event) => Lively(a))
    BY <1>2, <1>4, ProperRecord
  <2>3. m.event \in abroad
    BY <1>7, <2>1 DEF Carries
  <2> HIDE DEF a
  <2>4. Proper(s) /\ (Lively(a) => Lively(s))
    BY <2>2, <2>3, ProperAdd
  <2>5. Goal(s)
    BY <1>3, <1>6, <2>1, <2>2, <2>4 DEF Fresh
  <2> QED BY <2>1, <2>4, <2>5
<1>9. ASSUME NEW m \in inbox, handleChauEvent(m)
      PROVE  Take(m) /\ \E s : Proper(s) /\ Becomes(s) /\ Goal(s)
  <2> DEFINE a == [Current EXCEPT !.view.online = "OFFLINE"]
             s == Add(a, {m.event})
  <2>1. Take(m) /\ Becomes(s) /\ m.kind = "chau"
    BY <1>9, Zenon DEF handleChauEvent
  <2>2. Proper(a)
    BY <1>2, ProperOffline
  <2>3. m.event \in abroad /\ m.event.kind = "chau"
    BY <1>7, <2>1 DEF Carries
  <2> HIDE DEF a
  <2>4. Proper(s)
    BY <2>2, <2>3, ProperAdd
  <2>5. Goal(s)
    BY <1>6, <2>1, <2>3
  <2> QED BY <2>1, <2>4, <2>5
<1>10. ASSUME NEW m \in inbox, handleNewspaperEvent(m)
       PROVE  Take(m) /\ \E s : Proper(s) /\ Becomes(s) /\ Goal(s)
  <2> DEFINE a == Meet(Current)
             s == recordObservationOnlineNara(a, TRUE)
  <2>1. Take(m) /\ Becomes(s)
    BY <1>10, Zenon DEF handleNewspaperEvent
  <2>2. Proper(a) /\ (Lively(Current) => Lively(a))
    BY <1>2, ProperMeet
  <2> HIDE DEF a
  <2>3. Proper(s) /\ (Lively(a) => Lively(s))
    BY <1>4, <2>2, ProperRecord
  <2> HIDE DEF s
  <2>4. Goal(s)
    BY <1>3, <1>6, <2>1, <2>2, <2>3
  <2> QED BY <2>1, <2>3, <2>4
<1>11. ASSUME NEW m \in inbox, httpDMHandler(m)
       PROVE  Take(m) /\ \E s : Proper(s) /\ Becomes(s) /\ Goal(s)
  <2>1. PICK kept \in {{}, {m.event}} :
          Becomes(recordObservationOnlineNara(Add(Current, kept), Recent(m.event)))
    BY <1>11, Zenon DEF httpDMHandler
  <2>2. Take(m) /\ m.kind = "dm"
    BY <1>11, Zenon DEF httpDMHandler
  <2> DEFINE a == Add(Current, kept)
             s == recordObservationOnlineNara(a, Recent(m.event))
  <2>3. kept \in SUBSET abroad
    BY <1>7, <2>2 DEF Carries
  <2>4. Proper(a) /\ (Lively(Current) => Lively(a))
    BY <1>2, <2>3, ProperAdd
  <2>5. Becomes(s)
    BY <2>1
  <2> HIDE DEF a
  <2>6. Proper(s) /\ (Lively(a) /\ Recent(m.event) => Lively(s))
    BY <1>4, <2>4, ProperRecord
  <2> HIDE DEF s
  <2>7. Goal(s)
    BY <1>3, <1>6, <2>2, <2>4, <2>6 DEF Fresh
  <2> QED BY <2>2, <2>5, <2>6, <2>7
<1>12. ASSUME NEW m \in inbox, httpGossipZineHandler(m) \/ zineReceived(m)
       PROVE  Take(m) /\ \E s : Proper(s) /\ Becomes(s) /\ Goal(s)
  <2>1. Take(m) /\ m.kind \in {"zine", "reply"}
    BY <1>12, Zenon DEF httpGossipZineHandler, zineReceived
  <2>2. PICK r \in MergeSyncEventsWithVerification(Current, m.events) :
          Becomes(r) \/ Becomes(recordObservationOnlineNara(r, TRUE))
    BY <1>12, Zenon DEF httpGossipZineHandler, zineReceived
  <2>3. m.events \in SUBSET abroad
    BY <1>7, <2>1 DEF Carries
  <2>4. /\ Proper(r)
        /\ Lively(Current) /\ (\A e \in m.events : Recent(e) /\ e.kind # "chau") => Lively(r)
    BY <1>2, <2>3, ProperMerge
  <2>5. LiveInv /\ Alive' => Alive /\ boots # 0 /\ Lively(r)
    <3> SUFFICES ASSUME LiveInv, Alive' PROVE Alive /\ boots # 0 /\ Lively(r)
      OBVIOUS
    <3>1. Alive /\ boots # 0 /\ Fresh(m) /\ \A e \in abroad : e.kind # "chau"
      BY <1>6, <2>1
    <3>2. \A e \in m.events : Recent(e) /\ e.kind # "chau"
      BY <2>1, <2>3, <3>1 DEF Fresh
    <3> QED BY <1>3, <2>4, <3>1, <3>2
  <2>6. CASE Becomes(r)
    BY <2>1, <2>4, <2>5, <2>6
  <2>7. CASE Becomes(recordObservationOnlineNara(r, TRUE))
    <3> DEFINE s == recordObservationOnlineNara(r, TRUE)
    <3>1. Proper(s) /\ (Lively(r) => Lively(s))
      BY <1>4, <2>4, ProperRecord
    <3>2. Becomes(s)
      BY <2>7
    <3> HIDE DEF s
    <3> QED BY <2>1, <2>5, <3>1, <3>2
  <2> QED BY <2>2, <2>6, <2>7
<1>13. CASE discoverMeshPeers
  <2> DEFINE a == Meet(Current)
             s == recordObservationOnlineNara(a, TRUE)
  <2>1. Concluding /\ inbox' = inbox /\ contacts' = contacts /\ syncs' = syncs /\ boots > 0
    BY <1>13 DEF discoverMeshPeers, bounds
  <2>2. Becomes(s)
    BY <1>13, Zenon DEF discoverMeshPeers
  <2>3. Proper(a) /\ (Lively(Current) => Lively(a))
    BY <1>2, ProperMeet
  <2> HIDE DEF a
  <2>4. Proper(s) /\ (Lively(a) => Lively(s))
    BY <1>4, <2>3, ProperRecord
  <2>5. boots # 0
    BY <2>1
  <2> HIDE DEF s
  <2>6. Goal(s)
    BY <1>3, <1>5, <2>1, <2>3, <2>4, <2>5
  <2> QED BY <1>1, <2>1, <2>2, <2>4, <2>6
<1>14. ASSUME NEW batch \in SUBSET createZine(abroad), ZineOfAnother(batch)
       PROVE  /\ Concluding /\ inbox' = inbox /\ contacts' \in Nat /\ syncs' = syncs
              /\ \E s : Proper(s) /\ Becomes(s) /\ Goal(s)
  <2>1. Concluding /\ inbox' = inbox /\ contacts' = contacts + 1 /\ syncs' = syncs
    BY <1>14, Zenon DEF ZineOfAnother, Contact
  <2>2. PICK r \in MergeSyncEventsWithVerification(Current, batch) : Becomes(r)
    BY <1>14, Zenon DEF ZineOfAnother
  <2>3. batch \in SUBSET abroad /\ \A e \in batch : Recent(e)
    BY DEF createZine
  <2>4. /\ Proper(r)
        /\ Lively(Current) /\ (\A e \in batch : Recent(e) /\ e.kind # "chau") => Lively(r)
    BY <1>2, <2>3, ProperMerge
  <2>5. ASSUME LiveInv, Alive'
        PROVE  Alive /\ Lively(r) /\ (boots = 0 => r.view.online = "none")
    <3>1. Alive
      BY <1>5, <2>1, <2>5
    <3>2. /\ \A e \in abroad : e.kind # "chau"
          /\ boots = 0 => view.online = "none" /\ \A e \in abroad : ~Sent(e)
      BY <2>5, <3>1 DEF LiveInv
    <3>3. Lively(r)
      BY <1>3, <2>3, <2>4, <2>5, <3>1, <3>2
    <3>4. boots = 0 => r.view.online = "none"
      <4> SUFFICES ASSUME boots = 0 PROVE r.view.online = "none"
        OBVIOUS
      <4>1. batch \in SUBSET Events /\ \A e \in batch : ~Sent(e) /\ e.kind # "chau"
        BY <2>3, <3>2 DEF TypeInv, WorldOK
      <4>2. r.view = Current.view
        BY <1>2, <4>1, MergeUnsent
      <4> QED BY <1>2, <3>2, <4>2
    <3> QED BY <3>1, <3>3, <3>4
  <2> QED BY <1>1, <2>1, <2>2, <2>4, <2>5
<1>15. ASSUME NEW batch \in SUBSET abroad, performBackgroundSync(batch)
       PROVE  /\ Concluding /\ inbox' = inbox /\ contacts' = contacts /\ syncs' \in Nat
              /\ \E s : Proper(s) /\ Becomes(s) /\ Goal(s)
  <2>1. Concluding /\ inbox' = inbox /\ contacts' = contacts /\ syncs' = syncs + 1
    BY <1>15, Zenon DEF performBackgroundSync
  <2>2. PICK r \in MergeSyncEventsWithVerification(Current, batch) : Becomes(r)
    BY <1>15, Zenon DEF performBackgroundSync
  <2>3. Proper(r)
    BY <1>2, ProperMerge
  <2>4. ~Alive'
    BY <1>1, <2>1 DEF Alive
  <2> QED BY <1>1, <2>1, <2>2, <2>3, <2>4
<1> HIDE DEF Goal
<1>16. CASE \E m \in inbox :
              \/ handleHeyThereEvent(m) \/ handleChauEvent(m) \/ handleNewspaperEvent(m)
              \/ httpDMHandler(m) \/ httpGossipZineHandler(m) \/ zineReceived(m)
  <2>1. PICK m \in inbox : Take(m) /\ \E s : Proper(s) /\ Becomes(s) /\ Goal(s)
    BY <1>8, <1>9, <1>10, <1>11, <1>12, <1>16, Zenon
  <2> QED BY <1>7, <2>1 DEF Goal
<1>17. CASE \E batch \in SUBSET createZine(abroad) : ZineOfAnother(batch)
  BY <1>1, <1>14, <1>17 DEF Goal
<1>18. CASE \E batch \in SUBSET abroad : performBackgroundSync(batch)
  BY <1>1, <1>15, <1>18 DEF Goal
<1> USE DEF Goal
<1> QED BY <1>13, <1>16, <1>17, <1>18, Zenon DEF Hearing

(* Neither what others hold nor what is under way is concerned. *)
LEMMA OutsideStays ==
  ASSUME WorldOK, InboxOK, UNCHANGED <<gossip, subject, abroad, inbox, bounds>>,
         now' \in Nat, stale' \in Nat, ancient' \in Nat, ancient' <= stale', stale' <= now'
  PROVE  WorldOK' /\ InboxOK'
<1>1. /\ gossip' = gossip /\ status' = status /\ boots' = boots /\ said' = said
      /\ abroad' = abroad /\ inbox' = inbox /\ contacts' = contacts /\ syncs' = syncs
  BY DEF subject, bounds
<1>2. WorldOK'
  BY <1>1 DEF WorldOK, Sent
<1>3. InboxOK'
  BY <1>1 DEF InboxOK
<1> QED BY <1>2, <1>3

(* The observer adds an event of its own to its ledger. *)
LEMMA ReportsKeep ==
  ASSUME TypeInv, NEW kind \in Kinds, NEW num \in Nat,
         ledger' = Kept(ledger \cup {Event(kind, "me", num)}), now' = now + 1,
         abroad' = abroad, known' = known, view' \in Views,
         known \/ view'.online \notin {"ONLINE", "MISSING"}
  PROVE  OpinionOK' /\ now' \in Nat /\ now <= now'
<1> DEFINE n == Event(kind, "me", num)
<1>1. /\ n \in Events /\ n.ts = now + 1
      /\ \A f \in ledger \cup abroad : f.ts <= now /\ f.ts \in Nat
  BY NewEvent
<1>2. ledger' \subseteq ledger \cup {n}
  BY KeptSubset
<1> HIDE DEF n
<1>3. /\ now \in Nat /\ known \in BOOLEAN /\ ledger \subseteq Events
      /\ \A e, f \in ledger \cup abroad : e.ts = f.ts => e = f
  BY DEF TypeInv, WorldOK, OpinionOK
<1>4. \A e \in ledger' \cup abroad' : e = n \/ e \in ledger \cup abroad
  BY <1>2
<1>5. \A f \in ledger \cup abroad : f.ts # n.ts
  BY <1>1, <1>3
<1>6. \A e, f \in ledger' \cup abroad' : e.ts = f.ts => e = f
  BY <1>3, <1>4, <1>5
<1>7. \A e \in ledger' \cup abroad' : e.ts <= now'
  <2>1. \A f \in ledger \cup abroad : f.ts <= now + 1
    BY <1>1, <1>3
  <2> QED BY <1>1, <1>4, <2>1
<1>8. ledger' \subseteq Events
  BY <1>1, <1>2, <1>3
<1>9. OpinionOK'
  BY <1>3, <1>6, <1>7, <1>8 DEF OpinionOK
<1> QED BY <1>3, <1>9

(* Nothing new in the observer's ledger. *)
LEMMA QuietKeeps ==
  ASSUME OpinionOK, UNCHANGED <<abroad, known, ledger, now>>, view' \in Views,
         known \/ view'.online \notin {"ONLINE", "MISSING"}
  PROVE  OpinionOK'
  BY DEF OpinionOK

(* What others claim. *)
LEMMA OthersKeepTypes ==
  ASSUME TypeInv, NEW kind \in {"missing", "restart"}, NEW num \in Nat, OtherReports(kind, num)
  PROVE  TypeInv'
<1>1. /\ contacts' = contacts + 1 /\ now' = now + 1 /\ inbox' = inbox
      /\ abroad' = abroad \cup {Event(kind, "other", num)}
      /\ UNCHANGED <<gossip, subject, stale, ancient, opinion, reports, ping, maintenance, syncs>>
  BY DEF OtherReports, Contact, Elsewhere
<1>2. kind \in Kinds
  BY DEF Kinds
<1>3. /\ OpinionOK' /\ now' \in Nat /\ now <= now'
      /\ abroad' \subseteq Events /\ \A e \in abroad' : e.by # "me"
  BY <1>1, <1>2, NewEventAbroad
<1>4. /\ gossip' = gossip /\ status' = status /\ boots' = boots /\ said' = said
      /\ stale' = stale /\ ancient' = ancient /\ syncs' = syncs /\ known' = known
      /\ abroad \subseteq abroad'
  BY <1>1 DEF subject, opinion
<1>5. WorldOK /\ InboxOK /\ GoroutinesOK
  BY DEF TypeInv
<1>6. contacts' \in Nat /\ stale' <= now'
  BY <1>1, <1>3, <1>4, <1>5 DEF WorldOK
<1>7. said' \subseteq abroad'
  BY <1>4, <1>5 DEF WorldOK
<1>8. WorldOK'
  BY <1>3, <1>4, <1>5, <1>6, <1>7 DEF WorldOK, Sent
<1>9. InboxOK'
  BY <1>1, <1>4, <1>5, InboxStays
<1>10. GoroutinesOK'
  BY <1>1, <1>4, <1>5, GoroutinesStay
<1> QED BY <1>3, <1>8, <1>9, <1>10 DEF TypeInv

(* A message is lost. *)
LEMMA LoseKeepsTypes ==
  ASSUME TypeInv, NEW m \in inbox, Lose(m)
  PROVE  TypeInv'
<1>1. /\ inbox' \subseteq inbox
      /\ UNCHANGED <<gossip, subject, abroad, clock, opinion, reports, ping, maintenance, bounds>>
  BY DEF Lose, Take, Concluding, clock, reports
<1>2. WorldOK' /\ OpinionOK' /\ abroad' = abroad /\ known' = known
  BY <1>1 DEF TypeInv, WorldOK, OpinionOK, subject, clock, opinion, bounds, Sent
<1>3. InboxOK'
  BY <1>1, <1>2 DEF InboxOK, TypeInv
<1>4. GoroutinesOK'
  BY <1>1, <1>2, GoroutinesStay DEF TypeInv
<1> QED BY <1>2, <1>3, <1>4 DEF TypeInv

(* A zine is exchanged. *)
LEMMA ExchangeKeepsTypes ==
  ASSUME TypeInv, exchangeZine
  PROVE  TypeInv'
<1> DEFINE m == [kind |-> "reply", events |-> createZine(said)]
<1>1. /\ inbox' = inbox \cup {m} /\ contacts' = contacts + 1
      /\ UNCHANGED <<gossip, subject, abroad, clock, opinion, reports, ping, maintenance, syncs>>
  BY DEF exchangeZine, Contact, Elsewhere, clock
<1>2. WorldOK' /\ OpinionOK' /\ abroad' = abroad /\ known' = known
  BY <1>1 DEF TypeInv, WorldOK, OpinionOK, subject, clock, opinion, Sent
<1>3. Carries(m, abroad)
  BY DEF Carries, TypeInv, WorldOK, createZine
<1> HIDE DEF m
<1>4. InboxOK'
  BY <1>1, <1>2, <1>3, InboxStays DEF TypeInv
<1>5. GoroutinesOK'
  BY <1>1, <1>2, GoroutinesStay DEF TypeInv
<1> QED BY <1>2, <1>4, <1>5 DEF TypeInv

(* What the ledger says of the status. *)
LEMMA DerivedFacts ==
  derived \in {"", "OFFLINE", "MISSING", "ONLINE"}
  BY DEF derived, GetStatus

(* A step of the maintenance loop. *)
LEMMA MaintainKeepsTypes ==
  ASSUME TypeInv, Maintain
  PROVE  TypeInv'
<1>1. WorldOK /\ InboxOK /\ OpinionOK /\ GoroutinesOK
  BY DEF TypeInv
<1>2. /\ UNCHANGED <<gossip, subject, abroad, inbox, bounds>>
      /\ stale' = stale /\ ancient' = ancient /\ known' = known /\ restartReports' = restartReports
  BY DEF Maintain, readObservations, observationMaintenanceOnce, maintenancePinged, Maintaining
<1>3. ASSUME now' \in Nat, now <= now', OpinionOK', GoroutinesOK' PROVE TypeInv'
  <2>1. stale' \in Nat /\ ancient' \in Nat /\ ancient' <= stale' /\ stale' <= now'
    BY <1>1, <1>2, <1>3 DEF WorldOK
  <2> QED BY <1>1, <1>2, <1>3, <2>1, OutsideStays DEF TypeInv
<1>4. now \in Nat /\ now <= now
  BY <1>1 DEF WorldOK
<1>5. ASSUME snapshot # Idle
      PROVE  /\ snapshot \in Views /\ (known \/ snapshot.online \notin {"ONLINE", "MISSING"})
  BY <1>1, <1>5 DEF GoroutinesOK
<1>6. view \in Views /\ known \in BOOLEAN /\ (known \/ view.online \notin {"ONLINE", "MISSING"})
  BY <1>1 DEF OpinionOK
<1>7. CASE readObservations
  <2>1. /\ snapshot = Idle /\ snapshot' = view
        /\ UNCHANGED <<now, view, ledger, missingReports, ping, settled>>
    BY <1>7 DEF readObservations
  <2>2. OpinionOK'
    BY <1>1, <1>2, <1>6, <2>1, QuietKeeps
  <2>3. GoroutinesOK'
    BY <1>1, <1>2, <1>6, <2>1 DEF GoroutinesOK, ping
  <2> QED BY <1>3, <1>4, <2>1, <2>2, <2>3
<1>8. ASSUME keepStatus, pinging # "maintenance", UNCHANGED ping PROVE TypeInv'
  <2>1. /\ snapshot' = Idle /\ settled' = TRUE
        /\ UNCHANGED <<view, ledger, now, missingReports>>
    BY <1>8 DEF keepStatus, Judged
  <2>2. OpinionOK'
    BY <1>1, <1>2, <1>6, <2>1, QuietKeeps
  <2>3. GoroutinesOK'
    BY <1>1, <1>2, <1>8, <2>1 DEF GoroutinesOK, ping
  <2> QED BY <1>3, <1>4, <2>1, <2>2, <2>3
<1>9. ASSUME NEW new \in Away \cup {"ONLINE"}, setStatus(new), snapshot # Idle,
             pinging' \in {"nobody", "report"}, attempted' \in BOOLEAN,
             lastResult' \in BOOLEAN, pinging' # "nobody" => attempted' /\ known
      PROVE  TypeInv'
  <2>1. /\ snapshot' = Idle /\ settled' = TRUE /\ ledger' = ledger /\ now' = now
        /\ view' = IF known THEN [snapshot EXCEPT !.online = new] ELSE view
        /\ missingReports' = IF known /\ snapshot.online = "ONLINE" /\ new = "MISSING"
                             THEN missingReports + 1 ELSE missingReports
    BY <1>9 DEF setStatus, Judged
  <2>2. snapshot \in Views
    BY <1>5, <1>9
  <2>3. new \in Onlines
    BY DEF Onlines
  <2>4. [snapshot EXCEPT !.online = new] \in Views
    BY <2>2, <2>3 DEF Views
  <2>5. view' \in Views /\ (known \/ view'.online \notin {"ONLINE", "MISSING"})
    BY <1>6, <2>1, <2>4
  <2>6. OpinionOK'
    BY <1>1, <1>2, <2>1, <2>5, QuietKeeps
  <2>7. missingReports' \in Nat /\ (missingReports' > 0 => known)
    BY <1>1, <2>1 DEF GoroutinesOK
  <2>8. GoroutinesOK'
    BY <1>1, <1>2, <1>9, <2>1, <2>7 DEF GoroutinesOK
  <2> QED BY <1>3, <1>4, <2>1, <2>6, <2>8
<1>10. "MISSING" \in Away
  BY DEF Away
<1>11. CASE observationMaintenanceOnce
  <2>1. snapshot # Idle /\ pinging # "maintenance"
    BY <1>11 DEF observationMaintenanceOnce
  <2>2. /\ pinging \in {"nobody", "maintenance", "report"} /\ attempted \in BOOLEAN
        /\ lastResult \in BOOLEAN /\ (pinging # "nobody" => attempted /\ known)
    BY <1>1 DEF GoroutinesOK
  <2>3. ASSUME UNCHANGED ping
        PROVE  /\ pinging' \in {"nobody", "report"} /\ attempted' \in BOOLEAN
               /\ lastResult' \in BOOLEAN /\ (pinging' # "nobody" => attempted' /\ known)
    BY <2>1, <2>2, <2>3 DEF ping
  <2>4. CASE keepStatus /\ UNCHANGED ping
    BY <1>8, <2>1, <2>4
  <2>5. CASE derived \notin {"", snapshot.online} /\ setStatus(derived) /\ UNCHANGED ping
    <3>1. derived \in Away \cup {"ONLINE"}
      BY <2>5, DerivedFacts DEF Away
    <3> QED BY <1>9, <2>1, <2>3, <2>5, <3>1
  <2>6. CASE setStatus("MISSING") /\ UNCHANGED ping
    <3> QED BY <1>9, <1>10, <2>1, <2>3, <2>6
  <2>7. CASE NeedsPing /\ beginPing("maintenance")
             /\ UNCHANGED <<view, ledger, now, missingReports, snapshot, settled>>
    <3>1. known
      BY <1>5, <2>1, <2>7 DEF NeedsPing
    <3>2. pinging' = "maintenance" /\ attempted' = TRUE /\ lastResult' = lastResult
      BY <2>7 DEF beginPing
    <3>3. OpinionOK'
      BY <1>1, <1>2, <1>6, <2>7, QuietKeeps
    <3>4. GoroutinesOK'
      BY <1>1, <1>2, <2>1, <2>2, <2>7, <3>1, <3>2 DEF GoroutinesOK
    <3> QED BY <1>3, <1>4, <2>7, <3>3, <3>4
  <2> QED BY <1>11, <2>4, <2>5, <2>6, <2>7, Zenon DEF observationMaintenanceOnce, rateLimited
<1>12. CASE maintenancePinged
  <2>1. /\ pinging = "maintenance" /\ pinging' = "nobody" /\ attempted' = attempted
        /\ lastResult' \in BOOLEAN
    BY <1>12 DEF maintenancePinged, pingEnds
  <2>2. known /\ attempted \in BOOLEAN /\ snapshot # Idle
    BY <1>1, <2>1 DEF GoroutinesOK
  <2>5. attempted' \in BOOLEAN /\ pinging' \in {"nobody", "report"} /\ ~(pinging' # "nobody")
    BY <2>1, <2>2
  <2>3. CASE markOnlineFromPing /\ Judged /\ UNCHANGED missingReports
    <3>1. /\ view' = [view EXCEPT !.online = "ONLINE"]
          /\ ledger' = Kept(ledger \cup {Event("ping", "me", 0)}) /\ now' = now + 1
          /\ snapshot' = Idle /\ settled' = TRUE /\ missingReports' = missingReports
      BY <2>3 DEF markOnlineFromPing, Judged
    <3>2. view' \in Views
      BY <1>6, <3>1 DEF Views, Onlines
    <3>3. "ping" \in Kinds /\ 0 \in Nat
      BY DEF Kinds
    <3>4. OpinionOK' /\ now' \in Nat /\ now <= now'
      BY <1>2, <2>2, <3>1, <3>2, <3>3, ReportsKeep
    <3>5. GoroutinesOK'
      BY <1>1, <1>2, <2>1, <2>2, <3>1 DEF GoroutinesOK
    <3> QED BY <1>3, <3>4, <3>5
  <2>4. CASE setStatus("MISSING")
    BY <1>9, <1>10, <2>1, <2>2, <2>4, <2>5
  <2> QED BY <1>12, <2>3, <2>4 DEF maintenancePinged
<1> QED BY <1>7, <1>11, <1>12 DEF Maintain

(* A delayed report. *)
LEMMA ReportKeepsTypes ==
  ASSUME TypeInv, Report
  PROVE  TypeInv'
<1>1. WorldOK /\ InboxOK /\ OpinionOK /\ GoroutinesOK
  BY DEF TypeInv
<1>2. /\ UNCHANGED <<gossip, subject, abroad, inbox, bounds, snapshot, settled>>
      /\ stale' = stale /\ ancient' = ancient /\ known' = known
  BY DEF Report, reportMissingWithDelay, reportPinged, reportRestartWithDelay, Reporting, maintenance
<1>3. ASSUME now' \in Nat, now <= now', OpinionOK', GoroutinesOK' PROVE TypeInv'
  <2>1. stale' \in Nat /\ ancient' \in Nat /\ ancient' <= stale' /\ stale' <= now'
    BY <1>1, <1>2, <1>3 DEF WorldOK
  <2> QED BY <1>1, <1>2, <1>3, <2>1, OutsideStays DEF TypeInv
<1>4. now \in Nat /\ now <= now
  BY <1>1 DEF WorldOK
<1>5. view \in Views /\ known \in BOOLEAN /\ (known \/ view.online \notin {"ONLINE", "MISSING"})
  BY <1>1 DEF OpinionOK
<1>6. /\ pinging \in {"nobody", "maintenance", "report"} /\ attempted \in BOOLEAN
      /\ lastResult \in BOOLEAN /\ (pinging # "nobody" => attempted /\ known)
      /\ missingReports \in Nat /\ restartReports \subseteq Nat /\ (missingReports > 0 => known)
  BY <1>1 DEF GoroutinesOK
<1>7. UNCHANGED <<view, ledger, now>> => OpinionOK' /\ now' \in Nat /\ now <= now'
  BY <1>1, <1>2, <1>4, <1>5, QuietKeeps
<1>8. ASSUME NEW kind \in Kinds, NEW num \in Nat, report(Event(kind, "me", num)), view' = view
      PROVE  OpinionOK' /\ now' \in Nat /\ now <= now'
  <2>1. ledger' = Kept(ledger \cup {Event(kind, "me", num)}) /\ now' = now + 1
    BY <1>8, Zenon DEF report
  <2> QED BY <1>2, <1>5, <1>8, <2>1, ReportsKeep
<1>9. ASSUME reportMissing PROVE OpinionOK' /\ now' \in Nat /\ now <= now'
  <2>1. "missing" \in Kinds /\ 0 \in Nat
    BY DEF Kinds
  <2> QED BY <1>8, <1>9, <2>1 DEF reportMissing
<1>10. CASE reportMissingWithDelay
  <2>1. /\ missingReports > 0 /\ missingReports' = missingReports - 1
        /\ restartReports' = restartReports
    BY <1>10 DEF reportMissingWithDelay
  <2>2. OpinionOK' /\ now' \in Nat /\ now <= now'
    BY <1>7, <1>9, <1>10 DEF reportMissingWithDelay
  <2>3. missingReports' \in Nat /\ known
    BY <1>6, <2>1
  <2>4. UNCHANGED ping \/ beginPing("report")
    BY <1>10, Zenon DEF reportMissingWithDelay, rateLimited
  <2>5. CASE UNCHANGED ping
    <3>1. GoroutinesOK'
      BY <1>1, <1>2, <2>1, <2>3, <2>5 DEF GoroutinesOK, ping
    <3> QED BY <1>3, <2>2, <3>1
  <2>6. CASE beginPing("report")
    <3>1. pinging' = "report" /\ attempted' = TRUE /\ lastResult' = lastResult
      BY <2>6 DEF beginPing
    <3>2. GoroutinesOK'
      BY <1>1, <1>2, <2>1, <2>3, <3>1 DEF GoroutinesOK
    <3> QED BY <1>3, <2>2, <3>2
  <2> QED BY <2>4, <2>5, <2>6
<1>11. CASE reportPinged
  <2>1. /\ pinging = "report" /\ pinging' = "nobody" /\ attempted' = attempted
        /\ lastResult' \in BOOLEAN
        /\ missingReports' = missingReports /\ restartReports' = restartReports
    BY <1>11 DEF reportPinged, pingEnds, reports
  <2>2. known
    BY <1>6, <2>1
  <2>3. GoroutinesOK'
    BY <1>1, <1>2, <2>1 DEF GoroutinesOK
  <2>4. CASE markOnlineFromPing
    <3>1. /\ view' = [view EXCEPT !.online = "ONLINE"]
          /\ ledger' = Kept(ledger \cup {Event("ping", "me", 0)}) /\ now' = now + 1
      BY <2>4 DEF markOnlineFromPing
    <3>2. view' \in Views
      BY <1>5, <3>1 DEF Views, Onlines
    <3>3. "ping" \in Kinds /\ 0 \in Nat
      BY DEF Kinds
    <3>4. OpinionOK' /\ now' \in Nat /\ now <= now'
      BY <1>2, <2>2, <3>1, <3>2, <3>3, ReportsKeep
    <3> QED BY <1>3, <2>3, <3>4
  <2>5. CASE reportMissing
    BY <1>3, <1>9, <2>3, <2>5
  <2> QED BY <1>11, <2>4, <2>5 DEF reportPinged
<1>12. ASSUME NEW n \in restartReports, reportRestartWithDelay(n)
       PROVE  TypeInv'
  <2>1. /\ restartReports' \subseteq restartReports
        /\ UNCHANGED <<view, missingReports, ping>>
        /\ UNCHANGED <<ledger, now>> \/ report(Event("restart", "me", n))
    BY <1>12 DEF reportRestartWithDelay
  <2>2. "restart" \in Kinds /\ n \in Nat
    BY <1>6 DEF Kinds
  <2>3. OpinionOK' /\ now' \in Nat /\ now <= now'
    BY <1>7, <1>8, <2>1, <2>2
  <2>4. GoroutinesOK'
    BY <1>1, <1>2, <2>1 DEF GoroutinesOK, ping
  <2> QED BY <1>3, <2>3, <2>4
<1> QED BY <1>10, <1>11, <1>12, Zenon DEF Report

(* Time passes. *)
LEMMA TimeKeepsTypes ==
  ASSUME TypeInv, Time
  PROVE  TypeInv'
<1>1. WorldOK /\ InboxOK /\ OpinionOK /\ GoroutinesOK
  BY DEF TypeInv
<1>2. /\ stale' = now /\ (ancient' = ancient \/ ancient' = now)
      /\ attempted' = FALSE /\ settled' = FALSE /\ Quiet
      /\ UNCHANGED <<gossip, subject, abroad, now, opinion, inbox, reports, snapshot, pinging,
                     lastResult, bounds>>
  BY DEF Time, MissingThresholdPasses, HourPasses, Passes
<1>3. stale' \in Nat /\ ancient' \in Nat /\ ancient' <= stale' /\ stale' <= now'
  BY <1>1, <1>2 DEF WorldOK
<1>4. now' \in Nat
  BY <1>1, <1>2 DEF WorldOK
<1>5. WorldOK' /\ InboxOK'
  BY <1>1, <1>2, <1>3, <1>4, OutsideStays
<1>6. OpinionOK'
  BY <1>1, <1>2 DEF OpinionOK, opinion
<1>7. pinging = "nobody"
  BY <1>2 DEF Quiet
<1>8. GoroutinesOK'
  BY <1>1, <1>2, <1>7 DEF GoroutinesOK, opinion, reports
<1> QED BY <1>5, <1>6, <1>8 DEF TypeInv

(* The types hold at first ... *)
LEMMA TypeInvInit == Init => TypeInv
<1> SUFFICES ASSUME Init PROVE TypeInv
  OBVIOUS
<1>1. WorldOK
  BY PresenceAssumption DEF Init, WorldOK
<1>2. InboxOK
  BY DEF Init, InboxOK
<1>3. OpinionOK
  BY DEF Init, OpinionOK, Views, Onlines, Unmet
<1>4. GoroutinesOK
  <2>1. /\ settled = FALSE /\ attempted = FALSE /\ lastResult = FALSE /\ pinging = "nobody"
        /\ missingReports = 0 /\ restartReports = {} /\ snapshot = Idle
    BY Zenon DEF Init
  <2>2. missingReports \in Nat /\ ~(missingReports > 0)
    BY <2>1
  <2> QED BY <2>1, <2>2 DEF GoroutinesOK
<1> QED BY <1>1, <1>2, <1>3, <1>4 DEF TypeInv

(* A step is of one of these groups. *)
LEMMA StepGroups ==
  ASSUME Next
  PROVE  \/ Subject \/ Hearing \/ exchangeZine \/ (\E m \in inbox : Lose(m))
         \/ (\E kind \in {"missing", "restart"}, num \in Nat : OtherReports(kind, num))
         \/ Report \/ Maintain \/ Time
<1>1. 1..MaxEpisodes \subseteq Nat /\ 0 \in Nat
  BY PresenceAssumption
<1>2. Others => \/ Hearing
                \/ \E kind \in {"missing", "restart"}, num \in Nat : OtherReports(kind, num)
  BY <1>1, Zenon DEF Others, Hearing
<1>3. Hear => Hearing \/ exchangeZine \/ \E m \in inbox : Lose(m)
  BY Zenon DEF Hear, Hearing
<1> QED BY <1>2, <1>3, Zenon DEF Next

(* ... and after every step. *)
LEMMA TypeInvStep ==
  ASSUME TypeInv, [Next]_vars
  PROVE  TypeInv'
<1>1. CASE Subject
  BY <1>1, SubjectKeepsTypes
<1>2. CASE Hearing
  <2>1. /\ Concluding /\ inbox' \subseteq inbox /\ contacts' \in Nat /\ syncs' \in Nat
        /\ \E s : Proper(s) /\ Becomes(s)
    BY <1>2, HearingConcludes
  <2> QED BY <2>1, ConcludingKeepsTypes
<1>3. CASE exchangeZine
  BY <1>3, ExchangeKeepsTypes
<1>4. CASE \E m \in inbox : Lose(m)
  BY <1>4, LoseKeepsTypes
<1>5. CASE \E kind \in {"missing", "restart"}, num \in Nat : OtherReports(kind, num)
  BY <1>5, OthersKeepTypes
<1>6. CASE Report
  BY <1>6, ReportKeepsTypes
<1>7. CASE Maintain
  BY <1>7, MaintainKeepsTypes
<1>8. CASE Time
  BY <1>8, TimeKeepsTypes
<1>9. CASE UNCHANGED vars
  <2>1. WorldOK'
    BY <1>9 DEF TypeInv, vars, WorldOK, subject, clock, bounds, Sent
  <2>2. InboxOK'
    BY <1>9 DEF TypeInv, vars, InboxOK
  <2>3. OpinionOK'
    BY <1>9 DEF TypeInv, vars, OpinionOK, opinion, clock
  <2>4. GoroutinesOK'
    BY <1>9 DEF TypeInv, vars, GoroutinesOK, opinion, reports, ping, maintenance
  <2> QED BY <2>1, <2>2, <2>3, <2>4 DEF TypeInv
<1> QED BY <1>1, <1>2, <1>3, <1>4, <1>5, <1>6, <1>7, <1>8, <1>9, StepGroups

(* TypeOK, and with it that events are told apart by their stamps, that only *)
(* somebody known can be ONLINE or MISSING, that the marks do not overtake   *)
(* the clock, holds however many episodes there are.                         *)
THEOREM PresenceTypeCorrect == Spec => []TypeOK
<1>1. Init => TypeInv
  BY TypeInvInit
<1>2. TypeInv /\ [Next]_vars => TypeInv'
  BY TypeInvStep
<1>3. TypeInv => TypeOK
  <2> SUFFICES ASSUME TypeInv PROVE TypeOK
    OBVIOUS
  <2>1. view.online \in Onlines /\ view.restarts \in Nat
    BY DEF TypeInv, OpinionOK, Views
  <2> QED BY <2>1 DEF TypeInv, WorldOK, OpinionOK, GoroutinesOK, TypeOK, Onlines
<1> QED BY <1>1, <1>2, <1>3, PTL DEF Spec

-----------------------------------------------------------------------------
(* The nara that keeps running, group by group *)

(* An event of the observer's ledger later than a mark: the ledger keeps one. *)
LEMMA NewsKept ==
  ASSUME NEW S \in SUBSET Events, NEW b \in Nat, \A e \in S : e.ts <= b,
         NEW mark \in Nat, NEW n \in S, n.ts > mark
  PROVE  \E e \in Kept(S) : e.ts > mark
<1>1. PICK e \in Kept(S) : \A f \in S : f.ts <= e.ts
  BY KeptNewest
<1>2. e \in S
  BY KeptSubset
<1>3. e.ts \in Nat /\ n.ts \in Nat /\ n.ts <= e.ts
  BY <1>1, <1>2 DEF Events
<1> QED BY <1>3

(* Whatever only concerns the others, and messages: nothing old is sent, and *)
(* nobody says goodbye.                                                      *)
LEMMA ElsewhereKeepsLife ==
  ASSUME LiveInv, Alive, Alive',
         UNCHANGED <<gossip, stale, ancient, opinion, reports, ping, maintenance>>,
         \A m \in inbox' : m \in inbox \/ Fresh(m),
         \A e \in abroad' : e \in abroad \/ e.kind # "chau",
         boots' = 0 => boots = 0 /\ inbox' \subseteq inbox /\ \A e \in abroad' : e \in abroad \/ ~Sent(e)
  PROVE  LiveInv'
<1>1. /\ stale' = stale /\ ancient' = ancient /\ view' = view /\ ledger' = ledger
      /\ missingReports' = missingReports /\ restartReports' = restartReports
      /\ snapshot' = snapshot /\ pinging' = pinging
      /\ settled' = settled /\ attempted' = attempted /\ lastResult' = lastResult
  BY DEF opinion, reports, ping, maintenance
<1>2. \A m : Fresh(m)' <=> Fresh(m)
  BY <1>1 DEF Fresh, Recent
<1>3. /\ NewsSince(ancient)' <=> NewsSince(ancient)
      /\ NewsSince(stale)' <=> NewsSince(stale)
  BY <1>1 DEF NewsSince
<1>4. /\ boots' = 0 => view'.online = "none" /\ inbox' = {} /\ \A e \in abroad' : ~Sent(e)
      /\ \A e \in ledger' \cup abroad' : e.kind # "chau"
      /\ \A m \in inbox' : Fresh(m)
  BY <1>1 DEF LiveInv
<1> QED BY <1>1, <1>2, <1>3, <1>4, Zenon DEF LiveInv, Sent

(* The subject says something, or starts; if it stops there is nothing to show. *)
LEMMA SubjectKeepsLife ==
  ASSUME TypeInv, Started, LiveInv, Subject, Alive'
  PROVE  LiveInv'
<1>1. /\ boots \in Nat /\ now \in Nat /\ stale \in Nat /\ stale <= now /\ now + 1 > stale
      /\ abroad \subseteq Events
  BY DEF TypeInv, WorldOK
<1>2. /\ UNCHANGED <<gossip, stale, ancient, opinion, reports, ping, maintenance, syncs>>
  BY DEF Subject, Start, heyThereAgain, announce, Chau, Exit, SendDM, performGossipRound, Elsewhere
<1>3. /\ ~gossip /\ syncs = 0
      /\ (boots' = 0 /\ status' = "down") \/ (boots' = 1 /\ status' = "up")
  BY <1>2 DEF Alive
<1>4. ASSUME NEW kind \in {"hey-there", "social"}
      PROVE  Recent(Own(kind)) /\ Own(kind).kind = kind
  BY <1>1 DEF Recent, Own, Event
<1>5. ASSUME NEW kept, heyThere(kept), boots' # 0, Alive
      PROVE  LiveInv'
  <2> DEFINE m == [kind |-> "hey-there", event |-> Own("hey-there")]
  <2>1. abroad' = abroad \cup {Own("hey-there")} /\ inbox' \subseteq inbox \cup {m}
    BY <1>5 DEF heyThere, Say, postEvent
  <2>2. Fresh(m) /\ Own("hey-there").kind # "chau"
    BY <1>4 DEF Fresh
  <2> HIDE DEF m
  <2>3. /\ \A x \in inbox' : x \in inbox \/ Fresh(x)
        /\ \A e \in abroad' : e \in abroad \/ e.kind # "chau"
    BY <2>1, <2>2
  <2> QED BY <1>2, <1>5, <2>3, ElsewhereKeepsLife
<1>6. CASE Start
  <2>1. /\ heyThere({}) \/ heyThere(said)
        /\ status = "down" /\ boots' = boots + 1
    BY <1>6 DEF Start
  <2>2. Alive /\ boots' # 0
    BY <1>1, <1>3, <2>1 DEF Alive
  <2> QED BY <1>5, <2>1, <2>2
<1>7. ASSUME status # "down", UNCHANGED <<status, boots>>
      PROVE  Alive /\ boots' # 0
  BY <1>3, <1>7 DEF Alive
<1>8. CASE heyThereAgain
  <2>1. heyThere(said) /\ status = "up" /\ UNCHANGED <<status, boots>>
    BY <1>8 DEF heyThereAgain
  <2> QED BY <1>5, <1>7, <2>1
<1>9. ASSUME status # "down", UNCHANGED <<status, boots, abroad>>,
             \A m \in inbox' : m \in inbox \/ Fresh(m)
      PROVE  LiveInv'
  BY <1>2, <1>7, <1>9, ElsewhereKeepsLife
<1>10. CASE announce
  <2>1. /\ inbox' \subseteq inbox \cup {[kind |-> "newspaper"]} /\ status = "up"
        /\ UNCHANGED <<status, boots, abroad>>
    BY <1>10 DEF announce, postEvent, subject
  <2>2. Fresh([kind |-> "newspaper"])
    BY DEF Fresh
  <2> QED BY <1>9, <2>1, <2>2
<1>11. CASE Chau
  BY <1>3, <1>11 DEF Chau
<1>12. CASE Exit
  <2>1. status # "down" /\ status' = "down" /\ boots' = boots
    BY <1>12 DEF Exit
  <2> QED BY <1>3, <2>1 DEF Started
<1>13. CASE SendDM
  <2> DEFINE m == [kind |-> "dm", event |-> Own("social")]
  <2>1. /\ abroad' = abroad \cup {Own("social")} /\ inbox' = inbox \cup {m}
        /\ status = "up" /\ UNCHANGED <<status, boots>>
    BY <1>13 DEF SendDM, Say
  <2>2. Fresh(m) /\ Own("social").kind # "chau"
    BY <1>4 DEF Fresh
  <2> HIDE DEF m
  <2>3. /\ \A x \in inbox' : x \in inbox \/ Fresh(x)
        /\ \A e \in abroad' : e \in abroad \/ e.kind # "chau"
    BY <2>1, <2>2
  <2>4. Alive /\ boots' # 0
    BY <1>7, <2>1
  <2> QED BY <1>2, <2>3, <2>4, ElsewhereKeepsLife
<1>14. CASE performGossipRound
  <2> DEFINE m == [kind |-> "zine", events |-> createZine(said)]
  <2>1. /\ inbox' = inbox \cup {m} /\ status # "down" /\ UNCHANGED <<status, boots, abroad>>
    BY <1>14 DEF performGossipRound, subject
  <2>2. Fresh(m)
    BY DEF Fresh, createZine
  <2> HIDE DEF m
  <2> QED BY <1>9, <2>1, <2>2
<1> QED BY <1>6, <1>8, <1>10, <1>11, <1>12, <1>13, <1>14 DEF Subject

(* The zine exchanged is recent. *)
LEMMA ExchangeKeepsLife ==
  ASSUME TypeInv, LiveInv, exchangeZine, Alive'
  PROVE  LiveInv'
<1> DEFINE m == [kind |-> "reply", events |-> createZine(said)]
<1>1. /\ inbox' = inbox \cup {m} /\ status # "down" /\ abroad' = abroad
      /\ status' = status /\ boots' = boots
      /\ UNCHANGED <<gossip, stale, ancient, opinion, reports, ping, maintenance, syncs>>
  BY DEF exchangeZine, Elsewhere, subject
<1>2. Fresh(m)
  BY DEF Fresh, createZine
<1> HIDE DEF m
<1>3. Alive /\ boots' # 0
  BY <1>1 DEF Alive
<1> QED BY <1>1, <1>2, <1>3, ElsewhereKeepsLife

(* What others claim is no goodbye. *)
LEMMA OthersKeepLife ==
  ASSUME TypeInv, LiveInv, NEW kind \in {"missing", "restart"}, NEW num \in Nat,
         OtherReports(kind, num), Alive'
  PROVE  LiveInv'
<1> DEFINE e == Event(kind, "other", num)
<1>1. /\ inbox' = inbox /\ abroad' = abroad \cup {e}
      /\ status' = status /\ boots' = boots
      /\ UNCHANGED <<gossip, stale, ancient, opinion, reports, ping, maintenance, syncs>>
  BY DEF OtherReports, Elsewhere, subject
<1>2. e.kind # "chau" /\ ~Sent(e)
  BY DEF Event, Sent
<1> HIDE DEF e
<1>3. Alive
  BY <1>1 DEF Alive
<1> QED BY <1>1, <1>2, <1>3, ElsewhereKeepsLife

(* A lost message was only one sign of life. *)
LEMMA LoseKeepsLife ==
  ASSUME TypeInv, LiveInv, NEW m \in inbox, Lose(m), Alive'
  PROVE  LiveInv'
<1>1. /\ inbox' \subseteq inbox /\ abroad' = abroad /\ status' = status /\ boots' = boots
      /\ UNCHANGED <<gossip, stale, ancient, opinion, reports, ping, maintenance, syncs>>
  BY DEF Lose, Take, Concluding, opinion, reports, bounds, subject
<1>2. Alive
  BY <1>1 DEF Alive
<1> QED BY <1>1, <1>2, ElsewhereKeepsLife

(* Whatever the observer hears of it is a sign of life, or nothing. *)
LEMMA HearingKeepsLife ==
  ASSUME TypeInv, LiveInv, Hearing, Alive'
  PROVE  LiveInv'
<1>1. PICK s : /\ Proper(s) /\ Becomes(s) /\ Alive /\ Lively(s)
               /\ boots = 0 => s.view.online = "none"
  BY HearingConcludes
<1>2. inbox' \subseteq inbox /\ Concluding
  BY HearingConcludes
<1>3. /\ boots' = boots /\ abroad' = abroad /\ stale' = stale /\ ancient' = ancient
      /\ missingReports' = missingReports /\ snapshot' = snapshot /\ pinging' = pinging
      /\ settled' = settled /\ attempted' = attempted /\ lastResult' = lastResult
  BY <1>2 DEF Concluding, subject, ping, maintenance
<1>4. /\ view' = s.view /\ ledger' = Kept(s.ledger) /\ restartReports' = s.restartReports
  BY <1>1 DEF Becomes
<1>5. /\ s.ledger \in SUBSET Events
      /\ ledger \subseteq s.ledger /\ s.ledger \subseteq ledger \cup abroad \cup {FirstSeen}
  BY <1>1 DEF Proper, States
<1>6. /\ now \in Nat /\ stale \in Nat /\ ancient \in Nat /\ ancient <= stale /\ stale <= now
      /\ \A e \in ledger \cup abroad : e.ts <= now /\ e.ts \in Nat
      /\ \A e \in abroad : e.by # "me"
  BY DEF TypeInv, WorldOK, OpinionOK, Events
<1>7. /\ FirstSeen.ts = now + 1 /\ FirstSeen.kind = "first-seen"
  BY <1>6, FirstSeenEvent
<1>8. ledger' \subseteq ledger \cup abroad \cup {FirstSeen}
  BY <1>4, <1>5, KeptSubset
<1>9. \A e \in s.ledger : e.ts <= now + 1
  BY <1>5, <1>6, <1>7
<1>10. ASSUME NEW mark \in {stale, ancient}, NewsSince(mark) \/ FirstSeen \in s.ledger
       PROVE  \E e \in ledger' : e.ts > mark
  <2>1. PICK n \in s.ledger : n.ts > mark
    BY <1>5, <1>6, <1>7, <1>10 DEF NewsSince
  <2> QED BY <1>4, <1>5, <1>6, <1>9, <2>1, NewsKept
<1>11. /\ view'.online \in {"none", "ONLINE"} /\ restartReports' = {}
       /\ view'.online = "ONLINE" => view.online = "ONLINE" \/ FirstSeen \in s.ledger
       /\ view.online = "ONLINE" => view'.online = "ONLINE"
  BY <1>1, <1>4 DEF Lively
<1>12. /\ \A e \in ledger' \cup abroad' : e.kind # "chau"
       /\ \A e \in ledger' : e.by = "me" => e.kind \notin {"missing", "restart"}
  BY <1>1, <1>3, <1>6, <1>7, <1>8 DEF LiveInv
<1>13. \A m \in inbox' : Fresh(m)'
  <2>1. \A m : Fresh(m)' <=> Fresh(m)
    BY <1>3 DEF Fresh, Recent
  <2> QED BY <1>1, <1>2, <2>1 DEF LiveInv
<1>14. boots' = 0 => view'.online = "none" /\ inbox' = {} /\ \A e \in abroad' : ~Sent(e)
  BY <1>1, <1>2, <1>3, <1>4 DEF LiveInv
<1>15. view'.online = "ONLINE" => NewsSince(ancient)'
  BY <1>1, <1>3, <1>10, <1>11 DEF LiveInv, NewsSince
<1>16. settled' /\ view'.online = "ONLINE" => NewsSince(stale)'
  BY <1>1, <1>3, <1>10, <1>11 DEF LiveInv, NewsSince
<1>17. attempted' /\ pinging' = "nobody" => lastResult' /\ NewsSince(stale)'
  BY <1>1, <1>3, <1>10 DEF LiveInv, NewsSince
<1>18. /\ missingReports' = 0 /\ pinging' # "report"
       /\ snapshot' = Idle \/ (snapshot'.online = "ONLINE" /\ view'.online = "ONLINE")
  BY <1>1, <1>3, <1>11 DEF LiveInv
<1> QED BY <1>11, <1>12, <1>13, <1>14, <1>15, <1>16, <1>17, <1>18, Zenon DEF LiveInv, Sent

(* What the ledger says of it: its newest event decides, and never that it   *)
(* went away.                                                                *)
LEMMA DerivedOfTheLiving ==
  ASSUME TypeInv, LiveInv, Alive, view.online = "ONLINE"
  PROVE  /\ derived \in {"MISSING", "ONLINE"}
         /\ derived = "ONLINE" => NewsSince(stale)
         /\ Newest(ledger).ts > ancient
<1> DEFINE e == Newest(ledger)
<1>1. /\ ledger \in SUBSET Events /\ now \in Nat /\ ancient \in Nat /\ stale \in Nat
      /\ \A f \in ledger : f.ts <= now
  BY DEF TypeInv, WorldOK, OpinionOK
<1>2. PICK n \in ledger : n.ts > ancient
  BY DEF LiveInv, NewsSince
<1>3. \E f \in ledger : \A g \in ledger : g.ts <= f.ts
  BY <1>1, <1>2, KeptNewest, KeptSubset
<1>4. e \in ledger /\ \A g \in ledger : g.ts <= e.ts
  BY <1>3, Zenon DEF Newest
<1>5. derived = CASE e.kind = "chau" -> "OFFLINE"
                  [] e.kind = "missing" \/ e.ts <= MissingThreshold -> "MISSING"
                  [] OTHER -> "ONLINE"
  <2>1. ledger # {}
    BY <1>2
  <2> QED BY <2>1, Zenon DEF derived, GetStatus
<1> HIDE DEF e
<1>6. e.kind # "chau"
  BY <1>4 DEF LiveInv
<1>7. MissingThreshold = stale
  BY DEF MissingThreshold, Alive
<1>8. e.ts \in Nat /\ n.ts \in Nat /\ n.ts <= e.ts
  BY <1>1, <1>2, <1>4 DEF Events
<1>9. e.ts > ancient
  BY <1>1, <1>2, <1>8
<1>10. ~(e.ts <= stale) => e.ts > stale
  BY <1>1, <1>8
<1>11. derived \in {"MISSING", "ONLINE"} /\ (derived = "ONLINE" => ~(e.ts <= stale))
  BY <1>5, <1>6, <1>7
<1> QED BY <1>4, <1>9, <1>10, <1>11 DEF NewsSince, e

(* The loop marks it as it already was, or pings it, and the ping succeeds. *)
LEMMA MaintainKeepsLife ==
  ASSUME TypeInv, LiveInv, Maintain, Alive'
  PROVE  LiveInv'
<1>1. /\ UNCHANGED <<gossip, subject, abroad, inbox, bounds, stale, ancient, known, restartReports>>
  BY DEF Maintain, readObservations, observationMaintenanceOnce, maintenancePinged, Maintaining
<1>2. /\ status' = status /\ boots' = boots /\ syncs' = syncs /\ abroad' = abroad /\ inbox' = inbox
      /\ stale' = stale /\ ancient' = ancient /\ known' = known /\ restartReports' = restartReports
  BY <1>1 DEF subject, bounds
<1>3. Alive
  BY <1>1, <1>2 DEF Alive
<1>4. /\ pinging \in {"nobody", "maintenance", "report"}
      /\ pinging # "nobody" => attempted /\ known
      /\ pinging = "maintenance" => snapshot # Idle
      /\ now \in Nat /\ stale \in Nat /\ ancient \in Nat /\ ancient <= stale /\ stale <= now
  BY DEF TypeInv, GoroutinesOK, WorldOK
<1>5. /\ view.online \in {"none", "ONLINE"}
      /\ boots = 0 => view.online = "none" /\ inbox = {} /\ \A e \in abroad : ~Sent(e)
      /\ \A e \in ledger \cup abroad : e.kind # "chau"
      /\ \A e \in ledger : e.by = "me" => e.kind \notin {"missing", "restart"}
      /\ missingReports = 0 /\ restartReports = {}
      /\ snapshot = Idle \/ (snapshot.online = "ONLINE" /\ view.online = "ONLINE")
      /\ pinging # "report"
      /\ \A m \in inbox : Fresh(m)
      /\ view.online = "ONLINE" => NewsSince(ancient)
      /\ settled /\ view.online = "ONLINE" => NewsSince(stale)
      /\ attempted /\ pinging = "nobody" => lastResult /\ NewsSince(stale)
  BY <1>3 DEF LiveInv
<1>6. \A m \in inbox' : Fresh(m)'
  BY <1>2, <1>5 DEF Fresh, Recent
<1>7. ASSUME view' = view, ledger' = ledger, missingReports' = missingReports,
             snapshot' = Idle \/ (snapshot'.online = "ONLINE" /\ view'.online = "ONLINE"),
             pinging' # "report",
             settled' /\ view.online = "ONLINE" => NewsSince(stale),
             attempted' /\ pinging' = "nobody" => lastResult' /\ NewsSince(stale)
      PROVE  LiveInv'
  <2>1. /\ NewsSince(ancient)' <=> NewsSince(ancient)
        /\ NewsSince(stale)' <=> NewsSince(stale)
    BY <1>2, <1>7 DEF NewsSince
  <2>2. \A e \in ledger' \cup abroad' : e.kind # "chau"
    BY <1>2, <1>5, <1>7
  <2> QED BY <1>2, <1>5, <1>6, <1>7, <2>1, <2>2, Zenon DEF LiveInv, Sent
<1>8. CASE readObservations
  <2>1. /\ view.online # "none" /\ snapshot' = view
        /\ view' = view /\ ledger' = ledger /\ missingReports' = missingReports
        /\ UNCHANGED ping /\ settled' = settled
    BY <1>8 DEF readObservations
  <2>2. pinging' = pinging /\ attempted' = attempted /\ lastResult' = lastResult
    BY <2>1 DEF ping
  <2> QED BY <1>5, <1>7, <2>1, <2>2
<1>9. CASE observationMaintenanceOnce
  <2>1. snapshot # Idle /\ pinging = "nobody"
    BY <1>4, <1>5, <1>9 DEF observationMaintenanceOnce
  <2>2. snapshot.online = "ONLINE" /\ view.online = "ONLINE"
    BY <1>5, <2>1
  <2>3. /\ derived \in {"MISSING", "ONLINE"}
        /\ derived = "ONLINE" => NewsSince(stale)
        /\ Newest(ledger).ts > ancient
    BY <1>3, <2>2, DerivedOfTheLiving
  <2>4. ASSUME keepStatus, UNCHANGED ping, NewsSince(stale)
        PROVE  LiveInv'
    <3>1. /\ view' = view /\ ledger' = ledger /\ missingReports' = missingReports
          /\ snapshot' = Idle
      BY <2>4 DEF keepStatus, Judged
    <3>2. pinging' = pinging /\ attempted' = attempted /\ lastResult' = lastResult
      BY <2>4 DEF ping
    <3> QED BY <1>5, <1>7, <2>4, <3>1, <3>2
  <2>5. CASE derived \in {"", snapshot.online} /\ keepStatus /\ UNCHANGED ping
    BY <2>2, <2>3, <2>4, <2>5
  <2>6. CASE derived \notin {"", snapshot.online} /\ ~NeedsPing
    BY <2>2, <2>3, <2>6 DEF NeedsPing
  <2>7. CASE rateLimited(TRUE) /\ keepStatus
    <3>1. attempted /\ UNCHANGED ping
      BY <2>7 DEF rateLimited
    <3> QED BY <1>5, <2>1, <2>4, <2>7, <3>1
  <2>8. CASE rateLimited(FALSE)
    <3>1. attempted /\ ~lastResult
      BY <2>8 DEF rateLimited
    <3> QED BY <1>5, <2>1, <3>1
  <2>9. CASE beginPing("maintenance") /\ UNCHANGED <<view, ledger, now, missingReports, snapshot, settled>>
    <3>1. pinging' = "maintenance"
      BY <2>9 DEF beginPing
    <3> QED BY <1>5, <1>7, <2>9, <3>1
  <2> QED BY <1>9, <2>5, <2>6, <2>7, <2>8, <2>9, Zenon DEF observationMaintenanceOnce
<1>10. CASE maintenancePinged
  <2>1. pinging = "maintenance"
    BY <1>10 DEF maintenancePinged, pingEnds
  <2>2. view.online = "ONLINE" /\ status = "up"
    BY <1>3, <1>4, <1>5, <2>1 DEF Alive
  <2>3. CASE pingEnds("maintenance", FALSE)
    BY <2>2, <2>3 DEF pingEnds
  <2>4. CASE /\ pingEnds("maintenance", TRUE) /\ markOnlineFromPing /\ Judged
             /\ UNCHANGED missingReports
    <3> DEFINE n == Event("ping", "me", 0)
    <3>1. /\ view' = [view EXCEPT !.online = "ONLINE"] /\ ledger' = Kept(ledger \cup {n})
          /\ snapshot' = Idle /\ missingReports' = missingReports
          /\ pinging' = "nobody" /\ lastResult' = TRUE
      BY <2>4 DEF pingEnds, markOnlineFromPing, Judged
    <3>2. n \in Events /\ n.ts = now + 1 /\ n.kind = "ping"
      BY <1>4 DEF Event, Events, Kinds
    <3> HIDE DEF n
    <3>3. /\ ledger \cup {n} \in SUBSET Events /\ now + 1 \in Nat
          /\ \A e \in ledger \cup {n} : e.ts <= now + 1
      <4>1. \A e \in ledger : e.ts \in Nat /\ e.ts <= now
        BY DEF TypeInv, OpinionOK, Events
      <4>2. ledger \subseteq Events
        BY DEF TypeInv, OpinionOK
      <4> QED BY <1>4, <3>2, <4>1, <4>2
    <3>4. n.ts > stale
      BY <1>4, <3>2
    <3>5. PICK f \in Kept(ledger \cup {n}) : f.ts > stale
      BY <1>4, <3>3, <3>4, NewsKept
    <3>6. f.ts > ancient
      <4>1. f.ts \in Nat
        BY <3>3, <3>5, KeptSubset DEF Events
      <4> QED BY <1>4, <3>5, <4>1
    <3>7. NewsSince(stale)' /\ NewsSince(ancient)'
      BY <1>2, <3>1, <3>5, <3>6 DEF NewsSince
    <3>8. view'.online = "ONLINE"
      BY <3>1 DEF TypeInv, OpinionOK, Views
    <3>9. ledger' \subseteq ledger \cup {n}
      BY <3>1, KeptSubset
    <3>10. /\ \A e \in ledger' \cup abroad' : e.kind # "chau"
           /\ \A e \in ledger' : e.by = "me" => e.kind \notin {"missing", "restart"}
      BY <1>2, <1>5, <3>2, <3>9
    <3>11. boots' # 0
      BY <1>2, <1>5, <2>2
    <3> QED BY <1>2, <1>5, <1>6, <3>1, <3>7, <3>8, <3>10, <3>11, Zenon DEF LiveInv
  <2> QED BY <1>10, <2>3, <2>4 DEF maintenancePinged
<1> QED BY <1>8, <1>9, <1>10 DEF Maintain

(* There is nothing to report. *)
LEMMA ReportKeepsLife ==
  ASSUME TypeInv, LiveInv, Report, Alive'
  PROVE  LiveInv'
<1>1. UNCHANGED <<gossip, subject, bounds>>
  BY DEF Report, reportMissingWithDelay, reportPinged, reportRestartWithDelay, Reporting
<1>2. Alive
  BY <1>1 DEF Alive, subject, bounds
<1>3. missingReports = 0 /\ restartReports = {} /\ pinging # "report"
  BY <1>2 DEF LiveInv
<1>4. ~reportMissingWithDelay
  BY <1>3 DEF reportMissingWithDelay
<1>5. ~reportPinged
  BY <1>3 DEF reportPinged, pingEnds
<1> QED BY <1>3, <1>4, <1>5 DEF Report

(* Time passes over what was settled. *)
LEMMA TimeKeepsLife ==
  ASSUME TypeInv, LiveInv, Time, Alive'
  PROVE  LiveInv'
<1>1. /\ stale' = now /\ (ancient' = ancient \/ (ancient' = now /\ stale = now))
      /\ attempted' = FALSE /\ settled' = FALSE /\ Quiet
      /\ UNCHANGED <<gossip, subject, abroad, now, opinion, inbox, reports, snapshot, pinging,
                     lastResult, bounds>>
  BY DEF Time, MissingThresholdPasses, HourPasses, Passes
<1>2. /\ status' = status /\ boots' = boots /\ syncs' = syncs /\ abroad' = abroad /\ inbox' = inbox
      /\ view' = view /\ ledger' = ledger
      /\ missingReports' = missingReports /\ restartReports' = restartReports
      /\ snapshot' = snapshot /\ pinging' = pinging
  BY <1>1 DEF subject, opinion, reports, bounds
<1>3. Alive
  BY <1>1, <1>2 DEF Alive
<1>4. inbox = {} /\ (view.online = "none" \/ settled)
  BY <1>1 DEF Quiet
<1>5. view'.online = "ONLINE" => NewsSince(ancient)'
  <2> SUFFICES ASSUME view.online = "ONLINE" PROVE \E e \in ledger : e.ts > ancient'
    BY <1>2 DEF NewsSince
  <2>1. PICK n \in ledger : n.ts > ancient
    BY <1>3 DEF LiveInv, NewsSince
  <2>2. PICK k \in ledger : k.ts > stale
    BY <1>3, <1>4 DEF LiveInv, NewsSince
  <2>3. k.ts \in Nat /\ k.ts <= now /\ now \in Nat
    BY DEF TypeInv, WorldOK, OpinionOK, Events
  <2>4. stale # now
    BY <2>2, <2>3
  <2> QED BY <1>1, <2>1, <2>4
<1>6. ~settled' /\ ~attempted'
  BY <1>1
<1>7. /\ \A e \in ledger' \cup abroad' : e.kind # "chau"
      /\ inbox' = {}
  BY <1>2, <1>3, <1>4 DEF LiveInv
<1> QED BY <1>2, <1>3, <1>5, <1>6, <1>7, Zenon DEF LiveInv, Sent

(* A process runs after a start. *)
LEMMA StartedStep ==
  ASSUME TypeInv, Started, [Next]_vars
  PROVE  Started'
<1>1. boots \in Nat
  BY DEF TypeInv, WorldOK
<1>2. CASE UNCHANGED <<status, boots>>
  BY <1>2 DEF Started
<1>3. CASE boots' = boots + 1
  BY <1>1, <1>3 DEF Started
<1>4. CASE status # "down" /\ boots' = boots
  BY <1>4 DEF Started
<1>5. Subject => \/ UNCHANGED <<status, boots>> \/ boots' = boots + 1
                 \/ status # "down" /\ boots' = boots
  BY DEF Subject, Start, heyThereAgain, announce, Chau, Exit, SendDM, performGossipRound, subject
<1>6. Hearing => UNCHANGED subject
  BY HearingConcludes DEF Concluding
<1>7. exchangeZine \/ Report \/ Maintain \/ Time => UNCHANGED subject
  BY DEF exchangeZine, Report, reportMissingWithDelay, reportPinged, reportRestartWithDelay,
         Reporting, Maintain, readObservations, observationMaintenanceOnce, maintenancePinged,
         Maintaining, Time, MissingThresholdPasses, HourPasses, Passes
<1>8. (\E m \in inbox : Lose(m)) => UNCHANGED subject
  BY DEF Lose, Take, Concluding
<1>9. (\E kind \in {"missing", "restart"}, num \in Nat : OtherReports(kind, num)) => UNCHANGED subject
  BY DEF OtherReports
<1>10. UNCHANGED vars => UNCHANGED subject
  BY DEF vars
<1>11. UNCHANGED subject => UNCHANGED <<status, boots>>
  BY DEF subject
<1> QED BY <1>2, <1>3, <1>4, <1>5, <1>6, <1>7, <1>8, <1>9, <1>10, <1>11, StepGroups

(* All steps together. *)
LEMMA LiveInvStep ==
  ASSUME TypeInv, Started, LiveInv, [Next]_vars
  PROVE  LiveInv'
<1>1. CASE ~Alive'
  BY <1>1 DEF LiveInv
<1>2. CASE Alive'
  <2>1. CASE Subject
    BY <1>2, <2>1, SubjectKeepsLife
  <2>2. CASE Hearing
    BY <1>2, <2>2, HearingKeepsLife
  <2>3. CASE exchangeZine
    BY <1>2, <2>3, ExchangeKeepsLife
  <2>4. CASE \E m \in inbox : Lose(m)
    BY <1>2, <2>4, LoseKeepsLife
  <2>5. CASE \E kind \in {"missing", "restart"}, num \in Nat : OtherReports(kind, num)
    BY <1>2, <2>5, OthersKeepLife
  <2>6. CASE Report
    BY <1>2, <2>6, ReportKeepsLife
  <2>7. CASE Maintain
    BY <1>2, <2>7, MaintainKeepsLife
  <2>8. CASE Time
    BY <1>2, <2>8, TimeKeepsLife
  <2>9. CASE UNCHANGED vars
    <3>1. /\ inbox' = inbox /\ abroad' = abroad /\ boots' = boots
          /\ UNCHANGED <<gossip, stale, ancient, opinion, reports, ping, maintenance>>
      BY <2>9 DEF vars, subject, clock
    <3>2. Alive
      BY <1>2, <2>9 DEF vars, Alive, subject, bounds
    <3> QED BY <1>2, <3>1, <3>2, ElsewhereKeepsLife
  <2> QED BY <2>1, <2>2, <2>3, <2>4, <2>5, <2>6, <2>7, <2>8, <2>9, StepGroups
<1> QED BY <1>1, <1>2

(* The invariant behind both theorems. *)
THEOREM PresenceInvariant == Spec => []PresenceInv
<1>1. Init => PresenceInv
  <2> SUFFICES ASSUME Init PROVE PresenceInv
    OBVIOUS
  <2>1. TypeInv /\ Started
    BY TypeInvInit DEF Init, Started
  <2>2. LiveInv
    <3>1. /\ view.online = "none" /\ inbox = {} /\ abroad = {} /\ ledger = {}
          /\ missingReports = 0 /\ restartReports = {} /\ snapshot = Idle /\ pinging = "nobody"
          /\ ~settled /\ ~attempted
      BY DEF Init
    <3> QED BY <3>1 DEF LiveInv
  <2> QED BY <2>1, <2>2 DEF PresenceInv
<1>2. PresenceInv /\ [Next]_vars => PresenceInv'
  BY TypeInvStep, StartedStep, LiveInvStep DEF PresenceInv
<1> QED BY <1>1, <1>2, PTL DEF Spec

(* A nara that has run since it first started, and whom a ping reaches, is   *)
(* never OFFLINE or MISSING for the observer, nor reported by it as missing  *)
(* or restarted: for any number of messages lost or late, of reports of      *)
(* others and of hours of silence.                                           *)
THEOREM LivingNeverMissed == Spec => []LivingIsNotMissed
<1>1. PresenceInv => LivingIsNotMissed
  <2> SUFFICES ASSUME PresenceInv, Uninterrupted PROVE
        /\ view.online \notin Away
        /\ \A e \in ledger : e.by = "me" => e.kind \notin {"missing", "restart"}
    BY DEF LivingIsNotMissed
  <2>1. Alive
    BY DEF Uninterrupted, Alive
  <2> QED BY <2>1 DEF PresenceInv, LiveInv, Away
<1> QED BY <1>1, PresenceInvariant, PTL
=============================================================================
