------------------------------ MODULE Presence ------------------------------
(***************************************************************************)
(* How a nara, the observer, comes to think of another one, the subject,   *)
(* as ONLINE, OFFLINE or MISSING: what the subject says of itself          *)
(* (hey-there, newspaper, chau, zines, direct messages), what other naras  *)
(* pass on and report, the ledger that all of it ends in, the maintenance  *)
(* loop that ages what the ledger says and pings before it believes an     *)
(* absence, and the delayed reports of absences and restarts.              *)
(*                                                                         *)
(* The observer keeps running and is past its own boot; the subject        *)
(* starts, crashes, leaves and comes back; the others may hold any of the  *)
(* subject's events and report what they like.  The mesh reaches a subject *)
(* that runs, MQTT loses and delays.  Signatures verify; what is known of  *)
(* start times is not part of this module.                                 *)
(*                                                                         *)
(* An event is stamped with a clock that only orders events; how old a     *)
(* stamp is follows from two marks: at or before "stale" it is older than  *)
(* MissingThresholdSeconds, at or before "ancient" than an hour.  Shorter  *)
(* periods (15 s for a report to count as recent, 60 s between pings) may  *)
(* be over or not.                                                         *)
(***************************************************************************)
EXTENDS Integers, FiniteSets

CONSTANTS
  Modes,          \* which transports to look at: is it the gossip mode (TRUE) or the hybrid
  MaxClock,       \* bound: stamps after which the subject says and time does no more
  MaxEpisodes     \* bound: starts of the subject, contacts and background syncs together

ASSUME PresenceAssumption ==
  Modes \subseteq BOOLEAN /\ MaxClock \in Nat /\ MaxEpisodes \in Nat

VARIABLES
  gossip,                    \* gossip mode: no MQTT, and an hour before MISSING
  status, boots, said,       \* the subject, and what of its own events it holds
  abroad,                    \* the events about it that other naras may hold
  now, stale, ancient,       \* the clock and the marks
  known, view, ledger,       \* the observer: has it met it, its observation, its events
  inbox,                     \* messages of the subject under way to the observer
  missingReports, restartReports,  \* goroutines waiting out their delay
  snapshot,                  \* what the maintenance loop read
  pinging,                   \* who waits for a ping under way
  attempted, lastResult,     \* pinged since the last horizon? with what result?
  settled,                   \* maintained since the last horizon?
  contacts, syncs

subject == <<status, boots, said>>
clock == <<now, stale, ancient>>
opinion == <<known, view, ledger>>
reports == <<missingReports, restartReports>>
ping == <<pinging, attempted, lastResult>>
maintenance == <<snapshot, settled>>
bounds == <<contacts, syncs>>
vars == <<gossip, subject, abroad, clock, opinion, inbox, reports, ping, maintenance, bounds>>

Idle == [online |-> "idle", restarts |-> 0]
Away == {"OFFLINE", "MISSING"}
Unmet == {"none", ""}          \* no observation, and one without a status

Event(kind, by, num) == [ts |-> now + 1, kind |-> kind, by |-> by, num |-> num]
Own(kind) == Event(kind, "subject", 0)

Recent(e) == e.ts > stale
Sent(e) == e.by = "subject"
Chaus(events) == {e \in events : e.kind = "chau"}

-----------------------------------------------------------------------------
(* What the observer concludes.  The helpers map its state to the next, so   *)
(* that a handler is their composition.                                      *)

Current == [known |-> known, view |-> view, ledger |-> ledger, restartReports |-> restartReports]

\* The ledger without what no reader of it asks for.
Kept(events) ==
  {e \in events :
    \/ \A f \in events : f.ts <= e.ts
    \/ e.kind = "hey-there" /\ \A f \in events : f.kind = "hey-there" => f.ts <= e.ts
    \/ e.kind = "restart"
    \/ e.kind = "missing" /\ e.by = "other" /\ Recent(e)}

Becomes(s) ==
  /\ known' = s.known /\ view' = s.view /\ ledger' = Kept(s.ledger)
  /\ restartReports' = s.restartReports
  /\ now' = IF \E e \in s.ledger : e.ts > now THEN now + 1 ELSE now

Add(s, events) == [s EXCEPT !.ledger = @ \cup events]
Meet(s) == [s EXCEPT !.known = TRUE]

\* Mutant: the nara is not imported.
RecordsWithoutImport(s, recent) ==
  IF ~recent THEN s
  ELSE [s EXCEPT !.view.online = "ONLINE", !.ledger = @ \cup {Event("first-seen", "me", 0)}]

recordObservationOnlineNara(s, recent) ==
  LET online == s.view.online
      n == s.view.restarts + 1
      seen == [s EXCEPT
        !.known = TRUE,
        !.view.online = IF recent THEN "ONLINE" ELSE IF online = "none" THEN "" ELSE online]
  IN CASE ~s.known /\ ~recent -> s
       [] online \in Unmet /\ (s.known \/ recent) ->
            Add(seen, {Event("first-seen", "me", 0)})
       [] online \in Away /\ (s.known \/ recent) ->
            [seen EXCEPT !.view.restarts = n, !.restartReports = @ \cup {n}]
       [] OTHER -> seen

\* The first event of a batch that names the subject decides whether it is imported.
discoverNarasFromEvents(s, first) ==
  IF Recent(first) \/ first.kind = "hey-there" THEN Meet(s) ELSE s

processHeyThereSyncEvents(s, batch) ==
  IF \E e \in batch : e.kind = "hey-there" THEN Meet(s) ELSE s

hasMoreRecentHeyThere(s, ts) == \E e \in s.ledger : e.kind = "hey-there" /\ e.ts > ts

processChauSyncEvents(s, batch) ==
  IF /\ s.view.online = "ONLINE"
     /\ \E e \in Chaus(batch) : ~hasMoreRecentHeyThere(s, e.ts)
  THEN [s EXCEPT !.view.online = "OFFLINE"] ELSE s

\* The emitter is marked as of the first of its events in the batch.
markEmittersAsSeen(s, batch, mine) ==
  IF \/ Chaus(batch) # {} \/ ~Sent(mine) \/ s.view.online = "ONLINE" THEN s
  ELSE recordObservationOnlineNara(s, Recent(mine))

\* In whatever order the batch came: "first" leads it, "mine" is the subject's first.
MergeSyncEventsWithVerification(s, batch) ==
  IF batch = {} THEN {s}
  ELSE LET after(first, mine) ==
             LET met == processHeyThereSyncEvents(discoverNarasFromEvents(s, first), batch)
             IN Add(markEmittersAsSeen(processChauSyncEvents(met, batch), batch, mine), batch)
           heads == {e \in batch : Sent(e)}
       IN {after(p[1], p[2]) : p \in {q \in batch \X batch :
             /\ heads # {} => q[2] \in heads
             /\ (heads = {} \/ Sent(q[1])) => q[2] = q[1]}}

createZine(events) == {e \in events : Recent(e)}

-----------------------------------------------------------------------------
Init ==
  /\ gossip \in Modes
  /\ status = "down" /\ boots = 0 /\ said = {} /\ abroad = {}
  /\ now = 0 /\ stale = 0 /\ ancient = 0
  /\ known = FALSE /\ view = [online |-> "none", restarts |-> 0] /\ ledger = {}
  /\ inbox = {}
  /\ missingReports = 0 /\ restartReports = {}
  /\ snapshot = Idle /\ settled = FALSE
  /\ pinging = "nobody" /\ attempted = FALSE /\ lastResult = FALSE
  /\ contacts = 0 /\ syncs = 0

\* A contact is a newspaper, message, exchange or report of others.
Another == boots + contacts + syncs < MaxEpisodes

(* What the subject does *)

Contact == Another /\ contacts' = contacts + 1

Elsewhere == UNCHANGED <<gossip, stale, ancient, opinion, reports, ping, maintenance, syncs>>

\* In gossip mode MQTT carries nothing.
postEvent(m) == inbox' = IF gossip THEN inbox ELSE inbox \cup {m}

\* An event of its own, into its ledger; others may come to hold it.
Say(kind, kept) ==
  /\ now < MaxClock /\ now' = now + 1
  /\ said' = kept \cup {Own(kind)} /\ abroad' = abroad \cup {Own(kind)}

heyThere(kept) ==
  /\ Say("hey-there", kept)
  /\ postEvent([kind |-> "hey-there", event |-> Own("hey-there")])

\* A start; boot recovery may bring back what it said in an earlier life.
Start ==
  /\ status = "down" /\ Another
  /\ heyThere({}) \/ heyThere(said)
  /\ status' = "up" /\ boots' = boots + 1
  /\ Elsewhere /\ UNCHANGED contacts

\* Again, because somebody unknown posted a newspaper.
heyThereAgain ==
  /\ status = "up" /\ heyThere(said) /\ Contact
  /\ Elsewhere /\ UNCHANGED <<status, boots>>

announce ==
  /\ status = "up" /\ ~gossip /\ Contact
  /\ postEvent([kind |-> "newspaper"])
  /\ Elsewhere /\ UNCHANGED <<subject, abroad, now>>

Chau ==
  /\ status = "up" /\ Say("chau", said)
  /\ status' = "leaving"
  /\ postEvent([kind |-> "chau", event |-> Own("chau")])
  /\ Elsewhere /\ UNCHANGED <<boots, contacts>>

\* The process ends: after its last gossip round, or at once.
Exit ==
  /\ status # "down" /\ status' = "down"
  /\ Elsewhere /\ UNCHANGED <<boots, said, abroad, now, inbox, contacts>>

\* A tease, to the observer directly; it is in the subject's ledger too.
SendDM ==
  /\ status = "up" /\ Contact /\ Say("social", said)
  /\ inbox' = inbox \cup {[kind |-> "dm", event |-> Own("social")]}
  /\ Elsewhere /\ UNCHANGED <<status, boots>>

\* The subject hands the observer its zine, in a round or the last one before it exits.
performGossipRound ==
  /\ status # "down" /\ createZine(said) # {} /\ Contact
  /\ inbox' = inbox \cup {[kind |-> "zine", events |-> createZine(said)]}
  /\ Elsewhere /\ UNCHANGED <<subject, abroad, now>>

\* Another nara reports, rightly or not, that the subject is gone or back or there.
OtherReports(kind, num) ==
  /\ Contact /\ now < MaxClock /\ now' = now + 1
  /\ abroad' = abroad \cup {Event(kind, "other", num)}
  /\ Elsewhere /\ UNCHANGED <<subject, inbox>>

(* What reaches the observer *)

Concluding ==
  UNCHANGED <<gossip, subject, abroad, stale, ancient, missingReports, ping, maintenance>>

Take(m) ==
  /\ m \in inbox /\ inbox' = inbox \ {m}
  /\ Concluding /\ UNCHANGED bounds

\* A call fails, MQTT drops a message.
Lose(m) == Take(m) /\ UNCHANGED <<now, opinion, restartReports>>

handleHeyThereEvent(m) ==
  /\ m.kind = "hey-there" /\ Take(m)
  /\ Becomes(Add(recordObservationOnlineNara(Current, Recent(m.event)), {m.event}))

handleChauEvent(m) ==
  /\ m.kind = "chau" /\ Take(m)
  /\ Becomes(Add([Current EXCEPT !.view.online = "OFFLINE"], {m.event}))

handleNewspaperEvent(m) ==
  /\ m.kind = "newspaper" /\ Take(m)
  /\ Becomes(recordObservationOnlineNara(Meet(Current), TRUE))

\* A direct message counts as a sign of life; the ledger may refuse a tease.
httpDMHandler(m) ==
  /\ m.kind = "dm" /\ Take(m)
  /\ \E kept \in {{}, {m.event}} :
       Becomes(recordObservationOnlineNara(Add(Current, kept), Recent(m.event)))

\* The server's side: whoever hands over a zine is there, unless it says goodbye in it.
httpGossipZineHandler(m) ==
  /\ m.kind = "zine" /\ Take(m)
  /\ \E s \in MergeSyncEventsWithVerification(Current, m.events) :
       Becomes(IF Chaus(m.events) # {} THEN s ELSE recordObservationOnlineNara(s, TRUE))

\* The client's side: post to a nara that seems to be online ...
exchangeZine ==
  /\ status # "down" /\ known /\ view.online = "ONLINE" /\ Contact
  /\ inbox' = inbox \cup {[kind |-> "reply", events |-> createZine(said)]}
  /\ Elsewhere /\ UNCHANGED <<subject, abroad, now>>

\* ... and take whatever answer came as a sign of life.
zineReceived(m) ==
  /\ m.kind = "reply" /\ Take(m)
  /\ \E s \in MergeSyncEventsWithVerification(Current, m.events) :
       Becomes(recordObservationOnlineNara(s, TRUE))

\* Another nara's zine: recent events it holds.
ZineOfAnother(batch) ==
  /\ batch # {} /\ Contact
  /\ \E s \in MergeSyncEventsWithVerification(Current, batch) : Becomes(s)
  /\ Concluding /\ UNCHANGED <<inbox, syncs>>

\* Events of the last day from another nara, whatever their age, known already or not.
performBackgroundSync(batch) ==
  /\ Another /\ syncs' = syncs + 1
  /\ \E s \in MergeSyncEventsWithVerification(Current, batch) : Becomes(s)
  /\ Concluding /\ UNCHANGED <<inbox, contacts>>

\* The tailnet lists its machines, running or not; a new one counts as online.
discoverMeshPeers ==
  /\ boots > 0 /\ ~known
  /\ Becomes(recordObservationOnlineNara(Meet(Current), TRUE))
  /\ Concluding /\ UNCHANGED <<inbox, bounds>>

(* The online status that the ledger says *)

Newest(events) == CHOOSE e \in events : \A f \in events : f.ts <= e.ts

\* Mutant: nobody is ever silent for too long.
NeverMissing == 0

MissingThreshold == IF gossip THEN ancient ELSE stale

GetStatus(events) ==
  IF events = {} THEN ""
  ELSE LET e == Newest(events)
       IN CASE e.kind = "chau" -> "OFFLINE"
            [] e.kind = "missing" \/ e.ts <= MissingThreshold -> "MISSING"
            [] OTHER -> "ONLINE"

derived == GetStatus(ledger)

(* Pings, at most one a minute: in between the cached result answers, also  *)
(* while the ping that is to set it is still under way                      *)

beginPing(who) ==
  /\ pinging = "nobody" /\ pinging' = who
  /\ attempted' = TRUE /\ UNCHANGED lastResult

rateLimited(result) ==
  attempted /\ lastResult = result /\ UNCHANGED ping

pingEnds(who, result) ==
  /\ pinging = who /\ result = (status # "down")
  /\ pinging' = "nobody" /\ lastResult' = result /\ UNCHANGED attempted

markOnlineFromPing ==
  /\ view' = [view EXCEPT !.online = "ONLINE"]
  /\ ledger' = Kept(ledger \cup {Event("ping", "me", 0)})
  /\ now' = now + 1

report(e) == ledger' = Kept(ledger \cup {e}) /\ now' = now + 1

\* Reports of others that may be of the last 15 seconds.
OthersReport(kind) ==
  \E e \in ledger : e.kind = kind /\ e.by = "other" /\ Recent(e)

(* The maintenance loop: it reads every observation once, then judges each *)

Maintaining == UNCHANGED <<gossip, subject, abroad, stale, ancient, known, inbox, restartReports, bounds>>

\* (A turn of the loop that changes nothing is left out.)
readObservations ==
  /\ snapshot = Idle /\ view.online # "none"
  /\ ~settled \/ derived \notin {"", view.online}
  /\ snapshot' = view
  /\ Maintaining /\ UNCHANGED <<now, view, ledger, missingReports, ping, settled>>

Judged == snapshot' = Idle /\ settled' = TRUE

\* The whole observation is written back as it was read, but for its status.
setStatus(new) ==
  /\ Judged
  /\ view' = IF known THEN [snapshot EXCEPT !.online = new] ELSE view
  /\ missingReports' = IF known /\ snapshot.online = "ONLINE" /\ new = "MISSING"
                       THEN missingReports + 1 ELSE missingReports
  /\ UNCHANGED <<ledger, now>>

keepStatus == Judged /\ UNCHANGED <<view, ledger, now, missingReports>>

\* Mutant: absences are believed without a ping.
NeverNeedsPing == FALSE

NeedsPing ==
  snapshot.online = "ONLINE" /\ derived = "MISSING" /\ Newest(ledger).ts > ancient

observationMaintenanceOnce ==
  /\ snapshot # Idle /\ pinging # "maintenance" /\ Maintaining
  /\ \/ /\ derived \in {"", snapshot.online}
        /\ keepStatus /\ UNCHANGED ping
     \/ /\ derived \notin {"", snapshot.online} /\ ~NeedsPing
        /\ setStatus(derived) /\ UNCHANGED ping
     \/ /\ NeedsPing
        /\ \/ rateLimited(TRUE) /\ keepStatus
           \/ rateLimited(FALSE) /\ setStatus("MISSING")
           \/ /\ beginPing("maintenance")
              /\ UNCHANGED <<view, ledger, now, missingReports, snapshot, settled>>

maintenancePinged ==
  /\ \/ pingEnds("maintenance", TRUE) /\ markOnlineFromPing /\ Judged /\ UNCHANGED missingReports
     \/ pingEnds("maintenance", FALSE) /\ setStatus("MISSING")
  /\ Maintaining

(* The delayed reports *)

Reporting == UNCHANGED <<gossip, subject, abroad, stale, ancient, known, inbox, maintenance, bounds>>

reportMissing == report(Event("missing", "me", 0)) /\ UNCHANGED view

reportMissingWithDelay ==
  /\ missingReports > 0 /\ missingReports' = missingReports - 1
  /\ \/ OthersReport("missing") /\ UNCHANGED <<view, ledger, now, ping>>
     \/ rateLimited(TRUE) /\ UNCHANGED <<view, ledger, now>>
     \/ rateLimited(FALSE) /\ reportMissing
     \/ beginPing("report") /\ UNCHANGED <<view, ledger, now>>
  /\ Reporting /\ UNCHANGED restartReports

reportPinged ==
  /\ \/ pingEnds("report", TRUE) /\ markOnlineFromPing
     \/ pingEnds("report", FALSE) /\ reportMissing
  /\ Reporting /\ UNCHANGED reports

\* A restart is told once, whoever saw it: the same number is the same event.
reportRestartWithDelay(n) ==
  /\ n \in restartReports /\ restartReports' = restartReports \ {n}
  /\ LET told == \E e \in ledger : e.kind = "restart" /\ e.num = n
     IN \/ (told \/ OthersReport("restart")) /\ UNCHANGED <<ledger, now>>
        \/ ~told /\ report(Event("restart", "me", n))
  /\ Reporting /\ UNCHANGED <<view, missingReports, ping>>

(* Time *)

\* Reports, pings, calls and messages take less than five minutes or are lost (QoS 0),
\* and the loop turns every second.
Quiet ==
  /\ missingReports = 0 /\ restartReports = {} /\ pinging = "nobody" /\ snapshot = Idle
  /\ inbox = {}
  /\ view.online = "none" \/ settled

Passes(horizon, hour) ==
  /\ Quiet /\ (status = "down" \/ now < MaxClock)
  /\ stale' = horizon /\ ancient' = hour
  /\ attempted' = FALSE /\ settled' = FALSE
  /\ UNCHANGED <<gossip, subject, abroad, now, opinion, inbox, reports, snapshot, pinging, lastResult, bounds>>

MissingThresholdPasses == stale < now /\ Passes(now, ancient)
HourPasses == stale = now /\ ancient < stale /\ Passes(now, now)

-----------------------------------------------------------------------------
Subject ==
  Start \/ heyThereAgain \/ announce \/ Chau \/ Exit \/ SendDM \/ performGossipRound

Others ==
  \/ OtherReports("missing", 0) \/ \E n \in 1..MaxEpisodes : OtherReports("restart", n)
  \/ \E batch \in SUBSET createZine(abroad) : ZineOfAnother(batch)
  \/ \E batch \in SUBSET abroad : performBackgroundSync(batch)

Hear ==
  \/ \E m \in inbox :
       \/ handleHeyThereEvent(m) \/ handleChauEvent(m) \/ handleNewspaperEvent(m)
       \/ httpDMHandler(m) \/ httpGossipZineHandler(m) \/ zineReceived(m)
       \/ Lose(m)
  \/ exchangeZine \/ discoverMeshPeers

MessageEnds == \E m \in inbox : Lose(m)

Report ==
  reportMissingWithDelay \/ reportPinged \/ \E n \in restartReports : reportRestartWithDelay(n)

Maintain == readObservations \/ observationMaintenanceOnce \/ maintenancePinged

Time == MissingThresholdPasses \/ HourPasses

Next == Subject \/ Others \/ Hear \/ Report \/ Maintain \/ Time

\* Goroutines and the loop run, messages arrive or not, time passes.
Fairness == WF_vars(Report) /\ WF_vars(Maintain) /\ WF_vars(MessageEnds) /\ SF_vars(Time)

Spec == Init /\ [][Next]_vars /\ Fairness

-----------------------------------------------------------------------------
TypeOK ==
  /\ gossip \in BOOLEAN /\ status \in {"down", "up", "leaving"}
  /\ ancient <= stale /\ stale <= now
  /\ said \subseteq abroad /\ \A e \in said : Sent(e)
  /\ view.online \in Unmet \cup Away \cup {"ONLINE"} /\ view.restarts \in Nat
  /\ \A e, f \in ledger \cup abroad : e.ts <= now /\ (e.ts = f.ts => e = f)
  /\ missingReports \in Nat /\ restartReports \subseteq Nat
  /\ pinging \in {"nobody", "maintenance", "report"}
  /\ pinging # "nobody" => attempted
  /\ known \/ view.online \notin {"ONLINE", "MISSING"}

(* A nara that runs since it first started and can be reached is not missed  *)
(* and not thought to have restarted, nor told to be, however long it is     *)
(* silent, whatever messages are lost or late and whatever others report:    *)
(* the pings stand in for it.  (Hybrid mode; once events older than the      *)
(* threshold are merged the code does not promise it.)                       *)
Uninterrupted == ~gossip /\ boots = 1 /\ status = "up" /\ syncs = 0

LivingIsNotMissed ==
  Uninterrupted =>
    /\ view.online \notin Away
    /\ \A e \in ledger : e.by = "me" => e.kind \notin {"missing", "restart"}

(* Whoever is gone for good is in the end not taken for ONLINE, even when old *)
(* events, late messages and wrong reports revive it for a while.             *)
GoneIsNoticed ==
  <>[](status = "down") => <>[](view.online # "ONLINE")

(* observations.md:32: "Before marking a nara as MISSING, an observer MUST     *)
(* attempt a direct ping."  So whoever turns from ONLINE to MISSING was      *)
(* pinged since the last horizon, in vain.                                   *)
MissingOnlyAfterPing ==
  [][(view.online = "ONLINE" /\ view'.online = "MISSING") => (attempted' /\ ~lastResult')]_vars
=============================================================================
