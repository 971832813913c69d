------------------------- MODULE WorldJourneyProofs -------------------------
(***************************************************************************)
(* Proofs about WorldJourney for every set of naras and journeys and every *)
(* number of restarts: type correctness, and the three safety properties   *)
(* of a journey.  The invariant JourneyInv relates the chain of relays to  *)
(* what its hops remember and have reported.                               *)
(***************************************************************************)
EXTENDS WorldJourney, SequenceTheorems, TLAPS

Relay == [to : Nara, handler : {"sent", "forwarding", "ok", "error"},
          told : {"waiting", "ok", "error"}]

JourneyTypes ==
  /\ originator \in [Journey -> Nara \cup {Nobody}]
  /\ calls \in [Journey -> Seq(Relay)]
  /\ pending \in [Nara -> SUBSET Journey]
  /\ reported \in [Nara -> SUBSET (Reason \X Journey)]
  /\ \A j \in Journey : originator[j] = Nobody => calls[j] = <<>>

\* What the handlers of one chain of relays have done and answered.
Chain(j) ==
  \A k \in DOMAIN calls[j] :
    /\ k < Last(j) => calls[j][k].handler # "sent"
    /\ calls[j][k].handler = "forwarding" => k < Last(j)
    /\ calls[j][k].handler = "ok" => calls[j][k].to = originator[j]
    /\ calls[j][k].told = "ok" => CameHome(j)

NoRepeat(j) ==
  \A k \in DOMAIN calls[j] :
    /\ \A i \in 1 .. k - 1 : calls[j][i].to # calls[j][k].to
    /\ calls[j][k].to = originator[j] => k = Last(j)

Completed(n, j) == <<"journey-complete", j>> \in reported[n]
TimedOut(n, j) == <<"journey-timeout", j>> \in reported[n]

\* What nara n remembers and has reported of journey j.
Outcome(n, j) ==
  /\ j \in pending[n] =>
       n \in Hops(j) /\ n # originator[j] /\ ~Completed(n, j) /\ ~TimedOut(n, j)
  /\ TimedOut(n, j) => n \in Hops(j) /\ n # originator[j]
  /\ Completed(n, j) => CameHome(j) /\ n \in Hops(j) /\ ~TimedOut(n, j)

JourneyInv ==
  /\ JourneyTypes
  /\ \A j \in Journey : Chain(j) /\ NoRepeat(j)
  /\ \A n \in Nara, j \in Journey : Outcome(n, j)

-----------------------------------------------------------------------------
(* Chains *)

\* The chain t has all the relays of s, and none of them is undone.
Continues(s, t) ==
  /\ DOMAIN s \subseteq DOMAIN t
  /\ \A k \in DOMAIN s :
       /\ t[k].to = s[k].to
       /\ s[k].handler # "sent" => t[k].handler # "sent"
       /\ s[k].handler = "ok" => t[k].handler = "ok"

(* Whoever handled a journey has handled it for good, and a journey that     *)
(* came home stays home.                                                     *)
LEMMA HopsStay ==
  ASSUME NEW j, Continues(calls[j], calls'[j]), originator'[j] = originator[j]
  PROVE  Hops(j) \subseteq Hops(j)' /\ (CameHome(j) => CameHome(j)')
<1>1. Hops(j) \subseteq Hops(j)'
  BY DEF Hops, Continues
<1>2. CameHome(j) => CameHome(j)'
  BY DEF CameHome, Continues
<1> QED BY <1>1, <1>2

(* A step that leaves the relays of a journey alone leaves its chain, its    *)
(* hops and its return alone.                                                *)
LEMMA ChainFrame ==
  ASSUME NEW j, calls'[j] = calls[j], originator'[j] = originator[j]
  PROVE  /\ Hops(j)' = Hops(j) /\ CameHome(j)' = CameHome(j)
         /\ Chain(j) => Chain(j)'
         /\ NoRepeat(j) => NoRepeat(j)'
<1>1. Hops(j)' = Hops(j)
  BY DEF Hops
<1>2. CameHome(j)' = CameHome(j)
  BY DEF CameHome
<1>3. Last(j)' = Last(j)
  BY DEF Last
<1>4. Chain(j) => Chain(j)'
  BY <1>2, <1>3 DEF Chain
<1>5. NoRepeat(j) => NoRepeat(j)'
  BY <1>3 DEF NoRepeat
<1> QED BY <1>1, <1>2, <1>4, <1>5

(* A handler's progress changes one relay of the chain, and nothing of its   *)
(* receiver.                                                                 *)
LEMMA HandlerUpdate ==
  ASSUME NEW s \in Seq(Relay), NEW k \in DOMAIN s,
         NEW h \in {"sent", "forwarding", "ok", "error"}
  PROVE  LET t == [s EXCEPT ![k].handler = h]
         IN t \in Seq(Relay) /\ Len(t) = Len(s)
<1>1. s[k] \in Relay /\ k \in 1 .. Len(s)
  BY LenProperties, ElementOfSeq
<1>2. [s[k] EXCEPT !.handler = h] \in Relay
  BY <1>1 DEF Relay
<1> QED BY <1>1, <1>2, ExceptSeq

(* Nor does an answer. *)
LEMMA ToldUpdate ==
  ASSUME NEW s \in Seq(Relay), NEW k \in DOMAIN s, NEW a \in {"waiting", "ok", "error"}
  PROVE  LET t == [s EXCEPT ![k].told = a]
         IN t \in Seq(Relay) /\ Len(t) = Len(s)
<1>1. s[k] \in Relay /\ k \in 1 .. Len(s)
  BY LenProperties, ElementOfSeq
<1>2. [s[k] EXCEPT !.told = a] \in Relay
  BY <1>1 DEF Relay
<1> QED BY <1>1, <1>2, ExceptSeq

(* Nothing of a journey happened yet when it is started. *)
LEMMA InitInv == ASSUME Init PROVE JourneyInv
<1>1. JourneyTypes
  BY JourneyAssumption DEF Init, JourneyTypes
<1>2. \A j \in Journey : Chain(j) /\ NoRepeat(j)
  BY DEF Init, Chain, NoRepeat
<1>3. \A n \in Nara, j \in Journey : Outcome(n, j)
  BY DEF Init, Outcome, Completed, TimedOut
<1> QED BY <1>1, <1>2, <1>3 DEF JourneyInv

(* A first relay goes to somebody else. *)
LEMMA StartInv ==
  ASSUME JourneyInv, NEW n \in Nara, NEW j \in Journey, NEW online \in SUBSET Nara,
         StartJourney(n, j, online)
  PROVE  JourneyInv'
<1>1. PICK next \in Nara : next # n /\ calls' = [calls EXCEPT ![j] = <<Call(next)>>]
  BY DEF StartJourney, ChooseNextNara
<1>2. Call(next) \in Relay /\ <<Call(next)>> \in Seq(Relay) /\ calls[j] = <<>>
  BY DEF Call, Relay, StartJourney, JourneyInv, JourneyTypes
<1>3. JourneyTypes'
  BY <1>1, <1>2, JourneyAssumption DEF StartJourney, JourneyInv, JourneyTypes
<1>4. calls'[j] = <<Call(next)>> /\ originator'[j] = n
  BY <1>1 DEF StartJourney, JourneyInv, JourneyTypes
<1>5. Chain(j)' /\ NoRepeat(j)'
  <2>1. DOMAIN calls'[j] = {1} /\ Len(calls'[j]) = 1 /\ calls'[j][1] = Call(next)
    BY <1>4
  <2>2. /\ Call(next).to = next /\ Call(next).handler = "sent"
        /\ Call(next).told = "waiting"
    BY DEF Call
  <2>3. Chain(j)'
    BY <2>1, <2>2 DEF Chain, Last
  <2>4. NoRepeat(j)'
    BY <1>1, <1>4, <2>1, <2>2 DEF NoRepeat, Last
  <2> QED BY <2>3, <2>4
<1>6. \A i \in Journey \ {j} : calls'[i] = calls[i] /\ originator'[i] = originator[i]
  BY <1>1 DEF StartJourney, JourneyInv, JourneyTypes
<1>7. \A i \in Journey \ {j} : Chain(i)' /\ NoRepeat(i)'
  BY <1>6, ChainFrame DEF JourneyInv
<1>8. \A m \in Nara : Outcome(m, j)'
  <2>1. Hops(j) = {}
    BY <1>2 DEF Hops
  <2>2. \A m \in Nara : j \notin pending[m] /\ ~Completed(m, j) /\ ~TimedOut(m, j)
    BY <2>1 DEF JourneyInv, Outcome
  <2> QED BY <2>2 DEF StartJourney, Outcome, Completed, TimedOut
<1>9. ASSUME NEW m \in Nara, NEW i \in Journey \ {j} PROVE Outcome(m, i)'
  <2>1. Hops(i)' = Hops(i) /\ CameHome(i)' = CameHome(i)
    BY <1>6, ChainFrame
  <2> QED BY <1>6, <2>1 DEF JourneyInv, StartJourney, Outcome, Completed, TimedOut
<1> QED BY <1>3, <1>5, <1>7, <1>8, <1>9 DEF JourneyInv

-----------------------------------------------------------------------------
(* Steps along one chain *)

(* A step that continues one journey's chain leaves the other chains as they *)
(* are, and undoes no hop and no return.                                     *)
LEMMA ChainStep ==
  ASSUME JourneyInv, NEW j \in Journey, NEW t \in Seq(Relay), calls[j] # <<>>,
         calls' = [calls EXCEPT ![j] = t], Continues(calls[j], t), originator' = originator
  PROVE  /\ calls' \in [Journey -> Seq(Relay)] /\ calls'[j] = t
         /\ \A i \in Journey : originator'[i] = Nobody => calls'[i] = <<>>
         /\ \A i \in Journey : Hops(i) \subseteq Hops(i)' /\ (CameHome(i) => CameHome(i)')
         /\ \A i \in Journey \ {j} : Chain(i)' /\ NoRepeat(i)'
<1>1. calls' \in [Journey -> Seq(Relay)] /\ calls'[j] = t
  BY DEF JourneyInv, JourneyTypes
<1>2. \A i \in Journey \ {j} : calls'[i] = calls[i] /\ originator'[i] = originator[i]
  BY DEF JourneyInv, JourneyTypes
<1>3. \A i \in Journey : originator'[i] = Nobody => calls'[i] = <<>>
  BY <1>2 DEF JourneyInv, JourneyTypes
<1>4. \A i \in Journey \ {j} :
        /\ Hops(i)' = Hops(i) /\ CameHome(i)' = CameHome(i)
        /\ Chain(i)' /\ NoRepeat(i)'
  BY <1>2, ChainFrame DEF JourneyInv
<1>5. Hops(j) \subseteq Hops(j)' /\ (CameHome(j) => CameHome(j)')
  BY <1>1, HopsStay
<1> QED BY <1>1, <1>3, <1>4, <1>5

(* What a nara remembers and has reported of a journey stays true as long as *)
(* no hop and no return is undone.                                           *)
LEMMA OutcomeStays ==
  ASSUME NEW n, NEW j, Outcome(n, j), Hops(j) \subseteq Hops(j)', CameHome(j) => CameHome(j)',
         originator'[j] = originator[j], j \in pending'[n] => j \in pending[n],
         Completed(n, j)' = Completed(n, j), TimedOut(n, j)' = TimedOut(n, j)
  PROVE  Outcome(n, j)'
  BY DEF Outcome

(* As long as the receivers stay the same, no nara is visited twice. *)
LEMMA SameReceivers ==
  ASSUME NEW j, NoRepeat(j), calls[j] \in Seq(Relay), calls'[j] \in Seq(Relay),
         Len(calls'[j]) = Len(calls[j]), originator'[j] = originator[j],
         \A k \in DOMAIN calls[j] : calls'[j][k].to = calls[j][k].to
  PROVE  NoRepeat(j)'
<1> DEFINE s == calls[j]
           t == calls'[j]
<1>1. Len(s) \in Nat /\ DOMAIN s = 1 .. Len(s) /\ DOMAIN t = 1 .. Len(s)
  OBVIOUS
<1>2. ASSUME NEW k \in DOMAIN t, NEW i \in 1 .. k - 1 PROVE t[i].to # t[k].to
  <2>1. i \in DOMAIN s /\ k \in DOMAIN s
    BY <1>1
  <2> QED BY <2>1 DEF NoRepeat
<1>3. ASSUME NEW k \in DOMAIN t, t[k].to = originator'[j] PROVE k = Last(j)'
  BY <1>1, <1>3 DEF NoRepeat, Last
<1> QED BY <1>2, <1>3 DEF NoRepeat

(* A dropped request leaves an error at the end of the chain. *)
LEMMA DropInv ==
  ASSUME JourneyInv, NEW j \in Journey, DropJourney(j)
  PROVE  JourneyInv'
<1> DEFINE t == [calls[j] EXCEPT ![Last(j)].handler = "error"]
<1>1. calls[j] \in Seq(Relay) /\ Last(j) \in DOMAIN calls[j] /\ calls[j] # <<>>
  BY DEF JourneyInv, JourneyTypes, DropJourney, UnderWay, Last
<1>2. t \in Seq(Relay) /\ Len(t) = Len(calls[j]) /\ DOMAIN t = DOMAIN calls[j]
  BY <1>1, HandlerUpdate
<1>3. \A k \in DOMAIN t :
        /\ t[k].to = calls[j][k].to /\ t[k].told = calls[j][k].told
        /\ t[k].handler = IF k = Last(j) THEN "error" ELSE calls[j][k].handler
  BY <1>1 DEF Relay
<1>4. calls' = [calls EXCEPT ![j] = t] /\ UNCHANGED <<originator, pending, reported>>
  BY DEF DropJourney
<1>5. Continues(calls[j], t)
  BY <1>2, <1>3 DEF Continues, DropJourney, UnderWay
<1> HIDE DEF t
<1>6. /\ calls' \in [Journey -> Seq(Relay)] /\ calls'[j] = t
      /\ \A i \in Journey : originator'[i] = Nobody => calls'[i] = <<>>
      /\ \A i \in Journey : Hops(i) \subseteq Hops(i)' /\ (CameHome(i) => CameHome(i)')
      /\ \A i \in Journey \ {j} : Chain(i)' /\ NoRepeat(i)'
  BY <1>1, <1>2, <1>4, <1>5, ChainStep
<1>7. Chain(j) /\ NoRepeat(j)
  BY DEF JourneyInv
<1>8. Last(j)' = Last(j)
  BY <1>2, <1>6 DEF Last
<1>9. Chain(j)'
  BY <1>2, <1>3, <1>4, <1>6, <1>7, <1>8 DEF Chain
<1>10. NoRepeat(j)'
  BY <1>1, <1>2, <1>3, <1>4, <1>6, <1>7, SameReceivers
<1>11. \A n \in Nara, i \in Journey : Outcome(n, i)'
  BY <1>4, <1>6, OutcomeStays DEF JourneyInv, Completed, TimedOut
<1> QED BY <1>4, <1>6, <1>9, <1>10, <1>11 DEF JourneyInv, JourneyTypes

(* Telling a caller an answer changes neither hops nor returns; a success is *)
(* only told of a journey that came home.                                    *)
LEMMA TellInv ==
  ASSUME JourneyInv, NEW j \in Journey, NEW k \in DOMAIN calls[j],
         NEW a \in {"ok", "error"}, a = "ok" => CameHome(j), Tell(j, k, a)
  PROVE  JourneyInv'
<1> DEFINE t == [calls[j] EXCEPT ![k].told = a]
<1>1. calls[j] \in Seq(Relay) /\ calls[j] # <<>>
  BY DEF JourneyInv, JourneyTypes
<1>2. t \in Seq(Relay) /\ Len(t) = Len(calls[j]) /\ DOMAIN t = DOMAIN calls[j]
  <2>1. a \in {"waiting", "ok", "error"}
    OBVIOUS
  <2>2. t \in Seq(Relay) /\ Len(t) = Len(calls[j])
    BY <1>1, <2>1, ToldUpdate
  <2> QED BY <2>2
<1>3. \A i \in DOMAIN t :
        /\ t[i].to = calls[j][i].to /\ t[i].handler = calls[j][i].handler
        /\ t[i].told = IF i = k THEN a ELSE calls[j][i].told
  BY <1>1 DEF Relay
<1>4. calls' = [calls EXCEPT ![j] = t] /\ UNCHANGED <<originator, pending, reported>>
  BY DEF Tell
<1>5. Continues(calls[j], t)
  BY <1>2, <1>3 DEF Continues
<1> HIDE DEF t
<1>6. /\ calls' \in [Journey -> Seq(Relay)] /\ calls'[j] = t
      /\ \A i \in Journey : originator'[i] = Nobody => calls'[i] = <<>>
      /\ \A i \in Journey : Hops(i) \subseteq Hops(i)' /\ (CameHome(i) => CameHome(i)')
      /\ \A i \in Journey \ {j} : Chain(i)' /\ NoRepeat(i)'
  BY <1>1, <1>2, <1>4, <1>5, ChainStep
<1>7. Chain(j) /\ NoRepeat(j)
  BY DEF JourneyInv
<1>8. Last(j)' = Last(j)
  BY <1>2, <1>6 DEF Last
<1>9. Chain(j)'
  BY <1>2, <1>3, <1>4, <1>6, <1>7, <1>8 DEF Chain
<1>10. NoRepeat(j)'
  BY <1>1, <1>2, <1>3, <1>4, <1>6, <1>7, SameReceivers
<1>11. \A n \in Nara, i \in Journey : Outcome(n, i)'
  BY <1>4, <1>6, OutcomeStays DEF JourneyInv, Completed, TimedOut
<1> QED BY <1>4, <1>6, <1>9, <1>10, <1>11 DEF JourneyInv, JourneyTypes

(* What a handler answers is what it was told, and only the originator says  *)
(* ok by itself.                                                             *)
LEMMA AnsweringInv ==
  ASSUME JourneyInv, NEW j \in Journey, NEW k \in DOMAIN calls[j],
         RelayAnswers(j, k) \/ RelayTimesOut(j, k)
  PROVE  JourneyInv'
<1>1. CASE RelayTimesOut(j, k)
  BY <1>1, TellInv DEF RelayTimesOut
<1>2. CASE RelayAnswers(j, k)
  <2>1. Answer(j, k) = "ok" => CameHome(j)
    <3>1. Chain(j) /\ calls[j] \in Seq(Relay) /\ k \in 1 .. Last(j)
      BY DEF JourneyInv, JourneyTypes, Last
    <3>2. CASE calls[j][k].handler = "forwarding"
      <4>1. k + 1 \in DOMAIN calls[j]
        BY <3>1, <3>2 DEF Chain, Last
      <4> QED BY <3>1, <3>2, <4>1 DEF Chain, Answer
    <3>3. CASE calls[j][k].handler # "forwarding"
      BY <3>1, <3>3 DEF Chain, Answer, CameHome
    <3> QED BY <3>2, <3>3
  <2> QED BY <1>2, <2>1, TellInv DEF RelayAnswers
<1> QED BY <1>1, <1>2

-----------------------------------------------------------------------------
(* The handler of a relay *)

(* A report adds its reason and its journeys to those of one nara. *)
LEMMA ReportFacts ==
  ASSUME JourneyTypes, NEW n \in Nara, NEW reason \in Reason, NEW js \in SUBSET Journey,
         Report(n, reason, js)
  PROVE  /\ reported' \in [Nara -> SUBSET (Reason \X Journey)]
         /\ \A m \in Nara, r \in Reason, i \in Journey :
              <<r, i>> \in reported'[m] <=>
                <<r, i>> \in reported[m] \/ (m = n /\ r = reason /\ i \in js)
<1>1. {<<reason, i>> : i \in js} \in SUBSET (Reason \X Journey)
  OBVIOUS
<1>2. reported' = [reported EXCEPT ![n] = @ \cup {<<reason, i>> : i \in js}]
  BY DEF Report
<1>3. reported \in [Nara -> SUBSET (Reason \X Journey)]
  BY DEF JourneyTypes
<1>4. reported' \in [Nara -> SUBSET (Reason \X Journey)]
  BY <1>1, <1>2, <1>3
<1>5. ASSUME NEW m \in Nara, NEW r \in Reason, NEW i \in Journey
      PROVE  <<r, i>> \in reported'[m] <=>
               <<r, i>> \in reported[m] \/ (m = n /\ r = reason /\ i \in js)
  BY <1>2, <1>3
<1> QED BY <1>4, <1>5

(* A relay whose handler is done makes its receiver a hop. *)
LEMMA LastIsHop ==
  ASSUME NEW j, NEW k \in DOMAIN calls'[j], calls'[j][k].handler # "sent"
  PROVE  calls'[j][k].to \in Hops(j)'
  BY DEF Hops

(* The receiver of an open relay has not handled the journey before. *)
LEMMA OpenIsNew ==
  ASSUME JourneyInv, NEW j \in Journey, UnderWay(j)
  PROVE  /\ calls[j] \in Seq(Relay) /\ calls[j] # <<>> /\ Last(j) \in DOMAIN calls[j]
         /\ calls[j][Last(j)].to \in Nara
         /\ calls[j][Last(j)].to \notin Hops(j)
<1>1. calls[j] \in Seq(Relay) /\ calls[j] # <<>> /\ Last(j) \in DOMAIN calls[j]
  BY DEF JourneyInv, JourneyTypes, UnderWay, Last
<1>2. calls[j][Last(j)].to \in Nara
  <2>1. calls[j][Last(j)] \in Relay
    BY <1>1
  <2> QED BY <2>1 DEF Relay
<1>3. ASSUME NEW k \in DOMAIN calls[j], calls[j][k].handler # "sent"
      PROVE  calls[j][k].to # calls[j][Last(j)].to
  <2>1. k \in 1 .. Last(j) - 1
    BY <1>1, <1>3 DEF UnderWay, Last
  <2> QED BY <1>1, <2>1 DEF JourneyInv, NoRepeat
<1> QED BY <1>1, <1>2, <1>3 DEF Hops

(* The originator completes its journey: it is home, and the originator has  *)
(* neither remembered nor timed out a journey of its own.                    *)
LEMMA CompleteInv ==
  ASSUME JourneyInv, NEW j \in Journey, UnderWay(j),
         NEW n, n = calls[j][Last(j)].to, n = originator[j],
         onWorldJourneyComplete(n, j), UNCHANGED originator,
         calls' = [calls EXCEPT ![j][Last(j)].handler = "ok"]
  PROVE  JourneyInv'
<1> DEFINE t == [calls[j] EXCEPT ![Last(j)].handler = "ok"]
<1>1. /\ calls[j] \in Seq(Relay) /\ Last(j) \in DOMAIN calls[j] /\ calls[j] # <<>>
      /\ n \in Nara
  BY OpenIsNew
<1>2. t \in Seq(Relay) /\ Len(t) = Len(calls[j]) /\ DOMAIN t = DOMAIN calls[j]
  BY <1>1, HandlerUpdate
<1>3. \A k \in DOMAIN t :
        /\ t[k].to = calls[j][k].to /\ t[k].told = calls[j][k].told
        /\ t[k].handler = IF k = Last(j) THEN "ok" ELSE calls[j][k].handler
  BY <1>1 DEF Relay
<1>4. calls' = [calls EXCEPT ![j] = t]
  OBVIOUS
<1>5. Continues(calls[j], t)
  BY <1>2, <1>3 DEF Continues
<1> HIDE DEF t
<1>6. /\ calls' \in [Journey -> Seq(Relay)] /\ calls'[j] = t
      /\ \A i \in Journey : originator'[i] = Nobody => calls'[i] = <<>>
      /\ \A i \in Journey : Hops(i) \subseteq Hops(i)' /\ (CameHome(i) => CameHome(i)')
      /\ \A i \in Journey \ {j} : Chain(i)' /\ NoRepeat(i)'
  BY <1>1, <1>2, <1>4, <1>5, ChainStep
<1>7. Chain(j) /\ NoRepeat(j)
  BY DEF JourneyInv
<1>8. Last(j)' = Last(j)
  BY <1>2, <1>6 DEF Last
<1>9. Chain(j)'
  <2>1. CameHome(j) => CameHome(j)'
    BY <1>6
  <2>2. ASSUME NEW k \in DOMAIN calls'[j], k # Last(j)
        PROVE  /\ k < Last(j) => calls'[j][k].handler # "sent"
               /\ calls'[j][k].handler = "forwarding" => k < Last(j)
               /\ calls'[j][k].handler = "ok" => calls'[j][k].to = originator[j]
               /\ calls'[j][k].told = "ok" => CameHome(j)'
    BY <1>2, <1>3, <1>6, <1>7, <2>1, <2>2 DEF Chain
  <2>3. /\ calls'[j][Last(j)].handler = "ok" /\ calls'[j][Last(j)].to = originator[j]
        /\ calls'[j][Last(j)].told = "ok" => CameHome(j)'
    <3>1. calls[j][Last(j)].told = "ok" => CameHome(j)
      BY <1>1, <1>7 DEF Chain
    <3>2. /\ t[Last(j)].handler = "ok" /\ t[Last(j)].to = originator[j]
          /\ t[Last(j)].told = calls[j][Last(j)].told
      BY <1>1, <1>2, <1>3
    <3> QED BY <1>6, <2>1, <3>1, <3>2
  <2>4. Last(j) \in Nat
    BY <1>1 DEF Last
  <2> QED BY <1>8, <2>2, <2>3, <2>4 DEF Chain
<1>10. NoRepeat(j)'
  BY <1>1, <1>2, <1>3, <1>6, <1>7, SameReceivers
<1>11. CameHome(j)' /\ n \in Hops(j)'
  <2>1. Last(j) \in DOMAIN calls'[j]
    BY <1>1, <1>2, <1>6
  <2>2. calls'[j][Last(j)].handler = "ok" /\ calls'[j][Last(j)].to = n
    BY <1>3, <1>6, <2>1
  <2> QED BY <2>1, <2>2, LastIsHop DEF CameHome
<1>12. /\ reported' \in [Nara -> SUBSET (Reason \X Journey)]
       /\ \A m \in Nara, r \in Reason, i \in Journey :
            <<r, i>> \in reported'[m] <=>
              <<r, i>> \in reported[m] \/ (m = n /\ r = "journey-complete" /\ i \in {j})
  BY <1>1, ReportFacts DEF JourneyInv, onWorldJourneyComplete, Reason
<1>13. /\ pending' \in [Nara -> SUBSET Journey] /\ j \notin pending'[n]
       /\ \A m \in Nara : pending'[m] \subseteq pending[m]
  BY <1>1 DEF JourneyInv, JourneyTypes, onWorldJourneyComplete
<1>14. \A m \in Nara, i \in Journey :
         /\ TimedOut(m, i)' <=> TimedOut(m, i)
         /\ Completed(m, i)' <=> Completed(m, i) \/ (m = n /\ i = j)
  BY <1>12 DEF TimedOut, Completed, Reason
<1>15. ASSUME NEW m \in Nara, NEW i \in Journey PROVE Outcome(m, i)'
  <2>1. CASE m = n /\ i = j
    <3>1. ~TimedOut(n, j)
      BY <1>1 DEF JourneyInv, Outcome
    <3> QED BY <2>1, <3>1, <1>1, <1>11, <1>13, <1>14 DEF Outcome
  <2>2. CASE ~(m = n /\ i = j)
    <3>1. Completed(m, i)' = Completed(m, i) /\ TimedOut(m, i)' = TimedOut(m, i)
      BY <2>2, <1>14 DEF Completed, TimedOut
    <3> QED BY <3>1, <1>6, <1>13, OutcomeStays DEF JourneyInv
  <2> QED BY <2>1, <2>2
<1> QED BY <1>6, <1>9, <1>10, <1>12, <1>13, <1>15 DEF JourneyInv, JourneyTypes

(* The chain after a pass: the open relay is stuck, or forwarded to somebody *)
(* who has not had the journey, or who started it.                           *)
LEMMA PassChain ==
  ASSUME JourneyInv, NEW j \in Journey, UnderWay(j), NEW online \in SUBSET Nara,
         NEW n, n = calls[j][Last(j)].to, n # originator[j],
         Forward(n, j, online), UNCHANGED originator
  PROVE  /\ calls' \in [Journey -> Seq(Relay)]
         /\ \A i \in Journey : originator'[i] = Nobody => calls'[i] = <<>>
         /\ \A i \in Journey : Hops(i) \subseteq Hops(i)' /\ (CameHome(i) => CameHome(i)')
         /\ \A i \in Journey : Chain(i)' /\ NoRepeat(i)'
         /\ n \in Hops(j)'
<1> DEFINE u(h) == [calls[j] EXCEPT ![Last(j)].handler = h]
<1>1. /\ calls[j] \in Seq(Relay) /\ Last(j) \in DOMAIN calls[j] /\ calls[j] # <<>>
      /\ n \in Nara /\ n \notin Hops(j)
  BY OpenIsNew
<1>2. \A h \in {"error", "forwarding"} :
        u(h) \in Seq(Relay) /\ Len(u(h)) = Len(calls[j]) /\ DOMAIN u(h) = DOMAIN calls[j]
  <2>1. u("error") \in Seq(Relay) /\ Len(u("error")) = Len(calls[j])
    BY <1>1, HandlerUpdate
  <2>2. u("forwarding") \in Seq(Relay) /\ Len(u("forwarding")) = Len(calls[j])
    BY <1>1, HandlerUpdate
  <2>3. DOMAIN u("error") = DOMAIN calls[j] /\ DOMAIN u("forwarding") = DOMAIN calls[j]
    OBVIOUS
  <2> QED BY <2>1, <2>2, <2>3
<1>3. \A h \in {"error", "forwarding"} : \A k \in DOMAIN calls[j] :
        /\ u(h)[k].to = calls[j][k].to /\ u(h)[k].told = calls[j][k].told
        /\ u(h)[k].handler = IF k = Last(j) THEN h ELSE calls[j][k].handler
  BY <1>1 DEF Relay
<1>4. Chain(j) /\ NoRepeat(j) /\ Last(j) \in Nat
  BY <1>1 DEF JourneyInv, Last
<1>5. \A k \in DOMAIN calls[j] : calls[j][k].to = originator[j] => FALSE
  BY <1>1, <1>4 DEF NoRepeat
<1>6. CASE calls' = [calls EXCEPT ![j][Last(j)].handler = "error"]
  <2> DEFINE t == u("error")
  <2>1. calls' = [calls EXCEPT ![j] = t]
    BY <1>6
  <2>2. /\ t \in Seq(Relay) /\ Len(t) = Len(calls[j]) /\ DOMAIN t = DOMAIN calls[j]
        /\ \A k \in DOMAIN t :
             /\ t[k].to = calls[j][k].to /\ t[k].told = calls[j][k].told
             /\ t[k].handler = IF k = Last(j) THEN "error" ELSE calls[j][k].handler
    BY <1>2, <1>3
  <2> HIDE DEF t
  <2>3. Continues(calls[j], t)
    BY <2>2 DEF Continues, UnderWay
  <2>4. /\ calls' \in [Journey -> Seq(Relay)] /\ calls'[j] = t
        /\ \A i \in Journey : originator'[i] = Nobody => calls'[i] = <<>>
        /\ \A i \in Journey : Hops(i) \subseteq Hops(i)' /\ (CameHome(i) => CameHome(i)')
        /\ \A i \in Journey \ {j} : Chain(i)' /\ NoRepeat(i)'
    BY <1>1, <2>1, <2>2, <2>3, ChainStep
  <2>5. Last(j)' = Last(j)
    BY <2>2, <2>4 DEF Last
  <2>6. Chain(j)'
    BY <2>2, <2>4, <2>5, <1>4 DEF Chain
  <2>7. NoRepeat(j)'
    BY <1>1, <1>4, <2>2, <2>4, SameReceivers
  <2>8. n \in Hops(j)'
    BY <1>1, <2>2, <2>4, LastIsHop
  <2> QED BY <2>4, <2>6, <2>7, <2>8
<1>7. CASE \E m \in ChooseNextNara(n, originator[j], Hops(j), online) :
             calls' = [calls EXCEPT
               ![j] = Append([@ EXCEPT ![Last(j)].handler = "forwarding"], Call(m))]
  <2>1. PICK m \in ChooseNextNara(n, originator[j], Hops(j), online) :
          calls' = [calls EXCEPT
            ![j] = Append([@ EXCEPT ![Last(j)].handler = "forwarding"], Call(m))]
    BY <1>7
  <2>2. m \in Nara /\ m # n /\ (m \notin Hops(j) \/ m = originator[j])
    BY DEF ChooseNextNara
  <2>3. /\ Call(m) \in Relay /\ Call(m).to = m
        /\ Call(m).handler = "sent" /\ Call(m).told = "waiting"
    BY <2>2 DEF Call, Relay
  <2> DEFINE f == u("forwarding")
             t == Append(f, Call(m))
             last == Len(calls[j])
  <2>4. calls' = [calls EXCEPT ![j] = t]
    BY <2>1 DEF JourneyInv, JourneyTypes
  <2>5. /\ f \in Seq(Relay) /\ Len(f) = last /\ DOMAIN f = 1 .. last
        /\ DOMAIN calls[j] = 1 .. last /\ last \in Nat
        /\ \A k \in 1 .. last :
             /\ f[k].to = calls[j][k].to /\ f[k].told = calls[j][k].told
             /\ f[k].handler = IF k = last THEN "forwarding" ELSE calls[j][k].handler
    BY <1>1, <1>2, <1>3 DEF Last
  <2>6. /\ t \in Seq(Relay) /\ Len(t) = last + 1 /\ DOMAIN t = 1 .. last + 1
        /\ t[last + 1] = Call(m)
        /\ \A k \in 1 .. last :
             /\ t[k].to = calls[j][k].to /\ t[k].told = calls[j][k].told
             /\ t[k].handler = IF k = last THEN "forwarding" ELSE calls[j][k].handler
    <3> HIDE DEF f
    <3> QED BY <2>3, <2>5, AppendProperties
  <2>7. Last(j) = last
    BY DEF Last
  <2> HIDE DEF t, f, last
  <2>8. Continues(calls[j], t)
    BY <2>5, <2>6, <2>7 DEF Continues, UnderWay
  <2>9. /\ calls' \in [Journey -> Seq(Relay)] /\ calls'[j] = t
        /\ \A i \in Journey : originator'[i] = Nobody => calls'[i] = <<>>
        /\ \A i \in Journey : Hops(i) \subseteq Hops(i)' /\ (CameHome(i) => CameHome(i)')
        /\ \A i \in Journey \ {j} : Chain(i)' /\ NoRepeat(i)'
    BY <1>1, <2>4, <2>6, <2>8, ChainStep
  <2>10. Last(j)' = last + 1 /\ last \in DOMAIN calls[j]
    BY <1>1, <2>6, <2>7, <2>9 DEF Last
  <2>11. Chain(j)'
    <3>1. ASSUME NEW k \in 1 .. last
          PROVE  /\ calls[j][k].told = "ok" => CameHome(j)'
                 /\ k # last => calls[j][k].handler # "sent"
                 /\ calls[j][k].handler = "ok" => calls[j][k].to = originator[j]
      BY <2>5, <2>7, <2>9, <1>4 DEF Chain
    <3>2. ASSUME NEW k \in 1 .. last
          PROVE  /\ t[k].handler # "sent" /\ k < last + 1
                 /\ t[k].handler = "ok" => t[k].to = originator[j]
                 /\ t[k].told = "ok" => CameHome(j)'
      BY <3>1, <2>5, <2>6
    <3>3. \A k \in DOMAIN t : k \in 1 .. last \/ k = last + 1
      BY <2>5, <2>6
    <3> QED BY <3>2, <3>3, <2>3, <2>5, <2>6, <2>9, <2>10 DEF Chain
  <2>12. \A k \in 1 .. last : calls[j][k].to # m
    <3> SUFFICES ASSUME NEW k \in 1 .. last, calls[j][k].to = m PROVE FALSE
      OBVIOUS
    <3>1. k # last /\ m # originator[j]
      BY <2>2, <2>5, <2>7, <1>5
    <3>2. calls[j][k].handler # "sent"
      BY <3>1, <2>5, <2>7, <1>4 DEF Chain
    <3> QED BY <3>1, <3>2, <2>2, <2>5 DEF Hops
  <2>13. NoRepeat(j)'
    <3>1. ASSUME NEW k \in 1 .. last + 1, NEW i \in 1 .. k - 1
          PROVE  t[i].to # t[k].to
      <4>1. i \in 1 .. last
        BY <2>5
      <4>2. CASE k = last + 1
        BY <4>1, <4>2, <2>3, <2>6, <2>12
      <4>3. CASE k \in 1 .. last
        BY <4>1, <4>3, <2>5, <2>6, <1>4 DEF NoRepeat
      <4>4. k \in 1 .. last \/ k = last + 1
        BY <2>5
      <4> QED BY <4>2, <4>3, <4>4
    <3>2. ASSUME NEW k \in 1 .. last + 1, t[k].to = originator[j]
          PROVE  k = last + 1
      <4>1. k \notin 1 .. last
        <5> SUFFICES ASSUME k \in 1 .. last PROVE FALSE
          OBVIOUS
        <5>1. calls[j][k].to = originator[j]
          BY <3>2, <2>6
        <5> QED BY <5>1, <2>5, <2>7, <1>5
      <4> QED BY <4>1, <2>5
    <3> QED BY <3>1, <3>2, <2>6, <2>9, <2>10 DEF NoRepeat
  <2>14. n \in Hops(j)'
    <3>1. last \in DOMAIN calls'[j] /\ calls'[j][last].handler = "forwarding"
      BY <2>5, <2>6, <2>9, <2>10
    <3>2. calls'[j][last].to = n
      BY <2>5, <2>6, <2>7, <2>9, <2>10
    <3> QED BY <3>1, <3>2, LastIsHop
  <2> QED BY <2>9, <2>11, <2>13, <2>14
<1> QED BY <1>6, <1>7 DEF Forward

(* A pass: the nara is new to the journey, so nothing it reported of it is   *)
(* in the way of remembering it as pending.                                  *)
LEMMA PassInv ==
  ASSUME JourneyInv, NEW j \in Journey, UnderWay(j), NEW online \in SUBSET Nara,
         NEW n, n = calls[j][Last(j)].to, n # originator[j],
         onWorldJourneyPassThrough(n, j), Forward(n, j, online), UNCHANGED originator
  PROVE  JourneyInv'
<1>1. n \in Nara /\ n \notin Hops(j)
  BY OpenIsNew
<1>2. /\ calls' \in [Journey -> Seq(Relay)]
      /\ \A i \in Journey : originator'[i] = Nobody => calls'[i] = <<>>
      /\ \A i \in Journey : Hops(i) \subseteq Hops(i)' /\ (CameHome(i) => CameHome(i)')
      /\ \A i \in Journey : Chain(i)' /\ NoRepeat(i)'
      /\ n \in Hops(j)'
  BY PassChain
<1>3. /\ reported' \in [Nara -> SUBSET (Reason \X Journey)]
      /\ \A m \in Nara, r \in Reason, i \in Journey :
           <<r, i>> \in reported'[m] <=>
             <<r, i>> \in reported[m] \/ (m = n /\ r = "journey-pass" /\ i \in {j})
  BY <1>1, ReportFacts DEF JourneyInv, onWorldJourneyPassThrough, Reason
<1>4. \A m \in Nara, i \in Journey :
        /\ TimedOut(m, i)' = TimedOut(m, i)
        /\ Completed(m, i)' = Completed(m, i)
  <2> TAKE m \in Nara, i \in Journey
  <2>1. TimedOut(m, i)' <=> TimedOut(m, i)
    BY <1>3 DEF TimedOut, Reason
  <2>2. Completed(m, i)' <=> Completed(m, i)
    BY <1>3 DEF Completed, Reason
  <2> QED BY <2>1, <2>2 DEF TimedOut, Completed
<1>5. /\ pending' \in [Nara -> SUBSET Journey]
      /\ \A m \in Nara, i \in Journey :
           i \in pending'[m] => i \in pending[m] \/ (m = n /\ i = j)
  BY <1>1 DEF JourneyInv, JourneyTypes, onWorldJourneyPassThrough
<1>6. ASSUME NEW m \in Nara, NEW i \in Journey PROVE Outcome(m, i)'
  <2>1. CASE m = n /\ i = j
    <3>1. ~TimedOut(n, j) /\ ~Completed(n, j)
      BY <1>1 DEF JourneyInv, Outcome
    <3> QED BY <2>1, <3>1, <1>1, <1>2, <1>4 DEF Outcome
  <2>2. CASE ~(m = n /\ i = j)
    BY <2>2, <1>2, <1>4, <1>5, OutcomeStays DEF JourneyInv
  <2> QED BY <2>1, <2>2
<1> QED BY <1>2, <1>3, <1>5, <1>6 DEF JourneyInv, JourneyTypes

(* The handler of a relay, whoever it finds itself to be. *)
LEMMA HandleInv ==
  ASSUME JourneyInv, NEW j \in Journey, NEW online \in SUBSET Nara, HandleIncoming(j, online)
  PROVE  JourneyInv'
<1> DEFINE n == calls[j][Last(j)].to
<1>1. CASE n = originator[j]
  BY <1>1, CompleteInv DEF HandleIncoming
<1>2. CASE n # originator[j]
  BY <1>2, PassInv DEF HandleIncoming
<1> QED BY <1>1, <1>2

-----------------------------------------------------------------------------
(* Completion, maintenance and restarts *)

(* A step that leaves the chains alone keeps what is said of them. *)
LEMMA ChainsStay ==
  ASSUME JourneyInv, UNCHANGED <<originator, calls>>
  PROVE  \A i \in Journey :
           /\ Chain(i)' /\ NoRepeat(i)'
           /\ Hops(i) \subseteq Hops(i)' /\ (CameHome(i) => CameHome(i)')
<1> TAKE i \in Journey
<1>1. calls'[i] = calls[i] /\ originator'[i] = originator[i]
  OBVIOUS
<1> QED BY <1>1, ChainFrame DEF JourneyInv

(* The broadcast finds a journey pending only where it neither completed nor *)
(* timed out.                                                                *)
LEMMA CompletionInv ==
  ASSUME JourneyInv, NEW n \in Nara, NEW j \in Journey, handleJourneyCompletion(n, j)
  PROVE  JourneyInv'
<1>1. /\ reported' \in [Nara -> SUBSET (Reason \X Journey)]
      /\ \A m \in Nara, r \in Reason, i \in Journey :
           <<r, i>> \in reported'[m] <=>
             <<r, i>> \in reported[m] \/ (m = n /\ r = "journey-complete" /\ i \in {j})
  BY ReportFacts DEF JourneyInv, handleJourneyCompletion, Reason
<1>2. \A m \in Nara, i \in Journey :
        /\ TimedOut(m, i)' <=> TimedOut(m, i)
        /\ Completed(m, i)' <=> Completed(m, i) \/ (m = n /\ i = j)
  BY <1>1 DEF TimedOut, Completed, Reason
<1>3. /\ pending' \in [Nara -> SUBSET Journey] /\ j \notin pending'[n]
      /\ \A m \in Nara : pending'[m] \subseteq pending[m]
  BY DEF JourneyInv, JourneyTypes, handleJourneyCompletion
<1>4. /\ UNCHANGED <<originator, calls>>
      /\ CameHome(j) /\ j \in pending[n]
  BY DEF handleJourneyCompletion
<1>5. ASSUME NEW m \in Nara, NEW i \in Journey PROVE Outcome(m, i)'
  <2>1. CASE m = n /\ i = j
    <3>1. n \in Hops(j) /\ ~TimedOut(n, j)
      BY <1>4 DEF JourneyInv, Outcome
    <3>2. CameHome(j)' /\ n \in Hops(j)'
      BY <1>4, <3>1, ChainsStay
    <3> QED BY <2>1, <3>1, <3>2, <1>2, <1>3 DEF Outcome
  <2>2. CASE ~(m = n /\ i = j)
    <3>1. Completed(m, i)' = Completed(m, i) /\ TimedOut(m, i)' = TimedOut(m, i)
      BY <2>2, <1>2 DEF Completed, TimedOut
    <3> QED BY <3>1, <1>3, <1>4, ChainsStay, OutcomeStays DEF JourneyInv
  <2> QED BY <2>1, <2>2
<1> QED BY <1>1, <1>3, <1>4, <1>5, ChainsStay DEF JourneyInv, JourneyTypes

(* Maintenance times out only what is pending, and forgets it. *)
LEMMA MaintenanceInv ==
  ASSUME JourneyInv, NEW n \in Nara, NEW js, journeyTimeoutMaintenance(n, js)
  PROVE  JourneyInv'
<1>1. js \in SUBSET Journey /\ js \subseteq pending[n]
  BY DEF JourneyInv, JourneyTypes, journeyTimeoutMaintenance
<1>2. /\ reported' \in [Nara -> SUBSET (Reason \X Journey)]
      /\ \A m \in Nara, r \in Reason, i \in Journey :
           <<r, i>> \in reported'[m] <=>
             <<r, i>> \in reported[m] \/ (m = n /\ r = "journey-timeout" /\ i \in js)
  BY <1>1, ReportFacts DEF JourneyInv, journeyTimeoutMaintenance, Reason
<1>3. \A m \in Nara, i \in Journey :
        /\ Completed(m, i)' <=> Completed(m, i)
        /\ TimedOut(m, i)' <=> TimedOut(m, i) \/ (m = n /\ i \in js)
  BY <1>2 DEF TimedOut, Completed, Reason
<1>4. /\ pending' \in [Nara -> SUBSET Journey] /\ pending'[n] \cap js = {}
      /\ \A m \in Nara : pending'[m] \subseteq pending[m]
  BY DEF JourneyInv, JourneyTypes, journeyTimeoutMaintenance
<1>5. UNCHANGED <<originator, calls>>
  BY DEF journeyTimeoutMaintenance
<1>6. ASSUME NEW m \in Nara, NEW i \in Journey PROVE Outcome(m, i)'
  <2>1. CASE m = n /\ i \in js
    <3>1. n \in Hops(i) /\ n # originator[i] /\ ~Completed(n, i)
      BY <1>1, <2>1 DEF JourneyInv, Outcome
    <3>2. n \in Hops(i)' /\ originator'[i] = originator[i]
      BY <1>5, <3>1, ChainsStay
    <3> QED BY <2>1, <3>1, <3>2, <1>3, <1>4 DEF Outcome
  <2>2. CASE ~(m = n /\ i \in js)
    <3>1. Completed(m, i)' = Completed(m, i) /\ TimedOut(m, i)' = TimedOut(m, i)
      BY <2>2, <1>3 DEF Completed, TimedOut
    <3> QED BY <3>1, <1>4, <1>5, ChainsStay, OutcomeStays DEF JourneyInv
  <2> QED BY <2>1, <2>2
<1> QED BY <1>2, <1>4, <1>5, <1>6, ChainsStay DEF JourneyInv, JourneyTypes

(* A restart ends the handlers of one nara and its wait for an answer, and   *)
(* forgets what it remembered; what the others know stays.                   *)
LEMMA RestartInv ==
  ASSUME JourneyInv, NEW n \in Nara, Restart(n)
  PROVE  JourneyInv'
<1> DEFINE r(i, k) == [calls[i][k] EXCEPT
          !.handler = IF calls[i][k].to = n /\ @ = "forwarding" THEN "error" ELSE @,
          !.told = IF k = 1 /\ originator[i] = n /\ @ = "waiting" THEN "error" ELSE @]
<1>1. calls' = [i \in Journey |-> [k \in DOMAIN calls[i] |-> r(i, k)]]
  BY DEF Restart
<1>2. \A i \in Journey : /\ calls[i] \in Seq(Relay) /\ Chain(i) /\ NoRepeat(i)
                        /\ DOMAIN calls[i] = 1 .. Len(calls[i]) /\ Len(calls[i]) \in Nat
  BY DEF JourneyInv, JourneyTypes
<1>3. \A i \in Journey : \A k \in DOMAIN calls[i] :
        /\ r(i, k) \in Relay
        /\ r(i, k).to = calls[i][k].to
        /\ \/ r(i, k).handler = calls[i][k].handler
           \/ calls[i][k].handler = "forwarding" /\ r(i, k).handler = "error"
        /\ r(i, k).told = "ok" => calls[i][k].told = "ok"
  <2> TAKE i \in Journey
  <2> TAKE k \in DOMAIN calls[i]
  <2>1. calls[i][k] \in Relay
    BY <1>2
  <2> QED BY <2>1 DEF Relay
<1> HIDE DEF r
<1>4. \A i \in Journey :
        /\ calls'[i] \in Seq(Relay) /\ DOMAIN calls'[i] = DOMAIN calls[i]
        /\ Len(calls'[i]) = Len(calls[i])
        /\ \A k \in DOMAIN calls[i] : calls'[i][k] = r(i, k)
  <2> TAKE i \in Journey
  <2>1. calls'[i] = [k \in 1 .. Len(calls[i]) |-> r(i, k)]
    BY <1>1, <1>2
  <2>2. \A k \in 1 .. Len(calls[i]) : r(i, k) \in Relay
    BY <1>2, <1>3
  <2> QED BY <1>2, <2>1, <2>2
<1>5. /\ UNCHANGED <<originator, reported>>
      /\ pending' = [pending EXCEPT ![n] = {}]
  BY DEF Restart
<1>6. JourneyTypes'
  <2>1. DOMAIN calls' = Journey /\ calls' \in [Journey -> Seq(Relay)]
    BY <1>1, <1>4
  <2>2. \A i \in Journey : originator'[i] = Nobody => calls'[i] = <<>>
    BY <1>2, <1>4, <1>5 DEF JourneyInv, JourneyTypes
  <2> QED BY <2>1, <2>2, <1>5 DEF JourneyInv, JourneyTypes
<1>7. \A i \in Journey : Hops(i) \subseteq Hops(i)' /\ (CameHome(i) => CameHome(i)')
  <2> TAKE i \in Journey
  <2>1. Continues(calls[i], calls'[i])
    BY <1>3, <1>4 DEF Continues
  <2> QED BY <2>1, <1>5, HopsStay
<1>8. ASSUME NEW i \in Journey PROVE Chain(i)' /\ NoRepeat(i)'
  <2>1. Last(i)' = Last(i)
    BY <1>4 DEF Last
  <2>2. Chain(i)'
    <3>1. Chain(i) /\ originator'[i] = originator[i] /\ (CameHome(i) => CameHome(i)')
      BY <1>2, <1>5, <1>7
    <3>2. \A k \in DOMAIN calls[i] :
            /\ calls'[i][k].to = calls[i][k].to
            /\ \/ calls'[i][k].handler = calls[i][k].handler
               \/ calls[i][k].handler = "forwarding" /\ calls'[i][k].handler = "error"
            /\ calls'[i][k].told = "ok" => calls[i][k].told = "ok"
      BY <1>3, <1>4
    <3> QED BY <2>1, <1>4, <3>1, <3>2 DEF Chain
  <2>3. NoRepeat(i)'
    BY <1>2, <1>3, <1>4, <1>5, SameReceivers
  <2> QED BY <2>2, <2>3
<1>9. \A m \in Nara, i \in Journey : Outcome(m, i)'
  BY <1>5, <1>7, OutcomeStays DEF JourneyInv, JourneyTypes, Completed, TimedOut
<1> QED BY <1>6, <1>8, <1>9 DEF JourneyInv

-----------------------------------------------------------------------------
(* The theorems *)

(* The invariant holds at all times. *)
THEOREM JourneyInvariant == Spec => []JourneyInv
<1>1. Init => JourneyInv
  BY InitInv
<1>2. JourneyInv /\ [Next]_vars => JourneyInv'
  <2> SUFFICES ASSUME JourneyInv, [Next]_vars PROVE JourneyInv'
    OBVIOUS
  <2>1. ASSUME NEW n \in Nara, NEW j \in Journey, NEW online \in SUBSET Nara,
               StartJourney(n, j, online)
        PROVE  JourneyInv'
    BY <2>1, StartInv
  <2>2. ASSUME NEW j \in Journey, NEW online \in SUBSET Nara, HandleIncoming(j, online)
        PROVE  JourneyInv'
    BY <2>2, HandleInv
  <2>3. ASSUME NEW j \in Journey, DropJourney(j) PROVE JourneyInv'
    BY <2>3, DropInv
  <2>4. ASSUME NEW n \in Nara, NEW j \in Journey, handleJourneyCompletion(n, j)
        PROVE  JourneyInv'
    BY <2>4, CompletionInv
  <2>5. ASSUME NEW n \in Nara, Restart(n) PROVE JourneyInv'
    BY <2>5, RestartInv
  <2>6. ASSUME NEW j \in Journey, NEW k \in DOMAIN calls[j],
               RelayAnswers(j, k) \/ RelayTimesOut(j, k)
        PROVE  JourneyInv'
    BY <2>6, AnsweringInv
  <2>7. ASSUME NEW n \in Nara, NEW js, journeyTimeoutMaintenance(n, js) PROVE JourneyInv'
    BY <2>7, MaintenanceInv
  <2>8. CASE UNCHANGED vars
    <3>1. UNCHANGED <<originator, calls, pending, reported>>
      BY <2>8 DEF vars
    <3>2. \A m \in Nara, i \in Journey : Outcome(m, i)'
      BY <3>1, ChainsStay, OutcomeStays DEF JourneyInv, Completed, TimedOut
    <3> QED BY <3>1, <3>2, ChainsStay DEF JourneyInv, JourneyTypes
  <2> QED BY <2>1, <2>2, <2>3, <2>4, <2>5, <2>6, <2>7, <2>8
         DEF Next, Travel, Answering, Maintenance
<1> QED BY <1>1, <1>2, PTL DEF Spec

(* Every variable keeps its type: only the last relay of a chain is open.    *)
THEOREM JourneyTypeCorrect == Spec => []TypeOK
<1>1. JourneyInv => TypeOK
  <2> SUFFICES ASSUME JourneyInv PROVE TypeOK
    OBVIOUS
  <2>1. ASSUME NEW j \in Journey, NEW k \in DOMAIN calls[j]
        PROVE  calls[j][k] \in Relay /\ (k < Last(j) => calls[j][k].handler # "sent")
    <3>1. calls[j] \in Seq(Relay) /\ Chain(j)
      BY DEF JourneyInv, JourneyTypes
    <3>2. calls[j][k] \in Relay
      BY <3>1
    <3> QED BY <3>1, <3>2 DEF Chain
  <2> QED BY <2>1 DEF JourneyInv, JourneyTypes, TypeOK, Relay
<1> QED BY <1>1, JourneyInvariant, PTL

(* No nara receives a journey twice, however many naras take part and        *)
(* whoever each of them takes to be online (world_journey.go, ChooseNextNara *)
(* and HandleIncoming).                                                      *)
THEOREM NoNaraTwice == Spec => []CycleFree
<1>1. JourneyInv => CycleFree
  BY DEF JourneyInv, NoRepeat, CycleFree
<1> QED BY <1>1, JourneyInvariant, PTL

(* An ok that ran back along any number of relays, past time-outs, dropped   *)
(* requests and restarts, started at the originator's own handler.           *)
THEOREM OkMeansHome == Spec => []SuccessMeansHome
<1>1. JourneyInv => SuccessMeansHome
  BY DEF JourneyInv, JourneyTypes, Chain, SuccessMeansHome
<1> QED BY <1>1, JourneyInvariant, PTL

(* Completion broadcast and five-minute time-out exclude each other at every *)
(* nara, and only hops of a journey that came home report its completion.    *)
THEOREM CompletedOrTimedOut == Spec => []OneOutcome
<1>1. JourneyInv => OneOutcome
  BY DEF JourneyInv, Outcome, Completed, TimedOut, OneOutcome
<1> QED BY <1>1, JourneyInvariant, PTL
=============================================================================
