------------------------------ MODULE Pipeline ------------------------------
(***************************************************************************)
(* The message pipelines of the runtime (runtime/stage.go, stages_*.go,    *)
(* behavior.go, helpers.go and the two builders in runtime.go).  A stage   *)
(* is its name; what it depends on, in the message and in the nara around  *)
(* it, is a record "env" of truth values:                                  *)
(*   target     the message names a nara to go to                          *)
(*   reachable  the transport takes the message                            *)
(*   keyKnown   the sender's public key is known, or is in the payload     *)
(*   signed     the signature is valid under that key                      *)
(*   seenID, seenContent   the ledger has that id, that content            *)
(*   stores     the ledger takes the message                               *)
(*   veryChill, cares      the personality, for the filters                *)
(***************************************************************************)
EXTENDS Naturals, Sequences

Outcome == {"continue", "drop", "fail"}

-----------------------------------------------------------------------------
(* What a stage answers. *)

Transports == {"mesh", "mqtt"}

Verifiers == {"verify", "selfAttesting"}

Fails(stage, env) ==
  \/ stage = "mesh" /\ ~env.target
  \/ stage \in Transports /\ ~env.reachable
  \/ stage \in {"store", "contentKeyStore"} /\ ~env.stores

Drops(stage, env) ==
  \/ stage \in Verifiers /\ ~(env.keyKnown /\ env.signed)
  \/ stage = "idDedupe" /\ env.seenID
  \/ stage \in {"contentKeyDedupe", "contentKeyStore"} /\ env.seenContent
  \/ stage = "normal" /\ env.veryChill
  \/ stage = "casual" /\ ~env.cares

\* A stage drops what it drops before it tries what can fail.
Process(stage, env) ==
  IF Drops(stage, env) THEN "drop" ELSE IF Fails(stage, env) THEN "fail" ELSE "continue"

\* The stages are tried in turn, up to the first that does not continue;
\* "done" is what has taken effect by then.
Run(stages, env) ==
  LET Stops == {i \in DOMAIN stages : Process(stages[i], env) # "continue"}
      first == CHOOSE i \in Stops : \A j \in Stops : i <= j
  IN IF Stops = {} THEN [result |-> "continue", done |-> stages]
     ELSE [result |-> Process(stages[first], env), done |-> SubSeq(stages, 1, first - 1)]

-----------------------------------------------------------------------------
(* Behaviours: "" where a behaviour names no stage. *)

EphemeralDefaults ==
  [contentKey |-> "", sign |-> "noSign", store |-> "noStore", gossip |-> "noGossip", transport |-> "",
   verify |-> "noVerify", dedupe |-> "idDedupe", rateLimit |-> "", filter |-> "", receiveStore |-> "noStore"]

ProtocolDefaults ==
  [EphemeralDefaults EXCEPT !.sign = "sign", !.verify = "verify", !.filter = "critical"]

\* The template of requests and their replies.
MeshRequest == [ProtocolDefaults EXCEPT !.transport = "mesh"]

Or(stage, default) == IF stage = "" THEN default ELSE stage

Named(stages) == SelectSeq(stages, LAMBDA s : s # "")

buildEmitPipeline(b) ==
  Named(<<"id", b.contentKey, Or(b.sign, "sign"), Or(b.store, "noStore"), Or(b.gossip, "noGossip"),
          b.transport, "notify">>)

buildReceivePipeline(b) ==
  Named(<<Or(b.verify, "verify"), Or(b.dedupe, "idDedupe"), b.rateLimit, b.filter, b.receiveStore,
          b.gossip, "notify">>)
=============================================================================
