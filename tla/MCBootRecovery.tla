--------------------------- MODULE MCBootRecovery ---------------------------
(* Two neighbours; three checkpoints, of which two share a timestamp and one   *)
(* is from before the cutoff, a social event and an observation of the booting *)
(* nara.                                                                       *)
EXTENDS BootRecovery

CONSTANTS a, b

Event(ts, service, names, reason) ==
  [ts |-> ts, service |-> service, names |-> names, reason |-> reason,
   type |-> "tease", importance |-> "casual"]

C1 == Event(1, "checkpoint", {a}, "")
C2 == Event(3, "checkpoint", {a}, "")
C3 == Event(3, "checkpoint", {b}, "before-cutoff")
S2 == Event(2, "social", {a, b}, "random")
O4 == [Event(4, "observation", {b, Me}, "") EXCEPT !.type = "restart", !.importance = "critical"]

MCUniverse == {C1, C2, C3, S2, O4}
MCLedgers == {{C1, C2, S2}, {}}
MCPersonality == [chill |-> 50, sociability |-> 50, agreeableness |-> 50]
=============================================================================
