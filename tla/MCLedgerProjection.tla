------------------------- MODULE MCLedgerProjection -------------------------
(* LedgerProjection on two naras.  With room for two events, the restart and *)
(* the checkpoint (critical, and of an unknown nara in some behaviours) reach *)
(* the prune that removes nothing; the pair a, b is compacted at its cap;    *)
(* restart, status-change and chau disagree about b, two of them at one time. *)
EXTENDS LedgerProjection

CONSTANTS a, b

Ev(id, kind, ts, from, about, key) ==
  [id |-> id, kind |-> kind, ts |-> ts, from |-> from, about |-> about,
   emitter |-> from, key |-> key, state |-> "MISSING", ok |-> TRUE]

MCNara == {a, b}
MCId == 1 .. 4

MCUniverse ==
  { Ev(1, "restart", 3, a, b, 1),
    Ev(2, "status-change", 2, a, b, 0),
    Ev(3, "checkpoint", 1, a, a, 0),
    Ev(4, "chau", 3, b, b, 0) }
=============================================================================
