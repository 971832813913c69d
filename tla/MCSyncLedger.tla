---------------------------- MODULE MCSyncLedger ----------------------------
(* SyncLedger on two naras and a handful of events chosen so that both caps, *)
(* the prune limit, ties in the timestamps, an invalid event, a reused id    *)
(* and an event of an unknown nara all occur.                                *)
EXTENDS SyncLedger

CONSTANTS a, b

Ev(id, kind, ts, from, about, key, ok) ==
  [id |-> id, kind |-> kind, ts |-> ts, from |-> from, about |-> about,
   emitter |-> from, key |-> key, state |-> "OFFLINE", ok |-> ok]

MCNara == {a, b}
MCId == 1 .. 8

MCUniverse ==
  { Ev(1, "restart", 1, a, b, 1, TRUE),
    Ev(2, "restart", 2, a, b, 2, TRUE),
    Ev(3, "status-change", 2, a, b, 0, TRUE),
    Ev(4, "first-seen", 1, a, b, 0, TRUE),
    Ev(4, "status-change", 3, a, b, 0, FALSE),
    Ev(5, "checkpoint", 3, b, b, 0, TRUE),
    Ev(6, "ping", 1, a, b, 0, TRUE),
    Ev(7, "ping", 2, a, b, 0, TRUE),
    Ev(8, "ping", 2, b, b, 0, TRUE) }
=============================================================================
