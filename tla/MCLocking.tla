----------------------------- MODULE MCLocking -----------------------------
(* Three goroutines: a circle of waiting needs a holder of local.mu, a        *)
(* holder of the ledger and, through a projection, one between them.          *)
EXTENDS Locking

MCHandlers ==
  [social |-> {"socialMaintenance"},
   inbox |-> {"handleHeyThereEvent", "handleHowdyEvent", "handleChauEvent", "OnlinePeers"},
   observer |-> {"runOpinionPass", "observationMaintenanceOnce", "maybeRespondWithHowdy"}]

MCGoroutine == DOMAIN MCHandlers

(* The smallest instance with a circle: pruning and one inbox. *)
MCPairHandlers == [social |-> {"socialMaintenance"}, inbox |-> {"handleChauEvent"}]

MCPair == DOMAIN MCPairHandlers
=============================================================================
