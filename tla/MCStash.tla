------------------------------ MODULE MCStash ------------------------------
(* Two peers, one of them wanted as confidant, and one other nara that may take *)
(* the only place at a peer.                                                  *)
EXTENDS Stash
=============================================================================
