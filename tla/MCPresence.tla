---- MODULE MCPresence ----
EXTENDS Presence
====
