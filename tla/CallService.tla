---------------------------- MODULE CallService ----------------------------
(***************************************************************************)
(* What a caller may rely on when it calls a peer (Runtime.Call): the peer *)
(* handles a request at most once, and the caller gets at most one result, *)
(* which is the peer's own answer to that very request or an error.  It    *)
(* may get no result at all: the caller's process can end first.           *)
(***************************************************************************)
CONSTANTS Request

VARIABLES
  asked,    \* asked[c]: the request has been made
  said,     \* said[c]: what the peer answered, "nothing" before it did
  result    \* result[c]: what the caller got

vars == <<asked, said, result>>

Answers == {"accepted", "refused", "ignored"}
Errors == {"failed", "timeout", "gone"}

CallServiceInit ==
  /\ asked = [c \in Request |-> FALSE]
  /\ said = [c \in Request |-> "nothing"]
  /\ result = [c \in Request |-> "nothing"]

Ask(c) ==
  /\ ~asked[c]
  /\ asked' = [asked EXCEPT ![c] = TRUE]
  /\ UNCHANGED <<said, result>>

Say(c, a) ==
  /\ asked[c] /\ said[c] = "nothing"
  /\ said' = [said EXCEPT ![c] = a]
  /\ UNCHANGED <<asked, result>>

Answer(c) ==
  /\ result[c] = "nothing" /\ said[c] \in Answers \ {"ignored"}
  /\ result' = [result EXCEPT ![c] = said[c]]
  /\ UNCHANGED <<asked, said>>

GiveUp(c, e) ==
  /\ asked[c] /\ result[c] = "nothing"
  /\ result' = [result EXCEPT ![c] = e]
  /\ UNCHANGED <<asked, said>>

CallServiceNext ==
  \E c \in Request :
    \/ Ask(c)
    \/ \E a \in Answers : Say(c, a)
    \/ Answer(c)
    \/ \E e \in Errors : GiveUp(c, e)

CallServiceSpec == CallServiceInit /\ [][CallServiceNext]_vars
=============================================================================
