---------------------------- MODULE BinaryCache ----------------------------
(***************************************************************************)
(* What callers of ensure_binary are promised: a cache of engines that     *)
(* only grows, in which an engine appears at once and whole, and calls     *)
(* that answer with a path only if the engine they asked for is held.      *)
(***************************************************************************)
CONSTANTS Calls, Versions, NoVersion

VARIABLES
  held,    \* the versions whose engine is cached, whole and executable
  asked,   \* asked[c]: the version call c asked for, NoVersion before
  answer   \* answer[c] \in {"none", "path", "error"}

Init ==
  /\ held = {}
  /\ asked = [c \in Calls |-> NoVersion]
  /\ answer = [c \in Calls |-> "none"]

Waiting(c) == asked[c] # NoVersion /\ answer[c] = "none"

Ask(c) ==
  /\ asked[c] = NoVersion
  /\ \E v \in Versions : asked' = [asked EXCEPT ![c] = v]
  /\ UNCHANGED <<held, answer>>

Install(c) ==
  /\ Waiting(c)
  /\ held' = held \cup {asked[c]}
  /\ UNCHANGED <<asked, answer>>

AnswerPath(c) ==
  /\ Waiting(c)
  /\ asked[c] \in held
  /\ answer' = [answer EXCEPT ![c] = "path"]
  /\ UNCHANGED <<held, asked>>

AnswerError(c) ==
  /\ Waiting(c)
  /\ answer' = [answer EXCEPT ![c] = "error"]
  /\ UNCHANGED <<held, asked>>

Next == \E c \in Calls : Ask(c) \/ Install(c) \/ AnswerPath(c) \/ AnswerError(c)

Spec == Init /\ [][Next]_<<held, asked, answer>>
=============================================================================
