------------------------------- MODULE Calls -------------------------------
(***************************************************************************)
(* What a handle promises its callers (rszigbee-core, Zigbee::ask): a call *)
(* that was asked is answered once, or its caller walks away, and an       *)
(* answer is never taken back or changed.                                  *)
(***************************************************************************)
CONSTANTS Call,     \* calls, each asked at most once
          Outcome   \* what a call can be answered with

VARIABLE status     \* status[c]: "new", "asked", "gone" or an outcome

Status == {"new", "asked", "gone"} \cup Outcome

Init == status = [c \in Call |-> "new"]

Ask(c) == /\ status[c] = "new"
          /\ status' = [status EXCEPT ![c] = "asked"]

\* A stopped runtime refuses the call without queueing it.
Refuse(c) == /\ status[c] = "new"
             /\ status' = [status EXCEPT ![c] = "stopped"]

GiveUp(c) == /\ status[c] = "asked"
             /\ status' = [status EXCEPT ![c] = "gone"]

Answered == { c \in Call : status[c] \in Outcome }

\* Several calls may be answered at once: a shutdown and a tick answer all
\* the calls they find.  An answer to an asked call, and nothing else, moves.
AnswerSome ==
  /\ status' \in [Call -> Status]
  /\ \A c \in Call : status'[c] # status[c] => status[c] = "asked" /\ status'[c] \in Outcome

Next == (\E c \in Call : Ask(c) \/ Refuse(c) \/ GiveUp(c)) \/ AnswerSome

Safe == Init /\ [][Next]_status

\* Every call is answered or abandoned.
Settles == \A c \in Call : status[c] = "asked" ~> status[c] \in Outcome \cup {"gone"}

Spec == Safe /\ Settles
=============================================================================
