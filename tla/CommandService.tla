--------------------------- MODULE CommandService ---------------------------
(***************************************************************************)
(* What the control agent and the device promise a test manager together:  *)
(* a command that is asked gets one answer, one its kind calls for,        *)
(* and nothing is said that was not asked for.                             *)
(***************************************************************************)
CONSTANTS
  Commands,   \* the kinds of command a test manager sends, "none" not among them
  Promised    \* command -> the answers it may get

VARIABLES
  awaiting,   \* the command without an answer yet, "none" if there is none
  last        \* what the last command came to, "none" while it is awaited

Answers == {"COMPLETE", "ERROR", "INVALID"}

vars == <<awaiting, last>>

Init == awaiting = "none" /\ last = "none"

Ask(c) == awaiting = "none" /\ awaiting' = c /\ last' = "none"

Answer ==
  /\ awaiting # "none"
  /\ awaiting' = "none" /\ last' \in Promised[awaiting]

Next == Answer \/ \E c \in Commands : Ask(c)

\* A command is answered; nobody has to ask one.
Spec == Init /\ [][Next]_vars /\ WF_vars(Answer)
=============================================================================
