----------------------------- MODULE InputInbox -----------------------------
(***************************************************************************)
(* What the input queue promises to the user who typed the inputs: an      *)
(* accepted input waits until it becomes, once and for good, a turn of its *)
(* own, a message of a turn, or an input the user took back.  The order in *)
(* which inputs wait is the user's to change, and what a later restore of  *)
(* the history cuts from the conversation its business; neither is part of *)
(* it.                                                                     *)
(***************************************************************************)
CONSTANTS Items, Runs

VARIABLES waiting,   \* inputs that wait
          turns,     \* <<run, input>>: the run that was started with the input
          messages,  \* <<run, input>>: the input is a message of the run
          withdrawn  \* inputs the user took back

vars == <<waiting, turns, messages, withdrawn>>

Init == waiting = {} /\ turns = {} /\ messages = {} /\ withdrawn = {}

Settled == {p[2] : p \in turns \cup messages} \cup withdrawn

Accept(i) ==
  /\ i \notin waiting \cup Settled
  /\ waiting' = waiting \cup {i}
  /\ UNCHANGED <<turns, messages, withdrawn>>

StartTurn(r, i) ==
  /\ i \in waiting
  /\ \A p \in turns : p[1] # r
  /\ waiting' = waiting \ {i}
  /\ turns' = turns \cup {<<r, i>>}
  /\ UNCHANGED <<messages, withdrawn>>

Inject(r, i) ==
  /\ i \in waiting
  /\ waiting' = waiting \ {i}
  /\ messages' = messages \cup {<<r, i>>}
  /\ UNCHANGED <<turns, withdrawn>>

(* One input is removed, or a restore of the history takes them all.       *)
Withdraw(S) ==
  /\ S \subseteq waiting
  /\ waiting' = waiting \ S
  /\ withdrawn' = withdrawn \cup S
  /\ UNCHANGED <<turns, messages>>

Next ==
  \/ \E i \in Items : Accept(i)
  \/ \E r \in Runs, i \in Items : StartTurn(r, i) \/ Inject(r, i)
  \/ \E S \in SUBSET waiting : Withdraw(S)

Spec == Init /\ [][Next]_vars
=============================================================================
