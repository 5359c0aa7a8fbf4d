------------------------------ MODULE Mailbox ------------------------------
(***************************************************************************)
(* What the control queue of the runtime promises, without its lock, its   *)
(* channel or its workers: for every metric the newest value that nobody   *)
(* has taken yet, and all of them taken while the box is open.             *)
(***************************************************************************)
CONSTANTS Metrics, Values, NoValue

VARIABLES mail, open

Empty == [m \in Metrics |-> NoValue]

Init == mail = Empty /\ open = FALSE

\* A new value replaces the one that waits, if any.
Put(m, v) == mail' = [mail EXCEPT ![m] = v] /\ UNCHANGED open

\* Everything there is leaves at once, to one taker.
TakeAll == mail # Empty /\ mail' = Empty /\ UNCHANGED open

SetOpen(b) == open' = b /\ UNCHANGED mail

Next ==
    \/ \E m \in Metrics, v \in Values : Put(m, v)
    \/ TakeAll
    \/ \E b \in BOOLEAN : SetOpen(b)

Spec == Init /\ [][Next]_<<mail, open>>

\* While the box stays open its mail is taken.
Service == WF_<<mail, open>>(open /\ TakeAll)

LiveSpec == Spec /\ Service
=============================================================================
