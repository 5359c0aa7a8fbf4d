----------------------------- MODULE MCControl -----------------------------
(***************************************************************************)
(* Instances of Control for TLC.                                           *)
(***************************************************************************)
EXTENDS Control, TLC

\* Both mute states, and a percentage on each side of the range.
CommandSet == {-1, 1, 101}

\* One state of each kind, for the runs with more threads.
FewCommands == {0, 1}

WorkerSymmetry == Permutations(Workers) \cup Permutations(Receivers)
=============================================================================
