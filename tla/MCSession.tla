----------------------------- MODULE MCSession -----------------------------
(***************************************************************************)
(* Instances of Session for TLC.  The .cfg files give the threads, the     *)
(* bounds and, from the sets below, the calls the host makes.              *)
(***************************************************************************)
EXTENDS Session, TLC

\* The loop slots are interchangeable, and so are the read loops.
ThreadSymmetry == Permutations(Loops) \cup Permutations(Readers)

\* ... and the host's threads.
CallerSymmetry == Permutations(Callers)

\* The calls that open and close a session.
CoreOps == {"connect", "close", "login"}

\* ... and start the notify listener on it.
NotifyOps == CoreOps \cup {"startNotify"}

\* ... and start and stop reporting on it.
ReportOps == CoreOps \cup {"startReporting", "stopReporting"}
=============================================================================
