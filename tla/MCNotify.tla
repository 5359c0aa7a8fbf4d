------------------------------ MODULE MCNotify ------------------------------
(***************************************************************************)
(* Instances of Notify for TLC.                                            *)
(***************************************************************************)
EXTENDS Notify

CONSTANTS a, b

Line(topic, enabled) == [topic |-> topic, enabled |-> enabled]

\* One topic; the other one, with the first repeated, which counts for nothing; none;
\* and a list that is refused.
ListSet ==
    {<<Line(a, TRUE)>>, <<Line(a, FALSE), Line(b, TRUE), Line(a, TRUE)>>,
     <<>>, <<Line(Blank, TRUE)>>}
=============================================================================
