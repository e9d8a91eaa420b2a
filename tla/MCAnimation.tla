---------------------------- MODULE MCAnimation ----------------------------
(* Requests of the client for the check of Animation, on channels 0..2.     *)
EXTENDS Animation

\* Single passes, a loop and a turn, forwards and backwards, from an end or
\* between, by a step that meets the ends and by one that does not.
Plan(m, s, d) == [mode |-> m, start |-> s, delta |-> d]
MCPlans == {Plan("once", 0, 1), Plan("once", 2, -1), Plan("loop", 1, -2),
            Plan("reverse", 0, 2)}
=============================================================================
