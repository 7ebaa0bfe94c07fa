---------------------------- MODULE MCEnrollment ----------------------------
(* A small instance of Enrollment for TLC.                                 *)
EXTENDS Enrollment, TLC

CONSTANTS p1, p2, t1, t2, h1, h2, f1, f2

Symmetry == Permutations({p1, p2}) \cup Permutations({t1, t2})
                \cup Permutations({h1, h2})

Fold == [a \in {"bob", "Bob", "eve"} |-> IF a = "Bob" THEN "bob" ELSE a]

\* Two joins race for one alias in two spellings, two for one file.
Commands ==
    {[no |-> 1, alias |-> "bob", path |-> f1],
     [no |-> 2, alias |-> "Bob", path |-> f2],
     [no |-> 3, alias |-> "eve", path |-> f1]}
=============================================================================
