-------------------------- MODULE MCRubricVersions --------------------------
(***************************************************************************)
(* Small instances of RubricVersions and RubricCriteria for TLC.           *)
(***************************************************************************)
EXTENDS RubricVersions, RubricCriteria, TLC

Interchangeable == Permutations(Requests)

\* Weights at the edges of the check, of the rounding and of the column; the
\* default scale, empty and reversed ones, and one too large for an integer.
WithWeights(weights) ==
    {[key |-> k, weight |-> w, scaleMin |-> Absent, scaleMax |-> Absent] :
        k \in Keys, w \in weights}

WithScales ==
    {[key |-> k, weight |-> 2000, scaleMin |-> s[1], scaleMax |-> s[2]] :
        k \in Keys, s \in {<<5, Absent>>, <<-3, 7>>, <<2, 1>>, <<0, 9>>, <<-9, 0>>}}

Alone == WithWeights({0, 1, 4, 5, 14, 15, 2000, 999994, 999995}) \cup WithScales

InPairs == WithWeights({4, 14, 999995})

SomeBodies == {<<>>} \cup {<<c>> : c \in Alone} \cup (InPairs \X InPairs)
=============================================================================
