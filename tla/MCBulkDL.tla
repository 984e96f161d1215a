------------------------------ MODULE MCBulkDL ------------------------------
(* TLC instance of BulkDL with interchangeable runs. *)
EXTENDS BulkDL, TLC

\* All media, or one kind of two.
MCSelections == {Media, {Max(Media)}}

\* Bound: two runs go on at the same time only over the first three messages,
\* without a limit, and as long as none is given up.  One run after another has
\* all the rest.
Together == Cardinality({r \in Runs : run[r].pc # "idle"}) > 1
Bounded == Together => posted <= 3 /\ passed = {} /\ \A r \in Runs : run[r].cap = 0

RunSymmetry == Permutations(Runs)
==============================================================================
