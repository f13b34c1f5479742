------------------------ MODULE MCMonolithSupervisor ------------------------
(* Finite instances of MonolithSupervisor for TLC. *)
EXTENDS MonolithSupervisor, TLC

\* Two profiles that differ in every modelled feature.
MCPlans == {[f \in Features |-> TRUE], [f \in Features |-> FALSE]}

\* One profile: the runs that are not about features.
MCOnePlan == {[f \in Features |-> TRUE]}

Symmetry == Permutations(Children)
=============================================================================
