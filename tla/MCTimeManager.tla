--------------------------- MODULE MCTimeManager ---------------------------
(* Instances of module TimeManager for TLC. *)
EXTENDS TimeManager, TLC

\* The clients are interchangeable.
Symmetry == Permutations(Client)

=============================================================================
