----------------------------- MODULE MCResolver -----------------------------
(* An instance of Resolver: one server known, or two.                        *)
EXTENDS Resolver, TLC

CONSTANTS a, b
MCSettings == {<<a, None>>, <<a, b>>}
Symmetry == Permutations(Threads)
=============================================================================
