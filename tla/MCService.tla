------------------------------ MODULE MCService ------------------------------
(***************************************************************************)
(* Service for TLC.                                                        *)
(***************************************************************************)
EXTENDS Service, TLC

\* No bound, one, both, and a range that ends before it begins.
MCRanges ==
    {[from |-> None, to |-> None], [from |-> 2, to |-> None], [from |-> None, to |-> 1],
     [from |-> 2, to |-> 2], [from |-> 2, to |-> 1]}

Symmetry == Permutations(Posts) \cup Permutations(Registrations) \cup Permutations(Owners)
==============================================================================
