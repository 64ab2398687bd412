--------------------------- MODULE MCNameRegistry ---------------------------
(* An instance of NameRegistry: two names and two fids.  The first name    *)
(* has proofs of both fids at one timestamp, told apart by signature, and  *)
(* a deletion; the second is registered and deleted.                       *)
EXTENDS NameRegistry, TLC

Symmetry == Permutations(Thread) \cup Permutations(Lock)

P(n, f, ts, sig) == [name |-> n, fid |-> f, timestamp |-> ts, signature |-> sig]

MCProof ==
    {P("a", 1, 1, 1), P("a", 2, 2, 1), P("a", 1, 2, 2), P("a", 0, 2, 3),
     P("b", 1, 1, 1), P("b", 0, 2, 1)}
=============================================================================
