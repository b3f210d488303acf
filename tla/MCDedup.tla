------------------------------ MODULE MCDedup ------------------------------
(* Dedup with a few sends of one or two request IDs. *)
EXTENDS Dedup, TLC

CONSTANTS s1, s2, s3, i1, i2

ThreeSends == {s1, s2, s3}
TwoSends == {s1, s2}
TwoIds == {i1, i2}

Symmetry == Permutations(Sends) \union Permutations(Ids)
=============================================================================
