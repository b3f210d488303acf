---------------------------- MODULE MCSharedSim ----------------------------
(* SharedSim on small sets of clients: the API is the only writer. *)
EXTENDS SharedSim, TLC

CONSTANTS c1, c2, c3

TwoClients == {c1, c2}
ThreeClients == {c1, c2, c3}
NoSubs == {}

Everything == Requests
Core == {"create", "start", "tick"}
Single == {"create", "start", "tick", "decompose"}

Symmetry == Permutations(Clients)
=============================================================================
