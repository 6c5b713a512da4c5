------------------------------ MODULE MCSession ------------------------------
(* Session for TLC: the clients are interchangeable.                        *)
EXTENDS Session, TLC

Symmetry == Permutations(Client)
==============================================================================
