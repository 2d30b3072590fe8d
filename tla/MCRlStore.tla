----------------------------- MODULE MCRlStore -----------------------------
(* Boards of three cells have twelve positions to store, in four slots.    *)
EXTENDS KxoRlStore

MCLines == <<{0, 1, 2}>>
=============================================================================
