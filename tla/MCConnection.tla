---------------------------- MODULE MCConnection -----------------------------
(* Two stream ids, a registry with room for both, and two connections: the shortest life in *)
(* which an id is used again and a connection is followed by another.                       *)
EXTENDS Connection

CONSTANTS a, b, w1, w2

MCIds == {a, b}
MCWorkers == {w1, w2}
==============================================================================
