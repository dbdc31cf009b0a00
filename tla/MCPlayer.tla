------------------------------ MODULE MCPlayer ------------------------------
(* Player with an audio file and a playlist file of two others to come across. *)
EXTENDS Player

CONSTANTS a, t1, t2, t3

MCSorted == [S \in SUBSET Tracks |-> SelectSeq(<<t1, t2, t3>>, LAMBDA t : t \in S)]

Audio(t) == [kind |-> "audio", path |-> t]
M3u(n, l) == [kind |-> "m3u", name |-> n, tracks |-> l]

SomeFiles == {Audio(t2), M3u(a, <<t3, t1>>)}
=============================================================================
