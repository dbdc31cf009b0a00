--------------------------- MODULE MCPlaylistStore ---------------------------
(* PlaylistStore with the path of a file and one that names none. *)
EXTENDS PlaylistStore

CONSTANTS t1, t2

MCSorted == [S \in SUBSET Tracks |-> SelectSeq(<<t1, t2>>, LAMBDA t : t \in S)]
MCBatches == {<<t2>>, <<t1, t2>>}
=============================================================================
