---------------------------- MODULE SnapshotCuts ----------------------------
(* One table that a snapshot captures, and the chunks it is cut into.      *)
EXTENDS SnapshotChunks

VARIABLE captured  \* the table

CutInit == captured \in Tables
CutSpec == CutInit /\ [][UNCHANGED captured]_captured

(* Whatever the table, its chunks are the table, or it is refused for its  *)
(* size (privateControlChunkSnapshotEntries).                              *)
ChunksRepresentTable == ChunkedWell(captured)
=============================================================================
