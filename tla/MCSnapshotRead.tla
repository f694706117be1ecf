--------------------------- MODULE MCSnapshotRead ---------------------------
(* SnapshotRead on a small instance. *)
EXTENDS SnapshotRead, TLC

Symmetric == Permutations(Inode) \cup Permutations(Block)
=============================================================================
