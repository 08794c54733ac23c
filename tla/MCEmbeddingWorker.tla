------------------------- MODULE MCEmbeddingWorker -------------------------
(* Small instances of EmbeddingWorker for TLC.  Callers and children are   *)
(* interchangeable, so the safety runs reduce by both symmetries.          *)
EXTENDS EmbeddingWorker, TLC

Symmetry == Permutations(Children) \cup Permutations(Callers)
============================================================================
