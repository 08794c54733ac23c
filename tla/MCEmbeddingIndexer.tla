------------------------- MODULE MCEmbeddingIndexer -------------------------
(* Small instances of EmbeddingIndexer for TLC. *)
EXTENDS EmbeddingIndexer, TLC

Symmetry == Permutations(Runs) \cup Permutations(Ids) \cup Permutations(Texts) \cup Permutations(Payloads)
============================================================================
