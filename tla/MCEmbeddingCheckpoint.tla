----------------------- MODULE MCEmbeddingCheckpoint -----------------------
(* Three units, two per batch; a second generation of the documents loses  *)
(* one unit and gains another.                                             *)
EXTENDS EmbeddingCheckpoint

MCUnitsOf == <<{1, 2, 3}, {2, 3, 4}>>
=============================================================================
