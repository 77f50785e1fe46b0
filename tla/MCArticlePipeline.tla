------------------------- MODULE MCArticlePipeline -------------------------
(* A small job for TLC: two posters over two files, the second of which     *)
(* cannot be opened, with a first part that an earlier post confirmed.      *)
EXTENDS ArticlePipeline

MCNbSlices == <<3, 1>>
MCAlreadyPosted == {<<1, 1>>}
============================================================================
