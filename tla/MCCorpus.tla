------------------------------ MODULE MCCorpus ------------------------------
(* Small instances of the corpus: three coroutines around one document.     *)
EXTENDS Corpus, TLC

CONSTANTS w1, w2, w3

MCWorkers == {w1, w2, w3}

Symmetry == Permutations(Workers)
=============================================================================
