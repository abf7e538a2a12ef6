----------------------------- MODULE MCSigning -----------------------------
(* Instances of Signing: a, b, c are hardware wallets, g and h are HSMs.    *)
(* Hardware wallets, HSMs and inputs are each treated alike, so they may    *)
(* be permuted among themselves.                                            *)
EXTENDS Signing, TLC

CONSTANTS a, b, c, g, h, i1, i2

Symmetry ==
    Permutations(External) \cup Permutations(Software) \cup Permutations(Input)
============================================================================
