-------------------------- MODULE MCGeminiAdapters --------------------------
(* Two requests that share a cache key (the same jobs in another order, or *)
(* two texts that begin alike) and one with a key of its own.              *)
EXTENDS GeminiAdapters

CONSTANTS r1, r2, r3, k1, k2

SharedKey == [r \in {r1, r2, r3} |-> IF r = r3 THEN k2 ELSE k1]
=============================================================================
