----------------------------- MODULE MCMmcFiles -----------------------------
EXTENDS MmcFiles
CONSTANTS r, s, d, e, c, f, g, h, i, k

(* The first card has file f and directories d and c, d has file g and     *)
(* directory e with file h, c has file i; the second has file k.           *)
MCCard   == <<r, s>>
MCParent == [n \in {d, e, c, f, g, h, i, k} |->
               CASE n \in {d, c, f} -> r [] n \in {e, g} -> d
                 [] n = h -> e [] n = i -> c [] n = k -> s]
=============================================================================
