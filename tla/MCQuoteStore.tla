--------------------------- MODULE MCQuoteStore ---------------------------
(* The Store with room for two entries a map and one identity more.        *)
EXTENDS QuoteStore, TLC

MCQuoteIds == {"q1", "q2", "q3"}
MCPreparationIds == {"p1", "p2", "p3"}
MCMarks == {"spender"}
MCTerms == {"terms"}

=============================================================================
