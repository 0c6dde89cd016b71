--------------------------- MODULE MCGroundedAnswer ---------------------------
(***************************************************************************)
(* Three chunks whose sizes let a pair of them fit, be cut to an excerpt   *)
(* that overruns the budget by a token, or be dropped with and without     *)
(* room for an excerpt.                                                    *)
(***************************************************************************)
EXTENDS GroundedAnswer

MCChunk == {"tables", "methods", "results"}

MCLength == [c \in MCChunk |->
    CASE c = "tables" -> 240 [] c = "methods" -> 320 [] c = "results" -> 200]

\* A table has no sentence to quote.
MCSentences == [c \in MCChunk |->
    CASE c = "tables" -> <<>> [] c = "methods" -> <<150, 90>> [] c = "results" -> <<103, 63>>]

MCMarkers == {1, 3}

MCStated == {-10, 20, 95, 150}

===============================================================================
