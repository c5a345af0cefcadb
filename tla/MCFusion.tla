------------------------------ MODULE MCFusion ------------------------------
(***************************************************************************)
(* Every pair of rankings of up to three of four ids.                      *)
(***************************************************************************)
EXTENDS FusionProperties, SequencesExt

CONSTANTS a, b, c, d

MCIdOrder == [id \in {a, b, c, d} |-> CASE id = a -> 1 [] id = b -> 2
                                        [] id = c -> 3 [] id = d -> 4]

MCListings == {s \in SetToAllKPermutations(DOMAIN IdOrder) : Len(s) <= 3}
=============================================================================
