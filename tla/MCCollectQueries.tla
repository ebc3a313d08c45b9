-------------------------- MODULE MCCollectQueries --------------------------
(* A small instance of CollectQueries for TLC, and the scan for parameters   *)
(* against its reference definition.                                         *)
EXTENDS CollectQueries, TLC

CONSTANTS r1, r2, r3, shop, blog, internal

MCRows == {r1, r2, r3}

MCSchemaOf == r1 :> shop @@ r2 :> blog @@ r3 :> shop

\* The keys of r1 and r2 are the same where ids vary in length.
MCKeyOf == r1 :> r1 @@ r2 :> r1 @@ r3 :> r3

ASSUME ScanFindsParameters ==
    \A n \in 0..6 : \A query \in [1..n -> {"'", "$", "0", "x"}] :
       ContainsUnquotedPgParameter(query) = HasParameter(query)
=============================================================================
