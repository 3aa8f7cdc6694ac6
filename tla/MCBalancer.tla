------------------------------ MODULE MCBalancer ------------------------------
(* Small instances of Balancer: three or four instances, two of them on one *)
(* host, with two points each on a ring of eight hashes.                    *)
EXTENDS Balancer
CONSTANTS t1, t2, s1, s2, i1, i2, i3, i4, k1, k2
MCHost        == (i1 :> "a") @@ (i2 :> "b") @@ (i3 :> "c") @@ (i4 :> "a")
MCPoint       == ("a" :> <<5, 1>>) @@ ("b" :> <<3, 6>>) @@ ("c" :> <<4, 0>>)
MCKeyHash     == (k1 :> 2) @@ (k2 :> 7)
MCOneService  == s1 :> Instances
MCTwoServices == (s1 :> {i1, i2}) @@ (s2 :> {i3, i4})
\* The ring is built from long sequences, the turns are taken in many calls.
MCMaxCalls    == [k \in Kinds |-> IF k = "consistent_hash" THEN 2 ELSE 4]
MCMaxChanges  == [k \in Kinds |-> IF k = "consistent_hash" THEN 2 ELSE 1]
NoChange      == [k \in Kinds |-> 0]
MCSymmetry    == Permutations(Threads)
=============================================================================
