---------------------------- MODULE MCDynaConfig ----------------------------
(* Small instances of DynaConfig. *)
EXTENDS DynaConfig

CONSTANTS m1, m2, k1, k2, good, other, bad, picky

V(n, c) == [ver |-> n, content |-> c]
C(n, c) == [ver |-> n, content |-> c, cb |-> NoCallback]

\* Callback picky skips "other" and rejects empty content.
MCVerdict == [x \in Callbacks |-> [c \in Contents |->
                IF c = Empty THEN "err" ELSE IF c = other THEN "skip" ELSE "ok"]]

OneKey == [m \in Managers |-> <<k1>>]
\* m1 and m2 visit two keys in opposite orders.
TwoKeys == [m \in Managers |-> IF m = m1 THEN <<k1, k2>> ELSE <<k2, k1>>]

\* m1 ships a newer configuration than m2.
ShippedOrdered == [m \in Managers |-> [k \in Keys |-> IF m = m1 THEN C(2, good) ELSE C(1, other)]]
\* The second key is one its own callback skips.
ShippedPicky == [m \in Managers |-> [k \in Keys |->
                  IF k = k1 THEN C(1, good) ELSE [C(0, other) EXCEPT !.cb = picky]]]

NoInputs  == {}
NewInput  == {C(3, good)}
NoEdits   == {}
NewEdit   == {V(3, other)}
TwoEdits  == {V(3, other), V(4, good)}
BadEdit   == {V(2, Empty), V(3, other)}
=============================================================================
