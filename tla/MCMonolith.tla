----------------------------- MODULE MCMonolith -----------------------------
(* A small instance of Monolith.                                           *)
EXTENDS Monolith, TLC

CONSTANTS p1, p2

(* Two requests that name the same products the other way round: each can  *)
(* hold the row that the other waits for.                                  *)
TwoMenus == {<<p1, p2>>, <<p2, p1>>}

(* One of the products can be in two orders at once.                       *)
OneAndTwo == [p \in {p1, p2} |-> IF p = p1 THEN 1 ELSE 2]

MonolithSymmetry == Permutations(Orders) \cup Permutations(Keys)
                    \cup Permutations(Clients) \cup Permutations(Handlers)

=============================================================================
