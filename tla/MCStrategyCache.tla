--------------------------- MODULE MCStrategyCache ---------------------------
(* StrategyCache for TLC: two shapes, one contained in the other's query.  *)
EXTENDS StrategyCache, TLC

Symmetry == Permutations(Request) \cup Permutations(Strategy)

MCTag == {"correlated", "repeated"}
(* q1 has one shape, q2 both, q0 one that is not seen when it is parsed as PostgreSQL *)
MCQuery == {"q0", "q1", "q2"}
MCSignature == [q \in MCQuery |-> IF q = "q2" THEN {"correlated", "repeated"} ELSE {"correlated"}]
MCSavedSignature == [MCSignature EXCEPT !["q0"] = {}]
(* one request at a time, one with restarts, and two that interleave *)
S(capacity, restarts, attempts) ==
    [capacity |-> capacity, restarts |-> restarts, attempts |-> attempts]
MCSettings == {S(1, FALSE, 1), S(1, FALSE, 2), S(1, TRUE, 2), S(2, FALSE, 1), S(2, FALSE, 2)}
(* the shipped number of attempts, more than one: a refused hit is always retried *)
ShippedSettings == {S(1, FALSE, 2)}
=============================================================================
