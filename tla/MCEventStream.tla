--------------------------- MODULE MCEventStream ----------------------------
(* A run that applies and prunes, one whose object a is valid and b is not, *)
(* and a destroy.                                                           *)
EXTENDS EventStream

CONSTANTS a, b

G(action, ids) == [action |-> action, ids |-> ids]

PlansDef == {
    [errors |-> <<>>,
     groups |-> <<G("Inventory", {a}), G("Apply", {a}), G("Wait", {a}),
                  G("Prune", {b}), G("Wait", {b}), G("Inventory", {})>>],
    [errors |-> <<{b}>>,
     groups |-> <<G("Inventory", {a}), G("Apply", {a}), G("Wait", {a}), G("Inventory", {})>>],
    [errors |-> <<>>,
     groups |-> <<G("Delete", {a, b}), G("Wait", {a, b}), G("Inventory", {})>>]}
==============================================================================
