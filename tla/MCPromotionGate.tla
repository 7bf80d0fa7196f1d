-------------------------- MODULE MCPromotionGate --------------------------
(* A small tenant: a claim with and without a hedge, its denial, a          *)
(* preference that reads as a denial too, and a policy; two users, and      *)
(* observations without a user.                                             *)
EXTENDS PromotionGate, TLC

CONSTANTS f1, f2, f3, f4, p1, p2

MCFactIds == {f1, f2, f3, f4}
MCPromoters == {p1, p2}
MCClaims == {"is", "maybe", "not", "prefers not", "must"}

MCKind == [c \in MCClaims |-> CASE c = "prefers not" -> "preference"
                               [] c = "must" -> "policy"
                               [] OTHER -> "fact"]

MCContradicts == LET claims == {"is", "maybe"}
                     denials == {"not", "prefers not"}
                 IN  (claims \X denials) \cup (denials \X claims)

MCObservations == {
    <<"maybe", "ann", "user_stated">>,
    <<"not", "ann", "inferred">>,
    <<"is", "bob", "tool_output">>,
    <<"not", "tenant", "user_stated">>,
    <<"prefers not", "ann", "user_stated">>,
    <<"must", "tenant", "operator">>}

Symmetry == Permutations(MCFactIds) \cup Permutations(MCPromoters)
=============================================================================
