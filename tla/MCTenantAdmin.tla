--------------------------- MODULE MCTenantAdmin ---------------------------
(* Instances of TenantAdmin for TLC. *)
EXTENDS TenantAdmin, TLC

Valid == [percentageBPS |-> 0, fixedCentavos |-> 300]
Negative == [percentageBPS |-> 150, fixedCentavos |-> -1]
Zero == [percentageBPS |-> 0, fixedCentavos |-> 0]

MCFeeMessages == {Valid, Negative, Zero}

Symmetry ==
    Permutations(Calls) \cup Permutations(Keys) \cup Permutations(Names)
=============================================================================
