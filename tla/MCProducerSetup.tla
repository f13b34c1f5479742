--------------------------- MODULE MCProducerSetup ---------------------------
(* Instance of ProducerSetup for TLC. *)
EXTENDS ProducerSetup, TLC

MCNetworks == {"mainnet", "testnet"}
CONSTANTS a1, a2, s1
MCAddressesOf == [n \in MCNetworks |-> IF n = "mainnet" THEN {a1, a2} ELSE {a1}]
MCMaxAdded == [n \in MCNetworks |-> IF n = "mainnet" THEN 1 ELSE 0]
MCDerived == (<<s1, 0>> :> a1)
MCProfiles == {[n \in MCNetworks |-> None]}

Symmetry == Permutations(Keys)
=============================================================================
