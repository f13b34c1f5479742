------------------------------ MODULE MCWallet ------------------------------
(* Instances of WalletVault and WalletTransactions for TLC. *)
EXTENDS WalletTransactions, TLC

MCNetworks == {"mainnet", "testnet"}
CONSTANTS a1, a2, a3, s1
MCAddressesOf == [n \in MCNetworks |-> IF n = "mainnet" THEN {a1, a3} ELSE {a1}]
MCMaxAdded == [n \in MCNetworks |-> IF n = "mainnet" THEN 2 ELSE 0]
MCDerived == (<<s1, 0>> :> a1) @@ (<<s1, 1>> :> a2)
MCProfiles == {[n \in MCNetworks |-> a1]}

\* Nothing reads the signer and the network of a request after it has begun, nor its header
\* after it is sent.
WithoutSigner ==
  <<walletVars, tx.pc, tx.burn, tx.dry, tx.sent, tx.ok,
    IF tx.pc \in {"waiting", "rereading"} THEN <<>>
    ELSE <<tx.free, tx.header, tx.tried>>>>
=============================================================================
