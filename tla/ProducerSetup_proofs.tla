------------------------- MODULE ProducerSetup_proofs -------------------------
(***************************************************************************)
(* The producer of mainnet is one the user named, and the key registered   *)
(* for it the one its node signs with, for every set of networks, accounts *)
(* and keys.                                                               *)
(*                                                                         *)
(* The inductive invariant adds to each property what a registration in    *)
(* flight and a stored profile carry into a later step: an address that    *)
(* was named, and a key that still is the one in the BASEDIR.              *)
(***************************************************************************)
EXTENDS ProducerSetup, Wallet_proofs

\* What config.yml may get from a registration or from the profile was named as well.
NamedLater ==
  /\ profile[Mainnet] \in named \cup {None}
  /\ reg.pc # "idle" /\ reg.network = Mainnet => reg.signer \in named

\* A public.key is written beside a private.key, and a registration has a key to register.
PublishedHaveKeys ==
  /\ \A n \in published : key[n] # None
  /\ reg.pc # "idle" => reg.key # None

SetupIInv ==
  /\ WalletIInv
  /\ SetupTypeOK
  /\ MainnetProducerNamed
  /\ NamedLater
  /\ OwnKeyRegistered
  /\ PublishedHaveKeys

-----------------------------------------------------------------------------
\* The active account and the first account with a key are accounts.
LEMMA SignerIsAccount ==
  ASSUME WalletIInv, NEW n \in Networks, Stored(n)
  PROVE  SignerOfWallet(n) \in Addresses
<1>1. IsWallet(vault[n])
  BY DEF WalletIInv, WalletTypeOK, Stored
<1>2. PICK S \in SUBSET Addresses :
        vault[n] \in [accounts : [S -> AccountRecords], active : S, phrase : Phrases \cup {None},
                      phraseLock : Passwords \cup {None}, next : Nat]
  BY <1>1 DEF IsWallet
<1>3. Accounts(n) = S /\ vault[n].active \in S
  BY <1>2 DEF Accounts
<1> DEFINE keyed == {a \in Accounts(n) : HasKey(n, a)}
           ofKeyed == [a \in keyed |-> vault[n].accounts[a]]
<1>4. CASE vault[n].active \in keyed \/ keyed = {}
  BY <1>2, <1>3, <1>4 DEF SignerOfWallet
<1>5. CASE ~(vault[n].active \in keyed \/ keyed = {})
  <2>1. DOMAIN ofKeyed = keyed /\ keyed # {} /\ keyed \subseteq S
    BY <1>3, <1>5
  <2>2. \A a \in DOMAIN ofKeyed : ofKeyed[a].at \in Nat
    BY <1>2, <1>3, <2>1 DEF AccountRecords
  <2>3. First(ofKeyed) \in keyed
    <3> HIDE DEF ofKeyed, keyed
    <3> QED BY <2>1, <2>2, FirstIsAccount
  <2>4. SignerOfWallet(n) = First(ofKeyed)
    BY <1>5 DEF SignerOfWallet
  <2> QED BY <2>1, <2>3, <2>4
<1> QED BY <1>4, <1>5

\* Mainnet has no other BASEDIR to take a key from.
LEMMA MainnetKey ==
  ASSUME PublishedHaveKeys
  PROVE  LocalKey(Mainnet) = key[Mainnet]
BY DEF LocalKey

LEMMA LocalKeyTyped ==
  ASSUME SetupTypeOK, NEW n \in Networks
  PROVE  LocalKey(n) \in Keys \cup {None}
BY NetworksOfWallet DEF LocalKey, SetupTypeOK

\* What an account handler does to the profiles: it leaves them or drops one.
LEMMA HandlerProfiles ==
  ASSUME WalletIInv, NEW n \in Networks, OnAccounts(n)
  PROVE  \A m \in Networks : profile'[m] \in {profile[m], None}
BY DEF OnAccounts, WalletImport, SaveWallet, WalletSetActiveAccount,
       SetActiveWalletAccount, WalletCreateDerivedAccount, WalletImportAccount,
       ImportWalletAccount, WalletImportWatchAccount, ImportWatchWalletAccount,
       WalletRemoveAccount, RemoveWalletAccount, ActiveWithout, WalletDelete, DeleteWallet,
       WalletClose, WalletUnlock, WalletIInv, WalletTypeOK

\* A step that leaves vault and session alone keeps what Wallet_proofs shows of them.
LEMMA KeepsWallets ==
  ASSUME WalletIInv, UNCHANGED <<vault, session>>,
         config' \in [Networks -> Addresses \cup {None}],
         profile' \in [Networks -> Addresses \cup {None}]
  PROVE  WalletIInv'
<1>1. IsSession(session')
  BY DEF WalletIInv, WalletTypeOK
<1> QED BY <1>1, SessionStep

-----------------------------------------------------------------------------
\* One lemma for each kind of step

LEMMA HandlerStep ==
  ASSUME SetupIInv, NEW n \in Networks, WalletHandler(n)
  PROVE  SetupIInv'
<1> USE NetworksOfWallet
<1>1. WalletIInv'
  BY AccountsStepIInv DEF SetupIInv, WalletHandler
<1>2. config'[Mainnet] = config[Mainnet]
  BY AccountsLeaveMainnet DEF SetupIInv, WalletHandler
<1>3. profile'[Mainnet] \in {profile[Mainnet], None}
  BY HandlerProfiles DEF SetupIInv, WalletHandler
<1>4. registered' = [m \in Networks |-> IF profile'[m] = None THEN None ELSE registered[m]]
  BY DEF WalletHandler
<1>5. UNCHANGED <<key, published, reg, named>>
  BY DEF WalletHandler
<1>6. SetupTypeOK'
  BY <1>4, <1>5 DEF SetupIInv, SetupTypeOK
<1>7. MainnetProducerNamed' /\ NamedLater'
  BY <1>2, <1>3, <1>5 DEF SetupIInv, MainnetProducerNamed, NamedLater
<1>8. OwnKeyRegistered' /\ PublishedHaveKeys'
  BY <1>4, <1>5 DEF SetupIInv, OwnKeyRegistered, PublishedHaveKeys
<1> QED BY <1>1, <1>6, <1>7, <1>8 DEF SetupIInv

LEMMA ChooseStep ==
  ASSUME SetupIInv, NEW n \in Networks, NEW id \in AddressesOf[n], ChooseProducer(n, id)
  PROVE  SetupIInv'
<1> USE NetworksOfWallet
<1>1. WalletIInv'
  BY StepSetProducer DEF SetupIInv, ChooseProducer
<1>2. id \in Addresses /\ config \in [Networks -> Addresses \cup {None}]
  BY AddressesOfNetworks DEF SetupIInv, WalletIInv, WalletTypeOK
<1>3. /\ config' = [config EXCEPT ![n] = id]
      /\ named' = IF n = Mainnet THEN named \cup {id} ELSE named
      /\ UNCHANGED <<profile, key, published, registered, reg>>
  BY DEF ChooseProducer, WalletSetProducerAccount, Name
<1>4. SetupTypeOK'
  BY <1>2, <1>3 DEF SetupIInv, SetupTypeOK
<1>5. MainnetProducerNamed' /\ NamedLater'
  BY <1>2, <1>3 DEF SetupIInv, MainnetProducerNamed, NamedLater
<1>6. OwnKeyRegistered' /\ PublishedHaveKeys'
  BY <1>3 DEF SetupIInv, OwnKeyRegistered, PublishedHaveKeys
<1> QED BY <1>1, <1>4, <1>5, <1>6 DEF SetupIInv

\* A new key comes where there is none: by the app, or by the node.
LEMMA KeyStep ==
  ASSUME SetupIInv, NEW n \in Networks, CreateLocalKey(n) \/ NodeStarts(n)
  PROVE  SetupIInv'
<1> USE NetworksOfWallet
<1>1. UNCHANGED <<walletVars, registered, reg, named>>
  BY DEF CreateLocalKey, NodeStarts
<1>2. WalletIInv'
  <2>1. /\ config \in [Networks -> Addresses \cup {None}]
        /\ profile \in [Networks -> Addresses \cup {None}]
    BY DEF SetupIInv, WalletIInv, WalletTypeOK
  <2> QED BY <1>1, <2>1, KeepsWallets DEF SetupIInv, walletVars
<1>3. key \in [Networks -> Keys \cup {None}] /\ published \subseteq Networks
  BY DEF SetupIInv, SetupTypeOK
<1>4. /\ key' \in [Networks -> Keys \cup {None}]
      /\ \A m \in Networks : key[m] # None => key'[m] = key[m]
      /\ \A m \in published' : key'[m] # None
      /\ published' \subseteq Networks
  <2>1. CASE CreateLocalKey(n)
    <3>1. PICK k \in NewKeys : key' = [key EXCEPT ![n] = k]
      BY <2>1 DEF CreateLocalKey
    <3>2. k \in Keys /\ k # None
      BY <3>1, KeysAreSomething DEF NewKeys
    <3>3. key[n] = None
      BY <2>1 DEF CreateLocalKey, LocalKey, SetupIInv, PublishedHaveKeys
    <3>4. published' = published
      BY <2>1 DEF CreateLocalKey
    <3> QED BY <1>3, <3>1, <3>2, <3>3, <3>4 DEF SetupIInv, PublishedHaveKeys
  <2>2. CASE NodeStarts(n)
    <3>1. published' = published \cup {n}
      BY <2>2 DEF NodeStarts
    <3>2. CASE key[n] = None
      <4>1. PICK k \in NewKeys : key' = [key EXCEPT ![n] = k]
        BY <2>2, <3>2 DEF NodeStarts
      <4>2. k \in Keys /\ k # None
        BY <4>1, KeysAreSomething DEF NewKeys
      <4> QED BY <1>3, <3>1, <3>2, <4>1, <4>2 DEF SetupIInv, PublishedHaveKeys
    <3>3. CASE key[n] # None
      BY <1>3, <2>2, <3>1, <3>3 DEF NodeStarts, SetupIInv, PublishedHaveKeys
    <3> QED BY <3>2, <3>3
  <2> QED BY <2>1, <2>2
<1>5. SetupTypeOK'
  BY <1>1, <1>4 DEF SetupIInv, SetupTypeOK
<1>6. MainnetProducerNamed' /\ NamedLater'
  BY <1>1 DEF SetupIInv, MainnetProducerNamed, NamedLater, walletVars
<1>7. OwnKeyRegistered' /\ PublishedHaveKeys'
  BY <1>1, <1>4 DEF SetupIInv, OwnKeyRegistered, PublishedHaveKeys
<1> QED BY <1>2, <1>5, <1>6, <1>7 DEF SetupIInv

LEMMA BeginStep ==
  ASSUME SetupIInv, NEW n \in Networks, NEW a \in AddressesOf[n], BeginRegistration(n, a)
  PROVE  SetupIInv'
<1> USE NetworksOfWallet
<1>1. UNCHANGED <<walletVars, key, published, registered>>
  BY DEF BeginRegistration
<1>2. /\ reg' = [pc |-> "reading", network |-> n, signer |-> a, key |-> LocalKey(n)]
      /\ named' = IF n = Mainnet THEN named \cup {a} ELSE named
      /\ LocalKey(n) # None
  BY DEF BeginRegistration, Name
<1>3. a \in Addresses /\ LocalKey(n) \in Keys \cup {None}
  BY AddressesOfNetworks, LocalKeyTyped DEF SetupIInv
<1>4. WalletIInv'
  <2>1. /\ config \in [Networks -> Addresses \cup {None}]
        /\ profile \in [Networks -> Addresses \cup {None}]
    BY DEF SetupIInv, WalletIInv, WalletTypeOK
  <2> QED BY <1>1, <2>1, KeepsWallets DEF SetupIInv, walletVars
<1>5. SetupTypeOK'
  BY <1>1, <1>2, <1>3 DEF SetupIInv, SetupTypeOK
<1>6. MainnetProducerNamed' /\ NamedLater'
  BY <1>1, <1>2 DEF SetupIInv, MainnetProducerNamed, NamedLater, walletVars
<1>7. OwnKeyRegistered' /\ PublishedHaveKeys'
  BY <1>1, <1>2, MainnetKey DEF SetupIInv, OwnKeyRegistered, PublishedHaveKeys
<1> QED BY <1>4, <1>5, <1>6, <1>7 DEF SetupIInv

LEMMA AwaitStep ==
  ASSUME SetupIInv, NEW from, NEW to \in {"sending", "waiting"}, from # "idle", Await(from, to)
  PROVE  SetupIInv'
<1>1. UNCHANGED <<walletVars, key, published, registered, named>>
  BY DEF Await
<1>2. reg.pc # "idle" /\ reg' = [reg EXCEPT !.pc = to]
  BY DEF Await
<1>3. WalletIInv'
  <2>1. /\ config \in [Networks -> Addresses \cup {None}]
        /\ profile \in [Networks -> Addresses \cup {None}]
    BY DEF SetupIInv, WalletIInv, WalletTypeOK
  <2> QED BY <1>1, <2>1, KeepsWallets DEF SetupIInv, walletVars
<1>4. SetupTypeOK'
  BY <1>1, <1>2 DEF SetupIInv, SetupTypeOK
<1>5. reg'.network = reg.network /\ reg'.signer = reg.signer /\ reg'.key = reg.key
  BY <1>2 DEF SetupIInv, SetupTypeOK
<1>6. MainnetProducerNamed' /\ NamedLater'
  BY <1>1, <1>2, <1>5 DEF SetupIInv, MainnetProducerNamed, NamedLater, walletVars
<1>7. OwnKeyRegistered' /\ PublishedHaveKeys'
  BY <1>1, <1>2, <1>5 DEF SetupIInv, OwnKeyRegistered, PublishedHaveKeys
<1> QED BY <1>3, <1>4, <1>6, <1>7 DEF SetupIInv

\* The registration ends, with or without its writes.
LEMMA PersistStep ==
  ASSUME SetupIInv, reg.pc # "idle", Persist
  PROVE  SetupIInv'
<1> USE NetworksOfWallet
<1> DEFINE n == reg.network
<1>1. reg' = NoRegistration /\ UNCHANGED <<vault, session, key, published, named>>
  BY DEF Persist
<1>2. n \in Networks /\ reg.signer \in Addresses \cup {None} /\ reg.key \in Keys \cup {None}
  BY DEF SetupIInv, SetupTypeOK
<1>3. /\ config' \in {config, [config EXCEPT ![n] = reg.signer]}
      /\ profile' \in {profile, [profile EXCEPT ![n] = reg.signer]}
      /\ registered' \in {registered, [registered EXCEPT ![n] = reg.key]}
  BY DEF Persist
<1>4. /\ config \in [Networks -> Addresses \cup {None}]
      /\ profile \in [Networks -> Addresses \cup {None}]
      /\ registered \in [Networks -> Keys \cup {None}]
  BY DEF SetupIInv, SetupTypeOK, WalletIInv, WalletTypeOK
<1>5. /\ config' \in [Networks -> Addresses \cup {None}]
      /\ profile' \in [Networks -> Addresses \cup {None}]
      /\ registered' \in [Networks -> Keys \cup {None}]
  BY <1>2, <1>3, <1>4
<1>6. WalletIInv'
  BY <1>1, <1>5, KeepsWallets DEF SetupIInv
<1>7. SetupTypeOK'
  BY <1>1, <1>5 DEF SetupIInv, SetupTypeOK, NoRegistration
<1>8. n = Mainnet => reg.signer \in named /\ reg.key = key[Mainnet]
  BY DEF SetupIInv, NamedLater, OwnKeyRegistered
<1>9. MainnetProducerNamed' /\ NamedLater'
  BY <1>1, <1>2, <1>3, <1>4, <1>8
     DEF SetupIInv, MainnetProducerNamed, NamedLater, NoRegistration
<1>10. OwnKeyRegistered' /\ PublishedHaveKeys'
  BY <1>1, <1>2, <1>3, <1>4, <1>8
     DEF SetupIInv, OwnKeyRegistered, PublishedHaveKeys, NoRegistration
<1> QED BY <1>6, <1>7, <1>9, <1>10 DEF SetupIInv

LEMMA DeleteProducerStep ==
  ASSUME SetupIInv, NEW n \in Networks, DeleteProducer(n)
  PROVE  SetupIInv'
<1> USE NetworksOfWallet
<1>1. reg.pc = "idle" /\ UNCHANGED <<vault, session, key, published, reg>>
  BY DEF DeleteProducer
<1>2. PICK clearsProfile \in BOOLEAN, clearsConfig \in BOOLEAN :
       /\ profile' = IF clearsProfile THEN [profile EXCEPT ![n] = None] ELSE profile
       /\ registered' = IF clearsProfile THEN [registered EXCEPT ![n] = None] ELSE registered
       /\ config' = IF clearsConfig THEN [config EXCEPT ![n] = None] ELSE config
       /\ named' = IF n = Mainnet /\ clearsProfile /\ clearsConfig THEN {} ELSE named
  BY DEF DeleteProducer
<1>3. /\ config \in [Networks -> Addresses \cup {None}]
      /\ profile \in [Networks -> Addresses \cup {None}]
      /\ registered \in [Networks -> Keys \cup {None}]
  BY DEF SetupIInv, SetupTypeOK, WalletIInv, WalletTypeOK
<1>4. /\ config' \in [Networks -> Addresses \cup {None}]
      /\ profile' \in [Networks -> Addresses \cup {None}]
      /\ registered' \in [Networks -> Keys \cup {None}]
  BY <1>2, <1>3
<1>5. WalletIInv'
  BY <1>1, <1>4, KeepsWallets DEF SetupIInv
<1>6. named' \subseteq Addresses
  BY <1>2 DEF SetupIInv, SetupTypeOK
<1>7. SetupTypeOK'
  BY <1>1, <1>4, <1>6 DEF SetupIInv, SetupTypeOK
<1>8. MainnetProducerNamed' /\ NamedLater'
  <2>1. CASE n = Mainnet /\ clearsProfile /\ clearsConfig
    BY <1>1, <1>2, <1>3, <2>1 DEF MainnetProducerNamed, NamedLater
  <2>2. CASE ~(n = Mainnet /\ clearsProfile /\ clearsConfig)
    <3>1. /\ named' = named
          /\ profile'[Mainnet] \in {profile[Mainnet], None}
          /\ config'[Mainnet] \in {config[Mainnet], None}
      BY <1>2, <1>3, <2>2
    <3> QED BY <1>1, <3>1 DEF SetupIInv, MainnetProducerNamed, NamedLater
  <2> QED BY <2>1, <2>2
<1>9. registered'[Mainnet] \in {registered[Mainnet], None}
  BY <1>2, <1>3
<1>10. OwnKeyRegistered' /\ PublishedHaveKeys'
  BY <1>1, <1>9 DEF SetupIInv, OwnKeyRegistered, PublishedHaveKeys
<1> QED BY <1>5, <1>7, <1>8, <1>10 DEF SetupIInv

\* A start takes mainnet's producer from the profile alone.
LEMMA StartStep ==
  ASSUME SetupIInv, NEW n \in Networks, StartChecks(n)
  PROVE  SetupIInv'
<1> USE NetworksOfWallet
<1>1. /\ config[n] = None /\ config' = [config EXCEPT ![n] = Candidate(n)]
      /\ UNCHANGED <<vault, session, profile, key, published, registered, reg, named>>
  BY DEF StartChecks
<1>2. /\ config \in [Networks -> Addresses \cup {None}]
      /\ profile \in [Networks -> Addresses \cup {None}]
  BY DEF SetupIInv, WalletIInv, WalletTypeOK
<1>3. Candidate(n) \in Addresses \cup {None}
  BY <1>2, SignerIsAccount DEF Candidate, SetupIInv
<1>4. n = Mainnet => Candidate(n) = profile[Mainnet] \/ Candidate(n) = None
  BY <1>1 DEF Candidate
<1>5. WalletIInv'
  BY <1>1, <1>2, <1>3, KeepsWallets DEF SetupIInv
<1>6. SetupTypeOK' /\ OwnKeyRegistered' /\ PublishedHaveKeys'
  BY <1>1 DEF SetupIInv, SetupTypeOK, OwnKeyRegistered, PublishedHaveKeys
<1>7. MainnetProducerNamed' /\ NamedLater'
  BY <1>1, <1>2, <1>4 DEF SetupIInv, MainnetProducerNamed, NamedLater
<1> QED BY <1>5, <1>6, <1>7 DEF SetupIInv

\* The registration and the session are forgotten.
LEMMA ForgetStep ==
  ASSUME SetupIInv, reg' \in {reg, NoRegistration}, session' \in {session, Locked},
         UNCHANGED <<vault, config, profile, key, published, registered, named>>
  PROVE  SetupIInv'
<1>1. WalletIInv'
  BY StepLock DEF SetupIInv
<1>2. SetupTypeOK'
  BY NetworksOfWallet DEF SetupIInv, SetupTypeOK, NoRegistration
<1>3. MainnetProducerNamed' /\ NamedLater' /\ OwnKeyRegistered' /\ PublishedHaveKeys'
  BY DEF SetupIInv, MainnetProducerNamed, NamedLater, OwnKeyRegistered, PublishedHaveKeys,
         NoRegistration
<1> QED BY <1>1, <1>2, <1>3 DEF SetupIInv

-----------------------------------------------------------------------------
LEMMA SetupInitIInv == SetupInit => SetupIInv
<1> SUFFICES ASSUME SetupInit PROVE SetupIInv
  OBVIOUS
<1>1. WalletIInv
  BY WalletInitIInv DEF SetupInit
<1>2. profile \in [Networks -> Addresses \cup {None}] /\ config \in [Networks -> {None}]
  BY <1>1 DEF SetupInit, WalletInit, WalletIInv, WalletTypeOK
<1>3. SetupTypeOK
  BY <1>2, NetworksOfWallet DEF SetupInit, SetupTypeOK, NoRegistration
<1>4. MainnetProducerNamed /\ NamedLater /\ OwnKeyRegistered /\ PublishedHaveKeys
  BY <1>2, NetworksOfWallet
     DEF SetupInit, MainnetProducerNamed, NamedLater, OwnKeyRegistered, PublishedHaveKeys,
         NoRegistration
<1> QED BY <1>1, <1>3, <1>4 DEF SetupIInv

LEMMA SetupStepIInv == SetupIInv /\ [SetupNext]_setupVars => SetupIInv'
<1> SUFFICES ASSUME SetupIInv, [SetupNext]_setupVars PROVE SetupIInv'
  OBVIOUS
<1>1. CASE \E n \in Networks : WalletHandler(n)
  BY <1>1, HandlerStep
<1>2. CASE \E n \in Networks : \E id \in AddressesOf[n] : ChooseProducer(n, id)
  BY <1>2, ChooseStep
<1>3. CASE \E n \in Networks : CreateLocalKey(n) \/ NodeStarts(n)
  BY <1>3, KeyStep
<1>4. CASE \E n \in Networks : \E a \in AddressesOf[n] : BeginRegistration(n, a)
  BY <1>4, BeginStep
<1>5. CASE \E n \in Networks : DeleteProducer(n)
  BY <1>5, DeleteProducerStep
<1>6. CASE \E n \in Networks : StartChecks(n)
  BY <1>6, StartStep
<1>7. CASE AlreadyRegistered \/ RegistrationWaited
  BY <1>7, PersistStep DEF AlreadyRegistered, RegistrationWaited
<1>8. CASE ToBeRegistered \/ RegistrationSent
  BY <1>8, AwaitStep DEF ToBeRegistered, RegistrationSent
<1>9. CASE RegistrationFails
  BY <1>9, ForgetStep DEF RegistrationFails, walletVars
<1>10. CASE RelaunchSetup
  BY <1>10, ForgetStep DEF RelaunchSetup
<1>11. CASE UNCHANGED setupVars
  BY <1>11, ForgetStep DEF setupVars, walletVars
<1> QED BY <1>1, <1>2, <1>3, <1>4, <1>5, <1>6, <1>7, <1>8, <1>9, <1>10, <1>11 DEF SetupNext

\* Type correctness, and beside registrations, deletions and starts the wallets and their
\* session stay as Wallet_proofs shows them.
THEOREM SetupTypes == SetupSpec => [](SetupTypeOK /\ WalletTypeOK /\ SessionMirrorsVault)
<1>1. SetupIInv => SetupTypeOK /\ WalletTypeOK /\ SessionMirrorsVault
  BY DEF SetupIInv, WalletIInv
<1> QED BY <1>1, SetupInitIInv, SetupStepIInv, PTL DEF SetupSpec

\* No wallet handler, late registration or start puts an address into mainnet's config.yml
\* that the user has not named since the producer was last deleted.
THEOREM MainnetProducerIsNamed == SetupSpec => []MainnetProducerNamed
<1>1. SetupIInv => MainnetProducerNamed
  BY DEF SetupIInv
<1> QED BY <1>1, SetupInitIInv, SetupStepIInv, PTL DEF SetupSpec

\* On mainnet the key sent to the chain, and the one remembered, is the key the node signs with.
THEOREM OwnKeyIsRegistered == SetupSpec => []OwnKeyRegistered
<1>1. SetupIInv => OwnKeyRegistered
  BY DEF SetupIInv
<1> QED BY <1>1, SetupInitIInv, SetupStepIInv, PTL DEF SetupSpec
===============================================================================
