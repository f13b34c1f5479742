---------------------------- MODULE ProducerSetup ----------------------------
(***************************************************************************)
(* The producer of each network: the registration of a local key           *)
(* (telenoNodeProducerRegister), Delete producer, the key file, and the    *)
(* check that a start with block production makes of config.yml            *)
(* (ensureMonolithProducerRuntimeConfig), beside the wallet handlers of    *)
(* WalletVault.                                                            *)
(*                                                                         *)
(* A registration takes its key and its signer when it begins, waits for   *)
(* the chain up to a minute, and then writes config.yml and the producer   *)
(* profile; the wallet handlers and starts of the node come between.  The  *)
(* buttons of the Producer tab share one flag: a registration, a deletion  *)
(* and the creation of a key exclude each other.  The tab registers the    *)
(* address that signs, so profile[n] is both burnAccountId and             *)
(* producerAddress.                                                        *)
(***************************************************************************)
EXTENDS WalletVault

CONSTANT Keys  \* the keys that may come to be; a new one is like no other

ASSUME KeysAreSomething == None \notin Keys

VARIABLES
  key,        \* block_producer/private.key in the BASEDIR of each network, or None
  published,  \* the networks whose BASEDIR has the public.key too
  registered, \* localPublicKey in the stored producer profile of each network, or None
  reg,        \* the registration in flight
  named       \* the mainnet addresses the user has chosen since the producer was deleted

setupVars == <<walletVars, key, published, registered, reg, named>>

NoRegistration == [pc |-> "idle", network |-> Mainnet, signer |-> None, key |-> None]

SetupTypeOK ==
  /\ key \in [Networks -> Keys \cup {None}]
  /\ published \subseteq Networks
  /\ registered \in [Networks -> Keys \cup {None}]
  /\ reg \in [pc : {"idle", "reading", "sending", "waiting"}, network : Networks,
              signer : Addresses \cup {None}, key : Keys \cup {None}]
  /\ named \subseteq Addresses

-----------------------------------------------------------------------------
\* producer-keys.ts

\* resolveLocalProducerPublicKey: the public.key of this BASEDIR, then that of the default
\* one, which is mainnet's; without any, what the private.key gives, in the same order.
LocalKey(n) ==
  IF n \in published THEN key[n]
  ELSE IF Mainnet \in published THEN key[Mainnet]
  ELSE IF key[n] # None THEN key[n]
  ELSE key[Mainnet]

NewKeys == Keys \ ({key[n] : n \in Networks} \cup {registered[n] : n \in Networks} \cup {reg.key})

\* Mutant: only a public.key counts as a key.
CreateLocalKeyUnpublished(n) ==
  /\ reg.pc = "idle"
  /\ n \notin published
  /\ \E k \in NewKeys : key' = [key EXCEPT ![n] = k]
  /\ UNCHANGED <<walletVars, published, registered, reg, named>>

\* createLocalProducerKeyFile: writes the private.key alone.
CreateLocalKey(n) ==
  /\ reg.pc = "idle"
  /\ LocalKey(n) = None
  /\ \E k \in NewKeys : key' = [key EXCEPT ![n] = k]
  /\ UNCHANGED <<walletVars, published, registered, reg, named>>

-----------------------------------------------------------------------------
\* producer-service.ts

Name(n, a) == named' = IF n = Mainnet THEN named \cup {a} ELSE named

\* The key and the signer, who is the producer, are fixed before the first await.
BeginRegistration(n, a) ==
  /\ reg.pc = "idle"
  /\ LocalKey(n) # None
  /\ Unlocked(n) /\ a \in DOMAIN session.keys /\ session.keys[a] # None
  /\ reg' = [pc |-> "reading", network |-> n, signer |-> a, key |-> LocalKey(n)]
  /\ Name(n, a)
  /\ UNCHANGED <<walletVars, key, published, registered>>

\* persistProducerRuntimeConfig, then saveProducerProfile; either write may throw, which ends
\* the registration.
Persist ==
  LET n == reg.network IN
    /\ reg' = NoRegistration
    /\ \/ UNCHANGED <<config, profile, registered>>
       \/ /\ config' = [config EXCEPT ![n] = reg.signer]
          /\ UNCHANGED <<profile, registered>>
       \/ /\ config' = [config EXCEPT ![n] = reg.signer]
          /\ profile' = [profile EXCEPT ![n] = reg.signer]
          /\ registered' = [registered EXCEPT ![n] = reg.key]
    /\ UNCHANGED <<vault, session, key, published, named>>

Await(from, to) ==
  /\ reg.pc = from
  /\ reg' = [reg EXCEPT !.pc = to]
  /\ UNCHANGED <<walletVars, key, published, registered, named>>

\* get_public_key: the key is on the chain already, or has to be sent...
AlreadyRegistered == reg.pc = "reading" /\ Persist
ToBeRegistered == Await("reading", "sending")

\* ... if there is mana for it.
RegistrationSent == Await("sending", "waiting")

\* Confirmed, or not within 60 s.
RegistrationWaited == reg.pc = "waiting" /\ Persist

\* An answer of the chain that is an error or does not come, or too little mana.
RegistrationFails ==
  /\ reg.pc \in {"reading", "sending"}
  /\ reg' = NoRegistration
  /\ UNCHANGED <<walletVars, key, published, registered, named>>

\* telenoNodeProducerDelete: the profile, then config.yml; each may fail without the other.
DeleteProducer(n) ==
  /\ reg.pc = "idle"
  /\ \E clearsProfile, clearsConfig \in BOOLEAN :
       /\ profile' = IF clearsProfile THEN [profile EXCEPT ![n] = None] ELSE profile
       /\ registered' = IF clearsProfile THEN [registered EXCEPT ![n] = None] ELSE registered
       /\ config' = IF clearsConfig THEN [config EXCEPT ![n] = None] ELSE config
       /\ named' = IF n = Mainnet /\ clearsProfile /\ clearsConfig THEN {} ELSE named
  /\ UNCHANGED <<vault, session, key, published, reg>>

-----------------------------------------------------------------------------
\* main.ts

\* The first active account with a key, any with a key, the active one.
SignerOfWallet(n) ==
  LET keyed == {a \in Accounts(n) : HasKey(n, a)} IN
    IF vault[n].active \in keyed \/ keyed = {} THEN vault[n].active
    ELSE First([a \in keyed |-> vault[n].accounts[a]])

\* Mutant: a wallet stands in on mainnet too.
CandidateAnywhere(n) ==
  IF config[n] # None THEN config[n]
  ELSE IF profile[n] # None THEN profile[n]
  ELSE IF Stored(n) THEN SignerOfWallet(n)
  ELSE None

\* resolveRuntimeProducerAddressCandidate
Candidate(n) ==
  IF config[n] # None THEN config[n]
  ELSE IF profile[n] # None THEN profile[n]
  ELSE IF n # Mainnet /\ Stored(n) THEN SignerOfWallet(n)
  ELSE None

\* ensureMonolithProducerRuntimeConfig, when block production is to start.
StartChecks(n) ==
  /\ config[n] = None
  /\ Candidate(n) # None
  /\ config' = [config EXCEPT ![n] = Candidate(n)]
  /\ UNCHANGED <<vault, session, profile, key, published, registered, reg, named>>

\* The node starts to produce: it writes the key it lacks, and the public.key.
NodeStarts(n) ==
  /\ config[n] # None
  /\ IF key[n] = None THEN \E k \in NewKeys : key' = [key EXCEPT ![n] = k]
     ELSE UNCHANGED key
  /\ published' = published \cup {n}
  /\ UNCHANGED <<walletVars, registered, reg, named>>

-----------------------------------------------------------------------------
\* A wallet handler: deleting the wallet deletes the profile too.
WalletHandler(n) ==
  /\ OnAccounts(n)
  /\ registered' = [m \in Networks |-> IF profile'[m] = None THEN None ELSE registered[m]]
  /\ UNCHANGED <<key, published, reg, named>>

ChooseProducer(n, id) ==
  /\ WalletSetProducerAccount(n, id)
  /\ Name(n, id)
  /\ UNCHANGED <<key, published, registered, reg>>

\* A quit or a crash ends a registration where it stands.
RelaunchSetup ==
  /\ session # Locked \/ reg # NoRegistration
  /\ session' = Locked
  /\ reg' = NoRegistration
  /\ UNCHANGED <<vault, config, profile, key, published, registered, named>>

SetupInit ==
  /\ WalletInit
  /\ key = [n \in Networks |-> None]
  /\ published = {}
  /\ registered = [n \in Networks |-> None]
  /\ reg = NoRegistration
  /\ named = {profile[Mainnet]} \ {None}

SetupNext ==
  \/ \E n \in Networks :
       \/ WalletHandler(n)
       \/ \E id \in AddressesOf[n] : ChooseProducer(n, id)
       \/ CreateLocalKey(n)
       \/ \E a \in AddressesOf[n] : BeginRegistration(n, a)
       \/ DeleteProducer(n)
       \/ StartChecks(n)
       \/ NodeStarts(n)
  \/ AlreadyRegistered \/ ToBeRegistered \/ RegistrationSent \/ RegistrationWaited
  \/ RegistrationFails
  \/ RelaunchSetup

SetupSpec == SetupInit /\ [][SetupNext]_setupVars

-----------------------------------------------------------------------------
\* Properties

\* "Koinos One will not infer a mainnet producer address from the wallet alone" (main.ts:511):
\* whatever wallets were created, imported, selected or deleted, whatever a profile kept and
\* whenever a registration ended, the producer in mainnet's config.yml is an address that
\* the user set as producer or registered since the producer was last deleted.
MainnetProducerNamed == config[Mainnet] \in named \cup {None}

\* "Never overwrites an existing key" (producer-keys.ts:95): the key that a registration on
\* mainnet sends, and the one its profile remembers, is the key the node signs with.
OwnKeyRegistered ==
  /\ registered[Mainnet] # None => registered[Mainnet] = key[Mainnet]
  /\ reg.pc # "idle" /\ reg.network = Mainnet => reg.key = key[Mainnet]

=============================================================================
