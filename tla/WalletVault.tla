----------------------------- MODULE WalletVault -----------------------------
(***************************************************************************)
(* electron/lib/wallet-service.ts over electron/lib/teleno-storage.ts: the *)
(* wallet of each network, stored encrypted, and the one wallet that is    *)
(* unlocked in memory, with the producer address that config.yml gets from *)
(* it.                                                                     *)
(*                                                                         *)
(* Every handler runs without an await, so it is one action.  A handler    *)
(* that refuses its input, or whose write of the wallet file fails (the    *)
(* file is replaced by a rename before the session changes), changes       *)
(* nothing: a stuttering step.  An account is its address, which no two    *)
(* accounts of a wallet share; a stale account id is the id None.  Names   *)
(* and timestamps are left out, the order of the accounts is kept.         *)
(***************************************************************************)
EXTENDS Naturals

CONSTANTS
  Networks, Mainnet,
  Addresses,
  AddressesOf,  \* those used on a network
  Phrases,      \* seed phrases
  MaxIndex,     \* bound: derivation indexes
  Derived,      \* address of <<phrase, index>>
  Passwords,
  Protected,    \* KOINOS_ONE_PROTECTED_MAINNET_PRODUCER_ADDRESSES
  None,
  Profiles,     \* producer profiles that earlier sessions may have left
  MaxAdded      \* bound: accounts added to the wallet of a network

Indexes == 0..MaxIndex

ASSUME NetworksOfWallet == Mainnet \in Networks
ASSUME BoundsOfWallet == MaxIndex \in Nat /\ MaxAdded \in [Networks -> Nat]
ASSUME AddressesOfNetworks == AddressesOf \in [Networks -> SUBSET Addresses]
ASSUME DerivedIsAddress == Derived \in [Phrases \X Indexes -> Addresses]
ASSUME ProfilesOfNetworks == Profiles \subseteq [Networks -> Addresses \cup {None}]
ASSUME NoneIsNothing ==
  None \notin Networks \cup Addresses \cup Phrases \cup Passwords \cup Nat

VARIABLES
  vault,    \* the wallet file of each network that has one
  session,  \* unlockedWallet and unlockedWalletNetwork
  config,   \* block_producer.producer in the config.yml of each network, or None
  profile   \* burnAccountId of the stored producer profile of each network, or None

walletVars == <<vault, session, config, profile>>

Kinds == {"derived", "imported-wif", "watch-only"}

\* lock: the password encryptedKey is encrypted with, None without an encryptedKey.
\* at: the place in the order of the accounts.
AccountRecords ==
  [kind : Kinds, index : Indexes \cup {None}, lock : Passwords \cup {None}, at : Nat]

IsWallet(v) ==
  \E S \in SUBSET Addresses :
    v \in [accounts : [S -> AccountRecords], active : S, phrase : Phrases \cup {None},
          phraseLock : Passwords \cup {None}, next : Nat]

IsSession(s) ==
  \E S \in SUBSET Addresses :
    s \in [network : Networks \cup {None}, keys : [S -> Addresses \cup {None}],
          active : S \cup {None}, phrase : Phrases \cup {None}]

WalletTypeOK ==
  /\ DOMAIN vault \subseteq Networks
  /\ \A n \in DOMAIN vault : IsWallet(vault[n])
  /\ IsSession(session)
  /\ config \in [Networks -> Addresses \cup {None}]
  /\ profile \in [Networks -> Addresses \cup {None}]

Stored(n) == n \in DOMAIN vault
Accounts(n) == DOMAIN vault[n].accounts
HasKey(n, a) == vault[n].accounts[a].kind # "watch-only"

\* getUnlockedWalletForNetwork
Unlocked(n) == session.network = n

\* unlockedWallet = null
Locked == [network |-> None, keys |-> [a \in {} |-> None], active |-> None, phrase |-> None]

-----------------------------------------------------------------------------
\* teleno-storage.ts

\* f with x mapped to y.
Put(f, x, y) == [z \in DOMAIN f \cup {x} |-> IF z = x THEN y ELSE f[z]]

Without(f, x) == [z \in DOMAIN f \ {x} |-> f[z]]

\* accounts[0]
First(accounts) ==
  CHOOSE a \in DOMAIN accounts : \A b \in DOMAIN accounts : accounts[a].at <= accounts[b].at

\* An account is added, or replaced at its place, and becomes the active one.
PutAccount(v, a, account) ==
  [v EXCEPT !.accounts = Put(@, a, account), !.active = a,
            !.next = IF account.at = @ THEN @ + 1 ELSE @]

\* The same for the accounts of the session, if it is of this network.
PutKey(n, a, key) ==
  session' = IF Unlocked(n)
             THEN [session EXCEPT !.keys = Put(@, a, key), !.active = a]
             ELSE session

\* findWalletAccount: an id that no account has stands for the active account.
Found(n, id) == IF id \in Accounts(n) THEN id ELSE vault[n].active

\* createDerivedWalletAccount: one more than the largest index of a derived account.
DerivedIndexes(v) == {v.accounts[a].index : a \in {b \in DOMAIN v.accounts : v.accounts[b].kind = "derived"}}
NextIndex(v) ==
  CHOOSE i \in 0..(MaxIndex + 1) :
    /\ \A j \in DerivedIndexes(v) : j < i
    /\ i = 0 \/ i - 1 \in DerivedIndexes(v)

\* unlockedWalletFromFile throws unless the password decrypts every secret.
Opens(v, p) ==
  /\ v.phrase # None => v.phraseLock = p
  /\ \A a \in DOMAIN v.accounts : v.accounts[a].lock \in {p, None}

KeyOf(v, a) ==
  LET account == v.accounts[a] IN
    IF account.kind = "watch-only" THEN None
    ELSE IF account.lock # None THEN a
    ELSE IF v.phrase # None /\ account.index # None THEN Derived[<<v.phrase, account.index>>]
    ELSE None

SessionFrom(n, v) ==
  [network |-> n, keys |-> [a \in DOMAIN v.accounts |-> KeyOf(v, a)],
   active |-> v.active, phrase |-> v.phrase]

\* closeWalletSession, and the end of deleteWallet.
ForgetSession(n) == session' = IF Unlocked(n) THEN Locked ELSE session

\* saveWallet: a WIF, or a seed phrase and the WIF derived from it; whatever wallet was
\* stored is replaced.
SaveWallet(n, a, p, phrase, index) ==
  LET kind == IF phrase = None THEN "imported-wif" ELSE "derived"
      account == [kind |-> kind, index |-> index, lock |-> p, at |-> 0]
      v == [accounts |-> [x \in {a} |-> account], active |-> a, phrase |-> phrase,
            phraseLock |-> IF phrase = None THEN None ELSE p, next |-> 1]
  IN /\ vault' = Put(vault, n, v)
     /\ session' = SessionFrom(n, v)

\* setActiveWalletAccount
SetActiveWalletAccount(n, a) ==
  /\ vault' = [vault EXCEPT ![n] = [@ EXCEPT !.active = a]]
  /\ session' = IF ~Unlocked(n) THEN session
                ELSE [session EXCEPT !.active =
                        IF a \in DOMAIN session.keys THEN a
                        ELSE CHOOSE b \in DOMAIN session.keys : TRUE]

\* importWalletAccount: a new account, or the key of a watch-only one.  The password is
\* the one the user types here, whatever the other secrets are encrypted with.
ImportWalletAccount(n, a, p) ==
  /\ a \in Accounts(n) => ~HasKey(n, a)
  /\ a \notin Accounts(n) => vault[n].next <= MaxAdded[n]
  /\ vault' = [vault EXCEPT ![n] =
                 PutAccount(@, a, [kind |-> "imported-wif", index |-> None, lock |-> p,
                                   at |-> IF a \in Accounts(n) THEN vault[n].accounts[a].at
                                          ELSE vault[n].next])]
  /\ PutKey(n, a, a)

\* importWatchWalletAccount
ImportWatchWalletAccount(n, a) ==
  /\ a \notin Accounts(n)
  /\ vault[n].next <= MaxAdded[n]
  /\ vault' = [vault EXCEPT ![n] =
                 PutAccount(@, a, [kind |-> "watch-only", index |-> None, lock |-> None,
                                   at |-> vault[n].next])]
  /\ PutKey(n, a, None)

\* The account that is active once a is removed.
ActiveWithout(n, a) ==
  IF vault[n].active = a THEN First(Without(vault[n].accounts, a)) ELSE vault[n].active

\* Mutant: the key stays in memory.
RemoveWalletAccountKept(n, a) ==
  /\ Accounts(n) # {a}
  /\ vault' = [vault EXCEPT ![n] = [@ EXCEPT !.accounts = Without(vault[n].accounts, a),
                                            !.active = ActiveWithout(n, a)]]
  /\ session' = IF Unlocked(n) THEN [session EXCEPT !.active = ActiveWithout(n, a)] ELSE session

\* Mutant: the removed account stays the active one.
RemoveWalletAccountDangling(n, a) ==
  /\ Accounts(n) # {a}
  /\ vault' = [vault EXCEPT ![n] = [@ EXCEPT !.accounts = Without(vault[n].accounts, a)]]
  /\ session' = IF Unlocked(n) THEN [session EXCEPT !.keys = Without(@, a)] ELSE session

\* removeWalletAccount: the last account stays.
RemoveWalletAccount(n, a) ==
  /\ Accounts(n) # {a}
  /\ vault' = [vault EXCEPT ![n] = [@ EXCEPT !.accounts = Without(vault[n].accounts, a),
                                            !.active = ActiveWithout(n, a)]]
  /\ session' = IF ~Unlocked(n) THEN session
                ELSE LET left == DOMAIN session.keys \ {a} IN
                       [session EXCEPT !.keys = Without(@, a),
                          !.active = IF ActiveWithout(n, a) \in left THEN ActiveWithout(n, a)
                                     ELSE CHOOSE b \in left : TRUE]

\* deleteWallet: the producer profile goes too, if it can be removed.
DeleteWallet(n) ==
  /\ vault' = Without(vault, n)
  /\ profile' \in {profile, [profile EXCEPT ![n] = None]}
  /\ ForgetSession(n)

-----------------------------------------------------------------------------
\* wallet-service.ts

\* Mutant: on every network.
SyncProducerConfigAlways(n, a) == config' \in {config, [config EXCEPT ![n] = a]}

\* syncNonMainnetProducerRuntimeConfig, for an account that has a key; best effort.
SyncProducerConfig(n, a) ==
  \/ n # Mainnet /\ config' = [config EXCEPT ![n] = a]
  \/ UNCHANGED config

\* walletImport
WalletImport(n, a, p, phrase, index) ==
  /\ IF phrase = None THEN index = None
     ELSE index # None /\ a = Derived[<<phrase, index>>]
  /\ SaveWallet(n, a, p, phrase, index)
  /\ SyncProducerConfig(n, a)
  /\ UNCHANGED profile

\* walletSetActiveAccount
WalletSetActiveAccount(n, id) ==
  /\ Stored(n)
  /\ LET a == Found(n, id) IN
       /\ SetActiveWalletAccount(n, a)
       /\ IF HasKey(n, a) THEN SyncProducerConfig(n, a) ELSE UNCHANGED config
  /\ UNCHANGED profile

\* walletSetProducerAccount: the wallet need not be unlocked.
WalletSetProducerAccount(n, id) ==
  /\ Stored(n)
  /\ id \in Accounts(n) /\ HasKey(n, id)
  /\ ~(n = Mainnet /\ id \in Protected)
  /\ config' = [config EXCEPT ![n] = id]
  /\ UNCHANGED <<vault, session, profile>>

\* walletCreateDerivedAccount
WalletCreateDerivedAccount(n) ==
  /\ Stored(n) /\ vault[n].phrase # None
  /\ Unlocked(n) /\ session.phrase # None
  /\ vault[n].next <= MaxAdded[n]
  /\ LET i == NextIndex(vault[n])
         a == Derived[<<session.phrase, i>>]
     IN /\ i \in Indexes  \* bound
        /\ a \notin Accounts(n)
        /\ vault' = [vault EXCEPT ![n] =
                       PutAccount(@, a, [kind |-> "derived", index |-> i, lock |-> None,
                                         at |-> vault[n].next])]
        /\ PutKey(n, a, a)
        /\ SyncProducerConfig(n, a)
  /\ UNCHANGED profile

\* walletImportAccount
WalletImportAccount(n, a, p) ==
  /\ Stored(n)
  /\ ImportWalletAccount(n, a, p)
  /\ SyncProducerConfig(n, a)
  /\ UNCHANGED profile

\* walletImportWatchAccount
WalletImportWatchAccount(n, a) ==
  /\ Stored(n)
  /\ ImportWatchWalletAccount(n, a)
  /\ UNCHANGED <<config, profile>>

\* walletRemoveAccount: config.yml is not looked at.
WalletRemoveAccount(n, a) ==
  /\ Stored(n)
  /\ a \in Accounts(n)
  /\ RemoveWalletAccount(n, a)
  /\ UNCHANGED <<config, profile>>

\* walletDelete
WalletDelete(n) ==
  /\ Stored(n)
  /\ DeleteWallet(n)
  /\ UNCHANGED config

\* walletClose
WalletClose(n) ==
  /\ Stored(n)
  /\ ForgetSession(n)
  /\ UNCHANGED <<vault, config, profile>>

\* walletUnlock: one session at a time, whatever network the last one was of.
WalletUnlock(n, p) ==
  /\ Stored(n)
  /\ Opens(vault[n], p)
  /\ session' = SessionFrom(n, vault[n])
  /\ UNCHANGED <<vault, config, profile>>

\* The app quits or crashes and is started again.
Relaunch ==
  /\ session # Locked
  /\ session' = Locked
  /\ UNCHANGED <<vault, config, profile>>

WalletInit ==
  /\ vault = [n \in {} |-> None]
  /\ session = Locked
  /\ config \in [Networks -> {None}]
  /\ profile \in Profiles

\* The handlers of the accounts and of the session.
OnAccounts(n) ==
  \/ \E a \in AddressesOf[n], p \in Passwords, s \in Phrases \cup {None}, i \in Indexes \cup {None} :
       WalletImport(n, a, p, s, i)
  \/ \E id \in AddressesOf[n] \cup {None} : WalletSetActiveAccount(n, id)
  \/ WalletCreateDerivedAccount(n)
  \/ \E a \in AddressesOf[n], p \in Passwords : WalletImportAccount(n, a, p)
  \/ \E a \in AddressesOf[n] : WalletImportWatchAccount(n, a)
  \/ \E a \in AddressesOf[n] : WalletRemoveAccount(n, a)
  \/ WalletDelete(n)
  \/ WalletClose(n)
  \/ \E p \in Passwords : WalletUnlock(n, p)

OnNetwork(n) ==
  \/ OnAccounts(n)
  \/ \E id \in AddressesOf[n] : WalletSetProducerAccount(n, id)

WalletNext == (\E n \in Networks : OnNetwork(n)) \/ Relaunch

WalletSpec == WalletInit /\ [][WalletNext]_walletVars

-----------------------------------------------------------------------------
\* Properties

\* What unlocking v gives: its accounts, each key being that of its account.
Mirrors(s, v) ==
  /\ s.active = v.active /\ s.phrase = v.phrase
  /\ DOMAIN s.keys = DOMAIN v.accounts
  /\ \A a \in DOMAIN v.accounts :
       s.keys[a] = IF v.accounts[a].kind = "watch-only" THEN None ELSE a

\* The unlocked wallet is the stored one: eight handlers keep the two in step by hand,
\* and whatever they did, the session is what unlocking the file would give.
SessionMirrorsVault ==
  session.network # None =>
    /\ Stored(session.network)
    /\ Mirrors(session, vault[session.network])

\* A password that unlocks a wallet goes on to unlock it, whatever accounts are derived, watched,
\* made active and removed, until a key is imported, or the wallet replaced, with another one.
\* importWalletAccount does not compare the password it is given with the wallet's.
PasswordKept ==
  [][\A n \in Networks, p \in Passwords :
       Stored(n) /\ n \in DOMAIN vault' /\ Opens(vault[n], p) /\ ~Opens(vault'[n], p) =>
         \E a \in AddressesOf[n], q \in Passwords \ {p} :
           \/ WalletImportAccount(n, a, q)
           \/ \E phrase \in Phrases \cup {None}, i \in Indexes \cup {None} :
                WalletImport(n, a, q, phrase, i)]_walletVars

\* Someone who only ever types one password can always unlock what he stored with it.
PasswordOpens == \A n \in DOMAIN vault, p \in Passwords : Opens(vault[n], p)

\* The producer address a handler writes into config.yml belongs to an account of the wallet
\* stored for that network, one that can sign; on mainnet it is not a protected address, and
\* only walletSetProducerAccount writes it there.
ProducerAddressOwned ==
  [][\A n \in Networks : config'[n] # config[n] =>
       /\ n \in DOMAIN vault'
       /\ config'[n] \in DOMAIN vault'[n].accounts
       /\ vault'[n].accounts[config'[n]].kind # "watch-only"
       /\ n = Mainnet => config'[n] \notin Protected /\ vault' = vault]_walletVars

=============================================================================
