----------------------------- MODULE Wallet_proofs -----------------------------
(***************************************************************************)
(* The session mirrors the wallet file, and a transaction is signed, sent  *)
(* and answered for as it should be, for every set of networks, addresses, *)
(* seed phrases and passwords.                                             *)
(*                                                                         *)
(* The invariant that carries the proof about the wallets adds to the      *)
(* types that a key which is not in the file can be derived from the       *)
(* file's seed phrase: that is what makes unlocking give every account its *)
(* own key.  Transactions only ever take steps the wallet handlers can     *)
(* take, so it holds beside them too; with it, the signer of a transaction *)
(* is an account of the stored wallet of its network.                      *)
(***************************************************************************)
EXTENDS WalletTransactions, TLAPS, WellFoundedInduction

\* A key that is not stored is derived from the stored seed phrase.
Derivable(v, a, account) ==
  account.kind # "watch-only" /\ account.lock = None =>
    /\ v.phrase # None /\ account.index # None
    /\ Derived[<<v.phrase, account.index>>] = a

Sound(v) == \A a \in DOMAIN v.accounts : Derivable(v, a, v.accounts[a])

\* What a handler makes of a session, and of a wallet that loses an account.
WithKey(s, a, key) == [s EXCEPT !.keys = Put(s.keys, a, key), !.active = a]
WithoutKey(s, a, active) == [s EXCEPT !.keys = Without(s.keys, a), !.active = active]
WithoutAccount(v, a, active) == [v EXCEPT !.accounts = Without(v.accounts, a), !.active = active]

WalletIInv ==
  /\ WalletTypeOK
  /\ \A n \in DOMAIN vault : Sound(vault[n])
  /\ SessionMirrorsVault

-----------------------------------------------------------------------------
\* The values the handlers build

\* accounts[0] is an account.
LEMMA FirstIsAccount ==
  ASSUME NEW accounts, DOMAIN accounts # {},
         \A a \in DOMAIN accounts : accounts[a].at \in Nat
  PROVE  First(accounts) \in DOMAIN accounts
<1> DEFINE Ats == {accounts[a].at : a \in DOMAIN accounts}
           Less == OpToRel(<, Nat)
<1>1. \E x \in Ats : \A y \in Ats : ~ (<<y, x>> \in Less)
  <2>1. IsWellFoundedOn(Less, Nat)
    BY NatLessThanWellFounded
  <2>2. Ats \subseteq Nat /\ Ats # {}
    OBVIOUS
  <2> HIDE DEF Ats, Less
  <2> QED BY <2>1, <2>2, WFMin
<1>2. \A x, y \in Nat : y < x => <<y, x>> \in Less
  BY DEF OpToRel
<1>3. PICK x \in Ats : \A y \in Ats : ~ (<<y, x>> \in Less)
  BY <1>1
<1>4. \A y \in Ats : x <= y
  <2> TAKE y \in Ats
  <2>1. x \in Nat /\ y \in Nat
    OBVIOUS
  <2>2. ~ (y < x)
    BY <1>2, <1>3, <2>1
  <2> QED BY <2>1, <2>2
<1>5. PICK a \in DOMAIN accounts : \A b \in DOMAIN accounts : accounts[a].at <= accounts[b].at
  <2> HIDE DEF Less
  <2> QED BY <1>4
<1> QED BY <1>5 DEF First

\* Putting an account into a wallet.
LEMMA PutAccountWallet ==
  ASSUME NEW v, IsWallet(v), Sound(v),
         NEW a \in Addresses, NEW account \in AccountRecords, Derivable(v, a, account)
  PROVE  LET w == PutAccount(v, a, account) IN
           /\ IsWallet(w) /\ Sound(w)
           /\ w.phrase = v.phrase /\ w.active = a
           /\ w.accounts = Put(v.accounts, a, account)
<1> DEFINE w == PutAccount(v, a, account)
<1>1. PICK S \in SUBSET Addresses :
        v \in [accounts : [S -> AccountRecords], active : S, phrase : Phrases \cup {None},
               phraseLock : Passwords \cup {None}, next : Nat]
  BY DEF IsWallet
<1>2. Put(v.accounts, a, account) \in [S \cup {a} -> AccountRecords]
  BY <1>1 DEF Put
<1>3. /\ w.accounts = Put(v.accounts, a, account) /\ w.active = a
      /\ w.phrase = v.phrase /\ w.phraseLock = v.phraseLock
      /\ w.next = IF account.at = v.next THEN v.next + 1 ELSE v.next
  BY <1>1 DEF PutAccount
<1>a. v.next \in Nat /\ v.next + 1 \in Nat
  BY <1>1
<1>4. w \in [accounts : [S \cup {a} -> AccountRecords], active : S \cup {a},
             phrase : Phrases \cup {None}, phraseLock : Passwords \cup {None}, next : Nat]
  BY <1>1, <1>2, <1>a DEF PutAccount
<1>5. IsWallet(w)
  BY <1>4 DEF IsWallet
<1>6. Sound(w)
  BY <1>3 DEF Sound, Derivable, Put
<1> QED BY <1>3, <1>5, <1>6

\* Putting its key into a session that mirrors the wallet.
LEMMA PutKeyMirrors ==
  ASSUME NEW v, NEW w, NEW s, IsSession(s), Mirrors(s, v),
         NEW a \in Addresses, NEW account,
         w.phrase = v.phrase, w.active = a, w.accounts = Put(v.accounts, a, account)
  PROVE  LET t == WithKey(s, a, IF account.kind = "watch-only" THEN None ELSE a)
         IN IsSession(t) /\ t.network = s.network /\ Mirrors(t, w)
<1> DEFINE key == IF account.kind = "watch-only" THEN None ELSE a
           t == WithKey(s, a, key)
<1>1. PICK S \in SUBSET Addresses :
        s \in [network : Networks \cup {None}, keys : [S -> Addresses \cup {None}],
               active : S \cup {None}, phrase : Phrases \cup {None}]
  BY DEF IsSession
<1>2. Put(s.keys, a, key) \in [S \cup {a} -> Addresses \cup {None}]
  BY <1>1 DEF Put
<1>3. /\ t.keys = Put(s.keys, a, key) /\ t.active = a /\ t.phrase = s.phrase
      /\ t.network = s.network
  BY <1>1 DEF WithKey
<1>4. t \in [network : Networks \cup {None}, keys : [S \cup {a} -> Addresses \cup {None}],
             active : S \cup {a} \cup {None}, phrase : Phrases \cup {None}]
  BY <1>1, <1>2 DEF WithKey
<1>5. IsSession(t)
  BY <1>4 DEF IsSession
<1>6. Mirrors(t, w)
  BY <1>3 DEF Mirrors, Put
<1> QED BY <1>3, <1>5, <1>6

\* Unlocking a sound wallet.
LEMMA SessionFromMirrors ==
  ASSUME NEW v, IsWallet(v), Sound(v), NEW n \in Networks
  PROVE  LET s == SessionFrom(n, v) IN IsSession(s) /\ s.network = n /\ Mirrors(s, v)
<1> DEFINE s == SessionFrom(n, v)
<1>1. PICK S \in SUBSET Addresses :
        v \in [accounts : [S -> AccountRecords], active : S, phrase : Phrases \cup {None},
               phraseLock : Passwords \cup {None}, next : Nat]
  BY DEF IsWallet
<1>2. \A a \in S : KeyOf(v, a) = IF v.accounts[a].kind = "watch-only" THEN None ELSE a
  BY <1>1 DEF KeyOf, Sound, Derivable
<1>3. s.keys \in [S -> Addresses \cup {None}]
  BY <1>1, <1>2 DEF SessionFrom
<1>4. IsSession(s)
  BY <1>1, <1>3 DEF IsSession, SessionFrom
<1> QED BY <1>1, <1>2, <1>4 DEF SessionFrom, Mirrors

\* No session.
LEMMA LockedIsSession == IsSession(Locked) /\ Locked.network = None
<1> DEFINE S == {}
<1>1. Locked \in [network : Networks \cup {None}, keys : [S -> Addresses \cup {None}],
                  active : S \cup {None}, phrase : Phrases \cup {None}]
  BY DEF Locked
<1> QED BY <1>1 DEF IsSession, Locked

\* Removing an account leaves a wallet.
LEMMA WithoutWallet ==
  ASSUME NEW v, IsWallet(v), Sound(v),
         NEW a \in DOMAIN v.accounts, DOMAIN v.accounts # {a},
         NEW active, active = IF v.active = a THEN First(Without(v.accounts, a)) ELSE v.active
  PROVE  LET w == WithoutAccount(v, a, active) IN
           /\ IsWallet(w) /\ Sound(w)
           /\ w.phrase = v.phrase /\ w.active = active
           /\ w.accounts = Without(v.accounts, a)
           /\ active \in DOMAIN v.accounts \ {a}
<1> DEFINE rest == Without(v.accounts, a)
           w == WithoutAccount(v, a, active)
<1>1. PICK S \in SUBSET Addresses :
        v \in [accounts : [S -> AccountRecords], active : S, phrase : Phrases \cup {None},
               phraseLock : Passwords \cup {None}, next : Nat]
  BY DEF IsWallet
<1>2. rest \in [S \ {a} -> AccountRecords]
  BY <1>1 DEF Without
<1>3. active \in S \ {a}
  <2>1. DOMAIN rest = S \ {a} /\ DOMAIN rest # {}
    BY <1>1, <1>2
  <2>2. \A b \in DOMAIN rest : rest[b].at \in Nat
    BY <1>2 DEF AccountRecords
  <2>3. First(rest) \in DOMAIN rest
    <3> HIDE DEF rest
    <3> QED BY <2>1, <2>2, FirstIsAccount
  <2> QED BY <1>1, <2>1, <2>3
<1>4. /\ w.accounts = rest /\ w.active = active
      /\ w.phrase = v.phrase /\ w.phraseLock = v.phraseLock /\ w.next = v.next
  BY <1>1 DEF WithoutAccount
<1>5. w \in [accounts : [S \ {a} -> AccountRecords], active : S \ {a},
             phrase : Phrases \cup {None}, phraseLock : Passwords \cup {None}, next : Nat]
  BY <1>1, <1>2, <1>3 DEF WithoutAccount
<1>6. IsWallet(w)
  BY <1>5 DEF IsWallet
<1>7. Sound(w)
  BY <1>4 DEF Sound, Derivable, Without
<1> QED BY <1>1, <1>3, <1>4, <1>6, <1>7

\* Removing its key from a session that mirrors the wallet.
LEMMA WithoutMirrors ==
  ASSUME NEW v, NEW w, NEW s, IsSession(s), Mirrors(s, v),
         NEW a, NEW active \in DOMAIN v.accounts \ {a},
         w.phrase = v.phrase, w.active = active, w.accounts = Without(v.accounts, a)
  PROVE  LET t == WithoutKey(s, a, active)
         IN IsSession(t) /\ t.network = s.network /\ Mirrors(t, w)
<1> DEFINE t == WithoutKey(s, a, active)
<1>1. PICK S \in SUBSET Addresses :
        s \in [network : Networks \cup {None}, keys : [S -> Addresses \cup {None}],
               active : S \cup {None}, phrase : Phrases \cup {None}]
  BY DEF IsSession
<1>2. S = DOMAIN v.accounts
  BY <1>1 DEF Mirrors
<1>3. Without(s.keys, a) \in [S \ {a} -> Addresses \cup {None}]
  BY <1>1 DEF Without
<1>4. /\ t.keys = Without(s.keys, a) /\ t.active = active /\ t.phrase = s.phrase
      /\ t.network = s.network
  BY <1>1 DEF WithoutKey
<1>5. t \in [network : Networks \cup {None}, keys : [S \ {a} -> Addresses \cup {None}],
             active : (S \ {a}) \cup {None}, phrase : Phrases \cup {None}]
  <2>1. active \in S \ {a}
    BY <1>2
  <2> QED BY <1>1, <1>3, <2>1 DEF WithoutKey
<1>6. IsSession(t)
  BY <1>5 DEF IsSession
<1>7. Mirrors(t, w)
  BY <1>4 DEF Mirrors, Without
<1> QED BY <1>4, <1>6, <1>7

-----------------------------------------------------------------------------
\* The steps

\* A handler that writes wallet w of network n and leaves the session locked, in step
\* with w, or that of another network.
LEMMA StoreStep ==
  ASSUME WalletIInv, NEW n \in Networks, NEW w, IsWallet(w), Sound(w),
         DOMAIN vault' = DOMAIN vault \cup {n}, vault'[n] = w,
         \A m \in DOMAIN vault \ {n} : vault'[m] = vault[m],
         config' \in [Networks -> Addresses \cup {None}], profile' = profile,
         IsSession(session'),
         \/ session'.network = n /\ Mirrors(session', w)
         \/ session' = session /\ ~Unlocked(n)
  PROVE  WalletIInv'
<1>1. \A m \in DOMAIN vault' : IsWallet(vault'[m]) /\ Sound(vault'[m])
  BY DEF WalletIInv, WalletTypeOK
<1>2. DOMAIN vault' \subseteq Networks
  BY DEF WalletIInv, WalletTypeOK
<1>3. SessionMirrorsVault'
  BY DEF WalletIInv, SessionMirrorsVault, Stored, Unlocked
<1>4. WalletTypeOK'
  BY <1>1, <1>2 DEF WalletIInv, WalletTypeOK
<1> QED BY <1>1, <1>3, <1>4 DEF WalletIInv

\* A handler that leaves the wallets alone, and unlocks or locks the session.
LEMMA SessionStep ==
  ASSUME WalletIInv, vault' = vault,
         config' \in [Networks -> Addresses \cup {None}],
         profile' \in [Networks -> Addresses \cup {None}],
         IsSession(session'),
         \/ session'.network = None
         \/ session' = session
         \/ \E n \in DOMAIN vault : session'.network = n /\ Mirrors(session', vault[n])
  PROVE  WalletIInv'
<1>1. SessionMirrorsVault'
  BY DEF WalletIInv, SessionMirrorsVault, Stored
<1> QED BY <1>1 DEF WalletIInv, WalletTypeOK

\* The producer address written beside a wallet.
LEMMA ConfigTyped ==
  ASSUME WalletIInv, NEW n, NEW a \in Addresses, SyncProducerConfig(n, a)
  PROVE  config' \in [Networks -> Addresses \cup {None}]
BY DEF WalletIInv, WalletTypeOK, SyncProducerConfig

LEMMA StepImport ==
  ASSUME WalletIInv, NEW n \in Networks, NEW a \in AddressesOf[n], NEW p \in Passwords,
         NEW phrase \in Phrases \cup {None}, NEW index \in Indexes \cup {None},
         WalletImport(n, a, p, phrase, index)
  PROVE  WalletIInv'
<1> DEFINE account == [kind |-> IF phrase = None THEN "imported-wif" ELSE "derived",
                       index |-> index, lock |-> p, at |-> 0]
           v == [accounts |-> [x \in {a} |-> account], active |-> a, phrase |-> phrase,
                 phraseLock |-> IF phrase = None THEN None ELSE p, next |-> 1]
<1>1. a \in Addresses
  BY AddressesOfNetworks
<1>2. IsWallet(v) /\ Sound(v)
  <2>1. account \in AccountRecords
    BY DEF AccountRecords, Kinds
  <2>2. v \in [accounts : [{a} -> AccountRecords], active : {a}, phrase : Phrases \cup {None},
               phraseLock : Passwords \cup {None}, next : Nat]
    <3> HIDE DEF account
    <3> QED BY <2>1
  <2>3. IsWallet(v)
    <3> HIDE DEF v
    <3> QED BY <1>1, <2>2 DEF IsWallet
  <2>4. p # None
    BY NoneIsNothing
  <2>5. Sound(v)
    BY <2>4 DEF Sound, Derivable
  <2> QED BY <2>3, <2>5
<1>3. vault' = Put(vault, n, v) /\ session' = SessionFrom(n, v) /\ profile' = profile
      /\ SyncProducerConfig(n, a)
  BY DEF WalletImport, SaveWallet
<1> HIDE DEF v
<1>4. IsSession(session') /\ session'.network = n /\ Mirrors(session', v)
  BY <1>2, <1>3, SessionFromMirrors
<1>5. /\ DOMAIN vault' = DOMAIN vault \cup {n} /\ vault'[n] = v
      /\ \A m \in DOMAIN vault \ {n} : vault'[m] = vault[m]
  BY <1>3 DEF Put
<1> QED BY <1>1, <1>2, <1>3, <1>4, <1>5, StoreStep, ConfigTyped

\* The session of network n mirrors its wallet.
LEMMA SessionOf ==
  ASSUME WalletIInv, NEW n \in Networks, Unlocked(n)
  PROVE  IsSession(session) /\ Mirrors(session, vault[n]) /\ session.network = n /\ n # None
BY NoneIsNothing DEF WalletIInv, WalletTypeOK, SessionMirrorsVault, Unlocked

LEMMA WalletOf ==
  ASSUME WalletIInv, NEW n \in Networks, Stored(n)
  PROVE  IsWallet(vault[n]) /\ Sound(vault[n])
BY DEF WalletIInv, WalletTypeOK, Stored

\* Adding an account, in the file and in the session.
LEMMA StepPut ==
  ASSUME WalletIInv, NEW n \in Networks, Stored(n),
         NEW a \in Addresses, NEW account \in AccountRecords, Derivable(vault[n], a, account),
         vault' = [vault EXCEPT ![n] = PutAccount(@, a, account)],
         PutKey(n, a, IF account.kind = "watch-only" THEN None ELSE a),
         config' \in [Networks -> Addresses \cup {None}], profile' = profile
  PROVE  WalletIInv'
<1> DEFINE w == PutAccount(vault[n], a, account)
<1>1. IsWallet(vault[n]) /\ Sound(vault[n])
  BY WalletOf
<1>2. /\ IsWallet(w) /\ Sound(w)
      /\ w.phrase = vault[n].phrase /\ w.active = a
      /\ w.accounts = Put(vault[n].accounts, a, account)
  BY <1>1, PutAccountWallet
<1> HIDE DEF w
<1>3. /\ DOMAIN vault' = DOMAIN vault \cup {n} /\ vault'[n] = w
      /\ \A m \in DOMAIN vault \ {n} : vault'[m] = vault[m]
  BY DEF Stored, w
<1>4. CASE Unlocked(n)
  <2>1. IsSession(session) /\ Mirrors(session, vault[n]) /\ session.network = n
    BY <1>4, SessionOf
  <2>2. session' = WithKey(session, a, IF account.kind = "watch-only" THEN None ELSE a)
    BY <1>4 DEF PutKey, WithKey
  <2>4. IsSession(session') /\ session'.network = session.network /\ Mirrors(session', w)
    BY <2>1, <2>2, <1>2, PutKeyMirrors
  <2> QED BY <1>2, <1>3, <2>1, <2>4, StoreStep
<1>5. CASE ~Unlocked(n)
  <2>1. session' = session
    BY <1>5 DEF PutKey
  <2>2. IsSession(session')
    BY <2>1 DEF WalletIInv, WalletTypeOK
  <2> QED BY <1>2, <1>3, <1>5, <2>1, <2>2, StoreStep
<1> QED BY <1>4, <1>5

LEMMA StepImportAccount ==
  ASSUME WalletIInv, NEW n \in Networks, NEW a \in AddressesOf[n], NEW p \in Passwords,
         WalletImportAccount(n, a, p)
  PROVE  WalletIInv'
<1> DEFINE account == [kind |-> "imported-wif", index |-> None, lock |-> p,
                       at |-> IF a \in Accounts(n) THEN vault[n].accounts[a].at ELSE vault[n].next]
<1>1. a \in Addresses /\ p # None
  BY AddressesOfNetworks, NoneIsNothing
<1>2. account \in AccountRecords
  <2>1. vault[n].next \in Nat /\ \A b \in Accounts(n) : vault[n].accounts[b].at \in Nat
    BY WalletOf DEF WalletImportAccount, ImportWalletAccount, IsWallet, Accounts, AccountRecords
  <2> QED BY <2>1 DEF AccountRecords, Kinds
<1>3. Derivable(vault[n], a, account)
  BY <1>1 DEF Derivable
<1>4. vault' = [vault EXCEPT ![n] = PutAccount(@, a, account)] /\ Stored(n) /\ profile' = profile
  BY DEF WalletImportAccount, ImportWalletAccount
<1>5. PutKey(n, a, IF account.kind = "watch-only" THEN None ELSE a)
  BY DEF WalletImportAccount, ImportWalletAccount
<1>6. config' \in [Networks -> Addresses \cup {None}]
  BY <1>1, ConfigTyped DEF WalletImportAccount, ImportWalletAccount
<1> HIDE DEF account
<1> QED BY <1>1, <1>2, <1>3, <1>4, <1>5, <1>6, StepPut

LEMMA StepWatchAccount ==
  ASSUME WalletIInv, NEW n \in Networks, NEW a \in AddressesOf[n],
         WalletImportWatchAccount(n, a)
  PROVE  WalletIInv'
<1> DEFINE account == [kind |-> "watch-only", index |-> None, lock |-> None, at |-> vault[n].next]
<1>1. a \in Addresses
  BY AddressesOfNetworks
<1>2. account \in AccountRecords
  <2>1. vault[n].next \in Nat
    BY WalletOf DEF WalletImportWatchAccount, ImportWatchWalletAccount, IsWallet
  <2> QED BY <2>1 DEF AccountRecords, Kinds
<1>3. Derivable(vault[n], a, account)
  BY DEF Derivable
<1>4. /\ vault' = [vault EXCEPT ![n] = PutAccount(@, a, account)]
      /\ Stored(n) /\ profile' = profile
      /\ PutKey(n, a, IF account.kind = "watch-only" THEN None ELSE a)
  BY DEF WalletImportWatchAccount, ImportWatchWalletAccount
<1>5. config' \in [Networks -> Addresses \cup {None}]
  BY DEF WalletImportWatchAccount, ImportWatchWalletAccount, WalletIInv, WalletTypeOK
<1> HIDE DEF account
<1> QED BY <1>1, <1>2, <1>3, <1>4, <1>5, StepPut

LEMMA StepDerivedAccount ==
  ASSUME WalletIInv, NEW n \in Networks, WalletCreateDerivedAccount(n)
  PROVE  WalletIInv'
<1> DEFINE i == NextIndex(vault[n])
           a == Derived[<<session.phrase, i>>]
           account == [kind |-> "derived", index |-> i, lock |-> None, at |-> vault[n].next]
<1>1. /\ vault' = [vault EXCEPT ![n] = PutAccount(@, a, account)]
      /\ Stored(n) /\ Unlocked(n) /\ profile' = profile /\ i \in Indexes
      /\ PutKey(n, a, a) /\ SyncProducerConfig(n, a) /\ vault[n].phrase # None
  BY DEF WalletCreateDerivedAccount
<1> HIDE DEF i
<1>2. session.phrase = vault[n].phrase /\ vault[n].phrase \in Phrases /\ vault[n].next \in Nat
  <2>1. session.phrase = vault[n].phrase
    BY <1>1, SessionOf DEF Mirrors
  <2>2. IsWallet(vault[n])
    BY <1>1, WalletOf
  <2> QED BY <1>1, <2>1, <2>2 DEF IsWallet
<1>3. a \in Addresses
  BY <1>1, <1>2, DerivedIsAddress
<1>4. account \in AccountRecords
  BY <1>1, <1>2 DEF AccountRecords, Kinds
<1>5. i # None
  BY <1>1, NoneIsNothing DEF Indexes
<1>6. Derivable(vault[n], a, account)
  BY <1>1, <1>2, <1>5 DEF Derivable
<1>7. PutKey(n, a, IF account.kind = "watch-only" THEN None ELSE a)
  BY <1>1
<1>8. config' \in [Networks -> Addresses \cup {None}]
  BY <1>1, <1>3, ConfigTyped
<1> HIDE DEF a, account
<1> QED BY <1>1, <1>3, <1>4, <1>6, <1>7, <1>8, StepPut

LEMMA StepSetActive ==
  ASSUME WalletIInv, NEW n \in Networks, NEW id, WalletSetActiveAccount(n, id)
  PROVE  WalletIInv'
<1> DEFINE a == Found(n, id)
           w == [vault[n] EXCEPT !.active = a]
<1>1. /\ Stored(n) /\ profile' = profile
      /\ vault' = [vault EXCEPT ![n] = w]
      /\ session' = IF ~Unlocked(n) THEN session
                    ELSE [session EXCEPT !.active =
                            IF a \in DOMAIN session.keys THEN a
                            ELSE CHOOSE b \in DOMAIN session.keys : TRUE]
      /\ IF HasKey(n, a) THEN SyncProducerConfig(n, a) ELSE UNCHANGED config
  BY DEF WalletSetActiveAccount, SetActiveWalletAccount
<1>2. IsWallet(vault[n]) /\ Sound(vault[n])
  BY <1>1, WalletOf
<1>3. PICK S \in SUBSET Addresses :
        vault[n] \in [accounts : [S -> AccountRecords], active : S, phrase : Phrases \cup {None},
                      phraseLock : Passwords \cup {None}, next : Nat]
  BY <1>2 DEF IsWallet
<1>4. a \in S
  BY <1>3 DEF Found, Accounts
<1> HIDE DEF a
<1>5. /\ w.accounts = vault[n].accounts /\ w.phrase = vault[n].phrase /\ w.active = a
      /\ IsWallet(w)
  <2>1. w \in [accounts : [S -> AccountRecords], active : S, phrase : Phrases \cup {None},
               phraseLock : Passwords \cup {None}, next : Nat]
    BY <1>3, <1>4
  <2>2. IsWallet(w)
    <3> HIDE DEF w
    <3> QED BY <2>1 DEF IsWallet
  <2> QED BY <1>3, <2>2
<1>6. Sound(w)
  BY <1>2, <1>5 DEF Sound, Derivable
<1> HIDE DEF w
<1>7. /\ DOMAIN vault' = DOMAIN vault \cup {n} /\ vault'[n] = w
      /\ \A m \in DOMAIN vault \ {n} : vault'[m] = vault[m]
  BY <1>1 DEF Stored
<1>8. config' \in [Networks -> Addresses \cup {None}]
  BY <1>1, <1>4, ConfigTyped DEF WalletIInv, WalletTypeOK
<1>9. CASE Unlocked(n)
  <2>1. IsSession(session) /\ Mirrors(session, vault[n]) /\ session.network = n
    BY <1>9, SessionOf
  <2>2. DOMAIN session.keys = S
    BY <1>3, <2>1 DEF Mirrors
  <2>3. session' = [session EXCEPT !.active = a]
    BY <1>1, <1>4, <1>9, <2>2
  <2>4. PICK T \in SUBSET Addresses :
          session \in [network : Networks \cup {None}, keys : [T -> Addresses \cup {None}],
                       active : T \cup {None}, phrase : Phrases \cup {None}]
    BY <2>1 DEF IsSession
  <2>5. session' \in [network : Networks \cup {None}, keys : [T -> Addresses \cup {None}],
                      active : T \cup {None}, phrase : Phrases \cup {None}]
    BY <1>4, <2>2, <2>3, <2>4
  <2>6. IsSession(session')
    BY <2>5 DEF IsSession
  <2>7. /\ session'.network = n /\ session'.active = a
        /\ session'.phrase = session.phrase /\ session'.keys = session.keys
    BY <2>1, <2>3, <2>4
  <2>8. Mirrors(session', w)
    BY <1>5, <2>1, <2>7 DEF Mirrors
  <2> QED BY <1>1, <1>5, <1>6, <1>7, <1>8, <2>6, <2>7, <2>8, StoreStep
<1>10. CASE ~Unlocked(n)
  <2>1. session' = session /\ IsSession(session')
    BY <1>1, <1>10 DEF WalletIInv, WalletTypeOK
  <2> QED BY <1>1, <1>5, <1>6, <1>7, <1>8, <1>10, <2>1, StoreStep
<1> QED BY <1>9, <1>10

LEMMA StepRemove ==
  ASSUME WalletIInv, NEW n \in Networks, NEW a, WalletRemoveAccount(n, a)
  PROVE  WalletIInv'
<1> DEFINE rest == Without(vault[n].accounts, a)
           active == ActiveWithout(n, a)
           w == WithoutAccount(vault[n], a, active)
<1>1. /\ Stored(n) /\ profile' = profile /\ config' = config
      /\ a \in DOMAIN vault[n].accounts /\ DOMAIN vault[n].accounts # {a}
      /\ vault' = [vault EXCEPT ![n] = w]
      /\ session' = IF ~Unlocked(n) THEN session
                    ELSE [session EXCEPT !.keys = Without(@, a),
                            !.active = IF active \in DOMAIN session.keys \ {a} THEN active
                                       ELSE CHOOSE b \in DOMAIN session.keys \ {a} : TRUE]
  BY DEF WalletRemoveAccount, RemoveWalletAccount, Accounts, WithoutAccount
<1>2. IsWallet(vault[n]) /\ Sound(vault[n])
  BY <1>1, WalletOf
<1>3. /\ IsWallet(w) /\ Sound(w)
      /\ w.phrase = vault[n].phrase /\ w.active = active /\ w.accounts = rest
      /\ active \in DOMAIN vault[n].accounts \ {a}
  <2>1. active = IF vault[n].active = a THEN First(Without(vault[n].accounts, a)) ELSE vault[n].active
    BY DEF ActiveWithout
  <2> HIDE DEF active
  <2> QED BY <1>1, <1>2, <2>1, WithoutWallet
<1> HIDE DEF w, active
<1>4. /\ DOMAIN vault' = DOMAIN vault \cup {n} /\ vault'[n] = w
      /\ \A m \in DOMAIN vault \ {n} : vault'[m] = vault[m]
  BY <1>1 DEF Stored
<1>5. config' \in [Networks -> Addresses \cup {None}]
  BY <1>1 DEF WalletIInv, WalletTypeOK
<1>6. CASE Unlocked(n)
  <2>1. IsSession(session) /\ Mirrors(session, vault[n]) /\ session.network = n
    BY <1>6, SessionOf
  <2>2. session' = WithoutKey(session, a, active)
    BY <1>1, <1>3, <1>6, <2>1 DEF Mirrors, WithoutKey
  <2>3. IsSession(session') /\ session'.network = session.network /\ Mirrors(session', w)
    BY <1>3, <2>1, <2>2, WithoutMirrors
  <2> QED BY <1>1, <1>3, <1>4, <1>5, <2>1, <2>3, StoreStep
<1>7. CASE ~Unlocked(n)
  <2>1. session' = session /\ IsSession(session')
    BY <1>1, <1>7 DEF WalletIInv, WalletTypeOK
  <2> QED BY <1>1, <1>3, <1>4, <1>5, <1>7, <2>1, StoreStep
<1> QED BY <1>6, <1>7

LEMMA StepDelete ==
  ASSUME WalletIInv, NEW n \in Networks, WalletDelete(n)
  PROVE  WalletIInv'
<1>1. /\ vault' = Without(vault, n) /\ config' = config
      /\ profile' \in {profile, [profile EXCEPT ![n] = None]}
      /\ session' = IF Unlocked(n) THEN Locked ELSE session
  BY DEF WalletDelete, DeleteWallet, ForgetSession
<1>2. profile' \in [Networks -> Addresses \cup {None}]
  BY <1>1 DEF WalletIInv, WalletTypeOK
<1>3. IsSession(session') /\ session'.network # n
  BY <1>1, LockedIsSession, NoneIsNothing DEF WalletIInv, WalletTypeOK, Unlocked
<1>4. /\ DOMAIN vault' = DOMAIN vault \ {n}
      /\ \A m \in DOMAIN vault' : vault'[m] = vault[m]
  BY <1>1 DEF Without
<1>5. WalletTypeOK' /\ \A m \in DOMAIN vault' : Sound(vault'[m])
  BY <1>1, <1>2, <1>3, <1>4 DEF WalletIInv, WalletTypeOK
<1>6. SessionMirrorsVault'
  <2>1. session'.network = None \/ session' = session
    BY <1>1, LockedIsSession
  <2> QED BY <1>3, <1>4, <2>1 DEF WalletIInv, SessionMirrorsVault, Stored
<1> QED BY <1>5, <1>6 DEF WalletIInv

LEMMA StepUnlock ==
  ASSUME WalletIInv, NEW n \in Networks, NEW p, WalletUnlock(n, p)
  PROVE  WalletIInv'
<1>1. /\ Stored(n) /\ session' = SessionFrom(n, vault[n])
      /\ vault' = vault /\ config' = config /\ profile' = profile
  BY DEF WalletUnlock
<1>2. IsSession(session') /\ session'.network = n /\ Mirrors(session', vault[n])
  BY <1>1, WalletOf, SessionFromMirrors
<1>3. /\ config' \in [Networks -> Addresses \cup {None}]
      /\ profile' \in [Networks -> Addresses \cup {None}]
  BY <1>1 DEF WalletIInv, WalletTypeOK
<1> QED BY <1>1, <1>2, <1>3, SessionStep DEF Stored

LEMMA StepLock ==
  ASSUME WalletIInv, vault' = vault, config' = config, profile' = profile,
         session' = Locked \/ session' = session
  PROVE  WalletIInv'
<1>1. IsSession(session') /\ (session'.network = None \/ session' = session)
  BY LockedIsSession DEF WalletIInv, WalletTypeOK
<1>2. /\ config' \in [Networks -> Addresses \cup {None}]
      /\ profile' \in [Networks -> Addresses \cup {None}]
  BY DEF WalletIInv, WalletTypeOK
<1> QED BY <1>1, <1>2, SessionStep

LEMMA StepSetProducer ==
  ASSUME WalletIInv, NEW n \in Networks, NEW id \in AddressesOf[n],
         WalletSetProducerAccount(n, id)
  PROVE  WalletIInv'
<1>1. /\ vault' = vault /\ session' = session /\ profile' = profile
      /\ config' \in [Networks -> Addresses \cup {None}]
  BY AddressesOfNetworks DEF WalletSetProducerAccount, WalletIInv, WalletTypeOK
<1>2. IsSession(session') /\ profile' \in [Networks -> Addresses \cup {None}]
  BY <1>1 DEF WalletIInv, WalletTypeOK
<1> QED BY <1>1, <1>2, SessionStep

-----------------------------------------------------------------------------
LEMMA WalletInitIInv == WalletInit => WalletIInv
<1> SUFFICES ASSUME WalletInit PROVE WalletIInv
  OBVIOUS
<1>1. DOMAIN vault = {} /\ session = Locked
  BY DEF WalletInit
<1>2. config \in [Networks -> Addresses \cup {None}] /\ profile \in [Networks -> Addresses \cup {None}]
  BY ProfilesOfNetworks DEF WalletInit
<1>3. IsSession(session) /\ session.network = None
  BY <1>1, LockedIsSession
<1> QED BY <1>1, <1>2, <1>3 DEF WalletIInv, WalletTypeOK, SessionMirrorsVault

\* Every handler but walletSetProducerAccount.
LEMMA AccountsStepIInv ==
  ASSUME WalletIInv, NEW n \in Networks, OnAccounts(n)
  PROVE  WalletIInv'
<1>1. CASE \E a \in AddressesOf[n], p \in Passwords, s \in Phrases \cup {None},
              i \in Indexes \cup {None} : WalletImport(n, a, p, s, i)
  BY <1>1, StepImport
<1>2. CASE \E id \in AddressesOf[n] \cup {None} : WalletSetActiveAccount(n, id)
  BY <1>2, StepSetActive
<1>3. CASE WalletCreateDerivedAccount(n)
  BY <1>3, StepDerivedAccount
<1>4. CASE \E a \in AddressesOf[n], p \in Passwords : WalletImportAccount(n, a, p)
  BY <1>4, StepImportAccount
<1>5. CASE \E a \in AddressesOf[n] : WalletImportWatchAccount(n, a)
  BY <1>5, StepWatchAccount
<1>6. CASE \E a \in AddressesOf[n] : WalletRemoveAccount(n, a)
  BY <1>6, StepRemove
<1>7. CASE WalletDelete(n)
  BY <1>7, StepDelete
<1>8. CASE WalletClose(n)
  BY <1>8, StepLock DEF WalletClose, ForgetSession
<1>9. CASE \E p \in Passwords : WalletUnlock(n, p)
  BY <1>9, StepUnlock
<1> QED BY <1>1, <1>2, <1>3, <1>4, <1>5, <1>6, <1>7, <1>8, <1>9 DEF OnAccounts

\* None of them changes the producer of mainnet.
LEMMA AccountsLeaveMainnet ==
  ASSUME WalletIInv, NEW n \in Networks, OnAccounts(n)
  PROVE  config'[Mainnet] = config[Mainnet]
<1>1. config \in [Networks -> Addresses \cup {None}]
  BY DEF WalletIInv, WalletTypeOK
<1>2. \A a : SyncProducerConfig(n, a) => config'[Mainnet] = config[Mainnet]
  BY <1>1, NetworksOfWallet DEF SyncProducerConfig
<1> QED BY <1>2 DEF OnAccounts, WalletImport, SaveWallet, WalletSetActiveAccount,
         SetActiveWalletAccount, WalletCreateDerivedAccount, WalletImportAccount,
         ImportWalletAccount, WalletImportWatchAccount, ImportWatchWalletAccount,
         WalletRemoveAccount, RemoveWalletAccount, ActiveWithout, WalletDelete, DeleteWallet,
         WalletClose, WalletUnlock

LEMMA WalletStepIInv == WalletIInv /\ [WalletNext]_walletVars => WalletIInv'
<1> SUFFICES ASSUME WalletIInv, [WalletNext]_walletVars PROVE WalletIInv'
  OBVIOUS
<1>1. CASE \E n \in Networks : OnNetwork(n)
  BY <1>1, AccountsStepIInv, StepSetProducer DEF OnNetwork
<1>2. CASE Relaunch
  BY <1>2, StepLock DEF Relaunch
<1>3. CASE UNCHANGED walletVars
  BY <1>3, StepLock DEF walletVars
<1> QED BY <1>1, <1>2, <1>3 DEF WalletNext

\* The wallet files, the session and the producer addresses keep their types; an active
\* account is an account of its wallet, in the file and in the session.
THEOREM WalletTypes == WalletSpec => []WalletTypeOK
<1>1. WalletIInv => WalletTypeOK
  BY DEF WalletIInv
<1> QED BY <1>1, WalletInitIInv, WalletStepIInv, PTL DEF WalletSpec

\* Whatever the handlers did, the session holds what unlocking the stored wallet of its
\* network would give.
THEOREM SessionMirrors == WalletSpec => []SessionMirrorsVault
<1>1. WalletIInv => SessionMirrorsVault
  BY DEF WalletIInv
<1> QED BY <1>1, WalletInitIInv, WalletStepIInv, PTL DEF WalletSpec

-----------------------------------------------------------------------------
(* Passwords *)

\* Putting an account into a wallet keeps the password of its seed phrase.
LEMMA PutAccountOpens ==
  ASSUME NEW v, IsWallet(v), NEW a, NEW account, NEW p,
         Opens(v, p), account.lock \in {p, None}
  PROVE  Opens(PutAccount(v, a, account), p)
<1> DEFINE w == PutAccount(v, a, account)
<1>1. /\ w.accounts = Put(v.accounts, a, account)
      /\ w.phrase = v.phrase /\ w.phraseLock = v.phraseLock
  BY DEF IsWallet, PutAccount
<1> QED BY <1>1 DEF Opens, Put

\* So does losing one, or another active account.
LEMMA FewerAccountsOpen ==
  ASSUME NEW v, NEW w, NEW p, Opens(v, p),
         w.phrase = v.phrase, w.phraseLock = v.phraseLock,
         DOMAIN w.accounts \subseteq DOMAIN v.accounts,
         \A a \in DOMAIN w.accounts : w.accounts[a] = v.accounts[a]
  PROVE  Opens(w, p)
BY DEF Opens

\* Another password was typed for the wallet of n.
OtherPassword(n, p) ==
  \E a \in AddressesOf[n], q \in Passwords \ {p} :
    \/ WalletImportAccount(n, a, q)
    \/ \E phrase \in Phrases \cup {None}, i \in Indexes \cup {None} :
         WalletImport(n, a, q, phrase, i)

\* A handler of network n leaves its wallet open to p.
LEMMA AccountsStepOpens ==
  ASSUME WalletIInv, NEW n \in Networks, OnAccounts(n), n \in DOMAIN vault',
         NEW p \in Passwords, Stored(n) => Opens(vault[n], p), ~OtherPassword(n, p)
  PROVE  Opens(vault'[n], p)
<1>1. ASSUME NEW a \in AddressesOf[n], NEW q \in Passwords, NEW s \in Phrases \cup {None},
             NEW i \in Indexes \cup {None}, WalletImport(n, a, q, s, i)
      PROVE  Opens(vault'[n], p)
  <2>1. q = p
    BY <1>1 DEF OtherPassword
  <2> DEFINE account == [kind |-> IF s = None THEN "imported-wif" ELSE "derived",
                         index |-> i, lock |-> q, at |-> 0]
  <2>2. vault'[n] = [accounts |-> [x \in {a} |-> account], active |-> a, phrase |-> s,
                     phraseLock |-> IF s = None THEN None ELSE q, next |-> 1]
    BY <1>1 DEF WalletImport, SaveWallet, Put
  <2> QED BY <2>1, <2>2 DEF Opens
<1>2. ASSUME NEW account, NEW a, Stored(n), account.lock \in {p, None},
             vault' = [vault EXCEPT ![n] = PutAccount(@, a, account)]
      PROVE  Opens(vault'[n], p)
  <2>1. vault'[n] = PutAccount(vault[n], a, account)
    BY <1>2 DEF Stored
  <2> QED BY <1>2, <2>1, WalletOf, PutAccountOpens
<1>3. ASSUME NEW w, Stored(n), vault' = [vault EXCEPT ![n] = w],
             w.phrase = vault[n].phrase, w.phraseLock = vault[n].phraseLock,
             DOMAIN w.accounts \subseteq DOMAIN vault[n].accounts,
             \A a \in DOMAIN w.accounts : w.accounts[a] = vault[n].accounts[a]
      PROVE  Opens(vault'[n], p)
  <2>1. vault'[n] = w
    BY <1>3 DEF Stored
  <2> QED BY <1>3, <2>1, FewerAccountsOpen
<1>4. ASSUME NEW id \in AddressesOf[n] \cup {None}, WalletSetActiveAccount(n, id)
      PROVE  Opens(vault'[n], p)
  <2> DEFINE w == [vault[n] EXCEPT !.active = Found(n, id)]
  <2>1. Stored(n) /\ vault' = [vault EXCEPT ![n] = w]
    BY <1>4 DEF WalletSetActiveAccount, SetActiveWalletAccount
  <2>2. w.accounts = vault[n].accounts /\ w.phrase = vault[n].phrase
        /\ w.phraseLock = vault[n].phraseLock
    BY <2>1, WalletOf DEF IsWallet
  <2> HIDE DEF w
  <2> QED BY <1>3, <2>1, <2>2
<1>5. ASSUME WalletCreateDerivedAccount(n) PROVE Opens(vault'[n], p)
  <2> DEFINE i == NextIndex(vault[n])
             a == Derived[<<session.phrase, i>>]
             account == [kind |-> "derived", index |-> i, lock |-> None, at |-> vault[n].next]
  <2>1. Stored(n) /\ vault' = [vault EXCEPT ![n] = PutAccount(@, a, account)]
    BY <1>5 DEF WalletCreateDerivedAccount
  <2>2. account.lock = None
    OBVIOUS
  <2> HIDE DEF a, account
  <2> QED BY <1>2, <2>1, <2>2
<1>6. ASSUME NEW a \in AddressesOf[n], NEW q \in Passwords, WalletImportAccount(n, a, q)
      PROVE  Opens(vault'[n], p)
  <2> DEFINE account == [kind |-> "imported-wif", index |-> None, lock |-> q,
                         at |-> IF a \in Accounts(n) THEN vault[n].accounts[a].at
                                ELSE vault[n].next]
  <2>1. Stored(n) /\ vault' = [vault EXCEPT ![n] = PutAccount(@, a, account)]
    BY <1>6 DEF WalletImportAccount, ImportWalletAccount
  <2>2. account.lock = p
    BY <1>6 DEF OtherPassword
  <2> HIDE DEF account
  <2> QED BY <1>2, <2>1, <2>2
<1>7. ASSUME NEW a \in AddressesOf[n], WalletImportWatchAccount(n, a) PROVE Opens(vault'[n], p)
  <2> DEFINE account == [kind |-> "watch-only", index |-> None, lock |-> None,
                         at |-> vault[n].next]
  <2>1. Stored(n) /\ vault' = [vault EXCEPT ![n] = PutAccount(@, a, account)]
    BY <1>7 DEF WalletImportWatchAccount, ImportWatchWalletAccount
  <2>2. account.lock = None
    OBVIOUS
  <2> HIDE DEF account
  <2> QED BY <1>2, <2>1, <2>2
<1>8. ASSUME NEW a \in AddressesOf[n], WalletRemoveAccount(n, a) PROVE Opens(vault'[n], p)
  <2> DEFINE w == WithoutAccount(vault[n], a, ActiveWithout(n, a))
  <2>1. Stored(n) /\ vault' = [vault EXCEPT ![n] = w]
    BY <1>8 DEF WalletRemoveAccount, RemoveWalletAccount, WithoutAccount
  <2>2. w.accounts = Without(vault[n].accounts, a) /\ w.phrase = vault[n].phrase
        /\ w.phraseLock = vault[n].phraseLock
    BY <2>1, WalletOf DEF IsWallet, WithoutAccount
  <2> HIDE DEF w
  <2> QED BY <1>3, <2>1, <2>2 DEF Without
<1>9. ASSUME WalletClose(n) \/ \E q \in Passwords : WalletUnlock(n, q)
      PROVE  Opens(vault'[n], p)
  BY <1>9 DEF WalletClose, WalletUnlock
<1>10. ~WalletDelete(n)
  BY DEF WalletDelete, DeleteWallet, Without
<1> QED BY <1>1, <1>4, <1>5, <1>6, <1>7, <1>8, <1>9, <1>10 DEF OnAccounts

\* And it leaves the wallets of the other networks alone.
LEMMA OtherWallets ==
  ASSUME WalletIInv, NEW n \in Networks, OnNetwork(n), NEW m \in DOMAIN vault', m # n
  PROVE  Stored(m) /\ vault'[m] = vault[m]
BY DEF OnNetwork, OnAccounts, WalletImport, SaveWallet, Put, Without, WalletSetActiveAccount,
   SetActiveWalletAccount, WalletCreateDerivedAccount, WalletImportAccount, ImportWalletAccount,
   WalletImportWatchAccount, ImportWatchWalletAccount, WalletRemoveAccount, RemoveWalletAccount,
   ActiveWithout, WalletDelete, DeleteWallet, WalletClose, WalletUnlock,
   WalletSetProducerAccount, Stored

\* What a step stores opens with p, unless it did not before or another password was typed.
LEMMA StepOpens ==
  ASSUME WalletIInv, [WalletNext]_walletVars, NEW n \in DOMAIN vault', NEW p \in Passwords,
         Stored(n) => Opens(vault[n], p), ~OtherPassword(n, p)
  PROVE  Opens(vault'[n], p)
<1>1. CASE \E m \in Networks : OnNetwork(m)
  <2> PICK m \in Networks : OnNetwork(m)
    BY <1>1
  <2>1. CASE m = n
    <3>1. CASE OnAccounts(n)
      BY <2>1, <3>1, AccountsStepOpens
    <3>2. CASE \E id \in AddressesOf[n] : WalletSetProducerAccount(n, id)
      BY <3>2 DEF WalletSetProducerAccount
    <3> QED BY <2>1, <3>1, <3>2 DEF OnNetwork
  <2>2. CASE m # n
    BY <2>2, OtherWallets
  <2> QED BY <2>1, <2>2
<1>2. CASE Relaunch \/ UNCHANGED walletVars
  BY <1>2 DEF Relaunch, walletVars, Stored
<1> QED BY <1>1, <1>2 DEF WalletNext

LEMMA PasswordStep ==
  ASSUME WalletIInv, [WalletNext]_walletVars, NEW n \in Networks, NEW p \in Passwords,
         Stored(n), n \in DOMAIN vault', Opens(vault[n], p), ~Opens(vault'[n], p)
  PROVE  \E a \in AddressesOf[n], q \in Passwords \ {p} :
           \/ WalletImportAccount(n, a, q)
           \/ \E phrase \in Phrases \cup {None}, i \in Indexes \cup {None} :
                WalletImport(n, a, q, phrase, i)
BY StepOpens DEF OtherPassword

\* Only a key imported, or a wallet stored anew, under another password makes a password stop
\* unlocking the wallet it unlocked.
THEOREM PasswordsAreKept == WalletSpec => PasswordKept
<1>1. WalletIInv /\ [WalletNext]_walletVars =>
        [\A n \in Networks, p \in Passwords :
           Stored(n) /\ n \in DOMAIN vault' /\ Opens(vault[n], p) /\ ~Opens(vault'[n], p) =>
             \E a \in AddressesOf[n], q \in Passwords \ {p} :
               \/ WalletImportAccount(n, a, q)
               \/ \E phrase \in Phrases \cup {None}, i \in Indexes \cup {None} :
                    WalletImport(n, a, q, phrase, i)]_walletVars
  BY PasswordStep
<1> QED BY <1>1, WalletInitIInv, WalletStepIInv, PTL DEF WalletSpec, PasswordKept

\* Whoever only ever types one password is never locked out of a wallet stored with it, though
\* importWalletAccount does not compare the password it is given.
THEOREM OnePasswordOpensAll ==
  ASSUME \A p, q \in Passwords : p = q
  PROVE  WalletSpec => []PasswordOpens
<1>1. WalletInit => PasswordOpens
  BY DEF WalletInit, PasswordOpens
<1>2. WalletIInv /\ PasswordOpens /\ [WalletNext]_walletVars => PasswordOpens'
  <2> SUFFICES ASSUME WalletIInv, PasswordOpens, [WalletNext]_walletVars,
                      NEW n \in DOMAIN vault', NEW p \in Passwords
               PROVE  Opens(vault'[n], p)
    BY DEF PasswordOpens, Opens
  <2>1. ~OtherPassword(n, p)
    BY DEF OtherPassword
  <2>2. Stored(n) => Opens(vault[n], p)
    BY DEF PasswordOpens, Stored
  <2> QED BY <2>1, <2>2, StepOpens
<1> QED BY <1>1, <1>2, WalletInitIInv, WalletStepIInv, PTL DEF WalletSpec

-----------------------------------------------------------------------------
(* The producer address *)

\* A producer address that a step writes for network n belongs to the wallet stored for n.
WriteIsOwned(n) ==
  config'[n] # config[n] =>
    /\ n \in DOMAIN vault'
    /\ config'[n] \in DOMAIN vault'[n].accounts
    /\ vault'[n].accounts[config'[n]].kind # "watch-only"
    /\ n = Mainnet => config'[n] \notin Protected /\ vault' = vault

\* A handler that stores account a, which can sign, and writes it for its network.
LEMMA SyncIsOwned ==
  ASSUME WalletIInv, NEW n \in Networks, NEW a, SyncProducerConfig(n, a),
         n \in DOMAIN vault', a \in DOMAIN vault'[n].accounts,
         vault'[n].accounts[a].kind # "watch-only", NEW m \in Networks
  PROVE  WriteIsOwned(m)
BY DEF SyncProducerConfig, WriteIsOwned, WalletIInv, WalletTypeOK

\* A handler that puts an account into the wallet of n.
LEMMA PutIsStored ==
  ASSUME NEW n \in DOMAIN vault, IsWallet(vault[n]), NEW a, NEW account,
         vault' = [vault EXCEPT ![n] = PutAccount(@, a, account)]
  PROVE  /\ n \in DOMAIN vault' /\ a \in DOMAIN vault'[n].accounts
         /\ vault'[n].accounts[a] = account
<1> DEFINE w == PutAccount(vault[n], a, account)
<1>1. w.accounts = Put(vault[n].accounts, a, account)
  BY DEF IsWallet, PutAccount
<1>2. n \in DOMAIN vault' /\ vault'[n] = w
  OBVIOUS
<1> HIDE DEF w
<1> QED BY <1>1, <1>2 DEF Put

LEMMA AccountsWriteOwned ==
  ASSUME WalletIInv, NEW n \in Networks, OnAccounts(n), NEW m \in Networks
  PROVE  WriteIsOwned(m)
<1>1. ASSUME NEW a \in AddressesOf[n], NEW q \in Passwords, NEW s \in Phrases \cup {None},
             NEW i \in Indexes \cup {None}, WalletImport(n, a, q, s, i)
      PROVE  WriteIsOwned(m)
  <2> DEFINE account == [kind |-> IF s = None THEN "imported-wif" ELSE "derived",
                         index |-> i, lock |-> q, at |-> 0]
  <2>1. /\ n \in DOMAIN vault'
        /\ vault'[n] = [accounts |-> [x \in {a} |-> account], active |-> a, phrase |-> s,
                        phraseLock |-> IF s = None THEN None ELSE q, next |-> 1]
    BY <1>1 DEF WalletImport, SaveWallet, Put
  <2>2. a \in DOMAIN vault'[n].accounts /\ vault'[n].accounts[a].kind # "watch-only"
    BY <2>1
  <2> QED BY <1>1, <2>1, <2>2, SyncIsOwned DEF WalletImport
<1>2. ASSUME NEW id \in AddressesOf[n] \cup {None}, WalletSetActiveAccount(n, id)
      PROVE  WriteIsOwned(m)
  <2> DEFINE a == Found(n, id)
             w == [vault[n] EXCEPT !.active = a]
  <2>1. /\ Stored(n) /\ vault' = [vault EXCEPT ![n] = w]
        /\ IF HasKey(n, a) THEN SyncProducerConfig(n, a) ELSE UNCHANGED config
    BY <1>2 DEF WalletSetActiveAccount, SetActiveWalletAccount
  <2>2. a \in DOMAIN vault[n].accounts /\ w.accounts = vault[n].accounts
    BY <2>1, WalletOf DEF IsWallet, Found, Accounts
  <2> HIDE DEF a, w
  <2>3. /\ n \in DOMAIN vault' /\ vault'[n].accounts = vault[n].accounts
    BY <2>1, <2>2 DEF Stored
  <2>4. CASE HasKey(n, a)
    BY <2>1, <2>2, <2>3, <2>4, SyncIsOwned DEF HasKey
  <2>5. CASE ~HasKey(n, a)
    BY <2>1, <2>5 DEF WriteIsOwned
  <2> QED BY <2>4, <2>5
<1>3. ASSUME WalletCreateDerivedAccount(n) PROVE WriteIsOwned(m)
  <2> DEFINE i == NextIndex(vault[n])
             a == Derived[<<session.phrase, i>>]
             account == [kind |-> "derived", index |-> i, lock |-> None, at |-> vault[n].next]
  <2>1. /\ Stored(n) /\ vault' = [vault EXCEPT ![n] = PutAccount(@, a, account)]
        /\ SyncProducerConfig(n, a)
    BY <1>3 DEF WalletCreateDerivedAccount
  <2>2. account.kind # "watch-only"
    OBVIOUS
  <2> HIDE DEF a, account
  <2>3. n \in DOMAIN vault' /\ a \in DOMAIN vault'[n].accounts /\ vault'[n].accounts[a] = account
    BY <2>1, WalletOf, PutIsStored DEF Stored
  <2> QED BY <2>1, <2>2, <2>3, SyncIsOwned
<1>4. ASSUME NEW a \in AddressesOf[n], NEW q \in Passwords, WalletImportAccount(n, a, q)
      PROVE  WriteIsOwned(m)
  <2> DEFINE account == [kind |-> "imported-wif", index |-> None, lock |-> q,
                         at |-> IF a \in Accounts(n) THEN vault[n].accounts[a].at
                                ELSE vault[n].next]
  <2>1. /\ Stored(n) /\ vault' = [vault EXCEPT ![n] = PutAccount(@, a, account)]
        /\ SyncProducerConfig(n, a)
    BY <1>4 DEF WalletImportAccount, ImportWalletAccount
  <2>2. account.kind # "watch-only"
    OBVIOUS
  <2> HIDE DEF account
  <2>3. n \in DOMAIN vault' /\ a \in DOMAIN vault'[n].accounts /\ vault'[n].accounts[a] = account
    BY <2>1, WalletOf, PutIsStored DEF Stored
  <2> QED BY <2>1, <2>2, <2>3, SyncIsOwned
<1>5. ASSUME config' = config PROVE WriteIsOwned(m)
  BY <1>5 DEF WriteIsOwned
<1>6. CASE \/ \E a \in AddressesOf[n] : WalletImportWatchAccount(n, a)
           \/ \E a \in AddressesOf[n] : WalletRemoveAccount(n, a)
           \/ WalletDelete(n) \/ WalletClose(n) \/ \E p \in Passwords : WalletUnlock(n, p)
  BY <1>5, <1>6 DEF WalletImportWatchAccount, WalletRemoveAccount, WalletDelete, WalletClose,
                    WalletUnlock
<1> QED BY <1>1, <1>2, <1>3, <1>4, <1>6 DEF OnAccounts

\* A producer address is written only as that of a stored account that can sign, and into the
\* configuration of mainnet by walletSetProducerAccount alone, never a protected one.
THEOREM ProducerAddressesAreOwned == WalletSpec => ProducerAddressOwned
<1>1. WalletIInv /\ [WalletNext]_walletVars => [\A n \in Networks : WriteIsOwned(n)]_walletVars
  <2> SUFFICES ASSUME WalletIInv, WalletNext, NEW m \in Networks PROVE WriteIsOwned(m)
    OBVIOUS
  <2>1. ASSUME NEW n \in Networks, NEW id \in AddressesOf[n], WalletSetProducerAccount(n, id)
        PROVE  WriteIsOwned(m)
    <3>1. /\ n \in DOMAIN vault /\ id \in DOMAIN vault[n].accounts /\ vault' = vault
          /\ vault[n].accounts[id].kind # "watch-only"
          /\ ~(n = Mainnet /\ id \in Protected) /\ config' = [config EXCEPT ![n] = id]
      BY <2>1 DEF WalletSetProducerAccount, Stored, Accounts, HasKey
    <3> QED BY <3>1 DEF WriteIsOwned, WalletIInv, WalletTypeOK
  <2>2. CASE Relaunch
    BY <2>2 DEF Relaunch, WriteIsOwned
  <2> QED BY <2>1, <2>2, AccountsWriteOwned DEF WalletNext, OnNetwork
<1> QED BY <1>1, WalletInitIInv, WalletStepIInv, PTL
        DEF WalletSpec, ProducerAddressOwned, WriteIsOwned

-----------------------------------------------------------------------------
(* Transactions *)

\* A transaction's own steps leave the wallets alone, but for the unlocking at its beginning.
LEMMA TransactionStepIsWalletStep ==
  [TransactionNext]_txVars => [WalletNext]_walletVars
<1> SUFFICES ASSUME [TransactionNext]_txVars PROVE [WalletNext]_walletVars
  OBVIOUS
<1>1. CASE \E n \in Networks : \E id \in AddressesOf[n] \cup {None}, p \in Passwords \cup {None},
             burn, dry, free \in BOOLEAN : \E burnAccountOnly \in {FALSE, burn} :
               BeginTransaction(n, id, p, burn, dry, free, burnAccountOnly)
  <2>1. PICK n \in Networks, p \in Passwords \cup {None} :
          /\ Stored(n) /\ SessionFor(n, p) # Locked /\ session' = SessionFor(n, p)
          /\ UNCHANGED <<vault, config, profile>>
    BY <1>1 DEF BeginTransaction
  <2>2. CASE Unlocked(n)
    BY <2>1, <2>2 DEF SessionFor, walletVars
  <2>3. CASE ~Unlocked(n)
    <3>1. p \in Passwords /\ WalletUnlock(n, p)
      BY <2>1, <2>3 DEF SessionFor, WalletUnlock
    <3> QED BY <3>1 DEF WalletNext, OnNetwork, OnAccounts
  <2> QED BY <2>2, <2>3
<1>2. CASE \/ Read \/ Prepare \/ Metered \/ Estimated \/ Sponsored \/ SponsorRetried
           \/ Refused \/ Sent \/ Waited \/ Reread
  BY <1>2 DEF Read, Prepare, Metered, Estimated, Sponsored, SponsorRetried, Refused, Sent, Waited,
       Reread, Step
<1>3. CASE (\E n \in Networks : OnNetwork(n)) /\ UNCHANGED tx
  BY <1>3 DEF WalletNext
<1>4. CASE RelaunchIdle
  BY <1>4 DEF RelaunchIdle, WalletNext
<1>5. CASE UNCHANGED txVars
  BY <1>5 DEF txVars
<1> QED BY <1>1, <1>2, <1>3, <1>4, <1>5 DEF TransactionNext

\* Beside transactions the wallets behave as WalletVault says.
THEOREM TransactionsKeepWallets == TransactionSpec => WalletSpec
<1>1. TransactionInit => WalletInit
  BY DEF TransactionInit
<1> QED BY <1>1, TransactionStepIsWalletStep, PTL DEF TransactionSpec, WalletSpec

\* Whatever wallets are opened, closed, deleted and replaced beside it, a transaction is signed
\* by an account with a stored key of the wallet of its own network.
THEOREM SignersAreOfTheNetwork == TransactionSpec => NetworkSigns
<1> DEFINE Signs == tx.pc = "done" /\ tx'.pc = "reading" =>
                      /\ tx'.signer \in Accounts(tx'.network)
                      /\ HasKey(tx'.network, tx'.signer)
<1>1. WalletIInv /\ [TransactionNext]_txVars => [Signs]_txVars
  <2> SUFFICES ASSUME WalletIInv, TransactionNext, tx.pc = "done", tx'.pc = "reading"
               PROVE  Signs
    BY DEF txVars
  <2>1. \E n \in Networks : \E id, p, burn, dry, free, burnAccountOnly :
          BeginTransaction(n, id, p, burn, dry, free, burnAccountOnly)
    <3>a. \A from, t : Step(from, t) => from = "done"
      BY DEF Step
    <3>1. ~(\/ Read \/ Prepare \/ Metered \/ Estimated \/ Sponsored \/ SponsorRetried
            \/ Refused \/ Sent \/ Waited \/ Reread)
      BY <3>a DEF Read, Prepare, Metered, Estimated, Sponsored, SponsorRetried, Refused, Sent,
         Waited, Reread, Steps
    <3>2. ~RelaunchIdle
      BY DEF RelaunchIdle, Done
    <3>3. ~((\E n \in Networks : OnNetwork(n)) /\ UNCHANGED tx)
      OBVIOUS
    <3> QED BY <3>1, <3>2, <3>3 DEF TransactionNext
  <2> PICK n \in Networks : \E id, p, burn, dry, free, burnAccountOnly :
          BeginTransaction(n, id, p, burn, dry, free, burnAccountOnly)
    BY <2>1
  <2> PICK id, p, burn, dry, free, burnAccountOnly :
          BeginTransaction(n, id, p, burn, dry, free, burnAccountOnly)
    OBVIOUS
  <2> DEFINE s == SessionFor(n, p)
             signer == SignerOf(s, id)
  <2>2. Stored(n) /\ s # Locked /\ s.keys[signer] # None
        /\ tx'.signer = signer /\ tx'.network = n
    <3>1. [Done(tx, FALSE) EXCEPT !.network = n, !.burn = burn, !.dry = dry, !.sent = "no"].pc
            = "done"
      BY DEF Done
    <3>2. tx' # [Done(tx, FALSE) EXCEPT !.network = n, !.burn = burn, !.dry = dry, !.sent = "no"]
      BY <3>1
    <3>3. /\ Stored(n) /\ s # Locked /\ s.keys[signer] # None
          /\ tx' = [pc |-> "reading", network |-> n, signer |-> signer, burn |-> burn, dry |-> dry,
                    free |-> free, header |-> NoHeader, tried |-> NoHeader, sent |-> "no",
                    ok |-> FALSE]
      BY <3>2 DEF BeginTransaction
    <3> QED BY <3>3
  <2>3. IsWallet(vault[n]) /\ Sound(vault[n])
    BY <2>2, WalletOf
  <2>4. Mirrors(s, vault[n])
    <3>1. CASE Unlocked(n)
      BY <3>1, SessionOf DEF SessionFor
    <3>2. CASE ~Unlocked(n)
      BY <2>2, <2>3, <3>2, SessionFromMirrors DEF SessionFor
    <3> QED BY <3>1, <3>2
  <2>5. vault[n].active \in DOMAIN vault[n].accounts
    BY <2>3 DEF IsWallet
  <2> HIDE DEF s
  <2>6. signer \in DOMAIN vault[n].accounts
    BY <2>4, <2>5 DEF Mirrors, SignerOf
  <2>7. vault[n].accounts[signer].kind # "watch-only"
    BY <2>2, <2>4, <2>6 DEF Mirrors
  <2> QED BY <2>2, <2>6, <2>7 DEF Accounts, HasKey
<1> QED BY <1>1, WalletInitIInv, WalletStepIInv, TransactionStepIsWalletStep, PTL
        DEF TransactionSpec, TransactionInit, NetworkSigns

-----------------------------------------------------------------------------
\* What the steps of a transaction keep: where it stands decides what can have been sent.
TransactionIInv ==
  /\ TransactionTypeOK
  /\ tx.pc \in {"waiting", "rereading"} => tx.sent = "accepted" /\ ~tx.dry
  /\ tx.pc \in Steps \ {"waiting", "rereading"} => tx.sent = "no"
  /\ tx.pc = "sending" => ~tx.dry
  /\ tx.pc \in {"preparing"} => ~tx.free
  /\ tx.pc = "rereading" => tx.burn
  /\ tx.pc = "sponsoring" => tx.header.payer = "sharer"
  /\ SentAsTried
  /\ AnswersTruthful

\* A request that ends.
LEMMA DoneIInv ==
  ASSUME TransactionTypeOK, NEW t, NEW ok \in BOOLEAN, tx' = Done(t, ok),
         t.network \in Networks, t.burn \in BOOLEAN, t.dry \in BOOLEAN,
         t.sent \in {"no", "accepted", "unknown"},
         t.dry => t.sent = "no",
         IF ok THEN t.dry \/ t.sent = "accepted" ELSE t.sent = "accepted" => t.burn
  PROVE  TransactionIInv'
<1>1. TransactionTypeOK'
  BY AttemptsOfFreeMana DEF TransactionTypeOK, Done, NoHeader, Headers
<1> QED BY <1>1 DEF TransactionIInv, Done, SentAsTried, AnswersTruthful, Steps

LEMMA TransactionInitIInv == TransactionInit => TransactionIInv
<1> SUFFICES ASSUME TransactionInit PROVE TransactionIInv
  OBVIOUS
<1>1. TransactionTypeOK
  BY AttemptsOfFreeMana, NetworksOfWallet DEF TransactionInit, TransactionTypeOK, NoHeader, Headers
<1> QED BY <1>1 DEF TransactionInit, TransactionIInv, SentAsTried, AnswersTruthful, Steps

LEMMA TransactionStepIInv ==
  WalletIInv /\ TransactionIInv /\ [TransactionNext]_txVars => TransactionIInv'
<1> SUFFICES ASSUME WalletIInv, TransactionIInv, [TransactionNext]_txVars PROVE TransactionIInv'
  OBVIOUS
<1> USE DEF TransactionIInv
<1>1. TransactionTypeOK
  OBVIOUS
<1>2. CASE \E n \in Networks : \E id \in AddressesOf[n] \cup {None}, p \in Passwords \cup {None},
              burn, dry, free \in BOOLEAN : \E burnAccountOnly \in {FALSE, burn} :
                BeginTransaction(n, id, p, burn, dry, free, burnAccountOnly)
  <2> PICK n \in Networks : \E id \in AddressesOf[n] \cup {None}, p \in Passwords \cup {None},
        burn, dry, free \in BOOLEAN : \E burnAccountOnly \in {FALSE, burn} :
          BeginTransaction(n, id, p, burn, dry, free, burnAccountOnly)
    BY <1>2
  <2> PICK id \in AddressesOf[n] \cup {None}, p \in Passwords \cup {None}, burn \in BOOLEAN,
        dry \in BOOLEAN, free \in BOOLEAN : \E burnAccountOnly \in {FALSE, burn} :
          BeginTransaction(n, id, p, burn, dry, free, burnAccountOnly)
    OBVIOUS
  <2>a. PICK burnAccountOnly \in {FALSE, burn} :
          BeginTransaction(n, id, p, burn, dry, free, burnAccountOnly)
    OBVIOUS
  <2> DEFINE signer == SignerOf(SessionFor(n, p), id)
             t == [pc |-> "reading", network |-> n, signer |-> signer, burn |-> burn, dry |-> dry,
                   free |-> free, header |-> NoHeader, tried |-> NoHeader, sent |-> "no",
                   ok |-> FALSE]
  <2>1. tx' = t \/ tx' = [Done(tx, FALSE) EXCEPT !.network = n, !.burn = burn, !.dry = dry,
                                                 !.sent = "no"]
    BY <2>a DEF BeginTransaction
  <2>2. CASE tx' = t
    <3>1. signer \in Addresses \cup {None}
      <4>1. IsSession(SessionFor(n, p))
        <5>1. Stored(n)
          BY <2>a DEF BeginTransaction
        <5> QED BY <5>1, WalletOf, SessionFromMirrors, LockedIsSession
                DEF SessionFor, WalletIInv, WalletTypeOK
      <4> QED BY <4>1 DEF SignerOf, IsSession
    <3> HIDE DEF signer
    <3>2. TransactionTypeOK'
      BY <2>2, <3>1, AttemptsOfFreeMana DEF TransactionTypeOK, NoHeader, Headers, Steps
    <3> QED BY <2>2, <3>2 DEF SentAsTried, AnswersTruthful, Steps
  <2>3. CASE tx' = [Done(tx, FALSE) EXCEPT !.network = n, !.burn = burn, !.dry = dry, !.sent = "no"]
    <3>1. tx' = Done([network |-> n, burn |-> burn, dry |-> dry, sent |-> "no"], FALSE)
      BY <2>3 DEF Done
    <3> DEFINE r == [network |-> n, burn |-> burn, dry |-> dry, sent |-> "no"]
    <3>2. r.network \in Networks /\ r.burn \in BOOLEAN /\ r.dry \in BOOLEAN /\ r.sent = "no"
      OBVIOUS
    <3> HIDE DEF r
    <3> QED BY <1>1, <3>1, <3>2, DoneIInv DEF r
  <2> QED BY <2>1, <2>2, <2>3
<1>3. CASE Read
  <2>1. TransactionTypeOK'
    BY <1>3 DEF Read, Step, TransactionTypeOK, Steps
  <2> QED BY <1>3, <2>1 DEF Read, Step, SentAsTried, AnswersTruthful, Steps, TransactionTypeOK
<1>4. CASE Prepare
  <2>1. CASE tx.dry
    <3>1. tx' = Done(tx, TRUE)
      BY <1>4, <2>1 DEF Prepare, Step, Prepared
    <3> QED BY <1>4, <2>1, <3>1, DoneIInv DEF Prepare, Step, TransactionTypeOK, AnswersTruthful, Steps
  <2>2. CASE ~tx.dry
    <3>1. tx' = [tx EXCEPT !.pc = "sending"] /\ tx.pc = "preparing"
      BY <1>4, <2>2 DEF Prepare, Step, Prepared
    <3>2. TransactionTypeOK'
      BY <3>1 DEF TransactionTypeOK, Steps
    <3> QED BY <2>2, <3>1, <3>2 DEF SentAsTried, AnswersTruthful, Steps, TransactionTypeOK
  <2> QED BY <2>1, <2>2
<1>a. \A payer \in {"self", "meter", "sharer"} : [payer |-> payer, limit |-> 0] \in Headers
  BY AttemptsOfFreeMana DEF Headers
<1>5. CASE Metered
  <2>1. TransactionTypeOK'
    BY <1>5, <1>a DEF Metered, Step, TransactionTypeOK, Steps
  <2> QED BY <1>5, <2>1 DEF Metered, Step, SentAsTried, AnswersTruthful, Steps, TransactionTypeOK
<1>6. CASE Estimated
  <2>1. TransactionTypeOK'
    BY <1>6, <1>a DEF Estimated, Step, TransactionTypeOK, Steps
  <2> QED BY <1>6, <2>1 DEF Estimated, Step, SentAsTried, AnswersTruthful, Steps, TransactionTypeOK
<1>7. CASE Sponsored
  <2> DEFINE t == [tx EXCEPT !.tried = tx.header]
  <2>1. /\ tx.pc = "sponsoring" /\ tx' = Prepared(t)
        /\ t.network = tx.network /\ t.burn = tx.burn /\ t.dry = tx.dry /\ t.sent = tx.sent
    BY <1>7 DEF Sponsored, Step, TransactionTypeOK
  <2>2. CASE tx.dry
    <3>1. tx' = Done(t, TRUE)
      BY <2>1, <2>2 DEF Prepared
    <3> HIDE DEF t
    <3> QED BY <2>1, <2>2, <3>1, DoneIInv DEF TransactionTypeOK, AnswersTruthful, Steps
  <2>3. CASE ~tx.dry
    <3>1. tx' = [tx EXCEPT !.tried = tx.header, !.pc = "sending"]
      BY <2>1, <2>3 DEF Prepared
    <3>2. TransactionTypeOK'
      BY <3>1 DEF TransactionTypeOK, Steps
    <3> QED BY <2>1, <2>3, <3>1, <3>2 DEF SentAsTried, AnswersTruthful, Steps, TransactionTypeOK
  <2> QED BY <2>2, <2>3
<1>8. CASE SponsorRetried
  <2>1. tx.header \in Headers
    BY DEF TransactionTypeOK
  <2> DEFINE h == [tx.header EXCEPT !.limit = tx.header.limit + 1]
  <2>2. h \in Headers /\ h.payer = tx.header.payer
    BY <1>8, <2>1, AttemptsOfFreeMana DEF SponsorRetried, Headers
  <2>3. /\ tx.pc = "sponsoring" /\ tx' = [tx EXCEPT !.tried = tx.header, !.header = h]
    <3>1. [tx EXCEPT !.tried = tx.header, !.header.limit = @ + 1]
            = [tx EXCEPT !.tried = tx.header, !.header = h]
      BY DEF TransactionTypeOK
    <3> QED BY <1>8, <3>1 DEF SponsorRetried, Step
  <2> HIDE DEF h
  <2>4. TransactionTypeOK'
    BY <2>1, <2>2, <2>3 DEF TransactionTypeOK
  <2> QED BY <2>2, <2>3, <2>4 DEF SentAsTried, AnswersTruthful, Steps, TransactionTypeOK
<1>9. CASE Refused
  BY <1>9, DoneIInv DEF Refused, Step, TransactionTypeOK, AnswersTruthful, Steps
<1>10. CASE Sent
  <2>1. CASE Step("sending", [tx EXCEPT !.pc = "waiting", !.sent = "accepted"])
    <3>1. TransactionTypeOK'
      BY <2>1 DEF Step, TransactionTypeOK, Steps
    <3> QED BY <2>1, <3>1 DEF Step, SentAsTried, AnswersTruthful, Steps, TransactionTypeOK
  <2>2. CASE Step("sending", Done([tx EXCEPT !.sent = "unknown"], FALSE))
    <3> DEFINE t == [tx EXCEPT !.sent = "unknown"]
    <3>1. /\ tx.pc = "sending" /\ tx' = Done(t, FALSE)
          /\ t.network = tx.network /\ t.burn = tx.burn /\ t.dry = tx.dry /\ t.sent = "unknown"
      BY <2>2 DEF Step, TransactionTypeOK
    <3> HIDE DEF t
    <3> QED BY <3>1, DoneIInv DEF TransactionTypeOK
  <2> QED BY <1>10, <2>1, <2>2 DEF Sent
<1>11. CASE Waited
  <2>1. CASE tx.burn
    <3>1. tx' = [tx EXCEPT !.pc = "rereading"] /\ tx.pc = "waiting"
      BY <1>11, <2>1 DEF Waited, Step
    <3>2. TransactionTypeOK'
      BY <3>1 DEF TransactionTypeOK, Steps
    <3> QED BY <2>1, <3>1, <3>2 DEF SentAsTried, AnswersTruthful, Steps, TransactionTypeOK
  <2>2. CASE ~tx.burn
    <3>1. tx' = Done(tx, TRUE) /\ tx.pc = "waiting"
      BY <1>11, <2>2 DEF Waited, Step
    <3> QED BY <3>1, DoneIInv DEF TransactionTypeOK
  <2> QED BY <2>1, <2>2
<1>12. CASE Reread
  BY <1>12, DoneIInv DEF Reread, Step, TransactionTypeOK
<1>13. CASE RelaunchIdle
  <2> DEFINE r == [network |-> tx.network, burn |-> tx.burn, dry |-> tx.dry, sent |-> "no"]
  <2>1. tx' = Done(r, FALSE)
    BY <1>13 DEF RelaunchIdle, Done
  <2>2. r.network \in Networks /\ r.burn \in BOOLEAN /\ r.dry \in BOOLEAN /\ r.sent = "no"
    BY DEF TransactionTypeOK
  <2> HIDE DEF r
  <2> QED BY <2>1, <2>2, DoneIInv
<1>14. CASE tx' = tx
  BY <1>14 DEF TransactionTypeOK, SentAsTried, AnswersTruthful
<1>16. CASE UNCHANGED txVars
  BY <1>14, <1>16 DEF txVars
<1> HIDE DEF TransactionIInv
<1> QED BY <1>2, <1>16, <1>3, <1>4, <1>5, <1>6, <1>7, <1>8, <1>9, <1>10, <1>11, <1>12, <1>13, <1>14
        DEF TransactionNext

\* No more sponsored dry runs than Attempts, and the types of a request.
THEOREM TransactionTypes == TransactionSpec => []TransactionTypeOK
<1>1. TransactionIInv => TransactionTypeOK
  BY DEF TransactionIInv
<1> QED BY <1>1, TransactionInitIInv, TransactionStepIInv, WalletInitIInv, WalletStepIInv,
           TransactionStepIsWalletStep, PTL DEF TransactionSpec, TransactionInit

\* With free mana what is sent has just been evaluated as it is, paid by the sharer.
THEOREM SentIsTried == TransactionSpec => []SentAsTried
<1>1. TransactionIInv => SentAsTried
  BY DEF TransactionIInv
<1> QED BY <1>1, TransactionInitIInv, TransactionStepIInv, WalletInitIInv, WalletStepIInv,
           TransactionStepIsWalletStep, PTL DEF TransactionSpec, TransactionInit

\* What a request answers is true of what was sent, but for lost answers and burns.
THEOREM TransactionAnswersAreTrue == TransactionSpec => []AnswersTruthful
<1>1. TransactionIInv => AnswersTruthful
  BY DEF TransactionIInv
<1> QED BY <1>1, TransactionInitIInv, TransactionStepIInv, WalletInitIInv, WalletStepIInv,
           TransactionStepIsWalletStep, PTL DEF TransactionSpec, TransactionInit
=============================================================================
