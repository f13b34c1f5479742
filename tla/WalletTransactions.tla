-------------------------- MODULE WalletTransactions --------------------------
(***************************************************************************)
(* walletBurn, walletTransferVhp and walletTransferKoin of                 *)
(* electron/lib/wallet-service.ts, over the wallets of WalletVault.        *)
(*                                                                         *)
(* A request takes its key from the session when it begins and awaits the  *)
(* node several times before and after it sends; the wallet handlers run   *)
(* between those awaits.  The wallet tab has one such request at a time.   *)
(* Amounts and balances are left out: a refusal by one of them is a        *)
(* request that fails where it reads them.                                 *)
(***************************************************************************)
EXTENDS WalletVault

CONSTANT Attempts  \* sponsored dry runs prepareWalletTransactionWithFreeMana tries: 5

ASSUME AttemptsOfFreeMana == Attempts \in Nat \ {0}

VARIABLE tx  \* the latest request

txVars == <<walletVars, tx>>

\* payer and rc_limit; the limit counts the increases above 110% of the estimate.
Headers == [payer : {"self", "meter", "sharer"}, limit : 0..(Attempts - 1)]
NoHeader == [payer |-> "self", limit |-> 0]

Steps == {"reading", "preparing", "metering", "estimating", "sponsoring", "sending",
          "waiting", "rereading"}

TransactionTypeOK ==
  tx \in [pc : Steps \cup {"done"}, network : Networks, signer : Addresses \cup {None},
          burn : BOOLEAN, dry : BOOLEAN, free : BOOLEAN,
          header : Headers,
          tried : Headers,                       \* the header of the last dry run
          sent : {"no", "accepted", "unknown"},  \* unknown: accepted, but the answer was lost
          ok : BOOLEAN]

Done(t, ok) ==
  [pc |-> "done", network |-> t.network, signer |-> None, burn |-> t.burn, dry |-> t.dry,
   free |-> FALSE, header |-> NoHeader, tried |-> NoHeader, sent |-> t.sent, ok |-> ok]

-----------------------------------------------------------------------------
\* currentUnlockedProducerWallet(network), else unlockTelenoWalletSession(password, network).
\* Mutant: the session of any network.
SessionForAny(n, p) ==
  IF session.network # None THEN session
  ELSE IF p # None /\ Opens(vault[n], p) THEN SessionFrom(n, vault[n])
  ELSE Locked

SessionFor(n, p) ==
  IF Unlocked(n) THEN session
  ELSE IF p # None /\ Opens(vault[n], p) THEN SessionFrom(n, vault[n])
  ELSE Locked

\* resolveUnlockedWalletAccount: an id the session does not have stands for the active account.
SignerOf(s, id) == IF id \in DOMAIN s.keys THEN id ELSE s.active

\* A session opened for a request that is then refused stays open.
BeginTransaction(n, id, p, burn, dry, free, burnAccountOnly) ==
  /\ tx.pc = "done"
  /\ Stored(n)
  /\ LET s == SessionFor(n, p)
         signer == SignerOf(s, id)
     IN /\ s # Locked
        /\ session' = s
        /\ \/ /\ s.keys[signer] # None
              /\ burn /\ burnAccountOnly => profile[n] = signer
              /\ tx' = [pc |-> "reading", network |-> n, signer |-> signer, burn |-> burn,
                        dry |-> dry, free |-> free, header |-> NoHeader, tried |-> NoHeader,
                        sent |-> "no", ok |-> FALSE]
           \/ /\ s.keys[signer] = None \/ (burn /\ burnAccountOnly /\ profile[n] # signer)
              /\ tx' = [Done(tx, FALSE) EXCEPT !.network = n, !.burn = burn, !.dry = dry,
                                               !.sent = "no"]
  /\ UNCHANGED <<vault, config, profile>>

\* The step from pc from, leaving the wallets alone.
Step(from, t) == tx.pc = from /\ tx' = t /\ UNCHANGED walletVars

\* Contracts, balances, mana and allowance are read.
Read == Step("reading", [tx EXCEPT !.pc = IF tx.free THEN "metering" ELSE "preparing"])

\* Mutant: a dry run is sent too.
PreparedAlways(t) == [t EXCEPT !.pc = "sending"]

\* What a prepared transaction becomes.
Prepared(t) == IF t.dry THEN Done(t, TRUE) ELSE [t EXCEPT !.pc = "sending"]

\* Without free mana the own mana pays.
Prepare == Step("preparing", Prepared(tx))

\* prepareWalletTransactionWithFreeMana: the meter has mana, the transaction is built...
Metered == Step("metering", [tx EXCEPT !.pc = "estimating", !.header = [payer |-> "meter", limit |-> 0]])

\* ... and evaluated with the meter as its payer, to learn what it uses; then the sharer pays.
Estimated ==
  Step("estimating", [tx EXCEPT !.pc = "sponsoring", !.tried = tx.header,
                                !.header = [payer |-> "sharer", limit |-> 0]])

\* The sponsored transaction passes its dry run...
Sponsored == Step("sponsoring", Prepared([tx EXCEPT !.tried = tx.header]))

\* Mutant: no last attempt.
SponsorRetriedEver ==
  Step("sponsoring", [tx EXCEPT !.tried = tx.header, !.header.limit = @ + 1])

\* Mutant: the limit raised after a failed dry run is sent without another one.
SponsorRetriedOnce ==
  /\ tx.header.limit < Attempts - 1
  /\ Step("sponsoring", [tx EXCEPT !.tried = tx.header, !.header.limit = @ + 1, !.pc = "sending"])

\* ... or lacks mana and is tried with a higher limit.
SponsorRetried ==
  /\ tx.header.limit < Attempts - 1
  /\ Step("sponsoring", [tx EXCEPT !.tried = tx.header, !.header.limit = @ + 1])

\* A read, a dry run or the sending is refused, or does not answer.
Refused == tx.pc \in Steps \ {"waiting", "rereading"} /\ Step(tx.pc, Done(tx, FALSE))

\* transaction.send(): accepted, or accepted by a node whose answer is lost.
Sent ==
  \/ Step("sending", [tx EXCEPT !.pc = "waiting", !.sent = "accepted"])
  \/ Step("sending", Done([tx EXCEPT !.sent = "unknown"], FALSE))

\* transaction.wait(60 s): how it ends makes no difference.
Waited == Step("waiting", IF tx.burn THEN [tx EXCEPT !.pc = "rereading"] ELSE Done(tx, TRUE))

\* A burn reads the balances again; when that throws, it answers that it failed.
Reread == \E ok \in BOOLEAN : Step("rereading", Done(tx, ok))

\* Quitting forgets the request.
RelaunchIdle == Relaunch /\ tx' = [Done(tx, FALSE) EXCEPT !.sent = "no"]

TransactionInit ==
  /\ WalletInit
  /\ tx = [pc |-> "done", network |-> Mainnet, signer |-> None, burn |-> FALSE, dry |-> TRUE,
           free |-> FALSE, header |-> NoHeader, tried |-> NoHeader, sent |-> "no", ok |-> FALSE]

TransactionNext ==
  \/ \E n \in Networks : \E id \in AddressesOf[n] \cup {None}, p \in Passwords \cup {None},
                            burn, dry, free \in BOOLEAN : \E burnAccountOnly \in {FALSE, burn} :
       BeginTransaction(n, id, p, burn, dry, free, burnAccountOnly)
  \/ Read \/ Prepare \/ Metered \/ Estimated \/ Sponsored \/ SponsorRetried
  \/ Refused \/ Sent \/ Waited \/ Reread
  \/ (\E n \in Networks : OnNetwork(n)) /\ UNCHANGED tx
  \/ RelaunchIdle

TransactionSpec == TransactionInit /\ [][TransactionNext]_txVars

-----------------------------------------------------------------------------
\* Properties

\* A transaction is signed by an account of the stored wallet of its own network, one whose
\* key is stored: never by a session left open for another network.
NetworkSigns ==
  [][tx.pc = "done" /\ tx'.pc = "reading" =>
       /\ tx'.signer \in Accounts(tx'.network)
       /\ HasKey(tx'.network, tx'.signer)]_txVars

\* With free mana, what is sent is what the node has just evaluated: the same payer, which
\* is the sharer and never the meter, and the same limit.
SentAsTried ==
  tx.pc = "sending" /\ tx.free => tx.tried = tx.header /\ tx.header.payer = "sharer"

\* A dry run sends nothing.  Success is answered only for a dry run and for a transaction the
\* node accepted; failure for an accepted one only when the node's answer was lost, or to a
\* burn whose balances could not be read again.
AnswersTruthful ==
  /\ tx.dry => tx.sent = "no"
  /\ tx.pc = "done" =>
       IF tx.ok THEN tx.dry \/ tx.sent = "accepted"
       ELSE tx.sent = "accepted" => tx.burn

=============================================================================
