------------------------- MODULE WalletTransactions -------------------------
(***************************************************************************)
(* What becomes of an operation of PolymarketWeb3Client (it pays gas) and  *)
(* of PolymarketGaslessWeb3Client (a relay does): the calls are wrapped    *)
(* for the wallet, with a nonce of the wallet, submitted, perhaps polled   *)
(* for, and the receipt awaited. OnchainExecutor has the other nonce, of   *)
(* the account that pays.                                                  *)
(*                                                                         *)
(* A step ends at a request. External: the relay, the node, and what the   *)
(* wallet contracts do with a transaction. A relay's STATE_FAILED is taken *)
(* to be final. Encoding, signing and gas are left out; a transaction is   *)
(* its operation, its nonce, and how often its calls were wrapped.         *)
(***************************************************************************)
EXTENDS Naturals, Sequences, FiniteSets

CONSTANTS
    Clients,         \* wallets of the client in use: "eoa", "proxy", "safe"
                     \* pay gas, "relay_..." do not
    Callers,         \* threads that use it
    BatchSize,       \* calls of a batch
    MaxTxs,          \* bound on the transactions of all operations
    MaxPolls         \* polls for a transaction hash; 100 in the code

Relayed == {"relay_proxy", "relay_safe", "relay_deposit"}
Paying == {"eoa", "proxy", "safe"}
Operations == {"single", "batch", "deploy"}

ASSUME ConstantsAssumption ==
    /\ Clients \subseteq Relayed \cup Paying
    /\ BatchSize \in Nat \ {0} /\ MaxTxs \in Nat /\ MaxPolls \in Nat \ {0}

VARIABLES
    client,          \* the wallet in use
    deployed,        \* the account's Safe has code
    walletNonce,     \* the next nonce the wallet executes
    call,            \* the locals of each caller's operation
    begun,           \* transactions of the operations begun (for the bound)
    txs,             \* transactions submitted
    report           \* what its caller was told of each

walletVars == <<client, deployed, walletNonce>>
vars == <<walletVars, call, begun, txs, report>>

Ids == DOMAIN txs
Executed == {i \in Ids : txs[i].fate \in {"done", "elsewhere"}}
Failed == {i \in Ids : txs[i].fate \in {"reverted", "dropped"}}
Pending == {i \in Ids : txs[i].fate = "pending"}

UsesNonce == client \notin {"eoa", "proxy"}

\* pc: the request it waits for; layers: how often the calls were wrapped;
\* nonce: the wallet nonce it has read; todo: transactions still to send;
\* polls: those without a hash; own: the transaction it waits for.
Idle == [pc |-> "idle", op |-> "single", layers |-> 0, nonce |-> 0,
         todo |-> 0, polls |-> 0, own |-> 0]

Init ==
    /\ client \in Clients /\ deployed \in BOOLEAN /\ walletNonce = 0
    /\ call = [c \in Callers |-> Idle]
    /\ begun = 0 /\ txs = <<>> /\ report = <<>>

\* The first request of building a transaction.
FirstRequest == IF UsesNonce THEN "nonce" ELSE "estimate"

-----------------------------------------------------------------------------
(* The threads.                                                            *)

\* Transactions of an operation: a batch of a paying EOA is one per call.
Transactions(o) == IF client = "eoa" /\ o = "batch" THEN BatchSize ELSE 1

\* An operation begins with the request it makes first.
Begins(c, o, first) ==
    /\ call[c].pc = "idle" /\ begun + Transactions(o) <= MaxTxs
    /\ begun' = begun + Transactions(o)
    /\ call' = [call EXCEPT ![c] =
           [Idle EXCEPT !.pc = first, !.op = o, !.todo = Transactions(o)]]
    /\ UNCHANGED <<walletVars, txs, report>>

\* split_position, merge_position, redeem_position, convert_positions.
MovePosition(c) == Begins(c, "single", FirstRequest)

\* auto_redeem_enable and _disable, set_*_approval: one call to a contract.
SetApproval(c) == Begins(c, "single", FirstRequest)

\* set_all_approvals, set_all_disapprovals: twelve calls.
ApproveAll(c) == Begins(c, "batch", FirstRequest)

\* transfer_pusd, transfer_token: they ask for the balance first.
Transfer(c) == Begins(c, "single", "balance")

\* deploy_safe_wallet of a paying client asks whether there is code already.
DeploySafe(c) == client \in Paying /\ Begins(c, "deploy", "code")

\* That of a client with a relay does not, whatever its wallet.
RelayDeploysSafe(c) == client \in Relayed /\ Begins(c, "deploy", "nonce")

Call(c) ==
    \/ MovePosition(c) \/ SetApproval(c) \/ ApproveAll(c) \/ Transfer(c)
    \/ DeploySafe(c) \/ RelayDeploysSafe(c)

\* An exception before the transaction was submitted.
Raises(c) ==
    /\ call' = [call EXCEPT ![c] = Idle]
    /\ UNCHANGED <<walletVars, begun, txs, report>>

\* What had to be asked first was answered: the transaction is built.
Proceeds(c) ==
    /\ call' = [call EXCEPT ![c].pc = FirstRequest]
    /\ UNCHANGED <<walletVars, begun, txs, report>>

\* "Insufficient balance", or enough of it.
BalanceRead(c) == call[c].pc = "balance" /\ (Proceeds(c) \/ Raises(c))

\* SafeAlreadyDeployedError, or there is no Safe yet.
CodeRead(c) == call[c].pc = "code" /\ IF deployed THEN Raises(c) ELSE Proceeds(c)

\* nonce() of a Safe that is not there fails.
SafeNonceRead(c) ==
    /\ call[c].pc = "nonce" /\ client = "safe" /\ deployed
    /\ call' = [call EXCEPT ![c].nonce = walletNonce, ![c].pc = "estimate"]
    /\ UNCHANGED <<walletVars, begun, txs, report>>

\* A relay may count what it has not executed yet.
NonceAnswers == walletNonce..(walletNonce + Cardinality(Pending))

\* A call of a proxy wallet is simulated before it is signed for the relay.
Estimates(c) == client = "relay_proxy" /\ call[c].op # "deploy"

RelayNonceRead(c) ==
    /\ call[c].pc = "nonce" /\ client \in Relayed
    /\ \E n \in NonceAnswers :
           call' = [call EXCEPT ![c].nonce = n,
                                ![c].pc = IF Estimates(c) THEN "estimate" ELSE "submit",
                                ![c].layers = IF Estimates(c) THEN @ ELSE 1]
    /\ UNCHANGED <<walletVars, begun, txs, report>>

\* A batch of a paying proxy or Safe wallet is wrapped by _execute_calls and
\* again by _execute, each time with a nonce read anew.
WrappedTwice(c) == call[c].op = "batch" /\ client \in {"proxy", "safe"}

\* The node simulates: a Safe refuses a nonce that is not its next, and with it
\* a call of its own inside a call of its own, which was signed for the same.
\* The factory refuses to create a Safe that is there.
Simulates(c) ==
    /\ client = "safe" => call[c].nonce = walletNonce /\ call[c].layers = 0
    /\ call[c].op = "deploy" => ~deployed

Estimated(c) ==
    /\ call[c].pc = "estimate" /\ Simulates(c)
    /\ call' = [call EXCEPT ![c].layers = @ + 1,
                            ![c].pc = IF WrappedTwice(c) /\ call[c].layers = 0
                                      THEN FirstRequest ELSE "submit"]
    /\ UNCHANGED <<walletVars, begun, txs, report>>

\* The balance, the code or the nonce cannot be read, the estimate reverts, the
\* transaction is refused.
RequestFails(c) ==
    call[c].pc \in {"balance", "code", "nonce", "estimate", "submit"} /\ Raises(c)

\* The relay or the node has taken the transaction. The relay answers with a
\* hash, or with an id to poll for.
Submitted(c) ==
    /\ call[c].pc = "submit"
    /\ txs' = Append(txs, [op |-> call[c].op, nonce |-> call[c].nonce,
                           layers |-> call[c].layers, fate |-> "pending"])
    /\ report' = Append(report, "none")
    /\ \E next \in IF client \in Relayed THEN {"receipt", "poll"} ELSE {"receipt"} :
           call' = [call EXCEPT ![c].pc = next, ![c].own = Len(txs')]
    /\ UNCHANGED <<walletVars, begun>>

\* Mutant of AnswerLost: it polls although there is no id.
AnswerLostPolls(c) ==
    /\ call[c].pc = "submit" /\ client \in Relayed
    /\ call' = [call EXCEPT ![c].pc = "poll"]
    /\ UNCHANGED <<walletVars, begun, txs, report>>

\* It has taken the transaction, and its answer is lost, or names neither.
AnswerLost(c) ==
    /\ call[c].pc = "submit"
    /\ txs' = Append(txs, [op |-> call[c].op, nonce |-> call[c].nonce,
                           layers |-> call[c].layers, fate |-> "pending"])
    /\ report' = Append(report, "unknown")
    /\ call' = [call EXCEPT ![c] = Idle]
    /\ UNCHANGED <<walletVars, begun>>

\* The call ends in an exception that says r of its transaction.
Ends(c, r) ==
    /\ report' = [report EXCEPT ![call[c].own] = r]
    /\ call' = [call EXCEPT ![c] = Idle]
    /\ UNCHANGED <<walletVars, begun, txs>>

\* _wait_for_relay_transaction_hash: the relay has a hash.
HashAttached(c) ==
    /\ call[c].pc = "poll"
    /\ call' = [call EXCEPT ![c].pc = "receipt"]
    /\ UNCHANGED <<walletVars, begun, txs, report>>

StateFailed(c) == call[c].pc = "poll" /\ call[c].own \in Failed /\ Ends(c, "failed")

\* Mutant of NoHashYet: the polls start over.
NoHashStartsOver(c) ==
    /\ call[c].pc = "poll"
    /\ call' = [call EXCEPT ![c].polls = (@ + 1) % MaxPolls]
    /\ UNCHANGED <<walletVars, begun, txs, report>>

\* Not yet: poll again, or "No transaction hash in response".
NoHashYet(c) ==
    /\ call[c].pc = "poll"
    /\ IF call[c].polls + 1 < MaxPolls
       THEN /\ call' = [call EXCEPT ![c].polls = @ + 1]
            /\ UNCHANGED <<walletVars, begun, txs, report>>
       ELSE Ends(c, "unknown")

\* A poll fails; the receipt does not come in 120 s, or the node fails.
WaitFails(c) == call[c].pc \in {"poll", "receipt"} /\ Ends(c, "unknown")

\* Mutant of Succeeded: the status of the receipt is not looked at.
SucceedsAnyway(c) ==
    /\ call[c].pc = "receipt" /\ call[c].own \in Executed \cup Failed
    /\ report' = [report EXCEPT ![call[c].own] = "success"]
    /\ call' = [call EXCEPT ![c] = Idle]
    /\ UNCHANGED <<walletVars, begun, txs>>

\* A receipt with status 1: the next transaction of the operation, or the end.
Succeeded(c) ==
    /\ call[c].pc = "receipt" /\ call[c].own \in Executed
    /\ report' = [report EXCEPT ![call[c].own] = "success"]
    /\ call' = [call EXCEPT ![c] =
           IF @.todo = 1 THEN Idle ELSE [Idle EXCEPT !.pc = FirstRequest, !.op = call[c].op,
                                       !.todo = call[c].todo - 1]]
    /\ UNCHANGED <<walletVars, begun, txs>>

\* TransactionFailedError.
Reverted(c) ==
    /\ call[c].pc = "receipt"
    /\ call[c].own \in Ids /\ txs[call[c].own].fate = "reverted"
    /\ Ends(c, "failed")

Step(c) ==
    \/ BalanceRead(c) \/ CodeRead(c) \/ SafeNonceRead(c) \/ RelayNonceRead(c)
    \/ Estimated(c) \/ RequestFails(c) \/ Submitted(c) \/ AnswerLost(c)
    \/ HashAttached(c) \/ StateFailed(c) \/ NoHashYet(c) \/ WaitFails(c)
    \/ Succeeded(c) \/ Reverted(c)

-----------------------------------------------------------------------------
(* The relay, the node and the contracts.                                  *)

Fate(i, fate) == txs' = [txs EXCEPT ![i].fate = fate]

\* A relay has a Safe created by the factory, without the nonce of the Safe.
SpendsNonce(i) == UsesNonce /\ ~(client \in Relayed /\ txs[i].op = "deploy")

\* The proxy factory runs calls in the proxy of whoever calls it: calls wrapped
\* twice run in the proxy of the proxy.
Execute(i) ==
    /\ i \in Pending
    /\ SpendsNonce(i) => txs[i].nonce = walletNonce
    /\ client = "safe" => txs[i].layers = 1
    /\ txs[i].op = "deploy" => ~deployed
    /\ Fate(i, IF client = "proxy" /\ txs[i].layers = 2 THEN "elsewhere" ELSE "done")
    /\ walletNonce' = IF SpendsNonce(i) THEN walletNonce + 1 ELSE walletNonce
    /\ deployed' = (deployed \/ txs[i].op = "deploy")
    /\ UNCHANGED <<client, call, begun, report>>

\* A call of it fails, or its nonce is not the wallet's.
Revert(i) ==
    /\ i \in Pending /\ Fate(i, "reverted")
    /\ UNCHANGED <<walletVars, call, begun, report>>

\* It is never mined: the relay fails it, or its deadline passes.
Drop(i) ==
    /\ i \in Pending /\ Fate(i, "dropped")
    /\ UNCHANGED <<walletVars, call, begun, report>>

Next ==
    \/ \E c \in Callers : Call(c) \/ Step(c)
    \/ \E i \in Ids : Execute(i) \/ Revert(i) \/ Drop(i)

Spec == Init /\ [][Next]_vars

\* Requests and waits have timeouts. Nothing is assumed of relay and chain.
FairSpec == Spec /\ \A c \in Callers : WF_vars(Step(c))

-----------------------------------------------------------------------------
Labels == {"idle", "balance", "code", "nonce", "estimate", "submit", "poll", "receipt"}
Fates == {"pending", "done", "elsewhere", "reverted", "dropped"}
Txs == [op : Operations, nonce : Nat, layers : 0..2, fate : Fates]
Locals == [pc : Labels, op : Operations, layers : 0..2, nonce : Nat,
           todo : 0..BatchSize, polls : 0..MaxPolls, own : Nat]

\* Types, and that whoever waits has a transaction of its own to wait for.
TypeOK ==
    /\ client \in Clients /\ deployed \in BOOLEAN /\ walletNonce \in Nat
    /\ call \in [Callers -> Locals]
    /\ begun \in 0..MaxTxs /\ txs \in Seq(Txs)
    /\ report \in Seq({"none", "success", "failed", "unknown"}) /\ Len(report) = Len(txs)
    /\ \A c \in Callers : call[c].pc \in {"poll", "receipt"} => call[c].own \in Ids

(***************************************************************************)
(* What the caller is told of a transaction is so: a receipt means that    *)
(* the wallet, and for a batch of a paying proxy wallet some wallet, has   *)
(* executed it; a failure that names the relay's state or the receipt      *)
(* means that nothing was and nothing will be. All other exceptions after  *)
(* the submission (a lost answer, a poll that fails or is the last, a      *)
(* timeout) say nothing: the transaction may still be executed.            *)
(***************************************************************************)
ReportsAreTrue ==
    \A i \in Ids :
        /\ report[i] = "success" =>
               \/ txs[i].fate = "done"
               \/ txs[i].fate = "elsewhere" /\ client = "proxy" /\ txs[i].op = "batch"
        /\ report[i] = "failed" => txs[i].fate \in {"reverted", "dropped"}

\* An operation ends, whatever relay and chain do: polls are counted.
CallsEnd == \A c \in Callers : call[c].pc # "idle" ~> call[c].pc = "idle"

(***************************************************************************)
(* "All approvals set successfully" (web3_client.py:805): the calls of a   *)
(* batch that was reported done were made by the client's wallet.          *)
(***************************************************************************)
BatchesActAsWallet == \A i \in Ids : report[i] = "success" => txs[i].fate = "done"
=============================================================================
