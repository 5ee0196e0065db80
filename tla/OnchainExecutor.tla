-------------------------- MODULE OnchainExecutor ---------------------------
(***************************************************************************)
(* PolymarketWeb3Client sending transactions of one account: NonceManager, *)
(* shared by every thread that uses the client, and _execute /             *)
(* _execute_calls, which take a nonce, estimate, sign, send and wait.      *)
(*                                                                         *)
(* A step ends at an RPC. NonceManager.next() asks the node for the        *)
(* pending count, and another thread may run before the answer is used;    *)
(* what follows the RPC makes no call, so the interpreter switches no      *)
(* thread in it and it is one step.                                        *)
(*                                                                         *)
(* The chain is external: the node accepts a nonce once, and mines nonces  *)
(* without a gap. Gas, signing, call data and receipts' content are left   *)
(* out; a receipt says that the call succeeded or failed.                  *)
(***************************************************************************)
EXTENDS Naturals, Sequences, FiniteSets

CONSTANTS
    Callers,         \* threads that use the client
    None,            \* NonceManager._pending before the first nonce
    BatchSize,       \* transactions _execute_calls sends: one per call for an
                     \* EOA, one for the proxy and Safe wallets
    MaxNonces,       \* bound on the nonces handed out
    MaxExternal,     \* bound on transactions other programs send
    Faulty           \* callers whose RPCs may fail and whose calls may revert

ASSUME ConstantsAssumption ==
    /\ None \notin Nat
    /\ BatchSize \in Nat \ {0} /\ MaxNonces \in Nat /\ MaxExternal \in Nat
    /\ Faulty \subseteq Callers

VARIABLES
    pending,         \* NonceManager._pending
    pc,              \* the RPC each caller is at
    count,           \* the answer to get_transaction_count
    nonce,           \* the nonce of the caller's transaction
    base,            \* callers taking the nonce of a batch's base transaction
    todo,            \* transactions of the operation still to send
    mined,           \* every nonce below is mined
    pool,            \* nonces the node has accepted and not mined
    external,        \* transactions other programs have sent
    handed,          \* nonces handed out, in order
    burned           \* nonces handed out that no transaction will carry

callerVars == <<pc, count, nonce, base, todo>>
chainVars == <<mined, pool, external>>
vars == <<pending, callerVars, chainVars, handed, burned>>

\* get_transaction_count(address, "pending"): the first nonce that is free.
PendingCounts == {n \in mined..(mined + Cardinality(pool)) :
                     n \notin pool /\ \A m \in mined..(n - 1) : m \in pool}

Init ==
    /\ pending = None
    /\ pc = [c \in Callers |-> "idle"]
    /\ count = [c \in Callers |-> 0]
    /\ nonce = [c \in Callers |-> 0]
    /\ base = {}
    /\ todo = [c \in Callers |-> 0]
    /\ mined = 0 /\ pool = {} /\ external = 0
    /\ handed = <<>> /\ burned = {}

Goto(c, label) == pc' = [pc EXCEPT ![c] = label]

-----------------------------------------------------------------------------
\* _execute: one transaction.
Execute(c) ==
    /\ pc[c] = "idle" /\ Len(handed) < MaxNonces
    /\ Goto(c, "counting")
    /\ base' = base \ {c}
    /\ todo' = [todo EXCEPT ![c] = 1]
    /\ UNCHANGED <<pending, count, nonce, chainVars, handed, burned>>

\* _execute_calls, for set_all_approvals and set_all_disapprovals, and
\* deploy_safe_wallet: they build a base transaction of their own, and then
\* call _execute, once for every transaction.
ExecuteCalls(c) ==
    /\ pc[c] = "idle" /\ Len(handed) < MaxNonces
    /\ Goto(c, "counting")
    /\ base' = base \cup {c}
    /\ \E n \in {1, BatchSize} : todo' = [todo EXCEPT ![c] = n]
    /\ UNCHANGED <<pending, count, nonce, chainVars, handed, burned>>

\* The node answers get_transaction_count.
CountAnswered(c) ==
    /\ pc[c] = "counting"
    /\ \E n \in PendingCounts : count' = [count EXCEPT ![c] = n]
    /\ Goto(c, "counted")
    /\ UNCHANGED <<pending, nonce, base, todo, chainVars, handed, burned>>

\* Mutants of NextNonce: ">=" for ">", a step of two.
NextNonceOffByOne(c) ==
    IF pending = None \/ count[c] >= pending THEN count[c] ELSE pending + 1
NextNonceSkips(c) ==
    IF pending = None \/ count[c] > pending THEN count[c] ELSE pending + 2

\* The rest of NonceManager.next().
NextNonce(c) ==
    IF pending = None \/ count[c] > pending THEN count[c] ELSE pending + 1

TakeNonce(c) ==
    /\ pc[c] = "counted"
    /\ pending' = NextNonce(c)
    /\ handed' = Append(handed, pending')
    /\ nonce' = [nonce EXCEPT ![c] = pending']
    /\ Goto(c, "building")
    /\ UNCHANGED <<count, base, todo, chainVars, burned>>

\* gas_price and estimate_gas have answered; the transaction is signed.
Built(c) ==
    /\ pc[c] = "building" /\ c \notin base
    /\ Goto(c, "sending")
    /\ UNCHANGED <<pending, count, nonce, base, todo, chainVars, handed, burned>>

\* A base transaction, and the nonce of it, are thrown away: _execute takes
\* another one.
BaseBuilt(c) ==
    /\ pc[c] = "building" /\ c \in base
    /\ base' = base \ {c} /\ burned' = burned \cup {nonce[c]}
    /\ Goto(c, "counting")
    /\ UNCHANGED <<pending, count, nonce, todo, chainVars, handed>>

\* An exception leaves _execute, and the batch with it.
Raise(c) == Goto(c, "idle") /\ todo' = [todo EXCEPT ![c] = 0]

\* The estimate reverts, or an RPC before the send fails.
BuildFails(c) ==
    /\ c \in Faulty /\ pc[c] = "building"
    /\ burned' = burned \cup {nonce[c]}
    /\ Raise(c)
    /\ UNCHANGED <<pending, count, nonce, base, chainVars, handed>>

\* send_raw_transaction: accepted, or rejected because the nonce is taken.
Accepts(n) == n >= mined /\ n \notin pool

Sent(c) ==
    /\ pc[c] = "sending" /\ Accepts(nonce[c])
    /\ pool' = pool \cup {nonce[c]}
    /\ \/ Goto(c, "waiting") /\ UNCHANGED todo
       \/ c \in Faulty /\ Raise(c)             \* the answer is lost
    /\ UNCHANGED <<pending, count, nonce, base, mined, external, handed, burned>>

SendRejected(c) ==
    /\ pc[c] = "sending" /\ ~Accepts(nonce[c])
    /\ Raise(c)
    /\ UNCHANGED <<pending, count, nonce, base, chainVars, handed, burned>>

SendFails(c) ==
    /\ c \in Faulty /\ pc[c] = "sending" /\ Accepts(nonce[c])
    /\ burned' = burned \cup {nonce[c]}
    /\ Raise(c)
    /\ UNCHANGED <<pending, count, nonce, base, chainVars, handed>>

\* Mutant of Receipt: the loop over the calls runs once too often.
ReceiptOneTooMany(c) ==
    /\ pc[c] = "waiting" /\ nonce[c] < mined
    /\ todo' = [todo EXCEPT ![c] = @ - 1]
    /\ Goto(c, IF todo[c] >= 0 THEN "counting" ELSE "idle")
    /\ UNCHANGED <<pending, count, nonce, base, chainVars, handed, burned>>

\* wait_for_transaction_receipt returns; the batch goes on unless the call failed.
Receipt(c) ==
    /\ pc[c] = "waiting" /\ nonce[c] < mined
    /\ \/ /\ todo' = [todo EXCEPT ![c] = @ - 1]
          /\ Goto(c, IF todo[c] > 1 THEN "counting" ELSE "idle")
       \/ c \in Faulty /\ Raise(c)
    /\ UNCHANGED <<pending, count, nonce, base, chainVars, handed, burned>>

\* TransactionTimeoutError; the transaction stays where it is.
TimesOut(c) ==
    /\ pc[c] = "waiting" /\ nonce[c] >= mined
    /\ Raise(c)
    /\ UNCHANGED <<pending, count, nonce, base, chainVars, handed, burned>>

Mine ==
    /\ mined \in pool
    /\ mined' = mined + 1 /\ pool' = pool \ {mined}
    /\ UNCHANGED <<pending, callerVars, external, handed, burned>>

\* Another program uses the account.
ExternalSend ==
    /\ external < MaxExternal
    /\ external' = external + 1
    /\ \E n \in PendingCounts : pool' = pool \cup {n}
    /\ UNCHANGED <<pending, callerVars, mined, handed, burned>>

Step(c) ==
    \/ CountAnswered(c) \/ TakeNonce(c) \/ Built(c) \/ BaseBuilt(c) \/ BuildFails(c)
    \/ Sent(c) \/ SendRejected(c) \/ SendFails(c) \/ Receipt(c) \/ TimesOut(c)

Next ==
    \/ \E c \in Callers : Execute(c) \/ ExecuteCalls(c) \/ Step(c)
    \/ Mine \/ ExternalSend

Spec == Init /\ [][Next]_vars

\* RPCs answer or fail, waits end, and the chain mines what it can.
FairSpec == Spec /\ WF_vars(Mine) /\ \A c \in Callers : WF_vars(Step(c))

-----------------------------------------------------------------------------
\* Every variable has its type.
TypeOK ==
    /\ pending \in Nat \cup {None}
    /\ pc \in [Callers -> {"idle", "counting", "counted", "building", "sending", "waiting"}]
    /\ count \in [Callers -> Nat] /\ nonce \in [Callers -> Nat]
    /\ base \in SUBSET Callers /\ todo \in [Callers -> 0..BatchSize]
    /\ mined \in Nat /\ pool \in SUBSET Nat /\ IsFiniteSet(pool) /\ external \in 0..MaxExternal
    /\ handed \in Seq(Nat) /\ burned \in SUBSET Nat

\* "avoid nonce collisions" (web3_client.py:79): no nonce is handed out twice,
\* and they are handed out in increasing order, whatever other threads or
\* programs do between a caller's count and its use.
NoncesIncrease ==
    \A i, j \in DOMAIN handed : i < j => handed[i] < handed[j]

\* Two transactions of the client in flight never carry the same nonce.
NoCollision ==
    \A c, d \in Callers :
        c # d /\ {pc[c], pc[d]} \subseteq {"building", "sending", "waiting"}
            => nonce[c] # nonce[d]

\* A nonce below n that was handed out and that nothing will use.
HoleBelow(n) == \E h \in burned : mined <= h /\ h < n /\ h \notin pool

\* A transaction the node took is mined, or waits behind a burned nonce: the
\* client leaves no other kind of gap.
AcceptedIsMinedOrBehindHole ==
    \A n \in 0..(MaxNonces + MaxExternal - 1) : n \in pool ~> mined > n \/ HoleBelow(n)

\* "Set all necessary approvals." (web3_client.py:793): with nothing failing,
\* a transaction of the client that the node took is mined.
AcceptedIsMined ==
    \A n \in 0..(MaxNonces + MaxExternal - 1) : n \in pool ~> mined > n
=============================================================================
