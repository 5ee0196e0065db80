---------------------- MODULE WalletTransactionsProofs ----------------------
(***************************************************************************)
(* Theorems about WalletTransactions, for any clients, threads, batches    *)
(* and bounds: types, and that no caller is told what is not so.           *)
(***************************************************************************)
EXTENDS WalletTransactions, TLAPS

\* An operation that is under way has a transaction to send, or to wait for.
Working == \A c \in Callers :
    call[c].pc # "idle" => call[c].todo >= 1 /\ call[c].op \in Operations

\* Only batches are wrapped twice, and only what is left of that is wrapped
\* before it is estimated.
Wrapping ==
    /\ \A c \in Callers :
         /\ call[c].pc \in {"balance", "code"} => call[c].layers = 0
         /\ call[c].pc \in {"nonce", "estimate"} /\ call[c].layers # 0
              => call[c].layers = 1 /\ WrappedTwice(c)
         /\ call[c].layers = 2 => call[c].op = "batch"
    /\ \A i \in Ids : txs[i].layers = 2 => txs[i].op = "batch"
    /\ \A i \in Ids : txs[i].fate = "elsewhere" => client = "proxy" /\ txs[i].layers = 2

IInv == TypeOK /\ Working /\ Wrapping /\ ReportsAreTrue

-----------------------------------------------------------------------------
\* One item of a sequence is replaced.
LEMMA ReplaceItem ==
  ASSUME NEW S, NEW s \in Seq(S), NEW i \in DOMAIN s, NEW t \in S, NEW u, u = [s EXCEPT ![i] = t]
  PROVE  /\ u \in Seq(S) /\ Len(u) = Len(s) /\ DOMAIN u = DOMAIN s
         /\ u[i] = t /\ \A j \in DOMAIN s \ {i} : u[j] = s[j]
OBVIOUS

LEMMA InitIInv == Init => IInv
<1> SUFFICES ASSUME Init PROVE IInv
  OBVIOUS
<1> USE ConstantsAssumption DEF Init, Idle, Ids
<1>1. TypeOK
  BY DEF TypeOK, Locals, Labels, Operations, Txs
<1>2. Working /\ Wrapping /\ ReportsAreTrue
  BY DEF Working, Wrapping, ReportsAreTrue
<1> QED
  BY <1>1, <1>2 DEF IInv

\* A nonce that a relay answers is a number.
LEMMA NonceType ==
  ASSUME TypeOK, NEW n \in NonceAnswers
  PROVE  n \in Nat
BY DEF TypeOK, NonceAnswers

\* Locals that a caller may have.
Fits(r) ==
    /\ r \in Locals
    /\ r.pc \in {"poll", "receipt"} => r.own \in Ids
    /\ r.pc # "idle" => r.todo >= 1 /\ r.op \in Operations
    /\ r.pc \in {"balance", "code"} => r.layers = 0
    /\ r.pc \in {"nonce", "estimate"} /\ r.layers # 0
         => r.layers = 1 /\ r.op = "batch" /\ client \in {"proxy", "safe"}
    /\ r.layers = 2 => r.op = "batch"

\* The locals of one caller change, nothing else.
LEMMA LocalStep ==
  ASSUME IInv, NEW c \in Callers, NEW r, Fits(r),
         call' = [call EXCEPT ![c] = r],
         UNCHANGED <<walletVars, txs, report>>, begun' \in 0..MaxTxs
  PROVE  IInv'
<1> USE DEF walletVars, Ids, Fits
<1>1. TypeOK'
  BY DEF IInv, TypeOK
<1>2. Working' /\ ReportsAreTrue'
  BY DEF IInv, TypeOK, Working, ReportsAreTrue
<1>3. Wrapping'
  BY DEF IInv, TypeOK, Wrapping, WrappedTwice
<1> QED
  BY <1>1, <1>2, <1>3 DEF IInv

\* A transaction is submitted, of which nothing false is said yet.
LEMMA SubmitStep ==
  ASSUME IInv, NEW c \in Callers, call[c].pc = "submit", NEW r \in Locals, NEW word \in {"none", "unknown"},
         call' = [call EXCEPT ![c] = r],
         txs' = Append(txs, [op |-> call[c].op, nonce |-> call[c].nonce,
                             layers |-> call[c].layers, fate |-> "pending"]),
         report' = Append(report, word),
         UNCHANGED <<walletVars, begun>>,
         r.pc \in {"idle", "receipt", "poll"}, r.layers \in {0, call[c].layers},
         r.layers # 0 \/ r.pc # "idle" => r.op = call[c].op,
         r.pc # "idle" => r.todo = call[c].todo /\ r.own = Len(txs) + 1
  PROVE  IInv'
<1> DEFINE t == [op |-> call[c].op, nonce |-> call[c].nonce,
                 layers |-> call[c].layers, fate |-> "pending"]
<1>1. t \in Txs
  BY DEF IInv, TypeOK, Working, Locals, Txs, Fates
<1>2. /\ txs' \in Seq(Txs) /\ Len(txs') = Len(txs) + 1
      /\ report' \in Seq({"none", "success", "failed", "unknown"}) /\ Len(report') = Len(txs) + 1
      /\ \A i \in Ids : txs'[i] = txs[i] /\ report'[i] = report[i]
      /\ txs'[Len(txs) + 1] = t /\ report'[Len(txs) + 1] = word
      /\ Ids' = Ids \cup {Len(txs) + 1}
  BY <1>1 DEF IInv, TypeOK, Ids
<1> USE DEF walletVars
<1>3. TypeOK'
  BY <1>2 DEF IInv, TypeOK
<1>4. Working' /\ ReportsAreTrue'
  BY <1>2 DEF IInv, TypeOK, Working, ReportsAreTrue
<1>5. Wrapping'
  <2>1. call[c].layers = 2 => call[c].op = "batch"
    BY DEF IInv, Wrapping
  <2>2. \A d \in Callers :
          /\ call'[d].pc \in {"balance", "code"} => call'[d].layers = 0
          /\ call'[d].pc \in {"nonce", "estimate"} /\ call'[d].layers # 0
               => call'[d].layers = 1 /\ WrappedTwice(d)'
          /\ call'[d].layers = 2 => call'[d].op = "batch"
    BY <2>1 DEF IInv, TypeOK, Wrapping, WrappedTwice
  <2> QED
    <3>1. \A j \in Ids' : txs'[j].layers = 2 => txs'[j].op = "batch"
      <4> SUFFICES ASSUME NEW j \in Ids' PROVE txs'[j].layers = 2 => txs'[j].op = "batch"
        OBVIOUS
      <4>1. CASE j \in Ids
        BY <4>1, <1>2 DEF IInv, Wrapping
      <4>2. CASE j = Len(txs) + 1
        BY <4>2, <1>2, <2>1
      <4> QED
        BY <4>1, <4>2, <1>2
    <3>2. \A j \in Ids' : txs'[j].fate = "elsewhere" => client' = "proxy" /\ txs'[j].layers = 2
      <4> SUFFICES ASSUME NEW j \in Ids'
                   PROVE  txs'[j].fate = "elsewhere" => client' = "proxy" /\ txs'[j].layers = 2
        OBVIOUS
      <4>1. CASE j \in Ids
        BY <4>1, <1>2 DEF IInv, Wrapping
      <4>2. CASE j = Len(txs) + 1
        BY <4>2, <1>2
      <4> QED
        BY <4>1, <4>2, <1>2
    <3> QED
      BY <2>2, <3>1, <3>2 DEF Wrapping
<1> QED
  BY <1>3, <1>4, <1>5 DEF IInv

\* A caller is told something true of its transaction.
LEMMA ReportStep ==
  ASSUME IInv, NEW c \in Callers, NEW i \in Ids, NEW r \in Locals,
         NEW word \in {"success", "failed", "unknown"},
         word = "success" => i \in Executed, word = "failed" => i \in Failed,
         call' = [call EXCEPT ![c] = r],
         report' = [report EXCEPT ![i] = word],
         UNCHANGED <<walletVars, begun, txs>>,
         r.pc \notin {"poll", "receipt"}, r.layers = 0, r.pc # "idle" => r.todo >= 1 /\ r.op \in Operations
  PROVE  IInv'
<1> USE DEF walletVars, Ids
<1>1. /\ report' \in Seq({"none", "success", "failed", "unknown"}) /\ Len(report') = Len(report)
      /\ report'[i] = word /\ \A j \in Ids \ {i} : report'[j] = report[j]
  BY DEF IInv, TypeOK
<1>2. TypeOK'
  BY <1>1 DEF IInv, TypeOK
<1>3. Working' /\ Wrapping'
  BY DEF IInv, TypeOK, Working, Wrapping, WrappedTwice
<1>4. ReportsAreTrue'
  BY <1>1 DEF IInv, TypeOK, Wrapping, ReportsAreTrue, Executed, Failed
<1> QED
  BY <1>2, <1>3, <1>4 DEF IInv

\* The chain or the relay decides a transaction that was pending.
LEMMA FateStep ==
  ASSUME IInv, NEW i \in Pending, NEW fate \in {"done", "elsewhere", "reverted", "dropped"},
         Fate(i, fate), fate = "elsewhere" => client = "proxy" /\ txs[i].layers = 2,
         walletNonce' \in Nat, deployed' \in BOOLEAN,
         UNCHANGED <<client, call, begun, report>>
  PROVE  IInv'
<1>2. txs \in Seq(Txs) /\ txs[i] \in Txs /\ i \in Ids /\ txs[i].fate = "pending"
  BY DEF IInv, TypeOK, Pending, Ids
<1>1. /\ txs' \in Seq(Txs) /\ Len(txs') = Len(txs) /\ Ids' = Ids
      /\ txs'[i].fate = fate /\ txs'[i].op = txs[i].op /\ txs'[i].layers = txs[i].layers
      /\ \A j \in Ids \ {i} : txs'[j] = txs[j]
  <2> DEFINE t == [txs[i] EXCEPT !.fate = fate]
  <2>1. t \in Txs /\ txs' = [txs EXCEPT ![i] = t]
    BY <1>2 DEF Txs, Fates, Fate
  <2>2. t.fate = fate /\ t.op = txs[i].op /\ t.layers = txs[i].layers
    BY <1>2 DEF Txs
  <2>4. i \in DOMAIN txs /\ txs \in Seq(Txs)
    BY <1>2 DEF Ids
  <2>3. /\ txs' \in Seq(Txs) /\ Len(txs') = Len(txs) /\ DOMAIN txs' = DOMAIN txs
        /\ txs'[i] = t /\ \A j \in DOMAIN txs \ {i} : txs'[j] = txs[j]
    <3> HIDE DEF t
    <3> QED
      BY ONLY <2>1, <2>4, ReplaceItem
  <2> QED
    BY <2>2, <2>3 DEF Ids
<1>3. TypeOK'
  BY <1>1 DEF IInv, TypeOK
<1>4. Working' /\ Wrapping'
  <2>1. Working' /\ \A j \in Ids' : txs'[j].layers = 2 => txs'[j].op = "batch"
    BY <1>1, <1>2 DEF IInv, Working, Wrapping
  <2>2. \A j \in Ids' : txs'[j].fate = "elsewhere" => client' = "proxy" /\ txs'[j].layers = 2
    BY <1>1, <1>2 DEF IInv, Wrapping
  <2> QED
    BY <2>1, <2>2 DEF IInv, Wrapping, WrappedTwice
<1>5. ReportsAreTrue'
  BY <1>1, <1>2 DEF IInv, TypeOK, ReportsAreTrue, Txs
<1> QED
  BY <1>3, <1>4, <1>5 DEF IInv

-----------------------------------------------------------------------------
\* The locals of a caller that raises, or whose call returns.
LEMMA IdleType ==
  /\ Idle \in Locals /\ Idle.pc = "idle" /\ Idle.layers = 0
BY ConstantsAssumption DEF Idle, Locals, Labels, Operations

\* The locals of a caller that begins a transaction.
Start(o, n) == [Idle EXCEPT !.pc = FirstRequest, !.op = o, !.todo = n]

LEMMA StartType ==
  ASSUME NEW o \in Operations, NEW n \in 1..BatchSize
  PROVE  /\ Start(o, n) \in Locals /\ Start(o, n).pc \in {"nonce", "estimate"}
         /\ Start(o, n).layers = 0 /\ Start(o, n).op = o /\ Start(o, n).todo = n
<1>1. FirstRequest \in {"nonce", "estimate"} /\ FirstRequest \in Labels
  BY DEF FirstRequest, Labels
<1>2. n \in 0..BatchSize /\ o \in Operations
  BY ConstantsAssumption
<1> QED
  BY ONLY <1>1, <1>2, IdleType DEF Locals, Start

\* An operation of any kind begins.
LEMMA BeginStep ==
  ASSUME IInv, NEW c \in Callers, NEW o \in Operations,
         NEW first \in {"balance", "code", "nonce", "estimate"}, Begins(c, o, first)
  PROVE  IInv'
<1> DEFINE r == [Idle EXCEPT !.pc = first, !.op = o, !.todo = Transactions(o)]
<1>1. Transactions(o) \in 1..BatchSize
  BY ConstantsAssumption DEF Transactions
<1>2. begun' \in 0..MaxTxs
  BY <1>1, ConstantsAssumption DEF IInv, TypeOK, Begins
<1>3. call' = [call EXCEPT ![c] = r] /\ UNCHANGED <<walletVars, txs, report>>
  BY DEF Begins
<1>4. r \in Locals /\ r.pc = first /\ r.op = o /\ r.layers = 0 /\ r.todo >= 1
  <2>1. first \in Labels /\ Transactions(o) \in 0..BatchSize /\ Transactions(o) >= 1
    BY <1>1, ConstantsAssumption DEF Labels
  <2> QED
    BY ONLY <2>1, o \in Operations, IdleType DEF Locals
<1> HIDE DEF r
<1>5. Fits(r)
  BY <1>4 DEF Fits
<1> QED
  BY <1>2, <1>3, <1>5, LocalStep

LEMMA BeginSteps ==
  ASSUME IInv, NEW c \in Callers, Call(c)
  PROVE  IInv'
<1>1. FirstRequest \in {"balance", "code", "nonce", "estimate"}
  BY DEF FirstRequest
<1>2. PICK o \in Operations, first \in {"balance", "code", "nonce", "estimate"} :
        Begins(c, o, first)
  BY <1>1 DEF Call, MovePosition, SetApproval, ApproveAll, Transfer, DeploySafe,
              RelayDeploysSafe, Operations
<1> QED
  BY <1>2, BeginStep

\* An operation ends before a transaction of it was submitted.
LEMMA RaiseStep ==
  ASSUME IInv, NEW c \in Callers, Raises(c)
  PROVE  IInv'
<1>1. call' = [call EXCEPT ![c] = Idle] /\ begun' \in 0..MaxTxs
      /\ UNCHANGED <<walletVars, txs, report>>
  BY DEF Raises, IInv, TypeOK
<1>2. Fits(Idle)
  BY IdleType DEF Fits
<1> QED
  BY <1>1, <1>2, LocalStep

\* The balance suffices, or there is no Safe yet.
LEMMA ProceedStep ==
  ASSUME IInv, NEW c \in Callers, call[c].pc \in {"balance", "code"}, Proceeds(c)
  PROVE  IInv'
<1> DEFINE r == [call[c] EXCEPT !.pc = FirstRequest]
<1>1. call[c] \in Locals /\ call \in [Callers -> Locals] /\ begun \in 0..MaxTxs
  BY DEF IInv, TypeOK
<1>2. call' = [call EXCEPT ![c] = r] /\ UNCHANGED <<walletVars, begun, txs, report>>
  BY <1>1 DEF Proceeds, Locals
<1>3. /\ call[c].todo >= 1 /\ call[c].op \in Operations /\ call[c].layers = 0
  BY DEF IInv, Working, Wrapping
<1>4. r \in Locals /\ r.pc \in {"nonce", "estimate"} /\ r.op = call[c].op
      /\ r.todo = call[c].todo /\ r.layers = 0
  <2>1. FirstRequest \in {"nonce", "estimate"} /\ FirstRequest \in Labels
    BY DEF FirstRequest, Labels
  <2> QED
    BY ONLY <1>1, <1>3, <2>1 DEF Locals
<1> HIDE DEF r
<1>5. Fits(r)
  BY <1>3, <1>4 DEF Fits
<1> QED
  BY <1>1, <1>2, <1>5, LocalStep

LEMMA CallerSteps ==
  ASSUME IInv, NEW c \in Callers
  PROVE  /\ BalanceRead(c) => IInv'
         /\ CodeRead(c) => IInv'
         /\ SafeNonceRead(c) => IInv'
         /\ RelayNonceRead(c) => IInv'
         /\ Estimated(c) => IInv'
         /\ RequestFails(c) => IInv'
         /\ HashAttached(c) => IInv'
<1>1. call[c] \in Locals /\ call \in [Callers -> Locals] /\ begun \in 0..MaxTxs
      /\ (call[c].pc \in {"poll", "receipt"} => call[c].own \in Ids)
  BY DEF IInv, TypeOK
<1>2. ASSUME BalanceRead(c) \/ CodeRead(c) PROVE IInv'
  BY <1>2, RaiseStep, ProceedStep DEF BalanceRead, CodeRead
<1>3. ASSUME SafeNonceRead(c) \/ RelayNonceRead(c) PROVE IInv'
  <2>0. /\ call[c].pc = "nonce" /\ UNCHANGED <<walletVars, txs, report, begun>>
        /\ walletNonce \in Nat
    BY <1>3 DEF SafeNonceRead, RelayNonceRead, IInv, TypeOK
  <2>1. PICK n \in Nat, label \in {"estimate", "submit"}, layers \in {1, call[c].layers} :
          /\ call' = [call EXCEPT ![c] = [call[c] EXCEPT !.nonce = n, !.pc = label,
                                                        !.layers = layers]]
          /\ label = "estimate" => layers = call[c].layers
    <3>1. CASE SafeNonceRead(c)
      <4>1. call' = [call EXCEPT ![c] = [call[c] EXCEPT !.nonce = walletNonce, !.pc = "estimate",
                                                        !.layers = call[c].layers]]
        BY <1>1, <3>1 DEF SafeNonceRead, Locals
      <4> QED
        BY <2>0, <4>1
    <3>2. CASE RelayNonceRead(c)
      <4> DEFINE label == IF Estimates(c) THEN "estimate" ELSE "submit"
                 layers == IF Estimates(c) THEN call[c].layers ELSE 1
      <4>1. PICK n \in NonceAnswers :
              call' = [call EXCEPT ![c] = [call[c] EXCEPT !.nonce = n, !.pc = label,
                                                          !.layers = layers]]
        BY <1>1, <3>2 DEF RelayNonceRead, Locals
      <4>2. n \in Nat
        BY NonceType DEF IInv
      <4>3. /\ label \in {"estimate", "submit"} /\ layers \in {1, call[c].layers}
            /\ label = "estimate" => layers = call[c].layers
        OBVIOUS
      <4> HIDE DEF label, layers
      <4> QED
        BY <4>1, <4>2, <4>3
    <3> QED
      BY <1>3, <3>1, <3>2
  <2> DEFINE r == [call[c] EXCEPT !.nonce = n, !.pc = label, !.layers = layers]
  <2>3. r \in Locals /\ r.pc = label /\ r.op = call[c].op
        /\ r.todo = call[c].todo /\ r.layers = layers /\ r.own = call[c].own
    <3>1. layers \in 0..2 /\ label \in Labels
      BY <1>1 DEF Locals, Labels
    <3> QED
      BY ONLY <1>1, <2>1, <3>1 DEF Locals
  <2>5. call[c].todo >= 1 /\ call[c].op \in Operations
    BY <2>0 DEF IInv, Working
  <2>6. call[c].layers # 0
          => call[c].layers = 1 /\ call[c].op = "batch" /\ client \in {"proxy", "safe"}
    BY <2>0 DEF IInv, Wrapping, WrappedTwice
  <2>2. call' = [call EXCEPT ![c] = r]
    BY <2>1
  <2> HIDE DEF r
  <2>7. r.pc \in {"nonce", "estimate"} /\ r.layers # 0
          => r.layers = 1 /\ r.op = "batch" /\ client \in {"proxy", "safe"}
    BY <2>1, <2>3, <2>6
  <2>8. r.layers = 2 => r.op = "batch"
    BY <2>1, <2>3, <2>6
  <2>9. begun' \in 0..MaxTxs /\ UNCHANGED <<walletVars, txs, report>>
    BY <1>1, <2>0
  <2>10. Fits(r)
    BY <2>1, <2>3, <2>5, <2>7, <2>8 DEF Fits
  <2> QED
    BY <2>2, <2>9, <2>10, LocalStep
<1>4. ASSUME Estimated(c) PROVE IInv'
  <2> DEFINE r == [call[c] EXCEPT !.layers = @ + 1,
                            !.pc = IF WrappedTwice(c) /\ call[c].layers = 0
                                      THEN FirstRequest ELSE "submit"]
  <2>1. call[c].pc = "estimate" /\ UNCHANGED <<walletVars, txs, report, begun>>
    BY <1>4 DEF Estimated
  <2>2. call[c].layers # 0
          => call[c].layers = 1 /\ WrappedTwice(c)
    BY <2>1 DEF IInv, Wrapping
  <2>3. call' = [call EXCEPT ![c] = r]
    BY <1>1, <1>4 DEF Estimated, Locals
  <2>4. /\ r \in Locals /\ r.pc \in {"nonce", "estimate", "submit"} /\ r.op = call[c].op
        /\ r.todo = call[c].todo /\ r.layers = call[c].layers + 1
        /\ r.pc # "submit" => WrappedTwice(c) /\ call[c].layers = 0
    <3>1. call[c].layers + 1 \in 0..2
      BY <1>1, <2>2 DEF Locals
    <3>2. FirstRequest \in {"nonce", "estimate"}
      BY DEF FirstRequest
    <3>3. CASE WrappedTwice(c) /\ call[c].layers = 0
      BY <1>1, <3>1, <3>2, <3>3 DEF Locals, Labels
    <3>4. CASE ~(WrappedTwice(c) /\ call[c].layers = 0)
      BY <1>1, <3>1, <3>4 DEF Locals, Labels
    <3> QED
      BY <3>3, <3>4
  <2>5. call[c].todo >= 1 /\ call[c].op \in Operations
    BY <2>1 DEF IInv, Working
  <2>6. call[c].layers \in {0, 1} /\ (call[c].layers = 1 => WrappedTwice(c))
    BY <1>1, <2>2 DEF Locals
  <2> HIDE DEF r
  <2>7. r.layers = 2 => r.op = "batch"
    BY <2>4, <2>6 DEF WrappedTwice
  <2>8. r.pc \in {"nonce", "estimate"} /\ r.layers # 0
          => r.layers = 1 /\ r.op = "batch" /\ client \in {"proxy", "safe"}
    BY <2>4 DEF WrappedTwice
  <2> QED
    <3>1. Fits(r)
      BY <2>4, <2>5, <2>7, <2>8 DEF Fits
    <3> QED
      BY <1>1, <2>1, <2>3, <3>1, LocalStep
<1>5. ASSUME RequestFails(c) PROVE IInv'
  BY <1>5, RaiseStep DEF RequestFails
<1>6. ASSUME HashAttached(c) PROVE IInv'
  <2> DEFINE r == [call[c] EXCEPT !.pc = "receipt"]
  <2>1. call' = [call EXCEPT ![c] = r] /\ call[c].pc = "poll"
        /\ UNCHANGED <<walletVars, txs, report, begun>>
    BY <1>1, <1>6 DEF HashAttached, Locals
  <2>2. r \in Locals /\ r.pc = "receipt" /\ r.op = call[c].op /\ r.layers = call[c].layers
        /\ r.todo = call[c].todo /\ r.own = call[c].own
    BY <1>1 DEF Locals, Labels
  <2>3. /\ call[c].todo >= 1 /\ call[c].op \in Operations /\ call[c].own \in Ids
        /\ call[c].layers = 2 => call[c].op = "batch"
    BY <2>1 DEF IInv, Working, Wrapping, TypeOK
  <2> HIDE DEF r
  <2> QED
    <3>1. Fits(r)
      BY <2>2, <2>3 DEF Fits
    <3> QED
      BY <1>1, <2>1, <3>1, LocalStep
<1> QED
  BY <1>2, <1>3, <1>4, <1>5, <1>6

LEMMA SubmissionSteps ==
  ASSUME IInv, NEW c \in Callers
  PROVE  Submitted(c) \/ AnswerLost(c) => IInv'
<1>1. call[c] \in Locals /\ call \in [Callers -> Locals] /\ Len(txs) \in Nat /\ txs \in Seq(Txs)
  BY DEF IInv, TypeOK
<1>2. ASSUME Submitted(c) PROVE IInv'
  <2> PICK next \in {"receipt", "poll"} :
        call' = [call EXCEPT ![c].pc = next, ![c].own = Len(txs')]
    BY <1>2 DEF Submitted
  <2> DEFINE r == [call[c] EXCEPT !.pc = next, !.own = Len(txs) + 1]
  <2>1. Len(txs') = Len(txs) + 1
    BY <1>1, <1>2 DEF Submitted
  <2>2. call' = [call EXCEPT ![c] = r]
    BY <1>1, <2>1 DEF Locals
  <2>3. r \in Locals /\ r.pc = next /\ r.layers = call[c].layers /\ r.op = call[c].op
        /\ r.todo = call[c].todo /\ r.own = Len(txs) + 1
    <3>1. Len(txs) + 1 \in Nat /\ next \in Labels
      BY <1>1 DEF Labels
    <3> QED
      BY ONLY <1>1, <3>1 DEF Locals
  <2>4. /\ call[c].pc = "submit" /\ report' = Append(report, "none")
        /\ UNCHANGED <<walletVars, begun>>
        /\ txs' = Append(txs, [op |-> call[c].op, nonce |-> call[c].nonce,
                               layers |-> call[c].layers, fate |-> "pending"])
    BY <1>2 DEF Submitted
  <2> HIDE DEF r
  <2> QED
    BY <2>2, <2>3, <2>4, SubmitStep
<1>3. ASSUME AnswerLost(c) PROVE IInv'
  BY <1>3, IdleType, SubmitStep DEF AnswerLost
<1> QED
  BY <1>2, <1>3

LEMMA WaitingSteps ==
  ASSUME IInv, NEW c \in Callers
  PROVE  /\ StateFailed(c) => IInv'
         /\ NoHashYet(c) => IInv'
         /\ WaitFails(c) => IInv'
         /\ Succeeded(c) => IInv'
         /\ Reverted(c) => IInv'
<1>1. call[c] \in Locals /\ call \in [Callers -> Locals] /\ begun \in 0..MaxTxs
      /\ (call[c].pc \in {"poll", "receipt"} => call[c].own \in Ids)
  BY DEF IInv, TypeOK
<1>2. ASSUME NEW word \in {"failed", "unknown"}, Ends(c, word), call[c].pc \in {"poll", "receipt"},
             word = "failed" => call[c].own \in Failed
      PROVE  IInv'
  <2>1. word # "success" /\ word \in {"success", "failed", "unknown"}
    BY <1>2
  <2> QED
    BY <1>1, <1>2, <2>1, IdleType, ReportStep DEF Ends
<1>3. ASSUME StateFailed(c) PROVE IInv'
  BY <1>2, <1>3 DEF StateFailed
<1>4. ASSUME NoHashYet(c) PROVE IInv'
  <2>1. CASE ~(call[c].polls + 1 < MaxPolls)
    BY <1>2, <1>4, <2>1 DEF NoHashYet
  <2>2. CASE call[c].polls + 1 < MaxPolls
    <3> DEFINE r == [call[c] EXCEPT !.polls = @ + 1]
    <3>1. call' = [call EXCEPT ![c] = r] /\ call[c].pc = "poll"
          /\ UNCHANGED <<walletVars, txs, report, begun>>
      BY <1>1, <1>4, <2>2 DEF NoHashYet, Locals
    <3>2. r \in Locals /\ r.pc = call[c].pc /\ r.op = call[c].op /\ r.layers = call[c].layers
          /\ r.todo = call[c].todo /\ r.own = call[c].own
      BY <1>1, <2>2, ConstantsAssumption DEF Locals
    <3>3. /\ call[c].todo >= 1 /\ call[c].op \in Operations /\ call[c].own \in Ids
          /\ call[c].layers = 2 => call[c].op = "batch"
      BY <3>1 DEF IInv, Working, Wrapping, TypeOK
    <3> HIDE DEF r
    <3> QED
      <4>1. Fits(r)
        BY <3>1, <3>2, <3>3 DEF Fits
      <4> QED
        BY <1>1, <3>1, <4>1, LocalStep
  <2> QED
    BY <2>1, <2>2
<1>5. ASSUME WaitFails(c) PROVE IInv'
  BY <1>2, <1>5 DEF WaitFails
<1>6. ASSUME Succeeded(c) PROVE IInv'
  <2> DEFINE r == IF call[c].todo = 1 THEN Idle
                  ELSE Start(call[c].op, call[c].todo - 1)
  <2>1. /\ call[c].pc = "receipt" /\ call[c].own \in Executed
        /\ report' = [report EXCEPT ![call[c].own] = "success"]
        /\ call' = [call EXCEPT ![c] = r] /\ UNCHANGED <<walletVars, begun, txs>>
    BY <1>1, <1>6 DEF Succeeded, Start
  <2>2. call[c].todo >= 1 /\ call[c].op \in Operations /\ call[c].own \in Ids
    BY <2>1 DEF IInv, Working, TypeOK
  <2>3. /\ r \in Locals /\ r.pc \notin {"poll", "receipt"} /\ r.layers = 0
        /\ r.pc # "idle" => r.todo >= 1 /\ r.op \in Operations
    <3>1. CASE call[c].todo = 1
      BY <3>1, IdleType
    <3>2. CASE call[c].todo # 1
      <4>1. call[c].todo - 1 \in 1..BatchSize
        BY <1>1, <2>2, <3>2, ConstantsAssumption DEF Locals
      <4>2. r = Start(call[c].op, call[c].todo - 1)
        BY <3>2
      <4> QED
        BY <2>2, <4>1, <4>2, StartType
    <3> QED
      BY <3>1, <3>2
  <2> HIDE DEF r
  <2> QED
    BY <2>1, <2>2, <2>3, ReportStep
<1>7. ASSUME Reverted(c) PROVE IInv'
  BY <1>2, <1>7 DEF Reverted, Failed
<1> QED
  BY <1>3, <1>4, <1>5, <1>6, <1>7

LEMMA OutsideSteps ==
  ASSUME IInv, NEW i \in Ids, Execute(i) \/ Revert(i) \/ Drop(i)
  PROVE  IInv'
<1>1. walletNonce \in Nat /\ deployed \in BOOLEAN
  BY DEF IInv, TypeOK
<1>2. CASE Execute(i)
  <2> DEFINE fate == IF client = "proxy" /\ txs[i].layers = 2 THEN "elsewhere" ELSE "done"
  <2>1. /\ fate \in {"done", "elsewhere", "reverted", "dropped"} /\ Fate(i, fate)
        /\ fate = "elsewhere" => client = "proxy" /\ txs[i].layers = 2
    BY <1>2 DEF Execute
  <2>2. /\ i \in Pending /\ walletNonce' \in Nat /\ deployed' \in BOOLEAN
        /\ UNCHANGED <<client, call, begun, report>>
    BY <1>1, <1>2 DEF Execute
  <2> HIDE DEF fate
  <2> QED
    BY <2>1, <2>2, FateStep
<1>3. CASE Revert(i)
  BY <1>1, <1>3, FateStep DEF Revert, walletVars
<1>4. CASE Drop(i)
  BY <1>1, <1>4, FateStep DEF Drop, walletVars
<1> QED
  BY <1>2, <1>3, <1>4

LEMMA Inductive == IInv /\ [Next]_vars => IInv'
<1> SUFFICES ASSUME IInv, [Next]_vars PROVE IInv'
  OBVIOUS
<1>1. CASE UNCHANGED vars
  BY <1>1 DEF IInv, TypeOK, Working, Wrapping, WrappedTwice, ReportsAreTrue, Ids, vars, walletVars
<1>2. ASSUME NEW c \in Callers, Call(c) \/ Step(c) PROVE IInv'
  BY <1>2, BeginSteps, CallerSteps, SubmissionSteps, WaitingSteps DEF Step
<1>3. ASSUME NEW i \in Ids, Execute(i) \/ Revert(i) \/ Drop(i) PROVE IInv'
  BY <1>3, OutsideSteps
<1> QED
  BY <1>1, <1>2, <1>3 DEF Next

-----------------------------------------------------------------------------
\* Types; whoever polls or awaits a receipt has a submitted transaction.
THEOREM TypeCorrect == Spec => []TypeOK
<1>1. IInv => TypeOK
  BY DEF IInv
<1> QED
  BY InitIInv, Inductive, <1>1, PTL DEF Spec

\* No caller is told of an execution or of a failure that did not happen, with
\* any number of threads, wallets, operations and polls.
THEOREM ReportsAlwaysTrue == Spec => []ReportsAreTrue
<1>1. IInv => ReportsAreTrue
  BY DEF IInv
<1> QED
  BY InitIInv, Inductive, <1>1, PTL DEF Spec
=============================================================================
