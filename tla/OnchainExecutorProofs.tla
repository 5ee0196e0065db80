----------------------- MODULE OnchainExecutorProofs ------------------------
(***************************************************************************)
(* Theorems about OnchainExecutor for any set of threads, any batch size   *)
(* and any number of transactions: types, and nonces that never collide.   *)
(*                                                                         *)
(* The strengthening says that everything handed out is at most _pending,  *)
(* so the nonce TakeNonce hands out, which is above _pending, is new even  *)
(* when the count it compares with is old.                                 *)
(***************************************************************************)
EXTENDS OnchainExecutor, FiniteSetTheorems, TLAPS

Busy(c) == pc[c] \in {"building", "sending", "waiting"}

\* Nothing handed out is above _pending.
BelowPending ==
    /\ pending = None => handed = <<>> /\ \A c \in Callers : ~Busy(c)
    /\ \A i \in DOMAIN handed : handed[i] <= pending
    /\ \A c \in Callers : Busy(c) => nonce[c] <= pending

\* A caller that is not idle still has a transaction to finish.
Working == \A c \in Callers : pc[c] # "idle" => todo[c] >= 1

IInv == TypeOK /\ Working /\ BelowPending /\ NoncesIncrease /\ NoCollision

\* The next nonce is a number, above everything handed out so far.
LEMMA NextNonceIsNew ==
    ASSUME TypeOK, BelowPending, NEW c \in Callers
    PROVE  /\ NextNonce(c) \in Nat
           /\ pending # None => NextNonce(c) > pending
BY ConstantsAssumption DEF NextNonce, TypeOK

LEMMA InitIInv == Init => IInv
<1> SUFFICES ASSUME Init PROVE IInv
  OBVIOUS
<1>1. TypeOK
  BY ConstantsAssumption, FS_EmptySet DEF Init, TypeOK
<1>2. BelowPending
  BY ConstantsAssumption DEF Init, BelowPending, Busy
<1>3. Working /\ NoncesIncrease /\ NoCollision
  BY DEF Init, Working, NoncesIncrease, NoCollision
<1> QED
  BY <1>1, <1>2, <1>3 DEF IInv

-----------------------------------------------------------------------------
Labels == {"idle", "counting", "counted", "building", "sending", "waiting"}

\* Moving to a label, and leaving with an exception, keep the types.
LEMMA GotoType ==
    ASSUME TypeOK, NEW c \in Callers, NEW label \in Labels, Goto(c, label)
    PROVE  pc' \in [Callers -> Labels]
BY DEF TypeOK, Goto, Labels

LEMMA RaiseType ==
    ASSUME TypeOK, NEW c \in Callers, Raise(c)
    PROVE  pc' \in [Callers -> Labels] /\ todo' \in [Callers -> 0..BatchSize]
<1>1. pc' \in [Callers -> Labels]
  BY GotoType DEF Raise, Labels
<1>2. todo' \in [Callers -> 0..BatchSize]
  BY ConstantsAssumption DEF TypeOK, Raise
<1> QED
  BY <1>1, <1>2

LEMMA TypePreserved == TypeOK /\ Working /\ [Next]_vars => TypeOK'
<1> SUFFICES ASSUME TypeOK, Working, [Next]_vars PROVE TypeOK'
  OBVIOUS
<1> USE ConstantsAssumption DEF TypeOK, callerVars, chainVars
<1>1. ASSUME NEW c \in Callers, Execute(c) PROVE TypeOK'
  BY <1>1 DEF Execute, Goto
<1>2. ASSUME NEW c \in Callers, ExecuteCalls(c) PROVE TypeOK'
  <2>1. PICK n \in {1, BatchSize} : todo' = [todo EXCEPT ![c] = n]
    BY <1>2 DEF ExecuteCalls
  <2>2. todo' \in [Callers -> 0..BatchSize]
    BY <2>1
  <2>3. pc' \in [Callers -> Labels]
    BY <1>2, GotoType DEF ExecuteCalls, Labels
  <2> QED
    BY <1>2, <2>2, <2>3 DEF ExecuteCalls, Labels
<1>3. Cardinality(pool) \in Nat
  BY FS_CardinalityType
<1>4. ASSUME NEW c \in Callers, CountAnswered(c) PROVE TypeOK'
  BY <1>3, <1>4 DEF CountAnswered, PendingCounts, Goto
<1>5. ASSUME NEW c \in Callers, TakeNonce(c) PROVE TypeOK'
  <2>1. NextNonce(c) \in Nat
    BY DEF NextNonce
  <2>2. pc' \in [Callers -> Labels]
    BY <1>5, GotoType DEF TakeNonce, Labels
  <2>3. pending' \in Nat /\ handed' \in Seq(Nat) /\ nonce' \in [Callers -> Nat]
    BY <1>5, <2>1 DEF TakeNonce
  <2> QED
    BY <1>5, <2>2, <2>3 DEF TakeNonce, Labels
<1>6. ASSUME NEW c \in Callers, Built(c) \/ BaseBuilt(c) PROVE TypeOK'
  <2>1. nonce[c] \in Nat
    OBVIOUS
  <2>2. burned' \in SUBSET Nat /\ base' \in SUBSET Callers
    BY <1>6, <2>1 DEF Built, BaseBuilt
  <2>3. pc' \in [Callers -> Labels]
    BY <1>6, GotoType DEF Built, BaseBuilt, Labels
  <2> QED
    BY <1>6, <2>2, <2>3 DEF Built, BaseBuilt, Labels
<1>7. ASSUME NEW c \in Callers, BuildFails(c) PROVE TypeOK'
  <2>1. nonce[c] \in Nat
    OBVIOUS
  <2>2. burned' \in SUBSET Nat
    BY <1>7, <2>1 DEF BuildFails
  <2> QED
    BY <1>7, <2>2, RaiseType DEF BuildFails, Labels
<1>8. ASSUME NEW c \in Callers, Sent(c) PROVE TypeOK'
  <2>1. nonce[c] \in Nat
    OBVIOUS
  <2>2. pool' \in SUBSET Nat /\ IsFiniteSet(pool')
    BY <1>8, <2>1, FS_AddElement DEF Sent
  <2>3. pc' \in [Callers -> Labels] /\ todo' \in [Callers -> 0..BatchSize]
    BY <1>8, GotoType, RaiseType DEF Sent, Labels
  <2> QED
    BY <1>8, <2>2, <2>3 DEF Sent, Labels
<1>9. ASSUME NEW c \in Callers, SendRejected(c) PROVE TypeOK'
  BY <1>9, RaiseType DEF SendRejected, Labels
<1>10. ASSUME NEW c \in Callers, SendFails(c) PROVE TypeOK'
  <2>1. nonce[c] \in Nat
    OBVIOUS
  <2>2. burned' \in SUBSET Nat
    BY <1>10, <2>1 DEF SendFails
  <2> QED
    BY <1>10, <2>2, RaiseType DEF SendFails, Labels
<1>11. ASSUME NEW c \in Callers, Receipt(c) PROVE TypeOK'
  <2>1. todo[c] \in 1..BatchSize /\ todo[c] - 1 \in 0..BatchSize
    BY <1>11 DEF Receipt, Working
  <2>2. pc' \in [Callers -> Labels] /\ todo' \in [Callers -> 0..BatchSize]
    BY <1>11, <2>1, GotoType, RaiseType DEF Receipt, Labels
  <2> QED
    BY <1>11, <2>2 DEF Receipt, Labels
<1>12. ASSUME NEW c \in Callers, TimesOut(c) PROVE TypeOK'
  BY <1>12, RaiseType DEF TimesOut, Labels
<1>13. CASE Mine
  <2>1. IsFiniteSet(pool')
    BY <1>13, FS_RemoveElement DEF Mine
  <2> QED
    BY <1>13, <2>1 DEF Mine
<1>14. CASE ExternalSend
  <2>1. pool' \in SUBSET Nat /\ IsFiniteSet(pool')
    BY <1>3, <1>14, FS_AddElement DEF ExternalSend, PendingCounts
  <2> QED
    BY <1>14, <2>1 DEF ExternalSend
<1>15. CASE UNCHANGED vars
  BY <1>15 DEF vars
<1> QED
  BY <1>1, <1>2, <1>4, <1>5, <1>6, <1>7, <1>8, <1>9, <1>10, <1>11, <1>12,
     <1>13, <1>14, <1>15 DEF Next, Step

LEMMA WorkingPreserved == TypeOK /\ Working /\ [Next]_vars => Working'
<1> SUFFICES ASSUME TypeOK, Working, [Next]_vars PROVE Working'
  OBVIOUS
<1> USE ConstantsAssumption DEF TypeOK, Working, Goto, callerVars, chainVars
<1>1. ASSUME NEW c \in Callers, Execute(c) \/ ExecuteCalls(c) PROVE Working'
  <2>1. /\ todo'[c] >= 1
        /\ \A d \in Callers \ {c} : pc'[d] = pc[d] /\ todo'[d] = todo[d]
    <3>1. CASE Execute(c)
      BY <3>1 DEF Execute
    <3>2. CASE ExecuteCalls(c)
      BY <3>2 DEF ExecuteCalls
    <3> QED
      BY <1>1, <3>1, <3>2
  <2> QED
    BY <2>1
<1>2. ASSUME NEW c \in Callers, CountAnswered(c) \/ TakeNonce(c) \/ Built(c) \/ BaseBuilt(c) PROVE Working'
  BY <1>2 DEF CountAnswered, TakeNonce, Built, BaseBuilt
<1>3. ASSUME NEW c \in Callers, Raise(c) PROVE Working'
  BY <1>3 DEF Raise
<1>4. ASSUME NEW c \in Callers, BuildFails(c) \/ SendRejected(c) \/ SendFails(c) \/ TimesOut(c)
      PROVE  Working'
  BY <1>3, <1>4 DEF BuildFails, SendRejected, SendFails, TimesOut
<1>5. ASSUME NEW c \in Callers, Sent(c) PROVE Working'
  <2>1. CASE Raise(c)
    BY <1>3, <2>1
  <2>2. CASE Goto(c, "waiting") /\ UNCHANGED todo
    <3>1. pc[c] # "idle" /\ \A d \in Callers \ {c} : pc'[d] = pc[d]
      BY <1>5, <2>2 DEF Sent
    <3> QED
      BY <2>2, <3>1
  <2> QED
    BY <1>5, <2>1, <2>2 DEF Sent
<1>6. ASSUME NEW c \in Callers, Receipt(c) PROVE Working'
  <2>1. CASE Raise(c)
    BY <1>3, <2>1
  <2>2. CASE /\ todo' = [todo EXCEPT ![c] = @ - 1]
             /\ Goto(c, IF todo[c] > 1 THEN "counting" ELSE "idle")
    <3>1. todo[c] \in Nat /\ todo'[c] = todo[c] - 1
      BY <2>2
    <3>2. pc'[c] # "idle" => todo'[c] >= 1
      BY <2>2, <3>1
    <3>3. \A d \in Callers \ {c} : pc'[d] = pc[d] /\ todo'[d] = todo[d]
      BY <2>2
    <3> QED
      BY <3>2, <3>3
  <2> QED
    BY <1>6, <2>1, <2>2 DEF Receipt
<1>7. CASE Mine \/ ExternalSend \/ UNCHANGED vars
  BY <1>7 DEF Mine, ExternalSend, vars
<1> QED
  BY <1>1, <1>2, <1>4, <1>5, <1>6, <1>7 DEF Next, Step

\* TakeNonce hands out a nonce above every earlier one; every other step keeps
\* the nonces and _pending, and makes no idle caller busy.
LEMMA NoncesPreserved ==
    IInv /\ TypeOK' /\ [Next]_vars => (BelowPending /\ NoncesIncrease /\ NoCollision)'
<1> SUFFICES ASSUME IInv, TypeOK', [Next]_vars
             PROVE  (BelowPending /\ NoncesIncrease /\ NoCollision)'
  OBVIOUS
<1> USE ConstantsAssumption DEF IInv
<1>1. ASSUME NEW c \in Callers, TakeNonce(c)
      PROVE  (BelowPending /\ NoncesIncrease /\ NoCollision)'
  <2>1. /\ pending' \in Nat /\ (pending # None => pending' > pending)
        /\ handed' = Append(handed, pending')
        /\ nonce' = [nonce EXCEPT ![c] = pending']
        /\ pc' \in [Callers -> {"idle", "counting", "counted", "building", "sending", "waiting"}]
        /\ \A d \in Callers \ {c} : pc'[d] = pc[d]
    BY <1>1, NextNonceIsNew DEF TakeNonce, Goto, TypeOK
  <2>2. \A i \in DOMAIN handed : handed[i] \in Nat /\ handed[i] < pending'
    BY <2>1 DEF BelowPending, TypeOK
  <2>3. \A d \in Callers \ {c} : Busy(d)' => Busy(d) /\ nonce'[d] = nonce[d] /\ nonce[d] < pending'
    BY <2>1 DEF BelowPending, Busy, TypeOK
  <2>4. NoncesIncrease'
    BY <2>1, <2>2 DEF NoncesIncrease, TypeOK
  <2>5. BelowPending'
    <3>1. \A i \in DOMAIN handed' : handed'[i] <= pending'
      BY <2>1, <2>2 DEF TypeOK
    <3>2. \A d \in Callers : Busy(d)' => nonce'[d] <= pending'
      BY <2>1, <2>3 DEF TypeOK
    <3> QED
      BY <2>1, <3>1, <3>2 DEF BelowPending
  <2>6. NoCollision'
    <3>1. nonce'[c] = pending'
      BY <2>1 DEF TypeOK
    <3>2. ASSUME NEW d \in Callers, NEW e \in Callers, d # e, Busy(d)', Busy(e)'
          PROVE  nonce'[d] # nonce'[e]
      <4>1. CASE d # c /\ e # c
        BY <2>3, <3>2, <4>1 DEF NoCollision, Busy
      <4>2. CASE d = c
        BY <2>1, <2>3, <3>1, <3>2, <4>2 DEF TypeOK
      <4>3. CASE e = c
        BY <2>1, <2>3, <3>1, <3>2, <4>3 DEF TypeOK
      <4> QED
        BY <4>1, <4>2, <4>3
    <3> QED
      BY <3>2 DEF NoCollision, Busy
  <2> QED
    BY <2>4, <2>5, <2>6
<1>2. ASSUME UNCHANGED <<pending, handed, nonce>>,
             \A c \in Callers : Busy(c)' => Busy(c)
      PROVE  (BelowPending /\ NoncesIncrease /\ NoCollision)'
  BY <1>2 DEF BelowPending, NoncesIncrease, NoCollision, Busy
<1>3. ASSUME NEW c \in Callers,
             \/ Execute(c) \/ ExecuteCalls(c) \/ CountAnswered(c)
             \/ Built(c) \/ BaseBuilt(c) \/ BuildFails(c) \/ Sent(c) \/ SendRejected(c) \/ SendFails(c)
             \/ Receipt(c) \/ TimesOut(c)
      PROVE  UNCHANGED <<pending, handed, nonce>> /\ \A d \in Callers : Busy(d)' => Busy(d)
  BY <1>3 DEF Execute, ExecuteCalls, CountAnswered, Built, BaseBuilt, BuildFails, Sent, SendRejected,
              SendFails, Receipt, TimesOut, Raise, Goto, Busy, TypeOK, callerVars, chainVars
<1>4. CASE Mine \/ ExternalSend \/ UNCHANGED vars
  BY <1>2, <1>4 DEF Mine, ExternalSend, vars, callerVars, Busy
<1> QED
  BY <1>1, <1>2, <1>3, <1>4 DEF Next, Step

-----------------------------------------------------------------------------
LEMMA SpecIInv == Spec => []IInv
<1>1. IInv /\ [Next]_vars => IInv'
  BY TypePreserved, WorkingPreserved, NoncesPreserved DEF IInv
<1> QED
  BY <1>1, InitIInv, PTL DEF Spec

\* Every variable has its type in every reachable state.
THEOREM TypeCorrect == Spec => []TypeOK
<1>1. IInv => TypeOK
  BY DEF IInv
<1> QED
  BY <1>1, SpecIInv, PTL

\* NonceManager hands every nonce out once and in increasing order, for any
\* number of threads and however old the counts they compare with are.
THEOREM NoncesAlwaysIncrease == Spec => []NoncesIncrease
<1>1. IInv => NoncesIncrease
  BY DEF IInv
<1> QED
  BY <1>1, SpecIInv, PTL

\* No two threads ever have transactions of the same nonce in flight.
THEOREM NoncesNeverCollide == Spec => []NoCollision
<1>1. IInv => NoCollision
  BY DEF IInv
<1> QED
  BY <1>1, SpecIInv, PTL
=============================================================================
