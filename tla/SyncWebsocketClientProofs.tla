--------------------- MODULE SyncWebsocketClientProofs ----------------------
(***************************************************************************)
(* Theorems about SyncWebsocketClient, for any connections, closers and    *)
(* threads. The registry's invariant, Registry, speaks of WebsocketClient  *)
(* alone; each of its actions keeps it, whoever takes it.                  *)
(***************************************************************************)
EXTENDS SyncWebsocketClient, TLAPS

\* Every event but that of now is set, and closers have set those they name.
Epochs ==
    /\ 1..(epoch - 1) \subseteq closed
    /\ \A k \in Closers : closer[k].epoch # 0 => closer[k].epoch \in closed
    /\ \A k \in Closers : closer[k].pc = "closing" => closer[k].epoch # 0
    /\ \A k \in Closers : closer[k].pc = "idle" => closer[k].epoch = 0

\* A live connection with the event of now is registered; one whose event a
\* close() has set is in the list of that close(), which is not done.
Lists ==
    /\ \A c \in Live : of[c] = epoch => c \in registered
    /\ \A k \in Closers, c \in Live :
         closer[k].epoch # 0 /\ of[c] = closer[k].epoch
           => c \in closing[k] /\ closer[k].pc # "returned"

Registry == AsyncTypeOK /\ Epochs /\ Lists /\ LiveIsReachable

-----------------------------------------------------------------------------
\* A close() is at another label.
LEMMA CloserMoves ==
  ASSUME AsyncTypeOK, NEW k \in Closers, CloserAt(k, "returned")
  PROVE  /\ closer' \in [Closers -> [pc : {"idle", "closing", "returned", "cancelled"},
                                      epoch : 0..epoch]]
         /\ closer'[k].pc = "returned" /\ closer'[k].epoch = closer[k].epoch
         /\ \A j \in Closers \ {k} : closer'[j] = closer[j]
BY DEF AsyncTypeOK, CloserAt

\* Calls that open do not touch what Epochs is about.
LEMMA EpochsStay ==
  ASSUME Epochs, UNCHANGED <<epoch, closed, closer>>
  PROVE  Epochs'
BY DEF Epochs

\* A step of a run task.
LEMMA RunTaskKeeps ==
  ASSUME Registry, NEW c \in Conns,
         RunBegins(c) \/ Connected(c) \/ CallbacksReturn(c) \/ StartupEnds(c) \/ SocketLost(c) \/ GivesUp(c) \/ StopsItself(c) \/ Killed(c)
  PROVE  Registry'
<1> USE ConstantsAssumption DEF Registry, AsyncTypeOK, Epochs, Lists, LiveIsReachable, Live,
        Becomes, ShouldStop, OpenerAt, CloserAt, callVars, clientVars, runVars
<1>1. CASE RunBegins(c)
  <2>1. AsyncTypeOK'
    BY <1>1 DEF RunBegins
  <2>2. Epochs'
    <3>1. UNCHANGED <<epoch, closed, closer>>
      BY <1>1 DEF RunBegins
    <3> QED
      BY <3>1, EpochsStay
  <2>3. Lists'
    BY <1>1 DEF RunBegins
  <2>4. LiveIsReachable'
    <3>1. of[c] \in 1..epoch /\ epoch \in Nat /\ 1..(epoch - 1) \subseteq closed
      BY <1>1 DEF RunBegins
    <3>2. ~ShouldStop(c) => of[c] = epoch /\ epoch \notin closed
      <4> HIDE DEF Registry
      <4> QED
        BY <3>1
    <3> HIDE DEF Registry, Epochs, Lists
    <3> QED
      BY <1>1, <3>2 DEF RunBegins, Registry
  <2> QED
    BY <2>1, <2>2, <2>3, <2>4
<1>2. CASE Connected(c)
  <2>1. AsyncTypeOK'
    BY <1>2 DEF Connected
  <2>2. Epochs'
    BY <1>2 DEF Connected
  <2>3. Lists'
    BY <1>2 DEF Connected
  <2>4. LiveIsReachable'
    BY <1>2 DEF Connected
  <2> QED
    BY <2>1, <2>2, <2>3, <2>4
<1>3. CASE CallbacksReturn(c)
  <2>1. AsyncTypeOK'
    BY <1>3 DEF CallbacksReturn
  <2>2. Epochs'
    BY <1>3 DEF CallbacksReturn
  <2>3. Lists'
    BY <1>3 DEF CallbacksReturn
  <2>4. LiveIsReachable'
    BY <1>3 DEF CallbacksReturn
  <2> QED
    BY <2>1, <2>2, <2>3, <2>4
<1>4. CASE StartupEnds(c)
  <2>1. AsyncTypeOK'
    BY <1>4 DEF StartupEnds
  <2>2. Epochs'
    BY <1>4 DEF StartupEnds
  <2>3. Lists'
    BY <1>4 DEF StartupEnds
  <2>4. LiveIsReachable'
    BY <1>4 DEF StartupEnds
  <2> QED
    BY <2>1, <2>2, <2>3, <2>4
<1>5. CASE SocketLost(c)
  <2>1. AsyncTypeOK'
    BY <1>5 DEF SocketLost
  <2>2. Epochs'
    BY <1>5 DEF SocketLost
  <2>3. Lists'
    BY <1>5 DEF SocketLost
  <2>4. LiveIsReachable'
    BY <1>5 DEF SocketLost
  <2> QED
    BY <2>1, <2>2, <2>3, <2>4
<1>6. CASE GivesUp(c)
  <2>1. AsyncTypeOK'
    BY <1>6 DEF GivesUp, Ends
  <2>2. Epochs'
    BY <1>6 DEF GivesUp, Ends
  <2>3. Lists'
    BY <1>6 DEF GivesUp, Ends
  <2>4. LiveIsReachable'
    BY <1>6 DEF GivesUp, Ends
  <2> QED
    BY <2>1, <2>2, <2>3, <2>4
<1>7. CASE StopsItself(c)
  <2>1. AsyncTypeOK'
    BY <1>7 DEF StopsItself, Ends
  <2>2. Epochs'
    BY <1>7 DEF StopsItself, Ends
  <2>3. Lists'
    BY <1>7 DEF StopsItself, Ends
  <2>4. LiveIsReachable'
    BY <1>7 DEF StopsItself, Ends
  <2> QED
    BY <2>1, <2>2, <2>3, <2>4
<1>8. CASE Killed(c)
  <2>1. AsyncTypeOK'
    BY <1>8 DEF Killed, Ends
  <2>2. Epochs'
    BY <1>8 DEF Killed, Ends
  <2>3. Lists'
    BY <1>8 DEF Killed, Ends
  <2>4. LiveIsReachable'
    BY <1>8 DEF Killed, Ends
  <2> QED
    BY <2>1, <2>2, <2>3, <2>4
<1> QED
  BY <1>1, <1>2, <1>3, <1>4, <1>5, <1>6, <1>7, <1>8

\* A step of a call that opens, or of whoever has its handle.
LEMMA OpenerKeeps ==
  ASSUME Registry, NEW c \in Conns,
         Open(c) \/ OpenProceeds(c) \/ OpenReady(c) \/ StreamEnds(c) \/ OpenFails(c) \/ Aborted(c) \/ CancelOpener(c) \/ HandleCloses(c)
  PROVE  Registry'
<1> USE ConstantsAssumption DEF Registry, AsyncTypeOK, Epochs, Lists, LiveIsReachable, Live,
        Becomes, ShouldStop, OpenerAt, CloserAt, callVars, clientVars, runVars
<1>0. Open(c) => Opens(c)
  BY DEF Open, OpenChannelConnection, OpenRealTimeDataConnection
<1>1. CASE Opens(c)
  <2>1. AsyncTypeOK'
    BY <1>1 DEF Opens, EnsureOpen
  <2>2. Epochs'
    <3>1. UNCHANGED <<closed, closer>> /\ (epoch' = epoch \/ (epoch' = epoch + 1 /\ epoch \in closed))
      BY <1>1 DEF Opens, EnsureOpen
    <3>2. 1..(epoch' - 1) \subseteq closed
      <4>1. epoch \in Nat \ {0} /\ 1..(epoch - 1) \subseteq closed
        OBVIOUS
      <4> HIDE DEF Registry
      <4> QED
        BY <3>1, <4>1
    <3> QED
      BY <3>1, <3>2
  <2>3. Lists'
    BY <1>1 DEF Opens, EnsureOpen
  <2>4. LiveIsReachable'
    BY <1>1 DEF Opens, EnsureOpen
  <2> QED
    BY <2>1, <2>2, <2>3, <2>4
<1>2. CASE OpenProceeds(c)
  <2>1. AsyncTypeOK'
    BY <1>2 DEF OpenProceeds, Handle
  <2>2. Epochs'
    BY <1>2 DEF OpenProceeds, Handle
  <2>3. Lists'
    BY <1>2 DEF OpenProceeds, Handle
  <2>4. LiveIsReachable'
    BY <1>2 DEF OpenProceeds, Handle
  <2> QED
    BY <2>1, <2>2, <2>3, <2>4
<1>3. CASE OpenReady(c)
  <2>1. AsyncTypeOK'
    BY <1>3 DEF OpenReady, Handle
  <2>2. Epochs'
    BY <1>3 DEF OpenReady, Handle
  <2>3. Lists'
    BY <1>3 DEF OpenReady, Handle
  <2>4. LiveIsReachable'
    BY <1>3 DEF OpenReady, Handle
  <2> QED
    BY <2>1, <2>2, <2>3, <2>4
<1>4. CASE StreamEnds(c)
  <2>1. AsyncTypeOK'
    BY <1>4 DEF StreamEnds
  <2>2. Epochs'
    BY <1>4 DEF StreamEnds
  <2>3. Lists'
    BY <1>4 DEF StreamEnds
  <2>4. LiveIsReachable'
    BY <1>4 DEF StreamEnds
  <2> QED
    BY <2>1, <2>2, <2>3, <2>4
<1>5. CASE OpenFails(c)
  <2>1. AsyncTypeOK'
    BY <1>5 DEF OpenFails
  <2>2. Epochs'
    BY <1>5 DEF OpenFails
  <2>3. Lists'
    BY <1>5 DEF OpenFails
  <2>4. LiveIsReachable'
    BY <1>5 DEF OpenFails
  <2> QED
    BY <2>1, <2>2, <2>3, <2>4
<1>6. CASE Aborted(c)
  <2>1. AsyncTypeOK'
    BY <1>6 DEF Aborted
  <2>2. Epochs'
    BY <1>6 DEF Aborted
  <2>3. Lists'
    BY <1>6 DEF Aborted
  <2>4. LiveIsReachable'
    BY <1>6 DEF Aborted
  <2> QED
    BY <2>1, <2>2, <2>3, <2>4
<1>7. CASE CancelOpener(c)
  <2>1. AsyncTypeOK'
    BY <1>7 DEF CancelOpener
  <2>2. Epochs'
    BY <1>7 DEF CancelOpener
  <2>3. Lists'
    BY <1>7 DEF CancelOpener
  <2>4. LiveIsReachable'
    BY <1>7 DEF CancelOpener
  <2> QED
    BY <2>1, <2>2, <2>3, <2>4
<1>8. CASE HandleCloses(c)
  <2>1. AsyncTypeOK'
    BY <1>8 DEF HandleCloses
  <2>2. Epochs'
    BY <1>8 DEF HandleCloses
  <2>3. Lists'
    BY <1>8 DEF HandleCloses
  <2>4. LiveIsReachable'
    BY <1>8 DEF HandleCloses
  <2> QED
    BY <2>1, <2>2, <2>3, <2>4
<1> QED
  BY <1>0, <1>1, <1>2, <1>3, <1>4, <1>5, <1>6, <1>7, <1>8

\* A step of a close().
LEMMA CloserKeeps ==
  ASSUME Registry, NEW k \in Closers,
         StartClose(k) \/ CloserReturns(k) \/ CancelCloser(k)
  PROVE  Registry'
<1> USE ConstantsAssumption DEF Registry, AsyncTypeOK, Epochs, Lists, LiveIsReachable, Live,
        Becomes, ShouldStop, OpenerAt, CloserAt, callVars, clientVars, runVars
<1>1. CASE StartClose(k) /\ epoch \in closed
  <2>0. /\ CloserAt(k, "returned") /\ closer[k].epoch = 0 /\ closer[k].pc = "idle"
        /\ UNCHANGED <<closed, closing, epoch, registered, of, conn, killed, started, ready, opener>>
    BY <1>1 DEF StartClose
  <2> HIDE DEF CloserAt
  <2>1. AsyncTypeOK'
    BY <2>0, CloserMoves
  <2>2. Epochs'
    <3>1. closer'[k].pc = "returned" /\ closer'[k].epoch = 0 /\ \A j \in Closers \ {k} : closer'[j] = closer[j]
      BY <2>0, CloserMoves
    <3>2. UNCHANGED <<epoch, closed>> /\ Epochs
      BY <2>0
    <3> HIDE DEF Registry, AsyncTypeOK, Lists, LiveIsReachable, Live
    <3> QED
      BY <3>1, <3>2
  <2>3. Lists'
    <3>1. \A j \in Closers : closer'[j].epoch # 0 => closer'[j] = closer[j]
      BY <2>0, CloserMoves
    <3>2. Live' = Live
      BY <2>0
    <3>3. UNCHANGED <<closing, registered, of, epoch>>
      BY <2>0
    <3>4. Lists
      OBVIOUS
    <3> HIDE DEF Registry, AsyncTypeOK, Epochs, LiveIsReachable, Live
    <3> QED
      BY <3>1, <3>2, <3>3, <3>4
  <2>4. LiveIsReachable'
    <3>1. \A j \in Closers : closer[j].pc \in {"closing", "cancelled"} => closer'[j] = closer[j]
      BY <2>0, CloserMoves
    <3>2. Live' = Live
      BY <2>0
    <3>4. UNCHANGED <<closing, registered, of, epoch, closed, killed>>
      BY <2>0
    <3>3. LiveIsReachable
      OBVIOUS
    <3> HIDE DEF Registry, AsyncTypeOK, Epochs, Lists, Live
    <3> QED
      BY <3>1, <3>2, <3>3, <3>4
  <2> QED
    BY <2>1, <2>2, <2>3, <2>4
<1>4. CASE StartClose(k) /\ epoch \notin closed
  <2>1. AsyncTypeOK'
    BY <1>4 DEF StartClose
  <2>2. Epochs'
    BY <1>4 DEF StartClose
  <2>3. Lists'
    BY <1>4 DEF StartClose
  <2>4. LiveIsReachable'
    BY <1>4 DEF StartClose
  <2> QED
    BY <2>1, <2>2, <2>3, <2>4
<1>2. CASE CloserReturns(k)
  <2>1. AsyncTypeOK'
    BY <1>2 DEF CloserReturns
  <2>2. Epochs'
    BY <1>2 DEF CloserReturns
  <2>3. Lists'
    BY <1>2 DEF CloserReturns
  <2>4. LiveIsReachable'
    BY <1>2 DEF CloserReturns
  <2> QED
    BY <2>1, <2>2, <2>3, <2>4
<1>3. CASE CancelCloser(k)
  <2>1. AsyncTypeOK'
    BY <1>3 DEF CancelCloser
  <2>2. Epochs'
    BY <1>3 DEF CancelCloser
  <2>3. Lists'
    BY <1>3 DEF CancelCloser
  <2>4. LiveIsReachable'
    BY <1>3 DEF CancelCloser
  <2> QED
    BY <2>1, <2>2, <2>3, <2>4
<1> QED
  BY <1>1, <1>2, <1>3, <1>4

\* One of the calls that a close() gathers.
LEMMA ChildCloseKeeps ==
  ASSUME Registry, NEW k \in Closers, NEW c \in Conns,
         ChildCloses(k, c)
  PROVE  Registry'
<1> USE ConstantsAssumption DEF Registry, AsyncTypeOK, Epochs, Lists, LiveIsReachable, Live,
        Becomes, ShouldStop, OpenerAt, CloserAt, callVars, clientVars, runVars
<1>1. CASE ChildCloses(k, c)
  <2>1. AsyncTypeOK'
    BY <1>1 DEF ChildCloses
  <2>2. Epochs'
    BY <1>1 DEF ChildCloses
  <2>3. Lists'
    BY <1>1 DEF ChildCloses
  <2>4. LiveIsReachable'
    BY <1>1 DEF ChildCloses
  <2> QED
    BY <2>1, <2>2, <2>3, <2>4
<1> QED
  BY <1>1

\* The loop cancels run tasks, or nothing of the registry changes.
LEMMA LoopCancelsKeeps ==
  ASSUME Registry, killed' = killed \cup Alive,
         UNCHANGED <<conn, started, ready, clientVars, callVars>>
  PROVE  Registry'
<1> USE DEF AsyncTypeOK, LiveIsReachable, Live, Alive, callVars, clientVars
<1>1. AsyncTypeOK' /\ LiveIsReachable'
  BY DEF Registry
<1>2. Epochs' /\ Lists'
  BY DEF Registry, Epochs, Lists
<1> QED
  BY <1>1, <1>2 DEF Registry

LEMMA RegistryStays ==
  ASSUME Registry, UNCHANGED asyncVars
  PROVE  Registry'
BY DEF Registry, AsyncTypeOK, Epochs, Lists, LiveIsReachable, Live,
       asyncVars, runVars, clientVars, callVars

-----------------------------------------------------------------------------
(* The steps of the threads and of the loop.                               *)

LEMMA RegistryInductive ==
  ASSUME Registry, [Next]_vars
  PROVE  Registry'
<1>1. ASSUME NEW c \in Conns,
             RunDue(c) \/ RunMay(c) \/ HandleCloses(c) \/ StartupEnds(c)
      PROVE  Registry'
  BY <1>1, RunTaskKeeps, OpenerKeeps DEF RunDue, RunMay
<1>2. ASSUME NEW c \in Conns, OpenerStep(c) \/ Aborted(c) PROVE Registry'
  BY <1>2, OpenerKeeps DEF OpenerStep
<1>3. ASSUME NEW k \in Closers, CloserStep(k) PROVE Registry'
  BY <1>3, CloserKeeps, ChildCloseKeeps DEF CloserStep
<1>4. ASSUME NEW x \in Calls, Start(x) \/ Cancel(x) PROVE Registry'
  BY <1>4, OpenerKeeps, CloserKeeps DEF Start, Cancel, Calls
<1>5. CASE LoopDue \/ LoopMay
  BY <1>5, <1>1, <1>2, <1>3 DEF LoopDue, LoopMay
<1>6. CASE \E x \in Calls : Begin(x) \/ CancelCall(x)
  BY <1>6, <1>4 DEF Begin, CancelCall
<1>7. CASE \E x \in Calls : TestStopping(x) \/ Submit(x) \/ Answered(x)
  BY <1>7, RegistryStays DEF TestStopping, Submit, Answered
<1>8. CASE \E k \in Closers : ResultTimesOut(k) \/ Joined(k)
  BY <1>8, RegistryStays DEF ResultTimesOut, Joined
<1>9. CASE \E c \in Conns : StartupAnswered(c) \/ CallbackAsks(c)
  BY <1>9, <1>1, RegistryStays DEF StartupAnswered, CallbackAsks
<1>10. CASE ShutdownBegins \/ LoopStops
  BY <1>10, LoopCancelsKeeps DEF ShutdownBegins, LoopStops
<1>11. CASE LoopCloses \/ UNCHANGED vars
  BY <1>11, RegistryStays DEF LoopCloses, vars
<1> QED
  BY <1>5, <1>6, <1>7, <1>8, <1>9, <1>10, <1>11 DEF Next, Due

LEMMA RegistryInit == Init => Registry
<1> SUFFICES ASSUME Init PROVE Registry
  OBVIOUS
<1> USE DEF Init, AsyncInit, Live
<1>1. AsyncTypeOK
  BY DEF AsyncTypeOK
<1>2. Epochs /\ Lists /\ LiveIsReachable
  BY DEF Epochs, Lists, LiveIsReachable
<1> QED
  BY <1>1, <1>2 DEF Registry

\* Whoever has awaited close() may rely on it (_shutdown_connections).
THEOREM ClosedClientStaysOver == Spec => []ClosedClientIsOver
<1>1. Registry => ClosedClientIsOver
  BY DEF Registry, Lists, ClosedClientIsOver
<1> QED
  BY <1>1, RegistryInit, RegistryInductive, PTL DEF Spec

\* A connection that is alive can be ended (_run_connection, _ensure_open,
\* _shutdown_connections).
THEOREM LiveAlwaysReachable == Spec => []LiveIsReachable
<1>1. Registry => LiveIsReachable
  BY DEF Registry
<1> QED
  BY <1>1, RegistryInit, RegistryInductive, PTL DEF Spec

-----------------------------------------------------------------------------
(* No call is lost.                                                        *)

Begun(x) == IF x \in Conns THEN opener[x] # "idle" ELSE closer[x].pc # "idle"

ThreadTypes ==
    /\ api \in Apis /\ stopping \in BOOLEAN
    /\ loop \in {"running", "stopping", "draining", "closed", "blocked"}
    /\ queued \subseteq Calls /\ cancelled \subseteq Calls /\ late \subseteq Calls
    /\ caller \in [Calls -> {"idle", "submitting", "waiting", "joining", "returned", "raised"}]

\* Only threads stop the loop, and only calls handed over since then are still
\* in the queue, or under way without being cancelled.
StoppingOrder ==
    /\ api = "async" => ~stopping /\ \A x \in Calls : caller[x] = "idle"
    /\ loop \in {"stopping", "draining", "closed"} => stopping /\ queued \subseteq late
    /\ loop \in {"stopping", "draining"} => Tasks \subseteq cancelled \cup late
    /\ loop = "closed" => Tasks \subseteq late
    /\ \A x \in Calls : caller[x] = "waiting" => x \in queued \/ Begun(x)

IInv == Registry /\ ThreadTypes /\ StoppingOrder

\* A call that has begun goes on or ends, and no other begins.
GoOn == Tasks' \subseteq Tasks /\ \A x \in Calls : Begun(x) => Begun(x)'

LEMMA CallsStay ==
  ASSUME UNCHANGED callVars
  PROVE  GoOn
BY DEF callVars, GoOn, Tasks, InProgress, Begun

LEMMA OpenersGoOn ==
  ASSUME AsyncTypeOK, NEW c \in Conns, OpenerStep(c) \/ Aborted(c) \/ CancelOpener(c)
  PROVE  GoOn
<1>1. /\ opener[c] \notin {"idle", "returned", "raised", "cancelled"}
      /\ \E label \in {"subscribing", "until_closed", "returned", "aborting", "raised", "cancelled"} :
            opener' = [opener EXCEPT ![c] = label]
      /\ UNCHANGED closer
  BY DEF OpenerStep, OpenProceeds, OpenReady, StreamEnds, OpenFails, Aborted, CancelOpener,
         OpenerAt, Handle
<1> QED
  BY <1>1 DEF AsyncTypeOK, GoOn, Tasks, InProgress, Begun, Calls

LEMMA ClosersGoOn ==
  ASSUME AsyncTypeOK, NEW k \in Closers, CloserStep(k) \/ CancelCloser(k)
  PROVE  GoOn
<1>1. CASE \E c \in Conns : ChildCloses(k, c)
  BY <1>1, CallsStay DEF ChildCloses
<1>2. CASE CloserReturns(k) \/ CancelCloser(k)
  <2>1. /\ closer[k].pc = "closing" /\ UNCHANGED opener
        /\ \E label \in {"returned", "cancelled"} : closer' = [closer EXCEPT ![k].pc = label]
    BY <1>2 DEF CloserReturns, CancelCloser, CloserAt
  <2> QED
    BY <2>1 DEF AsyncTypeOK, GoOn, Tasks, InProgress, Begun, Calls
<1> QED
  BY <1>1, <1>2 DEF CloserStep

\* The loop goes on with what has begun, and the threads do not notice.
LEMMA LoopStepKeeps ==
  ASSUME IInv, GoOn, UNCHANGED threadVars
  PROVE  ThreadTypes' /\ StoppingOrder'
BY DEF IInv, GoOn, threadVars, ThreadTypes, StoppingOrder

\* A call begins.
LEMMA StartBegins ==
  ASSUME AsyncTypeOK, NEW x \in Calls, Start(x)
  PROVE  Tasks' \subseteq Tasks \cup {x} /\ \A y \in Calls : Begun(y) \/ y = x => Begun(y)'
<1>1. CASE x \in Conns
  <2>1. opener' = [opener EXCEPT ![x] = "waiting"] /\ UNCHANGED closer
    BY <1>1 DEF Start, Open, OpenChannelConnection, OpenRealTimeDataConnection, Opens, OpenerAt
  <2> QED
    BY <2>1, <1>1 DEF AsyncTypeOK, Tasks, InProgress, Begun, Calls
<1>2. CASE x \notin Conns
  <2>1. /\ UNCHANGED opener /\ closer[x].pc = "idle"
        /\ \/ closer' = [closer EXCEPT ![x].pc = "returned"]
           \/ closer' = [closer EXCEPT ![x] = [pc |-> "closing", epoch |-> epoch]]
    BY <1>2 DEF Start, StartClose, CloserAt
  <2> QED
    BY <2>1, <1>2 DEF AsyncTypeOK, Tasks, InProgress, Begun, Calls
<1> QED
  BY <1>1, <1>2

LEMMA ThreadsInductive ==
  ASSUME IInv, [Next]_vars
  PROVE  ThreadTypes' /\ StoppingOrder'
<1> USE DEF ThreadTypes, StoppingOrder
<1>0. AsyncTypeOK
  BY DEF IInv, Registry
<1>1. CASE LoopDue \/ LoopMay \/ \E c \in Conns : StartupAnswered(c)
  <2>1. GoOn /\ UNCHANGED threadVars
    BY <1>0, <1>1, CallsStay, OpenersGoOn, ClosersGoOn
       DEF LoopDue, LoopMay, StartupAnswered, RunDue, RunMay, HandleCloses, RunBegins, GivesUp,
           Killed, Ends, Connected, CallbacksReturn, SocketLost, StopsItself, StartupEnds
  <2> QED
    BY <2>1, LoopStepKeeps
<1>2. ASSUME NEW x \in Calls, CancelCall(x)
      PROVE  ThreadTypes' /\ StoppingOrder'
  <2>1. GoOn /\ UNCHANGED threadVars
    BY <1>0, <1>2, OpenersGoOn, ClosersGoOn DEF CancelCall, Cancel, Calls
  <2> QED
    BY <2>1, LoopStepKeeps
<1>3. ASSUME NEW x \in Calls, Begin(x)
      PROVE  ThreadTypes' /\ StoppingOrder'
  <2>1. Tasks' \subseteq Tasks \cup {x} /\ \A y \in Calls : Begun(y) \/ y = x => Begun(y)'
    BY <1>0, <1>3, StartBegins DEF Begin
  <2> QED
    BY <1>3, <2>1 DEF IInv, Begin, LoopRuns
<1>4. ASSUME NEW x \in Calls, TestStopping(x) \/ Submit(x) \/ Answered(x)
      PROVE  ThreadTypes' /\ StoppingOrder'
  <2>1. GoOn
    BY <1>4, CallsStay DEF TestStopping, Submit, Answered, asyncVars
  <2> QED
    BY <1>4, <2>1 DEF IInv, TestStopping, Submit, Answered, CallerAt, GoOn
<1>5. ASSUME NEW k \in Closers, ResultTimesOut(k) \/ Joined(k)
      PROVE  ThreadTypes' /\ StoppingOrder'
  <2>1. GoOn
    BY <1>5, CallsStay DEF ResultTimesOut, Joined, asyncVars
  <2> QED
    BY <1>5, <2>1 DEF IInv, ResultTimesOut, Joined, CallerAt, GoOn, Calls
<1>6. ASSUME NEW c \in Conns, CallbackAsks(c)
      PROVE  ThreadTypes' /\ StoppingOrder'
  <2>1. GoOn
    BY <1>6, CallsStay DEF CallbackAsks, asyncVars
  <2> QED
    BY <1>6, <2>1 DEF IInv, CallbackAsks, GoOn
<1>7. CASE ShutdownBegins \/ LoopStops
  <2>1. GoOn
    BY <1>7, CallsStay DEF ShutdownBegins, LoopStops
  <2> QED
    BY <1>7, <2>1 DEF IInv, ShutdownBegins, LoopStops, GoOn, Tasks
<1>8. CASE LoopCloses
  <2>1. GoOn
    BY <1>8, CallsStay DEF LoopCloses, asyncVars
  <2> QED
    BY <1>8, <2>1 DEF IInv, LoopCloses, GoOn
<1>9. CASE UNCHANGED vars
  BY <1>9, CallsStay, LoopStepKeeps DEF vars, asyncVars
<1> QED
  BY <1>1, <1>2, <1>3, <1>4, <1>5, <1>6, <1>7, <1>8, <1>9 DEF Next, Due

LEMMA InitIInv == Init => IInv
BY RegistryInit, ApisAssumption DEF Init, AsyncInit, IInv, ThreadTypes, StoppingOrder, Tasks, InProgress

LEMMA Inductive == IInv /\ [Next]_vars => IInv'
BY RegistryInductive, ThreadsInductive DEF IInv

\* Types, of the client and of its threads.
THEOREM TypeCorrect == Spec => []TypeOK
<1>1. IInv => TypeOK
  BY DEF IInv, Registry, ThreadTypes, TypeOK
<1> QED
  BY <1>1, InitIInv, Inductive, PTL DEF Spec

\* Every thread that waits can be answered when the loop is gone (submit, _run,
\* _shutdown_loop).
THEOREM NoCallIsLost == Spec => []NoCallLost
<1>1. IInv => NoCallLost
  <2> SUFFICES ASSUME IInv, loop = "closed", NEW x \in Calls, caller[x] = "waiting", x \notin late
               PROVE  Result(x) \/ Raised(x)
    BY DEF NoCallLost
  <2>1. Begun(x) /\ ~InProgress(x)
    BY DEF IInv, StoppingOrder, Tasks
  <2> QED
    BY <2>1 DEF IInv, Registry, AsyncTypeOK, Begun, InProgress, Result, Raised, Calls
<1> QED
  BY <1>1, InitIInv, Inductive, PTL DEF Spec
=============================================================================
