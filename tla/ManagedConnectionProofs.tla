----------------------- MODULE ManagedConnectionProofs -----------------------
(***************************************************************************)
(* Theorems about ManagedConnection for any queue size, any policy, any    *)
(* number of frames and any set of closing tasks.                          *)
(***************************************************************************)
EXTENDS ManagedConnection, SequenceTheorems, TLAPS

\* The frames on their way to the callback are in order: what was delivered is
\* before what is queued, and both are before what the server sends next.
Ordered ==
    /\ \A i \in DOMAIN delivered : delivered[i] < next
    /\ \A i \in DOMAIN queue : queue[i] < next
    /\ \A i \in DOMAIN delivered, j \in DOMAIN queue :
          queue[j] # Sentinel => delivered[i] < queue[j]
    /\ \A i, j \in DOMAIN queue :
          i < j /\ queue[i] # Sentinel /\ queue[j] # Sentinel => queue[i] < queue[j]

\* The reader and the processor of a socket only live while run() serves it,
\* and a closing task goes on only when run() is over.
TasksBelongToRun ==
    /\ run \in {"connecting", "opening", "leaving", "disconnecting", "backoff", "done"} =>
          reader # "reading" /\ proc \notin {"getting", "delivering"}
    /\ run = "await_processor" => reader # "reading"
    /\ (\E c \in Closers : closer[c] \in {"returned", "raised"}) => run = "done"

OrderInv == Ordered /\ InOrderAndOnce

\* Accounting has an invariant of its own, AccountInv, below.
IInv == TypeOK /\ OrderInv /\ TasksBelongToRun

Queues == Seq(Frames \cup {Sentinel})

-----------------------------------------------------------------------------
(* What the operations do to a queue of numbers.                           *)

LEMMA TailFacts ==
    ASSUME NEW S, NEW q \in Seq(S), q # <<>>
    PROVE  /\ Tail(q) \in Seq(S) /\ Len(Tail(q)) = Len(q) - 1
           /\ Head(q) \in S /\ Head(q) = q[1] /\ 1 \in DOMAIN q
           /\ \A i \in DOMAIN Tail(q) : i + 1 \in DOMAIN q /\ Tail(q)[i] = q[i + 1]
OBVIOUS

LEMMA AppendFacts ==
    ASSUME NEW S, NEW q \in Seq(S), NEW e \in S
    PROVE  /\ Append(q, e) \in Seq(S) /\ Len(Append(q, e)) = Len(q) + 1
           /\ \A i \in DOMAIN Append(q, e) :
                 \/ i \in DOMAIN q /\ Append(q, e)[i] = q[i]
                 \/ i = Len(q) + 1 /\ Append(q, e)[i] = e
           /\ \A i \in DOMAIN q : i < Len(q) + 1
OBVIOUS

\* Making room and putting the sentinel behind keep the bound of the queue.
LEMMA SentinelType ==
    ASSUME TypeOK, PutSentinel
    PROVE  /\ queue' \in Queues /\ Len(queue') <= QueueSize /\ counted' \subseteq Frames
<1> USE ConstantsAssumption DEF TypeOK, Queues
<1>1. CASE Len(queue) < QueueSize
  BY <1>1 DEF PutSentinel
<1>2. CASE ~(Len(queue) < QueueSize)
  <2>1. queue # <<>>
    BY <1>2
  <2>2. queue' = Append(Tail(queue), Sentinel) /\ counted' = counted \cup ({Head(queue)} \ {Sentinel})
    BY <1>2 DEF PutSentinel
  <2>3. /\ Tail(queue) \in Seq(Frames \cup {Sentinel}) /\ Len(Tail(queue)) = Len(queue) - 1
        /\ Head(queue) \in Frames \cup {Sentinel}
    BY <2>1, TailFacts
  <2> QED
    BY <2>2, <2>3, AppendFacts
<1> QED
  BY <1>1, <1>2

\* A queue made of the old one, perhaps without its head, and a sentinel keeps
\* the order of the frames in it.
LEMMA SentinelKeepsOrder ==
    ASSUME TypeOK, Ordered, PutSentinel, UNCHANGED <<next, delivered>>
    PROVE  Ordered'
<1> USE ConstantsAssumption DEF TypeOK, Queues, Sentinel
<1>1. next > 0
  BY DEF Frames
<1>2. CASE Len(queue) < QueueSize
  <2>1. queue' = Append(queue, Sentinel)
    BY <1>2 DEF PutSentinel
  <2> QED
    BY <1>1, <2>1, AppendFacts DEF Ordered
<1>3. CASE ~(Len(queue) < QueueSize)
  <2>1. queue # <<>>
    BY <1>3
  <2>2. queue' = Append(Tail(queue), Sentinel)
    BY <1>3 DEF PutSentinel
  <2>3. /\ Tail(queue) \in Seq(Frames \cup {Sentinel})
        /\ \A i \in DOMAIN Tail(queue) : i + 1 \in DOMAIN queue /\ Tail(queue)[i] = queue[i + 1]
    BY <2>1, TailFacts
  <2>4. \A i \in DOMAIN queue' :
           \/ i \in DOMAIN Tail(queue) /\ queue'[i] = queue[i + 1] /\ i + 1 \in DOMAIN queue
           \/ queue'[i] = Sentinel
    BY <2>2, <2>3, AppendFacts
  <2>5. \A i \in DOMAIN Tail(queue) : i \in Nat
    BY <2>3
  <2> QED
    BY <1>1, <2>4, <2>5 DEF Ordered
<1> QED
  BY <1>2, <1>3

LEMMA InitIInv == Init => IInv
<1> SUFFICES ASSUME Init PROVE IInv
  OBVIOUS
<1>1. TypeOK
  <2>1. closer \in [Closers -> {"idle", "closing", "waiting", "joining", "returned", "raised"}]
    BY DEF Init
  <2>2. next \in 1..(MaxFrames + 1) /\ Len(queue) <= QueueSize
    BY ConstantsAssumption DEF Init
  <2>3. queue \in Seq(Frames \cup {Sentinel}) /\ delivered \in Seq(Frames)
    BY DEF Init
  <2> QED
    BY <2>1, <2>2, <2>3 DEF Init, TypeOK, RunStates, Raised
<1>2. OrderInv
  BY DEF Init, OrderInv, Ordered, InOrderAndOnce
<1>3. TasksBelongToRun
  BY DEF Init, TasksBelongToRun
<1> QED
  BY <1>1, <1>2, <1>3 DEF IInv

-----------------------------------------------------------------------------
(* Types.                                                                  *)

\* The end of _run_connected keeps the types of what it touches.
LEMMA EndConnectedType ==
    ASSUME TypeOK, NEW e \in Raised \cup {"none"}, EndConnected(e)
    PROVE  /\ run' \in RunStates /\ exc' \in {"none"} \cup Raised /\ runCancel' \in BOOLEAN
           /\ reader' \in {"none", "reading", "ended", "cancelled", "fatal", "reconnect", "lost"}
           /\ proc' \in {"none", "getting", "delivering", "joining", "ended", "failed", "cancelled"}
           /\ queue' \in Queues /\ Len(queue') <= QueueSize /\ counted' \subseteq Frames
<1>1. queue' \in Queues /\ Len(queue') <= QueueSize /\ counted' \subseteq Frames
  <2>1. CASE ProcessorActive
    BY <2>1, SentinelType DEF EndConnected
  <2>2. CASE ~ProcessorActive
    BY <2>2 DEF EndConnected, TypeOK, Queues
  <2> QED
    BY <2>1, <2>2
<1>2. run' \in RunStates /\ exc' \in {"none"} \cup Raised
  BY DEF EndConnected, TypeOK, RunStates, Raised, ReaderFailed
<1>3. /\ reader' \in {"none", "reading", "ended", "cancelled", "fatal", "reconnect", "lost"}
      /\ proc' \in {"none", "getting", "delivering", "joining", "ended", "failed", "cancelled"}
  BY DEF EndConnected, TypeOK
<1>4. runCancel' \in BOOLEAN
  BY Zenon DEF EndConnected
<1> QED
  BY <1>1, <1>2, <1>3, <1>4

LEMMA RunStepType == TypeOK /\ RunStep => TypeOK'
<1> SUFFICES ASSUME TypeOK, RunStep PROVE TypeOK'
  OBVIOUS
<1> USE DEF TypeOK, RunStates, Raised, dataVars, taskVars
<1>1. CASE ConnectOk \/ ConnectFails \/ Opened \/ OpeningFails \/ ProcessorDone
  BY <1>1 DEF ConnectOk, ConnectFails, Opened, OpeningFails, ProcessorDone
<1>2. CASE SocketClosed
  <2>1. socket' \in {"none", "open", "closed", "broken"}
    BY <1>2 DEF SocketClosed, CloseSocket
  <2>2. CASE proc = "failed"
    BY <1>2, <2>1, <2>2, EndConnectedType DEF SocketClosed, Queues
  <2>3. CASE proc # "failed"
    BY <1>2, <2>1, <2>3 DEF SocketClosed
  <2> QED
    BY <2>2, <2>3
<1>3. CASE ReaderAwaited
  BY <1>3, EndConnectedType DEF ReaderAwaited, Queues
<1>4. CASE ReaderDone
  <2>1. CASE ReaderFailed
    BY <1>4, <2>1, EndConnectedType DEF ReaderDone, Queues
  <2>2. CASE ~ReaderFailed
    BY <1>4, <2>2, SentinelType DEF ReaderDone, Queues
  <2> QED
    BY <2>1, <2>2
<1>5. CASE ProcessorAwaited
  BY <1>5, EndConnectedType DEF ProcessorAwaited, Queues
<1>6. CASE Leave \/ Disconnected
  <2>1. stop' \in BOOLEAN
    BY <1>6, Zenon DEF Leave, Disconnected
  <2>2. run' \in RunStates /\ exc' \in {"none"} \cup Raised
    BY <1>6 DEF Leave, Disconnected
  <2>3. runCancel' \in BOOLEAN /\ socket' \in {"none", "open", "closed", "broken"}
    BY <1>6 DEF Leave, Disconnected
  <2> QED
    BY <1>6, <2>1, <2>2, <2>3 DEF Leave, Disconnected
<1>7. CASE Retry
  <2>1. queue' \in Queues /\ Len(queue') <= QueueSize
    <3>1. queue' = queue \/ queue' = <<>>
      BY <1>7 DEF Retry
    <3>2. <<>> \in Queues /\ Len(<<>>) = 0
      BY DEF Queues
    <3>3. queue \in Queues /\ 0 <= QueueSize
      BY ConstantsAssumption DEF Queues
    <3> QED
      BY <3>1, <3>2, <3>3
  <2>2. session' \subseteq Frames /\ counted' \subseteq Frames
    BY <1>7 DEF Retry
  <2> QED
    BY <1>7, <2>1, <2>2 DEF Retry, Queues
<1>8. CASE Cancelled
  <2>1. CASE run \in {"watching", "closing", "await_reader"}
    BY <1>8, <2>1, EndConnectedType DEF Cancelled, Queues
  <2>2. CASE run \notin {"watching", "closing", "await_reader"}
    BY <1>8, <2>2 DEF Cancelled
  <2> QED
    BY <2>1, <2>2
<1> QED
  BY <1>1, <1>2, <1>3, <1>4, <1>5, <1>6, <1>7, <1>8 DEF RunStep

LEMMA TypePreserved == TypeOK /\ [Next]_vars => TypeOK'
<1> SUFFICES ASSUME TypeOK, [Next]_vars PROVE TypeOK'
  OBVIOUS
<1> USE DEF TypeOK, taskVars, dataVars
<1>1. CASE RunStep
  BY <1>1, RunStepType
<1>2. CASE ReadFrame
  <2>1. next \in Frames /\ next' \in 1..(MaxFrames + 1)
    BY <1>2, ConstantsAssumption DEF ReadFrame, Frames
  <2>2. queue' \in Queues /\ Len(queue') <= QueueSize /\ counted' \subseteq Frames
    <3>1. CASE Len(queue) < QueueSize
      <4>1. queue' = Append(queue, next) /\ counted' = counted
        BY <1>2, <3>1, ConstantsAssumption DEF ReadFrame
      <4> QED
        BY <2>1, <3>1, <4>1, AppendFacts, ConstantsAssumption DEF Queues
    <3>2. CASE Len(queue) = QueueSize /\ policy = "drop_oldest"
      <4>1. queue' = Append(Tail(queue), next) /\ counted' = counted \cup ({Head(queue)} \ {Sentinel})
        BY <1>2, <3>2, ConstantsAssumption DEF ReadFrame
      <4>2. /\ Tail(queue) \in Queues /\ Len(Tail(queue)) = Len(queue) - 1
            /\ Head(queue) \in Frames \cup {Sentinel}
        BY <3>2, TailFacts, ConstantsAssumption DEF Queues
      <4>3. counted' \subseteq Frames
        BY <4>1, <4>2
      <4>4. queue' \in Queues /\ Len(queue') = Len(Tail(queue)) + 1
        BY <2>1, <4>1, <4>2, AppendFacts DEF Queues
      <4>5. Len(Tail(queue)) + 1 <= QueueSize
        BY <3>2, <4>2, ConstantsAssumption
      <4> QED
        BY <4>3, <4>4, <4>5
    <3>3. CASE Len(queue) = QueueSize /\ policy # "drop_oldest"
      <4>1. UNCHANGED <<queue, counted>>
        BY <1>2, <3>3, ConstantsAssumption DEF ReadFrame
      <4> QED
        BY <4>1 DEF Queues
    <3> QED
      BY <1>2, <3>1, <3>2, <3>3 DEF ReadFrame
  <2>3. session' \subseteq Frames
    BY <1>2, <2>1 DEF ReadFrame
  <2>4. reader' \in {"none", "reading", "ended", "cancelled", "fatal", "reconnect", "lost"}
    BY <1>2 DEF ReadFrame
  <2> QED
    BY <1>2, <2>1, <2>2, <2>3, <2>4 DEF ReadFrame, Queues
<1>3. CASE ReaderEnds \/ SocketEnds
  BY <1>3 DEF ReaderEnds, SocketEnds
<1>4. CASE Take
  <2>1. queue' \in Queues /\ Len(queue') <= QueueSize /\ Head(queue) \in Frames \cup {Sentinel}
    BY <1>4, TailFacts, ConstantsAssumption DEF Take, Queues
  <2>2. delivered' \in Seq(Frames)
    BY <1>4, <2>1 DEF Take
  <2> QED
    BY <1>4, <2>1, <2>2 DEF Take, Queues
<1>5. CASE CallbackReturns \/ CallbackFails \/ CallbackCloses \/ CallbackJoined
  BY <1>5 DEF CallbackReturns, CallbackFails, CallbackCloses, CallbackJoined
<1>6. ASSUME NEW c \in Closers, StartGraceful(c) PROVE TypeOK'
  BY <1>6 DEF StartGraceful, Awaiting
<1>7. ASSUME NEW c \in Closers, StartForce(c) PROVE TypeOK'
  BY <1>7 DEF StartForce
<1>8. ASSUME NEW c \in Closers, CloserWaits(c) PROVE TypeOK'
  <2>1. CASE CloserClosed(c)
    BY <2>1 DEF CloserClosed, CloseSocket, Awaiting
  <2>2. CASE Waited(c) \/ Joined(c)
    BY <2>2 DEF Waited, Joined
  <2>3. CASE WaitTimesOut(c)
    BY <2>3 DEF WaitTimesOut
  <2> QED
    BY <1>8, <2>1, <2>2, <2>3 DEF CloserWaits
<1>9. CASE UNCHANGED vars
  BY <1>9 DEF vars
<1> QED
  BY <1>1, <1>2, <1>3, <1>4, <1>5, <1>6, <1>7, <1>8, <1>9 DEF Next, ProcessorStep

-----------------------------------------------------------------------------
(* Order.                                                                  *)

\* EndConnected does nothing to the frames but what PutSentinel does.
LEMMA EndConnectedKeepsOrder ==
    ASSUME TypeOK, Ordered, NEW e, EndConnected(e), UNCHANGED <<next, delivered>>
    PROVE  Ordered'
<1>1. CASE ProcessorActive
  BY <1>1, SentinelKeepsOrder DEF EndConnected
<1>2. CASE ~ProcessorActive
  BY <1>2 DEF EndConnected, Ordered
<1> QED
  BY <1>1, <1>2

LEMMA RunStepKeepsOrder == TypeOK /\ Ordered /\ RunStep => Ordered' /\ UNCHANGED delivered
<1> SUFFICES ASSUME TypeOK, Ordered, RunStep PROVE Ordered' /\ UNCHANGED delivered
  OBVIOUS
<1>1. UNCHANGED <<next, delivered>>
  BY DEF RunStep, ConnectOk, ConnectFails, Opened, OpeningFails, ProcessorDone, SocketClosed,
         ReaderAwaited, ReaderDone, ProcessorAwaited, Leave, Disconnected, Retry, Cancelled, dataVars
<1>2. CASE \/ ConnectOk \/ ConnectFails \/ Opened \/ OpeningFails \/ ProcessorDone
           \/ Leave \/ Disconnected
  <2>1. UNCHANGED queue
    BY <1>2 DEF ConnectOk, ConnectFails, Opened, OpeningFails, ProcessorDone, Leave,
                Disconnected, dataVars
  <2> QED
    BY <1>1, <2>1 DEF Ordered
<1>3. CASE SocketClosed \/ ReaderAwaited \/ ReaderDone \/ ProcessorAwaited \/ Cancelled
  <2>1. \/ UNCHANGED queue
        \/ PutSentinel
        \/ \E e \in Raised \cup {"none"} : EndConnected(e)
    BY <1>3 DEF SocketClosed, ReaderAwaited, ReaderDone, ProcessorAwaited, Cancelled, Raised
  <2> QED
    BY <1>1, <2>1, SentinelKeepsOrder, EndConnectedKeepsOrder DEF Ordered
<1>4. CASE Retry
  <2>1. queue' = queue \/ queue' = <<>>
    BY <1>4 DEF Retry
  <2> QED
    BY <1>1, <2>1 DEF Ordered
<1> QED
  BY <1>1, <1>2, <1>3, <1>4 DEF RunStep

\* The frame that is read is above everything, and the oldest makes room.
LEMMA ReadFrameKeepsOrder == TypeOK /\ Ordered /\ ReadFrame => Ordered' /\ UNCHANGED delivered
<1> SUFFICES ASSUME TypeOK, Ordered, ReadFrame PROVE Ordered' /\ UNCHANGED delivered
  OBVIOUS
<1> USE DEF TypeOK
<1>1. next \in Frames /\ next' = next + 1 /\ next \in Nat /\ delivered' = delivered
  BY DEF ReadFrame, Frames
<1>2. \A i \in DOMAIN delivered : delivered[i] \in Nat
  <2>1. \A i \in DOMAIN delivered : delivered[i] \in Frames
    OBVIOUS
  <2> QED
    BY <2>1 DEF Frames
<1>3. \A i \in DOMAIN queue : queue[i] \in Nat /\ i \in Nat
  BY DEF Frames, Sentinel
<1>4. CASE UNCHANGED queue
  BY <1>1, <1>2, <1>3, <1>4 DEF Ordered
<1>5. CASE queue' = Append(queue, next)
  <2>1. \A i \in DOMAIN queue' :
           \/ i \in DOMAIN queue /\ queue'[i] = queue[i] /\ i < Len(queue) + 1
           \/ i = Len(queue) + 1 /\ queue'[i] = next
    BY <1>1, <1>5, AppendFacts
  <2>2. Len(queue) \in Nat
    OBVIOUS
  <2> HIDE DEF TypeOK
  <2> QED
    BY <1>1, <1>2, <1>3, <2>1, <2>2 DEF Ordered
<1>6. CASE queue # <<>> /\ queue' = Append(Tail(queue), next)
  <2>1. /\ Tail(queue) \in Seq(Frames \cup {Sentinel})
        /\ \A i \in DOMAIN Tail(queue) : i + 1 \in DOMAIN queue /\ Tail(queue)[i] = queue[i + 1]
    BY <1>6, TailFacts
  <2>2. \A i \in DOMAIN queue' :
           \/ /\ i \in DOMAIN Tail(queue) /\ i + 1 \in DOMAIN queue
              /\ queue'[i] = queue[i + 1] /\ i < Len(Tail(queue)) + 1 /\ i \in Nat
           \/ i = Len(Tail(queue)) + 1 /\ queue'[i] = next
    BY <1>1, <1>6, <2>1, AppendFacts
  <2>3. \A i \in DOMAIN delivered' : delivered'[i] < next'
    BY <1>1, <1>2 DEF Ordered
  <2>4. \A i \in DOMAIN queue' : queue'[i] < next'
    BY <1>1, <1>3, <2>2 DEF Ordered
  <2>5. \A i \in DOMAIN delivered', j \in DOMAIN queue' :
           queue'[j] # Sentinel => delivered'[i] < queue'[j]
    BY <1>1, <2>2 DEF Ordered
  <2>6. \A i, j \in DOMAIN queue' :
           i < j /\ queue'[i] # Sentinel /\ queue'[j] # Sentinel => queue'[i] < queue'[j]
    <3> SUFFICES ASSUME NEW i \in DOMAIN queue', NEW j \in DOMAIN queue', i < j,
                        queue'[i] # Sentinel, queue'[j] # Sentinel
                 PROVE  queue'[i] < queue'[j]
      OBVIOUS
    <3>1. Len(Tail(queue)) \in Nat
      BY <2>1
    <3>2. i \in DOMAIN Tail(queue) /\ i + 1 \in DOMAIN queue /\ queue'[i] = queue[i + 1] /\ i \in Nat
      BY <2>2, <3>1
    <3>3. CASE j \in DOMAIN Tail(queue) /\ j + 1 \in DOMAIN queue /\ queue'[j] = queue[j + 1] /\ j \in Nat
      <4>1. i + 1 < j + 1
        BY <3>2, <3>3
      <4> QED
        BY <3>2, <3>3, <4>1 DEF Ordered
    <3>4. CASE queue'[j] = next
      BY <3>2, <3>4 DEF Ordered
    <3> QED
      BY <2>2, <3>3, <3>4
  <2> QED
    BY <1>1, <2>3, <2>4, <2>5, <2>6 DEF Ordered
<1>7. \/ UNCHANGED queue
      \/ queue' = Append(queue, next)
      \/ queue # <<>> /\ queue' = Append(Tail(queue), next)
  BY ConstantsAssumption DEF ReadFrame
<1> QED
  BY <1>1, <1>4, <1>5, <1>6, <1>7

\* What is taken from the queue is above everything delivered before.
LEMMA TakeKeepsOrder == TypeOK /\ OrderInv /\ Take => OrderInv'
<1> SUFFICES ASSUME TypeOK, OrderInv, Take PROVE OrderInv'
  OBVIOUS
<1> USE DEF TypeOK
<1>1. /\ queue # <<>> /\ queue' = Tail(queue) /\ next' = next
      /\ \A i \in DOMAIN queue' : i + 1 \in DOMAIN queue /\ queue'[i] = queue[i + 1] /\ i \in Nat
      /\ 1 \in DOMAIN queue /\ Head(queue) = queue[1] /\ Head(queue) \in Frames \cup {Sentinel}
  BY TailFacts DEF Take
<1>2. CASE Head(queue) = Sentinel
  <2>1. delivered' = delivered
    BY <1>2 DEF Take
  <2>2. \A i, j \in DOMAIN queue' : i < j => i + 1 < j + 1
    BY <1>1
  <2>3. Ordered'
    BY <1>1, <2>1, <2>2 DEF OrderInv, Ordered
  <2> QED
    BY <2>1, <2>3 DEF OrderInv, InOrderAndOnce
<1>3. CASE Head(queue) # Sentinel
  <2>1. delivered' = Append(delivered, Head(queue)) /\ Head(queue) \in Frames
    BY <1>1, <1>3 DEF Take
  <2>2. \A i \in DOMAIN delivered' :
           \/ i \in DOMAIN delivered /\ delivered'[i] = delivered[i] /\ i < Len(delivered) + 1
           \/ i = Len(delivered) + 1 /\ delivered'[i] = queue[1]
    BY <1>1, <2>1, AppendFacts
  <2>3. \A i \in DOMAIN delivered : delivered[i] < queue[1] /\ i \in Nat
    BY <1>1, <1>3 DEF OrderInv, Ordered
  <2>4. \A j \in DOMAIN queue' : queue'[j] # Sentinel => queue[1] < queue'[j]
    <3> SUFFICES ASSUME NEW j \in DOMAIN queue', queue'[j] # Sentinel
                 PROVE  queue[1] < queue'[j]
      OBVIOUS
    <3>1. /\ j + 1 \in DOMAIN queue /\ 1 < j + 1
          /\ queue[j + 1] = queue'[j] /\ queue[j + 1] # Sentinel
      BY <1>1
    <3>2. 1 \in DOMAIN queue /\ queue[1] # Sentinel
      BY <1>1, <1>3
    <3>3. queue[1] < queue[j + 1]
      BY <3>1, <3>2, Zenon DEF OrderInv, Ordered
    <3> QED
      BY <3>1, <3>3
  <2>5. InOrderAndOnce'
    BY <2>2, <2>3 DEF OrderInv, InOrderAndOnce
  <2>6. Ordered'
    BY <1>1, <2>2, <2>3, <2>4 DEF OrderInv, Ordered
  <2> QED
    BY <2>5, <2>6 DEF OrderInv
<1> QED
  BY <1>2, <1>3

LEMMA OrderPreserved == TypeOK /\ OrderInv /\ [Next]_vars => OrderInv'
<1> SUFFICES ASSUME TypeOK, OrderInv, [Next]_vars PROVE OrderInv'
  OBVIOUS
<1>1. CASE RunStep
  BY <1>1, RunStepKeepsOrder DEF OrderInv, InOrderAndOnce
<1>2. CASE ReadFrame
  BY <1>2, ReadFrameKeepsOrder DEF OrderInv, InOrderAndOnce
<1>3. CASE Take
  BY <1>3, TakeKeepsOrder
<1>4. ASSUME UNCHANGED dataVars PROVE OrderInv'
  BY <1>4 DEF OrderInv, Ordered, InOrderAndOnce, dataVars
<1>5. CASE \/ ReaderEnds \/ SocketEnds \/ CallbackReturns \/ CallbackFails \/ CallbackCloses
           \/ CallbackJoined \/ UNCHANGED vars
  BY <1>4, <1>5 DEF ReaderEnds, SocketEnds, CallbackReturns, CallbackFails, CallbackCloses,
                    CallbackJoined, vars
<1>6. ASSUME NEW c \in Closers, StartGraceful(c) \/ StartForce(c) \/ CloserWaits(c)
      PROVE  OrderInv'
  BY <1>4, <1>6 DEF StartGraceful, StartForce, CloserWaits, CloserClosed, Waited, WaitTimesOut,
                    Joined
<1> QED
  BY <1>1, <1>2, <1>3, <1>5, <1>6 DEF Next, ProcessorStep

-----------------------------------------------------------------------------
(* Closing.                                                                *)

\* _run_connected leaves no reader, and no processor that calls the callback.
LEMMA EndConnectedStops ==
    ASSUME NEW e, EndConnected(e)
    PROVE  /\ reader' # "reading" /\ proc' \notin {"getting", "delivering"}
           /\ run' \in {"leaving", "reaping"}
BY DEF EndConnected

LEMMA RunStepStops == TypeOK /\ TasksBelongToRun /\ RunStep => TasksBelongToRun'
<1> SUFFICES ASSUME TypeOK, TasksBelongToRun, RunStep PROVE TasksBelongToRun'
  OBVIOUS
<1>1. run # "done" /\ UNCHANGED closer
  BY DEF RunStep, ConnectOk, ConnectFails, Opened, OpeningFails, ProcessorDone, SocketClosed,
         ReaderAwaited, ReaderDone, ProcessorAwaited, Leave, Disconnected, Retry, Cancelled
<1>2. SUFFICES /\ run' \in {"connecting", "opening", "leaving", "disconnecting", "backoff", "done"} =>
                      reader' # "reading" /\ proc' \notin {"getting", "delivering"}
               /\ run' = "await_processor" => reader' # "reading"
  BY <1>1 DEF TasksBelongToRun
<1>3. CASE \/ ConnectOk \/ ConnectFails \/ Opened \/ OpeningFails \/ ProcessorDone
           \/ Leave \/ Disconnected \/ Retry
  BY <1>3 DEF TasksBelongToRun, ConnectOk, ConnectFails, Opened, OpeningFails, ProcessorDone,
              Leave, Disconnected, Retry, dataVars
<1>4. CASE SocketClosed
  BY <1>4, EndConnectedStops DEF SocketClosed
<1>5. CASE ReaderAwaited \/ ProcessorAwaited
  BY <1>5, EndConnectedStops DEF ReaderAwaited, ProcessorAwaited
<1>6. CASE ReaderDone
  BY <1>6, EndConnectedStops DEF ReaderDone
<1>7. CASE Cancelled
  <2>1. CASE run \in {"connecting", "disconnecting", "backoff", "opening"}
    BY <1>7, <2>1 DEF Cancelled, TasksBelongToRun
  <2>2. CASE run \in {"watching", "closing", "await_reader"}
    BY <1>7, <2>2, EndConnectedStops DEF Cancelled
  <2>3. CASE run = "await_processor"
    BY <1>7, <2>3 DEF Cancelled, ProcessorActive, TasksBelongToRun
  <2> QED
    BY <1>7, <2>1, <2>2, <2>3 DEF Cancelled
<1> QED
  BY <1>3, <1>4, <1>5, <1>6, <1>7 DEF RunStep

LEMMA TasksPreserved == TypeOK /\ TasksBelongToRun /\ [Next]_vars => TasksBelongToRun'
<1> SUFFICES ASSUME TypeOK, TasksBelongToRun, [Next]_vars PROVE TasksBelongToRun'
  OBVIOUS
<1>1. CASE RunStep
  BY <1>1, RunStepStops
<1>2. CASE ReadFrame \/ ReaderEnds \/ SocketEnds \/ ProcessorStep
  BY <1>2 DEF TasksBelongToRun, ReadFrame, ReaderEnds, SocketEnds, ProcessorStep, Take,
              CallbackReturns, CallbackFails, CallbackCloses, CallbackJoined
<1>3. ASSUME NEW c \in Closers, StartGraceful(c) \/ StartForce(c) \/ CloserWaits(c)
      PROVE  TasksBelongToRun'
  <2>1. UNCHANGED <<run, reader, proc>>
    BY <1>3 DEF StartGraceful, StartForce, CloserWaits, CloserClosed, Waited, WaitTimesOut, Joined,
                taskVars
  <2>2. ASSUME NEW label, closer' = [closer EXCEPT ![c] = label],
               label \in {"returned", "raised"} => run = "done"
        PROVE  TasksBelongToRun'
    <3>1. \A d \in Closers : closer'[d] = IF d = c THEN label ELSE closer[d]
      BY <2>2 DEF TypeOK
    <3> QED
      BY <2>1, <2>2, <3>1 DEF TasksBelongToRun
  <2>3. CASE StartGraceful(c)
    BY <2>2, <2>3 DEF StartGraceful, Awaiting
  <2>4. CASE StartForce(c)
    BY <2>2, <2>4 DEF StartForce
  <2>5. CASE CloserClosed(c)
    BY <2>2, <2>5 DEF CloserClosed, Awaiting
  <2>6. CASE Waited(c) \/ WaitTimesOut(c) \/ Joined(c)
    BY <2>2, <2>6 DEF Waited, WaitTimesOut, Joined
  <2> QED
    BY <1>3, <2>3, <2>4, <2>5, <2>6 DEF CloserWaits
<1>4. CASE UNCHANGED vars
  BY <1>4 DEF TasksBelongToRun, vars, taskVars
<1> QED
  BY <1>1, <1>2, <1>3, <1>4 DEF Next

-----------------------------------------------------------------------------
(* Accounting.                                                             *)

\* A socket starts with an empty account, and keeps it.
Accounted ==
    /\ run \in {"connecting", "opening"} => session = {}
    /\ NothingUnaccounted

\* The frames that were not lost without being counted.
Known == Range(queue) \cup Range(delivered) \cup counted

LEMMA AppendRange ==
    ASSUME NEW S, NEW q \in Seq(S), NEW e \in S
    PROVE  Range(Append(q, e)) = Range(q) \cup {e}
<1> DEFINE r == Append(q, e)
<1>1. /\ DOMAIN r = DOMAIN q \cup {Len(q) + 1} /\ r[Len(q) + 1] = e
      /\ \A i \in DOMAIN q : r[i] = q[i]
  OBVIOUS
<1> HIDE DEF r
<1> QED
  BY <1>1 DEF Range, r

LEMMA TailRange ==
    ASSUME NEW S, NEW q \in Seq(S), q # <<>>
    PROVE  Range(q) = Range(Tail(q)) \cup {Head(q)}
<1>1. /\ 1 \in DOMAIN q /\ Head(q) = q[1]
      /\ \A i \in DOMAIN Tail(q) : i + 1 \in DOMAIN q /\ Tail(q)[i] = q[i + 1]
  BY TailFacts
<1>2. \A j \in DOMAIN q : j = 1 \/ (j - 1 \in DOMAIN Tail(q) /\ Tail(q)[j - 1] = q[j])
  OBVIOUS
<1>3. Range(q) \subseteq Range(Tail(q)) \cup {Head(q)}
  BY <1>1, <1>2 DEF Range
<1>4. Range(Tail(q)) \cup {Head(q)} \subseteq Range(q)
  BY <1>1 DEF Range
<1> QED
  BY <1>3, <1>4

LEMMA SentinelKeepsKnown ==
    ASSUME TypeOK, PutSentinel, UNCHANGED delivered
    PROVE  Known \subseteq Known' \cup {Sentinel}
<1>1. queue \in Seq(Frames \cup {Sentinel}) /\ Sentinel \in Frames \cup {Sentinel}
  BY DEF TypeOK
<1>2. CASE Len(queue) < QueueSize
  <2>0. queue' = Append(queue, Sentinel) /\ counted' = counted
    BY <1>2 DEF PutSentinel
  <2>1. Range(queue') = Range(queue) \cup {Sentinel}
    <3>1. Range(Append(queue, Sentinel)) = Range(queue) \cup {Sentinel}
      BY <1>1, AppendRange, SMT
    <3> QED
      BY <3>1, <2>0, Zenon
  <2> QED
    BY <2>0, <2>1 DEF Known
<1>3. CASE ~(Len(queue) < QueueSize)
  <2>1. queue # <<>>
    BY <1>1, <1>3, ConstantsAssumption
  <2>2. Tail(queue) \in Seq(Frames \cup {Sentinel}) /\ Range(queue) = Range(Tail(queue)) \cup {Head(queue)}
    BY <1>1, <2>1, TailFacts, TailRange
  <2>3. /\ queue' = Append(Tail(queue), Sentinel)
        /\ counted' = counted \cup ({Head(queue)} \ {Sentinel})
    BY <1>3 DEF PutSentinel
  <2>4. Range(queue') = Range(Tail(queue)) \cup {Sentinel}
    <3> DEFINE t == Tail(queue)
    <3>0. t \in Seq(Frames \cup {Sentinel}) /\ Sentinel \in Frames \cup {Sentinel}
      BY <1>1, <2>2
    <3> HIDE DEF t
    <3>1. Range(Append(t, Sentinel)) = Range(t) \cup {Sentinel}
      BY <3>0, AppendRange, SMT
    <3> QED
      BY <3>1, <2>3, Zenon DEF t
  <2> QED
    BY <2>2, <2>3, <2>4 DEF Known
<1> QED
  BY <1>2, <1>3

LEMMA NoSentinelInSession == TypeOK => Sentinel \notin session
BY DEF TypeOK, Frames, Sentinel

LEMMA ReadFrameAccounted ==
    ASSUME TypeOK, TasksBelongToRun, Accounted, ReadFrame
    PROVE  Accounted'
<1>1. /\ next \in Frames /\ queue \in Seq(Frames \cup {Sentinel}) /\ UNCHANGED <<run, delivered>>
      /\ run \notin {"connecting", "opening"}
  BY DEF ReadFrame, TypeOK, TasksBelongToRun
<1>a. next \in Frames \cup {Sentinel}
  BY <1>1
<1>2. session \subseteq Known => session' \subseteq Known' \cup {Sentinel}
  <2>1. CASE UNCHANGED <<queue, counted, session>>
    BY <1>1, <2>1 DEF Known
  <2>2. CASE queue' = Append(queue, next) /\ counted' = counted /\ session' = session \cup {next}
    <3>1. Range(queue') = Range(queue) \cup {next}
      <4>1. Range(Append(queue, next)) = Range(queue) \cup {next}
        BY <1>1, <1>a, AppendRange, SMT
      <4> QED
        BY <4>1, <2>2, Zenon
    <3> QED
      BY <1>1, <2>2, <3>1 DEF Known
  <2>3. CASE /\ queue # <<>> /\ queue' = Append(Tail(queue), next)
             /\ counted' = counted \cup ({Head(queue)} \ {Sentinel})
             /\ session' = session \cup {next}
    <3>1. Tail(queue) \in Seq(Frames \cup {Sentinel}) /\ Range(queue) = Range(Tail(queue)) \cup {Head(queue)}
      BY <1>1, <2>3, TailFacts, TailRange
    <3>2. Range(queue') = Range(Tail(queue)) \cup {next}
      <4> DEFINE t == Tail(queue)
      <4>0. t \in Seq(Frames \cup {Sentinel}) /\ next \in Frames \cup {Sentinel}
        BY <1>a, <3>1
      <4> HIDE DEF t
      <4>1. Range(Append(t, next)) = Range(t) \cup {next}
        BY <4>0, AppendRange, SMT
      <4> QED
        BY <4>1, <2>3, Zenon DEF t
    <3> QED
      BY <1>1, <2>3, <3>1, <3>2 DEF Known
  <2> QED
    BY <1>1, <2>1, <2>2, <2>3, ConstantsAssumption DEF ReadFrame
<1>3. Sentinel \notin session'
  BY <1>1, NoSentinelInSession DEF ReadFrame, Frames, Sentinel
<1> QED
  BY <1>1, <1>2, <1>3 DEF Accounted, NothingUnaccounted, Known

LEMMA TakeAccounted ==
    ASSUME TypeOK, Accounted, Take
    PROVE  Accounted'
<1>1. queue \in Seq(Frames \cup {Sentinel}) /\ queue # <<>> /\ queue' = Tail(queue)
      /\ UNCHANGED <<run, session, counted>>
  BY DEF Take, TypeOK
<1>2. Range(queue) = Range(queue') \cup {Head(queue)} /\ Head(queue) \in Frames \cup {Sentinel}
  BY <1>1, TailRange, TailFacts
<1>3. Known \subseteq Known' \cup {Sentinel}
  <2>1. CASE Head(queue) = Sentinel
    BY <1>1, <1>2, <2>1 DEF Take, Known
  <2>2. CASE Head(queue) # Sentinel
    <3>1. delivered' = Append(delivered, Head(queue)) /\ Head(queue) \in Frames /\ delivered \in Seq(Frames)
      BY <1>2, <2>2 DEF Take, TypeOK
    <3>2. Range(delivered') = Range(delivered) \cup {Head(queue)}
      <4>1. Range(Append(delivered, Head(queue))) = Range(delivered) \cup {Head(queue)}
        BY <3>1, AppendRange, SMT
      <4> QED
        BY <4>1, <3>1, Zenon
    <3> QED
      BY <1>1, <1>2, <3>2 DEF Known
  <2> QED
    BY <2>1, <2>2
<1> QED
  BY <1>1, <1>3, NoSentinelInSession DEF Accounted, NothingUnaccounted, Known

LEMMA RunStepAccounted ==
    ASSUME TypeOK, Accounted, RunStep
    PROVE  Accounted'
<1>1. CASE \/ ConnectOk \/ ConnectFails \/ Opened \/ OpeningFails \/ ProcessorDone
           \/ Leave \/ Disconnected
  BY <1>1 DEF ConnectOk, ConnectFails, Opened, OpeningFails, ProcessorDone, Leave, Disconnected,
              dataVars, Accounted, NothingUnaccounted
<1>2. ASSUME NEW e, EndConnected(e) PROVE Accounted'
  BY <1>2, EndConnectedStops DEF Accounted, NothingUnaccounted
<1>3. CASE SocketClosed
  BY <1>2, <1>3 DEF SocketClosed, Accounted, NothingUnaccounted
<1>4. CASE ReaderAwaited \/ ProcessorAwaited
  BY <1>2, <1>4 DEF ReaderAwaited, ProcessorAwaited
<1>5. CASE ReaderDone
  <2>1. CASE ReaderFailed
    BY <1>2, <1>5, <2>1 DEF ReaderDone
  <2>2. CASE ~ReaderFailed
    <3>1. /\ PutSentinel /\ run = "watching" /\ run' = "await_processor"
          /\ UNCHANGED <<session, delivered>>
      BY <1>5, <2>2 DEF ReaderDone
    <3>2. Known \subseteq Known' \cup {Sentinel}
      BY <3>1, SentinelKeepsKnown
    <3> QED
      BY <3>1, <3>2, NoSentinelInSession DEF Accounted, NothingUnaccounted, Known
  <2> QED
    BY <2>1, <2>2
<1>6. CASE Retry
  BY <1>6 DEF Retry, Accounted, NothingUnaccounted
<1>7. CASE Cancelled
  <2>1. CASE run \in {"watching", "closing", "await_reader"}
    BY <1>2, <1>7, <2>1 DEF Cancelled
  <2>2. CASE run \notin {"watching", "closing", "await_reader"}
    BY <1>7, <2>2 DEF Cancelled, Accounted, NothingUnaccounted
  <2> QED
    BY <2>1, <2>2
<1> QED
  BY <1>1, <1>3, <1>4, <1>5, <1>6, <1>7 DEF RunStep

-----------------------------------------------------------------------------
(* A callback that failed.                                                 *)

FailureOnItsWay ==
    proc = "failed" =>
        /\ run = "leaving" => exc # "none"
        /\ run = "disconnecting" => exc # "none" /\ (exc = "fatal" => stop)
        /\ run \in {"backoff", "connecting"} => exc \in {"lost", "reconnect"}

LEMMA EndConnectedRaises ==
    ASSUME TypeOK, NEW e, EndConnected(e)
    PROVE  proc' = "failed" => run' = "leaving" /\ exc' # "none"
BY DEF EndConnected, TypeOK, ReaderFailed

LEMMA RunStepFailure ==
    ASSUME TypeOK, TasksBelongToRun, FailureOnItsWay, RunStep
    PROVE  FailureOnItsWay'
<1> USE DEF FailureOnItsWay
<1>1. CASE ConnectOk \/ ConnectFails \/ Opened \/ OpeningFails \/ ProcessorDone \/ Retry
  BY <1>1 DEF ConnectOk, ConnectFails, Opened, OpeningFails, ProcessorDone, Retry
<1>2. ASSUME NEW e, EndConnected(e) PROVE FailureOnItsWay'
  BY <1>2, EndConnectedRaises
<1>3. CASE SocketClosed
  BY <1>2, <1>3 DEF SocketClosed
<1>4. CASE ReaderAwaited \/ ProcessorAwaited
  BY <1>2, <1>4 DEF ReaderAwaited, ProcessorAwaited
<1>5. CASE ReaderDone
  BY <1>2, <1>5 DEF ReaderDone
<1>6. CASE Leave
  <2>1. run = "leaving" /\ run' = "disconnecting" /\ proc' = proc
        /\ exc' = IF runCancel THEN "cancelled" ELSE exc
    BY <1>6 DEF Leave
  <2>2. exc' = "fatal" => stop'
    BY <1>6 DEF Leave
  <2> QED
    BY <2>1, <2>2
<1>7. CASE Disconnected
  BY <1>7 DEF Disconnected, TypeOK, Raised
<1>8. CASE Cancelled
  <2>1. CASE run \in {"watching", "closing", "await_reader"}
    BY <1>2, <1>8, <2>1 DEF Cancelled
  <2>2. CASE run \notin {"watching", "closing", "await_reader"}
    BY <1>8, <2>2 DEF Cancelled
  <2> QED
    BY <2>1, <2>2
<1> QED
  BY <1>1, <1>3, <1>4, <1>5, <1>6, <1>7, <1>8 DEF RunStep

AccountInv == Accounted /\ FailureOnItsWay

LEMMA AccountPreserved ==
    TypeOK /\ TasksBelongToRun /\ AccountInv /\ [Next]_vars => AccountInv'
<1> SUFFICES ASSUME TypeOK, TasksBelongToRun, AccountInv, [Next]_vars PROVE AccountInv'
  OBVIOUS
<1> USE DEF AccountInv
<1>1. CASE RunStep
  BY <1>1, RunStepAccounted, RunStepFailure
<1>2. CASE ReadFrame
  BY <1>2, ReadFrameAccounted DEF ReadFrame, FailureOnItsWay
<1>3. CASE Take
  BY <1>3, TakeAccounted DEF Take, FailureOnItsWay
<1>4. ASSUME UNCHANGED dataVars, UNCHANGED <<run, exc>>, stop => stop',
             proc' = "failed" => proc = "failed" \/ proc = "delivering"
      PROVE  AccountInv'
  BY <1>4 DEF Accounted, NothingUnaccounted, FailureOnItsWay, TasksBelongToRun, dataVars
<1>5. CASE \/ ReaderEnds \/ SocketEnds \/ CallbackReturns \/ CallbackFails \/ CallbackCloses
           \/ CallbackJoined \/ UNCHANGED vars
  BY <1>4, <1>5 DEF ReaderEnds, SocketEnds, CallbackReturns, CallbackFails, CallbackCloses,
                    CallbackJoined, vars, taskVars
<1>6. ASSUME NEW c \in Closers, StartGraceful(c) \/ StartForce(c) \/ CloserWaits(c)
      PROVE  AccountInv'
  BY <1>4, <1>6 DEF StartGraceful, StartForce, CloserWaits, CloserClosed, Waited, WaitTimesOut,
                    Joined, taskVars
<1> QED
  BY <1>1, <1>2, <1>3, <1>5, <1>6 DEF Next, ProcessorStep

LEMMA InitAccount == Init => AccountInv
BY DEF Init, AccountInv, Accounted, NothingUnaccounted, FailureOnItsWay

-----------------------------------------------------------------------------
LEMMA SpecIInv == Spec => []IInv
<1>1. IInv /\ [Next]_vars => IInv'
  BY TypePreserved, OrderPreserved, TasksPreserved DEF IInv
<1> QED
  BY <1>1, InitIInv, PTL DEF Spec

\* Every variable has its type, and the queue never exceeds its bound, the
\* sentinel included.
THEOREM TypeCorrect == Spec => []TypeOK
<1>1. IInv => TypeOK
  BY DEF IInv
<1> QED
  BY <1>1, SpecIInv, PTL

\* process_event sees the frames in the order the server sent them and none
\* twice, whatever is dropped and however often the connection is replaced.
THEOREM DeliveredInOrderAndOnce == Spec => []InOrderAndOnce
<1>1. IInv => InOrderAndOnce
  BY DEF IInv, OrderInv
<1> QED
  BY <1>1, SpecIInv, PTL

\* Whichever way a task that closes the connection goes on, no task of the
\* connection is left that reads or is about to call process_event.
THEOREM ClosedConnectionIsOver == Spec => []ClosedMeansOver
<1>1. IInv => ClosedMeansOver
  BY DEF IInv, TasksBelongToRun, ClosedMeansOver
<1> QED
  BY <1>1, SpecIInv, PTL

\* While a socket is served, no frame that was queued gets lost unseen: it waits,
\* was delivered, or is counted as dropped; with any queue and any policy.
THEOREM NoFrameIsLostUnseen == Spec => []NothingUnaccounted
<1>1. AccountInv => NothingUnaccounted
  BY DEF AccountInv, Accounted
<1>2. IInv => TypeOK /\ TasksBelongToRun
  BY DEF IInv
<1> QED
  BY <1>1, <1>2, SpecIInv, InitAccount, AccountPreserved, PTL DEF Spec

\* A failing callback under "disconnect" ends the connection for good, unless
\* the exception of the reader has taken its place.
THEOREM FailureStopsForGood == Spec => []FailureStopsUnlessReaderFailed
<1>1. AccountInv => FailureStopsUnlessReaderFailed
  BY DEF AccountInv, FailureOnItsWay, FailureStopsUnlessReaderFailed
<1>2. IInv => TypeOK /\ TasksBelongToRun
  BY DEF IInv
<1> QED
  BY <1>1, <1>2, SpecIInv, InitAccount, AccountPreserved, PTL DEF Spec

-----------------------------------------------------------------------------
(* The refinement of FrameDelivery.                                        *)

NoSentinel(q) == \A i \in DOMAIN q : q[i] # Sentinel
SentinelLast(q) == \A i \in DOMAIN q : i < Len(q) => q[i] # Sentinel

\* Why a session starts with nothing in the queue, why its sentinel is the last
\* item there, and why a processor that has ended of itself leaves nothing.
SessionInv ==
    /\ run \in {"connecting", "opening"} => queue = <<>> /\ counted = {}
    /\ run \in {"watching", "closing", "await_reader"} =>
          /\ NoSentinel(queue)
          /\ ProcessorActive \/ proc = "failed" \/ stop
    /\ run \in {"closing", "await_reader"} => ~ProcessorActive
    /\ run = "await_processor" =>
          /\ SentinelLast(queue)
          /\ ProcessorActive \/ proc = "failed" \/ stop \/ queue = <<>>
    /\ run = "reaping" => proc = "joining" /\ reader # "reading"
    /\ proc = "joining" => stop

\* run() has handed the socket to its reader and its processor.
Serves == run \in {"watching", "closing", "await_reader", "await_processor", "reaping"}

-----------------------------------------------------------------------------
(* SessionInv is inductive.                                                *)

LEMMA InitSession == Init => SessionInv
BY DEF Init, SessionInv

\* Whatever ends _run_connected, the session is over, or waits for a callback
\* that waits for run().
LEMMA EndConnectedSession ==
    ASSUME TypeOK, SessionInv, NEW e, EndConnected(e), UNCHANGED stop
    PROVE  SessionInv'
<1>1. proc' = "joining" => proc = "joining"
  BY DEF EndConnected
<1>2. reader' # "reading"
  BY DEF EndConnected
<1>3. run' = "leaving" \/ (run' = "reaping" /\ proc = "joining")
  BY DEF EndConnected
<1>4. proc = "joining" => proc' = "joining"
  BY DEF EndConnected
<1> QED
  BY <1>1, <1>2, <1>3, <1>4 DEF SessionInv

\* The sentinel goes behind everything, and there was none.
LEMMA SentinelIsLast ==
    ASSUME TypeOK, NoSentinel(queue), PutSentinel
    PROVE  SentinelLast(queue')
<1> USE ConstantsAssumption DEF TypeOK, NoSentinel, SentinelLast
<1>1. CASE Len(queue) < QueueSize
  <2>1. queue' = Append(queue, Sentinel)
    BY <1>1 DEF PutSentinel
  <2> QED
    BY <2>1, AppendFacts
<1>2. CASE ~(Len(queue) < QueueSize)
  <2> DEFINE rest == Tail(queue)
  <2>1. queue' = Append(rest, Sentinel)
    BY <1>2 DEF PutSentinel
  <2>2. /\ rest \in Seq(Frames \cup {Sentinel})
        /\ \A i \in DOMAIN rest : rest[i] # Sentinel
    BY <1>2, TailFacts
  <2> HIDE DEF rest
  <2> QED
    BY <2>1, <2>2, AppendFacts
<1> QED
  BY <1>1, <1>2

LEMMA RunStepSession ==
    ASSUME TypeOK, TasksBelongToRun, SessionInv, RunStep
    PROVE  SessionInv'
<1> USE DEF SessionInv
<1>1. CASE ConnectOk \/ ConnectFails \/ OpeningFails \/ Leave \/ Disconnected
  BY <1>1 DEF ConnectOk, ConnectFails, OpeningFails, Leave, Disconnected, dataVars
<1>2. CASE Opened
  BY <1>2 DEF Opened, dataVars, NoSentinel, ProcessorActive
<1>3. CASE ProcessorDone
  BY <1>3 DEF ProcessorDone, dataVars, ProcessorActive
<1>4. CASE SocketClosed
  <2>1. CASE proc = "failed"
    BY <1>4, <2>1, EndConnectedSession DEF SocketClosed
  <2>2. CASE proc # "failed"
    BY <1>4, <2>2 DEF SocketClosed, ProcessorActive
  <2> QED
    BY <2>1, <2>2
<1>5. CASE ReaderAwaited \/ ProcessorAwaited
  BY <1>5, EndConnectedSession DEF ReaderAwaited, ProcessorAwaited
<1>6. CASE ReaderDone
  <2>1. CASE ReaderFailed
    BY <1>6, <2>1, EndConnectedSession DEF ReaderDone
  <2>2. CASE ~ReaderFailed
    <3>1. /\ run = "watching" /\ run' = "await_processor" /\ PutSentinel
          /\ ProcessorActive /\ UNCHANGED <<proc, stop>>
      BY <1>6, <2>2 DEF ReaderDone
    <3>2. SentinelLast(queue')
      BY <3>1, SentinelIsLast
    <3> QED
      BY <3>1, <3>2 DEF ProcessorActive
  <2> QED
    BY <2>1, <2>2
<1>7. CASE Retry
  BY <1>7 DEF Retry
<1>8. CASE Cancelled
  <2>1. CASE run \in {"watching", "closing", "await_reader"}
    BY <1>8, <2>1, EndConnectedSession DEF Cancelled
  <2>2. CASE run \notin {"watching", "closing", "await_reader"}
    BY <1>8, <2>2 DEF Cancelled
  <2> QED
    BY <2>1, <2>2
<1> QED
  BY <1>1, <1>2, <1>3, <1>4, <1>5, <1>6, <1>7, <1>8 DEF RunStep

\* A reader that reads is one of a session that has no sentinel yet.
LEMMA ReaderReads ==
    ASSUME TypeOK, TasksBelongToRun, SessionInv, reader = "reading"
    PROVE  run \in {"watching", "closing", "await_reader"}
BY DEF TypeOK, RunStates, TasksBelongToRun, SessionInv

LEMMA ProcessorServes ==
    ASSUME TypeOK, TasksBelongToRun, SessionInv, proc \in {"getting", "delivering"}
    PROVE  run \in {"watching", "await_processor"}
BY DEF TypeOK, RunStates, TasksBelongToRun, SessionInv, ProcessorActive

LEMMA ReadFrameSession ==
    ASSUME TypeOK, TasksBelongToRun, SessionInv, ReadFrame
    PROVE  SessionInv'
<1>1. run \in {"watching", "closing", "await_reader"} /\ NoSentinel(queue)
  BY ReaderReads DEF ReadFrame, SessionInv
<1>2. NoSentinel(queue')
  <2>0. next \in Frames /\ next # Sentinel /\ queue \in Seq(Frames \cup {Sentinel})
    BY DEF ReadFrame, Frames, Sentinel, TypeOK
  <2>1. CASE queue' = queue
    BY <1>1, <2>1
  <2>2. CASE queue' = Append(queue, next)
    BY <1>1, <2>0, <2>2, AppendFacts DEF NoSentinel
  <2>3. CASE queue' = Append(Tail(queue), next) /\ Len(queue) = QueueSize
    <3> DEFINE rest == Tail(queue)
    <3>1. queue' = Append(rest, next)
      BY <2>3
    <3>2. /\ rest \in Seq(Frames \cup {Sentinel})
          /\ \A i \in DOMAIN rest : rest[i] # Sentinel
      BY <1>1, <2>0, <2>3, TailFacts, ConstantsAssumption DEF NoSentinel
    <3> HIDE DEF rest
    <3> QED
      BY <2>0, <3>1, <3>2, AppendFacts DEF NoSentinel
  <2> QED
    BY <2>1, <2>2, <2>3 DEF ReadFrame
<1> QED
  BY <1>1, <1>2 DEF ReadFrame, SessionInv, ProcessorActive

LEMMA TakeSession ==
    ASSUME TypeOK, TasksBelongToRun, SessionInv, Take
    PROVE  SessionInv'
<1>1. /\ proc = "getting" /\ run \in {"watching", "await_processor"}
      /\ UNCHANGED <<run, stop, reader, counted>>
  BY ProcessorServes DEF Take
<1>2. /\ queue \in Seq(Frames \cup {Sentinel}) /\ queue # <<>> /\ queue' = Tail(queue)
      /\ Head(queue) = queue[1] /\ 1 \in DOMAIN queue /\ Len(Tail(queue)) = Len(queue) - 1
      /\ \A i \in DOMAIN Tail(queue) : i + 1 \in DOMAIN queue /\ Tail(queue)[i] = queue[i + 1]
      /\ Tail(queue) \in Seq(Frames \cup {Sentinel})
  BY TailFacts DEF Take, TypeOK
<1>3. CASE run = "watching"
  <2>1. NoSentinel(queue')
    BY <1>2, <1>3 DEF SessionInv, NoSentinel
  <2>2. proc' = "delivering"
    BY <1>2, <1>3 DEF Take, SessionInv, NoSentinel
  <2> QED
    BY <1>1, <1>3, <2>1, <2>2 DEF SessionInv, ProcessorActive
<1>4. CASE run = "await_processor"
  <2>1. SentinelLast(queue')
    BY <1>2, <1>4 DEF SessionInv, SentinelLast
  <2>2. CASE Head(queue) # Sentinel
    BY <1>1, <1>4, <2>1, <2>2 DEF Take, SessionInv, ProcessorActive
  <2>3. CASE Head(queue) = Sentinel
    <3>1. Len(queue) = 1
      BY <1>2, <1>4, <2>3 DEF SessionInv, SentinelLast
    <3>2. queue' = <<>>
      BY <1>2, <3>1
    <3> QED
      BY <1>1, <1>4, <2>1, <2>3, <3>2 DEF Take, SessionInv
  <2> QED
    BY <2>2, <2>3
<1> QED
  BY <1>1, <1>3, <1>4

LEMMA SessionPreserved ==
    TypeOK /\ TasksBelongToRun /\ SessionInv /\ [Next]_vars => SessionInv'
<1> SUFFICES ASSUME TypeOK, TasksBelongToRun, SessionInv, [Next]_vars PROVE SessionInv'
  OBVIOUS
<1>1. CASE RunStep
  BY <1>1, RunStepSession
<1>2. CASE ReadFrame
  BY <1>2, ReadFrameSession
<1>3. CASE Take
  BY <1>3, TakeSession
<1>4. CASE CallbackReturns \/ CallbackFails \/ CallbackCloses
  <2>1. run \in {"watching", "await_processor"} /\ UNCHANGED <<run, queue, counted, reader>>
    BY <1>4, ProcessorServes
       DEF CallbackReturns, CallbackFails, CallbackCloses, dataVars
  <2> QED
    BY <1>4, <2>1 DEF CallbackReturns, CallbackFails, CallbackCloses, SessionInv,
       ProcessorActive
<1>5. ASSUME UNCHANGED <<run, queue, counted, proc>>, stop => stop',
             reader' = "reading" => reader = "reading"
      PROVE  SessionInv'
  BY <1>5 DEF SessionInv, ProcessorActive
<1>6. CASE ReaderEnds \/ SocketEnds \/ UNCHANGED vars
  BY <1>5, <1>6 DEF ReaderEnds, SocketEnds, vars, taskVars, dataVars
<1>7. CASE CallbackJoined
  BY <1>7 DEF CallbackJoined, SessionInv, dataVars
<1>8. ASSUME NEW c \in Closers, StartGraceful(c) \/ StartForce(c) \/ CloserWaits(c)
      PROVE  SessionInv'
  BY <1>5, <1>8 DEF StartGraceful, StartForce, CloserWaits, CloserClosed, Waited,
                    WaitTimesOut, Joined, taskVars, dataVars
<1> QED
  BY <1>1, <1>2, <1>3, <1>4, <1>6, <1>7, <1>8 DEF Next, ProcessorStep

-----------------------------------------------------------------------------
(* Every step of the connection is one of FrameDelivery, or none.          *)

\* What a connection looks like to its callback.
Visible == <<Phase, next, Waiting, delivered, Dropped>>

Simulates == Delivery!Next \/ UNCHANGED Visible

LEMMA PhaseFacts ==
    ASSUME TypeOK, TypeOK'
    PROVE  /\ Phase = IF run = "done" THEN "over" ELSE IF ~Serves THEN "off"
                      ELSE IF Undisturbed THEN "serving" ELSE "cut"
           /\ Phase' = IF run' = "done" THEN "over" ELSE IF ~Serves' THEN "off"
                       ELSE IF Undisturbed' THEN "serving" ELSE "cut"
BY DEF TypeOK, RunStates, Serves, Phase

\* What the frames of a queue are, with its sentinel and without.
LEMMA FramesOfFacts ==
    ASSUME NEW S, NEW q \in Seq(S)
    PROVE  /\ FramesOf(q) \in Seq(S)
           /\ NoSentinel(q) => FramesOf(q) = q
           /\ q = <<>> => FramesOf(q) = <<>>
<1>1. FramesOf(q) \in Seq(S)
  <2>1. SubSeq(q, 1, Len(q) - 1) \in Seq(S)
    BY SubSeqProperties
  <2> QED
    BY <2>1 DEF FramesOf
<1>2. NoSentinel(q) => FramesOf(q) = q
  BY DEF FramesOf, NoSentinel
<1> QED
  BY <1>1, <1>2 DEF FramesOf

LEMMA FramesOfAppended ==
    ASSUME NEW S, Sentinel \in S, NEW q \in Seq(S)
    PROVE  FramesOf(Append(q, Sentinel)) = q
<1> DEFINE a == Append(q, Sentinel)
<1>1. /\ a \in Seq(S) /\ Len(a) = Len(q) + 1 /\ a # <<>> /\ a[Len(a)] = Sentinel
      /\ \A i \in 1..Len(q) : a[i] = q[i]
  OBVIOUS
<1> HIDE DEF a
<1>2. FramesOf(a) = SubSeq(a, 1, Len(q))
  BY <1>1 DEF FramesOf
<1>3. /\ SubSeq(a, 1, Len(q)) \in Seq(S) /\ Len(SubSeq(a, 1, Len(q))) = Len(q)
      /\ \A i \in 1..Len(q) : SubSeq(a, 1, Len(q))[i] = a[i]
  <2>1. \A i \in 1..Len(q) : a[i] \in S
    BY <1>1
  <2>2. Len(q) \in Nat
    OBVIOUS
  <2> QED
    BY <2>1, <2>2, SubSeqProperties
<1>4. SubSeq(a, 1, Len(q)) = q
  BY <1>1, <1>3, SeqEqual
<1> QED
  BY <1>2, <1>4 DEF a

\* Taking the oldest frame from the queue takes it from its frames.
LEMMA FramesOfTaken ==
    ASSUME NEW S, NEW q \in Seq(S), q # <<>>, SentinelLast(q)
    PROVE  /\ Head(q) = Sentinel => FramesOf(q) = <<>> /\ FramesOf(Tail(q)) = <<>>
           /\ Head(q) # Sentinel =>
                 /\ FramesOf(q) # <<>> /\ Head(FramesOf(q)) = Head(q)
                 /\ FramesOf(Tail(q)) = Tail(FramesOf(q))
<1>1. /\ Head(q) = q[1] /\ Len(q) \in Nat \ {0} /\ DOMAIN q = 1..Len(q)
      /\ Tail(q) \in Seq(S) /\ Len(Tail(q)) = Len(q) - 1
      /\ \A i \in 1..(Len(q) - 1) : Tail(q)[i] = q[i + 1]
  OBVIOUS
<1>2. CASE Head(q) = Sentinel
  <2>1. Len(q) = 1
    BY <1>1, <1>2 DEF SentinelLast
  <2>2. FramesOf(q) = SubSeq(q, 1, 0)
    BY <1>1, <1>2, <2>1 DEF FramesOf
  <2>3. SubSeq(q, 1, 0) = <<>>
    BY SubSeqEmpty
  <2>4. Tail(q) = <<>>
    <3>1. Len(Tail(q)) = 0 /\ Tail(q) \in Seq(S)
      BY <1>1, <2>1
    <3>2. Tail(q) # <<>> => Len(Tail(q)) \in Nat \ {0}
      BY <3>1, EmptySeq, Zenon
    <3> QED
      BY <3>1, <3>2
  <2>5. FramesOf(<<>>) = <<>>
    BY DEF FramesOf
  <2> QED
    BY <1>2, <2>2, <2>3, <2>4, <2>5
<1>3. CASE Head(q) # Sentinel
  <2>1. CASE q[Len(q)] # Sentinel
    <3>1. FramesOf(q) = q
      BY <2>1 DEF FramesOf
    <3>2. FramesOf(Tail(q)) = Tail(q)
      <4>1. Tail(q) # <<>> => Tail(q)[Len(Tail(q))] = q[Len(q)]
        BY <1>1
      <4> QED
        BY <2>1, <4>1 DEF FramesOf
    <3> QED
      BY <1>3, <3>1, <3>2
  <2>2. CASE q[Len(q)] = Sentinel
    <3>1. Len(q) - 1 \in 1..Len(q) /\ 1 \in 1..Len(q) /\ Len(q) - 1 \in 1..(Len(q) - 1)
      BY <1>1, <1>3, <2>2
    <3>2. FramesOf(q) = SubSeq(q, 1, Len(q) - 1)
      BY <2>2 DEF FramesOf
    <3>3. /\ Head(SubSeq(q, 1, Len(q) - 1)) = q[1]
          /\ Tail(SubSeq(q, 1, Len(q) - 1)) = SubSeq(q, 2, Len(q) - 1)
      <4> DEFINE n == Len(q) - 1
      <4>1. n \in 1..Len(q) /\ 1 \in 1..Len(q)
        BY <3>1
      <4> HIDE DEF n
      <4>2. Tail(SubSeq(q, 1, n)) = SubSeq(q, 1 + 1, n) /\ Head(SubSeq(q, 1, n)) = q[1]
        BY <4>1, HeadTailOfSubSeq
      <4>3. 1 + 1 = 2
        OBVIOUS
      <4>4. Tail(SubSeq(q, 1, n)) = SubSeq(q, 2, n)
        BY <4>2, <4>3, Zenon
      <4> QED
        BY <4>2, <4>4 DEF n
    <3>4. SubSeq(q, 1, Len(q) - 1) # <<>>
      <4>1. Len(SubSeq(q, 1, Len(q) - 1)) = Len(q) - 1
        <5>1. \A i \in 1..(Len(q) - 1) : q[i] \in S
          BY <1>1
        <5> QED
          BY <1>1, <3>1, <5>1, SubSeqProperties
      <4>2. Len(q) - 1 # 0
        BY <1>1, <3>1
      <4>3. Len(<<>>) = 0
        BY EmptySeq, Zenon
      <4> QED
        BY <4>1, <4>2, <4>3, Zenon
    <3>5. FramesOf(Tail(q)) = SubSeq(q, 2, Len(q) - 1)
      <4> DEFINE t == Tail(q)
      <4>1. /\ t \in Seq(S) /\ Len(t) = Len(q) - 1 /\ t # <<>> /\ t[Len(t)] = Sentinel
            /\ \A i \in 1..(Len(q) - 1) : t[i] = q[i + 1]
        <5>1. t \in Seq(S) /\ Len(t) = Len(q) - 1 /\ t # <<>>
          BY <1>1, <3>1
        <5>2. t[Len(q) - 1] = q[(Len(q) - 1) + 1] /\ (Len(q) - 1) + 1 = Len(q)
          BY <1>1, <3>1
        <5>3. t[Len(t)] = Sentinel
          BY <2>2, <5>1, <5>2, Zenon
        <5> QED
          BY <1>1, <5>1, <5>3
      <4> HIDE DEF t
      <4>2. FramesOf(t) = SubSeq(t, 1, Len(q) - 2)
        BY <1>1, <4>1 DEF FramesOf
      <4>3. /\ SubSeq(t, 1, Len(q) - 2) \in Seq(S)
            /\ Len(SubSeq(t, 1, Len(q) - 2)) = Len(q) - 2
            /\ \A i \in 1..(Len(q) - 2) : SubSeq(t, 1, Len(q) - 2)[i] = t[i]
        <5>1. \A i \in 1..(Len(q) - 2) : t[i] \in S
          BY <1>1, <4>1
        <5> QED
          BY <1>1, <3>1, <5>1, SubSeqProperties
      <4>4. /\ SubSeq(q, 2, Len(q) - 1) \in Seq(S)
            /\ Len(SubSeq(q, 2, Len(q) - 1)) = Len(q) - 2
            /\ \A i \in 1..(Len(q) - 2) : SubSeq(q, 2, Len(q) - 1)[i] = q[i + 1]
        <5>1. \A i \in 2..(Len(q) - 1) : q[i] \in S
          BY <1>1
        <5> QED
          BY <1>1, <3>1, <5>1, SubSeqProperties
      <4>5. SubSeq(t, 1, Len(q) - 2) = SubSeq(q, 2, Len(q) - 1)
        BY <1>1, <4>1, <4>3, <4>4, SeqEqual
      <4> QED
        BY <4>2, <4>5 DEF t
    <3> QED
      BY <1>1, <1>3, <3>2, <3>3, <3>4, <3>5
  <2> QED
    BY <2>1, <2>2
<1> QED
  BY <1>2, <1>3

\* What is left when none or the oldest of what waits is dropped.
LEMMA LeftFacts ==
    ASSUME TypeOK
    PROVE  /\ Waiting \in Seq(Frames \cup {Sentinel})
           /\ 0 \in 0..Len(Waiting) /\ Delivery!Left(0) = Waiting /\ Delivery!Lost(0) = {}
           /\ Waiting # <<>> =>
                 /\ 1 \in 0..Len(Waiting) /\ Delivery!Left(1) = Tail(Waiting)
                 /\ Delivery!Lost(1) = {Head(Waiting)}
<1>1. Waiting \in Seq(Frames \cup {Sentinel})
  BY FramesOfFacts DEF TypeOK, Waiting
<1> DEFINE w == Waiting
<1>2. /\ Delivery!Left(0) = SubSeq(w, 0 + 1, Len(w)) /\ Delivery!Lost(0) = {w[i] : i \in 1..0}
      /\ Delivery!Left(1) = SubSeq(w, 1 + 1, Len(w)) /\ Delivery!Lost(1) = {w[i] : i \in 1..1}
  BY DEF Delivery!Left, Delivery!Lost
<1>3. w \in Seq(Frames \cup {Sentinel})
  BY <1>1
<1> HIDE DEF w
<1>4. SubSeq(w, 0 + 1, Len(w)) = w /\ {w[i] : i \in 1..0} = {} /\ 0 \in 0..Len(w)
  BY <1>3, SubSeqFull
<1>5. ASSUME w # <<>>
      PROVE  /\ SubSeq(w, 1 + 1, Len(w)) = Tail(w) /\ {w[i] : i \in 1..1} = {Head(w)}
             /\ 1 \in 0..Len(w)
  <2>1. SubSeq(w, 2, Len(w)) = Tail(w)
    BY <1>3, <1>5, TailIsSubSeq
  <2> QED
    BY <1>3, <1>5, <2>1
<1> QED
  BY <1>1, <1>2, <1>4, <1>5 DEF w

\* A step that moves no frame, and after which a session is not less disturbed.
LEMMA Disturb ==
    ASSUME TypeOK, TypeOK', UNCHANGED <<run, queue, next, delivered, counted>>,
           Undisturbed' => Undisturbed
    PROVE  Simulates
<1>1. Serves' = Serves
  BY DEF Serves
<1>2. CASE ~Serves
  BY <1>2 DEF Serves, Simulates, Visible, Phase, Waiting, Dropped, TypeOK, RunStates
<1>3. CASE Serves /\ Undisturbed' = Undisturbed
  <2>1. Phase' = Phase
    BY <1>1, <1>3, PhaseFacts
  <2> QED
    BY <2>1 DEF Simulates, Visible, Waiting, Dropped
<1>4. CASE Serves /\ Undisturbed /\ ~Undisturbed'
  <2>1. Phase = "serving" /\ Phase' = "cut"
    BY <1>1, <1>4, PhaseFacts DEF Serves
  <2>2. Waiting' = Waiting /\ Dropped' = {}
    BY <2>1 DEF Waiting, Dropped
  <2>3. Delivery!Cut
    BY <2>1, <2>2, LeftFacts DEF Delivery!Cut
  <2> QED
    BY <2>3 DEF Simulates, Delivery!Next
<1>5. Undisturbed \in BOOLEAN /\ Undisturbed' \in BOOLEAN
  BY DEF Undisturbed
<1> QED
  BY <1>2, <1>3, <1>4, <1>5

\* Between sessions, no matter what is in the queue.
LEMMA BetweenSessions ==
    ASSUME TypeOK, TypeOK', ~Serves, run # "done", ~Serves', UNCHANGED <<next, delivered>>
    PROVE  Simulates
<1>1. Phase = "off" /\ Phase' \in {"off", "over"}
  BY PhaseFacts
<1>2. Waiting = <<>> /\ Waiting' = <<>> /\ Dropped = {} /\ Dropped' = {}
  BY <1>1 DEF Waiting, Dropped
<1> QED
  BY <1>1, <1>2 DEF Simulates, Visible, Delivery!Next, Delivery!Over

LEMMA EndSession ==
    ASSUME TypeOK, TypeOK', Serves, run' = "leaving", UNCHANGED <<next, delivered>>,
           Undisturbed => queue = <<>>
    PROVE  Simulates
<1>1. Phase \in {"serving", "cut"} /\ (Phase = "serving" => Undisturbed) /\ Phase' = "off"
  BY PhaseFacts DEF Serves
<1>2. Phase = "serving" => Waiting = <<>>
  BY <1>1, FramesOfFacts DEF Waiting, TypeOK
<1>3. Waiting' = <<>> /\ Dropped' = {}
  BY <1>1 DEF Waiting, Dropped
<1>4. Delivery!Finish
  BY <1>1, <1>2, <1>3 DEF Delivery!Finish
<1> QED
  BY <1>4 DEF Simulates, Delivery!Next

\* The sentinel takes no frame's place, or that of the oldest.
LEMMA SentinelFrames ==
    ASSUME TypeOK, NoSentinel(queue), PutSentinel
    PROVE  /\ FramesOf(queue) = queue
           /\ \/ FramesOf(queue') = queue /\ counted' = counted
              \/ /\ queue # <<>> /\ FramesOf(queue') = Tail(queue)
                 /\ counted' = counted \cup {Head(queue)}
<1>0. queue \in Seq(Frames \cup {Sentinel})
  BY DEF TypeOK
<1>1. FramesOf(queue) = queue
  BY <1>0, FramesOfFacts
<1>2. CASE Len(queue) < QueueSize
  <2>1. queue' = Append(queue, Sentinel) /\ counted' = counted
    BY <1>2 DEF PutSentinel
  <2>2. FramesOf(Append(queue, Sentinel)) = queue
    BY <1>0, FramesOfAppended
  <2> QED
    BY <1>1, <2>1, <2>2, Zenon
<1>3. CASE ~(Len(queue) < QueueSize)
  <2>1. queue # <<>>
    BY <1>0, <1>3, ConstantsAssumption
  <2>2. /\ queue' = Append(Tail(queue), Sentinel)
        /\ counted' = counted \cup ({Head(queue)} \ {Sentinel})
    BY <1>3 DEF PutSentinel
  <2>3. Tail(queue) \in Seq(Frames \cup {Sentinel}) /\ Head(queue) # Sentinel
    BY <1>0, <2>1, TailFacts DEF NoSentinel
  <2>4. FramesOf(Append(Tail(queue), Sentinel)) = Tail(queue)
    <3> DEFINE t == Tail(queue)
    <3>1. t \in Seq(Frames \cup {Sentinel})
      BY <2>3
    <3> HIDE DEF t
    <3>2. FramesOf(Append(t, Sentinel)) = t
      BY <3>1, FramesOfAppended
    <3> QED
      BY <3>2 DEF t
  <2>5. counted' = counted \cup {Head(queue)}
    BY <2>2, <2>3
  <2>6. FramesOf(queue') = Tail(queue)
    BY <2>2, <2>4, Zenon
  <2> QED
    BY <1>1, <2>1, <2>5, <2>6
<1> QED
  BY <1>2, <1>3

\* The sentinel is put: nothing is seen of it, or the oldest frame is dropped.
LEMMA SentinelSimulates ==
    ASSUME TypeOK, TypeOK', Serves, Serves', NoSentinel(queue), PutSentinel,
           Undisturbed' = Undisturbed, UNCHANGED <<next, delivered>>
    PROVE  Simulates
<1>1. Phase' = Phase /\ Phase \in {"serving", "cut"}
  BY PhaseFacts DEF Serves
<1>2. Waiting = queue /\ Waiting' = FramesOf(queue')
  BY <1>1, SentinelFrames DEF Waiting
<1>3. CASE FramesOf(queue') = queue /\ counted' = counted
  BY <1>1, <1>2, <1>3 DEF Simulates, Visible, Dropped
<1>4. CASE /\ queue # <<>> /\ FramesOf(queue') = Tail(queue)
           /\ counted' = counted \cup {Head(queue)}
  <2>1. CASE Phase = "serving"
    <3>1. Delivery!Drop
      BY <1>1, <1>2, <1>4, <2>1 DEF Delivery!Drop, Dropped
    <3> QED
      BY <3>1 DEF Simulates, Delivery!Next
  <2>2. CASE Phase = "cut"
    <3>1. Waiting' = Delivery!Left(1) /\ 1 \in 0..Len(Waiting)
      BY <1>2, <1>4, LeftFacts
    <3>2. Dropped' = {}
      BY <1>1, <2>2 DEF Dropped
    <3>3. Delivery!Cut
      BY <1>1, <2>2, <3>1, <3>2 DEF Delivery!Cut
    <3> QED
      BY <3>3 DEF Simulates, Delivery!Next
  <2> QED
    BY <1>1, <2>1, <2>2
<1> QED
  BY <1>3, <1>4, SentinelFrames

\* _run_connected ends: the session was cut short or its queue is empty, or a
\* callback that waits for run() keeps it from ending.
LEMMA EndConnectedSimulates ==
    ASSUME TypeOK, TypeOK', SessionInv, NEW e, EndConnected(e),
           run \in {"watching", "closing", "await_reader", "await_processor"},
           Undisturbed => ~ProcessorActive,
           run = "await_processor" => ~ProcessorActive,
           UNCHANGED <<next, delivered, stop>>
    PROVE  Simulates
<1>0. Serves
  BY DEF Serves
<1>1. CASE run' = "leaving"
  <2>1. ASSUME Undisturbed PROVE queue = <<>>
    BY <2>1 DEF SessionInv, Undisturbed
  <2> QED
    BY <1>0, <1>1, <2>1, EndSession
<1>2. CASE run' # "leaving"
  <2>1. proc = "joining" /\ proc' = "joining" /\ run' = "reaping" /\ PutSentinel
    BY <1>2 DEF EndConnected, ProcessorActive
  <2>2. NoSentinel(queue) /\ Undisturbed' = Undisturbed /\ Serves'
    BY <2>1 DEF SessionInv, ProcessorActive, Undisturbed, Serves
  <2> QED
    BY <1>0, <2>1, <2>2, SentinelSimulates
<1> QED
  BY <1>1, <1>2

LEMMA RunStepSimulates ==
    ASSUME TypeOK, TypeOK', TasksBelongToRun, SessionInv, RunStep
    PROVE  Simulates
<1>0. UNCHANGED <<next, delivered>>
  BY DEF RunStep, ConnectOk, ConnectFails, Opened, OpeningFails, ProcessorDone, SocketClosed,
         ReaderAwaited, ReaderDone, ProcessorAwaited, Leave, Disconnected, Retry, Cancelled, dataVars
<1>1. CASE ConnectOk \/ ConnectFails \/ OpeningFails \/ Leave \/ Disconnected \/ Retry
  <2>1. ~Serves /\ run # "done" /\ ~Serves'
    BY <1>1 DEF ConnectOk, ConnectFails, OpeningFails, Leave, Disconnected, Retry, Serves
  <2> QED
    BY <1>0, <2>1, BetweenSessions
<1>2. CASE Opened
  <2>1. Phase = "off" /\ Phase' \in {"serving", "cut"}
    BY <1>2, PhaseFacts DEF Opened, Serves
  <2>2. queue = <<>> /\ queue' = <<>> /\ counted' = {}
    BY <1>2 DEF Opened, SessionInv, dataVars
  <2>3. Waiting = <<>> /\ Waiting' = <<>> /\ Dropped = {} /\ Dropped' = {}
    BY <2>1, <2>2 DEF Waiting, Dropped, FramesOf
  <2>4. Delivery!Begin
    BY <1>0, <2>1, <2>3 DEF Delivery!Begin
  <2> QED
    BY <2>4 DEF Simulates, Delivery!Next
<1>3. ASSUME Serves, Serves', UNCHANGED <<queue, counted, stop, runCancel, reader, proc>>
      PROVE  Simulates
  <2>1. Phase' = Phase
    BY <1>3, PhaseFacts DEF Undisturbed, ReaderFailed, Serves
  <2> QED
    BY <1>0, <1>3, <2>1 DEF Simulates, Visible, Waiting, Dropped
<1>4. CASE ProcessorDone
  BY <1>3, <1>4 DEF ProcessorDone, Serves, dataVars
<1>5. CASE SocketClosed
  <2>1. CASE proc = "failed"
    BY <1>0, <1>5, <2>1, EndConnectedSimulates DEF SocketClosed, ProcessorActive
  <2>2. CASE proc # "failed"
    BY <1>3, <1>5, <2>2 DEF SocketClosed, Serves
  <2> QED
    BY <2>1, <2>2
<1>6. CASE ReaderAwaited
  BY <1>0, <1>6, EndConnectedSimulates DEF ReaderAwaited, SessionInv
<1>7. CASE ReaderDone
  <2>1. CASE ReaderFailed
    BY <1>0, <1>7, <2>1, EndConnectedSimulates DEF ReaderDone, Undisturbed
  <2>2. CASE ~ReaderFailed
    <3>1. /\ run = "watching" /\ run' = "await_processor" /\ PutSentinel
          /\ UNCHANGED <<proc, stop, reader, runCancel>>
      BY <1>7, <2>2 DEF ReaderDone
    <3>2. Serves /\ Serves' /\ NoSentinel(queue) /\ Undisturbed' = Undisturbed
      BY <3>1 DEF Serves, SessionInv, Undisturbed, ReaderFailed
    <3> QED
      BY <1>0, <3>1, <3>2, SentinelSimulates
  <2> QED
    BY <2>1, <2>2
<1>8. CASE ProcessorAwaited
  BY <1>0, <1>8, EndConnectedSimulates DEF ProcessorAwaited
<1>9. CASE Cancelled
  <2>1. runCancel /\ ~Undisturbed /\ UNCHANGED stop
    BY <1>9 DEF Cancelled, Undisturbed
  <2>2. CASE run \in {"watching", "closing", "await_reader"}
    <3>1. EndConnected("cancelled")
      BY <1>9, <2>2 DEF Cancelled
    <3> QED
      BY <1>0, <2>1, <2>2, <3>1, EndConnectedSimulates
  <2>3. CASE run = "await_processor"
    <3>1. Serves /\ run' = "leaving"
      BY <1>9, <2>3 DEF Cancelled, Serves
    <3> QED
      BY <1>0, <2>1, <3>1, EndSession
  <2>4. CASE run \notin {"watching", "closing", "await_reader", "await_processor"}
    <3>1. ~Serves /\ run # "done" /\ ~Serves'
      BY <1>9, <2>4 DEF Cancelled, Serves
    <3> QED
      BY <1>0, <3>1, BetweenSessions
  <2> QED
    BY <2>2, <2>3, <2>4
<1> QED
  BY <1>1, <1>2, <1>4, <1>5, <1>6, <1>7, <1>8, <1>9 DEF RunStep

LEMMA ReadFrameSimulates ==
    ASSUME TypeOK, TypeOK', TasksBelongToRun, SessionInv, ReadFrame
    PROVE  Simulates
<1>1. /\ run \in {"watching", "closing", "await_reader"} /\ NoSentinel(queue)
      /\ reader = "reading" /\ next \in Frames /\ next' = next + 1
      /\ UNCHANGED <<run, runCancel, stop, proc, delivered>>
  BY ReaderReads DEF ReadFrame, SessionInv
<1>2. Phase \in {"serving", "cut"} /\ Waiting = queue /\ next <= MaxFrames
  <2>1. Phase \in {"serving", "cut"}
    BY <1>1, PhaseFacts DEF Serves
  <2>2. FramesOf(queue) = queue
    BY <1>1, FramesOfFacts DEF TypeOK
  <2> QED
    BY <1>1, <2>1, <2>2, ConstantsAssumption DEF Waiting, Frames
<1>3. CASE ~ReaderFailed'
  <2>1. Phase' = Phase
    BY <1>1, <1>3, PhaseFacts DEF Undisturbed, ReaderFailed, Serves
  <2>2. FramesOf(queue') = queue'
    <3>1. NoSentinel(queue')
      BY <1>1, ReadFrameSession DEF SessionInv
    <3> QED
      BY <3>1, FramesOfFacts DEF TypeOK
  <2>3. Waiting' = queue'
    BY <1>2, <2>1, <2>2 DEF Waiting
  <2>4. \E n \in 0..Len(Waiting) :
           /\ queue' = Append(Delivery!Left(n), next)
           /\ counted' = counted \cup Delivery!Lost(n)
    <3>1. CASE queue' = Append(queue, next) /\ counted' = counted
      BY <1>2, <3>1, LeftFacts
    <3>2. CASE /\ queue' = Append(Tail(queue), next) /\ Len(queue) = QueueSize
               /\ counted' = counted \cup ({Head(queue)} \ {Sentinel})
      <4>1. queue # <<>> /\ Head(queue) # Sentinel
        BY <1>1, <3>2, TailFacts, ConstantsAssumption DEF TypeOK, NoSentinel
      <4>2. {Head(queue)} \ {Sentinel} = {Head(queue)}
        BY <4>1
      <4> QED
        BY <1>2, <3>2, <4>1, <4>2, LeftFacts
    <3> QED
      BY <1>3, <3>1, <3>2 DEF ReadFrame, ReaderFailed
  <2>5. Delivery!Receive
    <3>1. PICK n \in 0..Len(Waiting) :
             /\ queue' = Append(Delivery!Left(n), next)
             /\ counted' = counted \cup Delivery!Lost(n)
      BY <2>4
    <3>2. Dropped' = IF Phase = "serving" THEN Dropped \cup Delivery!Lost(n) ELSE {}
      BY <1>2, <2>1, <3>1 DEF Dropped
    <3> QED
      BY <1>1, <1>2, <2>1, <2>3, <3>1, <3>2 DEF Delivery!Receive
  <2> QED
    BY <2>5 DEF Simulates, Delivery!Next
<1>4. CASE ReaderFailed'
  <2>1. Phase' = "cut"
    BY <1>1, <1>4, PhaseFacts DEF Undisturbed, Serves
  <2>2. queue' = queue
    BY <1>4 DEF ReadFrame, ReaderFailed
  <2>3. Waiting' = Waiting /\ Dropped' = {}
    BY <1>2, <2>1, <2>2 DEF Waiting, Dropped
  <2>4. Delivery!Overflow
    BY <1>1, <1>2, <2>1, <2>3 DEF Delivery!Overflow
  <2> QED
    BY <2>4 DEF Simulates, Delivery!Next
<1> QED
  BY <1>3, <1>4

LEMMA TakeSimulates ==
    ASSUME TypeOK, TypeOK', TasksBelongToRun, SessionInv, Take
    PROVE  Simulates
<1>1. /\ run \in {"watching", "await_processor"} /\ SentinelLast(queue)
      /\ queue # <<>> /\ queue' = Tail(queue) /\ queue \in Seq(Frames \cup {Sentinel})
      /\ UNCHANGED <<run, runCancel, stop, reader, next, counted>>
  BY ProcessorServes DEF Take, SessionInv, NoSentinel, SentinelLast, TypeOK
<1>2. Phase' = Phase /\ Phase \in {"serving", "cut"}
  BY <1>1, PhaseFacts DEF Take, Undisturbed, ReaderFailed, Serves
<1>3. Waiting = FramesOf(queue) /\ Waiting' = FramesOf(Tail(queue)) /\ Dropped' = Dropped
  BY <1>1, <1>2 DEF Waiting, Dropped
<1>4. CASE Head(queue) = Sentinel
  <2>1. Waiting' = Waiting
    BY <1>1, <1>3, <1>4, FramesOfTaken
  <2> QED
    BY <1>1, <1>2, <1>3, <1>4, <2>1 DEF Take, Simulates, Visible
<1>5. CASE Head(queue) # Sentinel
  <2>1. Waiting # <<>> /\ Head(Waiting) = Head(queue) /\ Waiting' = Tail(Waiting)
    BY <1>1, <1>3, <1>5, FramesOfTaken
  <2>2. Delivery!Deliver
    BY <1>1, <1>2, <1>3, <1>5, <2>1 DEF Take, Delivery!Deliver
  <2> QED
    BY <2>2 DEF Simulates, Delivery!Next
<1> QED
  BY <1>4, <1>5

LEMMA InitSimulates == Init => Delivery!Init
BY DEF Init, Delivery!Init, Phase, Waiting, Dropped

LEMMA StepSimulates ==
    TypeOK /\ TypeOK' /\ TasksBelongToRun /\ SessionInv /\ [Next]_vars => Simulates
<1> SUFFICES ASSUME TypeOK, TypeOK', TasksBelongToRun, SessionInv, [Next]_vars
             PROVE  Simulates
  OBVIOUS
<1>1. CASE RunStep
  BY <1>1, RunStepSimulates
<1>2. CASE ReadFrame
  BY <1>2, ReadFrameSimulates
<1>3. CASE Take
  BY <1>3, TakeSimulates
<1>4. CASE ReaderEnds
  BY <1>4, Disturb DEF ReaderEnds, dataVars, Undisturbed, ReaderFailed
<1>5. CASE SocketEnds \/ UNCHANGED vars
  BY <1>5, Disturb DEF SocketEnds, vars, taskVars, dataVars, Undisturbed, ReaderFailed
<1>6. CASE CallbackReturns \/ CallbackFails \/ CallbackCloses
  BY <1>6, Disturb DEF CallbackReturns, CallbackFails, CallbackCloses, dataVars,
     Undisturbed, ReaderFailed
<1>7. CASE CallbackJoined
  BY <1>7, Disturb DEF CallbackJoined, dataVars, Undisturbed, ReaderFailed
<1>8. ASSUME NEW c \in Closers, StartGraceful(c) \/ StartForce(c) \/ CloserWaits(c)
      PROVE  Simulates
  <2>1. /\ UNCHANGED <<run, queue, next, delivered, counted, reader, proc>>
        /\ stop => stop'
        /\ runCancel => runCancel'
    BY <1>8 DEF StartGraceful, StartForce, CloserWaits, CloserClosed, Waited,
                WaitTimesOut, Joined, taskVars, dataVars
  <2> QED
    BY <2>1, Disturb DEF Undisturbed, ReaderFailed
<1> QED
  BY <1>1, <1>2, <1>3, <1>4, <1>5, <1>6, <1>7, <1>8 DEF Next, ProcessorStep

\* The queue, its sentinel, its overflow policies and the order in which run()
\* ends its tasks implement FrameDelivery, for any queue size, number of frames
\* and set of closing tasks: frames are delivered in the order of the server,
\* one that is not was dropped and counted, and a session that nothing cut
\* short is drained before it ends.
THEOREM DeliversAsPromised == Spec => KeepsDeliveryPromise
<1>1. IInv => TypeOK /\ TasksBelongToRun
  BY DEF IInv
<1>2. TypeOK /\ TypeOK' /\ TasksBelongToRun /\ SessionInv /\ [Next]_vars
         => [Delivery!Next]_(Delivery!vars)
  BY StepSimulates DEF Simulates, Visible, Delivery!vars
<1> QED
  BY <1>1, <1>2, SpecIInv, InitSession, SessionPreserved, InitSimulates, PTL
     DEF Spec, KeepsDeliveryPromise, Delivery!Spec
=============================================================================
