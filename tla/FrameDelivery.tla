--------------------------- MODULE FrameDelivery ---------------------------
(***************************************************************************)
(* What a websocket connection promises to the callback it is opened with. *)
(* Frames are received in sessions, one per socket, and wait. The one that *)
(* waits longest is delivered next, or dropped and counted. A session ends *)
(* with nothing waiting, unless it was cut short: by a failure, an         *)
(* overflow, or someone who closes the connection. What waits then may be  *)
(* lost. Nothing is delivered between sessions, nor once it is over.       *)
(* ManagedConnection implements this.                                      *)
(***************************************************************************)
EXTENDS Naturals, Sequences

CONSTANT MaxFrames

VARIABLES
    phase,      \* "off" between sessions, "serving", "cut" short, "over"
    next,       \* the next frame of the server
    waiting,    \* the frames received, oldest first, while in a session
    delivered,  \* the frames the callback got
    dropped     \* the frames counted as dropped, while serving

vars == <<phase, next, waiting, delivered, dropped>>

Init ==
    /\ phase = "off" /\ next = 1
    /\ waiting = <<>> /\ delivered = <<>> /\ dropped = {}

\* The frames left when the n oldest are dropped, and those dropped.
Left(n) == SubSeq(waiting, n + 1, Len(waiting))
Lost(n) == {waiting[i] : i \in 1..n}

\* A session begins, perhaps while the connection is being closed already.
Begin ==
    /\ phase = "off" /\ phase' \in {"serving", "cut"}
    /\ UNCHANGED <<next, waiting, delivered, dropped>>

\* A frame arrives; an older one may have to make room.
Receive ==
    /\ phase \in {"serving", "cut"} /\ next <= MaxFrames
    /\ next' = next + 1
    /\ \E n \in 0..Len(waiting) :
         /\ waiting' = Append(Left(n), next)
         /\ dropped' = IF phase = "serving" THEN dropped \cup Lost(n) ELSE {}
    /\ UNCHANGED <<phase, delivered>>

\* There is no room, and the policy is to end the session.
Overflow ==
    /\ phase \in {"serving", "cut"} /\ next <= MaxFrames
    /\ next' = next + 1
    /\ phase' = "cut" /\ dropped' = {}
    /\ UNCHANGED <<waiting, delivered>>

Deliver ==
    /\ phase \in {"serving", "cut"} /\ waiting # <<>>
    /\ delivered' = Append(delivered, Head(waiting)) /\ waiting' = Tail(waiting)
    /\ UNCHANGED <<phase, next, dropped>>

Drop ==
    /\ phase = "serving" /\ waiting # <<>>
    /\ waiting' = Tail(waiting) /\ dropped' = dropped \cup {Head(waiting)}
    /\ UNCHANGED <<phase, next, delivered>>

Cut ==
    /\ phase \in {"serving", "cut"} /\ phase' = "cut"
    /\ \E n \in 0..Len(waiting) : waiting' = Left(n)
    /\ dropped' = {}
    /\ UNCHANGED <<next, delivered>>

\* The session ends: drained if it was not cut short.
Finish ==
    /\ phase = "serving" => waiting = <<>>
    /\ phase \in {"serving", "cut"} /\ phase' = "off"
    /\ waiting' = <<>> /\ dropped' = {}
    /\ UNCHANGED <<next, delivered>>

Over ==
    /\ phase = "off" /\ phase' = "over"
    /\ UNCHANGED <<next, waiting, delivered, dropped>>

Next == Begin \/ Receive \/ Overflow \/ Deliver \/ Drop \/ Cut \/ Finish \/ Over

Spec == Init /\ [][Next]_vars
=============================================================================
