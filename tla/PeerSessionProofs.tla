------------------------- MODULE PeerSessionProofs -------------------------
(***************************************************************************)
(* Proofs about PeerSession, for every value of its bounds.                *)
(*                                                                         *)
(* None of the safety properties is inductive by itself.  SessionInv ties  *)
(* the VU's program counter to what has been heard, written and stored,    *)
(* and the program counters of the two loops to the order in which fail    *)
(* cancels, closes, stores Idle and records; it is inductive, and the      *)
(* safety properties follow from it.                                       *)
(***************************************************************************)
EXTENDS PeerSession, SequenceTheorems, TLAPS

Before == {"start", "dial", "sendOpen"}
Exchanging == {"hsRead", "hsNotify", "hsKeepalive"}
Closing == {"closeDeadline", "cease", "closeCancel", "closeConn", "closeJoin", "closed"}
Confirmed == {"hsDone"} \cup Using \cup {"closeSwap"} \cup Closing

(* A wire on which our OPEN and our KEEPALIVE have gone out first.         *)
Opened(w) ==
    /\ Len(w) >= 2
    /\ w[1] = "OPEN" /\ w[2] = "KEEPALIVE"
    /\ \A i \in 2 .. Len(w) : w[i] \notin {"OPEN", "OPEN_ERROR"}

(* What was heard and written at each point of the VU's goroutine.         *)
HandshakeInv ==
    /\ pc["vu"] \in Before => heard = <<>> /\ wire = <<>>
    /\ pc["vu"] \in {"hsNotify", "hsKeepalive"} => heard = <<>>
    /\ pc["vu"] \in Exchanging =>
         \/ heard = <<>> /\ wire = <<"OPEN">>
         \/ heard = <<"OPEN">> /\ wire = <<"OPEN", "KEEPALIVE">>
    /\ pc["vu"] \in {"hsFail", "openFailed"} =>
         wire \in {<<>>, <<"OPEN">>, <<"OPEN", "KEEPALIVE">>, <<"OPEN", "OPEN_ERROR">>}
    /\ pc["vu"] \in Confirmed => heard = <<"OPEN", "KEEPALIVE">> /\ Opened(wire)

(* The state at each point of the VU's goroutine.                          *)
StateInv ==
    /\ pc["vu"] = "start" => state = "Idle"
    /\ pc["vu"] \in {"dial", "sendOpen"} => state = "Active"
    /\ pc["vu"] \in Exchanging =>
         state = IF heard = <<>> THEN "OpenSent" ELSE "OpenConfirm"
    /\ pc["vu"] = "hsFail" => state \in {"OpenSent", "OpenConfirm"}
    /\ pc["vu"] = "hsDone" => state = "Established"
    /\ pc["vu"] \in Using \cup {"closeSwap"} => state \in {"Established", "Idle"}
    /\ pc["vu"] \in Closing \cup {"openFailed"} => state = "Idle"

(* The loops run only after Open.                                          *)
LoopsInv ==
    pc["vu"] \in Opening \cup {"openFailed"} =>
        ~loopCancelled /\ \A l \in Loops : pc[l] = "off"

(* The order of fail, and of Close: who has closed the connection or       *)
(* stored Idle has cancelled loopCtx before.                               *)
OrderInv ==
    /\ \A l \in Loops : pc[l] \in {"failClose", "failIdle", "failRecord"} => loopCancelled
    /\ \A l \in Loops : pc[l] \in {"failIdle", "failRecord"} => conn = "closed"
    /\ \A l \in Loops : pc[l] = "done" => LoopCtxDone
    /\ pc["vu"] \in {"closeConn", "closeJoin"} => loopCancelled
    /\ pc["vu"] \in {"closeJoin", "closed"} => conn = "closed"
    /\ pc["vu"] \in {"start", "dial"} => conn = "none"
    /\ pc["vu"] \in Before => pc["watcher"] = "off"
    /\ pc["vu"] = "openFailed" => conn # "open"
    /\ pc["vu"] \in Using \cup {"closeSwap"} /\ state = "Idle"
         => conn = "closed" /\ loopCancelled
    /\ conn = "closed" => LoopCtxDone \/ pc["vu"] = "openFailed"

(* A failing loop has a cause, and a read error has an outer cause.        *)
CauseInv ==
    /\ \A l \in Loops : pc[l] \in FailSteps \cup {"readErr"} => err[l] # None
    /\ pc["readLoop"] = "holdNotify" => err["readLoop"] = "hold"
    /\ err["keepaliveLoop"] # "read"
    /\ pc["readLoop"] = "readErr" /\ err["readLoop"] = "read"
         => peerClosed \/ LoopCtxDone
    /\ pc["readLoop"] \in FailSteps /\ err["readLoop"] = "read"
         => peerClosed \/ parentDone
    /\ failedErr = "read" => peerClosed \/ parentDone
    /\ loopCancelled /\ pc["vu"] \in Using =>
         \/ failedErr # None
         \/ \E l \in Loops : pc[l] \in {"failClose", "failIdle", "failRecord"}
    /\ pc["vu"] \in Using /\ state = "Idle"
         => failedErr # None \/ \E l \in Loops : pc[l] = "failRecord"
    /\ told \in Cause => told = failedErr

SessionInv == HandshakeInv /\ StateInv /\ LoopsInv /\ OrderInv /\ CauseInv

----------------------------------------------------------------------------
\* Helpers.

(* What each write puts on the wire.                                       *)
LEMMA WrittenByPoint ==
    /\ Writing = {"hsNotify", "hsKeepalive", "opWrite", "cease", "holdNotify", "kaWrite"}
    /\ Written["hsNotify"] = "OPEN_ERROR" /\ Written["hsKeepalive"] = "KEEPALIVE"
    /\ Written["opWrite"] = "UPDATE" /\ Written["cease"] = "CEASE"
    /\ Written["holdNotify"] = "HOLD_EXPIRED" /\ Written["kaWrite"] = "KEEPALIVE"
  BY DEF Writing, Written

(* Emit appends, or leaves the wire alone when it ends in the message.     *)
LEMMA EmitResult ==
    ASSUME wire \in Seq(Outgoing), NEW m \in Outgoing, Emit(m)
    PROVE  /\ wire' \in Seq(Outgoing)
           /\ wire' = wire \/ wire' = Append(wire, m)
  BY DEF Emit

(* Once our OPEN and KEEPALIVE are out, later messages follow them.        *)
LEMMA EmitOpened ==
    ASSUME wire \in Seq(Outgoing), Opened(wire),
           NEW m \in Outgoing \ {"OPEN", "OPEN_ERROR"}, Emit(m)
    PROVE  Opened(wire')
  BY EmitResult DEF Opened

(* Where a write leads, goroutine by goroutine.                            *)
LEMMA WriteOkLeadsTo ==
    ASSUME TypeOK, NEW g \in Goroutine, WriteOk(g)
    PROVE  \/ g = "vu" /\ pc["vu"] = "hsNotify" /\ Goto("vu", "hsFail")
           \/ g = "vu" /\ pc["vu"] = "opWrite" /\ Goto("vu", "ready")
           \/ g = "vu" /\ pc["vu"] = "cease" /\ Goto("vu", "closeCancel")
           \/ g = "readLoop" /\ pc["readLoop"] = "holdNotify" /\ Goto("readLoop", "failCancel")
           \/ g = "keepaliveLoop" /\ pc["keepaliveLoop"] = "kaWrite" /\ Goto("keepaliveLoop", "select")
  <1>1. CASE g = "vu"
    BY <1>1, WrittenByPoint DEF WriteOk, TypeOK, VuPC, AfterWrite
  <1>2. CASE g = "readLoop"
    BY <1>2, WrittenByPoint DEF WriteOk, TypeOK, ReadLoopPC, FailSteps, AfterWrite
  <1>3. CASE g = "keepaliveLoop"
    BY <1>3, WrittenByPoint DEF WriteOk, TypeOK, KeepalivePC, FailSteps, AfterWrite
  <1>4. CASE g = "watcher"
    BY <1>4, WrittenByPoint DEF WriteOk, TypeOK
  <1> QED
    BY <1>1, <1>2, <1>3, <1>4 DEF Goroutine, Loops

(* The same for a write that fails.                                        *)
LEMMA WriteErrorLeadsTo ==
    ASSUME TypeOK, NEW g \in Goroutine, WriteError(g)
    PROVE  \/ g = "vu" /\ pc["vu"] \in {"hsNotify", "hsKeepalive"} /\ Goto("vu", "hsFail")
           \/ g = "vu" /\ pc["vu"] = "opWrite" /\ Goto("vu", "ready")
           \/ g = "vu" /\ pc["vu"] = "cease" /\ Goto("vu", "closeCancel")
           \/ g = "readLoop" /\ pc["readLoop"] = "holdNotify" /\ Goto("readLoop", "failCancel")
           \/ g = "keepaliveLoop" /\ pc["keepaliveLoop"] = "kaWrite" /\ Goto("keepaliveLoop", "failCancel")
  <1>1. CASE g = "vu"
    BY <1>1, WrittenByPoint DEF WriteError, TypeOK, VuPC, AfterWrite
  <1>2. CASE g = "readLoop"
    BY <1>2, WrittenByPoint DEF WriteError, TypeOK, ReadLoopPC, FailSteps, AfterWrite
  <1>3. CASE g = "keepaliveLoop"
    BY <1>3, WrittenByPoint DEF WriteError, TypeOK, KeepalivePC, FailSteps, AfterWrite
  <1>4. CASE g = "watcher"
    BY <1>4, WrittenByPoint DEF WriteError, TypeOK
  <1> QED
    BY <1>1, <1>2, <1>3, <1>4 DEF Goroutine, Loops

(* A sequence of two elements is their pair.                               *)
LEMMA PairOfElements ==
    ASSUME NEW S, NEW s \in Seq(S), Len(s) = 2
    PROVE  s = <<s[1], s[2]>>
  <1> DEFINE pair == <<s[1], s[2]>>
  <1>1. pair \in Seq(S) /\ Len(pair) = 2 /\ pair[1] = s[1] /\ pair[2] = s[2]
    BY ElementOfSeq
  <1>2. \A i \in 1 .. 2 : i = 1 \/ i = 2
    OBVIOUS
  <1> HIDE DEF pair
  <1>3. \A i \in 1 .. Len(s) : s[i] = pair[i]
    BY <1>1, <1>2
  <1>4. s = pair
    BY <1>1, <1>3, SeqEqual
  <1> QED
    BY <1>4 DEF pair

(* Appending to a sequence of one element makes a pair.                    *)
LEMMA AppendToOne ==
    ASSUME NEW a, NEW m
    PROVE  Append(<<a>>, m) = <<a, m>>
  <1> DEFINE s == Append(<<a>>, m)
  <1>1. s \in Seq({a, m}) /\ Len(s) = 2 /\ s[1] = a /\ s[2] = m
    OBVIOUS
  <1> HIDE DEF s
  <1>2. s = <<a, m>>
    BY <1>1, PairOfElements
  <1> QED
    BY <1>2 DEF s

(* The first message on the wire is alone there.                           *)
LEMMA EmitFirst ==
    ASSUME wire = <<>>, NEW m, Emit(m)
    PROVE  wire' = <<m>>
  <1>1. wire' = Append(<<>>, m)
    BY DEF Emit
  <1> QED
    BY <1>1

(* The second message on the wire follows our OPEN.                        *)
LEMMA EmitSecond ==
    ASSUME wire = <<"OPEN">>, NEW m \in {"KEEPALIVE", "OPEN_ERROR"}, Emit(m)
    PROVE  wire' = <<"OPEN", m>>
  <1>1. Len(wire) = 1 /\ wire[1] = "OPEN"
    OBVIOUS
  <1>2. wire' = Append(<<"OPEN">>, m)
    BY <1>1 DEF Emit
  <1> QED
    BY <1>2, AppendToOne

(* The wire right after the handshake's own two messages.                  *)
LEMMA OpenedAtFirst == Opened(<<"OPEN", "KEEPALIVE">>)
  <1> DEFINE w == <<"OPEN", "KEEPALIVE">>
  <1>1. Len(w) = 2 /\ w[1] = "OPEN" /\ w[2] = "KEEPALIVE"
    OBVIOUS
  <1>2. \A i \in 2 .. 2 : i = 2
    OBVIOUS
  <1> HIDE DEF w
  <1> QED
    BY <1>1, <1>2 DEF Opened

----------------------------------------------------------------------------
\* Types.

(* Every step keeps every variable in its type.                            *)
LEMMA TypeStep == TypeOK /\ [Next]_vars => TypeOK'
  <1> SUFFICES ASSUME TypeOK, [Next]_vars PROVE TypeOK'
    OBVIOUS
  <1> USE BoundsAssumption
  <1> USE DEF TypeOK, Goto, Goroutine, Loops, State, None, Cause, VuPC, ReadLoopPC,
          KeepalivePC, FailSteps, connVars, ctxVars, hsVars, errVars, envVars, counters
  <1>1. CASE OpenStarts
    BY <1>1 DEF OpenStarts
  <1>2. CASE Dial
    BY <1>2 DEF Dial
  <1>3. CASE SendOpen
    <2>1. wire' \in Seq(Outgoing)
      BY <1>3, EmitResult DEF SendOpen, Outgoing
    <2> QED
      BY <1>3, <2>1 DEF SendOpen
  <1>4. CASE HandshakeRead
    BY <1>4 DEF HandshakeRead, Took, HandshakeStep, Incoming
  <1>5. CASE HandshakeReadFails
    BY <1>5 DEF HandshakeReadFails
  <1>6. CASE OpenAccepted
    <2>1. wire' \in Seq(Outgoing)
      BY <1>6, EmitResult DEF OpenAccepted, Outgoing
    <2> QED
      BY <1>6, <2>1 DEF OpenAccepted
  <1>7. CASE OpenFails
    BY <1>7 DEF OpenFails
  <1>8. CASE OpenSucceeds
    BY <1>8 DEF OpenSucceeds
  <1>9. CASE Operation
    BY <1>9 DEF Operation
  <1>10. CASE OperationRefused
    BY <1>10 DEF OperationRefused
  <1>11. CASE CloseCalled
    BY <1>11 DEF CloseCalled
  <1>12. CASE CloseSwaps
    BY <1>12 DEF CloseSwaps
  <1>13. CASE CloseSetsDeadline
    BY <1>13 DEF CloseSetsDeadline
  <1>14. CASE CloseCancels
    BY <1>14 DEF CloseCancels
  <1>15. CASE CloseClosesConn
    BY <1>15 DEF CloseClosesConn
  <1>16. CASE CloseJoins
    BY <1>16 DEF CloseJoins
  <1>17. CASE WatcherSeesContext
    BY <1>17 DEF WatcherSeesContext
  <1>18. CASE WatcherSeesHandshakeDone
    BY <1>18 DEF WatcherSeesHandshakeDone
  <1>19. CASE ReadLoopTop
    BY <1>19 DEF ReadLoopTop
  <1>20. CASE ReadLoopReads
    BY <1>20 DEF ReadLoopReads, Took
  <1>21. CASE ReadLoopReadFails
    BY <1>21 DEF ReadLoopReadFails
  <1>22. CASE ReadLoopParseFails
    BY <1>22 DEF ReadLoopParseFails, Took
  <1>23. CASE HoldTimerExpires
    BY <1>23 DEF HoldTimerExpires
  <1>24. CASE ReadLoopStops
    BY <1>24 DEF ReadLoopStops
  <1>25. CASE ReadLoopFails
    BY <1>25 DEF ReadLoopFails
  <1>26. CASE AnnounceExpiry
    BY <1>26 DEF AnnounceExpiry
  <1>27. CASE KeepaliveTick
    BY <1>27 DEF KeepaliveTick
  <1>28. CASE KeepaliveLoopEnds
    BY <1>28 DEF KeepaliveLoopEnds
  <1>29. ASSUME NEW l \in Loops, FailCancel(l) PROVE TypeOK'
    BY <1>29 DEF FailCancel
  <1>30. ASSUME NEW l \in Loops, FailClose(l) PROVE TypeOK'
    BY <1>30 DEF FailClose
  <1>31. ASSUME NEW l \in Loops, FailIdle(l) PROVE TypeOK'
    BY <1>31 DEF FailIdle
  <1>32. ASSUME NEW l \in Loops, FailRecord(l) PROVE TypeOK'
    BY <1>32 DEF FailRecord
  <1>33. ASSUME NEW g \in Goroutine, LockWriteMu(g) PROVE TypeOK'
    BY <1>33 DEF LockWriteMu
  <1>34. ASSUME NEW g \in Goroutine, WriteOk(g) PROVE TypeOK'
    <2>1. Written[pc[g]] \in Outgoing
      BY <1>34, WrittenByPoint DEF WriteOk, Outgoing
    <2>2. wire' \in Seq(Outgoing)
      BY <1>34, <2>1, EmitResult DEF WriteOk
    <2>5. /\ pc' \in [Goroutine -> VuPC \cup ReadLoopPC \cup KeepalivePC \cup {"watch"}]
          /\ pc'["vu"] \in VuPC /\ pc'["readLoop"] \in ReadLoopPC
          /\ pc'["keepaliveLoop"] \in KeepalivePC
          /\ pc'["watcher"] \in {"off", "watch", "done"}
      BY <1>34, WriteOkLeadsTo
    <2>6. /\ mu' = None
          /\ UNCHANGED <<state, conn, writeDeadline, ctxVars, hsVars, errVars, envVars, counters>>
      BY <1>34 DEF WriteOk
    <2> QED
      BY <2>2, <2>5, <2>6
  <1>35. ASSUME NEW g \in Goroutine, WriteError(g) PROVE TypeOK'
    <2>1. pc[g] = "kaWrite" => g = "keepaliveLoop"
      BY <1>35 DEF WriteError
    <2>2. err' \in [Loops -> Cause \cup {None}]
      BY <1>35, <2>1 DEF WriteError
    <2>5. /\ pc' \in [Goroutine -> VuPC \cup ReadLoopPC \cup KeepalivePC \cup {"watch"}]
          /\ pc'["vu"] \in VuPC /\ pc'["readLoop"] \in ReadLoopPC
          /\ pc'["keepaliveLoop"] \in KeepalivePC
          /\ pc'["watcher"] \in {"off", "watch", "done"}
      BY <1>35, WriteErrorLeadsTo
    <2>6. /\ mu' = None
          /\ UNCHANGED <<state, conn, writeDeadline, ctxVars, hsVars, failedErr, told, envVars, counters>>
      BY <1>35 DEF WriteError
    <2>7. wire' = wire
      BY <1>35 DEF WriteError
    <2> QED
      BY <2>2, <2>5, <2>6, <2>7
  <1>36. CASE ParentCancelled
    BY <1>36 DEF ParentCancelled
  <1>37. CASE PeerCloses
    BY <1>37 DEF PeerCloses
  <1>38. CASE PeerStalls
    BY <1>38 DEF PeerStalls
  <1>39. CASE Finished \/ UNCHANGED vars
    BY <1>39 DEF Finished, vars
  <1> QED
    BY <1>1, <1>2, <1>3, <1>4, <1>5, <1>6, <1>7, <1>8, <1>9, <1>10, <1>11,
       <1>12, <1>13, <1>14, <1>15, <1>16, <1>17, <1>18, <1>19, <1>20,
       <1>21, <1>22, <1>23, <1>24, <1>25, <1>26, <1>27, <1>28, <1>29,
       <1>30, <1>31, <1>32, <1>33, <1>34, <1>35, <1>36, <1>37, <1>38,
       <1>39
    DEF Next, Environment, VU, Watcher, ReadLoop, KeepaliveLoop, Failing, Write

(* What newFSM makes has the types the code gives it.                      *)
LEMMA TypeInit == Init => TypeOK
  <1> SUFFICES ASSUME Init PROVE TypeOK
    OBVIOUS
  <1>1. pc \in [Goroutine -> VuPC \cup ReadLoopPC \cup KeepalivePC \cup {"watch"}]
    BY DEF Init, Goroutine, Loops, VuPC, ReadLoopPC
  <1>2. heard \in Seq({"OPEN", "KEEPALIVE"}) /\ wire \in Seq(Outgoing)
    BY DEF Init
  <1>3. nreads \in 0 .. MaxReads /\ nticks \in 0 .. MaxTicks /\ nops \in 0 .. MaxOps
    BY BoundsAssumption DEF Init
  <1> QED
    BY <1>1, <1>2, <1>3 DEF Init, TypeOK, Goroutine, Loops, State, None, Cause, VuPC,
       ReadLoopPC, KeepalivePC

(* The shared fields of the session and the program counters of its        *)
(* goroutines always have the types the code gives them.                   *)
THEOREM TypeCorrect == Spec => []TypeOK
  BY TypeInit, TypeStep, PTL DEF Spec

----------------------------------------------------------------------------
\* The inductive invariant.

(* Every step keeps the inductive invariant.                               *)
LEMMA SessionInvStep == TypeOK /\ SessionInv /\ [Next]_vars => SessionInv'
  <1> SUFFICES ASSUME TypeOK, SessionInv, [Next]_vars PROVE SessionInv'
    OBVIOUS
  <1> USE DEF SessionInv, HandshakeInv, StateInv, LoopsInv, OrderInv, CauseInv, TypeOK,
          Before, Exchanging, Closing, Confirmed, Opening, Using, LoopCtxDone,
          Goto, Goroutine, Loops, State, None, Cause, VuPC, ReadLoopPC, KeepalivePC,
          FailSteps, connVars, ctxVars, hsVars, errVars, envVars, counters
  <1>1. CASE OpenStarts
    BY <1>1 DEF OpenStarts
  <1>2. CASE Dial
    <2>1. CASE conn' = "open" /\ Goto("vu", "sendOpen") /\ UNCHANGED state
      BY <1>2, <2>1 DEF Dial
    <2>2. CASE Goto("vu", "openFailed") /\ state' = "Idle" /\ UNCHANGED conn
      BY <1>2, <2>2 DEF Dial
    <2> QED
      BY <1>2, <2>1, <2>2 DEF Dial
  <1>3. CASE SendOpen
    <2>1. heard = <<>> /\ wire = <<>>
      BY <1>3 DEF SendOpen
    <2>2. wire' = <<"OPEN">> \/ (wire' = <<>> /\ pc'["vu"] = "openFailed")
      <3>1. Emit("OPEN") => wire' = <<"OPEN">>
        BY <2>1, EmitFirst
      <3>2. Emit("OPEN") \/ (wire' = wire /\ pc'["vu"] = "openFailed")
        BY <1>3 DEF SendOpen
      <3> QED
        BY <2>1, <3>1, <3>2
    <2> QED
      BY <1>3, <2>1, <2>2 DEF SendOpen
  <1>4. CASE HandshakeRead
    <2>1. PICK m \in Incoming, next \in {"hsKeepalive", "hsNotify", "hsDone", "hsFail"} :
            /\ next = (IF parentDone THEN "hsFail" ELSE HandshakeStep(m))
            /\ Goto("vu", next)
            /\ heard' = IF next = "hsDone" THEN Append(heard, m) ELSE heard
            /\ state' = IF next = "hsDone" THEN "Established" ELSE state
      BY <1>4 DEF HandshakeRead, HandshakeStep
    <2>2. UNCHANGED <<connVars, ctxVars, errVars, wire, envVars>>
      BY <1>4 DEF HandshakeRead
    <2>3. CASE next \in {"hsKeepalive", "hsNotify"}
      <3>1. heard = <<>> /\ pc["vu"] = "hsRead"
        BY <1>4, <2>1, <2>3 DEF HandshakeRead, HandshakeStep
      <3> QED
        BY <2>1, <2>2, <2>3, <3>1
    <2>4. CASE next = "hsDone"
      <3>1. heard = <<"OPEN">> /\ m = "KEEPALIVE" /\ pc["vu"] = "hsRead"
        BY <1>4, <2>1, <2>4 DEF HandshakeRead, HandshakeStep
      <3>2. heard' = Append(<<"OPEN">>, "KEEPALIVE")
        BY <2>1, <2>4, <3>1
      <3>3. heard' = <<"OPEN", "KEEPALIVE">>
        BY <3>2, AppendToOne
      <3>4. Opened(wire')
        BY <2>2, <3>1, OpenedAtFirst
      <3> QED
        BY <2>1, <2>2, <2>4, <3>1, <3>3, <3>4
    <2>5. CASE next = "hsFail"
      <3>1. pc["vu"] = "hsRead"
        BY <1>4 DEF HandshakeRead
      <3> QED
        BY <2>1, <2>2, <2>5, <3>1
    <2> QED
      BY <2>1, <2>3, <2>4, <2>5
  <1>5. CASE HandshakeReadFails
    BY <1>5 DEF HandshakeReadFails
  <1>6. CASE OpenAccepted
    <2>1. heard = <<>> /\ wire = <<"OPEN">>
      BY <1>6 DEF OpenAccepted
    <2>2. heard' = <<"OPEN">>
      BY <1>6, <2>1 DEF OpenAccepted
    <2>3. wire' = <<"OPEN", "KEEPALIVE">>
      BY <1>6, <2>1, EmitSecond DEF OpenAccepted
    <2> QED
      BY <1>6, <2>1, <2>2, <2>3 DEF OpenAccepted
  <1>7. CASE OpenFails
    BY <1>7 DEF OpenFails
  <1>8. CASE OpenSucceeds
    BY <1>8 DEF OpenSucceeds
  <1>9. CASE Operation
    BY <1>9 DEF Operation
  <1>10. CASE OperationRefused
    BY <1>10 DEF OperationRefused
  <1>11. CASE CloseCalled
    BY <1>11 DEF CloseCalled
  <1>12. CASE CloseSwaps
    BY <1>12 DEF CloseSwaps
  <1>13. CASE CloseSetsDeadline
    BY <1>13 DEF CloseSetsDeadline
  <1>14. CASE CloseCancels
    BY <1>14 DEF CloseCancels
  <1>15. CASE CloseClosesConn
    BY <1>15 DEF CloseClosesConn
  <1>16. CASE CloseJoins
    BY <1>16 DEF CloseJoins
  <1>17. CASE WatcherSeesContext
    BY <1>17 DEF WatcherSeesContext
  <1>18. CASE WatcherSeesHandshakeDone
    BY <1>18 DEF WatcherSeesHandshakeDone
  <1>19. CASE ReadLoopTop
    BY <1>19 DEF ReadLoopTop
  <1>20. CASE ReadLoopReads
    BY <1>20 DEF ReadLoopReads, Took
  <1>21. CASE ReadLoopReadFails
    BY <1>21 DEF ReadLoopReadFails, ReadFails
  <1>22. CASE ReadLoopParseFails
    BY <1>22 DEF ReadLoopParseFails, Took
  <1>23. CASE HoldTimerExpires
    BY <1>23 DEF HoldTimerExpires
  <1>24. CASE ReadLoopStops
    BY <1>24 DEF ReadLoopStops
  <1>25. CASE ReadLoopFails
    BY <1>25 DEF ReadLoopFails
  <1>26. CASE AnnounceExpiry
    BY <1>26 DEF AnnounceExpiry
  <1>27. CASE KeepaliveTick
    BY <1>27 DEF KeepaliveTick
  <1>28. CASE KeepaliveLoopEnds
    BY <1>28 DEF KeepaliveLoopEnds
  <1>29. ASSUME NEW l \in Loops, FailCancel(l) PROVE SessionInv'
    BY <1>29 DEF FailCancel
  <1>30. ASSUME NEW l \in Loops, FailClose(l) PROVE SessionInv'
    BY <1>30 DEF FailClose
  <1>31. ASSUME NEW l \in Loops, FailIdle(l) PROVE SessionInv'
    BY <1>31 DEF FailIdle
  <1>32. ASSUME NEW l \in Loops, FailRecord(l) PROVE SessionInv'
    BY <1>32 DEF FailRecord
  <1>33. ASSUME NEW g \in Goroutine, LockWriteMu(g) PROVE SessionInv'
    BY <1>33 DEF LockWriteMu
  <1>34. ASSUME NEW g \in Goroutine, WriteOk(g) PROVE SessionInv'
    <2>1. /\ Emit(Written[pc[g]])
          /\ UNCHANGED <<state, conn, writeDeadline, ctxVars, hsVars, errVars, envVars>>
      BY <1>34 DEF WriteOk
    <2>2. CASE g = "vu" /\ pc["vu"] = "hsNotify" /\ Goto("vu", "hsFail")
      <3>1. wire = <<"OPEN">> /\ wire' = <<"OPEN", "OPEN_ERROR">>
        BY <2>1, <2>2, WrittenByPoint, EmitSecond
      <3> QED
        BY <2>1, <2>2, <3>1
    <2>3. CASE g = "vu" /\ pc["vu"] = "opWrite" /\ Goto("vu", "ready")
      <3>1. Opened(wire')
        BY <2>1, <2>3, WrittenByPoint, EmitOpened DEF Outgoing
      <3> QED
        BY <2>1, <2>3, <3>1
    <2>4. CASE g = "vu" /\ pc["vu"] = "cease" /\ Goto("vu", "closeCancel")
      <3>1. Opened(wire')
        BY <2>1, <2>4, WrittenByPoint, EmitOpened DEF Outgoing
      <3> QED
        BY <2>1, <2>4, <3>1
    <2>5. CASE g = "readLoop" /\ pc["readLoop"] = "holdNotify" /\ Goto("readLoop", "failCancel")
      <3>1. pc["vu"] \in Confirmed /\ Opened(wire')
        BY <2>1, <2>5, WrittenByPoint, EmitOpened DEF Outgoing
      <3> QED
        BY <2>1, <2>5, <3>1
    <2>6. CASE g = "keepaliveLoop" /\ pc["keepaliveLoop"] = "kaWrite"
                 /\ Goto("keepaliveLoop", "select")
      <3>1. pc["vu"] \in Confirmed /\ Opened(wire')
        BY <2>1, <2>6, WrittenByPoint, EmitOpened DEF Outgoing
      <3> QED
        BY <2>1, <2>6, <3>1
    <2> QED
      BY <1>34, <2>2, <2>3, <2>4, <2>5, <2>6, WriteOkLeadsTo
  <1>35. ASSUME NEW g \in Goroutine, WriteError(g) PROVE SessionInv'
    <2>1. /\ err' = IF pc[g] = "kaWrite" THEN [err EXCEPT ![g] = "keepalive"] ELSE err
          /\ UNCHANGED <<state, conn, writeDeadline, ctxVars, hsVars, failedErr, told,
                         wire, envVars>>
      BY <1>35 DEF WriteError
    <2>2. CASE g = "vu" /\ pc["vu"] \in {"hsNotify", "hsKeepalive"} /\ Goto("vu", "hsFail")
      BY <2>1, <2>2
    <2>3. CASE g = "vu" /\ pc["vu"] = "opWrite" /\ Goto("vu", "ready")
      BY <2>1, <2>3
    <2>4. CASE g = "vu" /\ pc["vu"] = "cease" /\ Goto("vu", "closeCancel")
      BY <2>1, <2>4
    <2>5. CASE g = "readLoop" /\ pc["readLoop"] = "holdNotify" /\ Goto("readLoop", "failCancel")
      BY <2>1, <2>5
    <2>6. CASE g = "keepaliveLoop" /\ pc["keepaliveLoop"] = "kaWrite"
                 /\ Goto("keepaliveLoop", "failCancel")
      BY <2>1, <2>6
    <2> QED
      BY <1>35, <2>2, <2>3, <2>4, <2>5, <2>6, WriteErrorLeadsTo
  <1>36. CASE ParentCancelled
    BY <1>36 DEF ParentCancelled
  <1>37. CASE PeerCloses
    BY <1>37 DEF PeerCloses
  <1>38. CASE PeerStalls
    BY <1>38 DEF PeerStalls
  <1>39. CASE Finished \/ UNCHANGED vars
    BY <1>39 DEF Finished, vars
  <1> QED
    BY <1>1, <1>2, <1>3, <1>4, <1>5, <1>6, <1>7, <1>8, <1>9, <1>10, <1>11,
       <1>12, <1>13, <1>14, <1>15, <1>16, <1>17, <1>18, <1>19, <1>20,
       <1>21, <1>22, <1>23, <1>24, <1>25, <1>26, <1>27, <1>28, <1>29,
       <1>30, <1>31, <1>32, <1>33, <1>34, <1>35, <1>36, <1>37, <1>38,
       <1>39
    DEF Next, VU, Watcher, ReadLoop, KeepaliveLoop, Failing, Write, Environment

(* The invariant the safety properties follow from.                        *)
THEOREM SessionInvariant == Spec => [](TypeOK /\ SessionInv)
  <1>1. Init => SessionInv
    BY DEF Init, SessionInv, HandshakeInv, StateInv, LoopsInv, OrderInv, CauseInv,
       Before, Exchanging, Closing, Confirmed, Opening, Using, LoopCtxDone,
       Goroutine, Loops, None, FailSteps, Cause
  <1>2. Init => TypeOK
    BY TypeInit
  <1> QED
    BY <1>1, <1>2, TypeStep, SessionInvStep, PTL DEF Spec

----------------------------------------------------------------------------
\* What follows from it.

(* Whatever the peer sends and in whatever order the goroutines run, the   *)
(* session is Established only once the peer's OPEN and KEEPALIVE were     *)
(* accepted and our OPEN and KEEPALIVE written.                            *)
THEOREM HandshakePrecedesEstablished == Spec => []EstablishedByHandshake
  <1>1. TypeOK /\ SessionInv => EstablishedByHandshake
    <2> SUFFICES ASSUME TypeOK, SessionInv, state = "Established"
                 PROVE  /\ heard = <<"OPEN", "KEEPALIVE">>
                        /\ SubSeq(wire, 1, 2) = <<"OPEN", "KEEPALIVE">>
      BY DEF EstablishedByHandshake
    <2>1. pc["vu"] \in Confirmed
      BY DEF SessionInv, StateInv, TypeOK, VuPC, Exchanging, Closing, Confirmed, Using
    <2>2. heard = <<"OPEN", "KEEPALIVE">> /\ Opened(wire)
      BY <2>1 DEF SessionInv, HandshakeInv
    <2>3. /\ SubSeq(wire, 1, 2) \in Seq(Outgoing) /\ Len(SubSeq(wire, 1, 2)) = 2
          /\ SubSeq(wire, 1, 2)[1] = "OPEN" /\ SubSeq(wire, 1, 2)[2] = "KEEPALIVE"
      BY <2>2 DEF TypeOK, Opened
    <2> QED
      BY <2>2, <2>3, PairOfElements
  <1> QED
    BY <1>1, SessionInvariant, PTL

(* Our OPEN is the first message the peer gets, nothing but a KEEPALIVE or *)
(* the NOTIFICATION that refuses its OPEN comes second, and that           *)
(* NOTIFICATION is the last: no goroutine's write slips in elsewhere.      *)
THEOREM MessagesInOrder == Spec => []WireOrder
  <1>1. TypeOK /\ SessionInv => WireOrder
    <2> SUFFICES ASSUME TypeOK, SessionInv, NEW i \in 1 .. Len(wire)
                 PROVE  /\ wire[i] = "OPEN" <=> i = 1
                        /\ wire[i] \in {"UPDATE", "CEASE", "HOLD_EXPIRED"}
                             => i > 2 /\ wire[2] = "KEEPALIVE"
                        /\ wire[i] = "OPEN_ERROR" => i = 2 /\ Len(wire) = 2
      BY DEF WireOrder
    <2>1. CASE Opened(wire)
      BY <2>1 DEF Opened, TypeOK
    <2>2. CASE wire \in {<<>>, <<"OPEN">>, <<"OPEN", "KEEPALIVE">>, <<"OPEN", "OPEN_ERROR">>}
      BY <2>2
    <2> QED
      BY <2>1, <2>2 DEF SessionInv, HandshakeInv, TypeOK, VuPC, Before, Exchanging,
         Confirmed, Using, Closing
  <1> QED
    BY <1>1, SessionInvariant, PTL

(* The connection of an Open that failed or of a session Close has left is *)
(* closed, in whichever order Close met the fail of a loop.                *)
THEOREM ConnectionsReleased == Spec => []ConnReleased
  <1>1. TypeOK /\ SessionInv => ConnReleased
    BY DEF SessionInv, OrderInv, ConnReleased, Using
  <1> QED
    BY <1>1, SessionInvariant, PTL

(* A session that ended without Close and without the end of the script's  *)
(* context has recorded its cause, or is about to in a loop running fail;  *)
(* one that is Idle for its script lacks it for one step of that loop only *)
(* and what a refused operation was told of it is never replaced.          *)
THEOREM EndsAreExplained == Spec => []EndIsExplained
  <1>1. TypeOK /\ SessionInv => EndIsExplained
    BY DEF SessionInv, OrderInv, CauseInv, EndIsExplained, LoopCtxDone, FailSteps
  <1> QED
    BY <1>1, SessionInvariant, PTL

(* A read error is recorded only if the peer closed or the script's        *)
(* context ended: never because fail or Close closed our own end.          *)
THEOREM ReadErrorsAreForeign == Spec => []NoSelfInflictedReadError
  <1>1. SessionInv => NoSelfInflictedReadError
    BY DEF SessionInv, CauseInv, NoSelfInflictedReadError
  <1> QED
    BY <1>1, SessionInvariant, PTL

(* Every change of the state is one RFC 4271 knows, although two loops and *)
(* the VU all store it: no step leaves Idle again.                         *)
THEOREM StatesFollowThePath == Spec => StateTransitions
  <1> DEFINE Permitted ==
        /\ <<state, state'>> \in {<<"Idle", "Active">>, <<"Active", "OpenSent">>,
                                  <<"OpenSent", "OpenConfirm">>,
                                  <<"OpenConfirm", "Established">>}
             \cup (State \X {"Idle"})
        /\ state' = "Active" => pc["vu"] = "start"
  <1>1. TypeOK /\ SessionInv /\ [Next]_vars => [Permitted]_state
    <2> SUFFICES ASSUME TypeOK, SessionInv, [Next]_vars, state' # state
                 PROVE  Permitted
      OBVIOUS
    <2>1. CASE OpenStarts
      BY <2>1 DEF OpenStarts
    <2>2. CASE SendOpen
      BY <2>2 DEF SendOpen, SessionInv, StateInv, TypeOK, State
    <2>3. CASE OpenAccepted
      <3>1. heard = <<>>
        BY <2>3 DEF OpenAccepted, SessionInv, HandshakeInv
      <3> QED
        BY <2>3, <3>1 DEF OpenAccepted, SessionInv, StateInv, Exchanging
    <2>4. CASE HandshakeRead
      <3>1. PICK m \in Incoming :
              /\ (IF parentDone THEN "hsFail" ELSE HandshakeStep(m)) = "hsDone"
              /\ state' = "Established"
        BY <2>4 DEF HandshakeRead
      <3>2. heard # <<>> /\ pc["vu"] = "hsRead"
        BY <2>4, <3>1 DEF HandshakeRead, HandshakeStep
      <3> QED
        BY <3>1, <3>2 DEF SessionInv, StateInv, Exchanging
    <2>5. state' = "Idle" \/ OpenStarts \/ SendOpen \/ OpenAccepted \/ HandshakeRead
      BY DEF Next, VU, Watcher, ReadLoop, KeepaliveLoop, Failing, Write, Environment,
         vars, connVars, ctxVars, hsVars, errVars, envVars, counters,
         Dial, HandshakeReadFails, OpenFails, OpenSucceeds, Operation, OperationRefused,
         CloseCalled, CloseSwaps, CloseSetsDeadline, CloseCancels, CloseClosesConn,
         CloseJoins, WatcherSeesContext, WatcherSeesHandshakeDone, ReadLoopTop,
         ReadLoopReads, ReadLoopReadFails, ReadLoopParseFails, HoldTimerExpires,
         ReadLoopStops, ReadLoopFails, AnnounceExpiry, KeepaliveTick, KeepaliveLoopEnds,
         FailCancel, FailClose, FailIdle, FailRecord, LockWriteMu, WriteOk, WriteError,
         ParentCancelled, PeerCloses, PeerStalls, Finished
    <2>6. CASE state' = "Idle"
      BY <2>6 DEF TypeOK
    <2> QED
      BY <2>1, <2>2, <2>3, <2>4, <2>5, <2>6
  <1> QED
    BY <1>1, SessionInvariant, PTL DEF Spec, StateTransitions

=============================================================================
