---------------------------- MODULE PeerSession ----------------------------
(***************************************************************************)
(* One BGP session as its goroutines run it, internal/peer/fsm.go.         *)
(*                                                                         *)
(* The VU goroutine dials, exchanges OPEN and KEEPALIVE and, once the      *)
(* session is Established, sends, and finally closes; a watcher closes the *)
(* connection when the parent context ends during the handshake; readLoop  *)
(* and keepaliveLoop run from Established to the end.  They share the      *)
(* atomic state, the connection, writeMu, loopCtx and the first error      *)
(* recorded in the observed set.  fail and Close are modelled statement by *)
(* statement, for their order is what the other goroutines depend on.      *)
(*                                                                         *)
(* The peer and TCP are the environment: a read returns any message, fails *)
(* when either side has closed, or times out; a write succeeds, fails, or  *)
(* blocks while the peer does not read.                                    *)
(***************************************************************************)
EXTENDS Integers, Sequences, FiniteSets

CONSTANTS
    MaxReads,   \* bound: messages received from the peer
    MaxTicks,   \* bound: ticks of the keepalive ticker
    MaxOps      \* bound: Advertise, Withdraw and RouteRefresh calls

ASSUME BoundsAssumption == MaxReads \in Nat /\ MaxTicks \in Nat /\ MaxOps \in Nat

VARIABLES
    pc,             \* where each goroutine is
    state,          \* fsm.state
    conn,           \* our end of the connection: "none", "open", "closed"
    mu,             \* the goroutine that holds writeMu
    writeDeadline,  \* SetWriteDeadline has been called
    parentDone,     \* the context given to Open is cancelled
    hsDone,         \* handshake over: hsDone closed and hsCancel called
    loopCancelled,  \* loopCancel has been called
    hold,           \* negotiatedHold > 0
    heard,          \* the peer's messages the handshake accepted
    err,            \* the error each loop passes to fail
    failedErr,      \* observedSet.failedErr
    told,           \* the cause given to the last refused operation
    wire,           \* what we have written, repetitions left out
    peerClosed,     \* the peer closed its end
    stalled,        \* the peer does not read and the send buffer is full
    nreads, nticks, nops

connVars == <<conn, mu, writeDeadline>>
ctxVars  == <<parentDone, hsDone, loopCancelled>>
hsVars   == <<hold, heard>>
errVars  == <<err, failedErr, told>>
envVars  == <<peerClosed, stalled>>
counters == <<nreads, nticks, nops>>
vars == <<pc, state, connVars, ctxVars, hsVars, errVars, wire, envVars, counters>>

----------------------------------------------------------------------------
None  == "none"
Loops == {"readLoop", "keepaliveLoop"}
Goroutine == Loops \cup {"vu", "watcher"}
State == {"Idle", "Active", "OpenSent", "OpenConfirm", "Established"}

(* What a goroutine writes while its program counter is at a write.        *)
Written == [hsNotify |-> "OPEN_ERROR", hsKeepalive |-> "KEEPALIVE",
            opWrite |-> "UPDATE", cease |-> "CEASE",
            holdNotify |-> "HOLD_EXPIRED", kaWrite |-> "KEEPALIVE"]
Writing == DOMAIN Written
Outgoing == {"OPEN", "OPEN_ERROR", "KEEPALIVE", "UPDATE", "CEASE", "HOLD_EXPIRED"}

FailSteps == {"failCancel", "failClose", "failIdle", "failRecord"}

VuPC == {"start", "dial", "sendOpen", "hsRead", "hsNotify", "hsKeepalive",
         "hsDone", "hsFail", "openFailed", "ready", "opWrite", "opRefused",
         "closeSwap", "closeDeadline", "cease", "closeCancel", "closeConn",
         "closeJoin", "closed"}
ReadLoopPC == {"off", "top", "read", "readErr", "holdNotify", "done"} \cup FailSteps
KeepalivePC == {"off", "select", "kaWrite", "done"} \cup FailSteps

(* BAD_OPEN is an OPEN acceptPeerOpen refuses, GARBAGE a message that does *)
(* not parse, UPDATE also stands for ROUTE-REFRESH.                        *)
Incoming == {"OPEN", "BAD_OPEN", "KEEPALIVE", "UPDATE", "NOTIFICATION", "GARBAGE"}
Cause == {"read", "parse", "hold", "notification", "keepalive"}

(* Each goroutine is at a point of its own function; shared fields have    *)
(* the types they have in the code.                                        *)
TypeOK ==
    /\ pc \in [Goroutine -> VuPC \cup ReadLoopPC \cup KeepalivePC \cup {"watch"}]
    /\ pc["vu"] \in VuPC
    /\ pc["readLoop"] \in ReadLoopPC
    /\ pc["keepaliveLoop"] \in KeepalivePC
    /\ pc["watcher"] \in {"off", "watch", "done"}
    /\ state \in State
    /\ conn \in {"none", "open", "closed"}
    /\ mu \in Goroutine \cup {None}
    /\ writeDeadline \in BOOLEAN
    /\ parentDone \in BOOLEAN /\ hsDone \in BOOLEAN /\ loopCancelled \in BOOLEAN
    /\ hold \in BOOLEAN
    /\ heard \in Seq({"OPEN", "KEEPALIVE"})
    /\ err \in [Loops -> Cause \cup {None}]
    /\ failedErr \in Cause \cup {None}
    /\ told \in Cause \cup {None, "nothing"}
    /\ wire \in Seq(Outgoing)
    /\ peerClosed \in BOOLEAN /\ stalled \in BOOLEAN
    /\ nreads \in 0 .. MaxReads /\ nticks \in 0 .. MaxTicks /\ nops \in 0 .. MaxOps

Init ==
    /\ pc = [g \in Goroutine |-> IF g = "vu" THEN "start" ELSE "off"]
    /\ state = "Idle"
    /\ conn = "none" /\ mu = None /\ writeDeadline = FALSE
    /\ parentDone = FALSE /\ hsDone = FALSE /\ loopCancelled = FALSE
    /\ hold = FALSE /\ heard = <<>>
    /\ err = [l \in Loops |-> None] /\ failedErr = None /\ told = "nothing"
    /\ wire = <<>>
    /\ peerClosed = FALSE /\ stalled = FALSE
    /\ nreads = 0 /\ nticks = 0 /\ nops = 0

----------------------------------------------------------------------------
\* Helpers.

Goto(g, at) == pc' = [pc EXCEPT ![g] = at]

(* loopCtx is a child of the parent context.                               *)
LoopCtxDone == loopCancelled \/ parentDone

(* A message on the wire; a repetition of the last one is not recorded.    *)
Emit(m) == wire' = IF wire # <<>> /\ wire[Len(wire)] = m THEN wire ELSE Append(wire, m)

(* A read fails once either end is closed.                                 *)
ReadFails == conn = "closed" \/ peerClosed

(* A write may go through while our end is open and the peer takes data;   *)
(* it may fail when an end is closed or a write deadline has passed.       *)
WriteSucceeds == conn = "open" /\ ~stalled
WriteFails    == conn = "closed" \/ peerClosed \/ writeDeadline

Took == nreads < MaxReads /\ nreads' = nreads + 1

----------------------------------------------------------------------------
\* Open.

OpenStarts ==
    /\ pc["vu"] = "start"
    /\ state = "Idle"
    /\ state' = "Active"
    /\ Goto("vu", "dial")
    /\ UNCHANGED <<connVars, ctxVars, hsVars, errVars, wire, envVars, counters>>

Dial ==
    /\ pc["vu"] = "dial"
    /\ \/ /\ conn' = "open"
          /\ Goto("vu", "sendOpen")
          /\ UNCHANGED state
       \/ /\ Goto("vu", "openFailed")
          /\ state' = "Idle"
          /\ UNCHANGED conn
    /\ UNCHANGED <<mu, writeDeadline, ctxVars, hsVars, errVars, wire, envVars,
                   counters>>

(* Building or serializing the OPEN may fail, and so may its write.        *)
SendOpen ==
    /\ pc["vu"] = "sendOpen"
    /\ \/ /\ Emit("OPEN")
          /\ state' = "OpenSent"
          /\ pc' = [pc EXCEPT !["vu"] = "hsRead", !["watcher"] = "watch"]
          /\ UNCHANGED conn
       \/ /\ conn' = "closed"
          /\ state' = "Idle"
          /\ Goto("vu", "openFailed")
          /\ UNCHANGED wire
    /\ UNCHANGED <<mu, writeDeadline, ctxVars, hsVars, errVars, envVars, counters>>

(* The watcher's select; both cases may be ready.                          *)
WatcherSeesContext ==
    /\ pc["watcher"] = "watch"
    /\ parentDone \/ hsDone
    /\ conn' = IF parentDone THEN "closed" ELSE conn
    /\ Goto("watcher", "done")
    /\ UNCHANGED <<state, mu, writeDeadline, ctxVars, hsVars, errVars, wire,
                   envVars, counters>>

WatcherSeesHandshakeDone ==
    /\ pc["watcher"] = "watch"
    /\ hsDone
    /\ Goto("watcher", "done")
    /\ UNCHANGED <<state, connVars, ctxVars, hsVars, errVars, wire, envVars, counters>>

\* Mutant: a second OPEN is accepted like the first.
HandshakeStepDuplicateOpen(m) ==
    CASE m = "OPEN"                         -> "hsKeepalive"
      [] m = "BAD_OPEN" /\ heard = <<>>     -> "hsNotify"
      [] m = "KEEPALIVE" /\ heard # <<>>    -> "hsDone"
      [] OTHER                              -> "hsFail"

\* Mutant: a KEEPALIVE completes the handshake before any OPEN.
HandshakeStepEarlyKeepalive(m) ==
    CASE m = "OPEN" /\ heard = <<>>         -> "hsKeepalive"
      [] m = "BAD_OPEN" /\ heard = <<>>     -> "hsNotify"
      [] m = "KEEPALIVE"                    -> "hsDone"
      [] OTHER                              -> "hsFail"

(* Where the handshake goes on a message it has read.                      *)
HandshakeStep(m) ==
    CASE m = "OPEN" /\ heard = <<>>         -> "hsKeepalive"
      [] m = "BAD_OPEN" /\ heard = <<>>     -> "hsNotify"
      [] m = "KEEPALIVE" /\ heard # <<>>    -> "hsDone"
      [] OTHER                              -> "hsFail"

(* One turn of handshake's loop, up to the write it may make.  A valid     *)
(* OPEN fixes the negotiated hold time.                                    *)
HandshakeRead ==
    /\ pc["vu"] = "hsRead"
    /\ conn = "open"
    /\ Took
    /\ \E m \in Incoming :
         LET next == IF parentDone THEN "hsFail" ELSE HandshakeStep(m)
         IN  /\ Goto("vu", next)
             /\ hold' \in IF next = "hsKeepalive" THEN BOOLEAN ELSE {hold}
             /\ heard' = IF next = "hsDone" THEN Append(heard, m) ELSE heard
             /\ state' = IF next = "hsDone" THEN "Established" ELSE state
    /\ UNCHANGED <<connVars, ctxVars, errVars, wire, envVars, nticks, nops>>

\* Mutant: the handshake reads without a deadline.
HandshakeReadFailsNoDeadline ==
    /\ pc["vu"] = "hsRead"
    /\ ReadFails
    /\ Goto("vu", "hsFail")
    /\ UNCHANGED <<state, connVars, ctxVars, hsVars, errVars, wire, envVars, counters>>

(* The read fails or reaches the deadline of OpenTimeout.                  *)
HandshakeReadFails ==
    /\ pc["vu"] = "hsRead"
    /\ Goto("vu", "hsFail")
    /\ UNCHANGED <<state, connVars, ctxVars, hsVars, errVars, wire, envVars, counters>>

(* The first KEEPALIVE has been written; the deadline is looked at again.  *)
OpenAccepted ==
    /\ pc["vu"] = "hsKeepalive" /\ mu = "vu"
    /\ WriteSucceeds
    /\ Emit("KEEPALIVE")
    /\ mu' = None
    /\ heard' = Append(heard, "OPEN")
    /\ state' = "OpenConfirm"
    /\ \/ Goto("vu", "hsRead")
       \/ Goto("vu", "hsFail")
    /\ UNCHANGED <<conn, writeDeadline, ctxVars, hold, errVars, envVars, counters>>

OpenFails ==
    /\ pc["vu"] = "hsFail"
    /\ hsDone' = TRUE
    /\ conn' = "closed"
    /\ state' = "Idle"
    /\ Goto("vu", "openFailed")
    /\ UNCHANGED <<mu, writeDeadline, parentDone, loopCancelled, hsVars, errVars,
                   wire, envVars, counters>>

(* The handshake succeeded: the loops start and Open returns.              *)
OpenSucceeds ==
    /\ pc["vu"] = "hsDone"
    /\ hsDone' = TRUE
    /\ pc' = [pc EXCEPT !["vu"] = "ready", !["readLoop"] = "top",
                        !["keepaliveLoop"] = "select"]
    /\ UNCHANGED <<state, connVars, parentDone, loopCancelled, hsVars, errVars,
                   wire, envVars, counters>>

----------------------------------------------------------------------------
\* writeMessage: writeMu is held around the write.

LockWriteMu(g) ==
    /\ pc[g] \in Writing
    /\ mu = None
    /\ mu' = g
    /\ UNCHANGED <<pc, state, conn, writeDeadline, ctxVars, hsVars, errVars, wire,
                   envVars, counters>>

\* Mutant: a refused OPEN goes the way of an expired hold timer.
AfterWriteToFail(at, ok) ==
    CASE at \in {"hsNotify", "holdNotify"} -> "failCancel"
      [] at = "hsKeepalive" -> "hsFail"
      [] at = "opWrite"     -> "ready"
      [] at = "cease"       -> "closeCancel"
      [] at = "kaWrite"     -> IF ok THEN "select" ELSE "failCancel"

\* Mutant: the handshake goes on after the NOTIFICATION that refuses the OPEN.
AfterWriteGoesOn(at, ok) ==
    CASE at = "hsNotify"    -> "hsRead"
      [] at = "hsKeepalive" -> "hsFail"
      [] at = "opWrite"     -> "ready"
      [] at = "cease"       -> "closeCancel"
      [] at = "holdNotify"  -> "failCancel"
      [] at = "kaWrite"     -> IF ok THEN "select" ELSE "failCancel"

(* Where a goroutine goes when its write has succeeded or failed.          *)
AfterWrite(at, ok) ==
    CASE at = "hsNotify"    -> "hsFail"
      [] at = "hsKeepalive" -> "hsFail"
      [] at = "opWrite"     -> "ready"
      [] at = "cease"       -> "closeCancel"
      [] at = "holdNotify"  -> "failCancel"
      [] at = "kaWrite"     -> IF ok THEN "select" ELSE "failCancel"

WriteOk(g) ==
    /\ pc[g] \in Writing \ {"hsKeepalive"} /\ mu = g
    /\ WriteSucceeds
    /\ Emit(Written[pc[g]])
    /\ mu' = None
    /\ Goto(g, AfterWrite(pc[g], TRUE))
    /\ UNCHANGED <<state, conn, writeDeadline, ctxVars, hsVars, errVars, envVars,
                   counters>>

WriteError(g) ==
    /\ pc[g] \in Writing /\ mu = g
    /\ WriteFails
    /\ mu' = None
    /\ Goto(g, AfterWrite(pc[g], FALSE))
    /\ err' = IF pc[g] = "kaWrite" THEN [err EXCEPT ![g] = "keepalive"] ELSE err
    /\ UNCHANGED <<state, conn, writeDeadline, ctxVars, hsVars, failedErr, told,
                   wire, envVars, counters>>

----------------------------------------------------------------------------
\* keepaliveLoop and readLoop.

KeepaliveTick ==
    /\ pc["keepaliveLoop"] = "select"
    /\ hold
    /\ nticks < MaxTicks
    /\ nticks' = nticks + 1
    /\ Goto("keepaliveLoop", "kaWrite")
    /\ UNCHANGED <<state, connVars, ctxVars, hsVars, errVars, wire, envVars,
                   nreads, nops>>

KeepaliveLoopEnds ==
    /\ pc["keepaliveLoop"] = "select"
    /\ LoopCtxDone
    /\ Goto("keepaliveLoop", "done")
    /\ UNCHANGED <<state, connVars, ctxVars, hsVars, errVars, wire, envVars, counters>>

ReadLoopTop ==
    /\ pc["readLoop"] = "top"
    /\ Goto("readLoop", IF LoopCtxDone THEN "done" ELSE "read")
    /\ UNCHANGED <<state, connVars, ctxVars, hsVars, errVars, wire, envVars, counters>>

(* A message that parses: a NOTIFICATION fails the session, anything else  *)
(* is dispatched (to the observed set) or ignored.                         *)
ReadLoopReads ==
    /\ pc["readLoop"] = "read"
    /\ conn = "open"
    /\ Took
    /\ \E m \in Incoming \ {"GARBAGE"} :
         IF m = "NOTIFICATION"
         THEN /\ Goto("readLoop", "failCancel")
              /\ err' = [err EXCEPT !["readLoop"] = "notification"]
         ELSE /\ Goto("readLoop", "top")
              /\ UNCHANGED err
    /\ UNCHANGED <<state, connVars, ctxVars, hsVars, failedErr, told, wire,
                   envVars, nticks, nops>>

(* ReadMessageMax returns an error because an end is closed.               *)
ReadLoopReadFails ==
    /\ pc["readLoop"] = "read"
    /\ ReadFails
    /\ err' = [err EXCEPT !["readLoop"] = "read"]
    /\ Goto("readLoop", "readErr")
    /\ UNCHANGED <<state, connVars, ctxVars, hsVars, failedErr, told, wire,
                   envVars, counters>>

(* ReadMessageMax returns an error because what came does not parse.       *)
ReadLoopParseFails ==
    /\ pc["readLoop"] = "read"
    /\ conn = "open"
    /\ Took
    /\ err' = [err EXCEPT !["readLoop"] = "parse"]
    /\ Goto("readLoop", "readErr")
    /\ UNCHANGED <<state, connVars, ctxVars, hsVars, failedErr, told, wire,
                   envVars, nticks, nops>>

(* The read deadline: nothing came for the negotiated hold time.           *)
HoldTimerExpires ==
    /\ pc["readLoop"] = "read"
    /\ hold
    /\ err' = [err EXCEPT !["readLoop"] = "hold"]
    /\ Goto("readLoop", "readErr")
    /\ UNCHANGED <<state, connVars, ctxVars, hsVars, failedErr, told, wire,
                   envVars, counters>>

(* An error after the context ended is the end of the session, not a       *)
(* failure of it.                                                          *)
ReadLoopStops ==
    /\ pc["readLoop"] = "readErr"
    /\ LoopCtxDone
    /\ Goto("readLoop", "done")
    /\ UNCHANGED <<state, connVars, ctxVars, hsVars, errVars, wire, envVars, counters>>

ReadLoopFails ==
    /\ pc["readLoop"] = "readErr"
    /\ ~LoopCtxDone
    /\ err["readLoop"] # "hold"
    /\ Goto("readLoop", "failCancel")
    /\ UNCHANGED <<state, connVars, ctxVars, hsVars, errVars, wire, envVars, counters>>

\* Mutant: the NOTIFICATION is written without bounding the write.
AnnounceExpiryUnbounded ==
    /\ pc["readLoop"] = "readErr"
    /\ ~LoopCtxDone
    /\ err["readLoop"] = "hold"
    /\ Goto("readLoop", "holdNotify")
    /\ UNCHANGED <<state, connVars, ctxVars, hsVars, errVars, wire, envVars, counters>>

(* A hold timer expiry is announced before it fails; the write deadline    *)
(* also frees a writer that is blocked with writeMu held.                  *)
AnnounceExpiry ==
    /\ pc["readLoop"] = "readErr"
    /\ ~LoopCtxDone
    /\ err["readLoop"] = "hold"
    /\ writeDeadline' = TRUE
    /\ Goto("readLoop", "holdNotify")
    /\ UNCHANGED <<state, conn, mu, ctxVars, hsVars, errVars, wire, envVars, counters>>

----------------------------------------------------------------------------
\* fail, in either loop: cancel, close, store Idle, record.

\* Mutant: fail leaves the other loop running.
FailCancelForgotten(l) ==
    /\ pc[l] = "failCancel"
    /\ Goto(l, "failClose")
    /\ UNCHANGED <<state, connVars, ctxVars, hsVars, errVars, wire, envVars, counters>>

FailCancel(l) ==
    /\ pc[l] = "failCancel"
    /\ loopCancelled' = TRUE
    /\ Goto(l, "failClose")
    /\ UNCHANGED <<state, connVars, parentDone, hsDone, hsVars, errVars, wire,
                   envVars, counters>>

\* Mutant: closing the connection is left to Close.
FailCloseLeftToClose(l) ==
    /\ pc[l] = "failClose"
    /\ Goto(l, "failIdle")
    /\ UNCHANGED <<state, connVars, ctxVars, hsVars, errVars, wire, envVars, counters>>

FailClose(l) ==
    /\ pc[l] = "failClose"
    /\ conn' = "closed"
    /\ Goto(l, "failIdle")
    /\ UNCHANGED <<state, mu, writeDeadline, ctxVars, hsVars, errVars, wire,
                   envVars, counters>>

FailIdle(l) ==
    /\ pc[l] = "failIdle"
    /\ state' = "Idle"
    /\ Goto(l, "failRecord")
    /\ UNCHANGED <<connVars, ctxVars, hsVars, errVars, wire, envVars, counters>>

\* Mutant: the last error replaces the first.
FailRecordLast(l) ==
    /\ pc[l] = "failRecord"
    /\ failedErr' = err[l]
    /\ Goto(l, "done")
    /\ UNCHANGED <<state, connVars, ctxVars, hsVars, err, told, wire, envVars, counters>>

(* observedSet.fail: the first error stays.                                *)
FailRecord(l) ==
    /\ pc[l] = "failRecord"
    /\ failedErr' = IF failedErr = None THEN err[l] ELSE failedErr
    /\ Goto(l, "done")
    /\ UNCHANGED <<state, connVars, ctxVars, hsVars, err, told, wire, envVars, counters>>

----------------------------------------------------------------------------
\* Operations of the VU on a session Open has returned.

(* Advertise, Withdraw and RouteRefresh look at the state first.           *)
Operation ==
    /\ pc["vu"] = "ready"
    /\ nops < MaxOps
    /\ nops' = nops + 1
    /\ Goto("vu", IF state = "Established" THEN "opWrite" ELSE "opRefused")
    /\ UNCHANGED <<state, connVars, ctxVars, hsVars, errVars, wire, envVars,
                   nreads, nticks>>

(* sessionNotReadyErr wraps the recorded cause, if there is one.           *)
OperationRefused ==
    /\ pc["vu"] = "opRefused"
    /\ told' = failedErr
    /\ Goto("vu", "ready")
    /\ UNCHANGED <<state, connVars, ctxVars, hsVars, err, failedErr, wire, envVars,
                   counters>>

(* Close loads the state and returns at once when it is Idle.              *)
CloseCalled ==
    /\ pc["vu"] = "ready"
    /\ Goto("vu", IF state = "Idle" THEN "closed" ELSE "closeSwap")
    /\ UNCHANGED <<state, connVars, ctxVars, hsVars, errVars, wire, envVars, counters>>

(* CompareAndSwap to Idle; a loop's fail may have got there first.         *)
CloseSwaps ==
    /\ pc["vu"] = "closeSwap"
    /\ Goto("vu", IF state = "Established" THEN "closeDeadline" ELSE "closed")
    /\ state' = "Idle"
    /\ UNCHANGED <<connVars, ctxVars, hsVars, errVars, wire, envVars, counters>>

\* Mutant: Close does not bound the writes it waits for.
CloseSetsNoDeadline ==
    /\ pc["vu"] = "closeDeadline"
    /\ Goto("vu", "cease")
    /\ UNCHANGED <<state, connVars, ctxVars, hsVars, errVars, wire, envVars, counters>>

CloseSetsDeadline ==
    /\ pc["vu"] = "closeDeadline"
    /\ writeDeadline' = TRUE
    /\ Goto("vu", "cease")
    /\ UNCHANGED <<state, conn, mu, ctxVars, hsVars, errVars, wire, envVars, counters>>

\* Mutant: Close does not tell the loops.
CloseCancelsNothing ==
    /\ pc["vu"] = "closeCancel"
    /\ Goto("vu", "closeConn")
    /\ UNCHANGED <<state, connVars, ctxVars, hsVars, errVars, wire, envVars, counters>>

CloseCancels ==
    /\ pc["vu"] = "closeCancel"
    /\ loopCancelled' = TRUE
    /\ Goto("vu", "closeConn")
    /\ UNCHANGED <<state, connVars, parentDone, hsDone, hsVars, errVars, wire,
                   envVars, counters>>

CloseClosesConn ==
    /\ pc["vu"] = "closeConn"
    /\ conn' = "closed"
    /\ Goto("vu", "closeJoin")
    /\ UNCHANGED <<state, mu, writeDeadline, ctxVars, hsVars, errVars, wire,
                   envVars, counters>>

CloseJoins ==
    /\ pc["vu"] = "closeJoin"
    /\ \A l \in Loops : pc[l] = "done"
    /\ Goto("vu", "closed")
    /\ UNCHANGED <<state, connVars, ctxVars, hsVars, errVars, wire, envVars, counters>>

----------------------------------------------------------------------------
\* The environment.

(* The VU's context ends: end of the test, or an interrupted iteration.    *)
ParentCancelled ==
    /\ ~parentDone
    /\ parentDone' = TRUE
    /\ UNCHANGED <<pc, state, connVars, hsDone, loopCancelled, hsVars, errVars,
                   wire, envVars, counters>>

PeerCloses ==
    /\ conn = "open"
    /\ ~peerClosed
    /\ peerClosed' = TRUE
    /\ UNCHANGED <<pc, state, connVars, ctxVars, hsVars, errVars, wire, stalled,
                   counters>>

(* Only UPDATEs fill the send buffer, so a stall needs some.  The peer may *)
(* start to read again.                                                    *)
PeerStalls ==
    /\ conn = "open"
    /\ nops > 0
    /\ stalled' = ~stalled
    /\ UNCHANGED <<pc, state, connVars, ctxVars, hsVars, errVars, wire, peerClosed,
                   counters>>

(* Every goroutine has returned: the session is over.                      *)
Finished ==
    /\ pc["vu"] \in {"openFailed", "closed"}
    /\ \A g \in Goroutine \ {"vu"} : pc[g] \in {"off", "done"}
    /\ parentDone
    /\ UNCHANGED vars

----------------------------------------------------------------------------
VU == \/ OpenStarts \/ Dial \/ SendOpen \/ HandshakeRead \/ HandshakeReadFails
      \/ OpenAccepted \/ OpenFails \/ OpenSucceeds
      \/ Operation \/ OperationRefused
      \/ CloseCalled \/ CloseSwaps \/ CloseSetsDeadline \/ CloseCancels
      \/ CloseClosesConn \/ CloseJoins
Watcher == WatcherSeesContext \/ WatcherSeesHandshakeDone
ReadLoop == \/ ReadLoopTop \/ ReadLoopReads \/ ReadLoopReadFails
            \/ ReadLoopParseFails \/ HoldTimerExpires
            \/ ReadLoopStops \/ ReadLoopFails \/ AnnounceExpiry
KeepaliveLoop == KeepaliveTick \/ KeepaliveLoopEnds
Failing(l) == FailCancel(l) \/ FailClose(l) \/ FailIdle(l) \/ FailRecord(l)
Write(g) == LockWriteMu(g) \/ WriteOk(g) \/ WriteError(g)
Environment == ParentCancelled \/ PeerCloses \/ PeerStalls

Next == \/ VU \/ Watcher \/ ReadLoop \/ KeepaliveLoop
        \/ \E l \in Loops : Failing(l)
        \/ \E g \in Goroutine : Write(g)
        \/ Environment
        \/ Finished

Spec == Init /\ [][Next]_vars

(* Goroutines run; deadlines and the hold timer are reached; a write that  *)
(* can end does.  The script need not call anything and the environment    *)
(* need not act.  A tick of the keepalive ticker is not needed either.     *)
Fairness ==
    /\ WF_vars(OpenStarts \/ Dial \/ SendOpen \/ OpenFails \/ OpenSucceeds)
    /\ WF_vars(HandshakeReadFails)
    /\ WF_vars(OpenAccepted)
    /\ WF_vars(OperationRefused)
    /\ WF_vars(CloseSwaps \/ CloseSetsDeadline \/ CloseCancels)
    /\ WF_vars(CloseClosesConn \/ CloseJoins)
    /\ WF_vars(WatcherSeesContext \/ WatcherSeesHandshakeDone)
    /\ WF_vars(ReadLoopTop \/ ReadLoopReadFails \/ HoldTimerExpires)
    /\ WF_vars(ReadLoopStops \/ ReadLoopFails \/ AnnounceExpiry)
    /\ WF_vars(KeepaliveLoopEnds)
    /\ \A l \in Loops : WF_vars(Failing(l))
    /\ \A g \in Goroutine : WF_vars(LockWriteMu(g)) /\ WF_vars(WriteOk(g) \/ WriteError(g))

FairSpec == Spec /\ Fairness

----------------------------------------------------------------------------
\* Safety.

Opening == {"start", "dial", "sendOpen", "hsRead", "hsNotify", "hsKeepalive",
            "hsDone", "hsFail"}
Using == {"ready", "opWrite", "opRefused"}

(* The state a script observes moves along RFC 4271's path and a session   *)
(* that has left Idle and fallen back never leaves it again, although fail *)
(* stores Idle from either loop while Open and Close move the state in the *)
(* VU's goroutine.                                                         *)
StateTransitions ==
    [][/\ <<state, state'>> \in {<<"Idle", "Active">>, <<"Active", "OpenSent">>,
                                 <<"OpenSent", "OpenConfirm">>,
                                 <<"OpenConfirm", "Established">>}
          \cup (State \X {"Idle"})
       /\ state' = "Active" => pc["vu"] = "start"]_state

(* Established is entered only on exactly an acceptable OPEN and then a    *)
(* KEEPALIVE from the peer, after our own OPEN and KEEPALIVE were written. *)
EstablishedByHandshake ==
    state = "Established" =>
        /\ heard = <<"OPEN", "KEEPALIVE">>
        /\ SubSeq(wire, 1, 2) = <<"OPEN", "KEEPALIVE">>

(* What the peer sees: our OPEN first; an UPDATE, a Cease or a hold timer  *)
(* NOTIFICATION only on a session that was confirmed; nothing follows the  *)
(* NOTIFICATION that refuses its OPEN.                                     *)
WireOrder ==
    \A i \in 1 .. Len(wire) :
        /\ wire[i] = "OPEN" <=> i = 1
        /\ wire[i] \in {"UPDATE", "CEASE", "HOLD_EXPIRED"} => i > 2 /\ wire[2] = "KEEPALIVE"
        /\ wire[i] = "OPEN_ERROR" => i = 2 /\ Len(wire) = 2

(* No socket is left behind: once Open has failed or Close has returned    *)
(* the connection is closed, also when Close returned early because a loop *)
(* is failing at that moment; and a script that finds the session Idle     *)
(* finds its loops cancelled.                                              *)
ConnReleased ==
    /\ pc["vu"] \in {"openFailed", "closed"} => conn # "open"
    /\ pc["vu"] \in Using /\ state = "Idle" => conn = "closed" /\ loopCancelled

(* A session whose loops have ended without Close and without the end of   *)
(* the script's context has told why: the error that future and current    *)
(* waits, and refused operations, report.  A script that finds it Idle may *)
(* miss the cause only while a loop is between the two stores of fail      *)
(* (fsm.go:473-477).  And a cause that was reported stays the cause, when  *)
(* the other loop fails after it (recv.go:24, 293).                        *)
EndIsExplained ==
    /\ /\ pc["vu"] \in Using
       /\ \E l \in Loops : pc[l] = "done"
       /\ ~parentDone
       => failedErr # None \/ \E l \in Loops : pc[l] \in FailSteps
    /\ pc["vu"] \in Using /\ state = "Idle"
         => failedErr # None \/ \E l \in Loops : pc[l] = "failRecord"
    /\ told \in Cause => told = failedErr

(* Closing our own end is never recorded as a read failure: fail and Close *)
(* cancel loopCtx before they close the connection, so the readLoop knows. *)
NoSelfInflictedReadError ==
    failedErr = "read" => peerClosed \/ parentDone

----------------------------------------------------------------------------
\* Liveness, under FairSpec.

(* Open returns, whatever the peer does or omits.                          *)
OpenReturns == pc["vu"] = "start" ~> pc["vu"] \notin Opening

(* Close returns, though the peer may have stopped reading with writeMu    *)
(* held by a blocked writer, and though both loops may be failing.         *)
CloseReturns == pc["vu"] = "closeSwap" ~> pc["vu"] = "closed"

(* A failure runs to its end: both loops gone, connection closed, Idle.    *)
FailureCompletes ==
    (\E l \in Loops : pc[l] = "failCancel")
        ~> /\ \A l \in Loops : pc[l] = "done"
           /\ conn = "closed" /\ state = "Idle" /\ failedErr # None

(* With a hold time negotiated, a peer that has stopped both reading and   *)
(* sending does not block an operation for ever, unless the context has    *)
(* ended and taken the hold timer with it.                                 *)
HoldTimerFreesWriter ==
    (pc["vu"] = "opWrite" /\ hold /\ nreads = MaxReads)
        ~> (pc["vu"] # "opWrite" \/ parentDone)
=============================================================================
