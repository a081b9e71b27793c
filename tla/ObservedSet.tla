---------------------------- MODULE ObservedSet ----------------------------
(***************************************************************************)
(* The receive side of one BGP session, internal/peer/recv.go.             *)
(*                                                                         *)
(* The readLoop goroutine feeds every UPDATE and ROUTE-REFRESH it reads    *)
(* into an observedSet; goroutines that call WaitForPrefixes or            *)
(* WaitForRouteRefreshEnd register a waiter there and block in a select    *)
(* on the waiter's done channel and a timer.  Every critical section of    *)
(* observedSet.mu is one action; what a goroutine does between two         *)
(* critical sections (a channel wait, a value held in a local variable)    *)
(* is a program counter value of its own.                                  *)
(*                                                                         *)
(* A prefix key stands for NLRI.String(), or PathNLRI.String() where       *)
(* ADD-PATH receive was negotiated: for one session and family the choice  *)
(* is fixed, so equal routes always get equal keys.  Timestamps are        *)
(* numbers, 0 being the zero timing.Timestamp.                             *)
(***************************************************************************)
EXTENDS Integers, Sequences, FiniteSets, FiniteSetsExt

CONSTANTS
    Prefix,         \* NLRI keys
    Family,         \* address families of ROUTE-REFRESH messages
    Waiter,         \* goroutines that call WaitForPrefixes
    RefreshWaiter,  \* goroutines that call WaitForRouteRefreshEnd
    MaxTime,        \* bound: last reading of the clock
    MaxMessages,    \* bound: messages read from the peer
    MaxRoutes,      \* bound: routes advertised and withdrawn in one UPDATE
    OneWait         \* whether waits come one after the other, as those of a
                    \* script do; Go code may call them at the same time

ASSUME BoundsAssumption == MaxTime \in Nat \ {0} /\ MaxMessages \in Nat /\ MaxRoutes \in Nat
ASSUME FiniteAssumption == IsFiniteSet(Prefix)
ASSUME OneWaitAssumption == OneWait \in BOOLEAN
ASSUME FamilyAssumption == RefreshWaiter # {} => Family # {}

VARIABLES
    now,            \* the monotonic clock
    session,        \* "up" while fsm.State() is Established, "closing"
                    \* inside Close, "down" afterwards or after a failure
    enhanced,       \* fsm.enhancedRefreshNegotiated
    loop,           \* state of the readLoop and keepaliveLoop goroutines
    inHand,         \* calls the readLoop has yet to make for the last message
    nread,          \* messages read so far
    failedErr,      \* observedSet.failedErr: the goroutine whose error it is
    firstSeen,      \* observedSet.firstSeen, 0 for a key not in the map
    withdrawn,      \* observedSet.withdrawn
    counts,         \* observedSet.updateSeq, advertiseN, ..., eorrN
    firstUpdate, lastUpdateAt,
    lastEoRR,       \* observedSet.lastEoRR, 0 for a family not in the map
    waiters,        \* observedSet.waiters
    waiter,         \* the WaitForPrefixes call of each goroutine
    refreshWaiters, \* observedSet.refreshWaiters
    refreshWaiter   \* the WaitForRouteRefreshEnd call of each goroutine

sessionVars == <<session, enhanced, loop>>
readVars    == <<inHand, nread>>
routeVars   == <<firstSeen, withdrawn, firstUpdate, lastUpdateAt>>
waitVars    == <<waiters, waiter>>
refreshVars == <<refreshWaiters, refreshWaiter>>
setVars     == <<failedErr, routeVars, counts, lastEoRR>>
vars == <<now, sessionVars, readVars, setVars,
          waitVars, refreshVars>>

----------------------------------------------------------------------------
\* Types.

None  == "none"
Loops == {"readLoop", "keepaliveLoop"}
Stamp == 0 .. MaxTime

\* The demarcation octet of a ROUTE-REFRESH.
Demarcation == {"request", "BoRR", "EoRR"}

UpdateCall == [call : {"applyUpdate"}, ts : 1 .. MaxTime,
               reach : SUBSET Prefix, unreach : SUBSET Prefix]
RefreshCall == [call : {"applyRouteRefresh"}, ts : 1 .. MaxTime,
                family : Family, demarcation : Demarcation]

Counter == {"updates", "advertised", "withdrawn", "refreshes", "borr", "eorr"}

(* "select" is the blocking select on done and the timer, "collect" the    *)
(* second critical section, "return" the deferred deregistration.          *)
WaitPC == {"idle", "select", "collect", "return"}

WaiterType ==
    [pc : WaitPC, want : SUBSET Prefix, pending : SUBSET Prefix,
     onlyAfter : Stamp, first : Stamp, last : Stamp, done : BOOLEAN,
     timer : BOOLEAN, err : {None, "ok", "down", "timeout"},
     missing : SUBSET Prefix, firstRes : Stamp, lastRes : Stamp]

RefreshWaiterType ==
    [pc : WaitPC \cup {"checked"}, family : Family, after : Stamp, ts : Stamp,
     done : BOOLEAN, err : {None, "ok", "down", "timeout"}, tsRes : Stamp]

NoCall == [pc |-> "idle", want |-> {}, pending |-> {}, onlyAfter |-> 0,
           first |-> 0, last |-> 0, done |-> FALSE, timer |-> FALSE,
           err |-> None, missing |-> {}, firstRes |-> 0, lastRes |-> 0]

NoRefreshCall == [pc |-> "idle", family |-> CHOOSE f \in Family : TRUE,
                  after |-> 0, ts |-> 0, done |-> FALSE, err |-> None, tsRes |-> 0]

(* Every variable has the type of the field or local it stands for.        *)
TypeOK ==
    /\ now \in 1 .. MaxTime
    /\ session \in {"up", "closing", "down"}
    /\ enhanced \in BOOLEAN
    /\ loop \in [Loops -> {"run", "failing", "done"}]
    /\ inHand \in Seq(UpdateCall \cup RefreshCall)
    /\ nread \in 0 .. MaxMessages
    /\ failedErr \in Loops \cup {None}
    /\ firstSeen \in [Prefix -> Stamp]
    /\ withdrawn \subseteq Prefix
    /\ counts \in [Counter -> Nat]
    /\ firstUpdate \in Stamp /\ lastUpdateAt \in Stamp
    /\ lastEoRR \in [Family -> Stamp]
    /\ waiters \subseteq Waiter
    /\ waiter \in [Waiter -> WaiterType]
    /\ refreshWaiters \subseteq RefreshWaiter
    /\ refreshWaiter \in [RefreshWaiter -> RefreshWaiterType]

----------------------------------------------------------------------------
\* What the timestamps of a set of observations reduce to.

Earliest(S) == IF S \ {0} = {} THEN 0 ELSE Min(S \ {0})
Latest(S)   == IF S = {} THEN 0 ELSE Max(S)

(* A key counts for a waiter when it was seen, is not withdrawn, and was   *)
(* first seen at or after the cutoff (0: no cutoff).                       *)
Counts(seen, gone, p, after) ==
    /\ seen[p] # 0
    /\ p \notin gone
    /\ seen[p] >= after

Matches(p, after) == Counts(firstSeen, withdrawn, p, after)

----------------------------------------------------------------------------
\* newObservedSet, at the moment Open starts the loops.

Init ==
    /\ now = 1
    /\ session = "up"
    /\ enhanced \in BOOLEAN
    /\ loop = [l \in Loops |-> "run"]
    /\ inHand = <<>>
    /\ nread = 0
    /\ failedErr = None
    /\ firstSeen = [p \in Prefix |-> 0]
    /\ withdrawn = {}
    /\ counts = [c \in Counter |-> 0]
    /\ firstUpdate = 0 /\ lastUpdateAt = 0
    /\ lastEoRR = [f \in Family |-> 0]
    /\ waiters = {}
    /\ waiter = [w \in Waiter |-> NoCall]
    /\ refreshWaiters = {}
    /\ refreshWaiter = [r \in RefreshWaiter |-> NoRefreshCall]

Tick ==
    /\ now < MaxTime
    /\ now' = now + 1
    /\ UNCHANGED <<sessionVars, readVars, setVars, waitVars, refreshVars>>

----------------------------------------------------------------------------
\* The readLoop goroutine.

(* The applyUpdate calls dispatchUpdate makes for one UPDATE: one for each *)
(* MP_REACH or MP_UNREACH attribute, in wire order, then one for the       *)
(* legacy NLRI and withdrawn-routes lists together.  All of them name at   *)
(* most MaxRoutes routes.                                                  *)
UpdateCalls(ts) ==
    LET Call(r, u) == [call |-> "applyUpdate", ts |-> ts,
                       reach |-> r, unreach |-> u]
        NonEmpty  == (SUBSET Prefix) \ {{}}
        MpReach   == {Call(r, {}) : r \in NonEmpty}
        MpUnreach == {Call({}, u) : u \in NonEmpty}
        Mp        == MpReach \cup MpUnreach
        BothMp    == (MpReach \X MpUnreach) \cup (MpUnreach \X MpReach)
        Legacy    == Mp \cup {Call(r, u) : r \in NonEmpty, u \in NonEmpty}
        Routes(m) == {x \in (DOMAIN m) \X {"reach", "unreach"} \X Prefix : x[3] \in m[x[1]][x[2]]}
    IN  {m \in {<<c>> : c \in Legacy} \cup BothMp \cup (Mp \X Legacy)
               \cup {<<mp[1], mp[2], c>> : mp \in BothMp, c \in Legacy} :
           Cardinality(Routes(m)) <= MaxRoutes}

RefreshCalls(ts) ==
    {<<[call |-> "applyRouteRefresh", ts |-> ts, family |-> f,
        demarcation |-> d]>> : f \in Family, d \in Demarcation}

(* ReadMessageMax returns a message; its timestamp is taken here, before   *)
(* any lock, so it may be old when the message is applied.  Close stores   *)
(* Idle some time before it closes the connection, fail after it.          *)
ReadMessage ==
    /\ loop["readLoop"] = "run"
    /\ session # "down"
    /\ inHand = <<>>
    /\ nread < MaxMessages
    /\ inHand' \in UpdateCalls(now) \cup RefreshCalls(now)
    /\ nread' = nread + 1
    /\ UNCHANGED <<now, sessionVars, setVars, waitVars, refreshVars>>

\* Mutant: a withdrawal does not re-arm the waiter.
NotifiedNoRearm(w, seen, c) ==
    LET hit  == {p \in w.want \cap c.reach : seen[p] >= w.onlyAfter}
        left == w.pending \ hit
    IN  [w EXCEPT !.pending = left,
                  !.first   = Earliest({@} \cup {seen[p] : p \in hit \cap w.pending}),
                  !.last    = IF hit = {} THEN @ ELSE Latest({@, c.ts}),
                  !.done    = @ \/ (hit # {} /\ left = {})]

\* Mutant: the cutoff is compared with the time of the re-advertisement.
NotifiedByMessageTime(w, seen, c) ==
    LET hit  == {p \in w.want \cap c.reach : c.ts >= w.onlyAfter}
        left == w.pending \ hit
    IN  [w EXCEPT !.pending = left \cup (w.want \cap c.unreach),
                  !.first   = Earliest({@} \cup {c.ts : p \in hit \cap w.pending}),
                  !.last    = IF hit = {} THEN @ ELSE Latest({@, c.ts}),
                  !.done    = @ \/ (hit # {} /\ left = {})]

(* notifyReach for every reach key, then notifyWithdraw for every unreach  *)
(* key, on one registered waiter; seen is firstSeen with the reach keys.   *)
Notified(w, seen, c) ==
    LET hit  == {p \in w.want \cap c.reach : seen[p] >= w.onlyAfter}
        left == w.pending \ hit
    IN  [w EXCEPT !.pending = left \cup (w.want \cap c.unreach),
                  !.first   = Earliest({@} \cup {seen[p] : p \in hit \cap w.pending}),
                  !.last    = IF hit = {} THEN @ ELSE Latest({@, c.ts}),
                  !.done    = @ \/ (hit # {} /\ left = {})]

\* Mutant: a withdrawal takes the advertisement back from the counter.
CountUpdateAsGauge(c) ==
    [counts EXCEPT !["updates"] = @ + 1,
                   !["advertised"] = @ + Cardinality(c.reach) - Cardinality(c.unreach),
                   !["withdrawn"] = @ + Cardinality(c.unreach)]

\* Mutant: one count per applyUpdate instead of one per NLRI.
CountUpdateOnce(c) ==
    [counts EXCEPT !["updates"] = @ + 1, !["advertised"] = @ + 1,
                   !["withdrawn"] = @ + 1]

CountUpdate(c) ==
    [counts EXCEPT !["updates"] = @ + 1,
                   !["advertised"] = @ + Cardinality(c.reach),
                   !["withdrawn"] = @ + Cardinality(c.unreach)]

ApplyUpdate ==
    /\ inHand # <<>>
    /\ Head(inHand).call = "applyUpdate"
    /\ LET c    == Head(inHand)
           seen == [p \in Prefix |-> IF p \in c.reach /\ firstSeen[p] = 0
                                     THEN c.ts ELSE firstSeen[p]]
       IN  /\ firstSeen' = seen
           /\ withdrawn' = (withdrawn \ c.reach) \cup c.unreach
           /\ firstUpdate' = IF firstUpdate = 0 THEN c.ts ELSE firstUpdate
           /\ lastUpdateAt' = c.ts
           /\ counts' = CountUpdate(c)
           /\ waiter' = [w \in Waiter |-> IF w \in waiters
                                          THEN Notified(waiter[w], seen, c)
                                          ELSE waiter[w]]
    /\ inHand' = Tail(inHand)
    /\ UNCHANGED <<now, sessionVars, nread, failedErr, lastEoRR, waiters,
                   refreshVars>>

(* Without RFC 7313 negotiated every ROUTE-REFRESH counts as a request.    *)
CountRefresh(d) ==
    [counts EXCEPT
        ![IF enhanced /\ d = "BoRR" THEN "borr"
          ELSE IF enhanced /\ d = "EoRR" THEN "eorr" ELSE "refreshes"] = @ + 1]

\* Mutant: the cutoff itself is excluded.
ServesStrictly(c, x) == x.family = c.family /\ c.ts > x.after

(* An EoRR serves a registered waiter of its family whose cutoff it does   *)
(* not predate.                                                            *)
Serves(c, x) == x.family = c.family /\ c.ts >= x.after

ApplyRouteRefresh ==
    /\ inHand # <<>>
    /\ Head(inHand).call = "applyRouteRefresh"
    /\ LET c == Head(inHand)
           served == {r \in refreshWaiters : Serves(c, refreshWaiter[r])}
       IN  /\ counts' = CountRefresh(c.demarcation)
           /\ IF enhanced /\ c.demarcation = "EoRR"
              THEN /\ lastEoRR' = [lastEoRR EXCEPT ![c.family] = c.ts]
                   /\ refreshWaiter' =
                        [r \in RefreshWaiter |->
                            IF r \in served
                            THEN [refreshWaiter[r] EXCEPT !.ts = c.ts, !.done = TRUE]
                            ELSE refreshWaiter[r]]
              ELSE UNCHANGED <<lastEoRR, refreshWaiter>>
    /\ inHand' = Tail(inHand)
    /\ UNCHANGED <<now, sessionVars, nread, failedErr, routeVars, waitVars,
                   refreshWaiters>>

----------------------------------------------------------------------------
\* The end of the session: fsm.fail on either loop, or Close.

(* fsm.fail up to and including the store of Idle.  The readLoop gets here *)
(* when it has no message in hand; either loop may have passed its check   *)
(* of loopCtx before the other one, or Close, cancelled it.                *)
FailBegins(l) ==
    /\ loop[l] = "run"
    /\ l = "readLoop" => inHand = <<>>
    /\ loop' = [loop EXCEPT ![l] = "failing"]
    /\ session' = IF session = "up" THEN "down" ELSE session
    /\ UNCHANGED <<now, enhanced, readVars, setVars, waitVars, refreshVars>>

\* Mutant: fail forgets to close the done channel.
MarkDoneForgotten(x) == x

(* markDone closes a waiter's channel, at most once.                       *)
MarkDone(x) == [x EXCEPT !.done = TRUE]

(* observedSet.fail: the first error stays, every waiter is released.      *)
Fail(l) ==
    /\ loop[l] = "failing"
    /\ loop' = [loop EXCEPT ![l] = "done"]
    /\ failedErr' = IF failedErr = None THEN l ELSE failedErr
    /\ waiter' = [w \in Waiter |-> IF w \in waiters
                                   THEN MarkDone(waiter[w])
                                   ELSE waiter[w]]
    /\ refreshWaiter' = [r \in RefreshWaiter |->
                            IF r \in refreshWaiters
                            THEN MarkDone(refreshWaiter[r])
                            ELSE refreshWaiter[r]]
    /\ UNCHANGED <<now, session, enhanced, readVars, routeVars, counts,
                   lastEoRR, waiters, refreshWaiters>>

(* A loop that sees loopCtx cancelled returns without recording anything.  *)
LoopReturns(l) ==
    /\ loop[l] = "run"
    /\ session # "up"
    /\ l = "readLoop" => inHand = <<>>
    /\ loop' = [loop EXCEPT ![l] = "done"]
    /\ UNCHANGED <<now, session, enhanced, readVars, setVars, waitVars,
                   refreshVars>>

(* Close is called by the goroutine that makes the waits, between calls.   *)
Close ==
    /\ session = "up"
    /\ \A w \in Waiter : waiter[w].pc = "idle"
    /\ \A r \in RefreshWaiter : refreshWaiter[r].pc = "idle"
    /\ session' = "closing"
    /\ UNCHANGED <<now, enhanced, loop, readVars, setVars, waitVars,
                   refreshVars>>

(* Close joins both loops before it returns.                               *)
CloseReturns ==
    /\ session = "closing"
    /\ \A l \in Loops : loop[l] = "done"
    /\ session' = "down"
    /\ UNCHANGED <<now, enhanced, loop, readVars, setVars, waitVars,
                   refreshVars>>

----------------------------------------------------------------------------
\* A goroutine that calls WaitForPrefixes.

\* Mutant: a waiter that registers after the failure is not released.
NewWaiterIgnoringFailure(want, after) ==
    LET matched == {p \in want : Matches(p, after)}
        seen    == {firstSeen[p] : p \in matched}
    IN  [NoCall EXCEPT !.pc = "select", !.want = want, !.onlyAfter = after,
                       !.pending = want \ matched, !.done = matched = want,
                       !.first = Earliest(seen), !.last = Latest(seen)]

(* The waiter registerWaiter builds from what has been observed so far.    *)
NewWaiter(want, after) ==
    LET matched == {p \in want : Matches(p, after)}
        seen    == {firstSeen[p] : p \in matched}
    IN  [NoCall EXCEPT !.pc = "select", !.want = want, !.onlyAfter = after,
                       !.pending = want \ matched,
                       !.first = Earliest(seen), !.last = Latest(seen),
                       !.done = matched = want \/ failedErr # None]

MayWait ==
    OneWait => /\ \A w \in Waiter : waiter[w].pc = "idle"
               /\ \A r \in RefreshWaiter : refreshWaiter[r].pc = "idle"

(* registerWaiter: a call already satisfied, or on a failed session, is    *)
(* released on the spot and never listed.                                  *)
RegisterWaiter(w) ==
    /\ waiter[w].pc = "idle"
    /\ session # "closing" /\ MayWait
    /\ \E want \in (SUBSET Prefix) \ {{}}, after \in 0 .. now :
         LET x == NewWaiter(want, after)
         IN  /\ waiter' = [waiter EXCEPT ![w] = x]
             /\ waiters' = IF x.done THEN waiters ELSE waiters \cup {w}
    /\ UNCHANGED <<now, sessionVars, readVars, setVars, refreshVars>>

(* The select: either channel may win when both are ready.                 *)
Select(w) ==
    /\ waiter[w].pc = "select"
    /\ waiter[w].done
    /\ waiter' = [waiter EXCEPT ![w].pc = "collect"]
    /\ UNCHANGED <<now, sessionVars, readVars, setVars, waiters, refreshVars>>

TimerFires(w) ==
    /\ waiter[w].pc = "select"
    /\ waiter' = [waiter EXCEPT ![w].pc = "collect", ![w].timer = TRUE]
    /\ UNCHANGED <<now, sessionVars, readVars, setVars, waiters, refreshVars>>

(* The second critical section takes the result and classifies it.         *)
Collect(w) ==
    /\ waiter[w].pc = "collect"
    /\ waiter' = [waiter EXCEPT ![w] =
            [@ EXCEPT !.pc = "return", !.missing = waiter[w].pending,
                      !.firstRes = waiter[w].first, !.lastRes = waiter[w].last,
                      !.err = IF waiter[w].pending = {} THEN "ok"
                              ELSE IF failedErr # None THEN "down" ELSE "timeout"]]
    /\ UNCHANGED <<now, sessionVars, readVars, setVars, waiters, refreshVars>>

(* The deferred deregisterWaiter; the call returns.                        *)
DeregisterWaiter(w) ==
    /\ waiter[w].pc = "return"
    /\ waiters' = waiters \ {w}
    /\ waiter' = [waiter EXCEPT ![w] = NoCall]
    /\ UNCHANGED <<now, sessionVars, readVars, setVars, refreshVars>>

----------------------------------------------------------------------------
\* A goroutine that calls WaitForRouteRefreshEnd.

(* The call is refused unless the session is Established and RFC 7313 was  *)
(* negotiated.  The state is read without the lock: the session may fail   *)
(* before the waiter is registered.                                        *)
CheckRefresh(r) ==
    /\ refreshWaiter[r].pc = "idle"
    /\ session = "up" /\ MayWait
    /\ enhanced
    /\ \E f \in Family, after \in 0 .. now :
         refreshWaiter' = [refreshWaiter EXCEPT ![r] =
             [NoRefreshCall EXCEPT !.pc = "checked", !.family = f, !.after = after]]
    /\ UNCHANGED <<now, sessionVars, readVars, setVars, waitVars,
                   refreshWaiters>>

\* Mutant: any EoRR of the family satisfies the call.
HadEoRREver(fam, after) == lastEoRR[fam] # 0

(* The last EoRR of the family satisfies a call with this cutoff.          *)
HadEoRR(fam, after) == lastEoRR[fam] # 0 /\ lastEoRR[fam] >= after

\* Mutant: a failure recorded between check and registration is missed.
NewRefreshWaiterIgnoringFailure(x) ==
    LET had == HadEoRR(x.family, x.after)
    IN  [x EXCEPT !.pc = "select", !.done = had,
                  !.ts = IF had THEN lastEoRR[x.family] ELSE 0]

NewRefreshWaiter(x) ==
    LET had == HadEoRR(x.family, x.after)
    IN  [x EXCEPT !.pc = "select", !.done = had \/ failedErr # None,
                  !.ts = IF had THEN lastEoRR[x.family] ELSE 0]

(* registerRefreshWaiter: an EoRR already read may satisfy the call.       *)
RegisterRefreshWaiter(r) ==
    /\ refreshWaiter[r].pc = "checked"
    /\ LET x == NewRefreshWaiter(refreshWaiter[r])
       IN  /\ refreshWaiter' = [refreshWaiter EXCEPT ![r] = x]
           /\ refreshWaiters' = IF x.done THEN refreshWaiters
                                ELSE refreshWaiters \cup {r}
    /\ UNCHANGED <<now, sessionVars, readVars, setVars, waitVars>>

SelectRefresh(r) ==
    /\ refreshWaiter[r].pc = "select"
    /\ refreshWaiter[r].done
    /\ refreshWaiter' = [refreshWaiter EXCEPT ![r].pc = "collect"]
    /\ UNCHANGED <<now, sessionVars, readVars, setVars, waitVars,
                   refreshWaiters>>

RefreshTimerFires(r) ==
    /\ refreshWaiter[r].pc = "select"
    /\ refreshWaiter' = [refreshWaiter EXCEPT ![r].pc = "collect"]
    /\ UNCHANGED <<now, sessionVars, readVars, setVars, waitVars,
                   refreshWaiters>>

CollectRefresh(r) ==
    /\ refreshWaiter[r].pc = "collect"
    /\ refreshWaiter' = [refreshWaiter EXCEPT ![r] =
            [@ EXCEPT !.pc = "return", !.tsRes = refreshWaiter[r].ts,
                      !.err = IF refreshWaiter[r].ts # 0 THEN "ok"
                              ELSE IF failedErr # None THEN "down" ELSE "timeout"]]
    /\ UNCHANGED <<now, sessionVars, readVars, setVars, waitVars,
                   refreshWaiters>>

\* Mutant: only a call released through done deregisters.
DeregisterRefreshIfDone(r) ==
    /\ refreshWaiter[r].pc = "return"
    /\ refreshWaiters' = IF refreshWaiter[r].done THEN refreshWaiters \ {r}
                         ELSE refreshWaiters
    /\ refreshWaiter' = [refreshWaiter EXCEPT ![r] = NoRefreshCall]
    /\ UNCHANGED <<now, sessionVars, readVars, setVars, waitVars>>

DeregisterRefreshWaiter(r) ==
    /\ refreshWaiter[r].pc = "return"
    /\ refreshWaiters' = refreshWaiters \ {r}
    /\ refreshWaiter' = [refreshWaiter EXCEPT ![r] = NoRefreshCall]
    /\ UNCHANGED <<now, sessionVars, readVars, setVars, waitVars>>

----------------------------------------------------------------------------
Next ==
    \/ Tick \/ ReadMessage \/ ApplyUpdate \/ ApplyRouteRefresh
    \/ Close \/ CloseReturns
    \/ \E l \in Loops : FailBegins(l) \/ Fail(l) \/ LoopReturns(l)
    \/ \E w \in Waiter : \/ RegisterWaiter(w) \/ Select(w) \/ TimerFires(w)
                         \/ Collect(w) \/ DeregisterWaiter(w)
    \/ \E r \in RefreshWaiter :
         \/ CheckRefresh(r) \/ RegisterRefreshWaiter(r) \/ SelectRefresh(r)
         \/ RefreshTimerFires(r) \/ CollectRefresh(r) \/ DeregisterRefreshWaiter(r)

(* A goroutine that can run does run.  The timers get no fairness: what is *)
(* promised without waiting for them must not depend on them.              *)
Fairness ==
    /\ WF_vars(ApplyUpdate) /\ WF_vars(ApplyRouteRefresh)
    /\ \A l \in Loops : WF_vars(Fail(l))
    /\ \A w \in Waiter : /\ WF_vars(Select(w)) /\ WF_vars(Collect(w))
                         /\ WF_vars(DeregisterWaiter(w))
    /\ \A r \in RefreshWaiter :
         /\ WF_vars(RegisterRefreshWaiter(r)) /\ WF_vars(SelectRefresh(r))
         /\ WF_vars(CollectRefresh(r)) /\ WF_vars(DeregisterRefreshWaiter(r))

Spec == Init /\ [][Next]_vars
FairSpec == Spec /\ Fairness
----------------------------------------------------------------------------
\* Safety.

(* A listed waiter's pending set is exactly the wanted keys that do not    *)
(* count for it, whatever the order in which advertisements, withdrawals   *)
(* and its own registration took the lock: the incremental notifyReach and *)
(* notifyWithdraw agree with a scan of the whole table.                    *)
PendingMirrorsTable ==
    \A w \in waiters :
        waiter[w].pending = {p \in waiter[w].want : ~Matches(p, waiter[w].onlyAfter)}

(* No wake-up of WaitForPrefixes is lost: a call whose prefixes are all    *)
(* there, or whose session has failed (recorded before or after it         *)
(* registered), never blocks on its done channel until the timer.          *)
NoLostWakeup ==
    \A w \in Waiter :
        waiter[w].pc = "select" /\ (waiter[w].pending = {} \/ failedErr # None)
            => waiter[w].done

(* done is closed only for a reason: the session failed, or every wanted   *)
(* prefix has been seen at or after the cutoff.  A call that ends without  *)
(* its timer therefore misses only prefixes that were taken back.          *)
NoSpuriousWakeup ==
    \A w \in Waiter :
        waiter[w].pc # "idle" /\ waiter[w].done /\ failedErr = None =>
            \A p \in waiter[w].want : /\ firstSeen[p] # 0
                                      /\ firstSeen[p] >= waiter[w].onlyAfter

(* The interval a successful WaitForPrefixes reports: FirstSeen is the     *)
(* first sighting of the earliest wanted prefix, never before the cutoff;  *)
(* LastSeen is not before the first sighting of the latest one and not     *)
(* after the last UPDATE.  It holds through withdrawals, re-arming and     *)
(* registration in the middle of an UPDATE.                                *)
MeasuredInterval ==
    \A w \in Waiter : waiter[w].err = "ok" =>
        LET x == waiter[w]
        IN  /\ x.firstRes = Earliest({firstSeen[p] : p \in x.want})
            /\ x.firstRes >= x.onlyAfter
            /\ x.lastRes >= Latest({firstSeen[p] : p \in x.want})
            /\ x.lastRes <= lastUpdateAt

(* Neither list of waiters keeps an entry of a call that has returned: the *)
(* deferred deregistration covers every way out of the select, those that  *)
(* were never listed included.                                             *)
NoLeakedWaiter ==
    /\ \A w \in waiters : waiter[w].pc # "idle"
    /\ \A r \in refreshWaiters : refreshWaiter[r].pc # "idle"

(* The counters Stats returns agree with the tables: first sightings lie   *)
(* between the first and the last UPDATE, every seen key was counted as    *)
(* advertised and every withdrawn key as withdrawn, and demarcations exist *)
(* only where RFC 7313 was negotiated.                                     *)
StatsAgree ==
    /\ \A p \in Prefix : firstSeen[p] # 0 =>
           firstUpdate <= firstSeen[p] /\ firstSeen[p] <= lastUpdateAt
    /\ Cardinality({p \in Prefix : firstSeen[p] # 0}) <= counts["advertised"]
    /\ Cardinality(withdrawn) <= counts["withdrawn"]
    /\ (counts["updates"] = 0) = (firstUpdate = 0)
    /\ (counts["eorr"] = 0) = (\A f \in Family : lastEoRR[f] = 0)
    /\ ~enhanced => counts["borr"] + counts["eorr"] = 0

(* WaitForRouteRefreshEnd returns only the time of an EoRR of its own      *)
(* family, read at or after its cutoff: an EoRR left over from an earlier  *)
(* refresh cycle, or of another family, never ends the call.               *)
RefreshCutoff ==
    \A r \in RefreshWaiter : refreshWaiter[r].err = "ok" =>
        LET x == refreshWaiter[r]
        IN  /\ x.tsRes # 0 /\ x.tsRes >= x.after
            /\ x.tsRes <= lastEoRR[x.family]

(* No wake-up of WaitForRouteRefreshEnd is lost, though the session state  *)
(* is checked before the lock is taken and the EoRR or the failure may     *)
(* come in between.                                                        *)
NoLostRefreshWakeup ==
    \A r \in RefreshWaiter :
        LET x == refreshWaiter[r]
        IN  x.pc = "select" /\ (failedErr # None \/ (/\ lastEoRR[x.family] # 0
                                                     /\ lastEoRR[x.family] >= x.after))
                => x.done

----------------------------------------------------------------------------
\* What comments and documents say and the code does not do.

(* The comment of WaitForPrefixes: it blocks until every prefix has been   *)
(* observed in a non-withdrawn state, or timeout elapses.  So a call that  *)
(* reports a timeout was ended by its timer.                               *)
TimesOutOnlyByTimer ==
    \A w \in Waiter : waiter[w].err = "timeout" => waiter[w].timer

(* docs/route_refresh.md on the cutoff of waitForPrefixes: a prefix seen   *)
(* before it re-matches after the target re-advertises it following a      *)
(* withdraw.                                                               *)
RematchesAfterWithdraw ==
    [][\A w \in waiters, p \in Prefix :
         (/\ p \in withdrawn /\ p \notin withdrawn'
          /\ p \in waiter[w].want
          /\ lastUpdateAt' >= waiter[w].onlyAfter)
             => p \notin waiter'[w].pending]_vars

----------------------------------------------------------------------------
\* Liveness, under FairSpec: no timer has to fire.

(* The failure of either loop ends every wait, of both kinds, that is in   *)
(* progress or begins later.                                               *)
FailureReleases ==
    LET Failing == failedErr # None \/ \E l \in Loops : loop[l] = "failing"
    IN  /\ \A w \in Waiter : Failing ~> waiter[w].pc = "idle"
        /\ \A r \in RefreshWaiter : Failing ~> refreshWaiter[r].pc = "idle"

(* An EoRR that is read at or after the cutoff ends the wait for it.       *)
EoRRReleases ==
    \A r \in RefreshWaiter :
        (/\ refreshWaiter[r].pc # "idle"
         /\ lastEoRR[refreshWaiter[r].family] # 0
         /\ lastEoRR[refreshWaiter[r].family] >= refreshWaiter[r].after)
            ~> refreshWaiter[r].pc = "idle"
=============================================================================
