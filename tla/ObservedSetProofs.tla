------------------------- MODULE ObservedSetProofs -------------------------
(***************************************************************************)
(* Proofs about ObservedSet, for every set of prefixes, families and       *)
(* callers and every bound on the clock and on the messages.               *)
(***************************************************************************)
EXTENDS ObservedSet, NaturalSets, FiniteSetTheorems

----------------------------------------------------------------------------
\* The inductive invariant.

(* Time in the tables never runs ahead of the message in hand, and the     *)
(* message never ahead of the clock.                                       *)
ClockInv ==
    /\ \A p \in Prefix : /\ firstSeen[p] <= lastUpdateAt
                         /\ firstSeen[p] # 0 => firstUpdate # 0 /\ firstUpdate <= firstSeen[p]
    /\ firstUpdate = 0 <=> lastUpdateAt = 0
    /\ firstUpdate <= lastUpdateAt /\ lastUpdateAt <= now
    /\ \A f \in Family : lastEoRR[f] <= now
    /\ \A i \in 1 .. Len(inHand) :
         /\ inHand[i].ts <= now
         /\ lastUpdateAt <= inHand[i].ts
         /\ \A f \in Family : lastEoRR[f] <= inHand[i].ts
         /\ \A j \in 1 .. Len(inHand) : inHand[i].ts = inHand[j].ts

(* A caller blocked without done is listed, and neither its prefixes nor a *)
(* failure had come when it or they took the lock.                         *)
WaitInv ==
    /\ PendingMirrorsTable
    /\ NoSpuriousWakeup
    /\ \A w \in waiters : waiter[w].pc # "idle"
    /\ \A w \in Waiter : waiter[w].pc = "select" /\ ~waiter[w].done =>
         w \in waiters /\ failedErr = None /\ waiter[w].pending # {}

(* The interval measured so far spans the prefixes no longer pending, and  *)
(* starts at the first sighting of a wanted one.                           *)
Spans(seen, upto, x, from, to, S) ==
    /\ from # 0 => \E p \in x.want : seen[p] = from /\ from >= x.onlyAfter
    /\ \A p \in S : /\ seen[p] # 0 /\ from # 0
                    /\ from <= seen[p] /\ seen[p] <= to
    /\ to <= upto

IntervalInv ==
    \A w \in Waiter :
        LET x == waiter[w]
        IN  /\ x.pc # "idle" => x.want # {}
            /\ x.pc \in {"select", "collect"} =>
                 /\ x.err = None
                 /\ Spans(firstSeen, lastUpdateAt, x, x.first, x.last, x.want \ x.pending)
            /\ x.err = "ok" =>
                 /\ x.pc = "return"
                 /\ Spans(firstSeen, lastUpdateAt, x, x.firstRes, x.lastRes, x.want)

(* The same for WaitForRouteRefreshEnd.                                    *)
RefreshInv ==
    /\ RefreshCutoff
    /\ \A r \in refreshWaiters : refreshWaiter[r].pc \notin {"idle", "checked"}
    /\ \A r \in RefreshWaiter :
        LET x == refreshWaiter[r]
        IN  /\ x.pc = "select" /\ ~x.done =>
                 r \in refreshWaiters /\ failedErr = None /\ ~HadEoRR(x.family, x.after)
            /\ x.ts # 0 => x.ts >= x.after /\ x.ts <= lastEoRR[x.family]

(* No key is in a table without having been counted.                       *)
Seen == {p \in Prefix : firstSeen[p] # 0}

StatsInv ==
    /\ Cardinality(Seen) <= counts["advertised"]
    /\ Cardinality(withdrawn) <= counts["withdrawn"]
    /\ counts["updates"] = 0 <=> firstUpdate = 0
    /\ counts["eorr"] = 0 <=> \A f \in Family : lastEoRR[f] = 0
    /\ ~enhanced => counts["borr"] = 0 /\ counts["eorr"] = 0

ObservedInv == ClockInv /\ WaitInv /\ IntervalInv /\ RefreshInv /\ StatsInv

----------------------------------------------------------------------------
\* What Earliest and Latest return.

(* Earliest is 0 or a member, and at most every nonzero member.            *)
LEMMA EarliestResult ==
    ASSUME NEW S \in SUBSET Stamp
    PROVE  /\ Earliest(S) \in Stamp
           /\ Earliest(S) # 0 => Earliest(S) \in S
           /\ \A x \in S : x # 0 => Earliest(S) # 0 /\ Earliest(S) <= x
  <1>1. CASE S \ {0} = {}
    BY <1>1, BoundsAssumption DEF Earliest, Stamp
  <1>2. CASE S \ {0} # {}
    <2>1. S \ {0} \in SUBSET Nat
      BY BoundsAssumption DEF Stamp
    <2>2. Min(S \ {0}) \in S \ {0} /\ \A x \in S \ {0} : Min(S \ {0}) <= x
      BY <1>2, <2>1, MinOfNaturals
    <2> QED
      BY <1>2, <2>2 DEF Earliest
  <1> QED
    BY <1>1, <1>2

(* Latest is at least every member, and a member unless there is none.     *)
LEMMA LatestResult ==
    ASSUME NEW S \in SUBSET Stamp
    PROVE  /\ Latest(S) \in Stamp
           /\ S # {} => Latest(S) \in S
           /\ \A x \in S : x <= Latest(S)
  <1>1. CASE S = {}
    BY <1>1, BoundsAssumption DEF Latest, Stamp
  <1>2. CASE S # {}
    <2>1. Max(S) \in S /\ \A x \in S : Max(S) >= x
      BY <1>2, MaxOfNaturals, BoundsAssumption DEF Stamp
    <2> QED
      BY <1>2, <2>1, BoundsAssumption DEF Latest, Stamp
  <1> QED
    BY <1>1, <1>2

----------------------------------------------------------------------------
\* Helpers.

Calls == UpdateCall \cup RefreshCall

(* A message becomes a few calls that all carry the time it was read.      *)
LEMMA MessageCalls ==
    ASSUME NEW ts \in 1 .. MaxTime, NEW m \in UpdateCalls(ts) \cup RefreshCalls(ts)
    PROVE  m \in Seq(Calls) /\ \A i \in 1 .. Len(m) : m[i].ts = ts
  <1>1. CASE m \in RefreshCalls(ts)
    <2>1. PICK c \in RefreshCall : c.ts = ts /\ m = <<c>>
      BY <1>1 DEF RefreshCalls, RefreshCall
    <2> QED
      BY <2>1 DEF Calls
  <1>2. CASE m \in UpdateCalls(ts)
    <2>1. \/ \E c \in UpdateCall : c.ts = ts /\ m = <<c>>
          \/ \E c, d \in UpdateCall : c.ts = ts /\ d.ts = ts /\ m = <<c, d>>
          \/ \E c, d, e \in UpdateCall : c.ts = ts /\ d.ts = ts /\ e.ts = ts /\ m = <<c, d, e>>
      BY <1>2 DEF UpdateCalls, UpdateCall
    <2>2. CASE \E c \in UpdateCall : c.ts = ts /\ m = <<c>>
      BY <2>2 DEF Calls
    <2>3. CASE \E c, d \in UpdateCall : c.ts = ts /\ d.ts = ts /\ m = <<c, d>>
      BY <2>3 DEF Calls
    <2>4. CASE \E c, d, e \in UpdateCall : c.ts = ts /\ d.ts = ts /\ e.ts = ts /\ m = <<c, d, e>>
      BY <2>4 DEF Calls
    <2> QED
      BY <2>1, <2>2, <2>3, <2>4
  <1> QED
    BY <1>1, <1>2

(* The wanted prefixes of a call that notifyReach finds after the cutoff.  *)
Hits(w, seen, c) == {p \in w.want \cap c.reach : seen[p] >= w.onlyAfter}

(* What the notifications of one call leave of a waiter.                   *)
LEMMA NotifiedResult ==
    ASSUME NEW w \in WaiterType, NEW seen \in [Prefix -> Stamp], NEW c \in UpdateCall
    PROVE  /\ Notified(w, seen, c) \in WaiterType
           /\ Notified(w, seen, c).pc = w.pc
           /\ Notified(w, seen, c).want = w.want
           /\ Notified(w, seen, c).onlyAfter = w.onlyAfter
           /\ Notified(w, seen, c).err = w.err
           /\ Notified(w, seen, c).firstRes = w.firstRes
           /\ Notified(w, seen, c).lastRes = w.lastRes
           /\ Notified(w, seen, c).pending =
                (w.pending \ Hits(w, seen, c)) \cup (w.want \cap c.unreach)
           /\ Notified(w, seen, c).first =
                Earliest({w.first} \cup {seen[p] : p \in Hits(w, seen, c) \cap w.pending})
           /\ Notified(w, seen, c).last =
                IF Hits(w, seen, c) = {} THEN w.last ELSE Latest({w.last, c.ts})
           /\ Notified(w, seen, c).done =
                (w.done \/ (Hits(w, seen, c) # {} /\ w.pending \ Hits(w, seen, c) = {}))
  <1> DEFINE n     == Notified(w, seen, c)
             hit   == Hits(w, seen, c)
             left  == w.pending \ hit
             first == Earliest({w.first} \cup {seen[p] : p \in hit \cap w.pending})
             last  == IF hit = {} THEN w.last ELSE Latest({w.last, c.ts})
             done  == (w.done \/ (hit # {} /\ left = {}))
  <1>1. first \in Stamp
    <2>1. {w.first} \cup {seen[p] : p \in hit \cap w.pending} \in SUBSET Stamp
      BY DEF WaiterType
    <2> QED
      BY <2>1, EarliestResult
  <1>2. last \in Stamp
    <2>1. {w.last, c.ts} \in SUBSET Stamp
      BY DEF WaiterType, UpdateCall, Stamp
    <2> QED
      BY <2>1, LatestResult DEF WaiterType
  <1>3. left \cup (w.want \cap c.unreach) \in SUBSET Prefix /\ done \in BOOLEAN
    BY DEF WaiterType
  <1>4. n = [w EXCEPT !.pending = left \cup (w.want \cap c.unreach), !.first = first,
                      !.last = last, !.done = done]
    BY DEF Notified, Hits
  <1> HIDE DEF n, left, first, last, done
  <1>5. n \in WaiterType
    BY <1>1, <1>2, <1>3, <1>4 DEF WaiterType
  <1>6. /\ n.pc = w.pc /\ n.want = w.want /\ n.onlyAfter = w.onlyAfter
        /\ n.err = w.err
        /\ n.firstRes = w.firstRes /\ n.lastRes = w.lastRes
        /\ n.pending = left \cup (w.want \cap c.unreach)
        /\ n.first = first /\ n.last = last /\ n.done = done
    BY <1>4 DEF WaiterType
  <1> QED
    BY <1>5, <1>6 DEF n, left, first, last, done

(* What a notification does not touch.                                     *)
LEMMA NotifiedKeeps ==
    ASSUME NEW w \in WaiterType, NEW seen \in [Prefix -> Stamp], NEW c \in UpdateCall
    PROVE  /\ Notified(w, seen, c) \in WaiterType
           /\ Notified(w, seen, c).pc = w.pc
           /\ Notified(w, seen, c).want = w.want
           /\ Notified(w, seen, c).onlyAfter = w.onlyAfter
           /\ Notified(w, seen, c).err = w.err
           /\ Notified(w, seen, c).firstRes = w.firstRes
           /\ Notified(w, seen, c).lastRes = w.lastRes
  BY NotifiedResult, ZenonT(30)

(* What it does to the pending set and to done.                            *)
LEMMA NotifiedPending ==
    ASSUME NEW w \in WaiterType, NEW seen \in [Prefix -> Stamp], NEW c \in UpdateCall
    PROVE  /\ Notified(w, seen, c).pending =
                (w.pending \ Hits(w, seen, c)) \cup (w.want \cap c.unreach)
           /\ Notified(w, seen, c).done =
                (w.done \/ (Hits(w, seen, c) # {} /\ w.pending \ Hits(w, seen, c) = {}))
  BY NotifiedResult

(* The idle waiters.                                                       *)
LEMMA NoCallTyped == NoCall \in WaiterType
  BY BoundsAssumption DEF NoCall, WaiterType, WaitPC, None, Stamp

(* The waiter a call registers, or is released with at once.               *)
LEMMA NewWaiterTyped ==
    ASSUME TypeOK, NEW want \in SUBSET Prefix, NEW after \in Stamp
    PROVE  /\ NewWaiter(want, after) \in WaiterType
           /\ NewWaiter(want, after).pc = "select"
           /\ NewWaiter(want, after).want = want
           /\ NewWaiter(want, after).err = None
  <1> DEFINE matched == {p \in want : Matches(p, after)}
             seen    == {firstSeen[p] : p \in matched}
             done    == (matched = want \/ failedErr # None)
  <1>1. seen \in SUBSET Stamp
    BY DEF TypeOK
  <1>2. Earliest(seen) \in Stamp /\ Latest(seen) \in Stamp
    BY <1>1, EarliestResult, LatestResult
  <1>3. matched \in SUBSET Prefix
    OBVIOUS
  <1>4. NewWaiter(want, after) =
          [NoCall EXCEPT !.pc = "select", !.want = want, !.onlyAfter = after,
                         !.pending = want \ matched,
                         !.first = Earliest(seen), !.last = Latest(seen),
                         !.done = done]
    BY DEF NewWaiter
  <1>5. done \in BOOLEAN
    OBVIOUS
  <1> HIDE DEF matched, seen, done
  <1>6. NewWaiter(want, after) \in WaiterType
    BY <1>2, <1>3, <1>4, <1>5, NoCallTyped, ZenonT(30) DEF WaiterType, WaitPC
  <1> QED
    BY <1>4, <1>6 DEF NoCall

(* So is an idle WaitForRouteRefreshEnd, when there is one.                *)
LEMMA NoRefreshCallTyped ==
    ASSUME RefreshWaiter # {}
    PROVE  NoRefreshCall \in RefreshWaiterType
  BY BoundsAssumption, FamilyAssumption
  DEF NoRefreshCall, RefreshWaiterType, WaitPC, None, Stamp

(* What of it decides whether the call is listed.                          *)
LEMMA NewWaiterKeeps ==
    ASSUME NEW want \in SUBSET Prefix, NEW after \in Stamp
    PROVE  /\ NewWaiter(want, after).pc = "select"
           /\ NewWaiter(want, after).want = want
           /\ NewWaiter(want, after).onlyAfter = after
           /\ NewWaiter(want, after).pending = want \ {p \in want : Matches(p, after)}
           /\ NewWaiter(want, after).done =
                ({p \in want : Matches(p, after)} = want \/ failedErr # None)
  <1> DEFINE matched == {p \in want : Matches(p, after)}
             first   == Earliest({firstSeen[p] : p \in matched})
             last    == Latest({firstSeen[p] : p \in matched})
             done    == (matched = want \/ failedErr # None)
  <1>1. NewWaiter(want, after) =
          [NoCall EXCEPT !.pc = "select", !.want = want, !.onlyAfter = after,
                         !.pending = want \ matched,
                         !.first = first, !.last = last, !.done = done]
    BY DEF NewWaiter
  <1> HIDE DEF matched, first, last, done
  <1>2. /\ NewWaiter(want, after).pc = "select"
        /\ NewWaiter(want, after).want = want
        /\ NewWaiter(want, after).onlyAfter = after
        /\ NewWaiter(want, after).pending = want \ matched
        /\ NewWaiter(want, after).done = done
    BY <1>1 DEF NoCall
  <1> QED
    BY <1>2 DEF matched, done

(* The counters stay natural numbers.                                      *)
LEMMA CountUpdateTyped ==
    ASSUME counts \in [Counter -> Nat], NEW c \in UpdateCall
    PROVE  CountUpdate(c) \in [Counter -> Nat]
  <1>1. Cardinality(c.reach) \in Nat /\ Cardinality(c.unreach) \in Nat
    <2>1. IsFiniteSet(c.reach) /\ IsFiniteSet(c.unreach)
      BY FiniteAssumption, FS_Subset DEF UpdateCall
    <2> QED
      BY <2>1, FS_CardinalityType
  <1> QED
    BY <1>1 DEF CountUpdate, Counter

(* So do they for a ROUTE-REFRESH.                                         *)
LEMMA CountRefreshTyped ==
    ASSUME counts \in [Counter -> Nat], NEW d
    PROVE  CountRefresh(d) \in [Counter -> Nat]
  <1> DEFINE k == IF enhanced /\ d = "BoRR" THEN "borr"
                  ELSE IF enhanced /\ d = "EoRR" THEN "eorr" ELSE "refreshes"
  <1>1. k \in Counter
    BY DEF Counter
  <1>2. CountRefresh(d) = [counts EXCEPT ![k] = counts[k] + 1]
    BY DEF CountRefresh
  <1> HIDE DEF k
  <1> QED
    BY <1>1, <1>2

(* The refresh waiter a call registers, or is released with at once.       *)
LEMMA NewRefreshWaiterResult ==
    ASSUME TypeOK, NEW x \in RefreshWaiterType
    PROVE  LET n == NewRefreshWaiter(x)
           IN  /\ n \in RefreshWaiterType
               /\ n.pc = "select" /\ n.family = x.family /\ n.after = x.after
               /\ n.err = x.err /\ n.tsRes = x.tsRes
               /\ n.ts = IF HadEoRR(x.family, x.after) THEN lastEoRR[x.family] ELSE 0
               /\ n.done = (HadEoRR(x.family, x.after) \/ failedErr # None)
  <1> DEFINE ts   == IF HadEoRR(x.family, x.after) THEN lastEoRR[x.family] ELSE 0
             done == (HadEoRR(x.family, x.after) \/ failedErr # None)
  <1>1. ts \in Stamp
    BY BoundsAssumption DEF TypeOK, Stamp, RefreshWaiterType
  <1>2. done \in BOOLEAN
    OBVIOUS
  <1>3. NewRefreshWaiter(x) = [x EXCEPT !.pc = "select", !.done = done, !.ts = ts]
    BY DEF NewRefreshWaiter
  <1> HIDE DEF ts, done
  <1>4. NewRefreshWaiter(x) \in RefreshWaiterType
    BY <1>1, <1>2, <1>3 DEF RefreshWaiterType, WaitPC
  <1>5. LET n == NewRefreshWaiter(x)
        IN  /\ n.pc = "select" /\ n.family = x.family /\ n.after = x.after
            /\ n.err = x.err /\ n.tsRes = x.tsRes /\ n.ts = ts /\ n.done = done
    BY <1>3 DEF RefreshWaiterType
  <1> QED
    BY <1>4, <1>5 DEF ts, done

----------------------------------------------------------------------------
\* Types.

(* What newObservedSet makes has the types the code gives it.              *)
LEMMA TypeInit == Init => TypeOK
  <1> SUFFICES ASSUME Init PROVE TypeOK
    OBVIOUS
  <1>1. waiter \in [Waiter -> WaiterType]
    BY NoCallTyped DEF Init
  <1>2. refreshWaiter \in [RefreshWaiter -> RefreshWaiterType]
    BY NoRefreshCallTyped DEF Init
  <1>3. inHand \in Seq(UpdateCall \cup RefreshCall)
    BY DEF Init
  <1>4. /\ firstSeen \in [Prefix -> Stamp] /\ lastEoRR \in [Family -> Stamp]
        /\ counts \in [Counter -> Nat] /\ firstUpdate \in Stamp /\ lastUpdateAt \in Stamp
        /\ now \in 1 .. MaxTime /\ nread \in 0 .. MaxMessages
    BY BoundsAssumption DEF Init, Stamp
  <1> QED
    BY <1>1, <1>2, <1>3, <1>4 DEF Init, TypeOK, Loops

(* Every step keeps every variable in its type.                            *)
LEMMA TypeStep == TypeOK /\ [Next]_vars => TypeOK'
  <1> SUFFICES ASSUME TypeOK, [Next]_vars PROVE TypeOK'
    OBVIOUS
  <1> USE DEF TypeOK, sessionVars, readVars, routeVars, waitVars, refreshVars, setVars
  <1>1. CASE Tick
    BY <1>1, BoundsAssumption DEF Tick
  <1>2. CASE ReadMessage
    <2>1. now \in 1 .. MaxTime /\ inHand' \in UpdateCalls(now) \cup RefreshCalls(now)
      BY <1>2 DEF ReadMessage
    <2>2. inHand' \in Seq(UpdateCall \cup RefreshCall)
      BY <2>1, MessageCalls DEF Calls
    <2> QED
      BY <1>2, <2>2, BoundsAssumption DEF ReadMessage
  <1>3. CASE ApplyUpdate
    <2> DEFINE c    == Head(inHand)
               seen == [p \in Prefix |-> IF p \in c.reach /\ firstSeen[p] = 0
                                         THEN c.ts ELSE firstSeen[p]]
    <2>1. c \in UpdateCall /\ Tail(inHand) \in Seq(UpdateCall \cup RefreshCall)
      BY <1>3 DEF ApplyUpdate, UpdateCall, RefreshCall
    <2>2. seen \in [Prefix -> Stamp] /\ c.ts \in Stamp
      BY <2>1 DEF UpdateCall, Stamp
    <2>3. waiter' \in [Waiter -> WaiterType]
      <3>1. \A w \in Waiter : Notified(waiter[w], seen, c) \in WaiterType
        BY <2>1, <2>2, NotifiedResult
      <3>2. waiter' = [w \in Waiter |-> IF w \in waiters
                                        THEN Notified(waiter[w], seen, c) ELSE waiter[w]]
        BY <1>3 DEF ApplyUpdate
      <3> HIDE DEF seen, c
      <3> QED
        BY <3>1, <3>2
    <2>4. counts' \in [Counter -> Nat]
      BY <1>3, <2>1, CountUpdateTyped DEF ApplyUpdate
    <2>5. /\ firstSeen' = seen /\ withdrawn' = (withdrawn \ c.reach) \cup c.unreach
          /\ firstUpdate' = (IF firstUpdate = 0 THEN c.ts ELSE firstUpdate)
          /\ lastUpdateAt' = c.ts /\ inHand' = Tail(inHand)
          /\ UNCHANGED <<now, sessionVars, nread, failedErr, lastEoRR, waiters, refreshVars>>
      BY <1>3 DEF ApplyUpdate
    <2>6. withdrawn' \subseteq Prefix
      BY <2>1, <2>5 DEF UpdateCall
    <2> HIDE DEF seen, c
    <2> QED
      BY <2>1, <2>2, <2>3, <2>4, <2>5, <2>6
  <1>4. CASE ApplyRouteRefresh
    <2> DEFINE c == Head(inHand)
    <2>1. c \in RefreshCall /\ Tail(inHand) \in Seq(UpdateCall \cup RefreshCall)
      <3>1. inHand # <<>> /\ c.call = "applyRouteRefresh"
        BY <1>4 DEF ApplyRouteRefresh
      <3>2. c \in UpdateCall \cup RefreshCall /\ Tail(inHand) \in Seq(UpdateCall \cup RefreshCall)
        BY <3>1
      <3>3. c \notin UpdateCall
        BY <3>1 DEF UpdateCall
      <3> QED
        BY <3>2, <3>3
    <2>2. c.ts \in Stamp /\ c.family \in Family
      BY <2>1 DEF RefreshCall, Stamp
    <2>3. counts' \in [Counter -> Nat]
      BY <1>4, CountRefreshTyped DEF ApplyRouteRefresh
    <2>4. \A r \in RefreshWaiter :
            [refreshWaiter[r] EXCEPT !.ts = c.ts, !.done = TRUE] \in RefreshWaiterType
      BY <2>2 DEF RefreshWaiterType
    <2>5. lastEoRR' \in [Family -> Stamp] /\ refreshWaiter' \in [RefreshWaiter -> RefreshWaiterType]
      <3>1. CASE enhanced /\ c.demarcation = "EoRR"
        BY <1>4, <2>2, <2>4, <3>1 DEF ApplyRouteRefresh
      <3>2. CASE ~(enhanced /\ c.demarcation = "EoRR")
        BY <1>4, <3>2 DEF ApplyRouteRefresh
      <3> QED
        BY <3>1, <3>2
    <2>6. /\ inHand' = Tail(inHand)
          /\ UNCHANGED <<now, sessionVars, nread, failedErr, routeVars, waitVars, refreshWaiters>>
      BY <1>4 DEF ApplyRouteRefresh
    <2> HIDE DEF c
    <2> QED
      BY <2>1, <2>3, <2>5, <2>6
  <1>5. ASSUME NEW l \in Loops, FailBegins(l) PROVE TypeOK'
    BY <1>5 DEF FailBegins
  <1>6. ASSUME NEW l \in Loops, Fail(l) PROVE TypeOK'
    <2>1. \A w \in Waiter : MarkDone(waiter[w]) \in WaiterType
      BY ZenonT(30) DEF MarkDone, WaiterType
    <2>2. \A r \in RefreshWaiter : MarkDone(refreshWaiter[r]) \in RefreshWaiterType
      BY ZenonT(30) DEF MarkDone, RefreshWaiterType
    <2> QED
      BY <1>6, <2>1, <2>2 DEF Fail
  <1>7. ASSUME NEW l \in Loops, LoopReturns(l) PROVE TypeOK'
    BY <1>7 DEF LoopReturns
  <1>8. CASE Close \/ CloseReturns
    BY <1>8 DEF Close, CloseReturns
  <1>9. ASSUME NEW w \in Waiter, RegisterWaiter(w) PROVE TypeOK'
    <2>1. PICK want \in (SUBSET Prefix) \ {{}}, after \in 0 .. now :
            /\ waiter' = [waiter EXCEPT ![w] = NewWaiter(want, after)]
            /\ waiters' = IF NewWaiter(want, after).done THEN waiters ELSE waiters \cup {w}
      BY <1>9 DEF RegisterWaiter
    <2>2. after \in Stamp
      BY BoundsAssumption DEF Stamp
    <2>3. NewWaiter(want, after) \in WaiterType
      BY <2>2, NewWaiterTyped
    <2> QED
      BY <1>9, <2>1, <2>3 DEF RegisterWaiter
  <1>10. ASSUME NEW w \in Waiter, Select(w) \/ TimerFires(w) PROVE TypeOK'
    <2>1. [waiter[w] EXCEPT !.pc = "collect"] \in WaiterType
      BY ZenonT(30) DEF WaiterType, WaitPC
    <2>2. [waiter[w] EXCEPT !.pc = "collect", !.timer = TRUE] \in WaiterType
      BY ZenonT(30) DEF WaiterType, WaitPC
    <2>3. \/ waiter' = [waiter EXCEPT ![w] = [waiter[w] EXCEPT !.pc = "collect"]]
          \/ waiter' = [waiter EXCEPT ![w] = [waiter[w] EXCEPT !.pc = "collect", !.timer = TRUE]]
      BY <1>10 DEF Select, TimerFires
    <2>4. waiter' \in [Waiter -> WaiterType]
      BY <2>1, <2>2, <2>3
    <2> QED
      BY <1>10, <2>4 DEF Select, TimerFires
  <1>11. ASSUME NEW w \in Waiter, Collect(w) PROVE TypeOK'
    <2> DEFINE x == [waiter[w] EXCEPT !.pc = "return", !.missing = waiter[w].pending,
                       !.firstRes = waiter[w].first, !.lastRes = waiter[w].last,
                       !.err = IF waiter[w].pending = {} THEN "ok"
                               ELSE IF failedErr # None THEN "down" ELSE "timeout"]
    <2>1. x \in WaiterType
      BY ZenonT(30) DEF WaiterType, WaitPC
    <2>2. waiter' = [waiter EXCEPT ![w] = x]
      BY <1>11 DEF Collect
    <2> HIDE DEF x
    <2> QED
      BY <1>11, <2>1, <2>2 DEF Collect
  <1>12. ASSUME NEW w \in Waiter, DeregisterWaiter(w) PROVE TypeOK'
    BY <1>12, NoCallTyped DEF DeregisterWaiter
  <1>13. ASSUME NEW r \in RefreshWaiter, CheckRefresh(r) PROVE TypeOK'
    <2>1. PICK f \in Family, after \in 0 .. now :
            refreshWaiter' = [refreshWaiter EXCEPT ![r] =
                [NoRefreshCall EXCEPT !.pc = "checked", !.family = f, !.after = after]]
      BY <1>13 DEF CheckRefresh
    <2>2. [NoRefreshCall EXCEPT !.pc = "checked", !.family = f, !.after = after]
            \in RefreshWaiterType
      <3>1. after \in Stamp
        BY BoundsAssumption DEF Stamp
      <3>2. NoRefreshCall \in RefreshWaiterType
        BY NoRefreshCallTyped
      <3> QED
        BY <3>1, <3>2 DEF RefreshWaiterType
    <2> QED
      BY <1>13, <2>1, <2>2 DEF CheckRefresh
  <1>14. ASSUME NEW r \in RefreshWaiter, RegisterRefreshWaiter(r) PROVE TypeOK'
    <2>1. NewRefreshWaiter(refreshWaiter[r]) \in RefreshWaiterType
      BY NewRefreshWaiterResult
    <2> QED
      BY <1>14, <2>1 DEF RegisterRefreshWaiter
  <1>15. ASSUME NEW r \in RefreshWaiter, SelectRefresh(r) \/ RefreshTimerFires(r) PROVE TypeOK'
    <2>1. [refreshWaiter[r] EXCEPT !.pc = "collect"] \in RefreshWaiterType
      BY DEF RefreshWaiterType, WaitPC
    <2>2. refreshWaiter' = [refreshWaiter EXCEPT ![r] = [refreshWaiter[r] EXCEPT !.pc = "collect"]]
      BY <1>15 DEF SelectRefresh, RefreshTimerFires
    <2>3. refreshWaiter' \in [RefreshWaiter -> RefreshWaiterType]
      BY <2>1, <2>2
    <2> QED
      BY <1>15, <2>3 DEF SelectRefresh, RefreshTimerFires
  <1>16. ASSUME NEW r \in RefreshWaiter, CollectRefresh(r) PROVE TypeOK'
    <2> DEFINE x == [refreshWaiter[r] EXCEPT !.pc = "return", !.tsRes = refreshWaiter[r].ts,
                       !.err = IF refreshWaiter[r].ts # 0 THEN "ok"
                               ELSE IF failedErr # None THEN "down" ELSE "timeout"]
    <2>1. x \in RefreshWaiterType
      BY DEF RefreshWaiterType, WaitPC
    <2>2. refreshWaiter' = [refreshWaiter EXCEPT ![r] = x]
      BY <1>16 DEF CollectRefresh
    <2> HIDE DEF x
    <2> QED
      BY <1>16, <2>1, <2>2 DEF CollectRefresh
  <1>17. ASSUME NEW r \in RefreshWaiter, DeregisterRefreshWaiter(r) PROVE TypeOK'
    BY <1>17, NoRefreshCallTyped DEF DeregisterRefreshWaiter
  <1>18. CASE UNCHANGED vars
    BY <1>18 DEF vars
  <1> QED
    BY <1>1, <1>2, <1>3, <1>4, <1>5, <1>6, <1>7, <1>8, <1>9, <1>10, <1>11, <1>12,
       <1>13, <1>14, <1>15, <1>16, <1>17, <1>18 DEF Next

(* The observed set, the messages in hand and every waiter always have the *)
(* types of the fields and locals they stand for.                          *)
THEOREM TypeCorrect == Spec => []TypeOK
  BY TypeInit, TypeStep, PTL DEF Spec

----------------------------------------------------------------------------
\* The invariant, part by part.

(* The times of the calls in hand.                                         *)
LEMMA CallStamps ==
    ASSUME TypeOK
    PROVE  \A i \in 1 .. Len(inHand) : inHand[i] \in Calls /\ inHand[i].ts \in Stamp
  <1>1. inHand \in Seq(Calls)
    BY DEF TypeOK, Calls
  <1>2. \A i \in 1 .. Len(inHand) : inHand[i] \in Calls
    BY <1>1
  <1> QED
    BY <1>2 DEF Calls, UpdateCall, RefreshCall, Stamp

(* The actions that read the clock or change the tables.                   *)
LEMMA ClockStep == TypeOK /\ ClockInv /\ [Next]_vars => ClockInv'
  <1> SUFFICES ASSUME TypeOK, ClockInv, [Next]_vars PROVE ClockInv'
    OBVIOUS
  <1> USE DEF ClockInv
  <1>1. CASE Tick
    <2>1. /\ now \in Nat /\ now' = now + 1
          /\ UNCHANGED <<inHand, firstSeen, firstUpdate, lastUpdateAt, lastEoRR>>
      BY <1>1 DEF Tick, TypeOK, readVars, setVars, routeVars
    <2>2. \A n \in Stamp : n <= now => n <= now'
      BY <2>1 DEF Stamp
    <2>3. \A i \in 1 .. Len(inHand) : inHand[i].ts \in Stamp
      BY CallStamps
    <2> QED
      BY <2>1, <2>2, <2>3 DEF TypeOK
  <1>2. CASE ReadMessage
    <2>1. now \in 1 .. MaxTime /\ inHand' \in UpdateCalls(now) \cup RefreshCalls(now)
      BY <1>2 DEF ReadMessage, TypeOK
    <2>2. \A i \in 1 .. Len(inHand') : inHand'[i].ts = now
      BY <2>1, MessageCalls
    <2>3. UNCHANGED <<now, firstSeen, firstUpdate, lastUpdateAt, lastEoRR>>
      BY <1>2 DEF ReadMessage, setVars, routeVars
    <2> QED
      BY <2>1, <2>2, <2>3
  <1>3. CASE ApplyUpdate
    <2> DEFINE c == Head(inHand)
    <2>1. /\ inHand \in Seq(Calls) /\ inHand # <<>> /\ c = inHand[1]
          /\ c.ts \in 1 .. MaxTime
      BY <1>3 DEF ApplyUpdate, TypeOK, Calls, UpdateCall, RefreshCall
    <2>2. \A i \in 1 .. Len(Tail(inHand)) : Tail(inHand)[i].ts = c.ts
      BY <2>1
    <2>3. /\ firstSeen' = [p \in Prefix |-> IF p \in c.reach /\ firstSeen[p] = 0
                                            THEN c.ts ELSE firstSeen[p]]
          /\ firstUpdate' = (IF firstUpdate = 0 THEN c.ts ELSE firstUpdate)
          /\ lastUpdateAt' = c.ts /\ inHand' = Tail(inHand)
          /\ UNCHANGED <<now, lastEoRR>>
      BY <1>3 DEF ApplyUpdate
    <2>4. /\ lastUpdateAt <= c.ts /\ c.ts <= now
          /\ \A f \in Family : lastEoRR[f] <= c.ts
      BY <2>1
    <2> HIDE DEF c
    <2>5. ASSUME NEW p \in Prefix
          PROVE  /\ firstSeen'[p] <= lastUpdateAt'
                 /\ firstSeen'[p] # 0 => firstUpdate' # 0 /\ firstUpdate' <= firstSeen'[p]
      <3>1. /\ firstSeen[p] \in Nat /\ firstUpdate \in Nat /\ lastUpdateAt \in Nat
            /\ c.ts \in Nat \ {0} /\ now \in Nat
        BY <2>1, BoundsAssumption DEF TypeOK, Stamp
      <3>2. firstSeen'[p] = firstSeen[p] \/ (firstSeen[p] = 0 /\ firstSeen'[p] = c.ts)
        BY <2>3
      <3>3. firstUpdate <= c.ts
        BY <2>4, <3>1
      <3> QED
        BY <2>3, <2>4, <3>1, <3>2, <3>3
    <2> QED
      BY <2>1, <2>2, <2>3, <2>4, <2>5 DEF TypeOK, Stamp
  <1>4. CASE ApplyRouteRefresh
    <2> DEFINE c == Head(inHand)
    <2>1. inHand \in Seq(Calls) /\ inHand # <<>> /\ c = inHand[1] /\ c \in Calls
      <3>1. inHand \in Seq(Calls) /\ inHand # <<>>
        BY <1>4 DEF ApplyRouteRefresh, TypeOK, Calls
      <3> QED
        BY <3>1
    <2>2. \A i \in 1 .. Len(Tail(inHand)) : Tail(inHand)[i].ts = c.ts
      BY <2>1
    <2>3. /\ \A f \in Family : lastEoRR'[f] = lastEoRR[f] \/ lastEoRR'[f] = c.ts
          /\ inHand' = Tail(inHand)
          /\ UNCHANGED <<now, firstSeen, firstUpdate, lastUpdateAt>>
      BY <1>4 DEF ApplyRouteRefresh, TypeOK, routeVars
    <2>4. /\ lastUpdateAt <= c.ts /\ c.ts <= now
          /\ \A f \in Family : lastEoRR[f] <= c.ts
          /\ c.ts \in Stamp
      BY <2>1 DEF Calls, UpdateCall, RefreshCall, Stamp
    <2> HIDE DEF c
    <2>5. \A f \in Family : lastEoRR'[f] <= c.ts /\ lastEoRR'[f] <= now
      BY <2>3, <2>4 DEF TypeOK, Stamp
    <2> QED
      BY <2>2, <2>3, <2>4, <2>5 DEF TypeOK, Stamp
  <1>5. CASE UNCHANGED <<now, inHand, firstSeen, firstUpdate, lastUpdateAt, lastEoRR>>
    BY <1>5
  <1> QED
    BY <1>1, <1>2, <1>3, <1>4, <1>5
    DEF Next, vars, readVars, setVars, routeVars, Close, CloseReturns, FailBegins, Fail,
        LoopReturns, RegisterWaiter, Select, TimerFires, Collect, DeregisterWaiter,
        CheckRefresh, RegisterRefreshWaiter, SelectRefresh, RefreshTimerFires,
        CollectRefresh, DeregisterRefreshWaiter

(* What one applyUpdate does to the tables and to every waiter.            *)
LEMMA ApplyUpdateResult ==
    ASSUME TypeOK, ApplyUpdate
    PROVE  \E c \in UpdateCall, seen \in [Prefix -> Stamp] :
             /\ inHand # <<>> /\ c = inHand[1]
             /\ firstSeen' = seen
             /\ seen = [p \in Prefix |-> IF p \in c.reach /\ firstSeen[p] = 0
                                        THEN c.ts ELSE firstSeen[p]]
             /\ withdrawn' = (withdrawn \ c.reach) \cup c.unreach
             /\ lastUpdateAt' = c.ts
             /\ \A w \in Waiter \ waiters : waiter'[w] = waiter[w]
             /\ \A w \in waiters : waiter'[w] = Notified(waiter[w], seen, c)
  <1>1. /\ inHand # <<>> /\ Head(inHand).call = "applyUpdate"
        /\ inHand \in Seq(UpdateCall \cup RefreshCall)
    BY DEF ApplyUpdate, TypeOK
  <1>2. Head(inHand) \in UpdateCall \cup RefreshCall /\ Head(inHand) = inHand[1]
    BY <1>1
  <1>3. PICK c \in UpdateCall : c = Head(inHand)
    BY <1>1, <1>2 DEF RefreshCall
  <1>4. /\ firstSeen' = [p \in Prefix |-> IF p \in c.reach /\ firstSeen[p] = 0
                                          THEN c.ts ELSE firstSeen[p]]
        /\ withdrawn' = (withdrawn \ c.reach) \cup c.unreach
        /\ lastUpdateAt' = c.ts
    BY <1>3 DEF ApplyUpdate
  <1>5. waiter' = [w \in Waiter |-> IF w \in waiters THEN Notified(waiter[w], firstSeen', c)
                                    ELSE waiter[w]]
    BY <1>3, <1>4 DEF ApplyUpdate
  <1>6. firstSeen' \in [Prefix -> Stamp]
    BY <1>3, <1>4 DEF TypeOK, UpdateCall, Stamp
  <1> QED
    BY <1>1, <1>2, <1>3, <1>4, <1>5, <1>6 DEF TypeOK

(* applyUpdate keeps the pending sets of listed waiters in step with the   *)
(* table, and closes done exactly when the last pending prefix goes.       *)
LEMMA ApplyUpdateKeepsWaits ==
    ASSUME TypeOK, WaitInv, ApplyUpdate
    PROVE  WaitInv'
  <1>1. PICK c \in UpdateCall, seen \in [Prefix -> Stamp] :
             /\ firstSeen' = seen
             /\ seen = [p \in Prefix |-> IF p \in c.reach /\ firstSeen[p] = 0
                                        THEN c.ts ELSE firstSeen[p]]
             /\ withdrawn' = (withdrawn \ c.reach) \cup c.unreach
             /\ \A w \in Waiter \ waiters : waiter'[w] = waiter[w]
             /\ \A w \in waiters : waiter'[w] = Notified(waiter[w], seen, c)
    BY ApplyUpdateResult
  <1>2. waiters' = waiters /\ failedErr' = failedErr /\ waiters \subseteq Waiter
    BY DEF ApplyUpdate, TypeOK
  <1>3. c.ts # 0 /\ c.reach \subseteq Prefix /\ c.unreach \subseteq Prefix
    BY BoundsAssumption DEF UpdateCall
  <1>4. \A p \in Prefix : /\ firstSeen[p] # 0 => firstSeen'[p] = firstSeen[p]
                          /\ p \in c.reach => firstSeen'[p] # 0
                          /\ p \notin c.reach => firstSeen'[p] = firstSeen[p]
    BY <1>1, <1>3
  <1> DEFINE Hit(x) == Hits(x, seen, c)
  <1>5. ASSUME NEW w \in waiters
        PROVE  /\ waiter[w].want \subseteq Prefix
               /\ waiter'[w].pc = waiter[w].pc
               /\ waiter'[w].want = waiter[w].want
               /\ waiter'[w].onlyAfter = waiter[w].onlyAfter
               /\ waiter'[w].pending =
                    (waiter[w].pending \ Hit(waiter[w])) \cup (waiter[w].want \cap c.unreach)
               /\ waiter'[w].done =
                    (waiter[w].done \/ (Hit(waiter[w]) # {} /\ waiter[w].pending \ Hit(waiter[w]) = {}))
               /\ waiter[w].pending =
                    {p \in waiter[w].want : ~Matches(p, waiter[w].onlyAfter)}
    <2>1. waiter[w] \in WaiterType /\ waiter'[w] = Notified(waiter[w], seen, c)
      BY <1>1, <1>2 DEF TypeOK
    <2>2. waiter[w].want \subseteq Prefix
      BY <2>1 DEF WaiterType
    <2>3. waiter[w].pending = {p \in waiter[w].want : ~Matches(p, waiter[w].onlyAfter)}
      BY DEF WaitInv, PendingMirrorsTable
    <2>4. /\ waiter'[w].pc = waiter[w].pc
          /\ waiter'[w].want = waiter[w].want
          /\ waiter'[w].onlyAfter = waiter[w].onlyAfter
      BY <2>1, NotifiedKeeps
    <2>5. waiter'[w].pending =
            (waiter[w].pending \ Hit(waiter[w])) \cup (waiter[w].want \cap c.unreach)
      BY <2>1, NotifiedPending
    <2>6. waiter'[w].done =
            (waiter[w].done \/ (Hit(waiter[w]) # {} /\ waiter[w].pending \ Hit(waiter[w]) = {}))
      BY <2>1, NotifiedPending
    <2> QED
      BY <2>2, <2>3, <2>4, <2>5, <2>6
  <1>6. PendingMirrorsTable'
    <2> SUFFICES ASSUME NEW w \in waiters
                 PROVE  waiter'[w].pending =
                          {p \in waiter'[w].want :
                             ~Counts(firstSeen', withdrawn', p, waiter'[w].onlyAfter)}
      BY <1>2 DEF PendingMirrorsTable, Matches
    <2>1. ASSUME NEW p \in waiter[w].want
          PROVE  Counts(firstSeen', withdrawn', p, waiter[w].onlyAfter) <=>
                   /\ p \notin c.unreach
                   /\ Matches(p, waiter[w].onlyAfter) \/ p \in Hit(waiter[w])
      <3>1. p \in Prefix
        BY <1>5
      <3>2. p \in withdrawn' <=> (p \in withdrawn /\ p \notin c.reach) \/ p \in c.unreach
        BY <1>1
      <3>3. CASE p \in c.reach
        <4>1. firstSeen'[p] # 0 /\ (p \in withdrawn' <=> p \in c.unreach)
          BY <1>4, <3>1, <3>2, <3>3
        <4>2. Matches(p, waiter[w].onlyAfter) => firstSeen'[p] >= waiter[w].onlyAfter
          BY <1>4, <3>1 DEF Matches, Counts
        <4> QED
          BY <1>1, <3>3, <4>1, <4>2 DEF Counts, Hits
      <3>4. CASE p \notin c.reach
        BY <1>1, <1>4, <3>1, <3>2, <3>4 DEF Matches, Counts, Hits
      <3> QED
        BY <3>3, <3>4
    <2> HIDE DEF Hit
    <2> QED
      BY <1>5, <2>1
  <1>7. NoSpuriousWakeup'
    <2> SUFFICES ASSUME NEW w \in Waiter, waiter'[w].pc # "idle", waiter'[w].done,
                        failedErr = None, NEW p \in waiter'[w].want
                 PROVE  firstSeen'[p] # 0 /\ firstSeen'[p] >= waiter'[w].onlyAfter
      BY <1>2 DEF NoSpuriousWakeup
    <2>1. CASE w \notin waiters
      <3>1. waiter'[w] = waiter[w] /\ p \in Prefix
        BY <1>1, <2>1 DEF TypeOK, WaiterType
      <3> QED
        BY <1>4, <3>1 DEF WaitInv, NoSpuriousWakeup
    <2>2. CASE w \in waiters
      <3>1. p \in Prefix /\ p \in waiter[w].want
        BY <1>5, <2>2
      <3>2. CASE waiter[w].done
        <4>1. firstSeen[p] # 0 /\ firstSeen[p] >= waiter[w].onlyAfter
          BY <1>5, <2>2, <3>1, <3>2 DEF WaitInv, NoSpuriousWakeup
        <4> QED
          BY <1>4, <1>5, <2>2, <3>1, <4>1
      <3>3. CASE ~waiter[w].done
        <4>1. \/ p \in c.reach /\ firstSeen'[p] >= waiter[w].onlyAfter
              \/ Matches(p, waiter[w].onlyAfter)
          BY <1>1, <1>5, <2>2, <3>1, <3>3 DEF Hits
        <4> QED
          BY <1>4, <1>5, <2>2, <3>1, <4>1 DEF Matches, Counts
      <3> QED
        BY <3>2, <3>3
    <2> QED
      BY <2>1, <2>2
  <1>8. \A w \in waiters' : waiter'[w].pc # "idle"
    BY <1>2, <1>5 DEF WaitInv
  <1>9. ASSUME NEW w \in Waiter, waiter'[w].pc = "select", ~waiter'[w].done
        PROVE  w \in waiters' /\ failedErr' = None /\ waiter'[w].pending # {}
    <2>1. CASE w \notin waiters
      BY <1>1, <1>2, <1>9, <2>1 DEF WaitInv
    <2>2. CASE w \in waiters
      <3>1. ~waiter[w].done /\ waiter[w].pc = "select"
        BY <1>5, <1>9, <2>2
      <3>2. failedErr = None /\ waiter[w].pending # {}
        BY <1>2, <2>2, <3>1 DEF WaitInv
      <3> QED
        BY <1>2, <1>5, <1>9, <2>2, <3>2
    <2> QED
      BY <2>1, <2>2
  <1> QED
    BY <1>6, <1>7, <1>8, <1>9 DEF WaitInv

(* fail releases every listed waiter, and later ones see failedErr.        *)
LEMMA FailKeepsWaits ==
    ASSUME TypeOK, WaitInv, NEW l \in Loops, Fail(l)
    PROVE  WaitInv'
  <1>1. /\ waiters' = waiters /\ waiters \subseteq Waiter
        /\ UNCHANGED <<firstSeen, withdrawn>>
        /\ failedErr' # None
    BY DEF Fail, TypeOK, routeVars, Loops, None
  <1>2. ASSUME NEW w \in Waiter
        PROVE  /\ waiter'[w].pc = waiter[w].pc /\ waiter'[w].want = waiter[w].want
               /\ waiter'[w].pending = waiter[w].pending
               /\ waiter'[w].onlyAfter = waiter[w].onlyAfter
               /\ waiter'[w].done = (waiter[w].done \/ w \in waiters)
    <2>1. waiter[w] \in WaiterType
      BY DEF TypeOK
    <2>2. waiter'[w] = IF w \in waiters THEN [waiter[w] EXCEPT !.done = TRUE] ELSE waiter[w]
      BY DEF Fail, MarkDone
    <2> QED
      BY <2>1, <2>2 DEF WaiterType
  <1>3. PendingMirrorsTable'
    BY <1>1, <1>2 DEF WaitInv, PendingMirrorsTable, Matches, Counts
  <1>4. NoSpuriousWakeup'
    BY <1>1 DEF NoSpuriousWakeup
  <1>5. \A w \in waiters' : waiter'[w].pc # "idle"
    BY <1>1, <1>2 DEF WaitInv
  <1>6. \A w \in Waiter : waiter'[w].pc = "select" => waiter'[w].done
    BY <1>2 DEF WaitInv
  <1> QED
    BY <1>1, <1>3, <1>4, <1>5, <1>6 DEF WaitInv

(* A call is listed with a pending set taken from the table, or not at all.*)
LEMMA RegisterKeepsWaits ==
    ASSUME TypeOK, WaitInv, NEW w \in Waiter, RegisterWaiter(w)
    PROVE  WaitInv'
  <1>1. PICK want \in (SUBSET Prefix) \ {{}}, after \in 0 .. now :
          /\ waiter' = [waiter EXCEPT ![w] = NewWaiter(want, after)]
          /\ waiters' = IF NewWaiter(want, after).done THEN waiters ELSE waiters \cup {w}
    BY DEF RegisterWaiter
  <1>2. UNCHANGED <<firstSeen, withdrawn, failedErr>> /\ waiters \subseteq Waiter
    BY DEF RegisterWaiter, setVars, routeVars, TypeOK
  <1> DEFINE n == NewWaiter(want, after)
             matched == {p \in want : Matches(p, after)}
  <1>3. /\ n.pc = "select" /\ n.want = want /\ n.onlyAfter = after
        /\ n.pending = want \ matched
        /\ n.done = (matched = want \/ failedErr # None)
    <2>1. after \in Stamp
      BY BoundsAssumption DEF TypeOK, Stamp
    <2> QED
      BY <2>1, NewWaiterKeeps
  <1>4. waiter'[w] = n /\ \A v \in Waiter \ {w} : waiter'[v] = waiter[v]
    BY <1>1 DEF TypeOK
  <1>5. waiters' = (IF n.done THEN waiters ELSE waiters \cup {w}) /\ w \notin waiters
    BY <1>1 DEF RegisterWaiter, WaitInv
  <1> HIDE DEF n
  <1>6. PendingMirrorsTable'
    <2> SUFFICES ASSUME NEW v \in waiters'
                 PROVE  waiter'[v].pending =
                          {p \in waiter'[v].want :
                             ~Counts(firstSeen, withdrawn, p, waiter'[v].onlyAfter)}
      BY <1>2 DEF PendingMirrorsTable, Matches
    <2>1. CASE v = w
      BY <1>3, <1>4, <2>1 DEF Matches
    <2>2. CASE v # w
      <3>1. v \in waiters /\ waiter'[v] = waiter[v]
        BY <1>2, <1>4, <1>5, <2>2
      <3> QED
        BY <3>1 DEF WaitInv, PendingMirrorsTable, Matches
    <2> QED
      BY <2>1, <2>2
  <1>7. NoSpuriousWakeup'
    <2> SUFFICES ASSUME NEW v \in Waiter, waiter'[v].pc # "idle", waiter'[v].done,
                        failedErr = None, NEW p \in waiter'[v].want
                 PROVE  firstSeen[p] # 0 /\ firstSeen[p] >= waiter'[v].onlyAfter
      BY <1>2 DEF NoSpuriousWakeup
    <2>1. CASE v = w
      BY <1>3, <1>4, <2>1 DEF Matches, Counts
    <2>2. CASE v # w
      BY <1>4, <2>2 DEF WaitInv, NoSpuriousWakeup
    <2> QED
      BY <2>1, <2>2
  <1>8. \A v \in waiters' : waiter'[v].pc # "idle"
    BY <1>2, <1>3, <1>4, <1>5 DEF WaitInv
  <1>9. ASSUME NEW v \in Waiter, waiter'[v].pc = "select", ~waiter'[v].done
        PROVE  v \in waiters' /\ failedErr' = None /\ waiter'[v].pending # {}
    <2>1. CASE v = w
      BY <1>2, <1>3, <1>4, <1>5, <1>9, <2>1
    <2>2. CASE v # w
      BY <1>2, <1>4, <1>5, <1>9, <2>2 DEF WaitInv
    <2> QED
      BY <2>1, <2>2
  <1> QED
    BY <1>6, <1>7, <1>8, <1>9 DEF WaitInv

(* The way of a call out of its select, and the steps of everybody else.   *)
LEMMA LeaveKeepsWaits ==
    ASSUME TypeOK, WaitInv, NEW w \in Waiter,
           \/ Select(w) \/ TimerFires(w) \/ Collect(w) \/ DeregisterWaiter(w)
    PROVE  WaitInv'
  <1>1. UNCHANGED <<firstSeen, withdrawn, failedErr>> /\ waiters \subseteq Waiter
    BY DEF Select, TimerFires, Collect, DeregisterWaiter, setVars, routeVars, TypeOK
  <1>2. \A v \in Waiter \ {w} : waiter'[v] = waiter[v]
    BY DEF Select, TimerFires, Collect, DeregisterWaiter, TypeOK
  <1>3. waiter[w] \in WaiterType /\ waiter[w].pc # "idle"
    BY DEF TypeOK, Select, TimerFires, Collect, DeregisterWaiter
  <1>4. \/ waiters' = waiters \ {w} /\ waiter'[w].pc = "idle"
        \/ /\ waiters' = waiters
           /\ waiter'[w].pc \in {"collect", "return"}
           /\ waiter'[w].want = waiter[w].want
           /\ waiter'[w].pending = waiter[w].pending
           /\ waiter'[w].onlyAfter = waiter[w].onlyAfter
           /\ waiter'[w].done = waiter[w].done
    <2>1. CASE Select(w)
      BY <1>3, <2>1 DEF Select, TypeOK, WaiterType
    <2>2. CASE TimerFires(w)
      BY <1>3, <2>2 DEF TimerFires, TypeOK, WaiterType
    <2>3. CASE Collect(w)
      BY <1>3, <2>3 DEF Collect, TypeOK, WaiterType
    <2>4. CASE DeregisterWaiter(w)
      BY <2>4 DEF DeregisterWaiter, TypeOK, NoCall
    <2> QED
      BY <2>1, <2>2, <2>3, <2>4
  <1>5. PendingMirrorsTable'
    BY <1>1, <1>2, <1>4 DEF WaitInv, PendingMirrorsTable, Matches, Counts
  <1>6. NoSpuriousWakeup'
    BY <1>1, <1>2, <1>3, <1>4 DEF WaitInv, NoSpuriousWakeup
  <1>7. \A v \in waiters' : waiter'[v].pc # "idle"
    BY <1>1, <1>2, <1>4 DEF WaitInv
  <1>8. ASSUME NEW v \in Waiter, waiter'[v].pc = "select", ~waiter'[v].done
        PROVE  v \in waiters' /\ failedErr' = None /\ waiter'[v].pending # {}
    BY <1>1, <1>2, <1>4, <1>8 DEF WaitInv
  <1> QED
    BY <1>5, <1>6, <1>7, <1>8 DEF WaitInv

(* Together, and the actions that touch none of it.                        *)
LEMMA WaitStep == TypeOK /\ WaitInv /\ [Next]_vars => WaitInv'
  <1> SUFFICES ASSUME TypeOK, WaitInv, [Next]_vars PROVE WaitInv'
    OBVIOUS
  <1>1. CASE UNCHANGED <<firstSeen, withdrawn, failedErr, waiters, waiter>>
    BY <1>1 DEF WaitInv, PendingMirrorsTable, NoSpuriousWakeup, Matches, Counts
  <1>2. \/ UNCHANGED <<firstSeen, withdrawn, failedErr, waiters, waiter>>
        \/ ApplyUpdate
        \/ \E l \in Loops : Fail(l)
        \/ \E w \in Waiter :
              RegisterWaiter(w) \/ Select(w) \/ TimerFires(w) \/ Collect(w) \/ DeregisterWaiter(w)
    BY DEF Next, vars, setVars, routeVars, waitVars, Tick, ReadMessage, ApplyRouteRefresh,
       Close, CloseReturns, FailBegins, LoopReturns, CheckRefresh, RegisterRefreshWaiter,
       SelectRefresh, RefreshTimerFires, CollectRefresh, DeregisterRefreshWaiter
  <1> QED
    BY <1>1, <1>2, ApplyUpdateKeepsWaits, FailKeepsWaits, RegisterKeepsWaits, LeaveKeepsWaits

(* No call is in progress at first.                                        *)
LEMMA WaitInit == Init => WaitInv
  BY DEF Init, WaitInv, PendingMirrorsTable, NoSpuriousWakeup, NoCall

(* An interval stays right while the table only gains first sightings.     *)
LEMMA SpansLater ==
    ASSUME NEW seen \in [Prefix -> Stamp], NEW seen2 \in [Prefix -> Stamp],
           NEW upto \in Stamp, NEW upto2 \in Stamp, upto <= upto2,
           \A p \in Prefix : seen[p] # 0 => seen2[p] = seen[p],
           NEW x \in WaiterType, NEW y, y.want = x.want, y.onlyAfter = x.onlyAfter,
           NEW from \in Stamp, NEW to \in Stamp, NEW S \in SUBSET Prefix,
           Spans(seen, upto, x, from, to, S)
    PROVE  Spans(seen2, upto2, y, from, to, S)
  <1>1. x.want \subseteq Prefix
    BY DEF WaiterType
  <1>2. from # 0 => \E p \in y.want : seen2[p] = from /\ from >= y.onlyAfter
    BY <1>1 DEF Spans
  <1>3. \A p \in S : seen2[p] # 0 /\ from # 0 /\ from <= seen2[p] /\ seen2[p] <= to
    BY DEF Spans
  <1>4. to <= upto2
    BY BoundsAssumption DEF Spans, Stamp
  <1> QED
    BY <1>2, <1>3, <1>4 DEF Spans

(* What an applyUpdate does to the interval of a listed call.              *)
LEMMA NotifiedSpans ==
    ASSUME NEW seen \in [Prefix -> Stamp], NEW seen2 \in [Prefix -> Stamp],
           NEW upto \in Stamp, NEW c \in UpdateCall, upto <= c.ts,
           \A p \in Prefix : seen[p] # 0 => seen2[p] = seen[p],
           \A p \in Prefix : seen2[p] <= c.ts,
           \A p \in c.reach : seen2[p] # 0,
           NEW x \in WaiterType, Spans(seen, upto, x, x.first, x.last, x.want \ x.pending)
    PROVE  LET n == Notified(x, seen2, c)
           IN  Spans(seen2, c.ts, n, n.first, n.last, n.want \ n.pending)
  <1> DEFINE n   == Notified(x, seen2, c)
             hit == Hits(x, seen2, c)
             new == {seen2[p] : p \in hit \cap x.pending}
             A   == {x.first} \cup new
             B   == {x.last, c.ts}
  <1>1. /\ x.want \subseteq Prefix /\ x.pending \subseteq Prefix
        /\ x.first \in Stamp /\ x.last \in Stamp /\ x.onlyAfter \in Stamp /\ c.ts \in Stamp
    BY DEF WaiterType, UpdateCall, Stamp
  <1>2. n.want = x.want /\ n.onlyAfter = x.onlyAfter
    BY NotifiedKeeps
  <1>3. n.pending = (x.pending \ hit) \cup (x.want \cap c.unreach)
    BY NotifiedPending
  <1>4. n.first = Earliest(A) /\ n.last = IF hit = {} THEN x.last ELSE Latest(B)
    BY NotifiedResult
  <1>5. hit \subseteq x.want \cap c.reach /\ \A p \in hit : seen2[p] >= x.onlyAfter
    BY DEF Hits
  <1>6. /\ Earliest(A) \in Stamp
        /\ Earliest(A) # 0 => Earliest(A) \in A
        /\ \A a \in A : a # 0 => Earliest(A) # 0 /\ Earliest(A) <= a
    <2>1. A \in SUBSET Stamp
      BY <1>1
    <2> HIDE DEF A
    <2> QED
      BY <2>1, EarliestResult
  <1>7. Latest(B) \in {x.last, c.ts} /\ x.last <= Latest(B) /\ c.ts <= Latest(B)
    <2>1. B \in SUBSET Stamp /\ B # {} /\ x.last \in B /\ c.ts \in B
      BY <1>1
    <2> HIDE DEF B
    <2>2. Latest(B) \in B /\ \A b \in B : b <= Latest(B)
      BY <2>1, LatestResult
    <2> QED
      BY <2>1, <2>2 DEF B
  <1>8. /\ x.first # 0 => \E p \in x.want : seen[p] = x.first /\ x.first >= x.onlyAfter
        /\ \A p \in x.want \ x.pending : /\ seen[p] # 0 /\ x.first # 0
                                         /\ x.first <= seen[p] /\ seen[p] <= x.last
        /\ x.last <= upto
    BY DEF Spans
  <1> HIDE DEF n, hit
  <1>9. n.first # 0 => \E p \in n.want : seen2[p] = n.first /\ n.first >= n.onlyAfter
    <2> SUFFICES ASSUME n.first # 0
                 PROVE  \E p \in x.want : seen2[p] = n.first /\ n.first >= x.onlyAfter
      BY <1>2
    <2>1. n.first \in A
      BY <1>4, <1>6
    <2>2. CASE n.first = x.first
      BY <1>1, <1>8, <2>2
    <2>3. CASE n.first \in new
      BY <1>5, <2>3
    <2> QED
      BY <2>1, <2>2, <2>3
  <1>10. x.last <= n.last /\ n.last <= c.ts
    BY <1>1, <1>4, <1>7, <1>8, BoundsAssumption DEF Stamp
  <1>11. ASSUME NEW p \in n.want \ n.pending
         PROVE  seen2[p] # 0 /\ n.first # 0 /\ n.first <= seen2[p] /\ seen2[p] <= n.last
    <2>1. p \in x.want /\ p \in Prefix /\ (p \notin x.pending \/ p \in hit)
      BY <1>1, <1>2, <1>3, <1>11
    <2>2. CASE p \notin x.pending
      <3>1. /\ seen2[p] = seen[p] /\ seen[p] # 0
            /\ x.first # 0 /\ x.first <= seen2[p] /\ seen2[p] <= x.last
        BY <1>8, <2>1, <2>2
      <3>2. n.first # 0 /\ n.first <= x.first
        BY <1>4, <1>6, <3>1
      <3> QED
        BY <1>1, <1>4, <1>6, <1>7, <1>10, <2>1, <3>1, <3>2, BoundsAssumption DEF Stamp
    <2>3. CASE p \in x.pending /\ p \in hit
      <3>1. seen2[p] # 0 /\ seen2[p] \in A /\ seen2[p] <= c.ts
        BY <1>5, <2>1, <2>3
      <3>2. n.first # 0 /\ n.first <= seen2[p]
        BY <1>4, <1>6, <3>1
      <3>3. c.ts <= n.last
        BY <1>4, <1>7, <2>3
      <3>4. seen2[p] \in Stamp /\ n.last \in Stamp
        BY <1>1, <1>4, <1>7, <2>1
      <3> QED
        BY <1>1, <3>1, <3>2, <3>3, <3>4, BoundsAssumption DEF Stamp
    <2> QED
      BY <2>1, <2>2, <2>3
  <1> QED
    BY <1>9, <1>10, <1>11 DEF Spans, n

(* The table moves forward, and with it the interval of every call.        *)
LEMMA ApplyUpdateKeepsIntervals ==
    ASSUME TypeOK, ClockInv, IntervalInv, ApplyUpdate
    PROVE  IntervalInv'
  <1>1. PICK c \in UpdateCall, seen \in [Prefix -> Stamp] :
             /\ inHand # <<>> /\ c = inHand[1]
             /\ firstSeen' = seen
             /\ seen = [p \in Prefix |-> IF p \in c.reach /\ firstSeen[p] = 0
                                        THEN c.ts ELSE firstSeen[p]]
             /\ lastUpdateAt' = c.ts
             /\ \A w \in Waiter \ waiters : waiter'[w] = waiter[w]
             /\ \A w \in waiters : waiter'[w] = Notified(waiter[w], seen, c)
    BY ApplyUpdateResult
  <1>2. /\ firstSeen \in [Prefix -> Stamp] /\ lastUpdateAt \in Stamp
        /\ c.ts \in Stamp /\ c.ts # 0 /\ c.reach \subseteq Prefix
    BY BoundsAssumption DEF TypeOK, UpdateCall, Stamp
  <1>3. lastUpdateAt <= c.ts /\ \A p \in Prefix : firstSeen[p] <= lastUpdateAt
    <2>1. 1 \in 1 .. Len(inHand)
      BY <1>1 DEF TypeOK
    <2> QED
      BY <1>1, <2>1 DEF ClockInv
  <1>4. \A p \in Prefix : firstSeen[p] # 0 => seen[p] = firstSeen[p]
    BY <1>1
  <1>5. \A p \in Prefix : seen[p] <= c.ts
    <2> TAKE p \in Prefix
    <2>1. seen[p] = c.ts \/ seen[p] = firstSeen[p]
      BY <1>1
    <2> QED
      BY <1>2, <1>3, <2>1, BoundsAssumption DEF Stamp
  <1>6. \A p \in c.reach : seen[p] # 0
    BY <1>1, <1>2
  <1>7. ASSUME NEW w \in Waiter
        PROVE  LET x == waiter'[w]
               IN  /\ x.pc # "idle" => x.want # {}
                   /\ x.pc \in {"select", "collect"} =>
                        /\ x.err = None
                        /\ Spans(seen, c.ts, x, x.first, x.last, x.want \ x.pending)
                   /\ x.err = "ok" => /\ x.pc = "return"
                                      /\ Spans(seen, c.ts, x, x.firstRes, x.lastRes, x.want)
    <2> DEFINE x == waiter[w]
               y == waiter'[w]
    <2>1. /\ x \in WaiterType /\ x.want \subseteq Prefix /\ x.pending \subseteq Prefix
          /\ x.first \in Stamp /\ x.last \in Stamp /\ x.firstRes \in Stamp /\ x.lastRes \in Stamp
      BY DEF TypeOK, WaiterType
    <2>2. /\ x.pc # "idle" => x.want # {}
          /\ x.pc \in {"select", "collect"} =>
               /\ x.err = None
               /\ Spans(firstSeen, lastUpdateAt, x, x.first, x.last, x.want \ x.pending)
          /\ x.err = "ok" => /\ x.pc = "return"
                             /\ Spans(firstSeen, lastUpdateAt, x, x.firstRes, x.lastRes, x.want)
      BY DEF IntervalInv
    <2>3. w \in waiters => y = Notified(x, seen, c)
      BY <1>1
    <2>4. w \notin waiters => y = x
      BY <1>1
    <2> HIDE DEF x, y
    <2>5. /\ y.pc = x.pc /\ y.want = x.want /\ y.onlyAfter = x.onlyAfter /\ y.err = x.err
          /\ y.firstRes = x.firstRes /\ y.lastRes = x.lastRes
      BY <2>1, <2>3, <2>4, NotifiedKeeps
    <2>6. y.err = "ok" => Spans(seen, c.ts, y, y.firstRes, y.lastRes, y.want)
      BY <1>2, <1>3, <1>4, <2>1, <2>2, <2>5, SpansLater
    <2>7. y.pc \in {"select", "collect"} =>
            Spans(seen, c.ts, y, y.first, y.last, y.want \ y.pending)
      <3> HAVE y.pc \in {"select", "collect"}
      <3>1. Spans(firstSeen, lastUpdateAt, x, x.first, x.last, x.want \ x.pending)
        BY <2>2, <2>5
      <3>2. CASE w \in waiters
        BY <1>2, <1>3, <1>4, <1>5, <1>6, <2>1, <2>3, <3>1, <3>2, NotifiedSpans
      <3>3. CASE w \notin waiters
        <4>1. x.want \ x.pending \in SUBSET Prefix
          BY <2>1
        <4>2. Spans(seen, c.ts, x, x.first, x.last, x.want \ x.pending)
          BY <1>2, <1>3, <1>4, <2>1, <3>1, <4>1, SpansLater
        <4> QED
          BY <2>4, <3>3, <4>2
      <3> QED
        BY <3>2, <3>3
    <2> QED
      BY <2>2, <2>5, <2>6, <2>7 DEF y
  <1> QED
    BY <1>1, <1>7 DEF IntervalInv

(* A call starts with the interval of the prefixes already matched.        *)
LEMMA NewWaiterSpans ==
    ASSUME TypeOK, ClockInv, NEW want \in SUBSET Prefix, NEW after \in Stamp
    PROVE  LET n == NewWaiter(want, after)
           IN  Spans(firstSeen, lastUpdateAt, n, n.first, n.last, n.want \ n.pending)
  <1> DEFINE n       == NewWaiter(want, after)
             matched == {p \in want : Matches(p, after)}
             seen    == {firstSeen[p] : p \in matched}
  <1>1. n.want = want /\ n.onlyAfter = after /\ n.want \ n.pending = matched
    BY NewWaiterKeeps
  <1>2. n.first = Earliest(seen) /\ n.last = Latest(seen)
    <2>1. n = [NoCall EXCEPT !.pc = "select", !.want = want, !.onlyAfter = after,
                             !.pending = want \ matched,
                             !.first = Earliest(seen), !.last = Latest(seen),
                             !.done = matched = want \/ failedErr # None]
      BY DEF NewWaiter
    <2> HIDE DEF n, matched, seen
    <2> QED
      BY <2>1 DEF NoCall
  <1>3. \A p \in matched : /\ p \in want /\ p \in Prefix
                           /\ firstSeen[p] # 0 /\ firstSeen[p] >= after
                           /\ firstSeen[p] <= lastUpdateAt
    BY DEF Matches, Counts, ClockInv
  <1>4. seen \in SUBSET Stamp /\ lastUpdateAt \in Stamp
    BY DEF TypeOK
  <1>5. /\ Earliest(seen) # 0 => Earliest(seen) \in seen
        /\ \A x \in seen : x # 0 => Earliest(seen) # 0 /\ Earliest(seen) <= x
        /\ Latest(seen) \in Stamp
        /\ seen # {} => Latest(seen) \in seen
        /\ \A x \in seen : x <= Latest(seen)
    <2> HIDE DEF seen
    <2> QED
      BY <1>4, EarliestResult, LatestResult
  <1> HIDE DEF n, matched
  <1>6. n.first # 0 => \E p \in n.want : firstSeen[p] = n.first /\ n.first >= n.onlyAfter
    BY <1>1, <1>2, <1>3, <1>5
  <1>7. \A p \in matched : /\ firstSeen[p] # 0 /\ n.first # 0
                           /\ n.first <= firstSeen[p] /\ firstSeen[p] <= n.last
    BY <1>2, <1>3, <1>5
  <1>8. n.last <= lastUpdateAt
    <2>1. CASE seen = {}
      <3>1. n.last = 0
        BY <1>2, <2>1 DEF Latest
      <3> QED
        BY <1>4, <3>1, BoundsAssumption DEF Stamp
    <2>2. CASE seen # {}
      BY <1>2, <1>3, <1>5, <2>2
    <2> QED
      BY <2>1, <2>2
  <1> QED
    BY <1>1, <1>6, <1>7, <1>8 DEF Spans, n

(* One call's steps, and the failure that releases it.                     *)
LEMMA CallKeepsIntervals ==
    ASSUME TypeOK, ClockInv, IntervalInv, UNCHANGED <<firstSeen, lastUpdateAt>>,
           \/ \E l \in Loops : Fail(l)
           \/ \E w \in Waiter : \/ RegisterWaiter(w) \/ Select(w) \/ TimerFires(w)
                                \/ Collect(w) \/ DeregisterWaiter(w)
    PROVE  IntervalInv'
  <1> DEFINE Right(x) ==
        /\ x.pc # "idle" => x.want # {}
        /\ x.pc \in {"select", "collect"} =>
             /\ x.err = None
             /\ Spans(firstSeen, lastUpdateAt, x, x.first, x.last, x.want \ x.pending)
        /\ x.err = "ok" =>
             /\ x.pc = "return"
             /\ Spans(firstSeen, lastUpdateAt, x, x.firstRes, x.lastRes, x.want)
  <1>1. \A v \in Waiter : waiter[v] \in WaiterType /\ Right(waiter[v])
    BY DEF TypeOK, IntervalInv
  <1>2. ASSUME NEW x, NEW y, Right(x), y.pc \in {x.pc, "collect"},
               y.pc = "collect" => x.pc \in {"select", "collect"},
               y.err = x.err, y.want = x.want, y.onlyAfter = x.onlyAfter,
               y.pending = x.pending, y.first = x.first, y.last = x.last,
               y.firstRes = x.firstRes, y.lastRes = x.lastRes,
               x.pc # y.pc => x.err # "ok"
        PROVE  Right(y)
    BY <1>2 DEF Spans
  <1>3. ASSUME NEW l \in Loops, Fail(l), NEW v \in Waiter
        PROVE  Right(waiter'[v])
    <2> DEFINE x == waiter[v]
               y == waiter'[v]
    <2>1. y = IF v \in waiters THEN [x EXCEPT !.done = TRUE] ELSE x
      BY <1>3 DEF Fail, MarkDone
    <2>2. x \in WaiterType /\ Right(x)
      BY <1>1
    <2> HIDE DEF x, y, Right
    <2>3. /\ y.pc = x.pc /\ y.err = x.err /\ y.want = x.want /\ y.onlyAfter = x.onlyAfter
          /\ y.pending = x.pending /\ y.first = x.first /\ y.last = x.last
          /\ y.firstRes = x.firstRes /\ y.lastRes = x.lastRes
      BY <2>1, <2>2 DEF WaiterType
    <2>4. y.pc = "collect" => x.pc \in {"select", "collect"}
      BY <2>3
    <2>5. Right(y)
      BY <1>2, <2>2, <2>3, <2>4
    <2> QED
      BY <2>5 DEF y
  <1>4. ASSUME NEW w \in Waiter,
               RegisterWaiter(w) \/ Select(w) \/ TimerFires(w) \/ Collect(w) \/ DeregisterWaiter(w)
        PROVE  Right(waiter'[w]) /\ \A v \in Waiter \ {w} : waiter'[v] = waiter[v]
    <2> DEFINE x == waiter[w]
               y == waiter'[w]
    <2>1. \A v \in Waiter \ {w} : waiter'[v] = waiter[v]
      BY <1>4 DEF RegisterWaiter, Select, TimerFires, Collect, DeregisterWaiter, TypeOK
    <2>2. x \in WaiterType /\ Right(x)
      BY <1>1
    <2>3. CASE RegisterWaiter(w)
      <3>1. PICK want \in (SUBSET Prefix) \ {{}}, after \in 0 .. now : y = NewWaiter(want, after)
        BY <2>3 DEF RegisterWaiter, TypeOK
      <3>2. want \in SUBSET Prefix /\ want # {} /\ after \in Stamp
        BY BoundsAssumption DEF TypeOK, Stamp
      <3> HIDE DEF x, y, Right
      <3>3. /\ NewWaiter(want, after).pc = "select" /\ NewWaiter(want, after).want = want
            /\ NewWaiter(want, after).err = None
        BY <3>2, NewWaiterTyped
      <3>5. Spans(firstSeen, lastUpdateAt, y, y.first, y.last, y.want \ y.pending)
        BY <3>1, <3>2, NewWaiterSpans
      <3>6. Right(y)
        BY <3>1, <3>2, <3>3, <3>5 DEF None, Right
      <3> HIDE DEF Right
      <3> QED
        BY <2>1, <3>6 DEF y
    <2>4. CASE Select(w) \/ TimerFires(w)
      <3>1. /\ x.pc = "select"
            /\ \/ y = [x EXCEPT !.pc = "collect"]
               \/ y = [x EXCEPT !.pc = "collect", !.timer = TRUE]
        BY <2>4 DEF Select, TimerFires, TypeOK
      <3>2. x.err # "ok"
        BY <2>2, <3>1
      <3> HIDE DEF x, y, Right
      <3>3. /\ y.pc = "collect" /\ y.err = x.err /\ y.want = x.want /\ y.onlyAfter = x.onlyAfter
            /\ y.pending = x.pending /\ y.first = x.first /\ y.last = x.last
            /\ y.firstRes = x.firstRes /\ y.lastRes = x.lastRes
        BY <2>2, <3>1 DEF WaiterType
      <3>4. Right(y)
        BY <1>2, <2>2, <3>1, <3>2, <3>3
      <3> QED
        BY <2>1, <3>4 DEF y
    <2>5. CASE Collect(w)
      <3> DEFINE res == IF x.pending = {} THEN "ok"
                        ELSE IF failedErr # None THEN "down" ELSE "timeout"
      <3>1. /\ x.pc = "collect"
            /\ y = [x EXCEPT !.pc = "return", !.missing = x.pending, !.firstRes = x.first,
                             !.lastRes = x.last, !.err = res]
        BY <2>5 DEF Collect, TypeOK
      <3>2. /\ x.want # {}
            /\ Spans(firstSeen, lastUpdateAt, x, x.first, x.last, x.want \ x.pending)
        BY <2>2, <3>1
      <3>3. res = "ok" <=> x.pending = {}
        OBVIOUS
      <3> HIDE DEF x, y, res
      <3>4. /\ y.pc = "return" /\ y.want = x.want /\ y.onlyAfter = x.onlyAfter
            /\ y.firstRes = x.first /\ y.lastRes = x.last /\ y.err = res
        BY <2>2, <3>1 DEF WaiterType
      <3>5. y.err = "ok" => Spans(firstSeen, lastUpdateAt, y, y.firstRes, y.lastRes, y.want)
        BY <3>2, <3>3, <3>4 DEF Spans
      <3>6. Right(y)
        BY <3>2, <3>4, <3>5
      <3> HIDE DEF Right
      <3> QED
        BY <2>1, <3>6 DEF y
    <2>6. CASE DeregisterWaiter(w)
      <3>1. y = NoCall
        BY <2>6 DEF DeregisterWaiter, TypeOK
      <3>2. y.pc = "idle" /\ y.err = None
        BY <3>1 DEF NoCall
      <3> HIDE DEF y
      <3>3. Right(y)
        BY <3>2 DEF None
      <3> HIDE DEF Right
      <3> QED
        BY <2>1, <3>3 DEF y
    <2> QED
      BY <1>4, <2>3, <2>4, <2>5, <2>6
  <1> HIDE DEF Right
  <1>5. \A v \in Waiter : Right(waiter'[v])
    BY <1>1, <1>3, <1>4
  <1> QED
    BY <1>5 DEF Right, IntervalInv

(* Together, and the actions that touch none of it.                        *)
LEMMA IntervalStep == TypeOK /\ ClockInv /\ IntervalInv /\ [Next]_vars => IntervalInv'
  <1> SUFFICES ASSUME TypeOK, ClockInv, IntervalInv, [Next]_vars PROVE IntervalInv'
    OBVIOUS
  <1>1. CASE UNCHANGED <<firstSeen, lastUpdateAt, waiter>>
    BY <1>1 DEF IntervalInv
  <1>2. \/ UNCHANGED <<firstSeen, lastUpdateAt, waiter>>
        \/ ApplyUpdate
        \/ /\ UNCHANGED <<firstSeen, lastUpdateAt>>
           /\ \/ \E l \in Loops : Fail(l)
              \/ \E w \in Waiter : \/ RegisterWaiter(w) \/ Select(w) \/ TimerFires(w)
                                   \/ Collect(w) \/ DeregisterWaiter(w)
    <2>1. CASE \E w \in Waiter : \/ RegisterWaiter(w) \/ Select(w) \/ TimerFires(w)
                                 \/ Collect(w) \/ DeregisterWaiter(w)
      BY <2>1 DEF RegisterWaiter, Select, TimerFires, Collect, DeregisterWaiter,
                  setVars, routeVars
    <2>2. CASE \E l \in Loops : Fail(l)
      BY <2>2 DEF Fail, routeVars
    <2> QED
      BY <2>1, <2>2
      DEF Next, vars, setVars, routeVars, waitVars, Tick, ReadMessage, ApplyRouteRefresh,
          Close, CloseReturns, FailBegins, LoopReturns, CheckRefresh, RegisterRefreshWaiter,
          SelectRefresh, RefreshTimerFires, CollectRefresh, DeregisterRefreshWaiter
  <1> QED
    BY <1>1, <1>2, ApplyUpdateKeepsIntervals, CallKeepsIntervals

(* No call is in progress at first.                                        *)
LEMMA IntervalInit == Init => IntervalInv
  BY DEF Init, IntervalInv, NoCall, None

(* The interval a successful call reports follows from the invariant.      *)
LEMMA IntervalMeasured == TypeOK /\ IntervalInv => MeasuredInterval
  <1> SUFFICES ASSUME TypeOK, IntervalInv, NEW w \in Waiter, waiter[w].err = "ok"
               PROVE  LET x == waiter[w]
                      IN  /\ x.firstRes = Earliest({firstSeen[p] : p \in x.want})
                          /\ x.firstRes >= x.onlyAfter
                          /\ x.lastRes >= Latest({firstSeen[p] : p \in x.want})
                          /\ x.lastRes <= lastUpdateAt
    BY DEF MeasuredInterval
  <1> DEFINE x == waiter[w]
             S == {firstSeen[p] : p \in x.want}
  <1>1. x.want # {} /\ Spans(firstSeen, lastUpdateAt, x, x.firstRes, x.lastRes, x.want)
    BY DEF IntervalInv
  <1>2. x \in WaiterType
    BY DEF TypeOK
  <1> HIDE DEF x
  <1>3. x.firstRes \in Stamp /\ x.lastRes \in Stamp /\ x.want \subseteq Prefix
    BY <1>2 DEF WaiterType
  <1>4. S # {} /\ S \in SUBSET Stamp
    BY <1>1, <1>3 DEF TypeOK
  <1>5. /\ x.firstRes # 0 /\ x.firstRes \in S /\ x.firstRes >= x.onlyAfter
        /\ \A s \in S : s # 0 /\ x.firstRes <= s /\ s <= x.lastRes
        /\ x.lastRes <= lastUpdateAt
    BY <1>1 DEF Spans
  <1> HIDE DEF S
  <1>6. /\ Earliest(S) # 0 /\ Earliest(S) \in S /\ Earliest(S) <= x.firstRes
    BY <1>4, <1>5, EarliestResult
  <1>7. x.firstRes = Earliest(S)
    <2>1. x.firstRes \in Int /\ Earliest(S) \in Int
      <3>1. x.firstRes \in Stamp /\ Earliest(S) \in Stamp
        BY <1>4, <1>5, <1>6
      <3> QED
        BY <3>1, BoundsAssumption DEF Stamp
    <2>2. x.firstRes <= Earliest(S)
      BY <1>5, <1>6
    <2> QED
      BY <1>6, <2>1, <2>2
  <1>8. Latest(S) \in S
    BY <1>4, LatestResult
  <1>9. Latest(S) <= x.lastRes
    BY <1>5, <1>8
  <1>10. x.lastRes >= Latest(S)
    BY <1>3, <1>4, <1>8, <1>9, BoundsAssumption DEF Stamp
  <1> QED
    BY <1>5, <1>7, <1>10 DEF S, x

(* An EoRR moves lastEoRR forward and serves the listed callers of its     *)
(* family whose cutoff it does not predate.                                *)
LEMMA RouteRefreshKeepsRefreshes ==
    ASSUME TypeOK, ClockInv, RefreshInv, ApplyRouteRefresh
    PROVE  RefreshInv'
  <1> DEFINE c == Head(inHand)
             served == {r \in refreshWaiters : Serves(c, refreshWaiter[r])}
  <1>1. inHand # <<>> /\ inHand \in Seq(Calls) /\ c = inHand[1] /\ 1 \in 1 .. Len(inHand)
    <2>1. inHand # <<>> /\ inHand \in Seq(Calls)
      BY DEF ApplyRouteRefresh, TypeOK, Calls
    <2> QED
      BY <2>1
  <1>2. c.ts \in Stamp /\ c.ts # 0 /\ \A f \in Family : lastEoRR[f] <= c.ts
    <2>1. c \in Calls
      BY <1>1
    <2> QED
      BY <1>1, <2>1, BoundsAssumption DEF ClockInv, Calls, UpdateCall, RefreshCall, Stamp
  <1>3. refreshWaiters' = refreshWaiters /\ refreshWaiters \subseteq RefreshWaiter
        /\ failedErr' = failedErr
    BY DEF ApplyRouteRefresh, TypeOK
  <1>4. CASE UNCHANGED <<lastEoRR, refreshWaiter>>
    BY <1>3, <1>4 DEF RefreshInv, RefreshCutoff, HadEoRR
  <1>5. CASE /\ lastEoRR' = [lastEoRR EXCEPT ![c.family] = c.ts]
             /\ refreshWaiter' = [r \in RefreshWaiter |->
                                    IF r \in served
                                    THEN [refreshWaiter[r] EXCEPT !.ts = c.ts, !.done = TRUE]
                                    ELSE refreshWaiter[r]]
    <2>1. ASSUME NEW r \in RefreshWaiter
          PROVE  /\ refreshWaiter[r] \in RefreshWaiterType
                 /\ refreshWaiter'[r].pc = refreshWaiter[r].pc
                 /\ refreshWaiter'[r].family = refreshWaiter[r].family
                 /\ refreshWaiter'[r].after = refreshWaiter[r].after
                 /\ refreshWaiter'[r].err = refreshWaiter[r].err
                 /\ refreshWaiter'[r].tsRes = refreshWaiter[r].tsRes
                 /\ r \in served => refreshWaiter'[r].ts = c.ts /\ refreshWaiter'[r].done
                 /\ r \notin served => refreshWaiter'[r] = refreshWaiter[r]
      <3>1. refreshWaiter[r] \in RefreshWaiterType
        BY DEF TypeOK
      <3> HIDE DEF c, served
      <3> QED
        BY <1>5, <3>1 DEF RefreshWaiterType
    <2>2. \A f \in Family : /\ lastEoRR[f] <= lastEoRR'[f]
                            /\ lastEoRR[f] \in Stamp /\ lastEoRR'[f] \in Stamp
                            /\ lastEoRR'[f] = IF f = c.family THEN c.ts ELSE lastEoRR[f]
      <3>1. lastEoRR \in [Family -> Stamp]
        BY DEF TypeOK
      <3> HIDE DEF c
      <3>2. \A f \in Family : lastEoRR'[f] = IF f = c.family THEN c.ts ELSE lastEoRR[f]
        BY <1>5, <3>1
      <3>3. \A f \in Family : lastEoRR[f] \in Stamp /\ lastEoRR[f] <= lastEoRR[f]
        BY <3>1, BoundsAssumption DEF Stamp
      <3> QED
        BY <1>2, <3>2, <3>3
    <2>3. \A r \in served : /\ r \in refreshWaiters
                            /\ refreshWaiter[r].family = c.family
                            /\ c.ts >= refreshWaiter[r].after
      BY DEF Serves
    <2>4. \A r \in refreshWaiters : /\ refreshWaiter[r].family = c.family
                                    /\ c.ts >= refreshWaiter[r].after
                                    => r \in served
      BY DEF Serves
    <2> HIDE DEF c, served
    <2>5. \A r \in RefreshWaiter :
            /\ refreshWaiter[r].family \in Family /\ refreshWaiter[r].ts \in Stamp
            /\ refreshWaiter[r].tsRes \in Stamp /\ refreshWaiter[r].after \in Stamp
      BY <2>1 DEF RefreshWaiterType
    <2>6. RefreshCutoff'
      BY <2>1, <2>2, <2>5 DEF RefreshInv, RefreshCutoff, Stamp
    <2>7. \A r \in refreshWaiters' : refreshWaiter'[r].pc \notin {"idle", "checked"}
      BY <1>3, <2>1 DEF RefreshInv
    <2>8. ASSUME NEW r \in RefreshWaiter, refreshWaiter'[r].pc = "select", ~refreshWaiter'[r].done
          PROVE  /\ r \in refreshWaiters' /\ failedErr' = None
                 /\ ~HadEoRR(refreshWaiter[r].family, refreshWaiter[r].after)'
      <3>1. r \notin served /\ refreshWaiter'[r] = refreshWaiter[r]
        BY <2>1, <2>8
      <3>2. /\ r \in refreshWaiters /\ failedErr = None
            /\ ~HadEoRR(refreshWaiter[r].family, refreshWaiter[r].after)
        BY <2>8, <3>1 DEF RefreshInv
      <3>3. CASE refreshWaiter[r].family = c.family
        BY <1>3, <2>2, <2>4, <2>5, <3>1, <3>2, <3>3 DEF HadEoRR
      <3>4. CASE refreshWaiter[r].family # c.family
        BY <1>3, <2>2, <2>5, <3>1, <3>2, <3>4 DEF HadEoRR
      <3> QED
        BY <3>3, <3>4
    <2>9. ASSUME NEW r \in RefreshWaiter, refreshWaiter'[r].ts # 0
          PROVE  /\ refreshWaiter'[r].ts >= refreshWaiter'[r].after
                 /\ refreshWaiter'[r].ts <= lastEoRR'[refreshWaiter'[r].family]
      <3>1. CASE r \in served
        BY <1>2, <2>1, <2>2, <2>3, <2>5, <3>1 DEF Stamp
      <3>2. CASE r \notin served
        BY <2>1, <2>2, <2>5, <2>9, <3>2 DEF RefreshInv, Stamp
      <3> QED
        BY <3>1, <3>2
    <2> QED
      BY <2>1, <2>6, <2>7, <2>8, <2>9 DEF RefreshInv
  <1> QED
    BY <1>4, <1>5 DEF ApplyRouteRefresh

(* fail releases every listed caller.                                      *)
LEMMA FailKeepsRefreshes ==
    ASSUME TypeOK, RefreshInv, NEW l \in Loops, Fail(l)
    PROVE  RefreshInv'
  <1>1. refreshWaiters' = refreshWaiters /\ refreshWaiters \subseteq RefreshWaiter
        /\ lastEoRR' = lastEoRR
    BY DEF Fail, TypeOK
  <1>2. ASSUME NEW r \in RefreshWaiter
        PROVE  /\ refreshWaiter'[r].pc = refreshWaiter[r].pc
               /\ refreshWaiter'[r].family = refreshWaiter[r].family
               /\ refreshWaiter'[r].after = refreshWaiter[r].after
               /\ refreshWaiter'[r].ts = refreshWaiter[r].ts
               /\ refreshWaiter'[r].err = refreshWaiter[r].err
               /\ refreshWaiter'[r].tsRes = refreshWaiter[r].tsRes
               /\ refreshWaiter'[r].done = (refreshWaiter[r].done \/ r \in refreshWaiters)
    <2>1. refreshWaiter[r] \in RefreshWaiterType
      BY DEF TypeOK
    <2>2. refreshWaiter'[r] = IF r \in refreshWaiters
                              THEN [refreshWaiter[r] EXCEPT !.done = TRUE] ELSE refreshWaiter[r]
      BY DEF Fail, MarkDone
    <2> QED
      BY <2>1, <2>2 DEF RefreshWaiterType
  <1>3. RefreshCutoff'
    BY <1>1, <1>2 DEF RefreshInv, RefreshCutoff
  <1>4. \A r \in refreshWaiters' : refreshWaiter'[r].pc \notin {"idle", "checked"}
    BY <1>1, <1>2 DEF RefreshInv
  <1>5. \A r \in RefreshWaiter : refreshWaiter'[r].pc = "select" => refreshWaiter'[r].done
    BY <1>2 DEF RefreshInv
  <1> QED
    BY <1>1, <1>2, <1>3, <1>4, <1>5 DEF RefreshInv

(* The steps of one call of WaitForRouteRefreshEnd.                        *)
RefreshSteps(r) ==
    \/ CheckRefresh(r) \/ RegisterRefreshWaiter(r) \/ SelectRefresh(r)
    \/ RefreshTimerFires(r) \/ CollectRefresh(r) \/ DeregisterRefreshWaiter(r)

(* A call is listed with what the table holds then, and reports only what  *)
(* it was served.                                                          *)
LEMMA CallKeepsRefreshes ==
    ASSUME TypeOK, RefreshInv, NEW r \in RefreshWaiter, RefreshSteps(r)
    PROVE  RefreshInv'
  <1>1. UNCHANGED <<lastEoRR, failedErr>> /\ refreshWaiters \subseteq RefreshWaiter
    BY DEF RefreshSteps, CheckRefresh, RegisterRefreshWaiter, SelectRefresh, RefreshTimerFires,
           CollectRefresh, DeregisterRefreshWaiter, setVars, TypeOK
  <1>2. \A q \in RefreshWaiter \ {r} : refreshWaiter'[q] = refreshWaiter[q]
    BY DEF RefreshSteps, CheckRefresh, RegisterRefreshWaiter, SelectRefresh, RefreshTimerFires,
           CollectRefresh, DeregisterRefreshWaiter, TypeOK
  <1> DEFINE x == refreshWaiter[r]
             y == refreshWaiter'[r]
  <1>3. x \in RefreshWaiterType
    BY DEF TypeOK
  <1>4. \/ \* it begins or ends
           /\ refreshWaiters' = refreshWaiters \ {r}
           /\ y.pc \in {"idle", "checked"} /\ y.ts = 0 /\ y.err = None
        \/ \* it registers
           /\ x.pc = "checked" /\ y.pc = "select" /\ y.err = x.err /\ y.tsRes = x.tsRes
           /\ y.after = x.after /\ y.family = x.family
           /\ y.ts = IF HadEoRR(x.family, x.after) THEN lastEoRR[x.family] ELSE 0
           /\ y.done = (HadEoRR(x.family, x.after) \/ failedErr # None)
           /\ refreshWaiters' = IF y.done THEN refreshWaiters ELSE refreshWaiters \cup {r}
        \/ \* it leaves its select, or collects
           /\ refreshWaiters' = refreshWaiters
           /\ x.pc \in {"select", "collect"} /\ y.pc \in {"collect", "return"}
           /\ y.after = x.after /\ y.family = x.family /\ y.ts = x.ts
           /\ \/ y.err = x.err /\ y.tsRes = x.tsRes
              \/ y.err = "ok" /\ y.tsRes = x.ts /\ x.ts # 0
              \/ y.err # "ok"
    <2>1. CASE CheckRefresh(r)
      <3>1. r \notin refreshWaiters
        BY <2>1 DEF CheckRefresh, RefreshInv
      <3>2. y.pc = "checked" /\ y.ts = 0 /\ y.err = None
        BY <2>1 DEF CheckRefresh, NoRefreshCall, TypeOK
      <3> QED
        BY <2>1, <3>1, <3>2 DEF CheckRefresh
    <2>2. CASE RegisterRefreshWaiter(r)
      <3>1. x.pc = "checked" /\ y = NewRefreshWaiter(x)
            /\ refreshWaiters' = IF y.done THEN refreshWaiters ELSE refreshWaiters \cup {r}
        BY <2>2 DEF RegisterRefreshWaiter, TypeOK
      <3> HIDE DEF x, y
      <3> QED
        BY <1>3, <3>1, NewRefreshWaiterResult
    <2>3. CASE SelectRefresh(r) \/ RefreshTimerFires(r)
      <3>1. y = [x EXCEPT !.pc = "collect"] /\ refreshWaiters' = refreshWaiters /\ x.pc = "select"
        BY <2>3 DEF SelectRefresh, RefreshTimerFires, TypeOK
      <3> HIDE DEF x, y
      <3> QED
        BY <1>3, <3>1 DEF RefreshWaiterType
    <2>4. CASE CollectRefresh(r)
      <3>1. /\ refreshWaiters' = refreshWaiters /\ x.pc = "collect"
            /\ y = [x EXCEPT !.pc = "return", !.tsRes = x.ts,
                             !.err = IF x.ts # 0 THEN "ok"
                                     ELSE IF failedErr # None THEN "down" ELSE "timeout"]
        BY <2>4 DEF CollectRefresh, TypeOK
      <3> HIDE DEF x, y
      <3>2. /\ y.pc = "return" /\ y.after = x.after /\ y.family = x.family /\ y.ts = x.ts
            /\ y.tsRes = x.ts
            /\ y.err = IF x.ts # 0 THEN "ok"
                       ELSE IF failedErr # None THEN "down" ELSE "timeout"
        BY <1>3, <3>1 DEF RefreshWaiterType
      <3> QED
        BY <3>1, <3>2
    <2>5. CASE DeregisterRefreshWaiter(r)
      BY <2>5 DEF DeregisterRefreshWaiter, NoRefreshCall, TypeOK
    <2> QED
      BY <2>1, <2>2, <2>3, <2>4, <2>5 DEF RefreshSteps
  <1>5. lastEoRR \in [Family -> Stamp] /\ x.family \in Family /\ x.after \in Stamp
    BY <1>3 DEF TypeOK, RefreshWaiterType
  <1>6. HadEoRR(x.family, x.after) <=> lastEoRR[x.family] # 0 /\ lastEoRR[x.family] >= x.after
    BY DEF HadEoRR
  <1>7. /\ x.err = "ok" => x.tsRes # 0 /\ x.tsRes >= x.after /\ x.tsRes <= lastEoRR[x.family]
        /\ x.ts # 0 => x.ts >= x.after /\ x.ts <= lastEoRR[x.family]
        /\ r \in refreshWaiters => x.pc \notin {"idle", "checked"}
    BY DEF RefreshInv, RefreshCutoff
  <1> HIDE DEF x
  <1>8. RefreshCutoff'
    <2>1. y.err = "ok" => y.tsRes # 0 /\ y.tsRes >= y.after /\ y.tsRes <= lastEoRR[y.family]
      <3> HIDE DEF y
      <3> QED
        BY <1>4, <1>7 DEF None
    <2> QED
      BY <1>1, <1>2, <2>1 DEF RefreshInv, RefreshCutoff
  <1>9. \A q \in refreshWaiters' : refreshWaiter'[q].pc \notin {"idle", "checked"}
    <2>1. r \in refreshWaiters' => y.pc \notin {"idle", "checked"}
      <3> HIDE DEF y
      <3> QED
        BY <1>4
    <2>2. \A q \in refreshWaiters' : q # r => q \in refreshWaiters
      <3> HIDE DEF y
      <3> QED
        BY <1>4
    <2> QED
      BY <1>1, <1>2, <2>1, <2>2 DEF RefreshInv
  <1>10. ASSUME NEW q \in RefreshWaiter
         PROVE  LET z == refreshWaiter'[q]
                IN  /\ z.pc = "select" /\ ~z.done =>
                         /\ q \in refreshWaiters' /\ failedErr' = None
                         /\ lastEoRR'[z.family] = 0 \/ ~(lastEoRR'[z.family] >= z.after)
                    /\ z.ts # 0 => z.ts >= z.after /\ z.ts <= lastEoRR'[z.family]
    <2>1. CASE q # r
      <3>1. q \in refreshWaiters => q \in refreshWaiters'
        <4> HIDE DEF y
        <4> QED
          BY <1>4, <2>1
      <3> QED
        BY <1>1, <1>2, <2>1, <3>1 DEF RefreshInv, HadEoRR
    <2>2. CASE q = r
      <3> HIDE DEF y
      <3>1. /\ y.pc = "select" /\ ~y.done =>
                 /\ r \in refreshWaiters' /\ failedErr = None
                 /\ lastEoRR[y.family] = 0 \/ ~(lastEoRR[y.family] >= y.after)
            /\ y.ts # 0 => y.ts >= y.after /\ y.ts <= lastEoRR[y.family]
        <4>1. CASE x.pc = "checked" /\ y.pc = "select"
          <5>1. /\ y.after = x.after /\ y.family = x.family
                /\ y.ts = IF HadEoRR(x.family, x.after) THEN lastEoRR[x.family] ELSE 0
                /\ y.done = (HadEoRR(x.family, x.after) \/ failedErr # None)
                /\ refreshWaiters' = IF y.done THEN refreshWaiters ELSE refreshWaiters \cup {r}
            BY <1>4, <4>1
          <5>2. lastEoRR[x.family] \in Int
            BY <1>5, BoundsAssumption DEF Stamp
          <5>3. ~y.done => /\ r \in refreshWaiters' /\ failedErr = None
                           /\ ~HadEoRR(x.family, x.after)
            BY <5>1
          <5>4. y.ts # 0 => HadEoRR(x.family, x.after) /\ y.ts = lastEoRR[x.family]
            BY <5>1
          <5>5. y.ts # 0 => y.ts >= y.after /\ y.ts <= lastEoRR[y.family]
            BY <1>5, <1>6, <5>1, <5>2, <5>4, BoundsAssumption DEF Stamp
          <5> QED
            BY <1>6, <5>1, <5>3, <5>5
        <4>2. CASE ~(x.pc = "checked" /\ y.pc = "select")
          BY <1>4, <1>7, <4>2
        <4> QED
          BY <4>1, <4>2
      <3> QED
        BY <1>1, <2>2, <3>1 DEF y
    <2> QED
      BY <2>1, <2>2
  <1> QED
    BY <1>8, <1>9, <1>10 DEF RefreshInv, HadEoRR

(* Together, and the actions that touch none of it.                        *)
LEMMA RefreshStep == TypeOK /\ ClockInv /\ RefreshInv /\ [Next]_vars => RefreshInv'
  <1> SUFFICES ASSUME TypeOK, ClockInv, RefreshInv, [Next]_vars PROVE RefreshInv'
    OBVIOUS
  <1>1. CASE UNCHANGED <<lastEoRR, failedErr, refreshWaiters, refreshWaiter>>
    BY <1>1 DEF RefreshInv, RefreshCutoff, HadEoRR
  <1>2. \/ UNCHANGED <<lastEoRR, failedErr, refreshWaiters, refreshWaiter>>
        \/ ApplyRouteRefresh
        \/ \E l \in Loops : Fail(l)
        \/ \E r \in RefreshWaiter : RefreshSteps(r)
    BY DEF Next, vars, setVars, refreshVars, Tick, ReadMessage, ApplyUpdate, Close, CloseReturns,
           FailBegins, LoopReturns, RegisterWaiter, Select, TimerFires, Collect,
           DeregisterWaiter, RefreshSteps
  <1> QED
    BY <1>1, <1>2, RouteRefreshKeepsRefreshes, FailKeepsRefreshes, CallKeepsRefreshes

(* No refresh call is in progress at first.                                *)
LEMMA RefreshInit == Init => RefreshInv
  BY DEF Init, RefreshInv, RefreshCutoff, NoRefreshCall, None

(* Keys come into a table only with as many counts as there are of them.   *)
LEMMA UnionIsCounted ==
    ASSUME NEW S \in SUBSET Prefix, NEW T \in SUBSET Prefix, NEW U \in SUBSET (S \cup T),
           NEW n \in Nat, Cardinality(S) <= n
    PROVE  Cardinality(U) <= n + Cardinality(T) /\ Cardinality(T) \in Nat
  <1>1. IsFiniteSet(S) /\ IsFiniteSet(T) /\ IsFiniteSet(S \cap T)
    BY FiniteAssumption, FS_Subset
  <1>2. /\ IsFiniteSet(S \cup T)
        /\ Cardinality(S \cup T) = Cardinality(S) + Cardinality(T) - Cardinality(S \cap T)
    BY <1>1, FS_Union
  <1>3. IsFiniteSet(U) /\ Cardinality(U) <= Cardinality(S \cup T)
    BY <1>2, FS_Subset
  <1>4. /\ Cardinality(S) \in Nat /\ Cardinality(T) \in Nat /\ Cardinality(S \cap T) \in Nat
        /\ Cardinality(U) \in Nat
    BY <1>1, <1>3, FS_CardinalityType
  <1> QED
    BY <1>2, <1>3, <1>4

(* An UPDATE is counted with all its keys, whether they are new or not.    *)
LEMMA ApplyUpdateKeepsStats ==
    ASSUME TypeOK, StatsInv, ApplyUpdate
    PROVE  StatsInv'
  <1>1. PICK c \in UpdateCall :
          /\ c = Head(inHand)
          /\ firstSeen' = [p \in Prefix |-> IF p \in c.reach /\ firstSeen[p] = 0
                                            THEN c.ts ELSE firstSeen[p]]
          /\ withdrawn' = (withdrawn \ c.reach) \cup c.unreach
    BY ApplyUpdateResult DEF ApplyUpdate
  <1>2. /\ counts' = CountUpdate(c)
        /\ firstUpdate' = IF firstUpdate = 0 THEN c.ts ELSE firstUpdate
        /\ UNCHANGED <<enhanced, lastEoRR>>
    BY <1>1 DEF ApplyUpdate, sessionVars
  <1>3. c.reach \subseteq Prefix /\ c.unreach \subseteq Prefix /\ c.ts \in 1 .. MaxTime
    BY DEF UpdateCall
  <1> DEFINE a == Cardinality(c.reach)
             d == Cardinality(c.unreach)
  <1>4. a \in Nat /\ d \in Nat
    <2>1. IsFiniteSet(c.reach) /\ IsFiniteSet(c.unreach)
      BY <1>3, FiniteAssumption, FS_Subset
    <2> QED
      BY <2>1, FS_CardinalityType
  <1>5. counts \in [Counter -> Nat]
    BY DEF TypeOK
  <1>6. /\ counts'["updates"] = counts["updates"] + 1
        /\ counts'["advertised"] = counts["advertised"] + a
        /\ counts'["withdrawn"] = counts["withdrawn"] + d
        /\ counts'["eorr"] = counts["eorr"] /\ counts'["borr"] = counts["borr"]
    <2>1. counts' = [counts EXCEPT !["updates"] = @ + 1, !["advertised"] = @ + a, !["withdrawn"] = @ + d]
      BY <1>2 DEF CountUpdate
    <2> HIDE DEF a, d
    <2> QED
      BY <1>5, <2>1 DEF Counter
  <1>7. Cardinality(Seen') <= counts["advertised"] + a
    <2>1. Seen' \subseteq Seen \cup c.reach /\ Seen \subseteq Prefix
      BY <1>1 DEF Seen
    <2>2. counts["advertised"] \in Nat /\ Cardinality(Seen) <= counts["advertised"]
      BY <1>5 DEF Counter, StatsInv
    <2> QED
      BY <1>3, <2>1, <2>2, UnionIsCounted
  <1>8. Cardinality(withdrawn') <= counts["withdrawn"] + d
    <2>1. withdrawn' \subseteq withdrawn \cup c.unreach /\ withdrawn \subseteq Prefix
      BY <1>1 DEF TypeOK
    <2>2. counts["withdrawn"] \in Nat /\ Cardinality(withdrawn) <= counts["withdrawn"]
      BY <1>5 DEF Counter, StatsInv
    <2> QED
      BY <1>3, <2>1, <2>2, UnionIsCounted
  <1>9. counts'["updates"] # 0 /\ firstUpdate' # 0
    BY <1>2, <1>3, <1>5, <1>6, BoundsAssumption DEF Counter
  <1> HIDE DEF a, d
  <1> QED
    BY <1>2, <1>6, <1>7, <1>8, <1>9 DEF StatsInv

(* A demarcation is counted apart only where RFC 7313 was negotiated, and  *)
(* an EoRR leaves its time.                                                *)
LEMMA ApplyRouteRefreshKeepsStats ==
    ASSUME TypeOK, StatsInv, ApplyRouteRefresh
    PROVE  StatsInv'
  <1> DEFINE c == Head(inHand)
             k == IF enhanced /\ c.demarcation = "BoRR" THEN "borr"
                  ELSE IF enhanced /\ c.demarcation = "EoRR" THEN "eorr" ELSE "refreshes"
  <1>1. /\ counts' = CountRefresh(c.demarcation)
        /\ UNCHANGED <<enhanced, firstSeen, withdrawn, firstUpdate>>
    BY DEF ApplyRouteRefresh, sessionVars, routeVars
  <1>2. IF enhanced /\ c.demarcation = "EoRR" THEN lastEoRR' = [lastEoRR EXCEPT ![c.family] = c.ts]
        ELSE lastEoRR' = lastEoRR
    BY DEF ApplyRouteRefresh
  <1>3. c \in RefreshCall
    <2>1. inHand # <<>> /\ inHand \in Seq(UpdateCall \cup RefreshCall) /\ c.call = "applyRouteRefresh"
      BY DEF ApplyRouteRefresh, TypeOK
    <2>2. c \in UpdateCall \cup RefreshCall
      BY <2>1
    <2> HIDE DEF c
    <2> QED
      BY <2>1, <2>2 DEF UpdateCall
  <1>4. counts \in [Counter -> Nat] /\ lastEoRR \in [Family -> Stamp]
    BY DEF TypeOK
  <1>5. counts' = [counts EXCEPT ![k] = @ + 1]
    BY <1>1 DEF CountRefresh
  <1>6. c.family \in Family /\ c.ts # 0
    <2> HIDE DEF c
    <2> QED
      BY <1>3, BoundsAssumption DEF RefreshCall
  <1>7. /\ k \in {"borr", "eorr", "refreshes"}
        /\ k = "eorr" <=> enhanced /\ c.demarcation = "EoRR"
        /\ ~enhanced => k = "refreshes"
    OBVIOUS
  <1> HIDE DEF c, k
  <1>8. /\ \A x \in Counter \ {k} : counts'[x] = counts[x]
        /\ counts'[k] = counts[k] + 1 /\ counts[k] \in Nat
    BY <1>4, <1>5, <1>7 DEF Counter
  <1>9. counts'["eorr"] = 0 <=> \A f \in Family : lastEoRR'[f] = 0
    <2>1. CASE k = "eorr"
      <3>1. lastEoRR'[c.family] # 0
        BY <1>2, <1>4, <1>6, <1>7, <2>1
      <3>2. counts'["eorr"] # 0
        BY <1>8, <2>1
      <3> QED
        BY <1>6, <3>1, <3>2
    <2>2. CASE k # "eorr"
      BY <1>2, <1>7, <1>8, <2>2 DEF StatsInv, Counter
    <2> QED
      BY <2>1, <2>2
  <1>10. /\ counts'["advertised"] = counts["advertised"] /\ counts'["withdrawn"] = counts["withdrawn"]
         /\ counts'["updates"] = counts["updates"]
    BY <1>7, <1>8 DEF Counter
  <1>11. ~enhanced' => counts'["borr"] = 0 /\ counts'["eorr"] = 0
    BY <1>1, <1>7, <1>8 DEF StatsInv, Counter
  <1> QED
    BY <1>1, <1>9, <1>10, <1>11 DEF StatsInv, Seen

(* Nothing else counts.                                                    *)
LEMMA StatsStep == TypeOK /\ StatsInv /\ [Next]_vars => StatsInv'
  <1> SUFFICES ASSUME TypeOK, StatsInv, [Next]_vars PROVE StatsInv'
    OBVIOUS
  <1>1. CASE ApplyUpdate
    BY <1>1, ApplyUpdateKeepsStats
  <1>2. CASE ApplyRouteRefresh
    BY <1>2, ApplyRouteRefreshKeepsStats
  <1>3. CASE ~ApplyUpdate /\ ~ApplyRouteRefresh
    <2>1. UNCHANGED <<enhanced, firstSeen, withdrawn, firstUpdate, counts, lastEoRR>>
      BY <1>3 DEF Next, vars, Tick, ReadMessage, Close, CloseReturns, FailBegins, Fail, LoopReturns,
                  RegisterWaiter, Select, TimerFires, Collect, DeregisterWaiter,
                  CheckRefresh, RegisterRefreshWaiter, SelectRefresh, RefreshTimerFires,
                  CollectRefresh, DeregisterRefreshWaiter, sessionVars, setVars, routeVars
    <2> QED
      BY <2>1 DEF StatsInv, Seen
  <1> QED
    BY <1>1, <1>2, <1>3

LEMMA StatsInit == Init => StatsInv
  <1> SUFFICES ASSUME Init PROVE StatsInv
    OBVIOUS
  <1>1. Cardinality(Seen) = 0 /\ Cardinality(withdrawn) = 0
    <2>1. Seen = {} /\ withdrawn = {}
      BY DEF Init, Seen
    <2> QED
      BY <2>1, FS_EmptySet
  <1> QED
    BY <1>1 DEF Init, StatsInv, Counter

(* The clocks of a session that has read nothing.                          *)
LEMMA ClockInit == Init => ClockInv
  <1> SUFFICES ASSUME Init PROVE ClockInv
    OBVIOUS
  <1>1. Len(inHand) = 0
    BY DEF Init
  <1> QED
    BY <1>1 DEF Init, ClockInv

----------------------------------------------------------------------------
\* The theorems.

(* The invariant of the observed set holds in every reachable state.       *)
THEOREM ObservedInvariant == Spec => [](TypeOK /\ ObservedInv)
  <1>1. Init => ObservedInv
    BY ClockInit, WaitInit, IntervalInit, RefreshInit, StatsInit DEF ObservedInv
  <1>2. TypeOK /\ ObservedInv /\ [Next]_vars => ObservedInv'
    BY ClockStep, WaitStep, IntervalStep, RefreshStep, StatsStep DEF ObservedInv
  <1> QED
    BY <1>1, <1>2, TypeInit, TypeStep, PTL DEF Spec

(* The incremental notifications of recv.go agree with a scan of the whole *)
(* table, for every listed waiter.                                         *)
THEOREM PendingIsTheTable == Spec => []PendingMirrorsTable
  <1>1. ObservedInv => PendingMirrorsTable
    BY DEF ObservedInv, WaitInv
  <1> QED
    BY <1>1, ObservedInvariant, PTL

(* No call of WaitForPrefixes that is satisfied, or whose session failed,  *)
(* waits for its timer.                                                    *)
THEOREM WakeupsArrive == Spec => []NoLostWakeup
  <1>1. TypeOK /\ ObservedInv => NoLostWakeup
    BY DEF ObservedInv, WaitInv, NoLostWakeup
  <1> QED
    BY <1>1, ObservedInvariant, PTL

(* No call of WaitForPrefixes is released for any other reason.            *)
THEOREM WakeupsHaveAReason == Spec => []NoSpuriousWakeup
  <1>1. ObservedInv => NoSpuriousWakeup
    BY DEF ObservedInv, WaitInv
  <1> QED
    BY <1>1, ObservedInvariant, PTL

(* The interval a successful WaitForPrefixes reports is the one between    *)
(* the first sightings of its prefixes and the last UPDATE.                *)
THEOREM IntervalIsMeasured == Spec => []MeasuredInterval
  <1>1. TypeOK /\ ObservedInv => MeasuredInterval
    BY IntervalMeasured DEF ObservedInv
  <1> QED
    BY <1>1, ObservedInvariant, PTL

(* The deferred deregistrations leave no waiter behind in either list.     *)
THEOREM WaitersAreReleased == Spec => []NoLeakedWaiter
  <1>1. ObservedInv => NoLeakedWaiter
    BY DEF ObservedInv, WaitInv, RefreshInv, NoLeakedWaiter
  <1> QED
    BY <1>1, ObservedInvariant, PTL

(* Only an EoRR of its family, not older than its cutoff, ends a           *)
(* WaitForRouteRefreshEnd with a result.                                   *)
THEOREM RefreshHonoursCutoff == Spec => []RefreshCutoff
  <1>1. ObservedInv => RefreshCutoff
    BY DEF ObservedInv, RefreshInv
  <1> QED
    BY <1>1, ObservedInvariant, PTL

(* No EoRR and no failure is missed between the check of the session's     *)
(* state and the registration.                                             *)
THEOREM RefreshWakeupsArrive == Spec => []NoLostRefreshWakeup
  <1>1. ObservedInv => NoLostRefreshWakeup
    BY DEF ObservedInv, RefreshInv, NoLostRefreshWakeup, HadEoRR
  <1> QED
    BY <1>1, ObservedInvariant, PTL

(* What Stats returns agrees with the tables (applyUpdate, recv.go:165):   *)
(* first sightings lie between the first and the last UPDATE, and no key   *)
(* is in a table that was not counted.                                     *)
THEOREM StatsAreOfTheTables == Spec => []StatsAgree
  <1>1. ASSUME TypeOK, ObservedInv PROVE StatsAgree
    <2>1. \A p \in Prefix : firstSeen[p] # 0 =>
             firstUpdate <= firstSeen[p] /\ firstSeen[p] <= lastUpdateAt
      BY <1>1 DEF ObservedInv, ClockInv
    <2>2. (counts["updates"] = 0) = (firstUpdate = 0)
      BY <1>1 DEF ObservedInv, StatsInv
    <2>3. (counts["eorr"] = 0) = (\A f \in Family : lastEoRR[f] = 0)
      BY <1>1 DEF ObservedInv, StatsInv
    <2>4. /\ Cardinality({p \in Prefix : firstSeen[p] # 0}) <= counts["advertised"]
          /\ Cardinality(withdrawn) <= counts["withdrawn"]
      BY <1>1 DEF ObservedInv, StatsInv, Seen
    <2>5. ~enhanced => counts["borr"] + counts["eorr"] = 0
      BY <1>1 DEF ObservedInv, StatsInv
    <2> QED
      BY <2>1, <2>2, <2>3, <2>4, <2>5, Zenon DEF StatsAgree
  <1> QED
    BY <1>1, ObservedInvariant, PTL
=============================================================================
