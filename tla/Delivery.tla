------------------------------ MODULE Delivery ------------------------------
(***************************************************************************)
(* A delivery measurement, end to end: the methods of a Peer as bgp.go     *)
(* gives them to scripts.  One virtual user, tx, advertises and withdraws; *)
(* another, rx, waits for what it expects; between them is a speaker that  *)
(* reflects UPDATEs to the sessions it has, as cmd/fakebgpd does.  What a  *)
(* call does inside is the business of SendPath and ObservedSet: here a    *)
(* message is written in one step, and a wait looks at what is recorded    *)
(* once, whenever its timer, or the last route, ends it.                   *)
(*                                                                         *)
(* The metrics are pushed as long as the context of the virtual user is    *)
(* not done.  Every UPDATE is written and read at a time of its own.       *)
(***************************************************************************)
EXTENDS Routes, FiniteSets, FiniteSetsExt

CONSTANTS
    Script,     \* what the two virtual users may do: [families, addPath,
                \* calls, maxCalls, lists]; addPath are the families both
                \* sessions negotiated it for, in both directions; maxCalls
                \* is a bound: calls of advertise and withdraw
    MaxWaits    \* bound: calls of waitForPrefixes

ASSUME ScriptAssumption ==
    \A s \in Script : s.families \subseteq Family /\ s.addPath \subseteq s.families /\ s.maxCalls \in Nat
ASSUME BoundsAssumption == MaxWaits \in Nat

(* The routes of a call are an array; a prefix is what Routes says.        *)
IsArray(a) == a \in Seq({a[i] : i \in DOMAIN a})
IsPrefix(p) == p = [v6 |-> p.v6, net |-> p.net, host |-> p.host]

ASSUME CallAssumption ==
    \A s \in Script : \A c \in s.calls : c.withdraw \in BOOLEAN /\ IsArray(c.routes)

(* parsePrefixList refuses an empty list.                                  *)
ASSUME ListAssumption ==
    \A s \in Script : \A list \in s.lists :
        /\ list # {} /\ IsFiniteSet(list)
        /\ \A e \in list : \A x \in {"string", "prefix", "teid"} \cap DOMAIN e : IsPrefix(e[x])

VARIABLES
    script,     \* the script that is run
    state,      \* of each peer: not opened, Established, Established on a
                \* connection that is gone, or closed
    now,        \* the clock
    ncalls, nwaits,
    send,       \* tx: the call in progress, its next route, its timestamp
    sentAt,     \* tx: sentAtMonoNs of the last call that returned, 0 if none
    wire,       \* UPDATEs between tx and rx
    firstSeen,  \* rx: observedSet.firstSeen
    withdrawn,  \* rx: observedSet.withdrawn
    wait,       \* rx: the last call of waitForPrefixes
    metric,     \* bgp_prefix_sent, bgp_prefix_received
    announced,  \* history: routes of the announcements on the wire
    torn,       \* history: an advertise failed after it had written some
    received    \* history: what rx was sent, route by route

peerVars == <<script, state>>
sendVars == <<ncalls, send, sentAt>>
setVars  == <<firstSeen, withdrawn, received>>
waitVars == <<nwaits, wait>>
countVars == <<metric, announced, torn>>
vars == <<peerVars, now, sendVars, wire, setVars, waitVars, countVars>>

Peers == {"tx", "rx"}
Established(p) == state[p] \in {"up", "broken"}

Idle == [pc |-> "idle"]

Init ==
    /\ script \in Script
    /\ state = [p \in Peers |-> "new"]
    /\ now = 1
    /\ ncalls = 0 /\ send = Idle /\ sentAt = 0
    /\ wire = <<>>
    /\ firstSeen = <<>> /\ withdrawn = {} /\ received = <<>>
    /\ nwaits = 0 /\ wait = Idle
    /\ metric = [sent |-> 0, received |-> 0]
    /\ announced = 0 /\ torn = FALSE

----------------------------------------------------------------------------
\* Sessions.

Busy(p) == IF p = "tx" THEN send.pc = "write" ELSE wait.pc = "wait"

(* A Peer is opened once; it may fail.                                     *)
Open(p) ==
    /\ state[p] = "new"
    /\ \E s \in {"up", "closed"} : state' = [state EXCEPT ![p] = s]
    /\ UNCHANGED <<script, now, sendVars, wire, setVars, waitVars, countVars>>

Close(p) ==
    /\ Established(p)
    /\ ~Busy(p)
    /\ state' = [state EXCEPT ![p] = "closed"]
    /\ UNCHANGED <<script, now, sendVars, wire, setVars, waitVars, countVars>>

(* The connection of tx is lost, with what the speaker has not read of it; *)
(* this makes no difference but to a call that writes, which then fails.   *)
Break ==
    /\ state["tx"] = "up" /\ Busy("tx")
    /\ state' = [state EXCEPT !["tx"] = "broken"]
    /\ \E n \in 0 .. Len(wire) : wire' = SubSeq(wire, 1, n)
    /\ UNCHANGED <<script, now, sendVars, setVars, waitVars, countVars>>

(* fsm.fail: rx, which does not write, notices a loss at once.             *)
Fail(p) ==
    /\ state[p] = IF p = "tx" THEN "broken" ELSE "up"
    /\ state' = [state EXCEPT ![p] = "closed"]
    /\ UNCHANGED <<script, now, sendVars, wire, setVars, waitVars, countVars>>

----------------------------------------------------------------------------
\* advertise and withdraw.

(* A path identifier needs ADD-PATH for the family.                        *)
PathIDsAllowed(c) ==
    c.family \in script.addPath \/ \A i \in DOMAIN c.routes : ~Given(c.routes[i], {"pathId"})

Accepted(c) ==
    /\ ParseAdvertiseArg(c, script.families)
    /\ Established("tx")
    /\ PathIDsAllowed(c)
    /\ Builds(c)

Begin(c) ==
    /\ ~Busy("tx")
    /\ ncalls < script.maxCalls
    /\ ncalls' = ncalls + 1
    /\ send' = IF Accepted(c) THEN [pc |-> "write", call |-> c, next |-> 1, ts |-> 0]
                              ELSE Idle
    /\ UNCHANGED <<peerVars, now, sentAt, wire, setVars, waitVars, countVars>>

\* Mutant: withdrawn routes are counted as sent.
SentByAnyCall(c) == Len(c.routes)

(* recordSent is called by advertise alone, after all has been written.    *)
Recorded(c) == IF c.withdraw THEN 0 ELSE Len(c.routes)

Update(c, last) ==
    [withdraw |-> c.withdraw, family |-> c.family, legacy |-> Legacy(c),
     routes |-> SubSeq(c.routes, send.next, last)]

(* The next UPDATE, of some of the routes that are left; the last one ends *)
(* the call.                                                               *)
Write ==
    /\ Busy("tx") /\ state["tx"] = "up"
    /\ now' = now + 1
    /\ \E last \in send.next .. Len(send.call.routes) :
         LET c     == send.call
             u     == Update(c, last)
             first == IF send.ts = 0 THEN now ELSE send.ts
         IN  /\ wire' = Append(wire, u)
             /\ announced' = announced + (IF c.withdraw THEN 0 ELSE Len(u.routes))
             /\ IF last < Len(c.routes)
                THEN /\ send' = [send EXCEPT !.next = last + 1, !.ts = first]
                     /\ UNCHANGED <<sentAt, metric>>
                ELSE /\ send' = Idle /\ sentAt' = first
                     /\ metric' = [metric EXCEPT !.sent = @ + Recorded(c)]
    /\ UNCHANGED <<peerVars, ncalls, setVars, waitVars, torn>>

(* A chunk cannot be serialized, on whatever connection, or is not written *)
(* because it is gone.                                                     *)
WriteFails ==
    /\ Busy("tx")
    /\ torn' = (torn \/ (send.next > 1 /\ ~send.call.withdraw))
    /\ send' = Idle
    /\ UNCHANGED <<peerVars, now, ncalls, sentAt, wire, setVars, waitVars, metric, announced>>

----------------------------------------------------------------------------
\* The receive side.

(* What dispatchUpdate takes for the family of an UPDATE.                  *)
DispatchFamily(u) == IF u.legacy THEN IPv4Unicast ELSE u.family

Keys(u) == {ReceivedKey(DispatchFamily(u), u.routes[i], script.addPath) : i \in DOMAIN u.routes}

Counts(seen, gone, key, after) ==
    key \in DOMAIN seen /\ key \notin gone /\ seen[key] >= after

(* w.last: the last time a route that counts was seen or refreshed.        *)
Notified(u, seen) ==
    IF ~Busy("rx") \/ u.withdraw THEN wait
    ELSE [wait EXCEPT !.last =
            IF \E key \in Keys(u) \cap wait.want : seen[key] >= wait.after THEN now ELSE @]

(* The speaker reflects an UPDATE to the session of rx, which records it.  *)
Deliver ==
    /\ wire # <<>> /\ state["rx"] = "up"
    /\ now' = now + 1
    /\ LET u    == Head(wire)
           seen == IF u.withdraw THEN firstSeen
                   ELSE [key \in DOMAIN firstSeen \cup Keys(u) |->
                            IF key \in DOMAIN firstSeen THEN firstSeen[key] ELSE now]
       IN  /\ firstSeen' = seen
           /\ withdrawn' = IF u.withdraw THEN withdrawn \cup Keys(u) ELSE withdrawn \ Keys(u)
           /\ wait' = Notified(u, seen)
           /\ received' = received \o [i \in DOMAIN u.routes |->
                [withdraw |-> u.withdraw, family |-> u.family, route |-> u.routes[i], ts |-> now]]
    /\ wire' = Tail(wire)
    /\ UNCHANGED <<peerVars, sendVars, nwaits, countVars>>

(* There is no session to reflect it to.                                   *)
Drop ==
    /\ wire # <<>> /\ state["rx"] # "up"
    /\ wire' = Tail(wire)
    /\ UNCHANGED <<peerVars, now, sendVars, setVars, waitVars, countVars>>

----------------------------------------------------------------------------
\* waitForPrefixes.

(* sentAtMonoNs, from the call of tx, or no cutoff.                        *)
OnlyAfter(anchored) == IF anchored THEN sentAt ELSE 0

(* registerWaiter's reading of what has been recorded already.             *)
LastOf(want, after) ==
    Max({0} \cup {firstSeen[k] : k \in {k \in want : Counts(firstSeen, withdrawn, k, after)}})

BeginWait(list, anchored) ==
    /\ ~Busy("rx")
    /\ nwaits < MaxWaits
    /\ nwaits' = nwaits + 1
    /\ IF state["rx"] # "new" /\ \A e \in list : Awaitable(e)
       THEN LET want == {AwaitedKey(e) : e \in list}
                after == OnlyAfter(anchored)
            IN  wait' = [pc |-> "wait", list |-> list, want |-> want, after |-> after,
                         anchor |-> IF anchored THEN sentAt ELSE 0,
                         last |-> LastOf(want, after)]
       ELSE wait' = [pc |-> "refused", list |-> list, opened |-> state["rx"] # "new"]
    /\ UNCHANGED <<peerVars, now, sendVars, wire, setVars, countVars>>

(* Routes that are missing make it an error, and nothing is pushed.  upto  *)
(* is what rx had been sent.                                               *)
EndWait ==
    /\ Busy("rx")
    /\ LET missing == {k \in wait.want : ~Counts(firstSeen, withdrawn, k, wait.after)}
       IN  /\ wait' = [pc |-> IF missing = {} THEN "ok" ELSE "failed", list |-> wait.list,
                       after |-> wait.after, anchor |-> wait.anchor, last |-> wait.last,
                       missing |-> missing, upto |-> Len(received)]
           /\ metric' = [metric EXCEPT !.received =
                            IF missing = {} THEN @ + Cardinality(wait.want) ELSE @]
    /\ UNCHANGED <<peerVars, now, sendVars, wire, setVars, nwaits, announced, torn>>

----------------------------------------------------------------------------
Next ==
    \/ \E p \in Peers : Open(p) \/ Close(p) \/ Fail(p)
    \/ Break
    \/ \E c \in script.calls : Begin(c)
    \/ Write \/ WriteFails
    \/ Deliver \/ Drop
    \/ \E list \in script.lists, anchored \in BOOLEAN : BeginWait(list, anchored)
    \/ EndWait

Spec == Init /\ [][Next]_vars

----------------------------------------------------------------------------
\* What the two sides may rely on.

(* An element describes a route that was sent: it is of the same type, has *)
(* the same identity as far as an NLRI tells one from another, and the     *)
(* path identifier the route travelled with.                               *)
Describes(e, d) ==
    LET kind == KindIn(d.family, d.route)
    IN  /\ KindOf(e) = kind
        /\ Masked(kind, Identity(kind, e)) = Masked(kind, Identity(kind, d.route))
        /\ IF d.family \notin script.addPath THEN ~Given(e, {"pathId"})
           ELSE /\ Given(e, {"pathId"})
                /\ e.pathId = IF Given(d.route, {"pathId"}) THEN d.route.pathId ELSE 0

(* The last that rx was sent of a route that the element describes is an   *)
(* announcement, and the first such announcement came at or after a time.  *)
Standing(e, sent, after) ==
    LET same  == {i \in DOMAIN sent : Describes(e, sent[i])}
        reach == {i \in same : ~sent[i].withdraw}
    IN  reach # {} /\ Max(same) \in reach /\ sent[Min(reach)].ts >= after

(* Bits that no NLRI carries: AwaitedKey keeps them, and such an element   *)
(* is missed whatever stands.                                              *)
HostBits(e) ==
    LET id == Identity(KindOf(e), e)
    IN  \E x \in CutFields(KindOf(e)) : id[x].host # 0

(* MUP, EVPN or, without a type, L3VPN routes that could be advertised.    *)
Advertisable(e) ==
    \E f \in Family : /\ f.safi \in {"mup", "evpn"} \/ (f.safi = "vpn" /\ ~Given(e, {"type"}))
                      /\ ~IsString(e) /\ ParseRoute(f, e)

(* advertise reads a route by its family, waitForPrefixes by its fields    *)
(* (bgp.go:822, bgp.go:577), on two sides of a wire that carries neither   *)
(* the spelling nor the family's name, nor the bits of a prefix or of a    *)
(* TEID that its length leaves out.  Still, an answer says of every        *)
(* element, other than one with such bits, whether a route it describes    *)
(* stands: it was announced, first after the cutoff, and not withdrawn     *)
(* since.  No element is refused that could be advertised, other than an   *)
(* IP prefix written as an object.                                         *)
WaitSeesStanding ==
    /\ wait.pc \in {"ok", "failed"} =>
         \A e \in wait.list :
            \/ HostBits(e)
            \/ AwaitedKey(e) \notin wait.missing
                 <=> Standing(e, SubSeq(received, 1, wait.upto), wait.after)
    /\ wait.pc = "refused" =>
         ~wait.opened \/ \E e \in wait.list : ~IsString(e) /\ ~Advertisable(e)

(* bgp_prefix_sent never exceeds the routes announced on the wire, and     *)
(* falls behind only by the calls that are under way or failed half-way    *)
(* (bgp.go:290-294).  A wait that succeeds, anchored at sentAtMonoNs,      *)
(* always has a duration to push: the test at bgp.go:380 loses no sample.  *)
MetricsExact ==
    /\ metric.sent <= announced
    /\ ~torn /\ (Busy("tx") => send.call.withdraw) => metric.sent = announced
    /\ wait.pc = "ok" /\ wait.anchor > 0 => wait.last > wait.anchor
=============================================================================
