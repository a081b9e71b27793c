--------------------------- MODULE DeliveryProofs ---------------------------
(***************************************************************************)
(* Proofs about Delivery, for any scripts and any number of calls and      *)
(* waits.                                                                  *)
(*                                                                         *)
(* The first lemmas are about Routes alone: a key is the same on both      *)
(* sides of the wire, unless an element has bits that no NLRI carries.     *)
(* RecordInv then says what the observed set holds of what rx was sent,    *)
(* StampInv that a cutoff is never the time of a route, and CountInv how   *)
(* far the counter of sent routes is behind the wire.                      *)
(***************************************************************************)
EXTENDS Delivery, NaturalSets, FunctionTheorems, FiniteSetTheorems, SequenceTheorems

----------------------------------------------------------------------------
\* Keys.

HasPrefixes(e) == \A x \in {"string", "prefix", "teid"} \cap DOMAIN e : IsPrefix(e[x])

(* A field that is cut is given, and is a prefix.                          *)
LEMMA AwaitedHasPrefix ==
    ASSUME NEW e, Awaitable(e), HasPrefixes(e), NEW x \in CutFields(KindOf(e))
    PROVE  x \in DOMAIN Identity(KindOf(e), e) /\ IsPrefix(Identity(KindOf(e), e)[x])
  <1> DEFINE id == Identity(KindOf(e), e)
  <1>1. CASE IsString(e)
    <2>1. x = "prefix" /\ KindOf(e) = "ip"
      BY <1>1 DEF KindOf, CutFields
    <2>2. x \in DOMAIN id /\ id[x] = e.string
      BY <1>1, <2>1 DEF Identity, KeyFields, PrefixOf
    <2> QED
      BY <1>1, <2>2 DEF HasPrefixes, IsString, Given
  <1>2. CASE ~IsString(e)
    <2>1. SUFFICES /\ x \in DOMAIN e /\ x \in {"prefix", "teid"}
                   /\ x \in KeyFields(KindOf(e))
      <3>1. x \in DOMAIN id /\ id[x] = e[x]
        BY <1>2, <2>1 DEF Identity, PrefixOf
      <3> QED
        BY <2>1, <3>1 DEF HasPrefixes
    <2>2. CASE Given(e, {"type"}) /\ e.type \in DOMAIN EVPNFields /\ ParseEVPNRoute(e)
      <3>1. KindOf(e) \in {"mac-ip", "imet", "ip-prefix"}
        BY <1>2, <2>2 DEF KindOf, EVPNFields
      <3> QED
        BY <3>1 DEF CutFields
    <2>3. CASE Given(e, {"type"}) /\ e.type \notin DOMAIN EVPNFields /\ MUPDescriptor(e)
      <3>1. KindOf(e) = e.type /\ e.type \in {"isd", "t1st", "dsd", "t2st"}
        BY <1>2, <2>3 DEF KindOf, MUPDescriptor, VersionField
      <3>2. Given(e, MUPFields[e.type])
        BY <2>3 DEF MUPDescriptor, ParseMUPRoute
      <3>3. /\ x \in MUPFields[e.type] /\ x \in {"prefix", "teid"}
            /\ x \in KeyFields(KindOf(e))
        BY <3>1 DEF CutFields, MUPFields, KeyFields
      <3> QED
        BY <3>2, <3>3 DEF Given
    <2>4. CASE ~Given(e, {"type"}) /\ Given(e, {"rd"}) /\ VPNDescriptor(e)
      <3>1. KindOf(e) = "vpn" /\ "prefix" \in DOMAIN e
        BY <1>2, <2>4 DEF KindOf, VPNDescriptor, Given
      <3> QED
        BY <3>1 DEF CutFields, KeyFields
    <2> QED
      BY <1>2, <2>2, <2>3, <2>4 DEF Awaitable
  <1> QED
    BY <1>1, <1>2

(* Of an element without host bits the key awaited is that of an NLRI.     *)
LEMMA AwaitedIsMasked ==
    ASSUME NEW e, Awaitable(e), HasPrefixes(e), ~HostBits(e)
    PROVE  Masked(KindOf(e), Identity(KindOf(e), e)) = Identity(KindOf(e), e)
  <1> DEFINE id == Identity(KindOf(e), e)
  <1>1. ASSUME NEW x \in CutFields(KindOf(e))
        PROVE  [id[x] EXCEPT !.host = 0] = id[x]
    <2>1. IsPrefix(id[x]) /\ id[x].host = 0
      BY AwaitedHasPrefix DEF HostBits
    <2> HIDE DEF id
    <2> QED
      BY <2>1 DEF IsPrefix
  <1>2. id = [x \in DOMAIN id |-> id[x]]
    BY DEF Identity
  <1> HIDE DEF id
  <1>3. Masked(KindOf(e), id) = [x \in DOMAIN id |-> id[x]]
    BY <1>1 DEF Masked
  <1> QED
    BY <1>2, <1>3 DEF id

(* An element describes a route if the keys of the two are one.            *)
LEMMA DescribedByKey ==
    ASSUME NEW e, Awaitable(e), HasPrefixes(e), ~HostBits(e), NEW d
    PROVE  Describes(e, d) <=> AwaitedKey(e) = ReceivedKey(d.family, d.route, script.addPath)
  <1> DEFINE kind == KindIn(d.family, d.route)
             id == IF d.family \notin script.addPath THEN <<>>
                   ELSE IF Given(d.route, {"pathId"}) THEN <<d.route.pathId>> ELSE <<0>>
  <1>1. AwaitedKey(e) = ReceivedKey(d.family, d.route, script.addPath)
          <=> /\ KindOf(e) = kind
              /\ Identity(KindOf(e), e) = Masked(kind, Identity(kind, d.route))
              /\ AwaitedId(e) = id
    BY DEF AwaitedKey, ReceivedKey
  <1>2. AwaitedId(e) = id
          <=> IF d.family \notin script.addPath THEN ~Given(e, {"pathId"})
              ELSE /\ Given(e, {"pathId"})
                   /\ e.pathId = IF Given(d.route, {"pathId"}) THEN d.route.pathId ELSE 0
    BY DEF AwaitedId
  <1>3. Masked(KindOf(e), Identity(KindOf(e), e)) = Identity(KindOf(e), e)
    BY AwaitedIsMasked
  <1> HIDE DEF id
  <1> QED
    BY <1>1, <1>2, <1>3 DEF Describes

(* What could be advertised is awaited, unless it is an IP prefix in an    *)
(* object.                                                                 *)
LEMMA AdvertisableIsAwaitable ==
    ASSUME NEW e, Advertisable(e)
    PROVE  Awaitable(e)
  <1>1. PICK f \in Family :
          /\ f.safi \in {"mup", "evpn"} \/ (f.safi = "vpn" /\ ~Given(e, {"type"}))
          /\ ~IsString(e) /\ ParseRoute(f, e)
    BY DEF Advertisable
  <1>2. CASE f.safi = "mup"
    <2>1. ParseMUPRoute(f, e)
      BY <1>1, <1>2 DEF ParseRoute
    <2>2. e.type \in {"isd", "dsd", "t1st", "t2st"} /\ Given(e, {"type", "rd"})
      BY <2>1 DEF ParseMUPRoute, MUPFields
    <2>3. /\ e.type \in DOMAIN VersionField
          /\ VersionField[e.type] \in MUPFields[e.type]
          /\ VersionField[e.type] \in {"prefix", "address", "endpoint", "source"}
          /\ e.type \notin DOMAIN EVPNFields
      BY <2>2 DEF VersionField, MUPFields, EVPNFields
    <2>4. VersionField[e.type] \in DOMAIN e
      BY <2>1, <2>3 DEF ParseMUPRoute, Given
    <2>5. e[VersionField[e.type]].v6 = f.v6
      <3>1. NewMUPRoute(f, e)
        BY <2>1 DEF ParseMUPRoute
      <3>2. CheckMUPFamily(f, e[VersionField[e.type]])
        BY <2>3, <2>4, <3>1 DEF NewMUPRoute
      <3> QED
        BY <3>2 DEF CheckMUPFamily
    <2>6. MUPFamily(e) = f
      BY <1>2, <2>5 DEF MUPFamily, Family
    <2>7. MUPDescriptor(e)
      BY <2>1, <2>3, <2>4, <2>6 DEF MUPDescriptor, Given
    <2> QED
      BY <2>2, <2>3, <2>7 DEF Awaitable, Given
  <1>3. CASE f.safi = "evpn"
    <2>1. ParseEVPNRoute(e)
      BY <1>1, <1>3 DEF ParseRoute
    <2> QED
      BY <2>1 DEF Awaitable, ParseEVPNRoute, Given
  <1>4. CASE f.safi = "vpn" /\ ~Given(e, {"type"})
    <2>1. ParseVPNIPRoute(f, e)
      BY <1>1, <1>4 DEF ParseRoute
    <2>2. Given(e, {"rd"}) /\ Given(e, {"prefix"}) /\ e.prefix.v6 = f.v6
      BY <2>1 DEF ParseVPNIPRoute, NewVPNIPRoute, Given
    <2>3. [safi |-> "vpn", v6 |-> e.prefix.v6] = f
      BY <1>4, <2>2 DEF Family
    <2> QED
      BY <1>4, <2>1, <2>2, <2>3 DEF Awaitable, VPNDescriptor
  <1> QED
    BY <1>1, <1>2, <1>3, <1>4

----------------------------------------------------------------------------
\* The invariant.

(* What may be announced, carried, received.                               *)
RouteSet  == UNION {{c.routes[i] : i \in DOMAIN c.routes} : c \in script.calls}
Families  == {c.family : c \in script.calls}
UpdateSet == {u \in [withdraw : BOOLEAN, family : Families, legacy : BOOLEAN, routes : Seq(RouteSet)] :
                u.legacy => u.family = IPv4Unicast}
RecordSet == [withdraw : BOOLEAN, family : Families, route : RouteSet, ts : Nat]

TypeInv ==
    /\ script \in Script
    /\ state \in [Peers -> {"new", "up", "broken", "closed"}]
    /\ now \in Nat /\ ncalls \in Nat /\ nwaits \in Nat
    /\ sentAt \in Nat /\ announced \in Nat /\ torn \in BOOLEAN
    /\ metric \in [sent : Nat, received : Nat]
    /\ wire \in Seq(UpdateSet)
    /\ received \in Seq(RecordSet)

CallInv ==
    /\ send.pc \in {"idle", "write"}
    /\ Busy("tx") =>
         /\ send = [pc |-> "write", call |-> send.call, next |-> send.next, ts |-> send.ts]
         /\ send.call \in script.calls
         /\ send.next \in 1 .. Len(send.call.routes)
         /\ send.ts \in Nat

(* The announcements that the call in progress has written.                *)
Written == IF Busy("tx") /\ ~send.call.withdraw THEN send.next - 1 ELSE 0

CountInv ==
    /\ metric.sent + Written <= announced
    /\ ~torn => metric.sent + Written = announced

KeyOf(d) == ReceivedKey(d.family, d.route, script.addPath)

(* What the observed set holds: the time of the first announcement of a    *)
(* key, and the keys of which only withdrawals were received at last.      *)
Ordered ==
    /\ \A i \in DOMAIN received : received[i].ts < now
    /\ \A i, j \in DOMAIN received : i <= j => received[i].ts <= received[j].ts

SeenFirst ==
    /\ \A i \in DOMAIN received : ~received[i].withdraw =>
         /\ KeyOf(received[i]) \in DOMAIN firstSeen
         /\ firstSeen[KeyOf(received[i])] <= received[i].ts
    /\ \A k \in DOMAIN firstSeen : \E i \in DOMAIN received :
         ~received[i].withdraw /\ KeyOf(received[i]) = k /\ received[i].ts = firstSeen[k]

OnlyGoneSince(k, i) ==
    /\ KeyOf(received[i]) = k
    /\ \A j \in DOMAIN received : i <= j /\ KeyOf(received[j]) = k => received[j].withdraw

GoneLast == \A k : k \in withdrawn <=> \E i \in DOMAIN received : OnlyGoneSince(k, i)

RecordInv == Ordered /\ SeenFirst /\ GoneLast

(* Nothing was first seen at the time of a write.                          *)
StampInv ==
    /\ sentAt < now
    /\ Busy("tx") => send.ts < now
    /\ Busy("rx") => wait.anchor < now
    /\ \A k \in DOMAIN firstSeen :
         /\ firstSeen[k] \in Nat \ {0} /\ firstSeen[k] < now
         /\ firstSeen[k] # sentAt
         /\ Busy("tx") => firstSeen[k] # send.ts
         /\ Busy("rx") => firstSeen[k] # wait.anchor

(* A wait under way has the time of all that counts already, and knows     *)
(* what it is for; one that ended has given a true answer.                 *)
Waiting ==
    /\ wait = [pc |-> "wait", list |-> wait.list, want |-> {AwaitedKey(e) : e \in wait.list},
               after |-> wait.anchor, anchor |-> wait.anchor, last |-> wait.last]
    /\ wait.anchor \in Nat /\ wait.last \in Nat
    /\ \A k \in wait.want : Counts(firstSeen, withdrawn, k, wait.after) => firstSeen[k] <= wait.last

AllAwaitable == \A e \in wait.list : Awaitable(e)

WaitInv ==
    /\ wait.pc \in {"idle", "wait", "ok", "failed", "refused"}
    /\ wait.pc # "idle" => wait.list \in script.lists
    /\ wait.pc \in {"wait", "ok", "failed"} => AllAwaitable
    /\ wait.pc = "wait" => Waiting
    /\ wait.pc \in {"ok", "failed"} => wait.upto \in 0 .. Len(received)
    /\ wait.pc = "ok" /\ wait.anchor > 0 => wait.last > wait.anchor
    /\ WaitSeesStanding

DeliveryInv == TypeInv /\ CallInv /\ CountInv /\ RecordInv /\ StampInv /\ WaitInv

----------------------------------------------------------------------------
\* Types, and the call in progress.

LEMMA CallOfScript ==
    ASSUME script \in Script, NEW c \in script.calls
    PROVE  /\ c.withdraw \in BOOLEAN
           /\ c.routes \in Seq(RouteSet)
           /\ Len(c.routes) \in Nat
           /\ DOMAIN c.routes = 1 .. Len(c.routes)
           /\ c.family \in Families
  <1> DEFINE S == {c.routes[i] : i \in DOMAIN c.routes}
  <1>1. c.withdraw \in BOOLEAN /\ c.routes \in Seq(S)
    BY CallAssumption DEF IsArray
  <1>2. S \subseteq RouteSet
    BY DEF RouteSet
  <1>3. c.routes \in Seq(RouteSet)
    <2> HIDE DEF S
    <2> QED
      BY <1>1, <1>2, SeqMonotonic
  <1>4. Len(c.routes) \in Nat /\ DOMAIN c.routes = 1 .. Len(c.routes)
    BY <1>3
  <1>5. c.family \in Families
    BY DEF Families
  <1> QED
    BY <1>1, <1>3, <1>4, <1>5

(* What a call writes is some of its routes.                               *)
LEMMA UpdateOfCall ==
    ASSUME TypeInv, CallInv, Busy("tx"),
           NEW last \in send.next .. Len(send.call.routes)
    PROVE  /\ Update(send.call, last) \in UpdateSet
           /\ Len(Update(send.call, last).routes) = last - send.next + 1
           /\ Update(send.call, last).withdraw = send.call.withdraw
           /\ last \in Nat /\ send.next \in Nat \ {0}
  <1> DEFINE c == send.call
             r == SubSeq(c.routes, send.next, last)
  <1>1. /\ c \in script.calls /\ send.next \in 1 .. Len(c.routes)
        /\ script \in Script
    BY DEF CallInv, TypeInv
  <1>2. /\ c.withdraw \in BOOLEAN /\ c.routes \in Seq(RouteSet)
        /\ Len(c.routes) \in Nat /\ c.family \in Families
    BY <1>1, CallOfScript
  <1>3. r \in Seq(RouteSet) /\ Len(r) = last - send.next + 1
    BY <1>1, <1>2
  <1>4. Legacy(c) \in BOOLEAN /\ (Legacy(c) => c.family = IPv4Unicast)
    BY DEF Legacy
  <1>5. Update(c, last) = [withdraw |-> c.withdraw, family |-> c.family, legacy |-> Legacy(c), routes |-> r]
    BY DEF Update
  <1>6. Update(c, last) \in [withdraw : BOOLEAN, family : Families, legacy : BOOLEAN, routes : Seq(RouteSet)]
    <2> HIDE DEF c, r
    <2> QED
      BY <1>2, <1>3, <1>4, <1>5
  <1>7. Update(c, last).legacy = Legacy(c) /\ Update(c, last).family = c.family
        /\ Update(c, last).routes = r /\ Update(c, last).withdraw = c.withdraw
    <2> DEFINE b == Legacy(c)
    <2>1. Update(c, last) = [withdraw |-> c.withdraw, family |-> c.family, legacy |-> b, routes |-> r]
      BY <1>5, Zenon
    <2> HIDE DEF c, r, b
    <2>2. /\ Update(c, last).legacy = b /\ Update(c, last).family = c.family
          /\ Update(c, last).routes = r /\ Update(c, last).withdraw = c.withdraw
      BY <2>1
    <2> QED
      BY <2>2, Zenon DEF b
  <1> HIDE DEF c, r
  <1>8. Update(c, last) \in UpdateSet
    BY <1>4, <1>6, <1>7 DEF UpdateSet
  <1> QED
    BY <1>1, <1>2, <1>3, <1>7, <1>8 DEF c

(* What rx is sent is recorded route by route.                             *)
RecordsOf(u, t) ==
    [i \in DOMAIN u.routes |->
        [withdraw |-> u.withdraw, family |-> u.family, route |-> u.routes[i], ts |-> t]]

LEMMA RecordsOfUpdate ==
    ASSUME NEW u \in UpdateSet, NEW t \in Nat
    PROVE  LET new == RecordsOf(u, t)
           IN  /\ new \in Seq(RecordSet)
               /\ DOMAIN new = 1 .. Len(new)
               /\ \A i \in DOMAIN new :
                    /\ new[i].withdraw = u.withdraw /\ new[i].ts = t
                    /\ KeyOf(new[i]) \in Keys(u)
               /\ \A k \in Keys(u) : \E i \in DOMAIN new : KeyOf(new[i]) = k
  <1> DEFINE Rec(i) == [withdraw |-> u.withdraw, family |-> u.family, route |-> u.routes[i], ts |-> t]
             new == [i \in DOMAIN u.routes |-> Rec(i)]
  <1>1. /\ u.withdraw \in BOOLEAN /\ u.family \in Families
        /\ u.routes \in Seq(RouteSet) /\ (u.legacy => u.family = IPv4Unicast)
    BY DEF UpdateSet
  <1>2. DOMAIN u.routes = 1 .. Len(u.routes) /\ Len(u.routes) \in Nat
        /\ \A i \in DOMAIN u.routes : u.routes[i] \in RouteSet
    BY <1>1
  <1>3. \A i \in DOMAIN u.routes : Rec(i) \in RecordSet
    BY <1>1, <1>2 DEF RecordSet
  <1>4. \A i \in DOMAIN u.routes : Rec(i).withdraw = u.withdraw /\ Rec(i).ts = t
                                   /\ Rec(i).family = u.family /\ Rec(i).route = u.routes[i]
    OBVIOUS
  <1>5. DispatchFamily(u) = u.family
    BY <1>1 DEF DispatchFamily
  <1>6. \A i \in DOMAIN u.routes : KeyOf(Rec(i)) = ReceivedKey(DispatchFamily(u), u.routes[i], script.addPath)
    BY <1>4, <1>5 DEF KeyOf
  <1> HIDE DEF Rec
  <1>7. DOMAIN new = DOMAIN u.routes /\ \A i \in DOMAIN new : new[i] = Rec(i)
    OBVIOUS
  <1>8. new \in Seq(RecordSet) /\ Len(new) = Len(u.routes)
    BY <1>2, <1>3
  <1> HIDE DEF new
  <1>9. /\ \A i \in DOMAIN new : KeyOf(new[i]) \in Keys(u)
        /\ \A k \in Keys(u) : \E i \in DOMAIN new : KeyOf(new[i]) = k
    BY <1>6, <1>7 DEF Keys
  <1> QED
    BY <1>2, <1>4, <1>7, <1>8, <1>9 DEF new, Rec, RecordsOf

(* What a wait matches is counted.                                         *)
LEMMA WantIsFinite ==
    ASSUME TypeInv, WaitInv, Busy("rx")
    PROVE  Cardinality(wait.want) \in Nat
  <1>1. wait.pc = "wait"
    BY DEF Busy
  <1>2. wait.list \in script.lists /\ wait.want = {AwaitedKey(e) : e \in wait.list}
    <2>1. Waiting
      BY <1>1 DEF WaitInv
    <2>2. wait.want = {AwaitedKey(e) : e \in wait.list}
      BY <2>1 DEF Waiting
    <2> QED
      BY <1>1, <2>2 DEF WaitInv
  <1>3. IsFiniteSet(wait.list)
    BY <1>2, ListAssumption DEF TypeInv
  <1> DEFINE f == [e \in wait.list |-> AwaitedKey(e)]
  <1>4. f \in Surjection(wait.list, wait.want)
    BY <1>2 DEF Surjection
  <1>5. IsFiniteSet(wait.want)
    <2> HIDE DEF f
    <2> QED
      BY <1>3, <1>4, FS_Surjection
  <1> QED
    BY <1>5, FS_CardinalityType

LEMMA TypeStep ==
    ASSUME TypeInv, CallInv, WaitInv, Next
    PROVE  TypeInv'
  <1> USE DEF TypeInv
  <1>1. ASSUME NEW p \in Peers, Open(p) \/ Close(p) \/ Fail(p) PROVE TypeInv'
    <2>1. UNCHANGED <<script, now, sendVars, setVars, waitVars, countVars>> /\ UNCHANGED wire
      BY <1>1 DEF Open, Close, Fail
    <2>2. \E s \in {"up", "closed"} : state' = [state EXCEPT ![p] = s]
      BY <1>1 DEF Open, Close, Fail
    <2>3. state' \in [Peers -> {"new", "up", "broken", "closed"}]
      BY <2>2
    <2> QED
      BY <2>1, <2>3 DEF sendVars, setVars, waitVars, countVars, UpdateSet, RecordSet, Families, RouteSet
  <1>2. CASE Break
    <2>1. state' \in [Peers -> {"new", "up", "broken", "closed"}]
      BY <1>2 DEF Break
    <2>2. PICK n \in 0 .. Len(wire) : wire' = SubSeq(wire, 1, n)
      BY <1>2 DEF Break
    <2>3. wire' \in Seq(UpdateSet)
      BY <2>2
    <2>4. UNCHANGED <<script, now, sendVars, setVars, waitVars, countVars>>
      BY <1>2 DEF Break
    <2> QED
      BY <2>1, <2>3, <2>4 DEF sendVars, setVars, waitVars, countVars, UpdateSet, RecordSet, Families, RouteSet
  <1>3. ASSUME NEW c \in script.calls, Begin(c) PROVE TypeInv'
    <2>1. ncalls' \in Nat /\ UNCHANGED <<peerVars, now, sentAt, wire, setVars, waitVars, countVars>>
      BY <1>3 DEF Begin
    <2> QED
      BY <2>1 DEF peerVars, setVars, waitVars, countVars, UpdateSet, RecordSet, Families, RouteSet
  <1>4. CASE Write
    <2>1. PICK last \in send.next .. Len(send.call.routes) :
            /\ wire' = Append(wire, Update(send.call, last))
            /\ announced' = announced + (IF send.call.withdraw THEN 0 ELSE Len(Update(send.call, last).routes))
            /\ IF last < Len(send.call.routes) THEN UNCHANGED <<sentAt, metric>>
               ELSE /\ sentAt' = IF send.ts = 0 THEN now ELSE send.ts
                    /\ metric' = [metric EXCEPT !.sent = @ + Recorded(send.call)]
      BY <1>4 DEF Write
    <2>2. Busy("tx")
      BY <1>4 DEF Write
    <2>3. /\ Update(send.call, last) \in UpdateSet
          /\ Len(Update(send.call, last).routes) = last - send.next + 1
          /\ last \in Nat /\ send.next \in Nat \ {0}
      BY <2>2, UpdateOfCall
    <2>4. wire' \in Seq(UpdateSet) /\ announced' \in Nat
      <3> DEFINE u == Update(send.call, last)
      <3>0. u \in UpdateSet /\ Len(u.routes) = last - send.next + 1 /\ wire' = Append(wire, u)
        BY <2>1, <2>3
      <3>1. u \in UpdateSet /\ Len(u.routes) \in Nat /\ wire' = Append(wire, u)
        <4> HIDE DEF u
        <4>1. last \in Nat /\ send.next \in Nat /\ send.next <= last
          BY <2>1, <2>3
        <4> QED
          BY <3>0, <4>1
      <3>2. announced' = announced + (IF send.call.withdraw THEN 0 ELSE Len(u.routes))
        BY <2>1
      <3> HIDE DEF u
      <3>3. wire' \in Seq(UpdateSet)
        BY <3>1, AppendProperties DEF TypeInv
      <3>4. announced' \in Nat
        BY <3>1, <3>2 DEF TypeInv
      <3> QED
        BY <3>3, <3>4
    <2>5. Recorded(send.call) \in Nat /\ send.ts \in Nat
      BY <2>2, CallOfScript DEF CallInv, Recorded
    <2>6. sentAt' \in Nat /\ metric' \in [sent : Nat, received : Nat]
      <3>1. metric \in [sent : Nat, received : Nat] /\ metric.sent + Recorded(send.call) \in Nat
            /\ now \in Nat /\ sentAt \in Nat
        BY <2>5 DEF TypeInv
      <3>2. [metric EXCEPT !.sent = @ + Recorded(send.call)] \in [sent : Nat, received : Nat]
        BY <3>1
      <3> QED
        BY <2>1, <2>5, <3>1, <3>2
    <2>7. now' = now + 1 /\ UNCHANGED <<peerVars, ncalls, setVars, waitVars, torn>>
      BY <1>4 DEF Write
    <2> QED
      BY <2>4, <2>6, <2>7 DEF peerVars, setVars, waitVars, UpdateSet, RecordSet, Families, RouteSet
  <1>5. CASE WriteFails
    <2>1. torn' \in BOOLEAN /\ UNCHANGED <<peerVars, now, ncalls, sentAt, wire, setVars, waitVars, metric, announced>>
      BY <1>5 DEF WriteFails
    <2> QED
      BY <2>1 DEF peerVars, setVars, waitVars, UpdateSet, RecordSet, Families, RouteSet
  <1>6. CASE Deliver
    <2>1. wire # <<>> /\ wire' = Tail(wire) /\ now' = now + 1
          /\ UNCHANGED <<peerVars, sendVars, nwaits, countVars>>
      BY <1>6 DEF Deliver
    <2>2. Head(wire) \in UpdateSet /\ wire' \in Seq(UpdateSet)
      BY <2>1
    <2> DEFINE u == Head(wire)
               new == RecordsOf(u, now)
    <2>3. received' = received \o new
      BY <1>6 DEF Deliver, RecordsOf
    <2>4. new \in Seq(RecordSet)
      <3>1. u \in UpdateSet /\ now \in Nat
        BY <2>2
      <3> HIDE DEF u
      <3> QED
        BY <3>1, RecordsOfUpdate
    <2>5. received' \in Seq(RecordSet)
      <3> HIDE DEF new
      <3> QED
        BY <2>3, <2>4
    <2> QED
      BY <2>1, <2>2, <2>5 DEF peerVars, sendVars, countVars, UpdateSet, RecordSet, Families, RouteSet
  <1>7. CASE Drop
    <2>1. wire # <<>> /\ wire' = Tail(wire)
          /\ UNCHANGED <<peerVars, now, sendVars, setVars, waitVars, countVars>>
      BY <1>7 DEF Drop
    <2>2. wire' \in Seq(UpdateSet)
      BY <2>1
    <2> QED
      BY <2>1, <2>2 DEF peerVars, sendVars, setVars, waitVars, countVars, UpdateSet, RecordSet, Families, RouteSet
  <1>8. ASSUME NEW list \in script.lists, NEW anchored \in BOOLEAN, BeginWait(list, anchored) PROVE TypeInv'
    <2>1. nwaits' = nwaits + 1 /\ UNCHANGED <<peerVars, now, sendVars, wire, setVars, countVars>>
      BY <1>8 DEF BeginWait
    <2> QED
      BY <2>1 DEF peerVars, sendVars, setVars, countVars, UpdateSet, RecordSet, Families, RouteSet
  <1>9. CASE EndWait
    <2>1. /\ \/ metric' = [metric EXCEPT !.received = @ + Cardinality(wait.want)]
             \/ metric' = [metric EXCEPT !.received = @]
          /\ UNCHANGED <<peerVars, now, sendVars, wire, setVars, nwaits, announced, torn>>
      BY <1>9 DEF EndWait
    <2>2. Cardinality(wait.want) \in Nat
      BY <1>9, WantIsFinite DEF EndWait
    <2>3. metric' \in [sent : Nat, received : Nat]
      BY <2>1, <2>2
    <2> QED
      BY <2>1, <2>3 DEF peerVars, sendVars, setVars, UpdateSet, RecordSet, Families, RouteSet
  <1> QED
    BY <1>1, <1>2, <1>3, <1>4, <1>5, <1>6, <1>7, <1>8, <1>9 DEF Next

LEMMA CallStep ==
    ASSUME TypeInv, CallInv, Next
    PROVE  CallInv'
  <1>1. CASE UNCHANGED <<script, send>>
    BY <1>1 DEF CallInv, Busy
  <1>2. ASSUME NEW c \in script.calls, Begin(c) PROVE CallInv'
    <2>1. script' = script
      BY <1>2 DEF Begin, peerVars
    <2>2. CASE Accepted(c)
      <3>1. send' = [pc |-> "write", call |-> c, next |-> 1, ts |-> 0]
        BY <1>2, <2>2 DEF Begin
      <3>2. c.routes # <<>>
        BY <2>2 DEF Accepted, ParseAdvertiseArg, ParseRoutesArray
      <3>3. c.routes \in Seq(RouteSet)
        BY CallOfScript DEF TypeInv
      <3>4. 1 \in 1 .. Len(c.routes)
        BY <3>2, <3>3
      <3> QED
        BY <2>1, <3>1, <3>4 DEF CallInv, Busy
    <2>3. CASE ~Accepted(c)
      BY <1>2, <2>3 DEF Begin, Idle, CallInv, Busy
    <2> QED
      BY <2>2, <2>3
  <1>3. CASE Write
    <2>1. script' = script /\ Busy("tx")
      BY <1>3 DEF Write, peerVars
    <2>2. PICK last \in send.next .. Len(send.call.routes) :
            \/ /\ last < Len(send.call.routes)
               /\ send' = [send EXCEPT !.next = last + 1, !.ts = IF send.ts = 0 THEN now ELSE send.ts]
            \/ send' = Idle
      BY <1>3 DEF Write
    <2>3. CASE send' = Idle
      BY <2>3 DEF CallInv, Busy, Idle
    <2>4. CASE /\ last < Len(send.call.routes)
               /\ send' = [send EXCEPT !.next = last + 1, !.ts = IF send.ts = 0 THEN now ELSE send.ts]
      <3>1. /\ send = [pc |-> "write", call |-> send.call, next |-> send.next, ts |-> send.ts]
            /\ send.call \in script.calls /\ send.ts \in Nat /\ now \in Nat
            /\ send.next \in 1 .. Len(send.call.routes) /\ Len(send.call.routes) \in Nat
        BY <2>1, CallOfScript DEF CallInv, TypeInv
      <3> DEFINE t == IF send.ts = 0 THEN now ELSE send.ts
      <3>2. send' = [pc |-> "write", call |-> send.call, next |-> last + 1, ts |-> t]
        <4>1. send' = [send EXCEPT !.next = last + 1, !.ts = t]
          BY <2>4
        <4> DEFINE c == send.call
                   n == send.next
                   s == send.ts
        <4>2. send = [pc |-> "write", call |-> c, next |-> n, ts |-> s]
          BY <3>1
        <4> HIDE DEF t, c, n, s
        <4>3. send' = [pc |-> "write", call |-> c, next |-> last + 1, ts |-> t]
          BY <4>1, <4>2
        <4> QED
          BY <4>3 DEF c
      <3>3. last + 1 \in 1 .. Len(send.call.routes) /\ t \in Nat
        BY <2>4, <3>1
      <3> HIDE DEF t
      <3> QED
        BY <2>1, <3>1, <3>2, <3>3 DEF CallInv, Busy
    <2> QED
      BY <2>2, <2>3, <2>4
  <1>4. CASE WriteFails
    BY <1>4 DEF WriteFails, CallInv, Busy, Idle
  <1>5. ASSUME ~ \E c \in script.calls : Begin(c), ~Write, ~WriteFails PROVE UNCHANGED <<script, send>>
    BY <1>5 DEF Next, Open, Close, Fail, Break, Deliver, Drop, BeginWait, EndWait, peerVars, sendVars
  <1> QED
    BY <1>1, <1>2, <1>3, <1>4, <1>5

LEMMA CountStep ==
    ASSUME TypeInv, CallInv, CountInv, Next
    PROVE  CountInv'
  <1> USE DEF TypeInv
  <1>0. Written \in Nat
    BY CallOfScript DEF Written, CallInv
  <1>1. CASE UNCHANGED <<send, metric.sent, announced, torn>>
    BY <1>1 DEF CountInv, Written, Busy
  <1>2. ASSUME NEW c \in script.calls, Begin(c) PROVE CountInv'
    <2>1. Written = 0 /\ Written' = 0 /\ UNCHANGED <<metric, announced, torn>>
      BY <1>2 DEF Begin, Written, Busy, Idle, countVars
    <2> QED
      BY <2>1 DEF CountInv
  <1>3. CASE Write
    <2>1. Busy("tx") /\ torn' = torn
      BY <1>3 DEF Write
    <2> DEFINE w == send.call.withdraw
               n == Len(send.call.routes)
    <2>2. /\ send = [pc |-> "write", call |-> send.call, next |-> send.next, ts |-> send.ts]
          /\ w \in BOOLEAN /\ n \in Nat /\ send.next \in 1 .. n
      BY <2>1, CallOfScript DEF CallInv
    <2>3. PICK last \in send.next .. n :
            /\ announced' = announced + (IF w THEN 0 ELSE Len(Update(send.call, last).routes))
            /\ IF last < n THEN /\ send' = [send EXCEPT !.next = last + 1, !.ts = IF send.ts = 0 THEN now ELSE send.ts]
                                /\ metric' = metric
               ELSE send' = Idle /\ metric' = [metric EXCEPT !.sent = @ + Recorded(send.call)]
      BY <1>3 DEF Write
    <2>4. announced' = announced + (IF w THEN 0 ELSE last - send.next + 1) /\ last \in Nat
      BY <2>1, <2>3, UpdateOfCall
    <2>5. Written = IF w THEN 0 ELSE send.next - 1
      BY <2>1 DEF Written
    <2>6. CASE last < n
      <3>1. send'.pc = "write" /\ send'.call = send.call /\ send'.next = last + 1 /\ metric' = metric
        <4> DEFINE t == IF send.ts = 0 THEN now ELSE send.ts
        <4>1. send' = [send EXCEPT !.next = last + 1, !.ts = t] /\ metric' = metric
          BY <2>3, <2>6
        <4> HIDE DEF t
        <4> QED
          BY <2>2, <4>1
      <3>2. Written' = IF w THEN 0 ELSE last
        BY <2>2, <2>4, <3>1 DEF Written, Busy
      <3>3. announced' = announced + (Written' - Written) /\ Written' \in Nat
        <4> HIDE DEF w, n
        <4> QED
          BY <2>2, <2>4, <2>5, <3>2
      <3> QED
        BY <1>0, <2>1, <3>1, <3>3 DEF CountInv
    <2>7. CASE ~(last < n)
      <3>1. Written' = 0
        BY <2>3, <2>7 DEF Written, Busy, Idle
      <3>2. metric'.sent = metric.sent + (IF w THEN 0 ELSE n)
        BY <2>2, <2>3, <2>7 DEF Recorded
      <3>3. last = n
        BY <2>2, <2>7
      <3>4. announced' - announced = (metric'.sent - metric.sent) - Written
        <4> HIDE DEF w, n
        <4> QED
          BY <2>2, <2>4, <2>5, <3>2, <3>3
      <3>5. announced' \in Nat /\ metric'.sent \in Nat
        <4> HIDE DEF w, n
        <4> QED
          BY <2>2, <2>4, <3>2
      <3> QED
        BY <1>0, <2>1, <3>1, <3>4, <3>5 DEF CountInv
    <2> QED
      BY <2>6, <2>7
  <1>4. CASE WriteFails
    <2>1. Written' = 0 /\ UNCHANGED <<metric, announced>>
      BY <1>4 DEF WriteFails, Written, Busy, Idle
    <2>2. ~torn' => ~torn /\ ~(send.next > 1 /\ ~send.call.withdraw)
      BY <1>4, Zenon DEF WriteFails
    <2>3. Busy("tx") /\ send.next \in Nat \ {0}
      BY <1>4, CallOfScript DEF WriteFails, CallInv
    <2>4. ~(send.next > 1 /\ ~send.call.withdraw) => Written = 0
      BY <2>3 DEF Written
    <2> QED
      BY <1>0, <2>1, <2>2, <2>4 DEF CountInv
  <1>5. CASE EndWait
    <2>1. metric'.sent = metric.sent
      BY <1>5 DEF EndWait
    <2> QED
      BY <1>1, <1>5, <2>1 DEF EndWait, sendVars
  <1>6. ASSUME ~ \E c \in script.calls : Begin(c), ~Write, ~WriteFails, ~EndWait PROVE UNCHANGED <<send, metric.sent, announced, torn>>
    BY <1>6 DEF Next, Open, Close, Fail, Break, Deliver, Drop, BeginWait, sendVars, countVars
  <1> QED
    BY <1>1, <1>2, <1>3, <1>4, <1>5, <1>6

----------------------------------------------------------------------------
\* What is recorded.

(* A delivery adds records of one time, and either all are withdrawals or  *)
(* all are announcements.                                                  *)
LEMMA DeliverAdds ==
    ASSUME TypeInv, Deliver
    PROVE  LET u == Head(wire)
           IN  /\ Len(received) \in Nat /\ DOMAIN received = 1 .. Len(received)
               /\ Len(received') \in Nat /\ DOMAIN received' = 1 .. Len(received')
               /\ Len(received) <= Len(received')
               /\ \A i \in DOMAIN received : received'[i] = received[i]
               /\ \A i \in DOMAIN received' :
                    i \notin DOMAIN received =>
                      /\ i > Len(received)
                      /\ received'[i].withdraw = u.withdraw /\ received'[i].ts = now
                      /\ KeyOf(received'[i]) \in Keys(u)
               /\ \A k \in Keys(u) : \E i \in DOMAIN received' :
                    i > Len(received) /\ KeyOf(received'[i]) = k
  <1> DEFINE u == Head(wire)
             new == RecordsOf(u, now)
  <1>1. u \in UpdateSet /\ now \in Nat /\ received \in Seq(RecordSet)
    BY DEF Deliver, TypeInv
  <1>2. received' = received \o new
    BY DEF Deliver, RecordsOf
  <1>3. /\ new \in Seq(RecordSet)
        /\ DOMAIN new = 1 .. Len(new)
        /\ \A i \in DOMAIN new :
             /\ new[i].withdraw = u.withdraw /\ new[i].ts = now
             /\ KeyOf(new[i]) \in Keys(u)
        /\ \A k \in Keys(u) : \E i \in DOMAIN new : KeyOf(new[i]) = k
    <2> HIDE DEF u
    <2>1. u \in UpdateSet /\ now \in Nat
      BY <1>1
    <2> QED
      BY <2>1, RecordsOfUpdate, Zenon
  <1> HIDE DEF new, u
  <1>4. /\ Len(received) \in Nat /\ DOMAIN received = 1 .. Len(received) /\ Len(new) \in Nat
        /\ DOMAIN received' = 1 .. Len(received') /\ Len(received') = Len(received) + Len(new)
        /\ \A i \in 1 .. Len(received) + Len(new) :
             received'[i] = IF i <= Len(received) THEN received[i] ELSE new[i - Len(received)]
    BY <1>1, <1>2, <1>3
  <1>5. ASSUME NEW i \in DOMAIN received', i \notin DOMAIN received
        PROVE  i > Len(received) /\ i - Len(received) \in DOMAIN new /\ received'[i] = new[i - Len(received)]
    BY <1>3, <1>4, <1>5
  <1>6. ASSUME NEW k \in Keys(u)
        PROVE  \E i \in DOMAIN received' : i > Len(received) /\ KeyOf(received'[i]) = k
    <2>1. PICK j \in DOMAIN new : KeyOf(new[j]) = k
      BY <1>3
    <2>2. j + Len(received) \in DOMAIN received' /\ j + Len(received) > Len(received)
          /\ received'[j + Len(received)] = new[j]
      BY <1>3, <1>4
    <2> QED
      BY <2>1, <2>2
  <1>7. \A i \in DOMAIN received : received'[i] = received[i]
    BY <1>4
  <1> QED
    BY <1>3, <1>4, <1>5, <1>6, <1>7 DEF u

LEMMA TimesOfRecords ==
    ASSUME TypeInv
    PROVE  \A i \in DOMAIN received : received[i].ts \in Nat /\ received[i].withdraw \in BOOLEAN
  <1> TAKE i \in DOMAIN received
  <1>1. received[i] \in RecordSet
    BY ElementOfSeq DEF TypeInv
  <1> QED
    BY <1>1 DEF RecordSet

LEMMA RecordStep ==
    ASSUME TypeInv, RecordInv, StampInv, Next
    PROVE  RecordInv'
  <1>1. now \in Nat /\ script' = script
    BY DEF TypeInv, Next, Open, Close, Fail, Break, Begin, Write, WriteFails, Deliver, Drop,
           BeginWait, EndWait, peerVars
  <1>2. ASSUME ~Deliver PROVE RecordInv'
    <2>1. UNCHANGED setVars /\ now' \in {now, now + 1}
      BY <1>2 DEF Next, Open, Close, Fail, Break, Begin, Write, WriteFails, Drop, BeginWait, EndWait
    <2>2. UNCHANGED <<firstSeen, withdrawn, received>>
      BY <2>1 DEF setVars
    <2>3. \A i \in DOMAIN received : received[i].ts \in Nat
      BY TimesOfRecords
    <2>4. Ordered'
      BY <1>1, <2>1, <2>2, <2>3 DEF RecordInv, Ordered
    <2>5. SeenFirst'
      BY <1>1, <2>2 DEF RecordInv, SeenFirst, KeyOf
    <2>6. GoneLast'
      BY <1>1, <2>2 DEF RecordInv, GoneLast, OnlyGoneSince, KeyOf
    <2> QED
      BY <2>4, <2>5, <2>6 DEF RecordInv
  <1>3. CASE Deliver
    <2> DEFINE u == Head(wire)
               n == Len(received)
    <2>1. /\ n \in Nat /\ DOMAIN received = 1 .. n
          /\ Len(received') \in Nat /\ DOMAIN received' = 1 .. Len(received')
          /\ n <= Len(received')
      BY <1>3, DeliverAdds
    <2>2. \A i \in DOMAIN received : i \in DOMAIN received' /\ received'[i] = received[i]
      BY <1>3, <2>1, DeliverAdds
    <2>3. \A i \in DOMAIN received' :
            i \notin DOMAIN received =>
              /\ i > n
              /\ received'[i].withdraw = u.withdraw /\ received'[i].ts = now
              /\ KeyOf(received'[i]) \in Keys(u)
      BY <1>3, DeliverAdds
    <2>4. \A k \in Keys(u) : \E i \in DOMAIN received' : i > n /\ KeyOf(received'[i]) = k
      BY <1>3, DeliverAdds
    <2>5. \A i \in DOMAIN received : received[i].ts \in Nat /\ received[i].ts < now
      BY TimesOfRecords DEF RecordInv, Ordered
    <2>6. now' = now + 1
      BY <1>3 DEF Deliver
    <2>7. u.withdraw \in BOOLEAN
      BY <1>3 DEF Deliver, TypeInv, UpdateSet
    <2>8. firstSeen' = IF u.withdraw THEN firstSeen
                       ELSE [key \in DOMAIN firstSeen \cup Keys(u) |->
                               IF key \in DOMAIN firstSeen THEN firstSeen[key] ELSE now]
      BY <1>3 DEF Deliver
    <2>9. withdrawn' = IF u.withdraw THEN withdrawn \cup Keys(u) ELSE withdrawn \ Keys(u)
      BY <1>3 DEF Deliver
    <2> HIDE DEF u
    <2>10. Ordered'
      <3>1. \A i \in DOMAIN received' : received'[i].ts < now'
        BY <1>1, <2>2, <2>3, <2>5, <2>6
      <3>2. ASSUME NEW i \in DOMAIN received', NEW j \in DOMAIN received', i <= j
            PROVE  received'[i].ts <= received'[j].ts
        <4>1. CASE j \in DOMAIN received
          <5>1. i \in DOMAIN received
            BY <2>1, <3>2, <4>1
          <5> QED
            BY <2>2, <3>2, <4>1, <5>1 DEF RecordInv, Ordered
        <4>2. CASE j \notin DOMAIN received
          BY <1>1, <2>2, <2>3, <2>5, <4>2
        <4> QED
          BY <4>1, <4>2
      <3> QED
        BY <3>1, <3>2 DEF Ordered
    <2>11. SeenFirst'
      <3>1. ASSUME NEW i \in DOMAIN received', ~received'[i].withdraw
            PROVE  KeyOf(received'[i]) \in DOMAIN firstSeen' /\ firstSeen'[KeyOf(received'[i])] <= received'[i].ts
        <4>1. CASE i \in DOMAIN received
          <5>1. /\ received'[i] = received[i]
                /\ KeyOf(received[i]) \in DOMAIN firstSeen
                /\ firstSeen[KeyOf(received[i])] <= received[i].ts
            BY <2>2, <3>1, <4>1 DEF RecordInv, SeenFirst
          <5> QED
            BY <2>8, <5>1
        <4>2. CASE i \notin DOMAIN received
          <5>1. ~u.withdraw /\ KeyOf(received'[i]) \in Keys(u) /\ received'[i].ts = now
            BY <2>3, <3>1, <4>2
          <5>2. \A k \in DOMAIN firstSeen : firstSeen[k] \in Nat /\ firstSeen[k] < now
            BY DEF StampInv
          <5> QED
            BY <1>1, <2>8, <5>1, <5>2
        <4> QED
          BY <4>1, <4>2
      <3>2. ASSUME NEW k \in DOMAIN firstSeen'
            PROVE  \E i \in DOMAIN received' :
                     ~received'[i].withdraw /\ KeyOf(received'[i]) = k /\ received'[i].ts = firstSeen'[k]
        <4>1. CASE k \in DOMAIN firstSeen
          <5>1. firstSeen'[k] = firstSeen[k]
            BY <2>8, <4>1
          <5>2. PICK i \in DOMAIN received : ~received[i].withdraw /\ KeyOf(received[i]) = k /\ received[i].ts = firstSeen[k]
            BY <4>1 DEF RecordInv, SeenFirst
          <5> QED
            BY <2>2, <5>1, <5>2
        <4>2. CASE k \notin DOMAIN firstSeen
          <5>1. ~u.withdraw /\ k \in Keys(u) /\ firstSeen'[k] = now
            BY <2>8, <3>2, <4>2
          <5>2. PICK i \in DOMAIN received' : i > n /\ KeyOf(received'[i]) = k
            BY <2>4, <5>1
          <5>3. i \notin DOMAIN received
            BY <2>1, <5>2
          <5> QED
            BY <2>3, <5>1, <5>2, <5>3
        <4> QED
          BY <4>1, <4>2
      <3> QED
        BY <1>1, <3>1, <3>2 DEF SeenFirst, KeyOf
    <2>12. GoneLast'
      <3> DEFINE Since(k, i) == /\ KeyOf(received'[i]) = k
                                /\ \A j \in DOMAIN received' : i <= j /\ KeyOf(received'[j]) = k => received'[j].withdraw
      <3>1. ASSUME NEW k, k \in withdrawn'
            PROVE  \E i \in DOMAIN received' : Since(k, i)
        <4>1. CASE k \in Keys(u)
          <5>1. u.withdraw
            BY <2>9, <3>1, <4>1
          <5>2. PICK i \in DOMAIN received' : i > n /\ KeyOf(received'[i]) = k
            BY <2>4, <4>1
          <5>3. ASSUME NEW j \in DOMAIN received', i <= j PROVE received'[j].withdraw
            <6>1. j \notin DOMAIN received
              BY <2>1, <5>2, <5>3
            <6> QED
              BY <2>3, <5>1, <6>1
          <5> QED
            BY <5>2, <5>3
        <4>2. CASE k \notin Keys(u)
          <5>1. k \in withdrawn
            BY <2>9, <3>1, <4>2
          <5>2. PICK i \in DOMAIN received : OnlyGoneSince(k, i)
            BY <5>1 DEF RecordInv, GoneLast
          <5>3. ASSUME NEW j \in DOMAIN received', i <= j, KeyOf(received'[j]) = k PROVE received'[j].withdraw
            <6>1. j \in DOMAIN received
              BY <2>3, <4>2, <5>3
            <6> QED
              BY <2>2, <5>2, <5>3, <6>1 DEF OnlyGoneSince
          <5>4. i \in DOMAIN received' /\ KeyOf(received'[i]) = k
            BY <2>2, <5>2 DEF OnlyGoneSince
          <5> QED
            BY <5>3, <5>4
        <4> QED
          BY <4>1, <4>2
      <3>2. ASSUME NEW k, NEW i \in DOMAIN received', Since(k, i)
            PROVE  k \in withdrawn'
        <4>1. received'[i].withdraw
          BY <2>1, <3>2
        <4>2. CASE i \notin DOMAIN received
          BY <2>3, <2>9, <3>2, <4>1, <4>2
        <4>3. CASE i \in DOMAIN received
          <5>1. OnlyGoneSince(k, i)
            BY <2>2, <3>2, <4>3 DEF OnlyGoneSince
          <5>2. k \in withdrawn
            BY <4>3, <5>1 DEF RecordInv, GoneLast
          <5>3. k \in Keys(u) => u.withdraw
            <6> SUFFICES ASSUME k \in Keys(u) PROVE u.withdraw
              OBVIOUS
            <6>1. PICK j \in DOMAIN received' : j > n /\ KeyOf(received'[j]) = k
              BY <2>4
            <6>2. j \notin DOMAIN received /\ i <= j
              BY <2>1, <4>3, <6>1
            <6> QED
              BY <2>3, <3>2, <6>1, <6>2
          <5> QED
            BY <2>9, <5>2, <5>3
        <4> QED
          BY <4>2, <4>3
      <3> QED
        BY <1>1, <3>1, <3>2 DEF GoneLast, OnlyGoneSince, KeyOf
    <2> QED
      BY <2>10, <2>11, <2>12 DEF RecordInv
  <1> QED
    BY <1>2, <1>3

(* An element describes a route that stands just when its key counts.      *)
LEMMA StandingByKey ==
    ASSUME TypeInv, RecordInv, NEW e, Awaitable(e), HasPrefixes(e), ~HostBits(e), NEW after \in Nat
    PROVE  Standing(e, received, after) <=> Counts(firstSeen, withdrawn, AwaitedKey(e), after)
  <1> DEFINE k == AwaitedKey(e)
             same == {i \in DOMAIN received : KeyOf(received[i]) = k}
             reach == {i \in same : ~received[i].withdraw}
  <1>1. \A d : Describes(e, d) <=> k = KeyOf(d)
    BY DescribedByKey, Zenon DEF KeyOf
  <1>2. {i \in DOMAIN received : Describes(e, received[i])} = same
    BY <1>1
  <1>3. Standing(e, received, after)
          <=> reach # {} /\ Max(same) \in reach /\ received[Min(reach)].ts >= after
    BY <1>2 DEF Standing
  <1>4. /\ Len(received) \in Nat /\ DOMAIN received = 1 .. Len(received)
        /\ \A i \in DOMAIN received : received[i].ts \in Nat /\ received[i].withdraw \in BOOLEAN
    BY TimesOfRecords DEF TypeInv
  <1>5. reach # {} <=> k \in DOMAIN firstSeen
    BY DEF RecordInv, SeenFirst
  <1>6. CASE reach = {}
    BY <1>3, <1>5, <1>6 DEF Counts
  <1>7. CASE reach # {}
    <2>1. /\ Max(same) \in same
          /\ \A y \in same : Max(same) >= y
      <3>1. same \subseteq 0 .. Len(received) /\ same # {}
        BY <1>4, <1>7
      <3> HIDE DEF same
      <3> QED
        BY <1>4, <3>1, MaxOfNaturals
    <2>2. /\ Min(reach) \in reach
          /\ \A y \in reach : Min(reach) <= y
      <3>1. reach \subseteq Nat
        BY <1>4
      <3> HIDE DEF reach
      <3> QED
        BY <1>7, <3>1, MinOfNaturals
    <2> DEFINE last  == Max(same)
               first == Min(reach)
    <2> HIDE DEF last, first
    <2>3. /\ last \in same /\ \A y \in same : last >= y
          /\ first \in reach /\ \A y \in reach : first <= y
      BY <2>1, <2>2 DEF last, first
    <2>4. k \notin withdrawn <=> last \in reach
      <3>1. ASSUME last \notin reach PROVE k \in withdrawn
        <4>1. OnlyGoneSince(k, last)
          <5>1. received[last].withdraw /\ KeyOf(received[last]) = k
            BY <1>4, <2>3, <3>1
          <5>2. ASSUME NEW j \in DOMAIN received, last <= j, KeyOf(received[j]) = k PROVE j = last
            BY <1>4, <2>3, <5>2
          <5> HIDE DEF k
          <5> QED
            BY <5>1, <5>2 DEF OnlyGoneSince
        <4> QED
          BY <2>3, <4>1 DEF RecordInv, GoneLast
      <3>2. ASSUME k \in withdrawn PROVE last \notin reach
        <4>1. PICK i \in DOMAIN received : OnlyGoneSince(k, i)
          BY <3>2 DEF RecordInv, GoneLast
        <4>2. i \in same
          BY <4>1 DEF OnlyGoneSince
        <4>3. i <= last /\ last \in DOMAIN received /\ KeyOf(received[last]) = k
          BY <1>4, <2>3, <4>2
        <4>4. received[last].withdraw
          BY <4>1, <4>3 DEF OnlyGoneSince
        <4> QED
          BY <4>4
      <3> QED
        BY <3>1, <3>2
    <2>5. received[first].ts = firstSeen[k]
      <3>1. PICK i \in DOMAIN received : ~received[i].withdraw /\ KeyOf(received[i]) = k /\ received[i].ts = firstSeen[k]
        BY <1>5, <1>7 DEF RecordInv, SeenFirst
      <3>2. i \in reach /\ first <= i /\ first \in DOMAIN received
        BY <2>3, <3>1
      <3>3. received[first].ts <= received[i].ts
        BY <3>2 DEF RecordInv, Ordered
      <3>4. firstSeen[k] <= received[first].ts
        BY <2>3, <3>2 DEF RecordInv, SeenFirst
      <3> QED
        BY <1>4, <3>1, <3>2, <3>3, <3>4
    <2>6. Standing(e, received, after) <=> last \in reach /\ received[first].ts >= after
      BY <1>3, <1>7 DEF last, first
    <2> HIDE DEF reach, same, k
    <2>7. Counts(firstSeen, withdrawn, k, after) <=> k \notin withdrawn /\ firstSeen[k] >= after
      BY <1>5, <1>7 DEF Counts
    <2> QED
      BY <2>4, <2>5, <2>6, <2>7 DEF k
  <1> QED
    BY <1>6, <1>7

----------------------------------------------------------------------------
\* Times and waits.

(* A delivery tells the wait under way of it, and no other.                *)
LEMMA DeliverNotifies ==
    ASSUME TypeInv, WaitInv, Deliver
    PROVE  /\ ~Busy("rx") => wait' = wait
           /\ Busy("rx") =>
                /\ wait' = [pc |-> "wait", list |-> wait.list, want |-> wait.want,
                            after |-> wait.after, anchor |-> wait.anchor, last |-> wait'.last]
                /\ wait'.last = IF ~Head(wire).withdraw
                                     /\ \E k \in Keys(Head(wire)) \cap wait.want : firstSeen'[k] >= wait.after
                                THEN now ELSE wait.last
  <1> DEFINE u == Head(wire)
             told == \E k \in Keys(u) \cap wait.want : firstSeen'[k] >= wait.after
  <1>1. wait' = IF ~Busy("rx") \/ u.withdraw THEN wait
                ELSE [wait EXCEPT !.last = IF told THEN now ELSE wait.last]
    BY DEF Deliver, Notified
  <1>2. SUFFICES ASSUME Busy("rx")
                 PROVE  /\ wait' = [pc |-> "wait", list |-> wait.list, want |-> wait.want,
                                    after |-> wait.after, anchor |-> wait.anchor, last |-> wait'.last]
                        /\ wait'.last = IF ~u.withdraw /\ told THEN now ELSE wait.last
    BY <1>1
  <1> DEFINE l == wait.list
             w == wait.want
             a == wait.anchor
             t == wait.last
             s == IF told THEN now ELSE wait.last
  <1>3. wait.pc = "wait" /\ Waiting
    BY <1>2 DEF Busy, WaitInv
  <1>4. wait = [pc |-> "wait", list |-> l, want |-> w, after |-> a, anchor |-> a, last |-> t]
    BY <1>3 DEF Waiting
  <1>5. wait' = IF u.withdraw THEN wait ELSE [wait EXCEPT !.last = s]
    BY <1>1, <1>2
  <1>6. s = IF told THEN now ELSE t
    OBVIOUS
  <1> HIDE DEF l, w, a, t, s, told, u
  <1>7. wait' = [pc |-> "wait", list |-> l, want |-> w, after |-> a, anchor |-> a,
                 last |-> IF u.withdraw THEN t ELSE s]
    BY <1>4, <1>5
  <1>8. /\ wait'.last = IF u.withdraw THEN t ELSE s
        /\ wait.after = a
    BY <1>4, <1>7
  <1> QED
    BY <1>6, <1>7, <1>8 DEF l, w, a, t, s

LEMMA StampStep ==
    ASSUME TypeInv, CallInv, WaitInv, StampInv, Next
    PROVE  StampInv'
  <1>1. /\ now \in Nat /\ sentAt \in Nat /\ sentAt < now
        /\ Busy("tx") => send.ts \in Nat /\ send.ts < now
        /\ Busy("rx") => wait.anchor \in Nat /\ wait.anchor < now
    BY DEF TypeInv, CallInv, StampInv, WaitInv, Waiting, Busy
  <1>2. \A k \in DOMAIN firstSeen :
          /\ firstSeen[k] \in Nat \ {0} /\ firstSeen[k] < now
          /\ firstSeen[k] # sentAt
          /\ Busy("tx") => firstSeen[k] # send.ts
          /\ Busy("rx") => firstSeen[k] # wait.anchor
    BY DEF StampInv
  <1>3. CASE UNCHANGED <<now, send, sentAt, firstSeen, wait>>
    BY <1>3 DEF StampInv, Busy
  <1>4. ASSUME NEW c \in script.calls, Begin(c) PROVE StampInv'
    <2>1. UNCHANGED <<now, sentAt, firstSeen, wait>>
      BY <1>4 DEF Begin, setVars, waitVars
    <2>2. send'.pc = "write" => send'.ts = 0
      BY <1>4 DEF Begin, Idle
    <2> QED
      BY <1>1, <1>2, <2>1, <2>2 DEF StampInv, Busy
  <1>5. CASE Write
    <2>1. now' = now + 1 /\ UNCHANGED <<firstSeen, wait>> /\ Busy("tx")
      BY <1>5 DEF Write, setVars, waitVars
    <2> DEFINE t == IF send.ts = 0 THEN now ELSE send.ts
    <2>2. \/ send' = Idle /\ sentAt' = t
          \/ sentAt' = sentAt /\ \E n : send' = [send EXCEPT !.next = n, !.ts = t]
      BY <1>5 DEF Write
    <2>3. t \in Nat /\ t < now' /\ \A k \in DOMAIN firstSeen : firstSeen[k] # t
      BY <1>1, <1>2, <2>1
    <2>4. DOMAIN send = {"pc", "call", "next", "ts"}
      <3>1. send = [pc |-> "write", call |-> send.call, next |-> send.next, ts |-> send.ts]
        BY <2>1 DEF CallInv
      <3> QED
        BY <3>1
    <2>5. /\ sentAt' \in {sentAt, t}
          /\ send'.pc = "write" => send'.ts = t
      <3> HIDE DEF t
      <3>1. CASE send' = Idle /\ sentAt' = t
        BY <3>1 DEF Idle
      <3>2. CASE sentAt' = sentAt /\ \E n : send' = [send EXCEPT !.next = n, !.ts = t]
        BY <2>4, <3>2
      <3> QED
        BY <2>2, <3>1, <3>2
    <2> HIDE DEF t
    <2>6. sentAt' < now' /\ (Busy("tx")' => send'.ts < now') /\ (Busy("rx")' => wait'.anchor < now')
      BY <1>1, <2>1, <2>3, <2>5 DEF Busy
    <2>7. ASSUME NEW k \in DOMAIN firstSeen'
          PROVE  /\ firstSeen'[k] \in Nat \ {0} /\ firstSeen'[k] < now'
                 /\ firstSeen'[k] # sentAt'
                 /\ Busy("tx")' => firstSeen'[k] # send'.ts
                 /\ Busy("rx")' => firstSeen'[k] # wait'.anchor
      BY <1>1, <1>2, <2>1, <2>3, <2>5 DEF Busy
    <2> QED
      BY <2>6, <2>7 DEF StampInv
  <1>6. CASE WriteFails
    <2>1. UNCHANGED <<now, sentAt, firstSeen, wait>> /\ send'.pc = "idle"
      BY <1>6 DEF WriteFails, setVars, waitVars, Idle
    <2> QED
      BY <2>1 DEF StampInv, Busy
  <1>7. CASE Deliver
    <2>1. now' = now + 1 /\ UNCHANGED <<send, sentAt>>
      BY <1>7 DEF Deliver, sendVars
    <2>2. wait'.anchor = wait.anchor /\ wait'.pc = wait.pc
      <3>1. CASE Busy("rx")
        <4> DEFINE w == wait.want
                   l == wait.list
                   f == wait.after
                   a == wait.anchor
                   t == wait'.last
        <4>1. wait' = [pc |-> "wait", list |-> l, want |-> w, after |-> f, anchor |-> a, last |-> t]
          BY <1>7, <3>1, DeliverNotifies
        <4> HIDE DEF w, l, f, a, t
        <4>2. wait'.anchor = a /\ wait'.pc = "wait"
          BY <4>1
        <4>3. wait.pc = "wait"
          BY <3>1 DEF Busy
        <4> QED
          BY <4>2, <4>3 DEF a
      <3>2. CASE ~Busy("rx")
        BY <1>7, <3>2, DeliverNotifies
      <3> QED
        BY <3>1, <3>2
    <2>3. \A k \in DOMAIN firstSeen' :
            \/ k \in DOMAIN firstSeen /\ firstSeen'[k] = firstSeen[k]
            \/ firstSeen'[k] = now
      <3>1. \/ firstSeen' = firstSeen
            \/ firstSeen' = [key \in DOMAIN firstSeen \cup Keys(Head(wire)) |->
                               IF key \in DOMAIN firstSeen THEN firstSeen[key] ELSE now]
        BY <1>7 DEF Deliver
      <3> QED
        BY <3>1
    <2>4. Busy("tx")' = Busy("tx") /\ Busy("rx")' = Busy("rx")
      BY <2>1, <2>2 DEF Busy
    <2>5. ASSUME NEW k \in DOMAIN firstSeen'
          PROVE  /\ firstSeen'[k] \in Nat \ {0} /\ firstSeen'[k] < now'
                 /\ firstSeen'[k] # sentAt'
                 /\ Busy("tx")' => firstSeen'[k] # send'.ts
                 /\ Busy("rx")' => firstSeen'[k] # wait'.anchor
      BY <1>1, <1>2, <2>1, <2>2, <2>3, <2>4 DEF Busy
    <2> QED
      BY <1>1, <2>1, <2>2, <2>4, <2>5 DEF StampInv
  <1>8. ASSUME NEW list \in script.lists, NEW anchored \in BOOLEAN, BeginWait(list, anchored) PROVE StampInv'
    <2>1. UNCHANGED <<now, send, sentAt, firstSeen>>
      BY <1>8 DEF BeginWait, sendVars, setVars
    <2>2. wait'.pc = "wait" => wait'.anchor \in {0, sentAt}
      BY <1>8 DEF BeginWait
    <2> QED
      BY <1>1, <1>2, <2>1, <2>2 DEF StampInv, Busy
  <1>9. CASE EndWait
    <2>1. UNCHANGED <<now, send, sentAt, firstSeen>> /\ wait'.pc # "wait"
      BY <1>9 DEF EndWait, sendVars, setVars
    <2> QED
      BY <2>1 DEF StampInv, Busy
  <1>10. ASSUME ~ \E c \in script.calls : Begin(c), ~Write, ~WriteFails, ~Deliver, ~EndWait,
                ~ \E list \in script.lists, anchored \in BOOLEAN : BeginWait(list, anchored)
         PROVE  UNCHANGED <<now, send, sentAt, firstSeen, wait>>
    BY <1>10 DEF Next, Open, Close, Fail, Break, Drop, sendVars, setVars, waitVars
  <1> QED
    BY <1>3, <1>4, <1>5, <1>6, <1>7, <1>8, <1>9, <1>10

(* What was received first stays so.                                       *)
LEMMA FirstRecordsStay ==
    ASSUME TypeInv, TypeInv', Deliver, NEW n \in 0 .. Len(received)
    PROVE  SubSeq(received', 1, n) = SubSeq(received, 1, n)
  <1>1. /\ received \in Seq(RecordSet) /\ Len(received) \in Nat
        /\ \A i \in 1 .. Len(received) : received'[i] = received[i]
        /\ Len(received) <= Len(received') /\ DOMAIN received' = 1 .. Len(received')
    BY DeliverAdds DEF TypeInv
  <1>2. received' \in Seq(RecordSet')
    BY DEF TypeInv
  <1>3. \A i \in 1 .. n : received[i] \in RecordSet /\ received'[i] = received[i]
    BY <1>1
  <1>4. /\ SubSeq(received, 1, n) \in Seq(RecordSet) /\ Len(SubSeq(received, 1, n)) = n
        /\ \A i \in 1 .. n : SubSeq(received, 1, n)[i] = received[i]
    BY <1>1, <1>3
  <1>5. /\ SubSeq(received', 1, n) \in Seq(RecordSet) /\ Len(SubSeq(received', 1, n)) = n
        /\ \A i \in 1 .. n : SubSeq(received', 1, n)[i] = received'[i]
    BY <1>1, <1>2, <1>3
  <1> QED
    BY <1>3, <1>4, <1>5, SeqEqual

(* The two parts of WaitSeesStanding.                                      *)
Truthful ==
    \A e \in wait.list :
       \/ HostBits(e)
       \/ AwaitedKey(e) \notin wait.missing
            <=> Standing(e, SubSeq(received, 1, wait.upto), wait.after)

RightlyRefused == ~wait.opened \/ \E e \in wait.list : ~IsString(e) /\ ~Advertisable(e)

LEMMA WaitSeesStandingParts ==
    WaitSeesStanding <=> /\ wait.pc \in {"ok", "failed"} => Truthful
                         /\ wait.pc = "refused" => RightlyRefused
  BY DEF WaitSeesStanding, Truthful, RightlyRefused

LEMMA WaitStep ==
    ASSUME TypeInv, TypeInv', RecordInv, StampInv, WaitInv, Next
    PROVE  WaitInv'
  <1>1. now \in Nat /\ script' = script
    BY DEF TypeInv, Next, Open, Close, Fail, Break, Begin, Write, WriteFails, Deliver, Drop,
           BeginWait, EndWait, peerVars
  <1>2. \A e, s, a : Standing(e, s, a)' <=> Standing(e, s, a)
    BY <1>1 DEF Standing, Describes
  <1>3. CASE UNCHANGED <<firstSeen, withdrawn, received, wait>>
    <2>1. Truthful' <=> Truthful
      BY <1>2, <1>3 DEF Truthful
    <2>2. RightlyRefused' <=> RightlyRefused
      BY <1>3 DEF RightlyRefused
    <2>3. WaitSeesStanding' <=> WaitSeesStanding
      BY <1>3, <2>1, <2>2 DEF WaitSeesStanding, Truthful, RightlyRefused
    <2>4. (AllAwaitable' <=> AllAwaitable) /\ (Waiting' <=> Waiting)
      BY <1>3 DEF AllAwaitable, Waiting
    <2> QED
      BY <1>1, <1>3, <2>3, <2>4 DEF WaitInv
  <1>4. CASE Deliver
    <2>1. CASE ~Busy("rx")
      <3>1. wait' = wait /\ wait.pc # "wait"
        BY <1>4, <2>1, DeliverNotifies DEF Busy
      <3>2. ASSUME wait.pc \in {"ok", "failed"}
            PROVE  Truthful' /\ wait.upto \in 0 .. Len(received')
        <4>1. wait.upto \in 0 .. Len(received) /\ Truthful
          BY <3>2, WaitSeesStandingParts DEF WaitInv
        <4>2. SubSeq(received', 1, wait.upto) = SubSeq(received, 1, wait.upto)
          BY <1>4, <4>1, FirstRecordsStay
        <4>3. Truthful'
          BY <1>2, <3>1, <4>1, <4>2 DEF Truthful
        <4>4. Len(received) <= Len(received') /\ Len(received) \in Nat /\ Len(received') \in Nat
          BY <1>4, DeliverAdds
        <4> QED
          BY <4>1, <4>3, <4>4
      <3>3. wait.pc = "refused" => RightlyRefused'
        BY <3>1, WaitSeesStandingParts DEF WaitInv, RightlyRefused
      <3>4. WaitSeesStanding'
        BY <3>1, <3>2, <3>3 DEF WaitSeesStanding, Truthful, RightlyRefused
      <3>5. AllAwaitable' <=> AllAwaitable
        BY <3>1 DEF AllAwaitable
      <3> QED
        BY <1>1, <3>1, <3>2, <3>4, <3>5 DEF WaitInv
    <2>2. CASE Busy("rx")
      <3> DEFINE u == Head(wire)
                 l == wait.list
                 w == wait.want
                 a == wait.anchor
                 told == \E k \in Keys(u) \cap w : firstSeen'[k] >= a
                 t == wait'.last
      <3>1. Waiting /\ AllAwaitable /\ l \in script.lists
        BY <2>2 DEF WaitInv, Busy
      <3>2. wait.after = a /\ w = {AwaitedKey(e) : e \in l} /\ wait.last \in Nat /\ a \in Nat
        <4> DEFINE s == wait.last
                   ks == {AwaitedKey(e) : e \in l}
        <4>1. wait = [pc |-> "wait", list |-> l, want |-> ks, after |-> a, anchor |-> a, last |-> s]
          BY <3>1 DEF Waiting
        <4> HIDE DEF l, a, s, ks
        <4>2. wait.after = a /\ wait.want = ks
          BY <4>1
        <4> QED
          BY <3>1, <4>2 DEF Waiting, ks, a
      <3>3. /\ wait' = [pc |-> "wait", list |-> l, want |-> w, after |-> wait.after, anchor |-> a, last |-> t]
            /\ t = IF ~u.withdraw /\ told THEN now ELSE wait.last
        BY <1>4, <2>2, <3>2, DeliverNotifies
      <3>4. \A k \in DOMAIN firstSeen : firstSeen[k] \in Nat /\ firstSeen[k] < now
        BY DEF StampInv
      <3>5. \A k \in w : Counts(firstSeen, withdrawn, k, a) => firstSeen[k] <= wait.last
        BY <3>1, <3>2 DEF Waiting
      <3>6. firstSeen' = IF u.withdraw THEN firstSeen
                         ELSE [key \in DOMAIN firstSeen \cup Keys(u) |->
                                 IF key \in DOMAIN firstSeen THEN firstSeen[key] ELSE now]
        BY <1>4 DEF Deliver
      <3>7. withdrawn' = IF u.withdraw THEN withdrawn \cup Keys(u) ELSE withdrawn \ Keys(u)
        BY <1>4 DEF Deliver
      <3>8. t \in Nat
        BY <1>1, <3>2, <3>3
      <3> HIDE DEF u, t
      <3>9. ASSUME NEW k \in w, Counts(firstSeen', withdrawn', k, a)
            PROVE  firstSeen'[k] <= t
        <4>1. k \in DOMAIN firstSeen' /\ k \notin withdrawn' /\ firstSeen'[k] >= a
          BY <3>9 DEF Counts
        <4>2. CASE u.withdraw
          <5>1. Counts(firstSeen, withdrawn, k, a)
            BY <3>6, <3>7, <4>1, <4>2 DEF Counts
          <5> QED
            BY <3>3, <3>5, <3>6, <4>2, <5>1
        <4>3. CASE ~u.withdraw /\ k \in Keys(u)
          <5>1. told /\ t = now
            BY <3>3, <4>1, <4>3
          <5>2. firstSeen'[k] \in Nat /\ firstSeen'[k] <= now
            BY <1>1, <3>4, <3>6, <4>1, <4>3
          <5> QED
            BY <5>1, <5>2
        <4>4. CASE ~u.withdraw /\ k \notin Keys(u)
          <5>1. k \in DOMAIN firstSeen /\ firstSeen'[k] = firstSeen[k]
            BY <3>6, <4>1, <4>4
          <5>2. Counts(firstSeen, withdrawn, k, a)
            BY <3>7, <4>1, <4>4, <5>1 DEF Counts
          <5>3. firstSeen[k] <= wait.last /\ firstSeen[k] \in Nat /\ firstSeen[k] < now
            BY <3>4, <3>5, <5>1, <5>2
          <5> HIDE DEF told
          <5> QED
            BY <1>1, <3>2, <3>3, <5>1, <5>3
        <4> QED
          BY <4>2, <4>3, <4>4
      <3> HIDE DEF l, w, a, told
      <3>10. wait'.pc = "wait" /\ wait'.list = l /\ wait'.want = w /\ wait'.after = a /\ wait'.anchor = a /\ wait'.last = t
        BY <3>2, <3>3
      <3>11. wait' = [pc |-> "wait", list |-> l, want |-> {AwaitedKey(e) : e \in l}, after |-> a, anchor |-> a, last |-> t]
        BY <3>2, <3>3
      <3>12. Waiting'
        BY <3>2, <3>8, <3>9, <3>10, <3>11 DEF Waiting
      <3>13. AllAwaitable' /\ WaitSeesStanding'
        BY <3>1, <3>10 DEF AllAwaitable, WaitSeesStanding, l
      <3> QED
        BY <1>1, <3>1, <3>10, <3>12, <3>13 DEF WaitInv
    <2> QED
      BY <2>1, <2>2
  <1>5. ASSUME NEW list \in script.lists, NEW anchored \in BOOLEAN, BeginWait(list, anchored) PROVE WaitInv'
    <2> DEFINE want == {AwaitedKey(e) : e \in list}
               after == OnlyAfter(anchored)
               t == LastOf(want, after)
    <2>1. UNCHANGED <<firstSeen, withdrawn, received>>
      BY <1>5 DEF BeginWait, setVars
    <2>2. CASE state["rx"] # "new" /\ \A e \in list : Awaitable(e)
      <3>1. wait' = [pc |-> "wait", list |-> list, want |-> want, after |-> after, anchor |-> after, last |-> t]
        BY <1>5, <2>2 DEF BeginWait, OnlyAfter
      <3>2. after \in Nat
        BY DEF OnlyAfter, TypeInv
      <3>3. t \in Nat /\ \A k \in want : Counts(firstSeen, withdrawn, k, after) => firstSeen[k] <= t
        <4> DEFINE counted == {k \in want : Counts(firstSeen, withdrawn, k, after)}
                   S == {0} \cup {firstSeen[k] : k \in counted}
        <4>1. \A k \in counted : firstSeen[k] \in 0 .. now
          BY <1>1 DEF StampInv, Counts
        <4>2. S \subseteq 0 .. now /\ S # {}
          BY <1>1, <4>1
        <4>3. t = Max(S)
          BY DEF LastOf
        <4>4. Max(S) \in S /\ \A y \in S : Max(S) >= y
          <5> HIDE DEF S
          <5> QED
            BY <1>1, <4>2, MaxOfNaturals
        <4>5. \A k \in counted : firstSeen[k] \in S
          OBVIOUS
        <4>6. \A y \in S : y \in Nat
          BY <4>2
        <4> HIDE DEF S, t, want, after
        <4>7. t \in Nat /\ \A k \in counted : firstSeen[k] <= t
          BY <4>3, <4>4, <4>5, <4>6
        <4> QED
          BY <4>7
      <3> HIDE DEF want, after, t
      <3>4. wait'.pc = "wait" /\ wait'.list = list /\ wait'.want = want /\ wait'.after = after
            /\ wait'.anchor = after /\ wait'.last = t
        BY <3>1
      <3>5. Waiting'
        BY <2>1, <3>1, <3>2, <3>3, <3>4 DEF Waiting, want
      <3>6. AllAwaitable' /\ WaitSeesStanding'
        BY <2>2, <3>4 DEF AllAwaitable, WaitSeesStanding
      <3> QED
        BY <1>1, <3>4, <3>5, <3>6 DEF WaitInv
    <2>3. CASE ~(state["rx"] # "new" /\ \A e \in list : Awaitable(e))
      <3>1. wait' = [pc |-> "refused", list |-> list, opened |-> state["rx"] # "new"]
        BY <1>5, <2>3 DEF BeginWait
      <3>2. wait'.pc = "refused" /\ wait'.list = list /\ (wait'.opened <=> state["rx"] # "new")
        <4> DEFINE o == state["rx"] # "new"
        <4>1. wait' = [pc |-> "refused", list |-> list, opened |-> o]
          BY <3>1, Zenon
        <4>2. o \in BOOLEAN
          OBVIOUS
        <4> HIDE DEF o
        <4>3. wait'.pc = "refused" /\ wait'.list = list /\ wait'.opened = o
          BY <4>1
        <4> QED
          BY <4>3, Zenon DEF o
      <3>3. RightlyRefused'
        <4> SUFFICES ASSUME state["rx"] # "new" PROVE \E e \in list : ~IsString(e) /\ ~Advertisable(e)
          BY <3>2 DEF RightlyRefused
        <4>1. PICK e \in list : ~Awaitable(e)
          BY <2>3
        <4>2. ~IsString(e) /\ ~Advertisable(e)
          BY <4>1, AdvertisableIsAwaitable DEF Awaitable
        <4> QED
          BY <4>2
      <3>4. WaitSeesStanding'
        BY <3>2, <3>3 DEF WaitSeesStanding, RightlyRefused
      <3> QED
        BY <1>1, <3>2, <3>4 DEF WaitInv
    <2> QED
      BY <2>2, <2>3
  <1>6. CASE EndWait
    <2> DEFINE l == wait.list
               a == wait.anchor
               t == wait.last
               missing == {k \in wait.want : ~Counts(firstSeen, withdrawn, k, wait.after)}
               p == IF missing = {} THEN "ok" ELSE "failed"
    <2>1. /\ UNCHANGED <<firstSeen, withdrawn, received>>
          /\ wait' = [pc |-> p, list |-> l, after |-> wait.after, anchor |-> a, last |-> t,
                      missing |-> missing, upto |-> Len(received)]
      BY <1>6 DEF EndWait, setVars
    <2>2. Waiting /\ AllAwaitable /\ l \in script.lists
      BY <1>6 DEF EndWait, WaitInv, Busy
    <2>3. /\ wait.want = {AwaitedKey(e) : e \in l} /\ wait.after = a
          /\ a \in Nat /\ t \in Nat
      <3> DEFINE ks == {AwaitedKey(e) : e \in l}
      <3>1. wait = [pc |-> "wait", list |-> l, want |-> ks, after |-> a, anchor |-> a, last |-> t]
        BY <2>2 DEF Waiting
      <3>2. a \in Nat /\ t \in Nat
        BY <2>2 DEF Waiting
      <3> HIDE DEF l, a, t, ks
      <3>3. wait.after = a /\ wait.want = ks
        BY <3>1
      <3> QED
        BY <3>2, <3>3 DEF ks
    <2>4. ASSUME missing = {} PROVE a < t
      <3>1. PICK e \in l : TRUE
        BY <2>2, ListAssumption DEF TypeInv
      <3> DEFINE k == AwaitedKey(e)
      <3>2. k \in wait.want
        BY <2>3
      <3> HIDE DEF k
      <3>3. Counts(firstSeen, withdrawn, k, wait.after)
        BY <2>4, <3>2
      <3>4. firstSeen[k] <= t
        BY <2>2, <3>2, <3>3 DEF Waiting
      <3>5. k \in DOMAIN firstSeen /\ firstSeen[k] >= a
        BY <2>3, <3>3 DEF Counts
      <3>6. firstSeen[k] # a /\ firstSeen[k] \in Nat
        BY <1>6, <3>5 DEF StampInv, EndWait
      <3> HIDE DEF a, t
      <3> QED
        BY <2>3, <3>4, <3>5, <3>6
    <2>5. ASSUME NEW e \in l, ~HostBits(e)
          PROVE  AwaitedKey(e) \notin missing <=> Standing(e, received, a)
      <3>1. HasPrefixes(e)
        BY <2>2, ListAssumption DEF HasPrefixes, TypeInv
      <3>2. Awaitable(e)
        BY <2>2 DEF AllAwaitable
      <3>3. Standing(e, received, a) <=> Counts(firstSeen, withdrawn, AwaitedKey(e), a)
        BY <2>3, <2>5, <3>1, <3>2, StandingByKey
      <3>4. AwaitedKey(e) \in wait.want
        BY <2>3
      <3> QED
        BY <2>3, <3>3, <3>4
    <2>6. SubSeq(received, 1, Len(received)) = received /\ Len(received) \in Nat
      BY SubSeqFull DEF TypeInv
    <2> HIDE DEF l, a, t, missing
    <2>7. /\ wait'.pc = p /\ wait'.list = l /\ wait'.after = a /\ wait'.anchor = a /\ wait'.last = t
          /\ wait'.missing = missing /\ wait'.upto = Len(received)
      <3> HIDE DEF p
      <3> QED
        BY <2>1, <2>3
    <2>8. Truthful'
      BY <1>2, <2>1, <2>5, <2>6, <2>7 DEF Truthful
    <2>9. WaitSeesStanding'
      BY <2>7, <2>8 DEF WaitSeesStanding, Truthful
    <2>10. AllAwaitable'
      BY <2>2, <2>7 DEF AllAwaitable, l
    <2> QED
      BY <1>1, <2>1, <2>2, <2>3, <2>4, <2>6, <2>7, <2>9, <2>10 DEF WaitInv
  <1>7. ASSUME ~Deliver, ~EndWait,
               ~ \E list \in script.lists, anchored \in BOOLEAN : BeginWait(list, anchored)
        PROVE  UNCHANGED <<firstSeen, withdrawn, received, wait>>
    BY <1>7 DEF Next, Open, Close, Fail, Break, Begin, Write, WriteFails, Drop, setVars, waitVars
  <1> QED
    BY <1>3, <1>4, <1>5, <1>6, <1>7

----------------------------------------------------------------------------
\* The theorems.

LEMMA InitInv ==
    ASSUME Init
    PROVE  DeliveryInv
  <1> USE DEF Init
  <1>1. TypeInv
    <2>1. wire \in Seq(UpdateSet) /\ received \in Seq(RecordSet)
      BY EmptySeq
    <2>2. state \in [Peers -> {"new", "up", "broken", "closed"}] /\ metric \in [sent : Nat, received : Nat]
      OBVIOUS
    <2> QED
      BY <2>1, <2>2 DEF TypeInv
  <1>2. CallInv /\ CountInv
    BY DEF CallInv, CountInv, Written, Busy, Idle
  <1>3. DOMAIN received = {} /\ DOMAIN firstSeen = {}
    OBVIOUS
  <1>4. RecordInv
    BY <1>3 DEF RecordInv, Ordered, SeenFirst, GoneLast
  <1>5. StampInv
    BY <1>3 DEF StampInv, Busy, Idle
  <1>6. WaitInv
    BY DEF WaitInv, WaitSeesStanding, Idle
  <1> QED
    BY <1>1, <1>2, <1>4, <1>5, <1>6 DEF DeliveryInv

LEMMA StutterInv ==
    ASSUME DeliveryInv, UNCHANGED vars
    PROVE  DeliveryInv'
  <1> USE DEF vars, peerVars, sendVars, setVars, waitVars, countVars
  <1>1. TypeInv'
    BY DEF DeliveryInv, TypeInv, UpdateSet, RecordSet, Families, RouteSet
  <1>2. CallInv' /\ CountInv'
    BY DEF DeliveryInv, CallInv, CountInv, Written, Busy
  <1>3. RecordInv'
    BY DEF DeliveryInv, RecordInv, Ordered, SeenFirst, GoneLast, OnlyGoneSince, KeyOf
  <1>4. StampInv'
    BY DEF DeliveryInv, StampInv, Busy
  <1>5. WaitInv'
    <2>1. WaitSeesStanding' <=> WaitSeesStanding
      BY DEF WaitSeesStanding, Standing, Describes
    <2> QED
      BY <2>1 DEF DeliveryInv, WaitInv, AllAwaitable, Waiting
  <1> QED
    BY <1>1, <1>2, <1>3, <1>4, <1>5 DEF DeliveryInv

(* The invariant is inductive: what the observed set of a session holds is *)
(* always what the session was sent (applyUpdate, recv.go:165), and what a *)
(* call and a wait know of the other side is never wrong.                  *)
THEOREM DeliveryInvariant == Spec => []DeliveryInv
  <1>1. Init => DeliveryInv
    BY InitInv
  <1>2. DeliveryInv /\ [Next]_vars => DeliveryInv'
    <2>1. ASSUME DeliveryInv, Next PROVE DeliveryInv'
      <3>1. TypeInv /\ CallInv /\ CountInv /\ RecordInv /\ StampInv /\ WaitInv
        BY <2>1 DEF DeliveryInv
      <3>2. TypeInv'
        BY <2>1, <3>1, TypeStep
      <3>3. CallInv' /\ CountInv'
        BY <2>1, <3>1, CallStep, CountStep
      <3>4. RecordInv' /\ StampInv'
        BY <2>1, <3>1, RecordStep, StampStep
      <3>5. WaitInv'
        BY <2>1, <3>1, <3>2, WaitStep
      <3> QED
        BY <3>2, <3>3, <3>4, <3>5 DEF DeliveryInv
    <2> QED
      BY <2>1, StutterInv
  <1> QED
    BY <1>1, <1>2, PTL DEF Spec

(* A wait says of every element whether a route it describes stands, and   *)
(* refuses nothing that could be advertised but an IP prefix in an object: *)
(* descriptorKey (bgp.go:577) and NLRI.String() agree on every route.      *)
THEOREM WaitsSeeWhatStands == Spec => []WaitSeesStanding
  <1>1. DeliveryInv => WaitSeesStanding
    BY DEF DeliveryInv, WaitInv
  <1> QED
    BY <1>1, DeliveryInvariant, PTL

(* The counter of sent routes is exact but for calls under way or torn     *)
(* (recordSent, bgp.go:317), and no wait that is anchored at a write and   *)
(* succeeds lacks a duration (bgp.go:388).                                 *)
THEOREM MetricsAreExact == Spec => []MetricsExact
  <1>1. ASSUME DeliveryInv PROVE MetricsExact
    <2>1. metric.sent \in Nat /\ announced \in Nat /\ Written \in Nat
      BY <1>1, CallOfScript DEF DeliveryInv, TypeInv, Written, CallInv
    <2>2. metric.sent <= announced
      BY <1>1, <2>1 DEF DeliveryInv, CountInv
    <2>3. ~torn /\ (Busy("tx") => send.call.withdraw) => metric.sent = announced
      <3> SUFFICES ASSUME ~torn, Busy("tx") => send.call.withdraw PROVE metric.sent = announced
        OBVIOUS
      <3>1. Written = 0
        BY DEF Written
      <3> QED
        BY <1>1, <2>1, <3>1 DEF DeliveryInv, CountInv
    <2>4. wait.pc = "ok" /\ wait.anchor > 0 => wait.last > wait.anchor
      BY <1>1 DEF DeliveryInv, WaitInv
    <2> QED
      BY <2>2, <2>3, <2>4 DEF MetricsExact
  <1> QED
    BY <1>1, DeliveryInvariant, PTL
=============================================================================
