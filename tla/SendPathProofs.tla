--------------------------- MODULE SendPathProofs ---------------------------
(***************************************************************************)
(* Proofs about SendPath, for all families, offers, routes and lengths.    *)
(*                                                                         *)
(* AgreedInv: the two sides of a session agree.  SendInv: what the chunks, *)
(* the writes and the timestamps are at every point of a call; it is       *)
(* inductive, and every safety property of SendPath follows from it.  No   *)
(* sum over routes occurs in it, since all is said in terms of ends.       *)
(***************************************************************************)
EXTENDS SendPath, SequenceTheorems, TLAPS

----------------------------------------------------------------------------
\* What a usable configuration comes to.

(* A number that fits the field of the OPEN is not changed by it.          *)
LEMMA FitsField == ASSUME NEW n \in Int, n >= 0, n <= 65535 PROVE n % 65536 = n
  OBVIOUS

(* What passes Validate fits the hold time of the OPEN, and an OPEN has    *)
(* none of one or two seconds.                                             *)
LEMMA HoldFits ==
    ASSUME NEW c \in Config, Usable(c)
    PROVE  OfferedHold(c) \in Nat \ {1, 2}
  <1> DEFINE hold == Seconds(IF c.hold = 0 THEN 180000 ELSE c.hold)
  <1>1. c.hold \in Int
    BY ConfigAssumption
  <1>2. hold \in Int
    BY <1>1 DEF Seconds
  <1>3. hold = 180 \/ hold = 0 \/ (hold >= 3 /\ hold <= 65535)
    <2>1. Validate(c)
      BY DEF Usable
    <2>2. Seconds(180000) = 180
      BY DEF Seconds
    <2> QED
      BY <2>1, <2>2 DEF Validate
  <1>4. hold >= 0 /\ hold <= 65535 /\ hold \notin {1, 2}
    BY <1>2, <1>3
  <1> QED
    BY <1>2, <1>4, FitsField DEF OfferedHold

(* The OPEN that BuildOpen makes is an offer like any other.               *)
LEMMA OpenIsOffer ==
    ASSUME NEW c \in Config, Usable(c)
    PROVE  BuildOpen(c) \in Offer /\ BuildOpen(c).hold \notin {1, 2}
  <1>1. BuildOpen(c).hold \in Nat \ {1, 2}
    BY HoldFits DEF BuildOpen
  <1>2. /\ Capability(c, "extendedMessage") \in BOOLEAN
        /\ Capability(c, "routeRefresh") \in BOOLEAN
        /\ Capability(c, "enhancedRouteRefresh") \in BOOLEAN
    BY ConfigAssumption
  <1>3. BuildOpen(c).addPath \in [Family -> SUBSET Direction]
    <2> DEFINE modes == Capability(c, "addPath")
    <2>1. ASSUME NEW f \in DOMAIN modes
          PROVE  ResolveAddPathMode[modes[f]] \subseteq Direction
      <3>1. "addPath" \in DOMAIN c.capabilities
        BY DEF Capability, CapabilityDefaults
      <3>2. modes[f] \in DOMAIN ResolveAddPathMode
        BY <3>1 DEF Usable, AddPathParses, Capability
      <3> QED
        BY <3>2 DEF ResolveAddPathMode, Direction
    <2> QED
      BY <2>1 DEF BuildOpen
  <1> QED
    BY <1>1, <1>2, <1>3 DEF BuildOpen, Offer

----------------------------------------------------------------------------
\* What acceptPeerOpen concludes, from one side and from the other.

(* The hold time does not depend on the side that works it out.            *)
LEMMA HoldIsSymmetric ==
    ASSUME NEW mine \in Offer, NEW theirs \in Offer
    PROVE  NegotiatedHold(mine, theirs) = NegotiatedHold(theirs, mine)
  BY DEF NegotiatedHold, Offer

(* It is one of the two that were offered.                                 *)
LEMMA HoldIsOffered ==
    ASSUME NEW mine \in Offer, NEW theirs \in Offer
    PROVE  NegotiatedHold(mine, theirs) \in {mine.hold, theirs.hold}
  BY DEF NegotiatedHold, Offer

(* A hold time of three seconds or more leaves a keepalive in time.        *)
LEMMA TickIsInTime ==
    ASSUME NEW hold \in Nat, hold \notin {1, 2}
    PROVE  /\ KeepaliveTick(hold) \in Nat
           /\ KeepaliveTick(hold) = 0 <=> hold = 0
           /\ KeepaliveTick(hold) < hold \/ hold = 0
  <1>1. CASE hold = 0
    BY <1>1 DEF KeepaliveTick
  <1>2. CASE hold > 2
    <2>1. hold \div 3 \in Nat /\ hold \div 3 < hold
      BY <1>2
    <2> QED
      BY <1>2, <2>1 DEF KeepaliveTick
  <1> QED
    BY <1>1, <1>2

(* Each direction of ADD-PATH is the other one at the other end.           *)
LEMMA ModesAreMirrored ==
    ASSUME NEW mine \in SUBSET Direction, NEW theirs \in SUBSET Direction,
           NEW d \in Direction
    PROVE  d \in NegotiatedMode(mine, theirs)
             <=> Opposite(d) \in NegotiatedMode(theirs, mine)
  BY DEF NegotiatedMode, Opposite, Direction

----------------------------------------------------------------------------
\* The session is what acceptPeerOpen made of the OPENs, and stays so.

AgreedInv ==
    /\ local \in Offer /\ local.hold \notin {1, 2} /\ remote \in Remote
    /\ pc \notin {"handshake", "rejected"} =>
         session = AcceptPeerOpen(local, remote) /\ Acceptable(remote)

(* Before the handshake nothing is agreed.                                 *)
LEMMA AgreedFirst == Init => AgreedInv
  BY OpenIsOffer DEF Init, AgreedInv

(* Only Established concludes anything from the OPENs, and nothing that    *)
(* runs afterwards changes it or returns to the handshake.                 *)
LEMMA AgreedNext == AgreedInv /\ [Next]_vars => AgreedInv'
  <1> SUFFICES ASSUME AgreedInv, [Next]_vars
               PROVE  AgreedInv'
    OBVIOUS
  <1> USE DEF AgreedInv
  <1>1. CASE Established
    BY <1>1 DEF Established
  <1>2. CASE Rejected
    BY <1>2 DEF Rejected, handshakeVars
  <1>3. ASSUME NEW c \in Call, NEW e \in Batches, CallRefused(c, e) \/ SendUpdates(c, e)
        PROVE  AgreedInv'
    BY <1>3 DEF CallRefused, SendUpdates, Begin, handshakeVars
  <1>4. ASSUME NEW c \in Call, RouteRefresh(c)
        PROVE  AgreedInv'
    BY <1>4 DEF RouteRefresh, Begin, handshakeVars
  <1>5. CASE Chunking
    BY <1>5 DEF Chunking, ChunkRoute, LastChunk, Return, handshakeVars
  <1>6. CASE Writing
    BY <1>6 DEF Writing, Build, LockWriteMu, Stamp, WriteUpdate, WriteRefresh, WriteFails,
                Return, handshakeVars
  <1>7. CASE Wake \/ UNCHANGED vars
    BY <1>7 DEF Wake, vars, handshakeVars
  <1>8. CASE KeepaliveTicks \/ KeepaliveLoop \/ ConnBreaks \/ ReadLoopFails
    BY <1>8 DEF KeepaliveTicks, KeepaliveLoop, KeepaliveLocks, KeepaliveWrites,
                KeepaliveLoopEnds, ConnBreaks, ReadLoopFails, handshakeVars
  <1> QED
    BY <1>1, <1>2, <1>3, <1>4, <1>5, <1>6, <1>7, <1>8 DEF Next

(* What a session has negotiated is, at all times after the handshake,     *)
(* what both OPENs come to, and those of an acceptable peer.               *)
THEOREM SessionIsAgreed == Spec => []AgreedInv
  <1> QED
    BY AgreedFirst, AgreedNext, PTL DEF Spec

(* Both sides take the session for the same: hold time and keepalives,     *)
(* extended messages, demarcations, and each direction of ADD-PATH seen    *)
(* from its other end.                                                     *)
THEOREM SidesAlwaysAgree == Spec => []SidesAgree
  <1>1. AgreedInv => SidesAgree
    <2> SUFFICES ASSUME AgreedInv, pc \notin {"handshake", "rejected"}
                 PROVE  SidesAgree
      BY DEF SidesAgree
    <2>1. local \in Offer /\ remote \in Offer
      BY OfferAssumption DEF AgreedInv
    <2>2. session = AcceptPeerOpen(local, remote) /\ remote.hold \notin {1, 2}
      BY DEF AgreedInv, Acceptable
    <2>3. local.hold \in Nat /\ remote.hold \in Nat /\ local.hold \notin {1, 2}
      BY <2>1 DEF AgreedInv, Offer
    <2>4. session.hold = Peer.hold /\ Peer.hold \in {local.hold, remote.hold}
      BY <2>1, <2>2, HoldIsSymmetric, HoldIsOffered DEF AcceptPeerOpen, Peer
    <2>5. session.tick = KeepaliveTick(session.hold)
      BY <2>2 DEF AcceptPeerOpen
    <2>6. (session.tick < Peer.hold \/ Peer.hold = 0) /\ (session.tick = 0 <=> Peer.hold = 0)
      BY <2>2, <2>3, <2>4, <2>5, TickIsInTime
    <2>7. session.extended = Peer.extended /\ session.enhanced = Peer.enhanced
      BY <2>1, <2>2 DEF AcceptPeerOpen, Peer, Offer
    <2>8. ASSUME NEW f \in Family, NEW d \in Direction
          PROVE  d \in session.addPath[f] <=> Opposite(d) \in Peer.addPath[f]
      <3>1. local.addPath[f] \in SUBSET Direction /\ remote.addPath[f] \in SUBSET Direction
        BY <2>1 DEF Offer
      <3>2. /\ session.addPath[f] = NegotiatedMode(local.addPath[f], remote.addPath[f])
            /\ Peer.addPath[f] = NegotiatedMode(remote.addPath[f], local.addPath[f])
        BY <2>2 DEF AcceptPeerOpen, Peer
      <3> QED
        BY <3>1, <3>2, ModesAreMirrored
    <2> QED
      BY <2>4, <2>6, <2>7, <2>8 DEF SidesAgree
  <1> QED
    BY <1>1, SessionIsAgreed, PTL

----------------------------------------------------------------------------
\* The invariant of a call.

Message == [kind : {"UPDATE", "ROUTE-REFRESH", "KEEPALIVE"}, call : Nat, family : Family \cup {None},
            first : Nat, last : Nat, len : Int, ids : BOOLEAN]
Span == Nat \X Nat

TypeInv ==
    /\ pc \in {"handshake", "rejected", "script"} \cup Steps
    /\ ncalls \in Nat
    /\ \E n \in Nat : ends \in [0 .. n -> Nat]
    /\ budget \in Int /\ used \in Int /\ firstTs \in Int
    /\ start \in Nat /\ next \in Nat /\ sent \in Nat /\ ts \in Nat
    /\ chunks \in Seq(Span)
    /\ wire \in Seq(Message)
    /\ pc \in Steps => call \in Call /\ ncalls > 0
    /\ pc \in {"chunk", "build", "sleep"} => call.op = "advertise"
    /\ pc \in {"handshake", "rejected"} => wire = <<>> /\ keepalive = "off"

(* Who holds writeMu: the call from its timestamp to its write, or the     *)
(* keepaliveLoop before its own.                                           *)
MutexInv ==
    /\ pc \in {"stamp", "write"} <=> writeMu = "vu"
    /\ keepalive = "write" <=> writeMu = "keepalive"

(* The chunks cs are the routes from the first one up to one, in order.    *)
Partition(cs, upto) ==
    /\ cs = <<>> <=> upto = 0
    /\ cs # <<>> => cs[1][1] = 1 /\ cs[Len(cs)][2] = upto
    /\ \A k \in 1 .. Len(cs) :
         /\ 1 <= cs[k][1] /\ cs[k][1] <= cs[k][2] /\ cs[k][2] <= upto
         /\ k < Len(cs) => cs[k + 1][1] = cs[k][2] + 1

(* Each of them fits, and would not with the route after it.               *)
Filled(cs) ==
    \A k \in 1 .. Len(cs) :
        /\ Bytes(cs[k]) <= budget
        /\ k < Len(cs) => Bytes(cs[k]) + Size(cs[k + 1][1]) > budget

(* The open chunk, while routes are chunked, and all of them afterwards.   *)
ChunkInv ==
    /\ pc = "chunk" =>
         /\ next - 1 \in DOMAIN ends /\ 1 \in DOMAIN ends
         /\ 0 < start /\ start <= next /\ (start < next \/ next = 1)
         /\ used = ends[next - 1] - ends[start - 1] /\ used <= budget
         /\ Partition(chunks, start - 1)
         /\ Filled(chunks)
         /\ chunks # <<>> => Bytes(chunks[Len(chunks)]) + Size(start) > budget
    /\ pc \in Steps \ {"chunk"} /\ call.op = "advertise" =>
         /\ next \in 1 .. Len(chunks)
         /\ \E n \in Routes : n + 1 \notin Routes /\ Partition(chunks, n)
         /\ Filled(chunks)

(* A call that is under way was allowed; a message that is about to be     *)
(* written has been found to be short enough.                              *)
AllowedInv ==
    /\ pc \in Steps => Allowed(call)
    /\ pc \in {"lock", "stamp", "write"} /\ call.op = "advertise" =>
         MessageLen(chunks[next]) <= Limit(call)

Updates == {i \in DOMAIN wire : wire[i].kind = "UPDATE"}

(* The UPDATEs of this call carry the first sent routes.                   *)
SentOnWire == \E i \in Updates : wire[i].call = ncalls /\ wire[i].last = sent

(* How far the call has come.                                              *)
ProgressInv ==
    /\ pc = "chunk" => sent = 0
    /\ pc \in {"build", "lock", "stamp", "write"} =>
         sent = IF call.op = "advertise" THEN chunks[next][1] - 1 ELSE 0
    /\ pc = "sleep" => sent = chunks[next][2] /\ next < Len(chunks)
    /\ pc \in Steps =>
         /\ \A i \in Updates : wire[i].call = ncalls => wire[i].last <= sent
         /\ sent = 0 \/ SentOnWire
    /\ result = "ok" /\ call.op = "advertise" =>
         sent \in Routes /\ sent + 1 \notin Routes /\ SentOnWire

(* The UPDATEs on the wire, call by call.                                  *)
OrderInv ==
    /\ \A i \in DOMAIN wire : wire[i].call <= ncalls
    /\ \A i \in Updates :
         /\ \/ wire[i].first = 1
            \/ \E j \in Updates : wire[j].call = wire[i].call /\ j < i /\ wire[j].last + 1 = wire[i].first
         /\ \A j \in Updates : wire[j].call = wire[i].call /\ j < i => wire[j].last < wire[i].first

(* The first timestamp is the place on the wire of the call's first        *)
(* message.                                                                *)
FirstIsStamped ==
    \E i \in DOMAIN wire : /\ wire[i].call = ncalls /\ firstTs = i - 1
                           /\ \A j \in 1 .. i - 1 : wire[j].call # ncalls

StampInv ==
    /\ pc = "write" => ts = Len(wire)
    /\ pc \in Steps =>
         /\ result # "ok"
         /\ \/ firstTs = -1 /\ \A i \in DOMAIN wire : wire[i].call # ncalls
            \/ FirstIsStamped
         /\ call.op = "refresh" => firstTs = -1
    /\ result = "ok" => FirstIsStamped

SendInv ==
    /\ AgreedInv /\ TypeInv /\ MutexInv /\ ChunkInv /\ AllowedInv
    /\ ProgressInv /\ OrderInv /\ StampInv /\ PeerUnderstands

----------------------------------------------------------------------------
\* Helpers.

(* What is in front of a place in ends is in ends.                         *)
LEMMA EndsBelow ==
    ASSUME TypeInv, NEW i \in DOMAIN ends, NEW j \in Nat, j <= i
    PROVE  i \in Nat /\ j \in DOMAIN ends /\ ends[j] \in Nat
  BY DEF TypeInv

(* A chunk of the routes has a length.                                     *)
LEMMA BytesOfChunk ==
    ASSUME TypeInv, NEW k \in 1 .. Len(chunks), NEW n \in DOMAIN ends, Partition(chunks, n)
    PROVE  /\ chunks[k][1] \in Nat /\ chunks[k][2] \in Nat
           /\ chunks[k][2] \in DOMAIN ends
           /\ Bytes(chunks[k]) \in Int /\ MessageLen(chunks[k]) \in Int
  <1>1. chunks[k] \in Span
    BY ElementOfSeq DEF TypeInv
  <1>2. chunks[k][1] \in Nat /\ chunks[k][2] \in Nat /\ chunks[k][1] - 1 \in Nat
        /\ chunks[k][1] - 1 <= n /\ chunks[k][2] <= n
    BY <1>1, EndsBelow DEF Partition, Span
  <1>3. chunks[k][2] \in DOMAIN ends /\ ends[chunks[k][1] - 1] \in Nat /\ ends[chunks[k][2]] \in Nat
    BY <1>2, EndsBelow
  <1>4. Bytes(chunks[k]) \in Int
    BY <1>3 DEF Bytes
  <1>5. LongAttr(call.mp, Bytes(chunks[k])) \in Nat
    BY DEF LongAttr
  <1> QED
    BY <1>2, <1>3, <1>4, <1>5, LengthAssumption DEF MessageLen

(* What appending a message does to the wire.                              *)
LEMMA WireAppended ==
    ASSUME wire \in Seq(Message), NEW m \in Message, wire' = Append(wire, m)
    PROVE  /\ wire' \in Seq(Message)
           /\ Len(wire) \in Nat /\ Len(wire') = Len(wire) + 1
           /\ DOMAIN wire = 1 .. Len(wire) /\ DOMAIN wire' = 1 .. Len(wire) + 1
           /\ \A i \in DOMAIN wire : wire'[i] = wire[i] /\ wire[i] \in Message
           /\ wire'[Len(wire) + 1] = m
  BY AppendProperties, ElementOfSeq, LenProperties

(* What closing the open chunk does to the chunks.                         *)
LEMMA ChunksAppended ==
    ASSUME chunks \in Seq(Span), NEW first \in Nat, NEW last \in Nat,
           0 < first, first <= last, Partition(chunks, first - 1),
           chunks' = Append(chunks, <<first, last>>)
    PROVE  /\ chunks' \in Seq(Span) /\ Len(chunks) \in Nat
           /\ Len(chunks') = Len(chunks) + 1
           /\ \A k \in 1 .. Len(chunks) : chunks'[k] = chunks[k] /\ chunks[k] \in Span
           /\ chunks'[Len(chunks')] = <<first, last>>
           /\ Partition(chunks', last)
  <1>1. <<first, last>> \in Span
    BY DEF Span
  <1>2. /\ chunks' \in Seq(Span) /\ chunks' # <<>> /\ Len(chunks') = Len(chunks) + 1
        /\ \A k \in 1 .. Len(chunks) : chunks'[k] = chunks[k]
        /\ chunks'[Len(chunks) + 1] = <<first, last>>
    BY <1>1, AppendProperties
  <1>3. Len(chunks) \in Nat /\ \A k \in 1 .. Len(chunks) : chunks[k] \in Span
    BY LenProperties, ElementOfSeq
  <1>4. chunks = <<>> <=> Len(chunks) = 0
    BY EmptySeq
  <1>5. chunks'[1][1] = 1
    <2>1. CASE chunks = <<>>
      BY <1>2, <1>4, <2>1 DEF Partition
    <2>2. CASE chunks # <<>>
      BY <1>2, <1>3, <1>4, <2>2 DEF Partition
    <2> QED
      BY <2>1, <2>2
  <1>6. ASSUME NEW k \in 1 .. Len(chunks')
        PROVE  /\ 1 <= chunks'[k][1] /\ chunks'[k][1] <= chunks'[k][2] /\ chunks'[k][2] <= last
               /\ k < Len(chunks') => chunks'[k + 1][1] = chunks'[k][2] + 1
    <2>1. CASE k = Len(chunks')
      BY <1>2, <1>3, <2>1
    <2>2. CASE k < Len(chunks)
      <3>1. k \in 1 .. Len(chunks) /\ k + 1 \in 1 .. Len(chunks)
        BY <1>2, <1>3, <2>2
      <3>2. /\ 1 <= chunks[k][1] /\ chunks[k][1] <= chunks[k][2] /\ chunks[k][2] <= first - 1
            /\ chunks[k + 1][1] = chunks[k][2] + 1
        BY <1>3, <2>2, <3>1 DEF Partition
      <3>3. chunks'[k] = chunks[k] /\ chunks'[k + 1] = chunks[k + 1]
        BY <1>2, <3>1
      <3>4. chunks[k][2] \in Nat
        BY <1>3, <3>1 DEF Span
      <3> QED
        BY <3>2, <3>3, <3>4
    <2>3. CASE k = Len(chunks)
      <3>1. k \in 1 .. Len(chunks) /\ chunks # <<>>
        BY <1>2, <1>3, <1>4, <2>3
      <3>2. chunks[k][2] = first - 1 /\ chunks'[k + 1][1] = first
        BY <1>2, <2>3, <3>1 DEF Partition
      <3> QED
        BY <1>2, <1>3, <3>1, <3>2 DEF Partition, Span
    <2> QED
      BY <1>2, <1>3, <2>1, <2>2, <2>3
  <1> QED
    BY <1>1, <1>2, <1>3, <1>5, <1>6 DEF Partition

----------------------------------------------------------------------------
\* The first state.

(* Before the handshake nothing has been called and nothing written.       *)
LEMMA SendFirst == Init => SendInv
  <1> SUFFICES ASSUME Init PROVE SendInv
    OBVIOUS
  <1>1. AgreedInv
    BY AgreedFirst
  <1>2. wire = <<>> /\ DOMAIN wire = {} /\ chunks = <<>> /\ pc = "handshake" /\ result = None
    BY DEF Init
  <1>3. TypeInv
    <2>1. 0 .. 0 = {0} /\ [i \in {0} |-> 0] \in [0 .. 0 -> Nat]
      OBVIOUS
    <2>2. ends \in [0 .. 0 -> Nat]
      BY <2>1 DEF Init
    <2> QED
      BY <2>2 DEF Init, TypeInv, Steps
  <1>4. MutexInv
    BY DEF Init, MutexInv, None
  <1>5. ChunkInv /\ AllowedInv
    BY <1>2 DEF ChunkInv, AllowedInv, Steps
  <1>6. ProgressInv /\ OrderInv /\ StampInv
    BY <1>2 DEF ProgressInv, OrderInv, StampInv, Updates, Steps, None
  <1>7. PeerUnderstands
    BY <1>2 DEF PeerUnderstands
  <1> QED
    BY <1>1, <1>3, <1>4, <1>5, <1>6, <1>7 DEF SendInv

----------------------------------------------------------------------------
\* Types, and who holds writeMu.

(* The messages that a step writes.                                        *)
LEMMA MessagesAreTyped ==
    ASSUME TypeInv, ChunkInv
    PROVE  /\ pc = "write" /\ call.op = "advertise" => UpdateMessage \in Message
           /\ pc = "write" => PlainMessage("ROUTE-REFRESH", ncalls, call.family) \in Message
           /\ PlainMessage("KEEPALIVE", 0, None) \in Message
  <1>1. HeaderLen \in Nat
    BY LengthAssumption
  <1>2. ASSUME pc = "write" PROVE call.family \in Family
    BY <1>2 DEF TypeInv, Steps, Call
  <1>3. ASSUME pc = "write", call.op = "advertise" PROVE UpdateMessage \in Message
    <2>1. PICK n \in Routes : Partition(chunks, n)
      BY <1>3 DEF ChunkInv, Steps
    <2>2. next \in 1 .. Len(chunks) /\ n \in DOMAIN ends
      BY <1>3, <2>1 DEF ChunkInv, Steps, Routes
    <2>3. chunks[next][1] \in Nat /\ chunks[next][2] \in Nat /\ MessageLen(chunks[next]) \in Int
      BY <2>1, <2>2, BytesOfChunk
    <2> QED
      BY <1>2, <1>3, <2>3 DEF UpdateMessage, Message, TypeInv
  <1> QED
    BY <1>1, <1>2, <1>3 DEF PlainMessage, Message, TypeInv

(* What the first routes of a call take with their path identifiers.       *)
LEMMA EndsWithIds ==
    ASSUME NEW e \in Batches, NEW f
    PROVE  \E n \in Nat : WithIds(e, f) \in [0 .. n -> Nat]
  <1>1. PICK n \in Nat : e \in [0 .. n -> Nat]
    BY BatchAssumption, BoundsAssumption
  <1>2. \A i \in 0 .. n : PathIdLen * i \in Nat
    BY LengthAssumption
  <1> QED
    BY <1>1, <1>2 DEF WithIds

(* Every step keeps the types.                                             *)
LEMMA TypeStep == SendInv /\ [Next]_vars => TypeInv'
  <1> SUFFICES ASSUME SendInv, [Next]_vars PROVE TypeInv'
    OBVIOUS
  <1>0. TypeInv /\ ChunkInv
    BY DEF SendInv
  <1> USE DEF handshakeVars, callVars, chunkVars, sendVars, loopVars, Steps, Return, WriteOrder
  <1>1. CASE Established \/ Rejected
    BY <1>0, <1>1 DEF Established, Rejected, TypeInv
  <1>2. ASSUME NEW c \in Call, NEW e \in Batches, CallRefused(c, e) PROVE TypeInv'
    BY <1>0, <1>2 DEF CallRefused, Begin, TypeInv
  <1>3. ASSUME NEW c \in Call, NEW e \in Batches, SendUpdates(c, e) PROVE TypeInv'
    <2>1. \E n \in Nat : ends' \in [0 .. n -> Nat]
      BY <1>3, EndsWithIds DEF SendUpdates
    <2>2. Budget(c, e) \in Int
      <3>1. LongAttr(c.mp, e[1]) \in Nat
        BY DEF LongAttr
      <3> QED
        BY <3>1, LengthAssumption DEF Budget, Limit
    <2>3. /\ pc' \in {"script", "chunk"} /\ call' = c /\ c.op = "advertise" /\ ncalls' = ncalls + 1
          /\ budget' = Budget(c, e) /\ start' = 1 /\ used' = 0 /\ next' = 1 /\ chunks' = <<>>
          /\ sent' = 0 /\ firstTs' = -1 /\ ts' = ts /\ wire' = wire
      BY <1>3 DEF SendUpdates, Begin
    <2>4. ncalls \in Nat /\ ts \in Nat /\ wire \in Seq(Message) /\ <<>> \in Seq(Span)
      BY <1>0, EmptySeq DEF TypeInv
    <2> QED
      BY <2>1, <2>2, <2>3, <2>4 DEF TypeInv
  <1>4. ASSUME NEW c \in Call, RouteRefresh(c) PROVE TypeInv'
    BY <1>0, <1>4 DEF RouteRefresh, Begin, TypeInv
  <1>5. CASE ChunkRoute
    <2>1. /\ ends[next] \in Nat /\ ends[next - 1] \in Nat /\ next \in Nat /\ next > 0
          /\ used \in Int /\ start \in Nat /\ 0 < start /\ start <= next
          /\ start < next \/ next = 1
          /\ used = ends[next - 1] - ends[start - 1] /\ used <= budget /\ budget \in Int
          /\ Partition(chunks, start - 1) /\ chunks \in Seq(Span)
      <3>1. next \in DOMAIN ends /\ next \in Nat /\ next > 0
        BY <1>0, <1>5 DEF ChunkRoute, Routes, TypeInv
      <3>2. ends[next] \in Nat /\ ends[next - 1] \in Nat
        BY <1>0, <3>1, EndsBelow
      <3> QED
        BY <1>0, <1>5, <3>1, <3>2 DEF ChunkRoute, ChunkInv, TypeInv
    <2>2. Size(next) \in Int
      BY <2>1 DEF Size
    <2>3. chunks' \in Seq(Span) /\ start' \in Nat /\ used' \in Int /\ next' \in Nat
      <3>1. CASE Size(next) > budget
        BY <1>0, <1>5, <3>1 DEF ChunkRoute, TypeInv
      <3>2. CASE ~(Size(next) > budget) /\ Overflows(next)
        <4>1. start # next
          BY <2>1, <2>2, <3>2 DEF Overflows
        <4>2. <<start, next - 1>> \in Span
          BY <2>1, <4>1 DEF Span
        <4>3. Append(chunks, <<start, next - 1>>) \in Seq(Span)
          BY <2>1, <4>2, AppendProperties
        <4>4. /\ chunks' = Append(chunks, <<start, next - 1>>)
              /\ start' = next /\ used' = Size(next) /\ next' = next + 1
          BY <1>5, <3>2 DEF ChunkRoute, StartAt
        <4> QED
          BY <2>1, <2>2, <4>3, <4>4
      <3>3. CASE ~(Size(next) > budget) /\ ~Overflows(next)
        BY <1>5, <2>1, <2>2, <3>3 DEF ChunkRoute
      <3> QED
        BY <3>1, <3>2, <3>3
    <2> QED
      BY <1>0, <1>5, <2>3 DEF ChunkRoute, TypeInv
  <1>6. CASE LastChunk
    <2>1. start \in Nat /\ next \in Nat /\ next > 0 /\ chunks \in Seq(Span)
      BY <1>0, <1>6 DEF LastChunk, ChunkInv, TypeInv
    <2>2. <<start, next - 1>> \in Span
      BY <2>1 DEF Span
    <2>3. chunks' \in Seq(Span)
      BY <1>6, <2>1, <2>2, AppendProperties DEF LastChunk
    <2> QED
      BY <1>0, <1>6, <2>3 DEF LastChunk, TypeInv
  <1>7. CASE Build \/ LockWriteMu \/ WriteFails \/ Wake
    <2>1. /\ pc' \in {"script", "lock", "stamp", "build"} /\ next' \in {next, next + 1}
          /\ pc \in Steps /\ (pc' = "build" => pc = "sleep")
          /\ UNCHANGED <<call, ncalls, ends, budget, start, used, chunks, sent, ts, firstTs, wire>>
      BY <1>7 DEF Build, LockWriteMu, WriteFails, Wake
    <2>2. next' \in Nat
      BY <1>0, <2>1 DEF TypeInv
    <2> QED
      BY <1>0, <2>1, <2>2 DEF TypeInv
  <1>8. CASE Stamp
    BY <1>0, <1>8, WireAppended, LenProperties DEF Stamp, TypeInv
  <1>9. CASE WriteUpdate
    <2>1. wire' \in Seq(Message)
      BY <1>0, <1>9, MessagesAreTyped, AppendProperties DEF WriteUpdate, TypeInv
    <2>2. PICK n \in Routes : Partition(chunks, n)
      BY <1>0, <1>9 DEF WriteUpdate, ChunkInv
    <2>3. next \in 1 .. Len(chunks) /\ n \in DOMAIN ends
      BY <1>0, <1>9, <2>2 DEF WriteUpdate, ChunkInv, Routes
    <2>4. chunks[next][1] \in Nat /\ chunks[next][2] \in Nat /\ chunks[next][1] <= chunks[next][2]
      BY <1>0, <2>2, <2>3, BytesOfChunk DEF Partition
    <2>5. sent' \in Nat
      <3>1. sent \in Nat /\ sent' = sent + chunks[next][2] - chunks[next][1] + 1
        BY <1>0, <1>9 DEF WriteUpdate, TypeInv
      <3> QED
        BY <2>4, <3>1
    <2>6. /\ pc = "write" /\ pc' \in {"script", "sleep", "build"} /\ call.op = "advertise"
          /\ UNCHANGED <<call, ncalls, ends, budget, used, start, chunks, ts, keepalive>>
          /\ next' \in {next, next + 1} /\ firstTs' \in {ts, firstTs}
      BY <1>9 DEF WriteUpdate
    <2>7. next' \in Nat /\ firstTs' \in Int
      BY <1>0, <2>6 DEF TypeInv
    <2> QED
      BY <1>0, <2>1, <2>5, <2>6, <2>7 DEF TypeInv
  <1>10. CASE WriteRefresh
    <2>1. wire' \in Seq(Message)
      BY <1>0, <1>10, MessagesAreTyped, AppendProperties DEF WriteRefresh, TypeInv
    <2> QED
      BY <1>0, <1>10, <2>1 DEF WriteRefresh, TypeInv
  <1>11. CASE KeepaliveWrites
    <2>1. wire' \in Seq(Message)
      <3>1. Append(wire, PlainMessage("KEEPALIVE", 0, None)) \in Seq(Message)
        BY <1>0, MessagesAreTyped, AppendProperties DEF TypeInv
      <3> QED
        BY <1>0, <1>11, <3>1 DEF KeepaliveWrites, TypeInv
    <2>2. pc \notin {"handshake", "rejected"}
      BY <1>0, <1>11 DEF KeepaliveWrites, TypeInv
    <2> QED
      BY <1>0, <1>11, <2>1, <2>2 DEF KeepaliveWrites, TypeInv
  <1>12. CASE KeepaliveTicks \/ KeepaliveLocks \/ KeepaliveLoopEnds
    BY <1>0, <1>12 DEF KeepaliveTicks, KeepaliveLocks, KeepaliveLoopEnds, TypeInv
  <1>13. CASE ConnBreaks \/ ReadLoopFails \/ UNCHANGED vars
    BY <1>0, <1>13 DEF ConnBreaks, ReadLoopFails, vars, TypeInv
  <1> QED
    BY <1>1, <1>2, <1>3, <1>4, <1>5, <1>6, <1>7, <1>8, <1>9, <1>10, <1>11, <1>12, <1>13
       DEF Next, Chunking, Writing, KeepaliveLoop

(* writeMu has one holder: it is taken when it is free, and given back by  *)
(* the write it was taken for.                                             *)
LEMMA MutexStep == SendInv /\ [Next]_vars => MutexInv'
  <1> SUFFICES ASSUME SendInv, [Next]_vars PROVE MutexInv'
    OBVIOUS
  <1>0. MutexInv /\ TypeInv
    BY DEF SendInv
  <1> USE DEF MutexInv, handshakeVars, callVars, chunkVars, sendVars, loopVars, Return, WriteOrder, None
  <1>1. CASE Established \/ Rejected
    BY <1>0, <1>1 DEF Established, Rejected, TypeInv
  <1>2. ASSUME NEW c \in Call, NEW e \in Batches, CallRefused(c, e) \/ SendUpdates(c, e)
        PROVE  MutexInv'
    BY <1>0, <1>2 DEF CallRefused, SendUpdates, Begin
  <1>3. ASSUME NEW c \in Call, RouteRefresh(c) PROVE MutexInv'
    BY <1>0, <1>3 DEF RouteRefresh, Begin
  <1>4. CASE Chunking
    BY <1>0, <1>4 DEF Chunking, ChunkRoute, LastChunk
  <1>5. CASE Build \/ LockWriteMu \/ Stamp
    BY <1>0, <1>5 DEF Build, LockWriteMu, Stamp
  <1>6. CASE WriteUpdate \/ WriteRefresh \/ WriteFails
    BY <1>0, <1>6 DEF WriteUpdate, WriteRefresh, WriteFails, Unlocked
  <1>7. CASE Wake \/ UNCHANGED vars
    BY <1>0, <1>7 DEF Wake, vars
  <1>8. CASE KeepaliveTicks \/ KeepaliveLoop
    BY <1>0, <1>8 DEF KeepaliveTicks, KeepaliveLoop, KeepaliveLocks, KeepaliveWrites, KeepaliveLoopEnds
  <1>9. CASE ConnBreaks \/ ReadLoopFails
    BY <1>0, <1>9 DEF ConnBreaks, ReadLoopFails
  <1> QED
    BY <1>1, <1>2, <1>3, <1>4, <1>5, <1>6, <1>7, <1>8, <1>9 DEF Next, Writing

----------------------------------------------------------------------------
\* The chunks.

(* A call begins with no chunk, in front of its first route.               *)
LEMMA ChunkBegins ==
    ASSUME SendInv, NEW c \in Call, NEW e \in Batches, SendUpdates(c, e)
    PROVE  ChunkInv'
  <1>1. PICK n \in Nat : e \in [0 .. n -> Nat]
    BY BatchAssumption, BoundsAssumption
  <1>2. DOMAIN ends' = 0 .. n /\ n # 0
    BY <1>1 DEF SendUpdates, WithIds
  <1>3. 0 \in DOMAIN ends' /\ 1 \in DOMAIN ends' /\ ends'[0] \in Nat
    <2>1. PICK m \in Nat : ends' \in [0 .. m -> Nat]
      BY EndsWithIds DEF SendUpdates
    <2> QED
      BY <1>2, <2>1
  <1>4. /\ pc' \in {"script", "chunk"} /\ (pc' = "chunk" => 0 <= budget')
        /\ start' = 1 /\ used' = 0 /\ next' = 1 /\ chunks' = <<>>
    <2>1. CASE Budget(c, e) <= 0
      BY <2>1 DEF SendUpdates
    <2>2. CASE ~(Budget(c, e) <= 0)
      <3>1. Budget(c, e) \in Int
        <4>1. LongAttr(c.mp, e[1]) \in Nat
          BY DEF LongAttr
        <4> QED
          BY <4>1, LengthAssumption DEF Budget, Limit
      <3> QED
        BY <2>2, <3>1 DEF SendUpdates
    <2> QED
      BY <2>1, <2>2
  <1>5. Partition(chunks', 0) /\ Filled(chunks)'
    BY <1>4 DEF Partition, Filled
  <1>6. used' = ends'[next' - 1] - ends'[start' - 1]
    BY <1>3, <1>4
  <1>7. used' <= budget' \/ pc' # "chunk"
    BY <1>4
  <1> QED
    BY <1>3, <1>4, <1>5, <1>6, <1>7 DEF ChunkInv, Steps

(* A chunk that is closed is within the budget, and the open one was the   *)
(* route too much for the one before it.                                   *)
LEMMA FilledAppended ==
    ASSUME TypeInv, NEW last \in DOMAIN ends, 0 < start, start <= last,
           Partition(chunks, start - 1), Filled(chunks),
           chunks # <<>> => Bytes(chunks[Len(chunks)]) + Size(start) > budget,
           ends[last] - ends[start - 1] <= budget,
           chunks' = Append(chunks, <<start, last>>), UNCHANGED <<ends, budget>>
    PROVE  /\ Partition(chunks', last) /\ Filled(chunks)'
           /\ chunks'[Len(chunks')] = <<start, last>> /\ Len(chunks') \in Nat \ {0}
           /\ Bytes(chunks[Len(chunks)])' = ends[last] - ends[start - 1]
  <1>1. last \in Nat /\ start \in Nat
    BY EndsBelow DEF TypeInv
  <1>2. /\ Len(chunks) \in Nat /\ Len(chunks') = Len(chunks) + 1
        /\ \A k \in 1 .. Len(chunks) : chunks'[k] = chunks[k]
        /\ chunks'[Len(chunks')] = <<start, last>>
        /\ Partition(chunks', last)
    BY <1>1, ChunksAppended DEF TypeInv
  <1>3. Bytes(chunks[Len(chunks)])' = ends[last] - ends[start - 1]
    BY <1>2 DEF Bytes
  <1>4. ASSUME NEW k \in 1 .. Len(chunks')
        PROVE  /\ Bytes(chunks[k])' <= budget
               /\ k < Len(chunks') => Bytes(chunks[k])' + Size(chunks[k + 1][1])' > budget
    <2>1. CASE k = Len(chunks')
      BY <1>2, <1>3, <2>1
    <2>2. CASE k = Len(chunks)
      <3>1. chunks # <<>> /\ k \in 1 .. Len(chunks) /\ chunks'[k + 1][1] = start /\ chunks'[k] = chunks[k]
        BY <1>2, <2>2
      <3> QED
        BY <2>2, <3>1 DEF Filled, Bytes, Size
    <2>3. CASE k < Len(chunks)
      <3>1. k \in 1 .. Len(chunks) /\ k + 1 \in 1 .. Len(chunks)
        BY <1>2, <2>3
      <3>2. chunks'[k] = chunks[k] /\ chunks'[k + 1] = chunks[k + 1]
        BY <1>2, <3>1
      <3> QED
        BY <2>3, <3>1, <3>2 DEF Filled, Bytes, Size
    <2> QED
      BY <1>2, <2>1, <2>2, <2>3
  <1> QED
    BY <1>2, <1>3, <1>4 DEF Filled

(* One turn of ChunkRoutes' loop over the routes.                          *)
LEMMA ChunkRouteStep == ASSUME SendInv, ChunkRoute PROVE ChunkInv'
  <1> DEFINE last == next - 1
  <1>1. /\ pc = "chunk" /\ next \in Routes /\ TypeInv
        /\ last \in DOMAIN ends /\ 1 \in DOMAIN ends
        /\ 0 < start /\ start <= next /\ (start < next \/ next = 1)
        /\ used = ends[last] - ends[start - 1] /\ used <= budget
        /\ Partition(chunks, start - 1) /\ Filled(chunks)
        /\ chunks # <<>> => Bytes(chunks[Len(chunks)]) + Size(start) > budget
    BY DEF SendInv, ChunkInv, ChunkRoute
  <1>2. /\ next \in DOMAIN ends /\ next \in Nat /\ next > 0 /\ start \in Nat
        /\ used \in Int /\ budget \in Int
    BY <1>1 DEF Routes, TypeInv
  <1>3. ends[next] \in Nat /\ ends[last] \in Nat /\ ends[start - 1] \in Nat /\ last \in Nat
    BY <1>1, <1>2, EndsBelow
  <1>4. UNCHANGED <<ends, budget, call>>
    BY DEF ChunkRoute, callVars, chunkVars
  <1>5. CASE Size(next) > budget
    BY <1>5 DEF ChunkRoute, Return, ChunkInv, Steps
  <1>6. CASE ~(Size(next) > budget) /\ Overflows(next)
    <2>1. start <= last
      BY <1>1, <1>2, <1>3, <1>6 DEF Overflows, Size
    <2>2. /\ chunks' = Append(chunks, <<start, last>>)
          /\ start' = next /\ used' = Size(next) /\ next' = next + 1
      BY <1>6 DEF ChunkRoute, StartAt
    <2>3. /\ Partition(chunks', last) /\ Filled(chunks)'
          /\ chunks'[Len(chunks')] = <<start, last>>
          /\ Bytes(chunks[Len(chunks)])' = ends[last] - ends[start - 1]
      BY <1>1, <1>4, <2>1, <2>2, FilledAppended
    <2>4. used' = ends'[next' - 1] - ends'[start' - 1] /\ used' <= budget'
      BY <1>2, <1>3, <1>4, <1>6, <2>2 DEF Size
    <2>5. Bytes(chunks[Len(chunks)])' + Size(start)' > budget'
      BY <1>1, <1>2, <1>3, <1>4, <1>6, <2>2, <2>3 DEF Overflows, Size
    <2>6. next' - 1 \in DOMAIN ends' /\ 1 \in DOMAIN ends'
      BY <1>1, <1>2, <1>4, <2>2
    <2>7. 0 < start' /\ start' < next' /\ start' - 1 = last /\ start' <= next'
      BY <1>2, <2>2
    <2>8. pc' = "chunk"
      BY <1>1, <1>6 DEF ChunkRoute
    <2> QED
      BY <2>3, <2>4, <2>5, <2>6, <2>7, <2>8 DEF ChunkInv
  <1>7. CASE ~(Size(next) > budget) /\ ~Overflows(next)
    <2>1. used' = used + Size(next) /\ next' = next + 1 /\ start' = start /\ chunks' = chunks /\ pc' = pc
      BY <1>7 DEF ChunkRoute
    <2>2. used' = ends'[next' - 1] - ends'[start' - 1] /\ used' <= budget'
      <3>1. ends'[next' - 1] = ends[next] /\ ends'[start' - 1] = ends[start - 1]
        BY <1>2, <1>4, <2>1
      <3>2. Size(next) = ends[next] - ends[last]
        BY DEF Size
      <3>3. used' = ends[next] - ends[start - 1]
        BY <1>1, <1>3, <2>1, <3>2
      <3>4. used + Size(next) <= budget
        <4>1. Size(next) \in Int
          BY <1>3, <3>2
        <4> QED
          BY <1>2, <1>7, <4>1 DEF Overflows
      <3> QED
        BY <1>4, <2>1, <3>1, <3>3, <3>4
    <2>3. /\ next' - 1 \in DOMAIN ends' /\ 1 \in DOMAIN ends'
          /\ 0 < start' /\ start' < next' /\ start' <= next'
      BY <1>1, <1>2, <1>4, <2>1
    <2>4. Filled(chunks)' /\ Partition(chunks', start' - 1)
      BY <1>1, <1>4, <2>1 DEF Filled, Bytes, Size
    <2>5. chunks' # <<>> => Bytes(chunks[Len(chunks)])' + Size(start)' > budget'
      BY <1>1, <1>4, <2>1 DEF Bytes, Size
    <2> QED
      BY <1>1, <2>1, <2>2, <2>3, <2>4, <2>5 DEF ChunkInv
  <1> QED
    BY <1>5, <1>6, <1>7

(* The last chunk ends with the last route.                                *)
LEMMA LastChunkStep == ASSUME SendInv, LastChunk PROVE ChunkInv'
  <1> DEFINE last == next - 1
  <1>1. /\ pc = "chunk" /\ next \notin Routes /\ TypeInv
        /\ last \in DOMAIN ends /\ 1 \in DOMAIN ends
        /\ 0 < start /\ start <= next /\ (start < next \/ next = 1)
        /\ used = ends[last] - ends[start - 1] /\ used <= budget
        /\ Partition(chunks, start - 1) /\ Filled(chunks)
        /\ chunks # <<>> => Bytes(chunks[Len(chunks)]) + Size(start) > budget
    BY DEF SendInv, ChunkInv, LastChunk
  <1>2. next \in Nat /\ start \in Nat /\ next # 1 /\ next # 0 /\ last > 0 /\ start <= last
    BY <1>1 DEF Routes, TypeInv
  <1>3. /\ chunks' = Append(chunks, <<start, last>>) /\ next' = 1 /\ pc' = "build"
        /\ UNCHANGED <<ends, budget, call>>
    BY DEF LastChunk, callVars
  <1>4. Partition(chunks', last) /\ Filled(chunks)' /\ Len(chunks') \in Nat \ {0}
    BY <1>1, <1>2, <1>3, FilledAppended
  <1>5. last \in Routes' /\ last + 1 \notin Routes'
    BY <1>1, <1>2, <1>3 DEF Routes
  <1>6. next' \in 1 .. Len(chunks')
    BY <1>3, <1>4
  <1> QED
    BY <1>3, <1>4, <1>5, <1>6 DEF ChunkInv

(* The calls that are under way go from a chunk to the next one.           *)
LEMMA NextChunk ==
    ASSUME SendInv, pc \in Steps \ {"chunk"}, call.op = "advertise",
           UNCHANGED <<call, ends, budget, chunks>>, pc' # "chunk",
           next' = next \/ (next' = next + 1 /\ next # Len(chunks))
    PROVE  ChunkInv'
  <1>1. /\ next \in 1 .. Len(chunks) /\ Filled(chunks) /\ Len(chunks) \in Nat
        /\ \E n \in Routes : n + 1 \notin Routes /\ Partition(chunks, n)
    BY LenProperties DEF SendInv, ChunkInv, TypeInv
  <1>2. Filled(chunks)'
    BY <1>1 DEF Filled, Bytes, Size
  <1>3. next' \in 1 .. Len(chunks')
    BY <1>1
  <1>4. \E n \in Routes' : n + 1 \notin Routes' /\ Partition(chunks', n)
    BY <1>1 DEF Routes
  <1> QED
    BY <1>2, <1>3, <1>4 DEF ChunkInv

(* The chunks stay as they are for all else that happens.                  *)
LEMMA ChunksStay ==
    ASSUME ChunkInv, UNCHANGED <<call, ends, chunkVars>>,
           pc' = pc \/ pc' \notin Steps
    PROVE  ChunkInv'
  <1>1. Filled(chunks) => Filled(chunks)'
    BY DEF Filled, Bytes, Size, chunkVars
  <1>2. /\ Bytes(chunks[Len(chunks)])' = Bytes(chunks[Len(chunks)])
        /\ Size(start)' = Size(start) /\ Routes' = Routes
    BY DEF Bytes, Size, Routes, chunkVars
  <1>3. CASE pc' \notin Steps
    BY <1>3 DEF ChunkInv, Steps
  <1>4. CASE pc' = pc /\ pc = "chunk"
    BY <1>1, <1>2, <1>4 DEF ChunkInv, chunkVars
  <1>5. CASE pc' = pc /\ pc # "chunk"
    BY <1>1, <1>2, <1>5 DEF ChunkInv, chunkVars
  <1> QED
    BY <1>3, <1>4, <1>5

(* Every step keeps the chunks.                                            *)
LEMMA ChunkStep == SendInv /\ [Next]_vars => ChunkInv'
  <1> SUFFICES ASSUME SendInv, [Next]_vars PROVE ChunkInv'
    OBVIOUS
  <1>0. ChunkInv /\ TypeInv
    BY DEF SendInv
  <1>1. CASE Established \/ Rejected
    BY <1>1 DEF Established, Rejected, ChunkInv, Steps
  <1>2. ASSUME NEW c \in Call, NEW e \in Batches, CallRefused(c, e) PROVE ChunkInv'
    BY <1>2 DEF CallRefused, Begin, ChunkInv, Steps
  <1>3. ASSUME NEW c \in Call, NEW e \in Batches, SendUpdates(c, e) PROVE ChunkInv'
    BY <1>3, ChunkBegins
  <1>4. ASSUME NEW c \in Call, RouteRefresh(c) PROVE ChunkInv'
    BY <1>4 DEF RouteRefresh, Begin, WriteOrder, ChunkInv
  <1>5. CASE Chunking
    BY <1>5, ChunkRouteStep, LastChunkStep DEF Chunking
  <1>6. CASE Build \/ LockWriteMu \/ Stamp
    <2>1. /\ pc \in Steps \ {"chunk"} /\ pc' # "chunk"
          /\ UNCHANGED <<call, ends, budget, chunks, next>>
      BY <1>6 DEF Build, LockWriteMu, Stamp, Return, WriteOrder, Steps, callVars, chunkVars
    <2>2. CASE call.op = "advertise"
      BY <2>1, <2>2, NextChunk
    <2>3. CASE call.op # "advertise"
      BY <2>1, <2>3 DEF ChunkInv
    <2> QED
      BY <2>2, <2>3
  <1>7. CASE WriteUpdate
    <2>1. /\ pc = "write" /\ call.op = "advertise" /\ pc' # "chunk"
          /\ UNCHANGED <<call, ends, budget, chunks>>
          /\ next' = next \/ (next' = next + 1 /\ next # Len(chunks))
      BY <1>7 DEF WriteUpdate, Return, callVars
    <2> QED
      BY <2>1, NextChunk DEF Steps
  <1>8. CASE WriteRefresh \/ WriteFails
    BY <1>8 DEF WriteRefresh, WriteFails, Return, ChunkInv, Steps
  <1>9. CASE Wake
    <2>1. /\ pc = "sleep" /\ call.op = "advertise" /\ pc' # "chunk"
          /\ UNCHANGED <<call, ends, budget, chunks>>
          /\ next' = next + 1 /\ next # Len(chunks)
      BY <1>9 DEF Wake, callVars, SendInv, ProgressInv, TypeInv
    <2> QED
      BY <2>1, NextChunk DEF Steps
  <1>10. CASE KeepaliveTicks \/ KeepaliveLoop \/ UNCHANGED vars
    BY <1>0, <1>10, ChunksStay DEF KeepaliveTicks, KeepaliveLoop, KeepaliveLocks, KeepaliveWrites,
       KeepaliveLoopEnds, vars, callVars
  <1>11. CASE ConnBreaks \/ ReadLoopFails
    BY <1>0, <1>11, ChunksStay DEF ConnBreaks, ReadLoopFails, callVars
  <1> QED
    BY <1>1, <1>2, <1>3, <1>4, <1>5, <1>6, <1>7, <1>8, <1>9, <1>10, <1>11 DEF Next, Writing

----------------------------------------------------------------------------
\* What a call was allowed to send.

(* Build lets a message pass that is not too long, and nothing changes it  *)
(* before it is written.                                                   *)
LEMMA AllowedStep == SendInv /\ [Next]_vars => AllowedInv'
  <1> SUFFICES ASSUME SendInv, [Next]_vars PROVE AllowedInv'
    OBVIOUS
  <1>0. AllowedInv /\ TypeInv /\ ChunkInv
    BY DEF SendInv
  <1> USE DEF handshakeVars, callVars, chunkVars, Steps
  <1>1. CASE Established \/ Rejected
    BY <1>1 DEF Established, Rejected, AllowedInv
  <1>2. ASSUME NEW c \in Call, NEW e \in Batches, CallRefused(c, e) PROVE AllowedInv'
    BY <1>2 DEF CallRefused, Begin, AllowedInv
  <1>3. ASSUME NEW c \in Call, NEW e \in Batches, SendUpdates(c, e) PROVE AllowedInv'
    BY <1>3 DEF SendUpdates, Begin, AllowedInv, Allowed
  <1>4. ASSUME NEW c \in Call, RouteRefresh(c) PROVE AllowedInv'
    BY <1>4 DEF RouteRefresh, Begin, AllowedInv, Allowed
  <1>5. CASE Chunking \/ Wake
    BY <1>0, <1>5 DEF Chunking, ChunkRoute, LastChunk, Wake, Return, AllowedInv, Allowed
  <1>6. CASE Build
    <2>1. PICK n \in Routes : Partition(chunks, n)
      BY <1>0, <1>6 DEF Build, ChunkInv, TypeInv
    <2>2. MessageLen(chunks[next]) \in Int
      BY <1>0, <1>6, <2>1, BytesOfChunk DEF Build, ChunkInv, TypeInv, Routes
    <2>3. Limit(call) \in Int
      BY LengthAssumption DEF Limit
    <2>4. /\ UNCHANGED <<call, session, ends, chunks, next>>
          /\ pc \in Steps
          /\ pc' \in Steps => MessageLen(chunks[next]) <= Limit(call)
      BY <1>6, <2>2, <2>3 DEF Build, Return
    <2>5. Allowed(call)' = Allowed(call) /\ MessageLen(chunks[next])' = MessageLen(chunks[next])
          /\ Limit(call)' = Limit(call)
      BY <2>4 DEF Allowed, MessageLen, Bytes, Limit
    <2> QED
      BY <1>0, <2>4, <2>5 DEF AllowedInv
  <1>7. CASE WriteUpdate \/ WriteRefresh \/ WriteFails
    BY <1>0, <1>7 DEF WriteUpdate, WriteRefresh, WriteFails, Return, AllowedInv, Allowed
  <1>8. ASSUME UNCHANGED <<call, session, ends, chunks, next>>,
               pc' = pc \/ (pc = "lock" /\ pc' = "stamp") \/ (pc = "stamp" /\ pc' = "write")
        PROVE  AllowedInv'
    <2>1. Allowed(call)' = Allowed(call) /\ MessageLen(chunks[next])' = MessageLen(chunks[next])
          /\ Limit(call)' = Limit(call)
      BY <1>8 DEF Allowed, MessageLen, Bytes, Limit
    <2> QED
      BY <1>0, <1>8, <2>1 DEF AllowedInv
  <1>9. CASE LockWriteMu \/ Stamp
    BY <1>8, <1>9 DEF LockWriteMu, Stamp, WriteOrder
  <1>10. CASE KeepaliveTicks \/ KeepaliveLoop \/ UNCHANGED vars
    BY <1>8, <1>10 DEF KeepaliveTicks, KeepaliveLoop, KeepaliveLocks, KeepaliveWrites,
       KeepaliveLoopEnds, vars
  <1>11. CASE ConnBreaks \/ ReadLoopFails
    BY <1>8, <1>11 DEF ConnBreaks, ReadLoopFails
  <1> QED
    BY <1>1, <1>2, <1>3, <1>4, <1>5, <1>6, <1>7, <1>9, <1>10, <1>11 DEF Next, Writing

----------------------------------------------------------------------------
\* The wire.

(* A message is appended by the three writes and by nothing else.          *)
LEMMA WireGrows ==
    ASSUME SendInv, [Next]_vars
    PROVE  \/ WriteUpdate
           \/ WriteRefresh
           \/ /\ keepalive = "write" /\ wire' = Append(wire, PlainMessage("KEEPALIVE", 0, None))
              /\ UNCHANGED <<pc, call, ncalls, sent, ts, firstTs, result, next, chunks, ends>>
           \/ wire' = wire
  BY DEF Next, Established, Rejected, CallRefused, SendUpdates, RouteRefresh, Begin, Chunking,
         ChunkRoute, LastChunk, Writing, Build, LockWriteMu, Stamp, WriteFails, Wake,
         KeepaliveTicks, KeepaliveLoop, KeepaliveLocks, KeepaliveWrites, KeepaliveLoopEnds,
         ConnBreaks, ReadLoopFails, vars, callVars, chunkVars, sendVars

(* The UPDATEs on the wire after a message has been appended.              *)
LEMMA UpdatesAppended ==
    ASSUME wire \in Seq(Message), NEW m \in Message, wire' = Append(wire, m)
    PROVE  /\ Updates' = Updates \cup (IF m.kind = "UPDATE" THEN {Len(wire) + 1} ELSE {})
           /\ \A i \in Updates : i \in DOMAIN wire /\ wire'[i] = wire[i] /\ i < Len(wire) + 1
  BY WireAppended DEF Updates

(* What was written stays written.                                         *)
LEMMA SentStaysOnWire ==
    ASSUME wire \in Seq(Message), SentOnWire, UNCHANGED <<ncalls, sent>>,
           wire' = wire \/ \E m \in Message : wire' = Append(wire, m)
    PROVE  SentOnWire'
  BY UpdatesAppended DEF SentOnWire, Updates

(* The UPDATE that is written next carries the route after those that have *)
(* been sent, and they are sent with it.                                   *)
LEMMA WriteUpdateFacts ==
    ASSUME SendInv, WriteUpdate
    PROVE  /\ UpdateMessage \in Message /\ wire' = Append(wire, UpdateMessage)
           /\ UpdateMessage.kind = "UPDATE" /\ UpdateMessage.call = ncalls
           /\ UpdateMessage.first = sent + 1 /\ UpdateMessage.last = sent'
           /\ sent \in Nat /\ sent' \in Nat /\ sent < sent'
           /\ sent' = chunks[next][2] /\ next \in 1 .. Len(chunks) /\ Len(chunks) \in Nat
           /\ next = Len(chunks) => sent' \in Routes /\ sent' + 1 \notin Routes
           /\ next < Len(chunks) => chunks[next + 1][1] = sent' + 1
           /\ pc = "write" /\ call.op = "advertise" /\ UNCHANGED <<call, ncalls, ends, chunks>>
  <1>0. TypeInv /\ ChunkInv /\ ProgressInv /\ pc = "write" /\ call.op = "advertise"
    BY DEF SendInv, WriteUpdate
  <1>1. PICK n \in Routes : n + 1 \notin Routes /\ Partition(chunks, n)
    BY <1>0 DEF ChunkInv, Steps
  <1>2. next \in 1 .. Len(chunks) /\ n \in DOMAIN ends /\ Len(chunks) \in Nat /\ chunks # <<>>
    BY <1>0, <1>1, LenProperties, EmptySeq DEF ChunkInv, Steps, Routes, TypeInv, Partition
  <1>3. /\ chunks[next][1] \in Nat /\ chunks[next][2] \in Nat
        /\ chunks[next][1] >= 1 /\ chunks[next][1] <= chunks[next][2]
        /\ next = Len(chunks) => chunks[next][2] = n
        /\ next < Len(chunks) => chunks[next + 1][1] = chunks[next][2] + 1
    BY <1>0, <1>1, <1>2, BytesOfChunk DEF Partition
  <1>4. sent = chunks[next][1] - 1 /\ sent \in Nat
    BY <1>0 DEF ProgressInv, TypeInv
  <1>5. sent' = sent + chunks[next][2] - chunks[next][1] + 1
    BY DEF WriteUpdate
  <1>6. sent' = chunks[next][2] /\ sent < sent' /\ sent + 1 = chunks[next][1]
    <2>1. \A a, b \in Nat : a <= b =>
             (a - 1) + b - a + 1 = b /\ a - 1 < b /\ (a - 1) + 1 = a
      OBVIOUS
    <2> QED
      BY <1>3, <1>4, <1>5, <2>1
  <1>7. UpdateMessage \in Message
    BY <1>0, MessagesAreTyped
  <1> QED
    BY <1>0, <1>1, <1>2, <1>3, <1>4, <1>6, <1>7 DEF WriteUpdate, UpdateMessage, callVars

(* No message on the wire is of a call that has yet to begin.              *)
LEMMA NoneOfNextCall ==
    ASSUME SendInv
    PROVE  \A i \in DOMAIN wire : wire[i].call # ncalls + 1
  <1>1. ASSUME NEW i \in DOMAIN wire PROVE wire[i].call \in Nat
    <2>1. wire \in Seq(Message)
      BY DEF SendInv, TypeInv
    <2>2. wire[i] \in Message
      BY <1>1, <2>1, ElementOfSeq, LenProperties
    <2> QED
      BY <2>2 DEF Message
  <1> QED
    BY <1>1 DEF SendInv, TypeInv, OrderInv

(* A new call has sent nothing.                                            *)
LEMMA ProgressBegins ==
    ASSUME SendInv, ncalls' = ncalls + 1, wire' = wire, sent' = 0,
           result' # "ok", pc' \in {"script", "chunk", "lock"},
           pc' = "lock" => call'.op # "advertise"
    PROVE  ProgressInv'
  BY NoneOfNextCall DEF ProgressInv, Updates, Steps

(* Another goroutine's message, or none, while the call stays where it is. *)
LEMMA ProgressStays ==
    ASSUME SendInv, wire' = wire \/ wire' = Append(wire, PlainMessage("KEEPALIVE", 0, None)),
           UNCHANGED <<call, ncalls, ends, next, chunks, sent, result>>,
           \/ pc' = pc
           \/ pc \in Steps \ {"chunk", "sleep"} /\ pc' \in Steps \ {"chunk", "sleep"}
    PROVE  ProgressInv'
  <1>0. ProgressInv /\ TypeInv /\ ChunkInv
    BY DEF SendInv
  <1>1. /\ Updates' = Updates /\ \A i \in Updates : wire'[i] = wire[i]
        /\ SentOnWire => SentOnWire'
    <2>1. CASE wire' = wire
      BY <2>1 DEF Updates, SentOnWire
    <2>2. CASE wire' # wire
      <3>1. PlainMessage("KEEPALIVE", 0, None) \in Message
            /\ PlainMessage("KEEPALIVE", 0, None).kind # "UPDATE" /\ wire \in Seq(Message)
        BY <1>0, MessagesAreTyped DEF PlainMessage, TypeInv
      <3> QED
        BY <2>2, <3>1, UpdatesAppended DEF SentOnWire
    <2> QED
      BY <2>1, <2>2
  <1>2. Routes' = Routes
    BY DEF Routes
  <1> QED
    BY <1>0, <1>1, <1>2 DEF ProgressInv, Steps

(* After its last UPDATE a call has sent all of its routes.                *)
LEMMA ProgressWrites == ASSUME SendInv, WriteUpdate PROVE ProgressInv'
  <1>0. ProgressInv /\ TypeInv /\ OrderInv
    BY DEF SendInv
  <1>1. /\ wire \in Seq(Message) /\ ncalls' = ncalls /\ Len(wire) \in Nat
        /\ Updates' = Updates \cup {Len(wire) + 1} /\ wire'[Len(wire) + 1] = UpdateMessage
        /\ \A i \in Updates : wire'[i] = wire[i] /\ wire[i].last \in Nat
    <2>1. wire \in Seq(Message)
      BY <1>0 DEF TypeInv
    <2>2. \A i \in Updates : wire[i] \in Message
      BY <2>1, WriteUpdateFacts, WireAppended DEF Updates
    <2> QED
      BY <2>1, <2>2, WriteUpdateFacts, UpdatesAppended, WireAppended DEF Message
  <1>2. \A i \in Updates' : wire'[i].call = ncalls' => wire'[i].last <= sent'
    <2>1. \A i \in Updates : wire[i].call = ncalls => wire[i].last <= sent
      BY <1>0, WriteUpdateFacts DEF ProgressInv, Steps
    <2>2. sent \in Nat /\ sent' \in Nat /\ sent < sent' /\ UpdateMessage.last = sent'
      BY WriteUpdateFacts
    <2>3. \A i \in Updates : wire[i].call = ncalls => wire[i].last <= sent'
      BY <1>1, <2>1, <2>2
    <2> QED
      BY <1>1, <2>2, <2>3
  <1>3. SentOnWire'
    BY <1>1, WriteUpdateFacts DEF SentOnWire
  <1>4. CASE next = Len(chunks)
    BY <1>3, <1>4, WriteUpdateFacts DEF WriteUpdate, Return, ProgressInv, Routes, Steps
  <1>5. CASE next # Len(chunks)
    <2>1. next < Len(chunks) /\ result' # "ok" /\ call'.op = "advertise"
      BY <1>0, <1>5, WriteUpdateFacts DEF WriteUpdate, SendInv, StampInv, Steps
    <2>2. \/ pc' = "sleep" /\ next' = next
          \/ pc' = "build" /\ next' = next + 1
      BY <1>5 DEF WriteUpdate
    <2>3. sent' \in Nat /\ sent' = chunks'[next][2] /\ sent' = chunks'[next + 1][1] - 1
          /\ Len(chunks') = Len(chunks)
      <3>1. sent' \in Nat /\ sent' = chunks[next][2] /\ chunks[next + 1][1] = sent' + 1 /\ chunks' = chunks
        BY <2>1, WriteUpdateFacts
      <3>2. \A n \in Nat : n = (n + 1) - 1
        OBVIOUS
      <3> QED
        BY <3>1, <3>2
    <2> QED
      BY <1>2, <1>3, <2>1, <2>2, <2>3 DEF ProgressInv
  <1> QED
    BY <1>4, <1>5

(* Every step keeps count of what has been sent.                           *)
LEMMA ProgressStep == SendInv /\ [Next]_vars => ProgressInv'
  <1> SUFFICES ASSUME SendInv, [Next]_vars PROVE ProgressInv'
    OBVIOUS
  <1>0. ProgressInv /\ TypeInv /\ ChunkInv /\ StampInv
    BY DEF SendInv
  <1> USE DEF handshakeVars, callVars, chunkVars, sendVars
  <1>1. CASE Established \/ Rejected
    BY <1>0, <1>1 DEF Established, Rejected, ProgressInv, Steps, SentOnWire, Updates, Routes
  <1>2. ASSUME NEW c \in Call, NEW e \in Batches, CallRefused(c, e) PROVE ProgressInv'
    BY <1>2 DEF CallRefused, Begin, ProgressInv, Steps
  <1>3. ASSUME NEW c \in Call, NEW e \in Batches, SendUpdates(c, e) PROVE ProgressInv'
    BY <1>3, ProgressBegins DEF SendUpdates, Begin, None
  <1>4. ASSUME NEW c \in Call, RouteRefresh(c) PROVE ProgressInv'
    BY <1>4, ProgressBegins DEF RouteRefresh, Begin, WriteOrder, None
  <1>5. CASE ChunkRoute
    <2>1. /\ \/ pc' = "chunk" /\ result' = result
             \/ pc' = "script" /\ result' # "ok"
          /\ pc = "chunk" /\ UNCHANGED <<call, ncalls, sent, wire>>
      <3>1. CASE Size(next) > budget
        BY <1>5, <3>1 DEF ChunkRoute, Return
      <3>2. CASE ~(Size(next) > budget)
        BY <1>5, <3>2 DEF ChunkRoute
      <3> QED
        BY <3>1, <3>2
    <2>2. result' # "ok"
      BY <1>0, <2>1 DEF StampInv, Steps
    <2> QED
      BY <1>0, <2>1, <2>2 DEF ProgressInv, Steps, Updates, SentOnWire
  <1>6. CASE LastChunk
    <2>1. /\ pc' = "build" /\ pc = "chunk" /\ next' = 1 /\ result' = result
          /\ UNCHANGED <<call, ncalls, sent, wire>>
      BY <1>6 DEF LastChunk
    <2>2. call'.op = "advertise" /\ ChunkInv' /\ sent' = 0 /\ result' # "ok"
      BY <1>0, <1>6, <2>1, LastChunkStep DEF TypeInv, ProgressInv, StampInv, Steps
    <2>3. chunks'[1][1] = 1
      BY <2>1, <2>2 DEF ChunkInv, Partition, Steps, Routes
    <2> QED
      BY <1>0, <2>1, <2>2, <2>3 DEF ProgressInv, Steps, Updates, SentOnWire
  <1>7. CASE Build
    <2>1. CASE pc' = "lock" /\ result' = result
      BY <1>7, <2>1, ProgressStays DEF Build, Steps
    <2>2. CASE pc' = "script" /\ result' = "tooLong"
      BY <2>2 DEF ProgressInv, Steps
    <2> QED
      BY <1>7, <2>1, <2>2 DEF Build, Return, WriteOrder
  <1>8. CASE LockWriteMu \/ Stamp
    BY <1>8, ProgressStays DEF LockWriteMu, Stamp, WriteOrder, Steps
  <1>9. CASE WriteUpdate
    BY <1>9, ProgressWrites
  <1>10. CASE WriteRefresh \/ WriteFails
    BY <1>10 DEF WriteRefresh, WriteFails, Return, ProgressInv, Steps
  <1>11. CASE Wake
    <2>1. /\ pc = "sleep" /\ pc' = "build" /\ next' = next + 1
          /\ UNCHANGED <<call, ncalls, ends, chunks, sent, result, wire>>
      BY <1>11 DEF Wake
    <2>2. /\ sent = chunks[next][2] /\ next < Len(chunks) /\ next \in 1 .. Len(chunks)
          /\ call.op = "advertise" /\ sent \in Nat /\ result # "ok"
      BY <1>0, <2>1 DEF ProgressInv, ChunkInv, TypeInv, StampInv, Steps
    <2>3. chunks[next + 1][1] = sent + 1
      BY <1>0, <2>1, <2>2 DEF ChunkInv, Partition, Steps
    <2>4. sent' = chunks'[next'][1] - 1
      BY <2>1, <2>2, <2>3
    <2> QED
      BY <1>0, <2>1, <2>2, <2>4 DEF ProgressInv, Steps, Updates, SentOnWire
  <1>12. CASE KeepaliveTicks \/ KeepaliveLoop \/ UNCHANGED vars
    BY <1>12, ProgressStays DEF KeepaliveTicks, KeepaliveLoop, KeepaliveLocks, KeepaliveWrites,
       KeepaliveLoopEnds, vars
  <1>13. CASE ConnBreaks \/ ReadLoopFails
    BY <1>13, ProgressStays DEF ConnBreaks, ReadLoopFails
  <1> QED
    BY <1>1, <1>2, <1>3, <1>4, <1>5, <1>6, <1>7, <1>8, <1>9, <1>10, <1>11, <1>12, <1>13
       DEF Next, Chunking, Writing

----------------------------------------------------------------------------
\* The order on the wire, and the timestamps.

(* The UPDATE that is written continues those of its call.                 *)
LEMMA OrderWrites == ASSUME SendInv, WriteUpdate PROVE OrderInv'
  <1>0. OrderInv /\ ProgressInv /\ TypeInv
    BY DEF SendInv
  <1> DEFINE n == Len(wire) + 1
             m == UpdateMessage
  <1>1. /\ wire \in Seq(Message) /\ m \in Message /\ ncalls' = ncalls /\ n \in Nat
        /\ DOMAIN wire = 1 .. n - 1 /\ DOMAIN wire' = 1 .. n /\ wire'[n] = m
        /\ \A i \in DOMAIN wire : wire'[i] = wire[i]
        /\ Updates' = Updates \cup {n} /\ \A i \in Updates : i \in DOMAIN wire /\ i \in Nat /\ i < n
    <2>1. wire \in Seq(Message)
      BY <1>0 DEF TypeInv
    <2>2. /\ m \in Message /\ wire' = Append(wire, m) /\ ncalls' = ncalls /\ m.kind = "UPDATE"
      BY WriteUpdateFacts
    <2> HIDE DEF m
    <2>3. /\ n \in Nat /\ DOMAIN wire = 1 .. n - 1 /\ DOMAIN wire' = 1 .. n /\ wire'[n] = m
          /\ \A i \in DOMAIN wire : wire'[i] = wire[i]
      BY <2>1, <2>2, WireAppended
    <2>4. Updates' = Updates \cup {n} /\ \A i \in Updates : i \in DOMAIN wire /\ i < n
      BY <2>1, <2>2, UpdatesAppended
    <2> QED
      BY <2>1, <2>2, <2>3, <2>4
  <1>2. m.call = ncalls /\ m.first = sent + 1 /\ sent \in Nat
    BY WriteUpdateFacts
  <1>3. /\ \A i \in Updates : wire[i].call = ncalls => wire[i].last <= sent
        /\ sent = 0 \/ SentOnWire
    BY <1>0, WriteUpdateFacts DEF ProgressInv, Steps
  <1>4. m.first = 1 \/ \E j \in Updates : wire[j].call = m.call /\ wire[j].last + 1 = m.first
    BY <1>2, <1>3 DEF SentOnWire
  <1>5. \A j \in Updates : wire[j].call = m.call => wire[j].last < m.first
    <2> SUFFICES ASSUME NEW j \in Updates, wire[j].call = m.call
                 PROVE  wire[j].last < m.first
      OBVIOUS
    <2>1. wire[j] \in Message
      BY <1>1, ElementOfSeq
    <2>2. wire[j].last \in Nat
      BY <2>1 DEF Message
    <2> QED
      BY <1>2, <1>3, <2>2
  <1>6. \A i \in DOMAIN wire' : wire'[i].call <= ncalls'
    <2>1. ncalls \in Nat /\ \A i \in DOMAIN wire : wire[i].call <= ncalls
      BY <1>0 DEF OrderInv, TypeInv
    <2>2. \A i \in DOMAIN wire' : i = n \/ i \in DOMAIN wire
      BY <1>1
    <2> HIDE DEF n, m
    <2> QED
      BY <1>1, <1>2, <2>1, <2>2
  <1>7. ASSUME NEW i \in Updates'
        PROVE  /\ \/ wire'[i].first = 1
                  \/ \E j \in Updates' : wire'[j].call = wire'[i].call /\ j < i
                                         /\ wire'[j].last + 1 = wire'[i].first
               /\ \A j \in Updates' : wire'[j].call = wire'[i].call /\ j < i
                                         => wire'[j].last < wire'[i].first
    <2> HIDE DEF n, m
    <2>1. CASE i = n
      <3>1. wire'[i] = m /\ \A j \in Updates' : j < i => j \in Updates
        BY <1>1, <2>1
      <3>2. \A j \in Updates : j \in Updates' /\ j < i /\ wire'[j] = wire[j]
        BY <1>1, <2>1
      <3> QED
        BY <1>4, <1>5, <3>1, <3>2
    <2>2. CASE i # n
      <3>1. i \in Updates /\ i < n /\ wire'[i] = wire[i] /\ i \in Nat /\ n \in Nat
        BY <1>1, <2>2
      <3>2. ~(n < i)
        BY <3>1
      <3>3. \A j \in Updates' : j < i => j \in Updates /\ wire'[j] = wire[j]
        BY <1>1, <3>2
      <3>4. \A j \in Updates : j \in Updates' /\ wire'[j] = wire[j]
        BY <1>1
      <3> QED
        BY <1>0, <3>1, <3>3, <3>4 DEF OrderInv
    <2> QED
      BY <2>1, <2>2
  <1> QED
    BY <1>6, <1>7 DEF OrderInv

(* No step breaks the order of the UPDATEs of any call.                    *)
LEMMA OrderStep == SendInv /\ [Next]_vars => OrderInv'
  <1> SUFFICES ASSUME SendInv, [Next]_vars PROVE OrderInv'
    OBVIOUS
  <1>0. OrderInv /\ TypeInv /\ ChunkInv
    BY DEF SendInv
  <1>1. ncalls' = ncalls \/ ncalls' = ncalls + 1
    BY DEF Next, Established, Rejected, CallRefused, SendUpdates, RouteRefresh, Begin, Chunking,
           ChunkRoute, LastChunk, Writing, Build, LockWriteMu, Stamp, WriteUpdate, WriteRefresh,
           WriteFails, Wake, KeepaliveTicks, KeepaliveLoop, KeepaliveLocks, KeepaliveWrites,
           KeepaliveLoopEnds, ConnBreaks, ReadLoopFails, vars, callVars
  <1>2. wire \in Seq(Message) /\ ncalls \in Nat /\ \A i \in DOMAIN wire : wire[i].call \in Nat
    <2>1. wire \in Seq(Message) /\ ncalls \in Nat
      BY <1>0 DEF TypeInv
    <2>2. \A i \in DOMAIN wire : wire[i] \in Message
      BY <2>1, ElementOfSeq, LenProperties
    <2> QED
      BY <2>1, <2>2 DEF Message
  <1>3. CASE WriteUpdate
    BY <1>3, OrderWrites
  <1>4. CASE wire' = wire
    BY <1>0, <1>1, <1>2, <1>4 DEF OrderInv, Updates
  <1>5. ASSUME NEW m \in Message, m.kind # "UPDATE", m.call \in {0, ncalls}, wire' = Append(wire, m),
               ncalls' = ncalls
        PROVE  OrderInv'
    <2>1. Updates' = Updates /\ \A i \in Updates : wire'[i] = wire[i]
      BY <1>2, <1>5, UpdatesAppended
    <2>2. \A i \in DOMAIN wire' : wire'[i].call <= ncalls'
      BY <1>0, <1>2, <1>5, WireAppended DEF OrderInv
    <2> QED
      BY <1>0, <2>1, <2>2 DEF OrderInv
  <1>6. CASE WriteRefresh
    <2> DEFINE m == PlainMessage("ROUTE-REFRESH", ncalls, call.family)
    <2>1. m \in Message /\ m.kind # "UPDATE" /\ m.call = ncalls
      BY <1>0, <1>6, MessagesAreTyped DEF WriteRefresh, PlainMessage
    <2> QED
      BY <1>5, <1>6, <2>1 DEF WriteRefresh, callVars
  <1>7. CASE wire' = Append(wire, PlainMessage("KEEPALIVE", 0, None)) /\ ncalls' = ncalls
    <2> DEFINE m == PlainMessage("KEEPALIVE", 0, None)
    <2>1. m \in Message /\ m.kind # "UPDATE" /\ m.call = 0
      BY <1>0, MessagesAreTyped DEF PlainMessage
    <2> QED
      BY <1>5, <1>7, <2>1
  <1> QED
    BY <1>3, <1>4, <1>6, <1>7, WireGrows

(* A place on the wire stays the same when the wire grows.                 *)
LEMMA FirstStaysStamped ==
    ASSUME wire \in Seq(Message), FirstIsStamped, UNCHANGED <<ncalls, firstTs>>,
           wire' = wire \/ \E m \in Message : wire' = Append(wire, m)
    PROVE  FirstIsStamped' /\ firstTs # -1
  <1>1. PICK i \in DOMAIN wire : /\ wire[i].call = ncalls /\ firstTs = i - 1
                                 /\ \A j \in 1 .. i - 1 : wire[j].call # ncalls
    BY DEF FirstIsStamped
  <1>2. i \in DOMAIN wire' /\ \A j \in 1 .. i : wire'[j] = wire[j] /\ i \in Nat /\ i > 0
    BY WireAppended, LenProperties
  <1>3. wire'[i] = wire[i] /\ \A j \in 1 .. i - 1 : wire'[j] = wire[j]
    BY <1>2, LenProperties
  <1>4. firstTs # -1
    BY <1>1, LenProperties
  <1> QED
    BY <1>1, <1>2, <1>3, <1>4 DEF FirstIsStamped

(* The first message of a call is where its timestamp says, if no other    *)
(* was written in between.                                                 *)
LEMMA FirstIsWritten ==
    ASSUME wire \in Seq(Message), NEW m \in Message, m.call = ncalls, ncalls' = ncalls,
           wire' = Append(wire, m), firstTs' = Len(wire),
           \A i \in DOMAIN wire : wire[i].call # ncalls
    PROVE  FirstIsStamped'
  <1> DEFINE n == Len(wire) + 1
  <1>1. /\ DOMAIN wire = 1 .. n - 1 /\ n \in DOMAIN wire' /\ wire'[n] = m /\ n - 1 = Len(wire)
        /\ \A j \in 1 .. n - 1 : wire'[j] = wire[j]
    BY WireAppended
  <1>2. firstTs' = n - 1 /\ wire'[n].call = ncalls' /\ \A j \in 1 .. n - 1 : wire'[j].call # ncalls'
    BY <1>1
  <1> HIDE DEF n
  <1> QED
    BY <1>1, <1>2 DEF FirstIsStamped

(* Every step keeps the timestamps: a call that stamps holds writeMu until *)
(* it writes, so the wire is no longer when it does.                       *)
LEMMA StampStep == SendInv /\ [Next]_vars => StampInv'
  <1> SUFFICES ASSUME SendInv, [Next]_vars PROVE StampInv'
    OBVIOUS
  <1>0. StampInv /\ TypeInv /\ ChunkInv /\ MutexInv /\ wire \in Seq(Message)
    BY DEF SendInv, TypeInv
  <1> USE DEF handshakeVars, callVars, chunkVars, sendVars, Steps
  <1>1. ASSUME wire' = wire, UNCHANGED <<call, ncalls, ts, firstTs>>,
               \/ result' = result
               \/ result' # "ok" /\ pc' = "script",
               \/ pc' = pc
               \/ pc \in Steps /\ pc' \in {"script", "build", "lock", "chunk", "stamp"}
        PROVE  StampInv'
    BY <1>0, <1>1 DEF StampInv, FirstIsStamped
  <1>2. CASE Established \/ Rejected
    BY <1>0, <1>2 DEF Established, Rejected, StampInv, FirstIsStamped
  <1>3. ASSUME NEW c \in Call, NEW e \in Batches, CallRefused(c, e) PROVE StampInv'
    BY <1>3 DEF CallRefused, Begin, StampInv
  <1>4. ASSUME NEW c \in Call, NEW e \in Batches, SendUpdates(c, e) PROVE StampInv'
    BY <1>4, NoneOfNextCall DEF SendUpdates, Begin, StampInv, None
  <1>5. ASSUME NEW c \in Call, RouteRefresh(c) PROVE StampInv'
    BY <1>5, NoneOfNextCall DEF RouteRefresh, Begin, WriteOrder, StampInv, None
  <1>6. CASE ChunkRoute
    BY <1>1, <1>6 DEF ChunkRoute, Return
  <1>7. CASE LastChunk \/ Build \/ LockWriteMu \/ Wake
    BY <1>1, <1>7 DEF LastChunk, Build, LockWriteMu, Wake, Return, WriteOrder
  <1>8. CASE Stamp
    BY <1>0, <1>8 DEF Stamp, WriteOrder, StampInv, FirstIsStamped
  <1>9. CASE WriteUpdate
    <2>1. /\ pc = "write" /\ UNCHANGED <<call, ncalls, ts>> /\ call.op = "advertise"
          /\ UpdateMessage \in Message /\ UpdateMessage.call = ncalls
          /\ wire' = Append(wire, UpdateMessage)
          /\ pc' \in {"script", "sleep", "build"}
          /\ pc' = "script" \/ result' = result
          /\ firstTs' = IF firstTs = -1 THEN ts ELSE firstTs
      BY <1>9, WriteUpdateFacts DEF WriteUpdate, Return
    <2>2. ts = Len(wire) /\ result # "ok"
      BY <1>0, <2>1 DEF StampInv
    <2>3. FirstIsStamped'
      <3>1. CASE FirstIsStamped
        <4>1. firstTs # -1
          BY <1>0, <3>1, LenProperties DEF FirstIsStamped
        <4> QED
          BY <1>0, <2>1, <3>1, <4>1, FirstStaysStamped
      <3>2. CASE firstTs = -1 /\ \A i \in DOMAIN wire : wire[i].call # ncalls
        BY <1>0, <2>1, <2>2, <3>2, FirstIsWritten
      <3> QED
        BY <1>0, <2>1, <3>1, <3>2 DEF StampInv
    <2> QED
      BY <2>1, <2>2, <2>3 DEF StampInv
  <1>10. CASE WriteRefresh
    <2> DEFINE m == PlainMessage("ROUTE-REFRESH", ncalls, call.family)
    <2>1. /\ pc = "write" /\ UNCHANGED <<call, ncalls, ts>> /\ call.op = "refresh"
          /\ m \in Message /\ m.call = ncalls /\ wire' = Append(wire, m)
          /\ pc' = "script" /\ firstTs' = ts
      BY <1>0, <1>10, MessagesAreTyped DEF WriteRefresh, Return, PlainMessage
    <2>2. ts = Len(wire) /\ \A i \in DOMAIN wire : wire[i].call # ncalls
      <3>1. FirstIsStamped => firstTs # -1
        BY <1>0, LenProperties DEF FirstIsStamped
      <3> QED
        BY <1>0, <2>1, <3>1 DEF StampInv
    <2>3. FirstIsStamped'
      BY <1>0, <2>1, <2>2, FirstIsWritten
    <2> QED
      BY <2>1, <2>3 DEF StampInv
  <1>11. CASE WriteFails
    BY <1>1, <1>11 DEF WriteFails, Return
  <1>12. ASSUME keepalive = "write", wire' = Append(wire, PlainMessage("KEEPALIVE", 0, None)),
                UNCHANGED <<pc, call, ncalls, ts, firstTs, result>>
         PROVE  StampInv'
    <2> DEFINE m == PlainMessage("KEEPALIVE", 0, None)
    <2>1. m \in Message /\ m.call = 0 /\ wire' = Append(wire, m)
      BY <1>0, <1>12, MessagesAreTyped DEF PlainMessage
    <2>2. pc # "write"
      BY <1>0, <1>12 DEF MutexInv
    <2>3. FirstIsStamped => FirstIsStamped'
      BY <1>0, <1>12, <2>1, FirstStaysStamped
    <2>4. ASSUME ncalls > 0, \A i \in DOMAIN wire : wire[i].call # ncalls
          PROVE  \A i \in DOMAIN wire' : wire'[i].call # ncalls'
      BY <1>0, <1>12, <2>1, <2>4, WireAppended
    <2> QED
      BY <1>0, <1>12, <2>2, <2>3, <2>4 DEF StampInv, TypeInv
  <1>13. CASE KeepaliveWrites
    BY <1>1, <1>12, <1>13 DEF KeepaliveWrites
  <1>14. CASE KeepaliveTicks \/ KeepaliveLocks \/ KeepaliveLoopEnds \/ UNCHANGED vars
    BY <1>1, <1>14 DEF KeepaliveTicks, KeepaliveLocks, KeepaliveLoopEnds, vars
  <1>15. CASE ConnBreaks \/ ReadLoopFails
    BY <1>1, <1>15 DEF ConnBreaks, ReadLoopFails
  <1> QED
    BY <1>2, <1>3, <1>4, <1>5, <1>6, <1>7, <1>8, <1>9, <1>10, <1>11, <1>13, <1>14, <1>15
       DEF Next, Chunking, Writing, KeepaliveLoop

----------------------------------------------------------------------------
\* What the peer reads.

(* What a call is allowed to send is what the other side of the session    *)
(* takes it to be allowed.                                                 *)
LEMMA AllowedIsUnderstood ==
    ASSUME SendInv, pc \in Steps
    PROVE  /\ Limit(call) <= (IF Peer.extended THEN ExtendedMaxLen ELSE MaxLen) \/ call.op = "refresh"
           /\ \A f \in Family : "send" \in session.addPath[f] <=> "receive" \in Peer.addPath[f]
           /\ call.op = "refresh" => remote.refresh
  <1>1. /\ AgreedInv /\ Allowed(call) /\ local \in Offer /\ remote \in Offer
        /\ session = AcceptPeerOpen(local, remote)
    BY OfferAssumption DEF SendInv, AllowedInv, AgreedInv, Steps
  <1>2. session.extended = Peer.extended /\ session.refresh = remote.refresh
    BY <1>1 DEF AcceptPeerOpen, Peer, Offer
  <1>3. call.op # "refresh" /\ call.extended => Peer.extended
    BY <1>1, <1>2 DEF Allowed
  <1>4. Limit(call) <= (IF Peer.extended THEN ExtendedMaxLen ELSE MaxLen) \/ call.op = "refresh"
    BY <1>3, LengthAssumption DEF Limit
  <1>5. ASSUME NEW f \in Family
        PROVE  "send" \in session.addPath[f] <=> "receive" \in Peer.addPath[f]
    <2>1. local.addPath[f] \in SUBSET Direction /\ remote.addPath[f] \in SUBSET Direction
      BY <1>1 DEF Offer
    <2>2. /\ session.addPath[f] = NegotiatedMode(local.addPath[f], remote.addPath[f])
          /\ Peer.addPath[f] = NegotiatedMode(remote.addPath[f], local.addPath[f])
      BY <1>1 DEF AcceptPeerOpen, Peer
    <2>3. "send" \in Direction /\ Opposite("send") = "receive"
      BY DEF Direction, Opposite
    <2> QED
      BY <2>1, <2>2, <2>3, ModesAreMirrored
  <1>6. call.op = "refresh" => remote.refresh
    BY <1>1, <1>2 DEF Allowed
  <1> QED
    BY <1>4, <1>5, <1>6

(* Nothing is written that the peer would not read.                        *)
LEMMA UnderstoodStep == SendInv /\ [Next]_vars => PeerUnderstands'
  <1> SUFFICES ASSUME SendInv, [Next]_vars PROVE PeerUnderstands'
    OBVIOUS
  <1>0. PeerUnderstands /\ TypeInv /\ ChunkInv /\ AllowedInv /\ wire \in Seq(Message)
    BY DEF SendInv, TypeInv
  <1> DEFINE Longest == IF Peer.extended THEN ExtendedMaxLen ELSE MaxLen
  <1>1. Peer' = Peer /\ remote' = remote /\ Longest' = Longest
    <2>1. local' = local /\ remote' = remote
      BY DEF Next, Established, Rejected, CallRefused, SendUpdates, RouteRefresh, Begin, Chunking,
             ChunkRoute, LastChunk, Writing, Build, LockWriteMu, Stamp, WriteUpdate, WriteRefresh,
             WriteFails, Wake, KeepaliveTicks, KeepaliveLoop, KeepaliveLocks, KeepaliveWrites,
             KeepaliveLoopEnds, ConnBreaks, ReadLoopFails, vars, handshakeVars
    <2> QED
      BY <2>1 DEF Peer
  <1>2. CASE wire' = wire
    BY <1>0, <1>1, <1>2 DEF PeerUnderstands
  <1>3. ASSUME NEW m \in Message, wire' = Append(wire, m), m.len <= Longest,
               m.kind = "UPDATE" => m.ids = ("receive" \in Peer.addPath[m.family]),
               m.kind = "ROUTE-REFRESH" => remote.refresh
        PROVE  PeerUnderstands'
    <2>1. /\ \A i \in DOMAIN wire' : i \in DOMAIN wire \/ i = Len(wire) + 1
          /\ \A i \in DOMAIN wire : wire'[i] = wire[i]
          /\ wire'[Len(wire) + 1] = m
      BY <1>0, <1>3, WireAppended
    <2> QED
      BY <1>0, <1>1, <1>3, <2>1 DEF PeerUnderstands
  <1>4. CASE WriteUpdate
    <2>1. pc = "write" /\ call.op = "advertise" /\ UpdateMessage \in Message
          /\ wire' = Append(wire, UpdateMessage)
      BY <1>4, WriteUpdateFacts
    <2>2. MessageLen(chunks[next]) <= Limit(call) /\ call.family \in Family
      BY <1>0, <2>1 DEF AllowedInv, TypeInv, Steps, Call
    <2>3. UpdateMessage.len = MessageLen(chunks[next]) /\ UpdateMessage.len \in Int
          /\ UpdateMessage.kind = "UPDATE" /\ UpdateMessage.family = call.family
          /\ UpdateMessage.ids = ("send" \in session.addPath[call.family])
      BY <2>1 DEF UpdateMessage, Message
    <2>4. UpdateMessage.len <= Longest
      BY <2>1, <2>2, <2>3, AllowedIsUnderstood, LengthAssumption DEF Steps, Limit
    <2>5. UpdateMessage.ids = ("receive" \in Peer.addPath[UpdateMessage.family])
      BY <2>1, <2>2, <2>3, AllowedIsUnderstood DEF Steps
    <2> QED
      BY <1>3, <2>1, <2>3, <2>4, <2>5
  <1>5. CASE WriteRefresh
    <2> DEFINE m == PlainMessage("ROUTE-REFRESH", ncalls, call.family)
    <2>1. m \in Message /\ wire' = Append(wire, m) /\ pc \in Steps /\ call.op = "refresh"
      BY <1>0, <1>5, MessagesAreTyped DEF WriteRefresh, Steps
    <2>2. m.len <= Longest /\ m.kind = "ROUTE-REFRESH"
      BY LengthAssumption DEF PlainMessage
    <2>3. remote.refresh
      BY <2>1, AllowedIsUnderstood
    <2> QED
      BY <1>3, <2>1, <2>2, <2>3
  <1>6. CASE wire' = Append(wire, PlainMessage("KEEPALIVE", 0, None))
    <2> DEFINE m == PlainMessage("KEEPALIVE", 0, None)
    <2>1. m \in Message /\ m.len <= Longest /\ m.kind = "KEEPALIVE"
      BY <1>0, MessagesAreTyped, LengthAssumption DEF PlainMessage
    <2> QED
      BY <1>3, <1>6, <2>1
  <1> QED
    BY <1>2, <1>4, <1>5, <1>6, WireGrows

----------------------------------------------------------------------------
\* The theorems about calls.

(* At every point of every call the chunks, the wire, the lock and the     *)
(* timestamps are what the rest of the call takes them to be.              *)
THEOREM CallsKeepInvariant == Spec => []SendInv
  <1>1. SendInv /\ [Next]_vars => SendInv'
    <2> SUFFICES ASSUME SendInv, [Next]_vars PROVE SendInv'
      OBVIOUS
    <2>1. AgreedInv'
      BY AgreedNext DEF SendInv
    <2>2. TypeInv' /\ MutexInv' /\ ChunkInv'
      BY TypeStep, MutexStep, ChunkStep
    <2>3. AllowedInv' /\ ProgressInv' /\ OrderInv'
      BY AllowedStep, ProgressStep, OrderStep
    <2>4. StampInv' /\ PeerUnderstands'
      BY StampStep, UnderstoodStep
    <2> QED
      BY <2>1, <2>2, <2>3, <2>4 DEF SendInv
  <1> QED
    BY SendFirst, <1>1, PTL DEF Spec

(* No message is longer than the peer reads, has path identifiers the peer *)
(* does not expect or lacks those it does, or asks for a refresh the peer  *)
(* did not offer: checks of Advertise and Build against acceptPeerOpen.    *)
THEOREM PeerAlwaysUnderstands == Spec => []PeerUnderstands
  <1>1. SendInv => PeerUnderstands
    BY DEF SendInv
  <1> QED
    BY <1>1, CallsKeepInvariant, PTL

(* ChunkRoutes makes the largest chunks that fit, for routes of any sizes  *)
(* and in any number.                                                      *)
THEOREM ChunksAreAlwaysLargest == Spec => []LargestChunks
  <1>1. SendInv => LargestChunks
    <2> SUFFICES ASSUME ChunkInv, TypeInv PROVE LargestChunks
      BY DEF SendInv
    <2>1. DOMAIN chunks = 1 .. Len(chunks)
      BY LenProperties DEF TypeInv
    <2> QED
      BY <2>1 DEF ChunkInv, Filled, LargestChunks
  <1> QED
    BY <1>1, CallsKeepInvariant, PTL

(* writeUpdates sends the routes of a call each once and in their order,   *)
(* whatever is written between its chunks, and a call that succeeds has    *)
(* sent all of them.                                                       *)
THEOREM RoutesAreAlwaysInOrder == Spec => []RoutesInOrder
  <1>1. SendInv => RoutesInOrder
    <2> SUFFICES ASSUME OrderInv, ProgressInv PROVE RoutesInOrder
      BY DEF SendInv
    <2> DEFINE updates(n) == {i \in DOMAIN wire : wire[i].kind = "UPDATE" /\ wire[i].call = n}
    <2>1. \A n \in 1 .. ncalls : updates(n) = {i \in Updates : wire[i].call = n}
      BY DEF Updates
    <2>2. ASSUME NEW n \in 1 .. ncalls, NEW i \in updates(n)
          PROVE  /\ wire[i].first = 1 \/ \E j \in updates(n) : j < i /\ wire[j].last + 1 = wire[i].first
                 /\ \A j \in updates(n) : j < i => wire[j].last < wire[i].first
      BY <2>2 DEF OrderInv, Updates
    <2>3. ASSUME result = "ok", call.op = "advertise"
          PROVE  /\ sent \in Routes /\ sent + 1 \notin Routes
                 /\ \E i \in updates(ncalls) : wire[i].last = sent
      BY <2>3 DEF ProgressInv, SentOnWire, Updates
    <2> QED
      BY <2>2, <2>3 DEF RoutesInOrder
  <1> QED
    BY <1>1, CallsKeepInvariant, PTL

(* The timestamp that a call returns is taken when the next message on the *)
(* wire is its first one: RouteRefresh and writeUpdates call timing.Now()  *)
(* between writeMu.Lock() and conn.Write.                                  *)
THEOREM TimestampsAreAlwaysOfFirstWrite == Spec => []SentAtFirstWrite
  <1>1. SendInv => SentAtFirstWrite
    BY DEF SendInv, StampInv, FirstIsStamped, SentAtFirstWrite
  <1> QED
    BY <1>1, CallsKeepInvariant, PTL
=============================================================================
