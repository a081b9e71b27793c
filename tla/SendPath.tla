------------------------------ MODULE SendPath ------------------------------
(***************************************************************************)
(* Peer.Advertise, Peer.Withdraw and Peer.RouteRefresh, from the checks of *)
(* internal/peer/send.go over ChunkRoutes of internal/packet/path.go to    *)
(* the writes, next to the keepaliveLoop, which shares writeMu with them.  *)
(* The peer is one that reads by the rules of the capabilities: it runs    *)
(* AcceptPeerOpen with the roles exchanged.                                *)
(*                                                                         *)
(* Routes are known by their position in the call; all that is kept of     *)
(* them is how many bytes they take: ends[i] is what the first i of them   *)
(* take on the wire.  Lengths are in some unit, and those of attributes do *)
(* not depend on the call.  Time is the number of messages written.        *)
(***************************************************************************)
EXTENDS Negotiation, Sequences

CONSTANTS
    Config,         \* configurations of a Peer
    Remote,         \* what its peer offers
    Batches,        \* the routes of a call: what the first i of them take
    MaxRoutes,      \* bound: routes of a call
    MaxCalls,       \* bound: calls of Advertise, Withdraw and RouteRefresh
    MaxTicks,       \* bound: ticks of the keepalive ticker
    MaxLen,         \* BGP_MAX_MESSAGE_LENGTH
    ExtendedMaxLen, \* BGPExtendedMaxMessageLength
    HeaderLen,      \* BGP_HEADER_LENGTH
    PathIdLen,      \* bytes of a path identifier
    ShortAttr,      \* the longest attribute with a one-octet length
    AttrsLen,       \* bytes of an UPDATE's body without routes
    MpLen           \* of these, what is in front of the routes in MP_(UN)REACH

ASSUME ConfigAssumption ==
    \A c \in Config :
        /\ c.hold \in Int
        /\ \A name \in {"extendedMessage", "routeRefresh", "enhancedRouteRefresh"} :
             Capability(c, name) \in BOOLEAN
ASSUME OfferAssumption == Remote \subseteq Offer
ASSUME LengthAssumption ==
    /\ {MaxLen, ExtendedMaxLen, HeaderLen, PathIdLen, ShortAttr, AttrsLen, MpLen} \subseteq Nat
    /\ HeaderLen <= MaxLen /\ MaxLen <= ExtendedMaxLen
ASSUME BatchAssumption ==
    \A e \in Batches :
        /\ \E n \in 0 .. MaxRoutes : e \in [0 .. n -> Nat]
        /\ e[0] = 0
        /\ \A i \in DOMAIN e \ {0} : e[i - 1] < e[i]
ASSUME BoundsAssumption == {MaxRoutes, MaxCalls, MaxTicks} \subseteq Nat

VARIABLES
    local, remote,  \* the two OPENs
    session,        \* what acceptPeerOpen made of them
    pc,             \* where the virtual user is
    call,           \* its last call
    ncalls,         \* calls so far
    ends,           \* the routes of the call
    budget,         \* ChunkRoutes: room for routes in a message
    start, used,    \* ChunkRoutes: the open chunk
    next,           \* ChunkRoutes: the route, then writeUpdates: the chunk, it is at
    chunks,         \* ChunkRoutes: <<first, last>> of every chunk
    sent,           \* writeUpdates: total
    ts, firstTs,    \* writeUpdates: timestamps
    result,         \* how the call ended
    keepalive,      \* where the keepaliveLoop is
    ticks,          \* ticks so far
    writeMu,        \* who holds fsm.writeMu
    wire,           \* what was written
    conn            \* "open", "broken", or "down" once the FSM knows

handshakeVars == <<local, remote, session>>
callVars  == <<call, ncalls, ends>>
chunkVars == <<budget, start, used, next, chunks>>
sendVars  == <<sent, ts, firstTs>>
loopVars  == <<keepalive, ticks>>
vars == <<handshakeVars, pc, callVars, chunkVars, sendVars, result, loopVars, writeMu, wire, conn>>

None == "none"

(* The family of a call is one of Family.  mp tells MP_REACH_NLRI and      *)
(* MP_UNREACH_NLRI from the fields of the UPDATE itself; ids whether a     *)
(* route has a path identifier; drip whether there is an update rate.      *)
(* Withdraw does what Advertise does.                                      *)
Call == [op : {"advertise", "refresh"}, family : Family, mp : BOOLEAN,
         extended : BOOLEAN, ids : BOOLEAN, drip : BOOLEAN]

(* An attribute that is longer than ShortAttr has a length of two octets.  *)
LongAttr(mp, bytes) == IF mp /\ MpLen + bytes > ShortAttr THEN 1 ELSE 0

Size(i) == ends[i] - ends[i - 1]
Routes  == {i \in DOMAIN ends : i > 0}
Bytes(c) == ends[c[2]] - ends[c[1] - 1]
MessageLen(c) == HeaderLen + AttrsLen + Bytes(c) + LongAttr(call.mp, Bytes(c))
Limit(c) == IF c.extended THEN ExtendedMaxLen ELSE MaxLen

Steps == {"chunk", "build", "lock", "stamp", "write", "sleep"}

NoCall == [op |-> None]

Init ==
    /\ local \in {BuildOpen(c) : c \in {c \in Config : Usable(c)}} /\ remote \in Remote
    /\ session = NoSession
    /\ pc = "handshake"
    /\ call = NoCall /\ ncalls = 0 /\ ends = [i \in {0} |-> 0]
    /\ budget = 0 /\ start = 0 /\ used = 0 /\ next = 0 /\ chunks = <<>>
    /\ sent = 0 /\ ts = 0 /\ firstTs = -1
    /\ result = None
    /\ keepalive = "off" /\ ticks = 0
    /\ writeMu = None /\ wire = <<>> /\ conn = "open"

----------------------------------------------------------------------------
\* The end of the handshake.

Established ==
    /\ pc = "handshake"
    /\ Acceptable(remote)
    /\ session' = AcceptPeerOpen(local, remote)
    /\ pc' = "script"
    /\ keepalive' = IF session'.tick = 0 THEN "off" ELSE "select"
    /\ UNCHANGED <<local, remote, callVars, chunkVars, sendVars, result, ticks, writeMu, wire, conn>>

Rejected ==
    /\ pc = "handshake"
    /\ ~Acceptable(remote)
    /\ pc' = "rejected"
    /\ UNCHANGED <<handshakeVars, callVars, chunkVars, sendVars, result, loopVars, writeMu, wire, conn>>

----------------------------------------------------------------------------
\* The calls.

\* Mutant: whether the peer takes extended messages is not checked.
AllowedAnyLength(c) ==
    IF c.op = "refresh" THEN session.refresh
    ELSE c.ids => "send" \in session.addPath[c.family]

(* What the session must have negotiated for a call.                       *)
Allowed(c) ==
    IF c.op = "refresh" THEN session.refresh
    ELSE /\ c.extended => session.extended
         /\ c.ids => "send" \in session.addPath[c.family]

(* What the first i routes take, with their path identifiers where these   *)
(* were negotiated: a route without one then goes out with identifier 0.   *)
WithIds(e, f) ==
    [i \in DOMAIN e |-> IF "send" \in session.addPath[f] THEN e[i] + PathIdLen * i ELSE e[i]]

(* The room for routes: shellOverhead measures a message with the first    *)
(* route in it, without its path identifier.                               *)
Budget(c, e) == Limit(c) - HeaderLen - (AttrsLen + LongAttr(c.mp, e[1]))

Begin(c) ==
    /\ pc = "script"
    /\ ncalls < MaxCalls
    /\ ncalls' = ncalls + 1
    /\ call' = c

(* sessionNotReadyErr, a capability that was not negotiated, or no routes. *)
CallRefused(c, e) ==
    /\ Begin(c)
    /\ conn = "down" \/ ~Allowed(c) \/ (c.op = "advertise" /\ DOMAIN e = {0})
    /\ result' = "refused"
    /\ UNCHANGED <<handshakeVars, pc, ends, chunkVars, sendVars, loopVars, writeMu, wire, conn>>

SendUpdates(c, e) ==
    /\ Begin(c)
    /\ c.op = "advertise" /\ DOMAIN e # {0}
    /\ conn # "down" /\ Allowed(c)
    /\ ends' = WithIds(e, c.family)
    /\ budget' = Budget(c, e)
    /\ start' = 1 /\ used' = 0 /\ next' = 1 /\ chunks' = <<>>
    /\ sent' = 0 /\ firstTs' = -1
    /\ IF budget' <= 0 THEN pc' = "script" /\ result' = "tooLarge"
                       ELSE pc' = "chunk" /\ result' = None
    /\ UNCHANGED <<handshakeVars, ts, loopVars, writeMu, wire, conn>>

\* Mutant: the timestamp is taken before the lock.
WriteOrderStampFirst == [begin |-> "stamp", stamp |-> "lock", lock |-> "write"]

(* The timestamp is taken under writeMu, immediately before the write.     *)
WriteOrder == [begin |-> "lock", lock |-> "stamp", stamp |-> "write"]

RouteRefresh(c) ==
    /\ Begin(c)
    /\ c.op = "refresh"
    /\ conn # "down" /\ Allowed(c)
    /\ sent' = 0 /\ firstTs' = -1
    /\ pc' = WriteOrder.begin
    /\ result' = None
    /\ UNCHANGED <<handshakeVars, ends, chunkVars, ts, loopVars, writeMu, wire, conn>>

----------------------------------------------------------------------------
\* ChunkRoutes.

Return(r) == pc' = "script" /\ result' = r

\* Mutant: a message is never filled to the last byte.
OverflowsAtBudget(i) == used + Size(i) >= budget

Overflows(i) == used + Size(i) > budget

\* Mutant: the route that did not fit is left out.
StartAfter(i) == i + 1

(* The chunk after the one that route i did not fit in.                    *)
StartAt(i) == i

(* One turn of the loop over the routes.                                   *)
ChunkRoute ==
    /\ pc = "chunk"
    /\ next \in Routes
    /\ IF Size(next) > budget
       THEN /\ Return("tooLarge")
            /\ UNCHANGED chunkVars
       ELSE /\ IF Overflows(next)
               THEN /\ chunks' = Append(chunks, <<start, next - 1>>)
                    /\ start' = StartAt(next)
                    /\ used' = Size(next)
               ELSE /\ used' = used + Size(next)
                    /\ UNCHANGED <<chunks, start>>
            /\ next' = next + 1
            /\ UNCHANGED <<pc, budget, result>>
    /\ UNCHANGED <<handshakeVars, callVars, sendVars, loopVars, writeMu, wire, conn>>

LastChunk ==
    /\ pc = "chunk"
    /\ next \notin Routes
    /\ chunks' = Append(chunks, <<start, next - 1>>)
    /\ next' = 1
    /\ pc' = "build"
    /\ UNCHANGED <<handshakeVars, callVars, budget, start, used, sendVars, result, loopVars, writeMu,
                   wire, conn>>

----------------------------------------------------------------------------
\* writeUpdates, and the write of RouteRefresh.

(* BuildUpdateMessage and SerializeMessage of the next chunk.              *)
Build ==
    /\ pc = "build"
    /\ IF MessageLen(chunks[next]) > Limit(call)
       THEN Return("tooLong")
       ELSE pc' = WriteOrder.begin /\ UNCHANGED result
    /\ UNCHANGED <<handshakeVars, callVars, chunkVars, sendVars, loopVars, writeMu, wire, conn>>

LockWriteMu ==
    /\ pc = "lock"
    /\ writeMu = None
    /\ writeMu' = "vu"
    /\ pc' = WriteOrder.lock
    /\ UNCHANGED <<handshakeVars, callVars, chunkVars, sendVars, result, loopVars, wire, conn>>

Stamp ==
    /\ pc = "stamp"
    /\ ts' = Len(wire)
    /\ pc' = WriteOrder.stamp
    /\ UNCHANGED <<handshakeVars, callVars, chunkVars, sent, firstTs, result, loopVars, writeMu, wire, conn>>

(* Every route of an UPDATE has a path identifier, or none has.            *)
UpdateMessage ==
    [kind |-> "UPDATE", call |-> ncalls, family |-> call.family, first |-> chunks[next][1],
     last |-> chunks[next][2], len |-> MessageLen(chunks[next]),
     ids |-> "send" \in session.addPath[call.family]]

PlainMessage(k, n, f) ==
    [kind |-> k, call |-> n, family |-> f, first |-> 0, last |-> 0, len |-> HeaderLen, ids |-> FALSE]

\* Mutant: writeMu is held until the last chunk has been written.
UnlockedAtTheEnd == IF call.op = "advertise" /\ next < Len(chunks) THEN "vu" ELSE None

(* writeMu after the write of a chunk: it is taken for each one anew.      *)
Unlocked == None

WriteUpdate ==
    /\ pc = "write" /\ call.op = "advertise"
    /\ conn = "open"
    /\ wire' = Append(wire, UpdateMessage)
    /\ writeMu' = Unlocked
    /\ firstTs' = IF firstTs = -1 THEN ts ELSE firstTs
    /\ sent' = sent + chunks[next][2] - chunks[next][1] + 1
    /\ IF next = Len(chunks) THEN Return("ok") /\ UNCHANGED next
       ELSE IF call.drip THEN pc' = "sleep" /\ UNCHANGED <<next, result>>
       ELSE pc' = "build" /\ next' = next + 1 /\ UNCHANGED result
    /\ UNCHANGED <<handshakeVars, callVars, budget, start, used, chunks, ts, loopVars, conn>>

WriteRefresh ==
    /\ pc = "write" /\ call.op = "refresh"
    /\ conn = "open"
    /\ wire' = Append(wire, PlainMessage("ROUTE-REFRESH", ncalls, call.family))
    /\ writeMu' = None
    /\ firstTs' = ts
    /\ Return("ok")
    /\ UNCHANGED <<handshakeVars, callVars, chunkVars, sent, ts, loopVars, conn>>

(* The caller does not get to know what was sent before.                   *)
WriteFails ==
    /\ pc = "write"
    /\ conn # "open"
    /\ writeMu' = None
    /\ Return("broken")
    /\ UNCHANGED <<handshakeVars, callVars, chunkVars, sendVars, loopVars, wire, conn>>

(* The sleep between the chunks of a call with an update rate.             *)
Wake ==
    /\ pc = "sleep"
    /\ next' = next + 1
    /\ pc' = "build"
    /\ UNCHANGED <<handshakeVars, callVars, budget, start, used, chunks, sendVars, result, loopVars,
                   writeMu, wire, conn>>

----------------------------------------------------------------------------
\* keepaliveLoop, and the connection.

KeepaliveTicks ==
    /\ keepalive = "select"
    /\ ticks < MaxTicks
    /\ ticks' = ticks + 1
    /\ keepalive' = "lock"
    /\ UNCHANGED <<handshakeVars, pc, callVars, chunkVars, sendVars, result, writeMu, wire, conn>>

KeepaliveLocks ==
    /\ keepalive = "lock"
    /\ writeMu = None
    /\ writeMu' = "keepalive"
    /\ keepalive' = "write"
    /\ UNCHANGED <<handshakeVars, pc, callVars, chunkVars, sendVars, result, ticks, wire, conn>>

(* A write error is a failure of the session.                              *)
KeepaliveWrites ==
    /\ keepalive = "write"
    /\ writeMu' = None
    /\ IF conn = "open"
       THEN /\ wire' = Append(wire, PlainMessage("KEEPALIVE", 0, None))
            /\ keepalive' = "select"
            /\ UNCHANGED conn
       ELSE /\ conn' = "down"
            /\ keepalive' = "off"
            /\ UNCHANGED wire
    /\ UNCHANGED <<handshakeVars, pc, callVars, chunkVars, sendVars, result, ticks>>

KeepaliveLoopEnds ==
    /\ keepalive = "select"
    /\ conn = "down"
    /\ keepalive' = "off"
    /\ UNCHANGED <<handshakeVars, pc, callVars, chunkVars, sendVars, result, ticks, writeMu, wire, conn>>

ConnBreaks ==
    /\ pc \notin {"handshake", "rejected"}
    /\ conn = "open"
    /\ conn' = "broken"
    /\ UNCHANGED <<handshakeVars, pc, callVars, chunkVars, sendVars, result, loopVars, writeMu, wire>>

(* The readLoop fails, and the state is no longer Established.             *)
ReadLoopFails ==
    /\ conn = "broken"
    /\ conn' = "down"
    /\ UNCHANGED <<handshakeVars, pc, callVars, chunkVars, sendVars, result, loopVars, writeMu, wire>>

----------------------------------------------------------------------------
Chunking == ChunkRoute \/ LastChunk
Writing  == Build \/ LockWriteMu \/ Stamp \/ WriteUpdate \/ WriteRefresh \/ WriteFails
KeepaliveLoop == KeepaliveLocks \/ KeepaliveWrites \/ KeepaliveLoopEnds

Next ==
    \/ Established \/ Rejected
    \/ \E c \in Call :
         \/ \E e \in Batches : CallRefused(c, e) \/ SendUpdates(c, e)
         \/ RouteRefresh(c)
    \/ Chunking \/ Writing \/ Wake
    \/ KeepaliveTicks \/ KeepaliveLoop
    \/ ConnBreaks \/ ReadLoopFails

Spec == Init /\ [][Next]_vars

(* The goroutines run and get the lock when it is free; nothing bounds the *)
(* sleep between two chunks.                                               *)
Fairness == WF_vars(Chunking \/ Writing) /\ WF_vars(KeepaliveLocks) /\ WF_vars(KeepaliveWrites)

FairSpec == Spec /\ Fairness

----------------------------------------------------------------------------
\* Safety.

Peer == AcceptPeerOpen(remote, local)
Opposite(d) == IF d = "send" THEN "receive" ELSE "send"

(* Both sides take the session for the same: the hold time, and with it    *)
(* keepalives that come in time for the other side; extended messages and  *)
(* refresh demarcations; and additional paths, each direction seen from    *)
(* its other end.                                                          *)
SidesAgree ==
    pc \notin {"handshake", "rejected"} =>
        /\ session.hold = Peer.hold
        /\ session.tick < Peer.hold \/ Peer.hold = 0
        /\ session.tick = 0 <=> Peer.hold = 0
        /\ session.extended = Peer.extended /\ session.enhanced = Peer.enhanced
        /\ \A f \in Family, d \in Direction :
             d \in session.addPath[f] <=> Opposite(d) \in Peer.addPath[f]

(* No message is longer than the peer reads, has path identifiers the peer *)
(* does not expect or lacks those it does, or asks for a refresh the peer  *)
(* did not offer.                                                          *)
PeerUnderstands ==
    \A i \in DOMAIN wire :
        /\ wire[i].len <= (IF Peer.extended THEN ExtendedMaxLen ELSE MaxLen)
        /\ wire[i].kind = "UPDATE" =>
             wire[i].ids = ("receive" \in Peer.addPath[wire[i].family])
        /\ wire[i].kind = "ROUTE-REFRESH" => remote.refresh

(* The UPDATEs of a call carry its routes from the first one on, each once *)
(* and in their order, whatever is written between them; and a call that   *)
(* succeeds has sent them all and says how many they were.                 *)
RoutesInOrder ==
    LET updates(n) == {i \in DOMAIN wire : wire[i].kind = "UPDATE" /\ wire[i].call = n}
    IN  /\ \A n \in 1 .. ncalls : \A i \in updates(n) :
             /\ wire[i].first = 1 \/ \E j \in updates(n) : j < i /\ wire[j].last + 1 = wire[i].first
             /\ \A j \in updates(n) : j < i => wire[j].last < wire[i].first
        /\ result = "ok" /\ call.op = "advertise" =>
             /\ sent \in Routes /\ sent + 1 \notin Routes
             /\ \E i \in updates(ncalls) : wire[i].last = sent

(* The chunks are the largest that fit: each one is within the budget and  *)
(* would not be with the route that comes after it.                        *)
LargestChunks ==
    pc \in Steps \ {"chunk"} /\ call.op = "advertise" =>
        \A k \in DOMAIN chunks :
            /\ Bytes(chunks[k]) <= budget
            /\ k < Len(chunks) => Bytes(chunks[k]) + Size(chunks[k + 1][1]) > budget

(* The timestamp a call returns is that of its first message, taken when   *)
(* nothing could be written any more before it: no wait for writeMu, and   *)
(* no KEEPALIVE, is measured as delivery time.                             *)
SentAtFirstWrite ==
    result = "ok" =>
        \E i \in DOMAIN wire : /\ wire[i].call = ncalls /\ firstTs = i - 1
                               /\ \A j \in 1 .. i - 1 : wire[j].call # ncalls

----------------------------------------------------------------------------
\* Liveness, under FairSpec.

(* However long a call sleeps between its chunks, a KEEPALIVE that is due  *)
(* gets the lock.                                                          *)
DripLetsKeepalivesThrough == keepalive = "lock" ~> keepalive # "lock"

----------------------------------------------------------------------------
\* What a comment says and the code does not do.

(* The comment of ChunkRoutes: each chunk serializes within the limit.  So *)
(* no message is refused for its length after it has been chunked.         *)
ChunksSerialize == result # "tooLong"
=============================================================================
