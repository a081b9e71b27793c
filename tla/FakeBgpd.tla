------------------------------ MODULE FakeBgpd ------------------------------
(***************************************************************************)
(* The reflecting test speaker, cmd/fakebgpd/main.go, with the peers that  *)
(* connect to it.                                                          *)
(*                                                                         *)
(* Every connection has a goroutine, handleConn, that answers the OPEN,    *)
(* publishes the session in the hub, and then serves UPDATEs (cached, and  *)
(* reflected to the other sessions) and ROUTE-REFRESHes (answered from the *)
(* cache).  hub.mu protects the list of sessions and the cache; writes to  *)
(* connections are made outside of it.  The peers are xk6-bgp sessions: of *)
(* PeerSession only the handshake is kept.                                 *)
(*                                                                         *)
(* An UPDATE is its origin and a number; what it says does not matter.     *)
(***************************************************************************)
EXTENDS Integers, Sequences, SequencesExt

CONSTANTS
    Conn,           \* connections, one session each
    MaxUpdates,     \* bound: UPDATEs sent by all peers together
    MaxTicks        \* bound: keepalives sent by all tickers together

(* No session is the origin of a message that is not an UPDATE.            *)
ASSUME ConnAssumption == "none" \notin Conn

VARIABLES
    pc,         \* where each handleConn goroutine is
    clients,    \* hub.clients
    updates,    \* hub.updates
    inHand,     \* the UPDATE each handleConn is serving
    targets,    \* broadcast: the sessions it has yet to write to
    answer,     \* replay: the messages it has yet to write
    ticks,      \* keepalives sent by the tickers
    reflectMode,\* the -reflect flag
    enhanced,   \* whether the peer advertised Enhanced Route Refresh
    wire,       \* everything written to each connection
    inbox,      \* what each peer has sent and handleConn has not read
    peer,       \* state of the peer's session
    nread,      \* how much of its wire each peer read in its handshake
    sent,       \* UPDATEs sent by the peers
    due,        \* UPDATEs sent while this peer was Established
    refreshed,  \* the peers that have asked for a refresh
    asked       \* what was cached when this peer did

hubVars  == <<clients, updates>>
connVars == <<pc, inHand, targets, answer, ticks>>
confVars == <<reflectMode, enhanced>>
peerVars == <<peer, nread, sent, due, refreshed, asked>>
vars == <<hubVars, connVars, confVars, wire, inbox, peerVars>>

(* An UPDATE is known by the session it came from and a number.           *)
NoUpdate == [from |-> "none", id |-> 0]

Msg(k)        == [kind |-> k, update |-> NoUpdate]
UpdateMsg(u)  == [kind |-> "UPDATE", update |-> u]
ReplayMsg(u)  == [kind |-> "replayed UPDATE", update |-> u]

(* The goroutine is in the hub's list from its h.add to its h.remove.      *)
Published == {"keepalive", "read", "record", "reflect", "broadcast", "refresh", "replay"}

Init ==
    /\ pc = [c \in Conn |-> "none"]
    /\ clients = {} /\ updates = <<>>
    /\ inHand = [c \in Conn |-> NoUpdate]
    /\ targets = [c \in Conn |-> {}]
    /\ answer = [c \in Conn |-> <<>>]
    /\ ticks = 0
    /\ reflectMode \in BOOLEAN
    /\ enhanced \in [Conn -> BOOLEAN]
    /\ wire = [c \in Conn |-> <<>>]
    /\ inbox = [c \in Conn |-> <<>>]
    /\ peer = [c \in Conn |-> "idle"]
    /\ nread = [c \in Conn |-> 0]
    /\ sent = 0
    /\ due = [c \in Conn |-> {}]
    /\ refreshed = {} /\ asked = [c \in Conn |-> {}]

(* Writing to a connection: one Write call, never mixed with another; what *)
(* is written to a closed one is lost, and nobody looks at the error.      *)
Written(c, m) == IF pc[c] = "gone" THEN wire ELSE [wire EXCEPT ![c] = Append(@, m)]

Goto(c, l) == pc' = [pc EXCEPT ![c] = l]

----------------------------------------------------------------------------
\* handleConn: the handshake.

\* Mutant: the session is published once its peer can be Established.
AddAfterKeepalive == [open |-> "keepalive", keepalive |-> "add", add |-> "read"]

(* What follows each write and h.add: the session is published before its  *)
(* KEEPALIVE is written, so that it misses no UPDATE.                      *)
HandshakeOrder == [open |-> "add", add |-> "keepalive", keepalive |-> "read"]

ReadOpen(c) ==
    /\ pc[c] = "accept"
    /\ inbox[c] # <<>> /\ Head(inbox[c]).kind = "OPEN"
    /\ inbox' = [inbox EXCEPT ![c] = Tail(@)]
    /\ Goto(c, "open")
    /\ UNCHANGED <<hubVars, inHand, targets, answer, ticks, confVars, wire, peerVars>>

SendOpen(c) ==
    /\ pc[c] = "open"
    /\ wire' = Written(c, Msg("OPEN"))
    /\ Goto(c, HandshakeOrder.open)
    /\ UNCHANGED <<hubVars, inHand, targets, answer, ticks, confVars, inbox, peerVars>>

(* hub.add.                                                                *)
Add(c) ==
    /\ pc[c] = "add"
    /\ clients' = clients \cup {c}
    /\ Goto(c, HandshakeOrder.add)
    /\ UNCHANGED <<updates, inHand, targets, answer, ticks, confVars, wire, inbox, peerVars>>

SendKeepalive(c) ==
    /\ pc[c] = "keepalive"
    /\ wire' = Written(c, Msg("KEEPALIVE"))
    /\ Goto(c, HandshakeOrder.keepalive)
    /\ UNCHANGED <<hubVars, inHand, targets, answer, ticks, confVars, inbox, peerVars>>

(* The ticker goroutine, started after the handshake and stopped by the    *)
(* end of handleConn.                                                      *)
KeepaliveTick(c) ==
    /\ pc[c] \in Published \ {"keepalive"}
    /\ ticks < MaxTicks
    /\ ticks' = ticks + 1
    /\ wire' = Written(c, Msg("KEEPALIVE"))
    /\ UNCHANGED <<hubVars, pc, inHand, targets, answer, confVars, inbox, peerVars>>

----------------------------------------------------------------------------
\* handleConn: serving messages.

ReadMessage(c) ==
    /\ pc[c] = "read"
    /\ inbox[c] # <<>>
    /\ LET m == Head(inbox[c])
       IN  /\ inHand' = [inHand EXCEPT ![c] = m.update]
           /\ Goto(c, CASE m.kind = "UPDATE" -> "record"
                        [] m.kind = "ROUTE-REFRESH" -> "refresh"
                        [] OTHER -> "read")
    /\ inbox' = [inbox EXCEPT ![c] = Tail(@)]
    /\ UNCHANGED <<hubVars, targets, answer, ticks, confVars, wire, peerVars>>

(* hub.record.                                                             *)
Record(c) ==
    /\ pc[c] = "record"
    /\ updates' = Append(updates, inHand[c])
    /\ Goto(c, IF reflectMode THEN "reflect" ELSE "read")
    /\ UNCHANGED <<clients, inHand, targets, answer, ticks, confVars, wire, inbox, peerVars>>

(* The sessions an UPDATE of c is reflected to.                            *)
Others(c) == clients \ {c}

(* The critical section of hub.broadcast.                                  *)
Reflect(c) ==
    /\ pc[c] = "reflect"
    /\ targets' = [targets EXCEPT ![c] = Others(c)]
    /\ Goto(c, IF Others(c) = {} THEN "read" ELSE "broadcast")
    /\ UNCHANGED <<hubVars, inHand, answer, ticks, confVars, wire, inbox, peerVars>>

(* Its loop over the sessions, in the order of a Go map: any.              *)
Broadcast(c) ==
    /\ pc[c] = "broadcast"
    /\ \E t \in targets[c] :
         /\ wire' = Written(t, UpdateMsg(inHand[c]))
         /\ targets' = [targets EXCEPT ![c] = @ \ {t}]
         /\ Goto(c, IF targets[c] = {t} THEN "read" ELSE "broadcast")
    /\ UNCHANGED <<hubVars, inHand, answer, ticks, confVars, inbox, peerVars>>

\* Mutant: the peer's own UPDATEs are replayed as well.
ReplayedAll(c) == updates

(* The cached UPDATEs another session sent: the loop of hub.replay.        *)
Replayed(c) ==
    LET raws[i \in 0 .. Len(updates)] ==
          IF i = 0 THEN <<>>
          ELSE IF updates[i].from # c THEN Append(raws[i - 1], updates[i])
          ELSE raws[i - 1]
    IN  raws[Len(updates)]

\* Mutant: the end is announced before the routes.
DemarcatedEarly(c, raws) ==
    IF enhanced[c] THEN <<Msg("BoRR"), Msg("EoRR")>> \o raws ELSE raws

(* An answer is bracketed where RFC 7313 was negotiated.                   *)
Demarcated(c, raws) ==
    IF enhanced[c] THEN <<Msg("BoRR")>> \o raws \o <<Msg("EoRR")>> ELSE raws

(* The critical section of hub.replay.                                     *)
Refresh(c) ==
    /\ pc[c] = "refresh"
    /\ LET raws == [i \in DOMAIN Replayed(c) |-> ReplayMsg(Replayed(c)[i])]
           full == Demarcated(c, raws)
       IN  /\ answer' = [answer EXCEPT ![c] = full]
           /\ Goto(c, IF full = <<>> THEN "read" ELSE "replay")
    /\ UNCHANGED <<hubVars, inHand, targets, ticks, confVars, wire, inbox, peerVars>>

(* Its writes, between which broadcasts of other goroutines may come.      *)
Replay(c) ==
    /\ pc[c] = "replay"
    /\ wire' = Written(c, Head(answer[c]))
    /\ answer' = [answer EXCEPT ![c] = Tail(@)]
    /\ Goto(c, IF Len(answer[c]) = 1 THEN "read" ELSE "replay")
    /\ UNCHANGED <<hubVars, inHand, targets, ticks, confVars, inbox, peerVars>>

(* A read or write error, or the read deadline, ends handleConn: h.remove  *)
(* and conn.Close are deferred.                                            *)
Leave(c) ==
    /\ \/ pc[c] = "read" /\ (peer[c] \in {"closed", "failed"} \/ inbox[c] = <<>>)
       \/ pc[c] \in {"accept", "open", "keepalive"} /\ peer[c] \in {"closed", "failed"}
    /\ clients' = clients \ {c}
    /\ Goto(c, "gone")
    /\ UNCHANGED <<updates, inHand, targets, answer, ticks, confVars, wire, inbox, peerVars>>

----------------------------------------------------------------------------
\* The peers.

PeerConnects(c) ==
    /\ peer[c] = "idle"
    /\ peer' = [peer EXCEPT ![c] = "openSent"]
    /\ Goto(c, "accept")
    /\ inbox' = [inbox EXCEPT ![c] = <<Msg("OPEN")>>]
    /\ UNCHANGED <<hubVars, inHand, targets, answer, ticks, confVars, wire, nread, sent, due, refreshed,
                   asked>>

(* fsm.handshake of the peer; what its readLoop does is not followed.      *)
PeerReads(c) ==
    /\ peer[c] \in {"openSent", "openConfirm"}
    /\ nread[c] < Len(wire[c])
    /\ nread' = [nread EXCEPT ![c] = @ + 1]
    /\ LET kind == wire[c][nread[c] + 1].kind
       IN  IF peer[c] = "openSent" /\ kind = "OPEN"
           THEN /\ peer' = [peer EXCEPT ![c] = "openConfirm"]
                /\ inbox' = [inbox EXCEPT ![c] = Append(@, Msg("KEEPALIVE"))]
           ELSE IF peer[c] = "openConfirm" /\ kind = "KEEPALIVE"
           THEN /\ peer' = [peer EXCEPT ![c] = "established"]
                /\ UNCHANGED inbox
           ELSE /\ peer' = [peer EXCEPT ![c] = "failed"]
                /\ UNCHANGED inbox
    /\ UNCHANGED <<hubVars, connVars, confVars, wire, sent, due, refreshed, asked>>

PeerUpdates(c) ==
    /\ peer[c] = "established"
    /\ sent < MaxUpdates
    /\ LET u == [from |-> c, id |-> sent + 1]
       IN  /\ inbox' = [inbox EXCEPT ![c] = Append(@, UpdateMsg(u))]
           /\ due' = [o \in Conn |-> IF o # c /\ peer[o] = "established"
                                     THEN due[o] \cup {u} ELSE due[o]]
    /\ sent' = sent + 1
    /\ UNCHANGED <<hubVars, connVars, confVars, wire, peer, nread, refreshed, asked>>

(* One refresh per peer.                                                   *)
PeerRefreshes(c) ==
    /\ peer[c] = "established"
    /\ c \notin refreshed
    /\ refreshed' = refreshed \cup {c}
    /\ asked' = [asked EXCEPT ![c] = {u \in ToSet(updates) : u.from # c}]
    /\ inbox' = [inbox EXCEPT ![c] = Append(@, Msg("ROUTE-REFRESH"))]
    /\ UNCHANGED <<hubVars, connVars, confVars, wire, peer, nread, sent, due>>

PeerCloses(c) ==
    /\ peer[c] \in {"openSent", "openConfirm", "established"}
    /\ peer' = [peer EXCEPT ![c] = "closed"]
    /\ UNCHANGED <<hubVars, connVars, confVars, wire, inbox, nread, sent, due, refreshed, asked>>

----------------------------------------------------------------------------
Handler(c) ==
    \/ ReadOpen(c) \/ SendOpen(c) \/ Add(c) \/ SendKeepalive(c) \/ KeepaliveTick(c)
    \/ ReadMessage(c) \/ Record(c) \/ Reflect(c) \/ Broadcast(c)
    \/ Refresh(c) \/ Replay(c) \/ Leave(c)

Peer(c) ==
    \/ PeerConnects(c) \/ PeerReads(c) \/ PeerUpdates(c) \/ PeerRefreshes(c) \/ PeerCloses(c)

Next == \E c \in Conn : Handler(c) \/ Peer(c)

Spec == Init /\ [][Next]_vars

----------------------------------------------------------------------------
\* Safety.

OnWire(c, k) == {i \in DOMAIN wire[c] : wire[c][i].kind = k}

(* The comment at h.add: the session is published before its KEEPALIVE so  *)
(* that no UPDATE sent once it is Established passes it by.  When a        *)
(* broadcast is over, every session that was Established when the UPDATE   *)
(* was sent has it, and has the UPDATEs of one origin in their order.      *)
ReflectedToAll ==
    /\ reflectMode =>
         \A u \in ToSet(updates), c \in Conn :
            (/\ u \in due[c] /\ pc[c] # "gone"
             /\ inHand[u.from] = u => pc[u.from] \notin {"reflect", "broadcast"})
                => \E i \in OnWire(c, "UPDATE") : wire[c][i].update = u
    /\ \A c \in Conn : \A i, j \in OnWire(c, "UPDATE") :
         i < j /\ wire[c][i].update.from = wire[c][j].update.from
            => wire[c][i].update.id < wire[c][j].update.id

(* Between the BoRR and the EoRR of an answer lies every UPDATE of another *)
(* session that was cached when the refresh was asked for, whatever is     *)
(* broadcast to the session in the meantime.                               *)
AnswerIsComplete ==
    \A c \in Conn : \A e \in OnWire(c, "EoRR") :
        \E b \in OnWire(c, "BoRR") :
            /\ b < e
            /\ \A u \in asked[c] :
                 \E i \in OnWire(c, "replayed UPDATE") : b < i /\ i < e /\ wire[c][i].update = u

(* No session ever gets its own UPDATE back, by reflection or by replay.   *)
SplitHorizon ==
    \A c \in Conn : \A i \in DOMAIN wire[c] : wire[c][i].update.from # c

----------------------------------------------------------------------------
\* What a comment says and the code does not do.

(* The comment at h.add: between the OPEN and the KEEPALIVE no broadcast   *)
(* can land mis-sequenced.  So the handshake of no peer fails.             *)
HandshakeInSequence == \A c \in Conn : peer[c] # "failed"
=============================================================================
