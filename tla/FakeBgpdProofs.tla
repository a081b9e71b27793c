--------------------------- MODULE FakeBgpdProofs ---------------------------
(***************************************************************************)
(* Proofs about FakeBgpd, for any number of sessions, UPDATEs and ticks.   *)
(*                                                                         *)
(* OriginInv follows every message to the session it came from, DueInv     *)
(* every UPDATE to the sessions it is due to, IdInv the order of those of  *)
(* one origin along its way, and RefreshInv an answer between its queue    *)
(* and the wire.  What hub.replay collects is a recursive function, about  *)
(* which induction is done by hand: a set of natural numbers without a     *)
(* least one is empty.                                                     *)
(***************************************************************************)
EXTENDS FakeBgpd, NaturalSets, SequenceTheorems

Update == [from : Conn, id : Nat]
Plain == {"OPEN", "KEEPALIVE", "ROUTE-REFRESH", "BoRR", "EoRR"}
Message == [kind : Plain, update : {NoUpdate}]
             \cup [kind : {"UPDATE", "replayed UPDATE"}, update : Update]

TypeInv ==
    /\ pc \in [Conn -> {"none", "accept", "open", "add", "gone"} \cup Published]
    /\ clients \subseteq Conn
    /\ updates \in Seq(Update)
    /\ inHand \in [Conn -> Update \cup {NoUpdate}]
    /\ targets \in [Conn -> SUBSET Conn]
    /\ answer \in [Conn -> Seq(Message)]
    /\ wire \in [Conn -> Seq(Message)]
    /\ inbox \in [Conn -> Seq(Message)]
    /\ peer \in [Conn -> {"idle", "openSent", "openConfirm", "established", "closed", "failed"}]
    /\ nread \in [Conn -> Nat]
    /\ sent \in Nat
    /\ due \in [Conn -> SUBSET Update]
    /\ asked \in [Conn -> SUBSET Update]

(* A goroutine that serves an UPDATE.                                      *)
Serving == {"record", "reflect", "broadcast"}

(* Nobody is Established who has not been sent a KEEPALIVE.                *)
Early == {"none", "accept", "open", "add", "keepalive"}

StageInv ==
    /\ clients = {c \in Conn : pc[c] \in Published}
    /\ \A c \in Conn :
         /\ peer[c] = "idle" => pc[c] = "none"
         /\ pc[c] \in Early => \A i \in DOMAIN wire[c] : wire[c][i].kind # "KEEPALIVE"
         /\ peer[c] = "established" => pc[c] \notin Early

(* Where each message is, it is known whose it is.                         *)
Sent(c)     == \A i \in DOMAIN inbox[c] : inbox[c][i].kind = "UPDATE" => inbox[c][i].update.from = c
Served(c)   == pc[c] \in Serving => inHand[c].from = c
Answered(c) == \A i \in DOMAIN answer[c] : answer[c][i].kind # "UPDATE" /\ answer[c][i].update.from # c
Received(c) == \A i \in DOMAIN wire[c] : wire[c][i].update.from # c
Expected(c) == \A u \in due[c] : u.from # c /\ u.id <= sent

OriginInv ==
    \A c \in Conn : /\ Sent(c) /\ Served(c) /\ c \notin targets[c]
                    /\ Answered(c) /\ Received(c) /\ Expected(c)

Has(w, u) == \E i \in DOMAIN w : w[i].kind = "UPDATE" /\ w[i].update = u

(* Its origin has yet to write it to this session.                         *)
Awaiting(u, c) == /\ inHand[u.from] = u
                  /\ pc[u.from] = "reflect" \/ (pc[u.from] = "broadcast" /\ c \in targets[u.from])

(* A cached UPDATE that a session was due to get is on its wire, or its    *)
(* broadcast has yet to come to this session.                              *)
DueInv ==
    /\ \A c \in Conn : due[c] # {} => pc[c] \notin Early
    /\ \A i \in DOMAIN updates : updates[i].id <= sent
    /\ reflectMode =>
         \A i \in DOMAIN updates, c \in Conn :
            updates[i] \in due[c] /\ pc[c] # "gone" =>
              Has(wire[c], updates[i]) \/ Awaiting(updates[i], c)

(* The numbers of the UPDATEs of an origin rise from the wires to the one  *)
(* in hand, to those in its inbox and to those to come.                    *)

(* The UPDATE o has in hand has yet to be written to c.                    *)
Pending(o, c) == pc[o] \in {"record", "reflect"} \/ (pc[o] = "broadcast" /\ c \in targets[o])

(* n is behind what is still to come from o.                               *)
Ahead(o, n) == /\ n <= sent
               /\ \A i \in DOMAIN inbox[o] : inbox[o][i].kind = "UPDATE" => n < inbox[o][i].update.id

Sorted(o) == \A i \in DOMAIN inbox[o] : inbox[o][i].kind = "UPDATE" =>
               /\ inbox[o][i].update.id <= sent
               /\ \A j \in DOMAIN inbox[o] : inbox[o][j].kind = "UPDATE" /\ i < j =>
                    inbox[o][i].update.id < inbox[o][j].update.id

Behind(c) == \A k \in DOMAIN wire[c] : wire[c][k].kind = "UPDATE" =>
               LET u == wire[c][k].update
               IN  Ahead(u.from, u.id) /\ (Pending(u.from, c) => u.id < inHand[u.from].id)

IdInv ==
    \A c \in Conn : /\ pc[c] \in Serving => Ahead(c, inHand[c].id)
                    /\ Sorted(c)
                    /\ Behind(c)

OrderInv ==
    \A c \in Conn : \A i, j \in OnWire(c, "UPDATE") :
        i < j /\ wire[c][i].update.from = wire[c][j].update.from
            => wire[c][i].update.id < wire[c][j].update.id

(* Between a BoRR in front of an end and this end lie the UPDATEs of us.   *)
Complete(w, e, us) ==
    \E b \in DOMAIN w : /\ b < e /\ w[b].kind = "BoRR"
                        /\ \A u \in us : \E i \in DOMAIN w : b < i /\ i < e /\ w[i] = ReplayMsg(u)

(* With what is left of an answer, r, in front of its end: a BoRR on the   *)
(* wire w, and those of us that are not behind it still to come.           *)
Divided(w, r, e, us) ==
    \E b \in DOMAIN w :
        /\ w[b].kind = "BoRR"
        /\ \A u \in us : \/ \E i \in DOMAIN w : b < i /\ w[i] = ReplayMsg(u)
                        \/ \E i \in DOMAIN r : i < e /\ r[i] = ReplayMsg(u)

Cached(c)    == \A u \in asked[c] : u.from # c /\ \E i \in DOMAIN updates : updates[i] = u
Answering(c) == pc[c] = "replay" <=> answer[c] # <<>>
Unasked(c)   == c \notin refreshed =>
                  /\ \A i \in DOMAIN inbox[c] : inbox[c][i].kind # "ROUTE-REFRESH"
                  /\ pc[c] \notin {"refresh", "replay"}
                  /\ \A e \in DOMAIN wire[c] : wire[c][e].kind # "EoRR"
Ended(c)     == \A e \in DOMAIN wire[c] : wire[c][e].kind = "EoRR" => Complete(wire[c], e, asked[c])
Ending(c)    == \A e \in DOMAIN answer[c] : answer[c][e].kind = "EoRR" =>
                  Complete(answer[c], e, asked[c]) \/ Divided(wire[c], answer[c], e, asked[c])

(* An answer between its queue and the wire.                               *)
RefreshInv ==
    \A c \in Conn : Cached(c) /\ Answering(c) /\ Unasked(c) /\ Ended(c) /\ Ending(c)

ReflectorInv ==
    TypeInv /\ StageInv /\ OriginInv /\ DueInv /\ IdInv /\ OrderInv /\ RefreshInv

----------------------------------------------------------------------------
\* Sequences.

(* What appending does.                                                    *)
LEMMA Appended ==
    ASSUME NEW S, NEW w \in Seq(S), NEW m \in S
    PROVE  LET v == Append(w, m)
               n == Len(w) + 1
           IN  /\ v \in Seq(S) /\ n \in Nat /\ n \in DOMAIN v /\ v[n] = m
               /\ \A i \in DOMAIN w : i \in Nat /\ i < n /\ i \in DOMAIN v /\ v[i] = w[i] /\ w[i] \in S
               /\ \A i \in DOMAIN v : i = n \/ i \in DOMAIN w
  BY AppendProperties, LenProperties, ElementOfSeq

(* What is left when the head is taken.                                    *)
LEMMA Taken ==
    ASSUME NEW S, NEW w \in Seq(S), w # <<>>
    PROVE  /\ Tail(w) \in Seq(S) /\ Head(w) \in S /\ 1 \in DOMAIN w /\ Head(w) = w[1]
           /\ \A i \in DOMAIN w : i \in Nat /\ i > 0 /\ w[i] \in S
           /\ \A i \in DOMAIN Tail(w) : i \in Nat /\ i > 0 /\ i + 1 \in DOMAIN w /\ Tail(w)[i] = w[i + 1]
           /\ \A i \in DOMAIN w : i > 1 => i - 1 \in DOMAIN Tail(w)
  <1>1. /\ Tail(w) \in Seq(S) /\ Head(w) \in S /\ Len(w) \in Nat /\ Len(w) > 0 /\ Head(w) = w[1]
        /\ DOMAIN w = 1 .. Len(w) /\ DOMAIN Tail(w) = 1 .. Len(w) - 1
    BY HeadTailProperties, EmptySeq, LenProperties
  <1>2. \A i \in 1 .. Len(w) - 1 : Tail(w)[i] = w[i + 1]
    BY <1>1, HeadTailProperties
  <1>3. \A i \in DOMAIN w : w[i] \in S
    BY <1>1, ElementOfSeq
  <1> QED
    BY <1>1, <1>2, <1>3

(* What writing to a connection does.                                      *)
LEMMA WrittenFacts ==
    ASSUME wire \in [Conn -> Seq(Message)], NEW t \in Conn, NEW m \in Message,
           wire' = Written(t, m)
    PROVE  /\ wire' \in [Conn -> Seq(Message)]
           /\ \A c \in Conn : \/ wire'[c] = wire[c]
                              \/ c = t /\ wire'[c] = Append(wire[c], m)
           /\ pc[t] # "gone" => wire'[t] = Append(wire[t], m)
  <1>1. Append(wire[t], m) \in Seq(Message)
    BY AppendProperties
  <1> QED
    BY <1>1 DEF Written

(* The messages of the handshake and of refreshes.                         *)
LEMMA PlainMessages ==
    \A k \in Plain : Msg(k) \in Message /\ Msg(k).kind = k /\ Msg(k).update = NoUpdate
  BY DEF Msg, Message

(* Those that carry an UPDATE.                                             *)
LEMMA UpdateMessages ==
    ASSUME NEW u \in Update
    PROVE  /\ UpdateMsg(u) \in Message /\ UpdateMsg(u).kind = "UPDATE" /\ UpdateMsg(u).update = u
           /\ ReplayMsg(u) \in Message /\ ReplayMsg(u).kind = "replayed UPDATE"
           /\ ReplayMsg(u).update = u
  BY DEF UpdateMsg, ReplayMsg, Message

(* A message that is not an UPDATE has no origin.                          *)
LEMMA MessageFields ==
    ASSUME NEW m \in Message
    PROVE  /\ m.update \in Update \cup {NoUpdate}
           /\ m.kind \in Plain => m.update = NoUpdate /\ m = Msg(m.kind)
           /\ m.kind \notin Plain => m.update \in Update
           /\ m.kind = "UPDATE" => m = UpdateMsg(m.update)
           /\ m.kind = "replayed UPDATE" => m = ReplayMsg(m.update)
  BY DEF Message, Plain, Msg, UpdateMsg, ReplayMsg

(* An origin is a session.                                                 *)
LEMMA Origins ==
    ASSUME NEW u \in Update \cup {NoUpdate}
    PROVE  /\ u.from \in Conn <=> u \in Update
           /\ u \in Update => u.id \in Nat
           /\ u = NoUpdate => u.from = "none" /\ "none" \notin Conn
  BY ConnAssumption DEF Update, NoUpdate

----------------------------------------------------------------------------
\* What hub.replay collects.

(* What the loop has collected after each UPDATE.                          *)
LEMMA ReplayedIsCollected ==
    ASSUME updates \in Seq(Update), NEW c
    PROVE  \E raws : /\ raws = [i \in 0 .. Len(updates) |->
                                  IF i = 0 THEN <<>>
                                  ELSE IF updates[i].from # c THEN Append(raws[i - 1], updates[i])
                                  ELSE raws[i - 1]]
                     /\ Replayed(c) = raws[Len(updates)]
  <1> DEFINE n == Len(updates)
             Turn(g, i) == IF i = 0 THEN <<>>
                           ELSE IF updates[i].from # c THEN Append(g[i - 1], updates[i])
                           ELSE g[i - 1]
             Runs(g, m) == g = [i \in 0 .. m |-> Turn(g, i)]
             Bad == {m \in 0 .. n : ~ \E g : Runs(g, m)}
  <1>1. n \in Nat
    BY LenProperties
  <1>2. Bad = {}
    <2> SUFFICES ASSUME Bad # {} PROVE FALSE
      OBVIOUS
    <2>1. PICK m \in Bad : \A k \in Bad : m <= k
      <3>1. Bad \subseteq Nat
        BY <1>1
      <3> HIDE DEF Bad
      <3> QED
        BY <3>1, LeastNatural
    <2>2. m \in 0 .. n /\ ~ \E g : Runs(g, m)
      OBVIOUS
    <2>3. m # 0
      <3> DEFINE g == [i \in 0 .. 0 |-> <<>>]
      <3>1. g = [i \in 0 .. 0 |-> Turn(g, i)]
        OBVIOUS
      <3> QED
        BY <2>2, <3>1
    <2>4. m - 1 \in 0 .. n /\ m - 1 \notin Bad
      <3>1. m - 1 \in 0 .. n /\ ~(m <= m - 1)
        BY <1>1, <2>2, <2>3
      <3> HIDE DEF Bad
      <3> QED
        BY <2>1, <3>1
    <2>5. PICK g : Runs(g, m - 1)
      BY <2>4
    <2> DEFINE h == [i \in 0 .. m |-> IF i < m THEN g[i] ELSE Turn(g, m)]
    <2>6. Runs(h, m)
      <3>1. ASSUME NEW i \in 0 .. m PROVE h[i] = Turn(h, i)
        <4>1. CASE i = m
          BY <1>1, <2>2, <2>3, <4>1
        <4>2. CASE i = 0
          BY <1>1, <2>2, <2>3, <2>5, <4>2
        <4>3. CASE i # m /\ i # 0
          <5>1. i \in 0 .. m - 1 /\ i - 1 \in 0 .. m /\ i < m /\ i - 1 < m
            BY <1>1, <2>2, <2>3, <4>3
          <5>2. h[i] = g[i] /\ h[i - 1] = g[i - 1] /\ g[i] = Turn(g, i)
            BY <2>5, <5>1
          <5> QED
            BY <5>2
        <4> QED
          BY <4>1, <4>2, <4>3
      <3> QED
        BY <3>1
    <2> QED
      BY <2>2, <2>6
  <1> DEFINE raws == CHOOSE g : Runs(g, n)
  <1>3. \E g : Runs(g, n)
    <2>1. n \in 0 .. n /\ n \notin Bad
      <3> HIDE DEF Bad
      <3> QED
        BY <1>1, <1>2
    <2> HIDE DEF Runs
    <2> QED
      BY <2>1
  <1>4. Runs(raws, n)
    <2> HIDE DEF Runs
    <2> QED
      BY <1>3
  <1>5. Replayed(c) = raws[n]
    BY DEF Replayed
  <1> HIDE DEF raws
  <1> QED
    BY <1>4, <1>5

(* It is UPDATEs of others, and all of these.                              *)
LEMMA ReplayedIsOthers ==
    ASSUME updates \in Seq(Update), NEW c
    PROVE  /\ Replayed(c) \in Seq(Update)
           /\ \A k \in DOMAIN Replayed(c) : Replayed(c)[k].from # c
           /\ \A i \in DOMAIN updates : updates[i].from # c =>
                \E k \in DOMAIN Replayed(c) : Replayed(c)[k] = updates[i]
  <1> DEFINE n == Len(updates)
  <1>1. PICK raws : /\ raws = [i \in 0 .. n |->
                                  IF i = 0 THEN <<>>
                                  ELSE IF updates[i].from # c THEN Append(raws[i - 1], updates[i])
                                  ELSE raws[i - 1]]
                    /\ Replayed(c) = raws[n]
    BY ReplayedIsCollected
  <1>2. n \in Nat /\ DOMAIN updates = 1 .. n /\ \A i \in 1 .. n : updates[i] \in Update
    BY LenProperties, ElementOfSeq
  <1> DEFINE Good(i) == /\ raws[i] \in Seq(Update)
                        /\ \A k \in DOMAIN raws[i] : raws[i][k].from # c
                        /\ \A j \in 1 .. i : updates[j].from # c =>
                             \E k \in DOMAIN raws[i] : raws[i][k] = updates[j]
             Bad == {i \in 0 .. n : ~Good(i)}
  <1>3. Good(0)
    <2>1. raws[0] = <<>>
      BY <1>1, <1>2
    <2> QED
      BY <2>1
  <1>4. ASSUME NEW i \in 1 .. n, Good(i - 1) PROVE Good(i)
    <2>1. i - 1 \in 0 .. n /\ i \in Nat /\ i # 0 /\ updates[i] \in Update
      BY <1>2
    <2>2. raws[i] = IF updates[i].from # c THEN Append(raws[i - 1], updates[i]) ELSE raws[i - 1]
      <3>1. i \in 0 .. n /\ ~(i = 0)
        BY <1>2
      <3> HIDE DEF n
      <3> QED
        BY <1>1, <3>1
    <2>3. \A j \in 1 .. i : j = i \/ j \in 1 .. i - 1
      BY <2>1
    <2>4. CASE updates[i].from # c
      <3> DEFINE s == raws[i - 1]
                 t == raws[i]
                 m == Len(s) + 1
      <3>1. /\ t \in Seq(Update) /\ m \in DOMAIN t /\ t[m] = updates[i]
            /\ \A k \in DOMAIN s : k \in DOMAIN t /\ t[k] = s[k]
            /\ \A k \in DOMAIN t : k = m \/ k \in DOMAIN s
        BY <1>4, <2>1, <2>2, <2>4, Appended
      <3>2. \A k \in DOMAIN s : s[k].from # c
        BY <1>4
      <3>3. \A j \in 1 .. i - 1 : updates[j].from # c => \E k \in DOMAIN s : s[k] = updates[j]
        BY <1>4
      <3> HIDE DEF s, t, m
      <3>4. \A k \in DOMAIN t : t[k].from # c
        BY <2>4, <3>1, <3>2
      <3>5. \A j \in 1 .. i : updates[j].from # c => \E k \in DOMAIN t : t[k] = updates[j]
        BY <2>3, <3>1, <3>3
      <3> QED
        BY <3>1, <3>4, <3>5 DEF t
    <2>5. CASE updates[i].from = c
      BY <1>4, <2>2, <2>3, <2>5
    <2> QED
      BY <2>4, <2>5
  <1>5. Bad = {}
    <2> SUFFICES ASSUME Bad # {} PROVE FALSE
      OBVIOUS
    <2> HIDE DEF Good
    <2>1. PICK m \in Bad : \A k \in Bad : m <= k
      <3>1. Bad \subseteq Nat
        BY <1>2
      <3> HIDE DEF Bad
      <3> QED
        BY <3>1, LeastNatural
    <2>2. m \in 0 .. n /\ ~Good(m) /\ m # 0
      BY <1>3
    <2>3. m - 1 \in 0 .. n /\ m - 1 \notin Bad /\ m \in 1 .. n
      <3>1. m - 1 \in 0 .. n /\ ~(m <= m - 1) /\ m \in 1 .. n
        BY <1>2, <2>2
      <3> HIDE DEF Bad
      <3> QED
        BY <2>1, <3>1
    <2>4. Good(m - 1)
      BY <2>3
    <2> QED
      BY <1>4, <2>2, <2>3, <2>4
  <1>6. Good(n)
    BY <1>2, <1>5
  <1> QED
    BY <1>1, <1>2, <1>6

----------------------------------------------------------------------------
\* The answer to a refresh.

(* A sequence with something in front and something behind.                *)
Bracket(a, s, z) == <<a>> \o s \o <<z>>

LEMMA Bracketed ==
    ASSUME NEW s \in Seq(Message), NEW a \in Message, NEW z \in Message
    PROVE  /\ Bracket(a, s, z) \in Seq(Message) /\ Len(Bracket(a, s, z)) = Len(s) + 2
           /\ Bracket(a, s, z)[1] = a /\ Bracket(a, s, z)[Len(Bracket(a, s, z))] = z
           /\ \A i \in 1 .. Len(s) : Bracket(a, s, z)[i + 1] = s[i]
  <1> DEFINE g == <<a>> \o s
             f == Bracket(a, s, z)
  <1>1. <<a>> \in Seq(Message) /\ <<z>> \in Seq(Message) /\ Len(<<a>>) = 1 /\ Len(<<z>>) = 1 /\ Len(s) \in Nat
    BY LenProperties
  <1>2. /\ g \in Seq(Message) /\ Len(g) = Len(s) + 1
        /\ \A i \in 1 .. Len(s) + 1 : g[i] = IF i <= 1 THEN <<a>>[i] ELSE s[i - 1]
        /\ f = g \o <<z>>
    BY <1>1, ConcatProperties DEF Bracket
  <1> HIDE DEF g, f
  <1>3. /\ f \in Seq(Message) /\ Len(f) = Len(s) + 2
        /\ \A i \in 1 .. Len(s) + 2 : f[i] = IF i <= Len(s) + 1 THEN g[i] ELSE <<z>>[i - (Len(s) + 1)]
    BY <1>1, <1>2, ConcatProperties
  <1>4. f[1] = a /\ f[Len(f)] = z
    <2> DEFINE n == Len(s)
    <2>1. /\ n \in Nat /\ 1 \in 1 .. n + 1 /\ 1 \in 1 .. n + 2 /\ n + 2 \in 1 .. n + 2
          /\ 1 <= n + 1 /\ ~(n + 2 <= n + 1) /\ n + 2 - (n + 1) = 1
      BY <1>1
    <2> HIDE DEF n
    <2>2. \A i \in 1 .. n + 1 : i <= 1 => g[i] = <<a>>[i]
      BY <1>2 DEF n
    <2>3. \A i \in 1 .. n + 2 : (i <= n + 1 => f[i] = g[i]) /\ (~(i <= n + 1) => f[i] = <<z>>[i - (n + 1)])
      BY <1>3 DEF n
    <2>4. g[1] = a /\ f[1] = g[1]
      <3>1. g[1] = <<a>>[1]
        BY <2>1, <2>2
      <3>2. f[1] = g[1]
        BY <2>1, <2>3
      <3> QED
        BY <3>1, <3>2
    <2>5. ASSUME NEW i \in 1 .. n + 2, i = n + 2 PROVE f[i] = z
      <3>1. ~(i <= n + 1) /\ i - (n + 1) = 1
        BY <2>1, <2>5
      <3>2. f[i] = <<z>>[i - (n + 1)]
        BY <2>3, <3>1
      <3> QED
        BY <3>1, <3>2
    <2> QED
      BY <1>3, <2>1, <2>4, <2>5 DEF n
  <1>5. ASSUME NEW i \in 1 .. Len(s) PROVE f[i + 1] = s[i]
    <2>1. /\ i + 1 \in 1 .. Len(s) + 1 /\ i + 1 \in 1 .. Len(s) + 2 /\ i + 1 <= Len(s) + 1
          /\ ~(i + 1 <= 1) /\ i + 1 - 1 = i
      BY <1>1
    <2> QED
      BY <1>2, <1>3, <2>1
  <1> QED
    BY <1>3, <1>4, <1>5 DEF f

(* What hub.replay answers: only UPDATEs of others, and all of them in the *)
(* brackets, if there are any.                                             *)
FullAnswer(c) == Demarcated(c, [i \in DOMAIN Replayed(c) |-> ReplayMsg(Replayed(c)[i])])

LEMMA AnswerFacts ==
    ASSUME updates \in Seq(Update), NEW c \in Conn, NEW full, full = FullAnswer(c)
    PROVE  /\ full \in Seq(Message)
           /\ \A i \in DOMAIN full : full[i].kind # "UPDATE" /\ full[i].update.from # c
           /\ \A e \in DOMAIN full : full[e].kind = "EoRR" =>
                \E b \in DOMAIN full :
                   /\ b < e /\ full[b].kind = "BoRR"
                   /\ \A i \in DOMAIN updates : updates[i].from # c =>
                        \E k \in DOMAIN full : b < k /\ k < e /\ full[k] = ReplayMsg(updates[i])
  <1> DEFINE rep == Replayed(c)
             n == Len(rep)
             raws == [i \in DOMAIN rep |-> ReplayMsg(rep[i])]
  <1>1. /\ rep \in Seq(Update) /\ n \in Nat /\ DOMAIN rep = 1 .. n
        /\ \A i \in 1 .. n : rep[i] \in Update /\ rep[i].from # c
        /\ \A i \in DOMAIN updates : updates[i].from # c => \E k \in 1 .. n : rep[k] = updates[i]
    BY ReplayedIsOthers, LenProperties, ElementOfSeq
  <1> HIDE DEF rep
  <1>2. /\ DOMAIN raws = 1 .. n
        /\ \A i \in 1 .. n : raws[i] = ReplayMsg(rep[i]) /\ raws[i] \in Message
    BY <1>1, UpdateMessages
  <1>3. raws \in Seq(Message) /\ Len(raws) = n
    BY <1>1, <1>2, IsASeq
  <1> HIDE DEF raws
  <1>4. \A i \in 1 .. n : raws[i].update.from # c /\ raws[i].kind = "replayed UPDATE"
    <2> TAKE i \in 1 .. n
    <2>1. rep[i] \in Update /\ rep[i].from # c /\ raws[i] = ReplayMsg(rep[i])
      BY <1>1, <1>2
    <2> QED
      BY <2>1, UpdateMessages
  <1>5. CASE ~enhanced[c]
    <2>1. full = raws
      BY <1>5 DEF FullAnswer, Demarcated, raws, rep
    <2> QED
      BY <1>2, <1>3, <1>4, <2>1
  <1>6. CASE enhanced[c]
    <2>1. full = <<Msg("BoRR")>> \o raws \o <<Msg("EoRR")>>
      BY <1>6 DEF FullAnswer, Demarcated, raws, rep
    <2>2. /\ Msg("BoRR") \in Message /\ Msg("BoRR").kind = "BoRR"
          /\ Msg("EoRR") \in Message /\ Msg("EoRR").kind = "EoRR"
          /\ Msg("BoRR").update.from # c /\ Msg("EoRR").update.from # c
      BY PlainMessages, ConnAssumption DEF Plain, NoUpdate
    <2>3. /\ full \in Seq(Message) /\ Len(full) = n + 2
          /\ full[1] = Msg("BoRR") /\ full[Len(full)] = Msg("EoRR")
          /\ \A i \in 1 .. n : full[i + 1] = raws[i]
      <3> DEFINE a == Msg("BoRR")
                 z == Msg("EoRR")
      <3>1. a \in Message /\ z \in Message /\ full = Bracket(a, raws, z)
        BY <2>1, <2>2 DEF Bracket
      <3> HIDE DEF a, z
      <3>2. /\ full \in Seq(Message) /\ Len(full) = Len(raws) + 2
            /\ full[1] = a /\ full[Len(full)] = z
            /\ \A i \in 1 .. Len(raws) : full[i + 1] = raws[i]
        <4>1. raws \in Seq(Message)
          BY <1>3
        <4> HIDE DEF raws
        <4>2. /\ Bracket(a, raws, z) \in Seq(Message) /\ Len(Bracket(a, raws, z)) = Len(raws) + 2
              /\ Bracket(a, raws, z)[1] = a /\ Bracket(a, raws, z)[Len(Bracket(a, raws, z))] = z
              /\ \A i \in 1 .. Len(raws) : Bracket(a, raws, z)[i + 1] = raws[i]
          <5>1. a \in Message /\ z \in Message
            BY <3>1
          <5> QED
            BY <4>1, <5>1, Bracketed, SMT
        <4> QED
          BY <3>1, <4>2
      <3> QED
        BY <1>3, <3>2 DEF a, z
    <2>4. DOMAIN full = 1 .. n + 2
      BY <2>3, LenProperties
    <2>5. \A i \in 1 .. n + 2 : i = 1 \/ i = n + 2 \/ (i - 1 \in 1 .. n /\ i = (i - 1) + 1)
      BY <1>1
    <2>6. \A i \in DOMAIN full : i = 1 \/ i = n + 2 \/ (i - 1 \in 1 .. n /\ full[i] = raws[i - 1])
      BY <2>3, <2>4, <2>5
    <2>7. \A i \in DOMAIN full : full[i].kind # "UPDATE" /\ full[i].update.from # c
      BY <1>4, <2>2, <2>3, <2>6
    <2>8. \A e \in DOMAIN full : full[e].kind = "EoRR" => e = n + 2
      BY <1>4, <2>2, <2>3, <2>6
    <2>9. 1 \in DOMAIN full /\ 1 < n + 2
      BY <1>1, <2>4
    <2>10. ASSUME NEW i \in DOMAIN updates, updates[i].from # c
           PROVE  \E k \in DOMAIN full : 1 < k /\ k < n + 2 /\ full[k] = ReplayMsg(updates[i])
      <3>1. PICK k \in 1 .. n : rep[k] = updates[i]
        BY <1>1, <2>10
      <3>2. k + 1 \in DOMAIN full /\ 1 < k + 1 /\ k + 1 < n + 2
        BY <1>1, <2>4
      <3> QED
        BY <1>2, <2>3, <3>1, <3>2
    <2> QED
      BY <2>2, <2>3, <2>7, <2>8, <2>9, <2>10
  <1> QED
    BY <1>5, <1>6

----------------------------------------------------------------------------
\* The initial states.

LEMMA InitInv == Init => ReflectorInv
  <1> SUFFICES ASSUME Init PROVE ReflectorInv
    OBVIOUS
  <1>1. <<>> \in Seq(Update) /\ <<>> \in Seq(Message) /\ \A i : i \notin DOMAIN <<>>
    OBVIOUS
  <1>2. TypeInv
    BY <1>1 DEF Init, TypeInv, Published
  <1>3. \A c \in Conn : /\ pc[c] = "none" /\ wire[c] = <<>> /\ inbox[c] = <<>> /\ answer[c] = <<>>
                        /\ targets[c] = {} /\ due[c] = {} /\ asked[c] = {} /\ peer[c] = "idle"
    BY DEF Init
  <1>4. updates = <<>> /\ clients = {}
    BY DEF Init
  <1>5. StageInv
    BY <1>1, <1>3, <1>4 DEF StageInv, Published
  <1>6. OriginInv
    BY <1>1, <1>3 DEF OriginInv, Sent, Served, Answered, Received, Expected, Serving
  <1>7. DueInv
    BY <1>1, <1>3, <1>4 DEF DueInv
  <1>8. IdInv
    BY <1>1, <1>3 DEF IdInv, Sorted, Behind, Serving
  <1>9. OrderInv
    BY <1>1, <1>3 DEF OrderInv, OnWire
  <1>10. RefreshInv
    BY <1>1, <1>3 DEF RefreshInv, Cached, Answering, Unasked, Ended, Ending
  <1> QED
    BY <1>2, <1>5, <1>6, <1>7, <1>8, <1>9, <1>10 DEF ReflectorInv

----------------------------------------------------------------------------
\* Types.

(* The UPDATE a goroutine serves is one.                                   *)
LEMMA ServedIsUpdate ==
    ASSUME TypeInv, OriginInv, NEW c \in Conn, pc[c] \in Serving
    PROVE  inHand[c] \in Update /\ inHand[c].from = c
  <1>1. inHand[c] \in Update \cup {NoUpdate} /\ inHand[c].from = c
    BY DEF TypeInv, OriginInv, Served
  <1> QED
    BY <1>1, Origins

LEMMA TypeStep == ReflectorInv /\ [Next]_vars => TypeInv'
  <1> SUFFICES ASSUME ReflectorInv, [Next]_vars PROVE TypeInv'
    OBVIOUS
  <1> USE DEF ReflectorInv
  <1>1. CASE UNCHANGED vars
    BY <1>1 DEF TypeInv, vars, hubVars, connVars, confVars, peerVars
  <1>2. ASSUME NEW c \in Conn, Handler(c) PROVE TypeInv'
    <2>1. CASE ReadOpen(c)
      <3>1. Tail(inbox[c]) \in Seq(Message)
        BY <2>1, Taken DEF TypeInv, ReadOpen
      <3> QED
        BY <2>1, <3>1 DEF ReadOpen, Goto, TypeInv, hubVars, confVars, peerVars
    <2>2. CASE SendOpen(c)
      <3>1. wire' \in [Conn -> Seq(Message)]
        BY <2>2, WrittenFacts, PlainMessages DEF TypeInv, SendOpen, Plain
      <3> QED
        BY <2>2, <3>1 DEF SendOpen, HandshakeOrder, Goto, TypeInv, hubVars, confVars, peerVars
    <2>3. CASE Add(c)
      BY <2>3 DEF Add, HandshakeOrder, Goto, TypeInv, Published, confVars, peerVars
    <2>4. CASE SendKeepalive(c)
      <3>1. wire' \in [Conn -> Seq(Message)]
        BY <2>4, WrittenFacts, PlainMessages DEF TypeInv, SendKeepalive, Plain
      <3> QED
        BY <2>4, <3>1 DEF SendKeepalive, HandshakeOrder, Goto, TypeInv, Published, hubVars, confVars, peerVars
    <2>5. CASE KeepaliveTick(c)
      <3>1. wire' \in [Conn -> Seq(Message)]
        BY <2>5, WrittenFacts, PlainMessages DEF TypeInv, KeepaliveTick, Plain
      <3> QED
        BY <2>5, <3>1 DEF KeepaliveTick, TypeInv, hubVars, confVars, peerVars
    <2>6. CASE ReadMessage(c)
      <3> DEFINE m == Head(inbox[c])
      <3>1. Tail(inbox[c]) \in Seq(Message) /\ m \in Message
        BY <2>6, Taken DEF TypeInv, ReadMessage
      <3>2. m.update \in Update \cup {NoUpdate}
        BY <3>1, MessageFields
      <3>3. /\ inHand' = [inHand EXCEPT ![c] = m.update]
            /\ \E l \in {"record", "refresh", "read"} : Goto(c, l)
            /\ inbox' = [inbox EXCEPT ![c] = Tail(@)]
        BY <2>6 DEF ReadMessage
      <3> HIDE DEF m
      <3> QED
        BY <2>6, <3>1, <3>2, <3>3 DEF ReadMessage, Goto, TypeInv, Published, hubVars, confVars, peerVars
    <2>7. CASE Record(c)
      <3>1. Append(updates, inHand[c]) \in Seq(Update)
        BY <2>7, ServedIsUpdate, AppendProperties DEF Record, Serving, TypeInv
      <3> QED
        BY <2>7, <3>1 DEF Record, Goto, TypeInv, Published, confVars, peerVars
    <2>8. CASE Reflect(c)
      BY <2>8 DEF Reflect, Others, Goto, TypeInv, Published, hubVars, confVars, peerVars
    <2>9. CASE Broadcast(c)
      <3>1. PICK t \in targets[c] :
              /\ wire' = Written(t, UpdateMsg(inHand[c]))
              /\ targets' = [targets EXCEPT ![c] = @ \ {t}]
              /\ Goto(c, IF targets[c] = {t} THEN "read" ELSE "broadcast")
        BY <2>9 DEF Broadcast
      <3>2. UpdateMsg(inHand[c]) \in Message /\ t \in Conn
        BY <2>9, ServedIsUpdate, UpdateMessages DEF Broadcast, Serving, TypeInv
      <3>3. wire' \in [Conn -> Seq(Message)]
        BY <3>1, <3>2, WrittenFacts DEF TypeInv
      <3> QED
        BY <2>9, <3>1, <3>3 DEF Broadcast, Goto, TypeInv, Published, hubVars, confVars, peerVars
    <2>10. CASE Refresh(c)
      <3>1. PICK full : /\ full = FullAnswer(c)
                        /\ answer' = [answer EXCEPT ![c] = full]
                        /\ Goto(c, IF full = <<>> THEN "read" ELSE "replay")
        BY <2>10 DEF Refresh, FullAnswer
      <3>2. full \in Seq(Message)
        BY <3>1, AnswerFacts DEF TypeInv
      <3> QED
        BY <2>10, <3>1, <3>2 DEF Refresh, Goto, TypeInv, Published, hubVars, confVars, peerVars
    <2>11. CASE Replay(c)
      <3>1. Tail(answer[c]) \in Seq(Message) /\ Head(answer[c]) \in Message
        BY <2>11, Taken DEF Replay, TypeInv, RefreshInv, Answering
      <3>2. wire' \in [Conn -> Seq(Message)]
        BY <2>11, <3>1, WrittenFacts DEF Replay, TypeInv
      <3> QED
        BY <2>11, <3>1, <3>2 DEF Replay, Goto, TypeInv, Published, hubVars, confVars, peerVars
    <2>12. CASE Leave(c)
      BY <2>12 DEF Leave, Goto, TypeInv, confVars, peerVars
    <2> QED
      BY <1>2, <2>1, <2>2, <2>3, <2>4, <2>5, <2>6, <2>7, <2>8, <2>9, <2>10, <2>11, <2>12 DEF Handler
  <1>3. ASSUME NEW c \in Conn, Peer(c) PROVE TypeInv'
    <2>1. CASE PeerConnects(c)
      <3>1. <<Msg("OPEN")>> \in Seq(Message)
        BY PlainMessages DEF Plain
      <3> QED
        BY <2>1, <3>1 DEF PeerConnects, Goto, TypeInv, hubVars, confVars
    <2>2. CASE PeerReads(c)
      <3>1. Append(inbox[c], Msg("KEEPALIVE")) \in Seq(Message)
        BY PlainMessages, AppendProperties DEF Plain, TypeInv
      <3>2. /\ inbox' = inbox \/ inbox' = [inbox EXCEPT ![c] = Append(@, Msg("KEEPALIVE"))]
            /\ \E l \in {"openConfirm", "established", "failed"} : peer' = [peer EXCEPT ![c] = l]
        BY <2>2 DEF PeerReads
      <3>3. inbox' \in [Conn -> Seq(Message)]
        BY <3>1, <3>2 DEF TypeInv
      <3>4. peer' \in [Conn -> {"idle", "openSent", "openConfirm", "established", "closed", "failed"}]
        BY <3>2 DEF TypeInv
      <3>5. nread' \in [Conn -> Nat]
        BY <2>2 DEF PeerReads, TypeInv
      <3> QED
        BY <2>2, <3>3, <3>4, <3>5 DEF PeerReads, TypeInv, hubVars, connVars, confVars
    <2>3. CASE PeerUpdates(c)
      <3> DEFINE u == [from |-> c, id |-> sent + 1]
      <3>1. u \in Update
        BY DEF Update, TypeInv
      <3>2. Append(inbox[c], UpdateMsg(u)) \in Seq(Message)
        BY <3>1, UpdateMessages, AppendProperties DEF TypeInv
      <3>3. /\ inbox' = [inbox EXCEPT ![c] = Append(@, UpdateMsg(u))]
            /\ due' = [o \in Conn |-> IF o # c /\ peer[o] = "established" THEN due[o] \cup {u} ELSE due[o]]
        BY <2>3 DEF PeerUpdates
      <3> HIDE DEF u
      <3>4. due' \in [Conn -> SUBSET Update] /\ inbox' \in [Conn -> Seq(Message)]
        BY <3>1, <3>2, <3>3 DEF TypeInv
      <3> QED
        BY <2>3, <3>4 DEF PeerUpdates, TypeInv, hubVars, connVars, confVars
    <2>4. CASE PeerRefreshes(c)
      <3>1. Append(inbox[c], Msg("ROUTE-REFRESH")) \in Seq(Message)
        BY PlainMessages, AppendProperties DEF Plain, TypeInv
      <3>2. ToSet(updates) \subseteq Update
        BY ElementOfSeq DEF ToSet, TypeInv
      <3> QED
        BY <2>4, <3>1, <3>2 DEF PeerRefreshes, TypeInv, hubVars, connVars, confVars
    <2>5. CASE PeerCloses(c)
      BY <2>5 DEF PeerCloses, TypeInv, hubVars, connVars, confVars
    <2> QED
      BY <1>3, <2>1, <2>2, <2>3, <2>4, <2>5 DEF Peer
  <1> QED
    BY <1>1, <1>2, <1>3 DEF Next

----------------------------------------------------------------------------
\* Stages.

(* What writing to a connection does to each wire.                         *)
LEMMA Grown ==
    ASSUME wire \in [Conn -> Seq(Message)], NEW t \in Conn, NEW m \in Message,
           wire' = Written(t, m)
    PROVE  /\ \A c \in Conn :
                /\ \A i \in DOMAIN wire[c] : i \in Nat /\ i \in DOMAIN wire'[c] /\ wire'[c][i] = wire[c][i]
                /\ \A i \in DOMAIN wire'[c] :
                     \/ i \in DOMAIN wire[c]
                     \/ /\ c = t /\ i \in Nat /\ wire'[c][i] = m
                        /\ \A j \in DOMAIN wire[c] : j < i
                        /\ \A j \in DOMAIN wire'[c] : j <= i
           /\ pc[t] # "gone" => \E i \in DOMAIN wire'[t] :
                i \in Nat /\ wire'[t][i] = m /\ \A j \in DOMAIN wire[t] : j < i
  <1>1. ASSUME NEW c \in Conn
        PROVE  \A i \in DOMAIN wire[c] : i \in Nat
    BY ElementOfSeq, LenProperties
  <1>2. ASSUME NEW c \in Conn
        PROVE  LET v == Append(wire[c], m)
                   n == Len(wire[c]) + 1
               IN  /\ n \in Nat /\ n \in DOMAIN v /\ v[n] = m
                   /\ \A i \in DOMAIN wire[c] : i < n /\ i \in DOMAIN v /\ v[i] = wire[c][i]
                   /\ \A i \in DOMAIN v : i = n \/ i \in DOMAIN wire[c]
    BY Appended
  <1>3. /\ \A c \in Conn : wire'[c] = wire[c] \/ (c = t /\ wire'[c] = Append(wire[c], m))
        /\ pc[t] # "gone" => wire'[t] = Append(wire[t], m)
    BY WrittenFacts
  <1> QED
    BY <1>1, <1>2, <1>3

(* Where nothing is written.                                               *)
Untouched == UNCHANGED <<pc, clients, wire, peer>>

LEMMA StageStep == ReflectorInv /\ [Next]_vars => StageInv'
  <1> SUFFICES ASSUME ReflectorInv, [Next]_vars PROVE StageInv'
    OBVIOUS
  <1> USE DEF ReflectorInv
  <1> DEFINE Quiet(d) == \A i \in DOMAIN wire[d] : wire[d][i].kind # "KEEPALIVE"
             Staged(d) == /\ peer[d] = "idle" => pc[d] = "none"
                          /\ pc[d] \in Early => Quiet(d)
                          /\ peer[d] = "established" => pc[d] \notin Early
  <1>1. pc \in [Conn -> {"none", "accept", "open", "add", "gone"} \cup Published]
        /\ peer \in [Conn -> {"idle", "openSent", "openConfirm", "established", "closed", "failed"}]
        /\ wire \in [Conn -> Seq(Message)] /\ clients = {c \in Conn : pc[c] \in Published}
        /\ \A d \in Conn : Staged(d)
    BY DEF TypeInv, StageInv
  <1>2. CASE Untouched
    BY <1>1, <1>2 DEF StageInv, Untouched
  <1>3. ASSUME NEW c \in Conn, NEW l, Goto(c, l), UNCHANGED <<clients, wire, peer>>,
               pc[c] \in Published, l \in Published, pc[c] # "keepalive", l # "keepalive"
        PROVE  StageInv'
    BY <1>1, <1>3 DEF StageInv, Goto, Published, Early
  <1>4. ASSUME NEW c \in Conn, Handler(c) PROVE StageInv'
    <2>1. CASE ReadOpen(c)
      BY <1>1, <2>1 DEF ReadOpen, Goto, StageInv, Published, Early, hubVars, peerVars
    <2>2. CASE SendOpen(c)
      <3>1. /\ pc[c] = "open" /\ wire' = Written(c, Msg("OPEN")) /\ pc' = [pc EXCEPT ![c] = "add"]
            /\ clients' = clients /\ peer' = peer
        BY <2>2 DEF SendOpen, Goto, HandshakeOrder, hubVars, peerVars
      <3>2. \A d \in Conn : Quiet(d) => Quiet(d)'
        BY <1>1, <3>1, Grown, PlainMessages DEF Plain
      <3> HIDE DEF Quiet
      <3> QED
        BY <1>1, <3>1, <3>2 DEF StageInv, Published, Early, Quiet
    <2>3. CASE Add(c)
      BY <1>1, <2>3 DEF Add, Goto, HandshakeOrder, StageInv, Published, Early, peerVars
    <2>4. CASE SendKeepalive(c)
      <3>1. /\ pc[c] = "keepalive" /\ wire' = Written(c, Msg("KEEPALIVE")) /\ pc' = [pc EXCEPT ![c] = "read"]
            /\ clients' = clients /\ peer' = peer
        BY <2>4 DEF SendKeepalive, Goto, HandshakeOrder, hubVars, peerVars
      <3>2. \A d \in Conn : d # c /\ Quiet(d) => Quiet(d)'
        BY <1>1, <3>1, WrittenFacts, PlainMessages DEF Plain
      <3> HIDE DEF Quiet
      <3> QED
        BY <1>1, <3>1, <3>2 DEF StageInv, Published, Early, Quiet
    <2>5. CASE KeepaliveTick(c)
      <3>1. /\ pc[c] \notin Early /\ wire' = Written(c, Msg("KEEPALIVE"))
            /\ pc' = pc /\ clients' = clients /\ peer' = peer
        BY <2>5 DEF KeepaliveTick, hubVars, peerVars, Published, Early
      <3>2. \A d \in Conn : d # c /\ Quiet(d) => Quiet(d)'
        BY <1>1, <3>1, WrittenFacts, PlainMessages DEF Plain
      <3> HIDE DEF Quiet
      <3> QED
        BY <1>1, <3>1, <3>2 DEF StageInv, Quiet
    <2>6. CASE ReadMessage(c)
      <3>1. PICK l \in {"record", "refresh", "read"} : Goto(c, l)
        BY <2>6 DEF ReadMessage
      <3> QED
        BY <1>3, <2>6, <3>1 DEF ReadMessage, Published, hubVars, peerVars
    <2>7. CASE Record(c)
      BY <1>3, <2>7 DEF Record, Published, peerVars
    <2>8. CASE Reflect(c)
      BY <1>3, <2>8 DEF Reflect, Published, hubVars, peerVars
    <2>9. CASE Broadcast(c)
      <3>1. PICK t \in targets[c] :
              /\ wire' = Written(t, UpdateMsg(inHand[c]))
              /\ Goto(c, IF targets[c] = {t} THEN "read" ELSE "broadcast")
        BY <2>9 DEF Broadcast
      <3>2. UpdateMsg(inHand[c]) \in Message /\ UpdateMsg(inHand[c]).kind = "UPDATE" /\ t \in Conn
        BY <2>9, ServedIsUpdate, UpdateMessages DEF Broadcast, Serving, TypeInv
      <3>3. \A d \in Conn : Quiet(d) => Quiet(d)'
        <4> DEFINE m == UpdateMsg(inHand[c])
        <4>1. t \in Conn /\ m \in Message /\ m.kind # "KEEPALIVE" /\ wire' = Written(t, m)
          BY <3>1, <3>2
        <4> HIDE DEF m
        <4>2. \A d \in Conn : \A i \in DOMAIN wire'[d] :
                (i \in DOMAIN wire[d] /\ wire'[d][i] = wire[d][i]) \/ wire'[d][i] = m
          BY <1>1, <4>1, Grown
        <4> QED
          BY <4>1, <4>2
      <3>4. PICK l \in {"read", "broadcast"} : pc' = [pc EXCEPT ![c] = l]
        BY <3>1 DEF Goto
      <3>5. clients' = clients /\ peer' = peer /\ pc[c] = "broadcast"
        BY <2>9 DEF Broadcast, hubVars, peerVars
      <3> HIDE DEF Quiet
      <3> QED
        BY <1>1, <3>3, <3>4, <3>5 DEF StageInv, Published, Early, Quiet
    <2>10. CASE Refresh(c)
      <3>1. PICK l \in {"read", "replay"} : Goto(c, l)
        BY <2>10 DEF Refresh
      <3> QED
        BY <1>3, <2>10, <3>1 DEF Refresh, Published, hubVars, peerVars
    <2>11. CASE Replay(c)
      <3>1. Head(answer[c]) \in Message
        BY <2>11, Taken DEF Replay, TypeInv, RefreshInv, Answering
      <3>2. /\ wire' = Written(c, Head(answer[c])) /\ clients' = clients /\ peer' = peer /\ pc[c] = "replay"
        BY <2>11 DEF Replay, hubVars, peerVars
      <3>3. PICK l \in {"read", "replay"} : pc' = [pc EXCEPT ![c] = l]
        BY <2>11 DEF Replay, Goto
      <3>4. \A d \in Conn : d # c /\ Quiet(d) => Quiet(d)'
        BY <1>1, <3>1, <3>2, WrittenFacts
      <3> HIDE DEF Quiet
      <3> QED
        BY <1>1, <3>2, <3>3, <3>4 DEF StageInv, Published, Early, Quiet
    <2>12. CASE Leave(c)
      BY <1>1, <2>12 DEF Leave, Goto, StageInv, Published, Early, peerVars
    <2> QED
      BY <1>4, <2>1, <2>2, <2>3, <2>4, <2>5, <2>6, <2>7, <2>8, <2>9, <2>10, <2>11, <2>12 DEF Handler
  <1>5. ASSUME NEW c \in Conn, Peer(c) PROVE StageInv'
    <2>1. CASE PeerConnects(c)
      BY <1>1, <2>1 DEF PeerConnects, Goto, StageInv, Published, Early, hubVars
    <2>2. CASE PeerReads(c)
      <3>1. PICK l \in {"openConfirm", "established", "failed"} :
              /\ peer' = [peer EXCEPT ![c] = l]
              /\ l = "established" => wire[c][nread[c] + 1].kind = "KEEPALIVE"
        BY <2>2 DEF PeerReads
      <3>2. nread[c] + 1 \in DOMAIN wire[c]
        BY <1>1, <2>2, LenProperties DEF PeerReads, TypeInv
      <3>3. l = "established" => pc[c] \notin Early
        BY <1>1, <3>1, <3>2
      <3>4. pc' = pc /\ clients' = clients /\ wire' = wire
        BY <2>2 DEF PeerReads, hubVars, connVars
      <3> HIDE DEF Quiet
      <3> QED
        BY <1>1, <3>1, <3>3, <3>4 DEF StageInv, Quiet
    <2>3. CASE PeerUpdates(c)
      BY <1>2, <2>3 DEF PeerUpdates, Untouched, hubVars, connVars
    <2>4. CASE PeerRefreshes(c)
      BY <1>2, <2>4 DEF PeerRefreshes, Untouched, hubVars, connVars
    <2>5. CASE PeerCloses(c)
      BY <1>1, <2>5 DEF PeerCloses, StageInv, hubVars, connVars
    <2> QED
      BY <1>5, <2>1, <2>2, <2>3, <2>4, <2>5 DEF Peer
  <1> QED
    BY <1>2, <1>4, <1>5 DEF Next, vars, hubVars, connVars, peerVars, Untouched

----------------------------------------------------------------------------
\* Origins.

(* What taking a message from a queue does to each queue.                  *)
LEMMA Consumed ==
    ASSUME NEW box \in [Conn -> Seq(Message)], NEW c \in Conn, box[c] # <<>>,
           NEW rest, rest = [box EXCEPT ![c] = Tail(@)]
    PROVE  /\ 1 \in DOMAIN box[c] /\ Head(box[c]) = box[c][1] /\ Head(box[c]) \in Message
           /\ \A d \in Conn : d # c => rest[d] = box[d]
           /\ \A i \in DOMAIN rest[c] : i \in Nat /\ i > 0 /\ i + 1 \in DOMAIN box[c] /\ rest[c][i] = box[c][i + 1]
           /\ \A i \in DOMAIN box[c] : i \in Nat /\ (i = 1 \/ i - 1 \in DOMAIN rest[c])
  <1>1. /\ rest[c] = Tail(box[c])
        /\ \A d \in Conn : d # c => rest[d] = box[d]
    OBVIOUS
  <1>2. box[c] \in Seq(Message)
    OBVIOUS
  <1>3. /\ 1 \in DOMAIN box[c] /\ Head(box[c]) = box[c][1] /\ Head(box[c]) \in Message
        /\ \A i \in DOMAIN Tail(box[c]) :
             i \in Nat /\ i > 0 /\ i + 1 \in DOMAIN box[c] /\ Tail(box[c])[i] = box[c][i + 1]
        /\ \A i \in DOMAIN box[c] : i \in Nat /\ i > 0
        /\ \A i \in DOMAIN box[c] : i > 1 => i - 1 \in DOMAIN Tail(box[c])
    BY <1>2, Taken
  <1> QED
    BY <1>1, <1>3

(* What putting one there does.                                            *)
LEMMA Queued ==
    ASSUME NEW box \in [Conn -> Seq(Message)], NEW c \in Conn, NEW m \in Message,
           NEW more, more = [box EXCEPT ![c] = Append(@, m)]
    PROVE  \A d \in Conn :
             /\ \A i \in DOMAIN box[d] : i \in Nat /\ i \in DOMAIN more[d] /\ more[d][i] = box[d][i]
             /\ \A i \in DOMAIN more[d] :
                  \/ i \in DOMAIN box[d]
                  \/ /\ d = c /\ i \in Nat /\ more[d][i] = m
                     /\ \A j \in DOMAIN box[d] : j < i
                     /\ \A j \in DOMAIN more[d] : j <= i
  <1>1. /\ more[c] = Append(box[c], m)
        /\ \A d \in Conn : d # c => more[d] = box[d]
    OBVIOUS
  <1>2. \A d \in Conn : \A i \in DOMAIN box[d] : i \in Nat
    BY ElementOfSeq, LenProperties
  <1>3. LET v == Append(box[c], m)
            n == Len(box[c]) + 1
        IN  /\ n \in Nat /\ n \in DOMAIN v /\ v[n] = m
            /\ \A i \in DOMAIN box[c] : i < n /\ i \in DOMAIN v /\ v[i] = box[c][i]
            /\ \A i \in DOMAIN v : i = n \/ i \in DOMAIN box[c]
    BY Appended
  <1> QED
    BY <1>1, <1>2, <1>3

(* A message of another origin may be written.                             *)
LEMMA ReceivedStep ==
    ASSUME TypeInv, OriginInv, NEW t \in Conn, NEW m \in Message, m.update.from # t,
           wire' = Written(t, m)
    PROVE  \A d \in Conn : Received(d)'
  <1>1. \A d \in Conn : \A i \in DOMAIN wire'[d] :
          (i \in DOMAIN wire[d] /\ wire'[d][i] = wire[d][i]) \/ (d = t /\ wire'[d][i] = m)
    BY Grown DEF TypeInv
  <1>2. \A d \in Conn : Received(d)
    BY DEF OriginInv
  <1> QED
    BY <1>1, <1>2 DEF Received

LEMMA OriginStep == ReflectorInv /\ [Next]_vars => OriginInv'
  <1> SUFFICES ASSUME ReflectorInv, [Next]_vars PROVE OriginInv'
    OBVIOUS
  <1> USE DEF ReflectorInv
  <1> DEFINE OriginOf(d) == Sent(d) /\ Served(d) /\ d \notin targets[d]
                              /\ Answered(d) /\ Received(d) /\ Expected(d)
  <1>1. (\A d \in Conn : OriginOf(d)') => OriginInv'
    BY DEF OriginInv
  <1>2. \A d \in Conn : OriginOf(d)
    BY DEF OriginInv
  <1>3. /\ pc \in [Conn -> {"none", "accept", "open", "add", "gone"} \cup Published]
        /\ inbox \in [Conn -> Seq(Message)] /\ answer \in [Conn -> Seq(Message)]
        /\ wire \in [Conn -> Seq(Message)] /\ targets \in [Conn -> SUBSET Conn]
        /\ inHand \in [Conn -> Update \cup {NoUpdate}] /\ sent \in Nat
        /\ due \in [Conn -> SUBSET Update] /\ updates \in Seq(Update)
    BY DEF TypeInv
  <1>4. (pc' = pc /\ inHand' = inHand) => \A d \in Conn : Served(d)'
    BY <1>2 DEF Served
  <1>5. inbox' = inbox => \A d \in Conn : Sent(d)'
    BY <1>2 DEF Sent
  <1>6. answer' = answer => \A d \in Conn : Answered(d)'
    BY <1>2 DEF Answered
  <1>7. wire' = wire => \A d \in Conn : Received(d)'
    BY <1>2 DEF Received
  <1>8. (due' = due /\ sent' = sent) => \A d \in Conn : Expected(d)'
    BY <1>2 DEF Expected
  <1>9. targets' = targets => \A d \in Conn : d \notin targets'[d]
    BY <1>2
  <1>10. ASSUME NEW c \in Conn, NEW l, pc' = [pc EXCEPT ![c] = l], inHand' = inHand,
                l \notin Serving \/ pc[c] \in Serving
         PROVE  \A d \in Conn : Served(d)'
    BY <1>2, <1>3, <1>10 DEF Served
  <1>11. ASSUME NEW c \in Conn, inbox[c] # <<>>, inbox' = [inbox EXCEPT ![c] = Tail(@)]
         PROVE  \A d \in Conn : Sent(d)'
    <2>1. /\ \A d \in Conn : d # c => inbox'[d] = inbox[d]
          /\ \A i \in DOMAIN inbox'[c] : i + 1 \in DOMAIN inbox[c] /\ inbox'[c][i] = inbox[c][i + 1]
      BY <1>3, <1>11, Consumed
    <2> QED
      BY <1>2, <2>1 DEF Sent
  <1>12. ASSUME NEW c \in Conn, NEW m \in Message, m.kind = "UPDATE" => m.update.from = c,
                inbox' = [inbox EXCEPT ![c] = Append(@, m)]
         PROVE  \A d \in Conn : Sent(d)'
    <2>1. \A d \in Conn : \A i \in DOMAIN inbox'[d] :
            (i \in DOMAIN inbox[d] /\ inbox'[d][i] = inbox[d][i]) \/ (d = c /\ inbox'[d][i] = m)
      BY <1>3, <1>12, Queued
    <2> QED
      BY <1>2, <1>12, <2>1 DEF Sent
  <1>13. \A k \in Plain : \A d : d \in Conn => Msg(k) \in Message /\ Msg(k).update.from # d /\ Msg(k).kind # "UPDATE"
    BY PlainMessages, ConnAssumption DEF NoUpdate, Plain
  <1>14. ASSUME NEW c \in Conn, Handler(c) PROVE \A d \in Conn : OriginOf(d)'
    <2>1. CASE ReadOpen(c)
      BY <1>6, <1>7, <1>8, <1>9, <1>10, <1>11, <2>1 DEF ReadOpen, Goto, Serving, peerVars
    <2>2. CASE SendOpen(c)
      <3>1. \A d \in Conn : Received(d)'
        BY <1>13, <2>2, ReceivedStep DEF SendOpen, Plain
      <3> QED
        BY <1>5, <1>6, <1>8, <1>9, <1>10, <2>2, <3>1 DEF SendOpen, Goto, HandshakeOrder, Serving, peerVars
    <2>3. CASE Add(c)
      BY <1>5, <1>6, <1>7, <1>8, <1>9, <1>10, <2>3 DEF Add, Goto, HandshakeOrder, Serving, peerVars
    <2>4. CASE SendKeepalive(c)
      <3>1. \A d \in Conn : Received(d)'
        BY <1>13, <2>4, ReceivedStep DEF SendKeepalive, Plain
      <3> QED
        BY <1>5, <1>6, <1>8, <1>9, <1>10, <2>4, <3>1 DEF SendKeepalive, Goto, HandshakeOrder, Serving, peerVars
    <2>5. CASE KeepaliveTick(c)
      <3>1. \A d \in Conn : Received(d)'
        BY <1>13, <2>5, ReceivedStep DEF KeepaliveTick, Plain
      <3> QED
        BY <1>4, <1>5, <1>6, <1>8, <1>9, <2>5, <3>1 DEF KeepaliveTick, peerVars
    <2>6. CASE ReadMessage(c)
      <3> DEFINE m == Head(inbox[c])
      <3>1. inbox[c] # <<>> /\ 1 \in DOMAIN inbox[c] /\ m = inbox[c][1]
        BY <1>3, <2>6, Taken DEF ReadMessage
      <3>2. m.kind = "UPDATE" => m.update.from = c
        BY <1>2, <3>1 DEF Sent
      <3>3. /\ inHand' = [inHand EXCEPT ![c] = m.update]
            /\ \E l \in {"record", "refresh", "read"} :
                 pc' = [pc EXCEPT ![c] = l] /\ (l = "record" => m.kind = "UPDATE")
        BY <2>6 DEF ReadMessage, Goto
      <3> HIDE DEF m
      <3>4. \A d \in Conn : Served(d)'
        BY <1>2, <1>3, <3>2, <3>3 DEF Served, Serving
      <3> QED
        BY <1>6, <1>7, <1>8, <1>9, <1>11, <2>6, <3>1, <3>4 DEF ReadMessage, peerVars
    <2>7. CASE Record(c)
      BY <1>5, <1>6, <1>7, <1>8, <1>9, <1>10, <2>7 DEF Record, Goto, Serving, peerVars
    <2>8. CASE Reflect(c)
      <3>1. \A d \in Conn : d \notin targets'[d]
        BY <1>2, <1>3, <2>8 DEF Reflect, Others
      <3> QED
        BY <1>5, <1>6, <1>7, <1>8, <1>10, <2>8, <3>1 DEF Reflect, Goto, Serving, peerVars
    <2>9. CASE Broadcast(c)
      <3>1. PICK t \in targets[c] :
              /\ wire' = Written(t, UpdateMsg(inHand[c]))
              /\ targets' = [targets EXCEPT ![c] = @ \ {t}]
              /\ Goto(c, IF targets[c] = {t} THEN "read" ELSE "broadcast")
        BY <2>9 DEF Broadcast
      <3>2. /\ UpdateMsg(inHand[c]) \in Message /\ UpdateMsg(inHand[c]).update.from = c
            /\ t \in Conn /\ t # c
        BY <1>2, <1>3, <2>9, ServedIsUpdate, UpdateMessages DEF Broadcast, Serving
      <3>3. \A d \in Conn : Received(d)'
        BY <3>1, <3>2, ReceivedStep
      <3>4. \A d \in Conn : d \notin targets'[d]
        BY <1>2, <1>3, <3>1
      <3>5. pc[c] \in Serving /\ inHand' = inHand /\ \E l : pc' = [pc EXCEPT ![c] = l]
        BY <2>9, <3>1 DEF Broadcast, Serving, Goto
      <3>6. \A d \in Conn : Served(d)'
        BY <1>10, <3>5
      <3> QED
        BY <1>5, <1>6, <1>8, <2>9, <3>3, <3>4, <3>6 DEF Broadcast, peerVars
    <2>10. CASE Refresh(c)
      <3>1. PICK full : /\ full = FullAnswer(c)
                        /\ answer' = [answer EXCEPT ![c] = full]
                        /\ Goto(c, IF full = <<>> THEN "read" ELSE "replay")
        BY <2>10 DEF Refresh, FullAnswer
      <3>2. \A i \in DOMAIN full : full[i].kind # "UPDATE" /\ full[i].update.from # c
        <4>1. updates \in Seq(Update)
          BY <1>3
        <4> QED
          BY <3>1, <4>1, AnswerFacts
      <3>3. \A d \in Conn : Answered(d)'
        BY <1>2, <1>3, <3>1, <3>2 DEF Answered
      <3>4. \A d \in Conn : Served(d)'
        BY <1>10, <2>10, <3>1 DEF Refresh, Goto, Serving
      <3> QED
        BY <1>5, <1>7, <1>8, <1>9, <2>10, <3>3, <3>4 DEF Refresh, peerVars
    <2>11. CASE Replay(c)
      <3>1. /\ answer[c] # <<>> /\ wire' = Written(c, Head(answer[c]))
            /\ answer' = [answer EXCEPT ![c] = Tail(@)]
            /\ \E l \in {"read", "replay"} : pc' = [pc EXCEPT ![c] = l]
        BY <2>11 DEF Replay, RefreshInv, Answering, Goto
      <3>2. /\ Head(answer[c]) \in Message /\ 1 \in DOMAIN answer[c] /\ Head(answer[c]) = answer[c][1]
            /\ \A d \in Conn : d # c => answer'[d] = answer[d]
            /\ \A i \in DOMAIN answer'[c] : i + 1 \in DOMAIN answer[c] /\ answer'[c][i] = answer[c][i + 1]
        BY <1>3, <3>1, Consumed
      <3>3. \A d \in Conn : Answered(d)'
        BY <1>2, <3>2 DEF Answered
      <3>4. Head(answer[c]).update.from # c
        BY <1>2, <3>2 DEF Answered
      <3>5. \A d \in Conn : Received(d)'
        BY <3>1, <3>2, <3>4, ReceivedStep
      <3>6. \A d \in Conn : Served(d)'
        BY <1>10, <2>11, <3>1 DEF Replay, Serving
      <3> QED
        BY <1>5, <1>8, <1>9, <2>11, <3>3, <3>5, <3>6 DEF Replay, peerVars
    <2>12. CASE Leave(c)
      BY <1>5, <1>6, <1>7, <1>8, <1>9, <1>10, <2>12 DEF Leave, Goto, Serving, peerVars
    <2> QED
      BY <1>14, <2>1, <2>2, <2>3, <2>4, <2>5, <2>6, <2>7, <2>8, <2>9, <2>10, <2>11, <2>12 DEF Handler
  <1>15. ASSUME NEW c \in Conn, Peer(c) PROVE \A d \in Conn : OriginOf(d)'
    <2>1. CASE PeerConnects(c)
      <3>1. inbox' = [inbox EXCEPT ![c] = <<Msg("OPEN")>>]
        BY <2>1 DEF PeerConnects
      <3>2. \A d \in Conn : Sent(d)'
        BY <1>2, <1>3, <1>13, <3>1 DEF Sent, Plain
      <3> QED
        BY <1>6, <1>7, <1>8, <1>9, <1>10, <2>1, <3>2 DEF PeerConnects, Goto, Serving
    <2>2. CASE PeerReads(c)
      <3>1. inbox' = inbox \/ inbox' = [inbox EXCEPT ![c] = Append(@, Msg("KEEPALIVE"))]
        BY <2>2 DEF PeerReads
      <3>2. \A d \in Conn : Sent(d)'
        BY <1>5, <1>12, <1>13, <3>1 DEF Plain
      <3> QED
        BY <1>4, <1>6, <1>7, <1>8, <1>9, <2>2, <3>2 DEF PeerReads, connVars
    <2>3. CASE PeerUpdates(c)
      <3> DEFINE u == [from |-> c, id |-> sent + 1]
      <3>1. u \in Update /\ u.from = c /\ u.id = sent + 1
        BY <1>3 DEF Update
      <3>2. /\ inbox' = [inbox EXCEPT ![c] = Append(@, UpdateMsg(u))]
            /\ due' = [o \in Conn |-> IF o # c /\ peer[o] = "established" THEN due[o] \cup {u} ELSE due[o]]
            /\ sent' = sent + 1
        BY <2>3 DEF PeerUpdates
      <3> HIDE DEF u
      <3>3. UpdateMsg(u) \in Message /\ UpdateMsg(u).update.from = c
        BY <3>1, UpdateMessages
      <3>4. \A d \in Conn : Sent(d)'
        BY <1>12, <3>2, <3>3
      <3>5. ASSUME NEW d \in Conn PROVE Expected(d)'
        <4>1. \A x \in due'[d] : x \in due[d] \/ (d # c /\ x = u)
          BY <3>2
        <4>2. \A x \in due[d] : x.id \in Nat /\ x.id <= sent /\ x.from # d
          BY <1>2, <1>3 DEF Expected, Update
        <4>3. \A x \in due[d] : x.id <= sent + 1
          BY <1>3, <4>2
        <4> QED
          BY <1>3, <3>1, <3>2, <4>1, <4>2, <4>3 DEF Expected
      <3> QED
        BY <1>4, <1>6, <1>7, <1>9, <2>3, <3>4, <3>5 DEF PeerUpdates, connVars
    <2>4. CASE PeerRefreshes(c)
      <3>1. \A d \in Conn : Sent(d)'
        BY <1>12, <1>13, <2>4 DEF PeerRefreshes, Plain
      <3> QED
        BY <1>4, <1>6, <1>7, <1>8, <1>9, <2>4, <3>1 DEF PeerRefreshes, connVars
    <2>5. CASE PeerCloses(c)
      BY <1>4, <1>5, <1>6, <1>7, <1>8, <1>9, <2>5 DEF PeerCloses, connVars
    <2> QED
      BY <1>15, <2>1, <2>2, <2>3, <2>4, <2>5 DEF Peer
  <1>16. CASE UNCHANGED vars
    <2>1. /\ pc' = pc /\ inHand' = inHand /\ inbox' = inbox /\ answer' = answer
          /\ wire' = wire /\ due' = due /\ sent' = sent /\ targets' = targets
      BY <1>16 DEF vars, connVars, peerVars
    <2>2. \A d \in Conn : OriginOf(d)'
      BY <1>4, <1>5, <1>6, <1>7, <1>8, <1>9, <2>1
    <2> QED
      BY <1>1, <2>2
  <1> QED
    BY <1>1, <1>14, <1>15, <1>16 DEF Next

----------------------------------------------------------------------------
\* What is due.

(* A step writes one message, or none.                                     *)
LEMMA WireMoves ==
    ASSUME ReflectorInv, [Next]_vars
    PROVE  wire' = wire \/ \E t \in Conn, m \in Message : wire' = Written(t, m)
  <1> USE DEF ReflectorInv
  <1>1. ASSUME NEW c \in Conn, Handler(c)
        PROVE  wire' = wire \/ \E t \in Conn, m \in Message : wire' = Written(t, m)
    <2>1. CASE SendOpen(c) \/ SendKeepalive(c) \/ KeepaliveTick(c)
      BY <2>1, PlainMessages DEF SendOpen, SendKeepalive, KeepaliveTick, Plain
    <2>2. CASE Broadcast(c)
      <3>1. PICK t \in targets[c] : wire' = Written(t, UpdateMsg(inHand[c]))
        BY <2>2 DEF Broadcast
      <3>2. UpdateMsg(inHand[c]) \in Message /\ t \in Conn
        BY <2>2, ServedIsUpdate, UpdateMessages DEF Broadcast, Serving, TypeInv
      <3> QED
        BY <3>1, <3>2
    <2>3. CASE Replay(c)
      BY <2>3, Taken DEF Replay, TypeInv, RefreshInv, Answering
    <2> QED
      BY <1>1, <2>1, <2>2, <2>3
         DEF Handler, ReadOpen, Add, ReadMessage, Record, Reflect, Refresh, Leave
  <1>2. ASSUME NEW c \in Conn, Peer(c) PROVE wire' = wire
    BY <1>2 DEF Peer, PeerConnects, PeerReads, PeerUpdates, PeerRefreshes, PeerCloses
  <1> QED
    BY <1>1, <1>2 DEF Next, vars

(* What has been written stays.                                            *)
LEMMA WireGrows ==
    ASSUME ReflectorInv, [Next]_vars
    PROVE  \A d \in Conn : \A i \in DOMAIN wire[d] :
             i \in Nat /\ i \in DOMAIN wire'[d] /\ wire'[d][i] = wire[d][i]
  <1>1. wire \in [Conn -> Seq(Message)]
    BY DEF ReflectorInv, TypeInv
  <1>2. CASE wire' = wire
    BY <1>1, <1>2, ElementOfSeq, LenProperties
  <1>3. ASSUME NEW t \in Conn, NEW m \in Message, wire' = Written(t, m)
        PROVE  \A d \in Conn : \A i \in DOMAIN wire[d] :
                 i \in Nat /\ i \in DOMAIN wire'[d] /\ wire'[d][i] = wire[d][i]
    BY <1>1, <1>3, Grown
  <1> QED
    BY <1>2, <1>3, WireMoves

LEMMA DueStep == ReflectorInv /\ [Next]_vars => DueInv'
  <1> SUFFICES ASSUME ReflectorInv, [Next]_vars PROVE DueInv'
    OBVIOUS
  <1> USE DEF ReflectorInv
  <1>1. /\ pc \in [Conn -> {"none", "accept", "open", "add", "gone"} \cup Published]
        /\ wire \in [Conn -> Seq(Message)] /\ targets \in [Conn -> SUBSET Conn]
        /\ inHand \in [Conn -> Update \cup {NoUpdate}] /\ sent \in Nat
        /\ due \in [Conn -> SUBSET Update] /\ updates \in Seq(Update)
    BY DEF TypeInv
  <1>2. \A i \in DOMAIN updates : updates[i] \in Update /\ updates[i].from \in Conn /\ updates[i].id \in Nat
    <2>1. \A i \in DOMAIN updates : updates[i] \in Update
      BY <1>1, ElementOfSeq, LenProperties
    <2> QED
      BY <2>1 DEF Update
  <1> DEFINE After(u, d) == \/ Has(wire'[d], u)
                            \/ /\ inHand'[u.from] = u
                               /\ \/ pc'[u.from] = "reflect"
                                  \/ pc'[u.from] = "broadcast" /\ d \in targets'[u.from]
  <1>3. \A d \in Conn : \A u : Has(wire[d], u) => After(u, d)
    BY WireGrows DEF Has
  <1>4. /\ \A d \in Conn : due[d] # {} => pc[d] \notin Early
        /\ \A i \in DOMAIN updates : updates[i].id <= sent
    BY DEF DueInv
  <1>5. ASSUME reflectMode, NEW i \in DOMAIN updates, NEW d \in Conn, updates[i] \in due[d], pc[d] # "gone"
        PROVE  Has(wire[d], updates[i]) \/ Awaiting(updates[i], d)
    BY <1>5 DEF DueInv
  <1> DEFINE ThenDue ==
               reflectMode' => \A i \in DOMAIN updates', d \in Conn :
                 updates'[i] \in due'[d] /\ pc'[d] # "gone" => After(updates'[i], d)
  <1>6. ASSUME \A d \in Conn : due'[d] # {} => pc'[d] \notin Early,
               \A i \in DOMAIN updates' : updates'[i].id <= sent',
               ThenDue
        PROVE  DueInv'
    <2>1. \A i \in DOMAIN updates', d \in Conn : After(updates'[i], d) => (Has(wire[d], updates[i]) \/ Awaiting(updates[i], d))'
      BY DEF Awaiting
    <2> HIDE DEF After
    <2> QED
      BY <1>6, <2>1 DEF DueInv
  <1>7. ASSUME updates' = updates, due' = due, sent' = sent, reflectMode' = reflectMode,
               \A d \in Conn : pc'[d] \in Early => pc[d] \in Early,
               \A d \in Conn : pc'[d] # "gone" => pc[d] # "gone",
               \A i \in DOMAIN updates, d \in Conn :
                 Awaiting(updates[i], d) /\ d # updates[i].from /\ pc[d] \in Published =>
                   After(updates[i], d)
        PROVE  DueInv'
    <2>1. ASSUME NEW i \in DOMAIN updates, NEW d \in Conn, updates[i] \in due[d]
          PROVE  d # updates[i].from /\ pc[d] \in Published \cup {"gone"}
      <3>1. updates[i].from # d
        BY <2>1 DEF OriginInv, Expected
      <3>2. pc[d] \notin Early
        BY <1>4, <2>1
      <3> QED
        BY <1>1, <3>1, <3>2 DEF Early
    <2> HIDE DEF After
    <2>2. ASSUME reflectMode, NEW i \in DOMAIN updates, NEW d \in Conn,
                 updates[i] \in due[d], pc[d] # "gone"
          PROVE  After(updates[i], d)
      BY <1>3, <1>5, <1>7, <2>1, <2>2
    <2>3. ThenDue
      BY <1>7, <2>2
    <2> QED
      BY <1>4, <1>6, <1>7, <2>3
  <1>8. ASSUME updates' = updates, due' = due, sent' = sent, reflectMode' = reflectMode, targets' = targets,
               \A d \in Conn : pc'[d] \in Early => pc[d] \in Early,
               \A d \in Conn : pc'[d] # "gone" => pc[d] # "gone",
               \A d \in Conn : pc[d] \in {"reflect", "broadcast"} => pc'[d] = pc[d] /\ inHand'[d] = inHand[d]
        PROVE  DueInv'
    <2>1. \A i \in DOMAIN updates, d \in Conn : Awaiting(updates[i], d) => After(updates[i], d)
      BY <1>2, <1>8 DEF Awaiting
    <2> HIDE DEF After
    <2> QED
      BY <1>7, <1>8, <2>1
  <1>9. ASSUME NEW c \in Conn, Handler(c) PROVE DueInv'
    <2>1. CASE ReadOpen(c) \/ SendOpen(c) \/ Add(c) \/ SendKeepalive(c)
      <3>1. /\ UNCHANGED <<updates, due, sent, reflectMode, targets, inHand>>
            /\ pc[c] \in {"accept", "open", "add", "keepalive"}
            /\ \E l \in {"open", "add", "keepalive", "read"} : pc' = [pc EXCEPT ![c] = l]
        BY <2>1 DEF ReadOpen, SendOpen, Add, SendKeepalive, HandshakeOrder, Goto, hubVars, peerVars, confVars
      <3> QED
        BY <1>1, <1>8, <3>1 DEF Early
    <2>2. CASE KeepaliveTick(c)
      BY <1>8, <2>2 DEF KeepaliveTick, hubVars, peerVars, confVars
    <2>3. CASE ReadMessage(c)
      <3>1. /\ UNCHANGED <<updates, due, sent, reflectMode, targets>>
            /\ pc[c] = "read"
            /\ \E l \in {"record", "refresh", "read"} : pc' = [pc EXCEPT ![c] = l]
            /\ \E x : inHand' = [inHand EXCEPT ![c] = x]
        BY <2>3 DEF ReadMessage, Goto, hubVars, peerVars, confVars
      <3> QED
        BY <1>1, <1>8, <3>1 DEF Early
    <2>4. CASE Record(c)
      <3> DEFINE u == inHand[c]
      <3>1. /\ u \in Update /\ u.from = c /\ pc[c] = "record" /\ u.id <= sent
            /\ updates' = Append(updates, u)
            /\ UNCHANGED <<due, sent, reflectMode, targets, inHand>>
            /\ \E l \in {"reflect", "read"} : /\ pc' = [pc EXCEPT ![c] = l]
                                              /\ reflectMode => l = "reflect"
        BY <2>4, ServedIsUpdate DEF Record, Serving, IdInv, Ahead, Goto, peerVars, confVars
      <3>2. \A i \in DOMAIN updates' : (i \in DOMAIN updates /\ updates'[i] = updates[i]) \/ updates'[i] = u
        BY <1>1, <3>1, Appended
      <3>3. inHand'[c] = u
        BY <3>1
      <3> HIDE DEF u
      <3>4. \A d \in Conn : due'[d] # {} => pc'[d] \notin Early
        BY <1>1, <1>4, <3>1 DEF Early
      <3>5. \A i \in DOMAIN updates' : updates'[i].id <= sent'
        BY <1>4, <3>1, <3>2
      <3>6. \A d \in Conn : pc'[d] # "gone" => pc[d] # "gone"
        BY <1>1, <3>1
      <3>7. \A i \in DOMAIN updates, d \in Conn : Awaiting(updates[i], d) => After(updates[i], d)
        BY <1>1, <1>2, <3>1 DEF Awaiting
      <3>8. reflectMode => \A d : After(u, d)
        BY <1>1, <3>1, <3>3
      <3> HIDE DEF After
      <3>9. ThenDue
        <4> SUFFICES ASSUME reflectMode, NEW i \in DOMAIN updates', NEW d \in Conn,
                            updates'[i] \in due'[d], pc'[d] # "gone"
                     PROVE  After(updates'[i], d)
          BY <3>1
        <4>1. CASE updates'[i] = u
          BY <3>8, <4>1
        <4>2. CASE i \in DOMAIN updates /\ updates'[i] = updates[i]
          <5>1. updates[i] \in due[d] /\ pc[d] # "gone"
            BY <3>1, <3>6, <4>2
          <5> QED
            BY <1>3, <1>5, <3>7, <4>2, <5>1
        <4> QED
          BY <3>2, <4>1, <4>2
      <3> QED
        BY <1>6, <3>4, <3>5, <3>9
    <2>5. CASE Reflect(c)
      <3>1. /\ UNCHANGED <<updates, due, sent, reflectMode, inHand>> /\ pc[c] = "reflect"
            /\ targets' = [targets EXCEPT ![c] = clients \ {c}]
            /\ pc' = [pc EXCEPT ![c] = IF clients \ {c} = {} THEN "read" ELSE "broadcast"]
        BY <2>5 DEF Reflect, Others, Goto, hubVars, peerVars, confVars
      <3>2. ASSUME NEW i \in DOMAIN updates, NEW d \in Conn, Awaiting(updates[i], d),
                   d # updates[i].from, pc[d] \in Published
            PROVE  After(updates[i], d)
        <4> DEFINE u == updates[i]
        <4>1. u.from \in Conn /\ inHand'[u.from] = u /\ updates'[i] = u
          BY <1>2, <3>1, <3>2 DEF Awaiting
        <4>2. CASE u.from = c
          <5>1. d \in clients \ {c}
            BY <3>2, <4>2 DEF StageInv
          <5>2. pc'[c] = "broadcast" /\ d \in targets'[c]
            BY <1>1, <3>1, <5>1
          <5> QED
            BY <4>1, <4>2, <5>2 DEF Awaiting
        <4>3. CASE u.from # c
          BY <1>1, <3>1, <3>2, <4>1, <4>3 DEF Awaiting
        <4> QED
          BY <4>2, <4>3
      <3>3. \A d \in Conn : /\ pc'[d] \in Early => pc[d] \in Early
                            /\ pc'[d] # "gone" => pc[d] # "gone"
        BY <1>1, <3>1 DEF Early
      <3> QED
        BY <1>7, <3>1, <3>2, <3>3
    <2>6. CASE Broadcast(c)
      <3>1. PICK t \in targets[c] :
              /\ wire' = Written(t, UpdateMsg(inHand[c]))
              /\ targets' = [targets EXCEPT ![c] = @ \ {t}]
              /\ pc' = [pc EXCEPT ![c] = IF targets[c] = {t} THEN "read" ELSE "broadcast"]
        BY <2>6 DEF Broadcast, Goto
      <3>2. UNCHANGED <<updates, due, sent, reflectMode, inHand>> /\ pc[c] = "broadcast" /\ t \in Conn
        BY <1>1, <2>6 DEF Broadcast, hubVars, peerVars, confVars
      <3>3. pc[t] # "gone" => Has(wire[t], inHand[c])'
        <4> DEFINE m == UpdateMsg(inHand[c])
        <4>1. /\ m \in Message /\ m.kind = "UPDATE" /\ m.update = inHand[c]
              /\ wire' = Written(t, m) /\ inHand'[c] = inHand[c]
          BY <2>6, <3>1, <3>2, ServedIsUpdate, UpdateMessages DEF Broadcast, Serving
        <4> HIDE DEF m
        <4>2. pc[t] # "gone" => \E i \in DOMAIN wire'[t] : wire'[t][i] = m
          <5>1. wire \in [Conn -> Seq(Message)] /\ m \in Message /\ t \in Conn /\ wire' = Written(t, m)
            BY <1>1, <3>2, <4>1
          <5> QED
            BY <5>1, Grown
        <4> QED
          BY <4>1, <4>2 DEF Has
      <3>4. ASSUME NEW i \in DOMAIN updates, NEW d \in Conn, Awaiting(updates[i], d), pc[d] \in Published
            PROVE  After(updates[i], d)
        <4> DEFINE u == updates[i]
        <4>1. u.from \in Conn /\ inHand'[u.from] = u /\ updates'[i] = u /\ inHand[u.from] = u
          BY <1>2, <3>2, <3>4 DEF Awaiting
        <4>2. CASE u.from = c /\ d = t
          <5>1. Has(wire'[d], inHand'[c])
            BY <3>3, <3>4, <4>2 DEF Published
          <5> QED
            BY <4>1, <4>2, <5>1
        <4>3. CASE u.from = c /\ d # t
          <5>1. d \in targets[c]
            BY <3>2, <3>4, <4>3 DEF Awaiting
          <5>2. pc'[c] = "broadcast" /\ d \in targets'[c]
            BY <1>1, <3>1, <3>2, <4>3, <5>1
          <5> QED
            BY <4>1, <4>3, <5>2 DEF Awaiting
        <4>4. CASE u.from # c
          BY <1>1, <3>1, <3>2, <3>4, <4>1, <4>4 DEF Awaiting
        <4> QED
          BY <4>2, <4>3, <4>4
      <3>5. \A d \in Conn : /\ pc'[d] \in Early => pc[d] \in Early
                            /\ pc'[d] # "gone" => pc[d] # "gone"
        BY <1>1, <3>1, <3>2 DEF Early
      <3> QED
        BY <1>7, <3>2, <3>4, <3>5
    <2>7. CASE Refresh(c) \/ Replay(c) \/ Leave(c)
      <3>1. /\ UNCHANGED <<updates, due, sent, reflectMode, targets, inHand>>
            /\ pc[c] \notin {"gone", "reflect", "broadcast"}
            /\ \E l \in {"read", "replay", "gone"} : pc' = [pc EXCEPT ![c] = l]
        BY <2>7 DEF Refresh, Replay, Leave, Goto, hubVars, peerVars, confVars
      <3> QED
        BY <1>1, <1>8, <3>1 DEF Early
    <2> QED
      BY <1>9, <2>1, <2>2, <2>3, <2>4, <2>5, <2>6, <2>7 DEF Handler
  <1>10. ASSUME NEW c \in Conn, Peer(c) PROVE DueInv'
    <2>1. CASE PeerConnects(c)
      <3>1. /\ UNCHANGED <<updates, due, sent, reflectMode, targets, inHand>>
            /\ pc[c] = "none" /\ pc' = [pc EXCEPT ![c] = "accept"]
        BY <2>1 DEF PeerConnects, StageInv, Goto, hubVars, confVars
      <3> QED
        BY <1>1, <1>8, <3>1 DEF Early
    <2>2. CASE PeerReads(c) \/ PeerRefreshes(c) \/ PeerCloses(c)
      <3>1. UNCHANGED <<updates, due, sent, reflectMode, targets, inHand, pc>>
        BY <2>2 DEF PeerReads, PeerRefreshes, PeerCloses, hubVars, connVars, confVars
      <3> QED
        BY <1>8, <3>1
    <2>3. CASE PeerUpdates(c)
      <3> DEFINE u == [from |-> c, id |-> sent + 1]
      <3>1. /\ due' = [o \in Conn |-> IF o # c /\ peer[o] = "established" THEN due[o] \cup {u} ELSE due[o]]
            /\ sent' = sent + 1 /\ UNCHANGED <<updates, reflectMode, targets, inHand, pc, wire>>
        BY <2>3 DEF PeerUpdates, hubVars, connVars, confVars
      <3>2. \A i \in DOMAIN updates : updates[i] # u
        BY <1>1, <1>2, <1>4
      <3> HIDE DEF u
      <3>3. \A d \in Conn : /\ due'[d] \subseteq due[d] \cup {u}
                            /\ due'[d] # due[d] => peer[d] = "established"
        BY <1>1, <3>1
      <3>4. \A d \in Conn : due'[d] # {} => pc'[d] \notin Early
        BY <1>4, <3>1, <3>3 DEF StageInv
      <3>5. \A i \in DOMAIN updates' : updates'[i].id <= sent'
        BY <1>1, <1>2, <1>4, <3>1
      <3>6. \A i \in DOMAIN updates, d \in Conn : Awaiting(updates[i], d) => After(updates[i], d)
        BY <3>1 DEF Awaiting
      <3> HIDE DEF After
      <3>7. ThenDue
        BY <1>3, <1>5, <3>1, <3>2, <3>3, <3>6
      <3> QED
        BY <1>6, <3>4, <3>5, <3>7
    <2> QED
      BY <1>10, <2>1, <2>2, <2>3 DEF Peer
  <1>11. CASE UNCHANGED vars
    BY <1>8, <1>11 DEF vars, hubVars, connVars, confVars, peerVars
  <1> QED
    BY <1>9, <1>10, <1>11 DEF Next

----------------------------------------------------------------------------
\* Numbers.

(* An UPDATE that comes on a wire is the one its origin has in hand.       *)
LEMMA NewOnWire ==
    ASSUME ReflectorInv, [Next]_vars, NEW d \in Conn, NEW k \in DOMAIN wire'[d],
           wire'[d][k].kind = "UPDATE", k \notin DOMAIN wire[d]
    PROVE  \E o \in Conn :
             /\ wire'[d][k].update = inHand[o] /\ inHand[o].from = o
             /\ pc[o] = "broadcast" /\ d \in targets[o]
             /\ pc'[o] \in {"read", "broadcast"} /\ d \notin targets'[o] /\ inHand' = inHand
             /\ \A j \in DOMAIN wire[d] : j < k
             /\ \A j \in DOMAIN wire'[d] : j <= k
  <1> USE DEF ReflectorInv
  <1>1. /\ wire \in [Conn -> Seq(Message)] /\ answer \in [Conn -> Seq(Message)]
        /\ targets \in [Conn -> SUBSET Conn] /\ pc \in [Conn -> {"none", "accept", "open", "add", "gone"} \cup Published]
    BY DEF TypeInv
  <1>2. ASSUME NEW t \in Conn, NEW m \in Message, wire' = Written(t, m)
        PROVE  /\ d = t /\ wire'[d][k] = m
               /\ \A j \in DOMAIN wire[d] : j < k
               /\ \A j \in DOMAIN wire'[d] : j <= k
    BY <1>1, <1>2, Grown
  <1>3. \A p \in Plain : Msg(p) \in Message /\ Msg(p).kind # "UPDATE"
    BY PlainMessages DEF Plain
  <1>4. wire' # wire
    OBVIOUS
  <1>5. PICK c \in Conn : Handler(c)
    BY <1>4 DEF Next, vars, Peer, PeerConnects, PeerReads, PeerUpdates, PeerRefreshes, PeerCloses
  <1>6. ~(SendOpen(c) \/ SendKeepalive(c) \/ KeepaliveTick(c))
    <2>1. ASSUME SendOpen(c) \/ SendKeepalive(c) \/ KeepaliveTick(c)
          PROVE  \E p \in Plain : wire' = Written(c, Msg(p))
      BY <2>1 DEF SendOpen, SendKeepalive, KeepaliveTick, Plain
    <2> QED
      BY <1>2, <1>3, <2>1
  <1>7. ~Replay(c)
    <2> SUFFICES ASSUME Replay(c) PROVE FALSE
      OBVIOUS
    <2>1. wire' = Written(c, Head(answer[c])) /\ answer[c] # <<>>
      BY DEF Replay, RefreshInv, Answering
    <2>2. Head(answer[c]) \in Message /\ 1 \in DOMAIN answer[c] /\ Head(answer[c]) = answer[c][1]
      BY <1>1, <2>1, Taken
    <2>3. Head(answer[c]).kind # "UPDATE"
      BY <2>2 DEF OriginInv, Answered
    <2> QED
      BY <1>2, <2>1, <2>2, <2>3
  <1>8. Broadcast(c)
    BY <1>4, <1>5, <1>6, <1>7 DEF Handler, ReadOpen, Add, ReadMessage, Record, Reflect, Refresh, Leave
  <1>9. PICK t \in targets[c] :
          /\ wire' = Written(t, UpdateMsg(inHand[c]))
          /\ targets' = [targets EXCEPT ![c] = @ \ {t}]
          /\ pc' = [pc EXCEPT ![c] = IF targets[c] = {t} THEN "read" ELSE "broadcast"]
    BY <1>8 DEF Broadcast, Goto
  <1>10. /\ pc[c] = "broadcast" /\ inHand' = inHand /\ inHand[c].from = c /\ t \in Conn
         /\ UpdateMsg(inHand[c]) \in Message /\ UpdateMsg(inHand[c]).update = inHand[c]
    BY <1>1, <1>8, ServedIsUpdate, UpdateMessages DEF Broadcast, Serving
  <1>11. /\ d = t /\ wire'[d][k].update = inHand[c]
         /\ \A j \in DOMAIN wire[d] : j < k
         /\ \A j \in DOMAIN wire'[d] : j <= k
    BY <1>2, <1>9, <1>10
  <1>12. pc'[c] \in {"read", "broadcast"} /\ d \notin targets'[c] /\ d \in targets[c]
    BY <1>1, <1>9, <1>11
  <1> QED
    BY <1>10, <1>11, <1>12

(* What is to come from a session stays to come, until it is read.         *)
LEMMA InboxStep ==
    ASSUME ReflectorInv, [Next]_vars, NEW o \in Conn
    PROVE  /\ \A n \in Nat : Ahead(o, n) => Ahead(o, n)'
           /\ Sorted(o)'
  <1> USE DEF ReflectorInv
  <1>1. /\ inbox \in [Conn -> Seq(Message)] /\ sent \in Nat /\ Sorted(o)
    BY DEF TypeInv, IdInv
  <1>2. \A i \in DOMAIN inbox[o] : i \in Nat /\ inbox[o][i] \in Message
    BY <1>1, ElementOfSeq, LenProperties
  <1>3. \A i \in DOMAIN inbox[o] : inbox[o][i].kind = "UPDATE" => inbox[o][i].update.id \in Nat
    BY <1>2, MessageFields DEF Plain, Update
  <1>4. CASE inbox'[o] = inbox[o] /\ sent' \in {sent, sent + 1}
    BY <1>1, <1>3, <1>4 DEF Ahead, Sorted
  <1>5. ASSUME NEW c \in Conn, inbox[c] # <<>>, inbox' = [inbox EXCEPT ![c] = Tail(@)], sent' = sent
        PROVE  (\A n \in Nat : Ahead(o, n) => Ahead(o, n)') /\ Sorted(o)'
    <2>1. CASE o = c
      <3>1. \A i \in DOMAIN inbox'[o] : i \in Nat /\ i + 1 \in DOMAIN inbox[o] /\ inbox'[o][i] = inbox[o][i + 1]
        BY <1>1, <1>5, <2>1, Consumed
      <3>2. \A i, j \in DOMAIN inbox'[o] : i < j => i + 1 < j + 1
        BY <3>1
      <3>3. \A n \in Nat : Ahead(o, n) => Ahead(o, n)'
        BY <1>5, <3>1 DEF Ahead
      <3>4. Sorted(o)'
        BY <1>1, <1>5, <3>1, <3>2 DEF Sorted
      <3> QED
        BY <3>3, <3>4
    <2>2. CASE o # c
      BY <1>1, <1>4, <1>5, <2>2
    <2> QED
      BY <2>1, <2>2
  <1>6. ASSUME NEW c \in Conn, NEW m \in Message, inbox' = [inbox EXCEPT ![c] = Append(@, m)],
               sent' \in {sent, sent + 1},
               m.kind = "UPDATE" => m.update.id = sent + 1 /\ sent' = sent + 1
        PROVE  (\A n \in Nat : Ahead(o, n) => Ahead(o, n)') /\ Sorted(o)'
    <2>1. /\ \A i \in DOMAIN inbox[o] : i \in DOMAIN inbox'[o] /\ inbox'[o][i] = inbox[o][i]
          /\ \A i \in DOMAIN inbox'[o] :
               \/ i \in DOMAIN inbox[o]
               \/ /\ i \in Nat /\ inbox'[o][i] = m
                  /\ \A j \in DOMAIN inbox[o] : j < i
                  /\ \A j \in DOMAIN inbox'[o] : j <= i
      BY <1>1, <1>6, Queued
    <2>2. \A n \in Nat : Ahead(o, n) => Ahead(o, n)'
      BY <1>1, <1>6, <2>1 DEF Ahead
    <2>3. \A i \in DOMAIN inbox[o] : inbox[o][i].kind = "UPDATE" => inbox[o][i].update.id <= sent
      BY <1>1 DEF Sorted
    <2>4. ASSUME NEW i \in DOMAIN inbox'[o], inbox'[o][i].kind = "UPDATE"
          PROVE  inbox'[o][i].update.id <= sent'
      BY <1>1, <1>3, <1>6, <2>1, <2>3, <2>4
    <2>5. ASSUME NEW i \in DOMAIN inbox'[o], inbox'[o][i].kind = "UPDATE",
                 NEW j \in DOMAIN inbox'[o], inbox'[o][j].kind = "UPDATE", i < j
          PROVE  inbox'[o][i].update.id < inbox'[o][j].update.id
      <3>1. CASE i \in DOMAIN inbox[o] /\ j \in DOMAIN inbox[o]
        BY <1>1, <2>1, <2>5, <3>1 DEF Sorted
      <3>2. CASE i \in DOMAIN inbox[o] /\ j \notin DOMAIN inbox[o]
        BY <1>1, <1>3, <1>6, <2>1, <2>3, <2>5, <3>2
      <3>3. CASE i \notin DOMAIN inbox[o]
        <4>1. i \in Nat /\ j \in Nat /\ j <= i
          BY <1>2, <2>1, <3>3
        <4> QED
          BY <2>5, <4>1
      <3> QED
        BY <3>1, <3>2, <3>3
    <2>6. Sorted(o)'
      BY <2>4, <2>5 DEF Sorted
    <2> QED
      BY <2>2, <2>6
  <1>7. ASSUME NEW c \in Conn, Handler(c)
        PROVE  (\A n \in Nat : Ahead(o, n) => Ahead(o, n)') /\ Sorted(o)'
    <2>1. CASE ReadOpen(c)
      BY <1>5, <2>1 DEF ReadOpen, peerVars
    <2>2. CASE ReadMessage(c)
      BY <1>5, <2>2 DEF ReadMessage, peerVars
    <2>3. CASE ~(ReadOpen(c) \/ ReadMessage(c))
      <3>1. inbox' = inbox /\ sent' = sent
        BY <1>7, <2>3 DEF Handler, SendOpen, Add, SendKeepalive, KeepaliveTick, Record, Reflect, Broadcast,
                          Refresh, Replay, Leave, peerVars
      <3> QED
        BY <1>4, <3>1
    <2> QED
      BY <2>1, <2>2, <2>3
  <1>8. ASSUME NEW c \in Conn, Peer(c)
        PROVE  (\A n \in Nat : Ahead(o, n) => Ahead(o, n)') /\ Sorted(o)'
    <2>1. CASE PeerConnects(c)
      <3>1. inbox' = [inbox EXCEPT ![c] = <<Msg("OPEN")>>] /\ sent' = sent /\ Msg("OPEN").kind # "UPDATE"
        BY <2>1, PlainMessages DEF PeerConnects, Plain
      <3> QED
        BY <1>1, <1>4, <3>1 DEF Ahead, Sorted
    <2>2. CASE PeerReads(c)
      <3>1. inbox' = inbox \/ inbox' = [inbox EXCEPT ![c] = Append(@, Msg("KEEPALIVE"))]
        BY <2>2 DEF PeerReads
      <3>2. sent' = sent /\ Msg("KEEPALIVE") \in Message /\ Msg("KEEPALIVE").kind # "UPDATE"
        BY <2>2, PlainMessages DEF PeerReads, Plain
      <3> QED
        BY <1>4, <1>6, <3>1, <3>2
    <2>3. CASE PeerUpdates(c)
      <3> DEFINE u == [from |-> c, id |-> sent + 1]
      <3>1. u \in Update /\ u.id = sent + 1
        BY <1>1 DEF Update
      <3>2. inbox' = [inbox EXCEPT ![c] = Append(@, UpdateMsg(u))] /\ sent' = sent + 1
        BY <2>3 DEF PeerUpdates
      <3> HIDE DEF u
      <3>3. UpdateMsg(u) \in Message /\ UpdateMsg(u).update.id = sent + 1
        BY <3>1, UpdateMessages
      <3> QED
        BY <1>6, <3>2, <3>3
    <2>4. CASE PeerRefreshes(c)
      <3>1. /\ inbox' = [inbox EXCEPT ![c] = Append(@, Msg("ROUTE-REFRESH"))] /\ sent' = sent
            /\ Msg("ROUTE-REFRESH") \in Message /\ Msg("ROUTE-REFRESH").kind # "UPDATE"
        BY <2>4, PlainMessages DEF PeerRefreshes, Plain
      <3> QED
        BY <1>6, <3>1
    <2>5. CASE PeerCloses(c)
      BY <1>4, <2>5 DEF PeerCloses
    <2> QED
      BY <1>8, <2>1, <2>2, <2>3, <2>4, <2>5 DEF Peer
  <1>9. CASE UNCHANGED vars
    BY <1>4, <1>9 DEF vars, peerVars
  <1> QED
    BY <1>7, <1>8, <1>9 DEF Next

(* How a goroutine comes to serve an UPDATE, and goes on to.               *)
LEMMA HandMoves ==
    ASSUME ReflectorInv, [Next]_vars, NEW o \in Conn, pc'[o] \in Serving
    PROVE  \/ /\ pc[o] \in Serving /\ inHand'[o] = inHand[o]
              /\ \A d \in Conn : Pending(o, d)' => Pending(o, d)
           \/ /\ inbox[o] # <<>> /\ inbox' = [inbox EXCEPT ![o] = Tail(@)] /\ sent' = sent
              /\ inHand'[o] = Head(inbox[o]).update /\ Head(inbox[o]).kind = "UPDATE"
  <1> USE DEF ReflectorInv
  <1>1. /\ pc \in [Conn -> {"none", "accept", "open", "add", "gone"} \cup Published]
        /\ targets \in [Conn -> SUBSET Conn] /\ inHand \in [Conn -> Update \cup {NoUpdate}]
    BY DEF TypeInv
  <1> DEFINE Same == /\ pc[o] \in Serving /\ inHand'[o] = inHand[o]
                     /\ \A d \in Conn : Pending(o, d)' => Pending(o, d)
             New == /\ inbox[o] # <<>> /\ inbox' = [inbox EXCEPT ![o] = Tail(@)] /\ sent' = sent
                    /\ inHand'[o] = Head(inbox[o]).update /\ Head(inbox[o]).kind = "UPDATE"
  <1>2. CASE pc'[o] = pc[o] /\ inHand'[o] = inHand[o] /\ targets'[o] = targets[o]
    BY <1>2 DEF Pending
  <1>3. ASSUME NEW c \in Conn, Handler(c) PROVE Same \/ New
    <2>1. CASE c # o
      <3>1. pc'[o] = pc[o]
        BY <1>1, <1>3, <2>1
           DEF Handler, ReadOpen, SendOpen, Add, SendKeepalive, KeepaliveTick, ReadMessage, Record, Reflect,
               Broadcast, Refresh, Replay, Leave, Goto
      <3>2. inHand'[o] = inHand[o]
        BY <1>1, <1>3, <2>1
           DEF Handler, ReadOpen, SendOpen, Add, SendKeepalive, KeepaliveTick, ReadMessage, Record, Reflect,
               Broadcast, Refresh, Replay, Leave
      <3>3. targets'[o] = targets[o]
        BY <1>1, <1>3, <2>1
           DEF Handler, ReadOpen, SendOpen, Add, SendKeepalive, KeepaliveTick, ReadMessage, Record, Reflect,
               Broadcast, Refresh, Replay, Leave
      <3> QED
        BY <1>2, <3>1, <3>2, <3>3
    <2>2. CASE c = o
      <3>1. CASE ReadMessage(o)
        <4>1. /\ pc' = [pc EXCEPT ![o] = CASE Head(inbox[o]).kind = "UPDATE" -> "record"
                                           [] Head(inbox[o]).kind = "ROUTE-REFRESH" -> "refresh"
                                           [] OTHER -> "read"]
              /\ inHand' = [inHand EXCEPT ![o] = Head(inbox[o]).update]
              /\ inbox[o] # <<>> /\ inbox' = [inbox EXCEPT ![o] = Tail(@)] /\ sent' = sent
          BY <3>1 DEF ReadMessage, Goto, peerVars
        <4>2. Head(inbox[o]).kind = "UPDATE"
          BY <1>1, <4>1 DEF Serving
        <4> QED
          BY <1>1, <4>1, <4>2
      <3>2. CASE Record(o)
        BY <1>1, <3>2 DEF Record, Goto, Serving, Pending
      <3>3. CASE Reflect(o)
        BY <1>1, <3>3 DEF Reflect, Goto, Serving, Pending
      <3>4. CASE Broadcast(o)
        <4>1. PICK t \in targets[o] : targets' = [targets EXCEPT ![o] = @ \ {t}]
          BY <3>4 DEF Broadcast
        <4>2. pc[o] = "broadcast" /\ inHand' = inHand /\ pc'[o] \in {"read", "broadcast"}
          BY <1>1, <3>4 DEF Broadcast, Goto
        <4> QED
          BY <1>1, <4>1, <4>2 DEF Serving, Pending
      <3>5. CASE KeepaliveTick(o)
        BY <1>2, <3>5 DEF KeepaliveTick
      <3>6. CASE ReadOpen(o) \/ SendOpen(o) \/ Add(o) \/ SendKeepalive(o)
        BY <1>1, <3>6 DEF ReadOpen, SendOpen, Add, SendKeepalive, HandshakeOrder, Goto, Serving
      <3>7. CASE Refresh(o) \/ Replay(o) \/ Leave(o)
        BY <1>1, <3>7 DEF Refresh, Replay, Leave, Goto, Serving
      <3> QED
        BY <1>3, <2>2, <3>1, <3>2, <3>3, <3>4, <3>5, <3>6, <3>7 DEF Handler
    <2> QED
      BY <2>1, <2>2
  <1>4. ASSUME NEW c \in Conn, Peer(c) PROVE Same \/ New
    <2>1. CASE PeerConnects(c) /\ c = o
      BY <1>1, <2>1 DEF PeerConnects, Goto, Serving
    <2>2. CASE ~(PeerConnects(c) /\ c = o)
      BY <1>1, <1>2, <1>4, <2>2
         DEF Peer, PeerConnects, PeerReads, PeerUpdates, PeerRefreshes, PeerCloses, Goto, connVars
    <2> QED
      BY <2>1, <2>2
  <1>5. CASE UNCHANGED vars
    BY <1>2, <1>5 DEF vars, connVars
  <1> QED
    BY <1>3, <1>4, <1>5 DEF Next

LEMMA IdStep == ReflectorInv /\ [Next]_vars => IdInv'
  <1> SUFFICES ASSUME ReflectorInv, [Next]_vars PROVE IdInv'
    OBVIOUS
  <1> USE DEF ReflectorInv
  <1>1. /\ wire \in [Conn -> Seq(Message)] /\ inbox \in [Conn -> Seq(Message)]
    BY DEF TypeInv
  <1>2. ASSUME NEW o \in Conn, pc[o] \in Serving
        PROVE  inHand[o].id \in Nat /\ Ahead(o, inHand[o].id)
    BY <1>2, ServedIsUpdate, Origins DEF IdInv
  <1>3. \A o \in Conn : Sorted(o)'
    BY InboxStep
  <1> DEFINE AheadNext(o, n) ==
               /\ n <= sent'
               /\ \A i \in DOMAIN inbox'[o] : inbox'[o][i].kind = "UPDATE" => n < inbox'[o][i].update.id
  <1>4. ASSUME NEW o \in Conn, inbox[o] # <<>>, inbox' = [inbox EXCEPT ![o] = Tail(@)], sent' = sent,
               Head(inbox[o]).kind = "UPDATE"
        PROVE  /\ AheadNext(o, Head(inbox[o]).update.id)
               /\ \A n : Ahead(o, n) => n < Head(inbox[o]).update.id
    <2> DEFINE m == Head(inbox[o])
    <2>1. /\ 1 \in DOMAIN inbox[o] /\ m = inbox[o][1] /\ Sorted(o)
          /\ \A i \in DOMAIN inbox'[o] : i \in Nat /\ i > 0 /\ i + 1 \in DOMAIN inbox[o] /\ inbox'[o][i] = inbox[o][i + 1]
      BY <1>1, <1>4, Consumed DEF IdInv
    <2>2. m.update.id <= sent
      BY <1>4, <2>1 DEF Sorted
    <2>3. ASSUME NEW i \in DOMAIN inbox'[o], inbox'[o][i].kind = "UPDATE"
          PROVE  m.update.id < inbox'[o][i].update.id
      <3>1. 1 < i + 1 /\ i + 1 \in DOMAIN inbox[o] /\ inbox'[o][i] = inbox[o][i + 1]
        BY <2>1
      <3> QED
        BY <1>4, <2>1, <2>3, <3>1 DEF Sorted
    <2>4. \A n : Ahead(o, n) => n < m.update.id
      BY <1>4, <2>1 DEF Ahead
    <2> QED
      BY <1>4, <2>2, <2>3, <2>4
  <1>5. \A o \in Conn, n \in Nat : Ahead(o, n) => AheadNext(o, n)
    BY InboxStep DEF Ahead
  <1>6. ASSUME NEW o \in Conn, pc'[o] \in Serving PROVE AheadNext(o, inHand'[o].id)
    <2> HIDE DEF AheadNext
    <2>1. CASE pc[o] \in Serving /\ inHand'[o] = inHand[o]
      BY <1>2, <1>5, <2>1
    <2>2. CASE /\ inbox[o] # <<>> /\ inbox' = [inbox EXCEPT ![o] = Tail(@)] /\ sent' = sent
               /\ inHand'[o] = Head(inbox[o]).update /\ Head(inbox[o]).kind = "UPDATE"
      BY <1>4, <2>2
    <2> QED
      BY <1>6, <2>1, <2>2, HandMoves
  <1>7. ASSUME NEW d \in Conn, NEW k \in DOMAIN wire'[d], wire'[d][k].kind = "UPDATE",
               NEW u, u = wire'[d][k].update
        PROVE  AheadNext(u.from, u.id) /\ (Pending(u.from, d)' => u.id < inHand'[u.from].id)
    <2> HIDE DEF AheadNext
    <2>1. CASE k \in DOMAIN wire[d]
      <3>1. wire'[d][k] = wire[d][k]
        BY <2>1, WireGrows
      <3>2. wire[d][k] \in Message /\ wire[d][k].kind = "UPDATE" /\ u = wire[d][k].update
        BY <1>1, <1>7, <2>1, <3>1, ElementOfSeq, LenProperties
      <3>3. u \in Update
        BY <3>2, MessageFields DEF Plain
      <3>4. u.from \in Conn /\ u.id \in Nat
        BY <3>3 DEF Update
      <3>5. Ahead(u.from, u.id) /\ (Pending(u.from, d) => u.id < inHand[u.from].id)
        BY <2>1, <3>2 DEF IdInv, Behind
      <3>6. AheadNext(u.from, u.id)
        BY <1>5, <3>4, <3>5
      <3>7. ASSUME Pending(u.from, d)' PROVE u.id < inHand'[u.from].id
        <4>1. pc'[u.from] \in Serving
          BY <3>7 DEF Pending, Serving
        <4>2. CASE Pending(u.from, d) /\ inHand'[u.from] = inHand[u.from]
          BY <3>5, <4>2
        <4>3. CASE /\ inbox[u.from] # <<>> /\ inbox' = [inbox EXCEPT ![u.from] = Tail(@)] /\ sent' = sent
                   /\ inHand'[u.from] = Head(inbox[u.from]).update /\ Head(inbox[u.from]).kind = "UPDATE"
          BY <1>4, <3>4, <3>5, <4>3
        <4> QED
          BY <3>4, <3>7, <4>1, <4>2, <4>3, HandMoves
      <3> QED
        BY <3>6, <3>7
    <2>2. CASE k \notin DOMAIN wire[d]
      <3>1. PICK o \in Conn : /\ u = inHand[o] /\ inHand[o].from = o /\ pc[o] = "broadcast"
                              /\ pc'[o] \in {"read", "broadcast"} /\ d \notin targets'[o]
        BY <1>7, <2>2, NewOnWire
      <3>2. AheadNext(o, u.id)
        BY <1>2, <1>5, <3>1 DEF Serving
      <3>3. ~Pending(o, d)'
        BY <3>1 DEF Pending
      <3> QED
        BY <3>1, <3>2, <3>3
    <2> QED
      BY <2>1, <2>2
  <1>8. \A d \in Conn : Behind(d)'
    BY <1>7 DEF Behind, Ahead, Pending
  <1>9. \A o \in Conn : pc'[o] \in Serving => Ahead(o, inHand[o].id)'
    BY <1>6 DEF Ahead
  <1> QED
    BY <1>3, <1>8, <1>9 DEF IdInv

(* A new UPDATE is behind those of its origin that are on the wire.        *)
LEMMA OrderStep == ReflectorInv /\ [Next]_vars => OrderInv'
  <1> SUFFICES ASSUME ReflectorInv, [Next]_vars,
                      NEW c \in Conn,
                      NEW i \in DOMAIN wire'[c], wire'[c][i].kind = "UPDATE",
                      NEW j \in DOMAIN wire'[c], wire'[c][j].kind = "UPDATE",
                      i < j, wire'[c][i].update.from = wire'[c][j].update.from
               PROVE  wire'[c][i].update.id < wire'[c][j].update.id
    BY DEF OrderInv, OnWire
  <1>1. wire \in [Conn -> Seq(Message)]
    BY DEF ReflectorInv, TypeInv
  <1>2. \A k \in DOMAIN wire[c] : k \in Nat /\ wire'[c][k] = wire[c][k]
    BY WireGrows
  <1>3. CASE i \in DOMAIN wire[c] /\ j \in DOMAIN wire[c]
    BY <1>2, <1>3 DEF ReflectorInv, OrderInv, OnWire
  <1>4. CASE i \in DOMAIN wire[c] /\ j \notin DOMAIN wire[c]
    <2>1. PICK o \in Conn : /\ wire'[c][j].update = inHand[o] /\ inHand[o].from = o
                            /\ pc[o] = "broadcast" /\ c \in targets[o]
      BY <1>4, NewOnWire
    <2>2. Pending(o, c) /\ wire[c][i].update.from = o
      BY <1>2, <1>4, <2>1 DEF Pending
    <2>3. wire[c][i].update.id < inHand[o].id
      BY <1>2, <1>4, <2>2 DEF ReflectorInv, IdInv, Behind
    <2> QED
      BY <1>2, <1>4, <2>1, <2>3
  <1>5. CASE i \notin DOMAIN wire[c]
    <2>1. \A k \in DOMAIN wire'[c] : k <= i
      BY <1>5, NewOnWire
    <2>2. wire' \in [Conn -> Seq(Message)]
      BY TypeStep DEF TypeInv
    <2>3. i \in Nat /\ j \in Nat
      BY <2>2, LenProperties
    <2> QED
      BY <2>1, <2>3
  <1> QED
    BY <1>3, <1>4, <1>5

----------------------------------------------------------------------------
\* Refreshes.

(* v is w with more behind it.                                             *)
Extends(v, w) == \A i \in DOMAIN w : i \in DOMAIN v /\ v[i] = w[i]

(* More on the wire does no harm.                                          *)
LEMMA Extended ==
    ASSUME NEW w, NEW v, Extends(v, w), NEW r, NEW e, NEW us
    PROVE  /\ Complete(w, e, us) => Complete(v, e, us)
           /\ Divided(w, r, e, us) => Divided(v, r, e, us)
  BY DEF Complete, Divided, Extends

(* The head of the answer goes on the wire.                                *)
LEMMA HeadMoves ==
    ASSUME NEW w, NEW v, Extends(v, w), NEW r, NEW rest, NEW n \in DOMAIN v, v[n] = r[1],
           \A i \in DOMAIN w : i < n, DOMAIN r \subseteq Nat,
           \A i \in DOMAIN r : i = 1 \/ (i > 1 /\ i - 1 \in DOMAIN rest /\ rest[i - 1] = r[i]),
           NEW e \in Nat, NEW us,
           Complete(r, e + 1, us) \/ Divided(w, r, e + 1, us)
    PROVE  Complete(rest, e, us) \/ Divided(v, rest, e, us)
  <1>1. ASSUME NEW i \in DOMAIN r, i # 1
        PROVE  i - 1 \in DOMAIN rest /\ rest[i - 1] = r[i] /\ i \in Nat /\ i > 1
    BY <1>1
  <1>2. CASE Complete(r, e + 1, us)
    <2>1. PICK b \in DOMAIN r :
            /\ b < e + 1 /\ r[b].kind = "BoRR"
            /\ \A u \in us : \E i \in DOMAIN r : b < i /\ i < e + 1 /\ r[i] = ReplayMsg(u)
      BY <1>2 DEF Complete
    <2>2. CASE b = 1
      <3>1. \A u \in us : \E i \in DOMAIN rest : i < e /\ rest[i] = ReplayMsg(u)
        <4> TAKE u \in us
        <4>1. PICK i \in DOMAIN r : 1 < i /\ i < e + 1 /\ r[i] = ReplayMsg(u)
          BY <2>1, <2>2
        <4>2. i - 1 < e /\ i - 1 \in DOMAIN rest /\ rest[i - 1] = r[i]
          BY <1>1, <4>1
        <4> QED
          BY <4>1, <4>2
      <3> QED
        BY <2>1, <2>2, <3>1 DEF Divided
    <2>3. CASE b # 1
      <3>1. b - 1 \in DOMAIN rest /\ rest[b - 1].kind = "BoRR" /\ b - 1 < e /\ b \in Nat
        BY <1>1, <2>1, <2>3
      <3>2. \A u \in us : \E i \in DOMAIN rest : b - 1 < i /\ i < e /\ rest[i] = ReplayMsg(u)
        <4> TAKE u \in us
        <4>1. PICK i \in DOMAIN r : b < i /\ i < e + 1 /\ r[i] = ReplayMsg(u)
          BY <2>1
        <4>2. i # 1
          BY <1>1, <2>3, <4>1
        <4>3. b - 1 < i - 1 /\ i - 1 < e /\ i - 1 \in DOMAIN rest /\ rest[i - 1] = r[i]
          BY <1>1, <3>1, <4>1, <4>2
        <4> QED
          BY <4>1, <4>3
      <3> QED
        BY <3>1, <3>2 DEF Complete
    <2> QED
      BY <2>2, <2>3
  <1>3. CASE Divided(w, r, e + 1, us)
    <2>1. PICK b \in DOMAIN w :
            /\ w[b].kind = "BoRR"
            /\ \A u \in us : \/ \E i \in DOMAIN w : b < i /\ w[i] = ReplayMsg(u)
                            \/ \E i \in DOMAIN r : i < e + 1 /\ r[i] = ReplayMsg(u)
      BY <1>3 DEF Divided
    <2>2. ASSUME NEW u \in us
          PROVE  \/ \E i \in DOMAIN v : b < i /\ v[i] = ReplayMsg(u)
                 \/ \E i \in DOMAIN rest : i < e /\ rest[i] = ReplayMsg(u)
      <3>1. CASE \E i \in DOMAIN w : b < i /\ w[i] = ReplayMsg(u)
        BY <3>1 DEF Extends
      <3>2. CASE \E i \in DOMAIN r : i < e + 1 /\ r[i] = ReplayMsg(u)
        <4>1. PICK i \in DOMAIN r : i < e + 1 /\ r[i] = ReplayMsg(u)
          BY <3>2
        <4>2. CASE i = 1
          BY <4>1, <4>2
        <4>3. CASE i # 1
          <5>1. i - 1 < e /\ i - 1 \in DOMAIN rest /\ rest[i - 1] = r[i]
            BY <1>1, <4>1, <4>3
          <5> QED
            BY <4>1, <5>1
        <4> QED
          BY <4>2, <4>3
      <3> QED
        BY <2>1, <3>1, <3>2
    <2>3. b \in DOMAIN v /\ v[b].kind = "BoRR"
      BY <2>1 DEF Extends
    <2> QED
      BY <2>2, <2>3 DEF Divided
  <1> QED
    BY <1>2, <1>3

(* The end of the answer goes on the wire.                                 *)
LEMMA EndMoves ==
    ASSUME NEW w, NEW v, Extends(v, w), NEW r, NEW n \in DOMAIN v,
           \A i \in DOMAIN w : i < n, \A i \in DOMAIN r : i \in Nat /\ i > 0, NEW us,
           Complete(r, 1, us) \/ Divided(w, r, 1, us)
    PROVE  Complete(v, n, us)
  <1>1. ~Complete(r, 1, us)
    BY DEF Complete
  <1>2. PICK b \in DOMAIN w :
          /\ w[b].kind = "BoRR"
          /\ \A u \in us : \/ \E i \in DOMAIN w : b < i /\ w[i] = ReplayMsg(u)
                          \/ \E i \in DOMAIN r : i < 1 /\ r[i] = ReplayMsg(u)
    BY <1>1 DEF Divided
  <1>3. \A u \in us : \E i \in DOMAIN w : b < i /\ w[i] = ReplayMsg(u)
    BY <1>2
  <1> QED
    BY <1>2, <1>3 DEF Complete, Extends

(* An end that comes on a wire was in front of the answer.                 *)
LEMMA EndOnWire ==
    ASSUME ReflectorInv, [Next]_vars, NEW d \in Conn, NEW k \in DOMAIN wire'[d],
           wire'[d][k].kind = "EoRR", k \notin DOMAIN wire[d]
    PROVE  /\ Replay(d) /\ wire'[d][k] = Head(answer[d])
           /\ \A j \in DOMAIN wire[d] : j < k
  <1> USE DEF ReflectorInv
  <1>1. wire \in [Conn -> Seq(Message)] /\ answer \in [Conn -> Seq(Message)]
    BY DEF TypeInv
  <1>2. ASSUME NEW t \in Conn, NEW m \in Message, wire' = Written(t, m)
        PROVE  d = t /\ wire'[d][k] = m /\ \A j \in DOMAIN wire[d] : j < k
    BY <1>1, <1>2, Grown
  <1>3. wire' # wire
    OBVIOUS
  <1>4. PICK c \in Conn : Handler(c)
    BY <1>3 DEF Next, vars, Peer, PeerConnects, PeerReads, PeerUpdates, PeerRefreshes, PeerCloses
  <1>5. ~(SendOpen(c) \/ SendKeepalive(c) \/ KeepaliveTick(c))
    <2>1. ASSUME SendOpen(c) \/ SendKeepalive(c) \/ KeepaliveTick(c)
          PROVE  \E p \in {"OPEN", "KEEPALIVE"} : wire' = Written(c, Msg(p))
      BY <2>1 DEF SendOpen, SendKeepalive, KeepaliveTick
    <2>2. \A p \in {"OPEN", "KEEPALIVE"} : Msg(p) \in Message /\ Msg(p).kind # "EoRR"
      BY PlainMessages DEF Plain
    <2> QED
      BY <1>2, <2>1, <2>2
  <1>6. ~Broadcast(c)
    <2> SUFFICES ASSUME Broadcast(c) PROVE FALSE
      OBVIOUS
    <2>1. PICK t \in targets[c] : wire' = Written(t, UpdateMsg(inHand[c]))
      BY DEF Broadcast
    <2>2. UpdateMsg(inHand[c]) \in Message /\ UpdateMsg(inHand[c]).kind = "UPDATE" /\ t \in Conn
      BY ServedIsUpdate, UpdateMessages DEF Broadcast, Serving, TypeInv
    <2>3. wire'[d][k] = UpdateMsg(inHand[c])
      BY <1>2, <2>1, <2>2
    <2> QED
      BY <2>2, <2>3
  <1>7. Replay(c)
    BY <1>3, <1>4, <1>5, <1>6 DEF Handler, ReadOpen, Add, ReadMessage, Record, Reflect, Refresh, Leave
  <1>8. wire' = Written(c, Head(answer[c])) /\ Head(answer[c]) \in Message
    BY <1>1, <1>7, Taken DEF Replay, RefreshInv, Answering
  <1> QED
    BY <1>2, <1>7, <1>8

(* What was asked for, once and for all, is cached.                        *)
LEMMA CachedStep ==
    ASSUME ReflectorInv, [Next]_vars, NEW d \in Conn
    PROVE  Cached(d)' /\ (asked'[d] = asked[d] \/ (d \notin refreshed /\ PeerRefreshes(d)))
  <1> USE DEF ReflectorInv
  <1>1. /\ asked \in [Conn -> SUBSET Update] /\ updates \in Seq(Update) /\ inHand \in [Conn -> Update \cup {NoUpdate}]
        /\ Cached(d)
    BY DEF TypeInv, RefreshInv
  <1>2. ASSUME NEW c \in Conn, PeerRefreshes(c)
        PROVE  Cached(d)' /\ (asked'[d] = asked[d] \/ (d \notin refreshed /\ PeerRefreshes(d)))
    <2>1. /\ asked' = [asked EXCEPT ![c] = {u \in ToSet(updates) : u.from # c}]
          /\ updates' = updates /\ c \notin refreshed
      BY <1>2 DEF PeerRefreshes, hubVars
    <2>2. CASE c = d
      <3>1. \A u \in asked'[d] : u.from # d /\ \E i \in DOMAIN updates : updates[i] = u
        BY <1>1, <2>1, <2>2 DEF ToSet
      <3> QED
        BY <1>2, <2>1, <2>2, <3>1 DEF Cached
    <2>3. CASE c # d
      BY <1>1, <2>1, <2>3 DEF Cached
    <2> QED
      BY <2>2, <2>3
  <1>3. ASSUME NEW c \in Conn, Record(c) PROVE Cached(d)' /\ asked' = asked
    <2>1. updates' = Append(updates, inHand[c]) /\ asked' = asked /\ inHand[c] \in Update
      BY <1>3, ServedIsUpdate DEF Record, Serving, peerVars
    <2>2. \A i \in DOMAIN updates : i \in DOMAIN updates' /\ updates'[i] = updates[i]
      BY <1>1, <2>1, Appended
    <2> QED
      BY <1>1, <2>1, <2>2 DEF Cached
  <1>4. ASSUME updates' = updates, asked' = asked PROVE Cached(d)'
    BY <1>1, <1>4 DEF Cached
  <1>5. ASSUME NEW c \in Conn, Handler(c), ~Record(c) PROVE updates' = updates /\ asked' = asked
    BY <1>5 DEF Handler, ReadOpen, SendOpen, Add, SendKeepalive, KeepaliveTick, ReadMessage, Reflect,
                Broadcast, Refresh, Replay, Leave, hubVars, peerVars
  <1>6. ASSUME NEW c \in Conn, Peer(c), ~PeerRefreshes(c) PROVE updates' = updates /\ asked' = asked
    BY <1>6 DEF Peer, PeerConnects, PeerReads, PeerUpdates, PeerCloses, hubVars
  <1>7. CASE UNCHANGED vars
    BY <1>4, <1>7 DEF vars, hubVars, peerVars
  <1> QED
    BY <1>2, <1>3, <1>4, <1>5, <1>6, <1>7 DEF Next

(* An answer is made by Refresh and written by Replay.                     *)
LEMMA AnswerMoves ==
    ASSUME ReflectorInv, [Next]_vars, NEW d \in Conn
    PROVE  \/ answer'[d] = answer[d] /\ (pc[d] = "replay" <=> pc'[d] = "replay")
           \/ Refresh(d)
           \/ Replay(d)
  <1>1. /\ pc \in [Conn -> {"none", "accept", "open", "add", "gone"} \cup Published]
        /\ answer \in [Conn -> Seq(Message)]
    BY DEF ReflectorInv, TypeInv
  <1> DEFINE Still == answer'[d] = answer[d] /\ (pc[d] = "replay" <=> pc'[d] = "replay")
  <1>2. ASSUME NEW c \in Conn, Refresh(c) \/ Replay(c), c # d PROVE Still
    BY <1>1, <1>2 DEF Refresh, Replay, Goto
  <1>3. ASSUME NEW c \in Conn, Handler(c), ~Refresh(c), ~Replay(c) PROVE Still
    <2>1. answer' = answer
      BY <1>3 DEF Handler, ReadOpen, SendOpen, Add, SendKeepalive, KeepaliveTick, ReadMessage, Record, Reflect,
                  Broadcast, Leave
    <2>2. CASE ReadOpen(c) \/ SendOpen(c) \/ Add(c) \/ SendKeepalive(c) \/ KeepaliveTick(c)
      BY <1>1, <2>1, <2>2 DEF ReadOpen, SendOpen, Add, SendKeepalive, KeepaliveTick, HandshakeOrder, Goto
    <2>3. CASE ReadMessage(c)
      <3>1. pc[c] = "read" /\ \E l \in {"record", "refresh", "read"} : pc' = [pc EXCEPT ![c] = l]
        BY <2>3 DEF ReadMessage, Goto
      <3> QED
        BY <1>1, <2>1, <3>1
    <2>4. CASE Record(c) \/ Reflect(c) \/ Leave(c)
      BY <1>1, <2>1, <2>4 DEF Record, Reflect, Leave, Goto
    <2>5. CASE Broadcast(c)
      <3>1. pc[c] = "broadcast" /\ \E l \in {"broadcast", "read"} : pc' = [pc EXCEPT ![c] = l]
        BY <2>5 DEF Broadcast, Goto
      <3> QED
        BY <1>1, <2>1, <3>1
    <2> QED
      BY <1>3, <2>2, <2>3, <2>4, <2>5 DEF Handler
  <1>4. ASSUME NEW c \in Conn, Peer(c) PROVE Still
    <2>1. answer' = answer
      BY <1>4 DEF Peer, PeerConnects, PeerReads, PeerUpdates, PeerRefreshes, PeerCloses, connVars
    <2>2. CASE PeerConnects(c)
      <3>1. pc[c] = "none" /\ pc' = [pc EXCEPT ![c] = "accept"]
        BY <2>2 DEF PeerConnects, Goto, ReflectorInv, StageInv
      <3> QED
        BY <1>1, <2>1, <3>1
    <2>3. CASE ~PeerConnects(c)
      BY <1>4, <2>1, <2>3 DEF Peer, PeerReads, PeerUpdates, PeerRefreshes, PeerCloses, connVars
    <2> QED
      BY <2>2, <2>3
  <1>5. CASE UNCHANGED vars
    BY <1>5 DEF vars, connVars
  <1> QED
    BY <1>2, <1>3, <1>4, <1>5 DEF Next

LEMMA AnsweringStep ==
    ASSUME ReflectorInv, [Next]_vars, NEW d \in Conn
    PROVE  Answering(d)'
  <1>1. /\ pc \in [Conn -> {"none", "accept", "open", "add", "gone"} \cup Published]
        /\ answer \in [Conn -> Seq(Message)] /\ Answering(d)
    BY DEF ReflectorInv, TypeInv, RefreshInv
  <1>2. CASE Refresh(d)
    <2>1. PICK full : /\ answer' = [answer EXCEPT ![d] = full]
                      /\ pc' = [pc EXCEPT ![d] = IF full = <<>> THEN "read" ELSE "replay"]
      BY <1>2 DEF Refresh, Goto
    <2> QED
      BY <1>1, <2>1 DEF Answering
  <1>3. CASE Replay(d)
    <2>1. /\ answer' = [answer EXCEPT ![d] = Tail(@)] /\ answer[d] # <<>> /\ answer[d] \in Seq(Message)
          /\ pc' = [pc EXCEPT ![d] = IF Len(answer[d]) = 1 THEN "read" ELSE "replay"]
      BY <1>1, <1>3 DEF Replay, Goto, Answering
    <2>2. Tail(answer[d]) \in Seq(Message) /\ Len(Tail(answer[d])) = Len(answer[d]) - 1 /\ Len(answer[d]) \in Nat
      BY <2>1, HeadTailProperties, LenProperties
    <2>3. Tail(answer[d]) = <<>> <=> Len(answer[d]) = 1
      <3> DEFINE t == Tail(answer[d])
      <3>1. t \in Seq(Message) /\ (Len(t) = 0 <=> Len(answer[d]) = 1)
        BY <2>2
      <3> HIDE DEF t
      <3>2. t = <<>> <=> Len(t) = 0
        BY <3>1, EmptySeq
      <3> QED
        BY <3>1, <3>2 DEF t
    <2> QED
      BY <1>1, <2>1, <2>3 DEF Answering
  <1> QED
    BY <1>1, <1>2, <1>3, AnswerMoves DEF Answering

LEMMA UnaskedStep ==
    ASSUME ReflectorInv, [Next]_vars, NEW d \in Conn
    PROVE  Unasked(d)'
  <1> USE DEF ReflectorInv
  <1> SUFFICES ASSUME d \notin refreshed' PROVE Unasked(d)'
    BY DEF Unasked
  <1>1. /\ pc \in [Conn -> {"none", "accept", "open", "add", "gone"} \cup Published]
        /\ inbox \in [Conn -> Seq(Message)]
    BY DEF TypeInv
  <1>2. d \notin refreshed
    BY DEF Next, vars, Handler, ReadOpen, SendOpen, Add, SendKeepalive, KeepaliveTick, ReadMessage, Record,
           Reflect, Broadcast, Refresh, Replay, Leave, Peer, PeerConnects, PeerReads, PeerUpdates,
           PeerRefreshes, PeerCloses, peerVars
  <1>3. /\ \A i \in DOMAIN inbox[d] : inbox[d][i].kind # "ROUTE-REFRESH"
        /\ pc[d] \notin {"refresh", "replay"}
        /\ \A e \in DOMAIN wire[d] : wire[d][e].kind # "EoRR"
    BY <1>2 DEF RefreshInv, Unasked
  <1>4. \A e \in DOMAIN wire'[d] : wire'[d][e].kind # "EoRR"
    <2> SUFFICES ASSUME NEW e \in DOMAIN wire'[d], wire'[d][e].kind = "EoRR" PROVE FALSE
      OBVIOUS
    <2>1. CASE e \in DOMAIN wire[d]
      BY <1>3, <2>1, WireGrows
    <2>2. CASE e \notin DOMAIN wire[d]
      BY <1>3, <2>2, EndOnWire DEF Replay
    <2> QED
      BY <2>1, <2>2
  <1> DEFINE Rest == /\ \A i \in DOMAIN inbox'[d] : inbox'[d][i].kind # "ROUTE-REFRESH"
                     /\ pc'[d] \notin {"refresh", "replay"}
  <1>5. ASSUME inbox'[d] = inbox[d], pc'[d] = pc[d] PROVE Rest
    BY <1>3, <1>5
  <1>6. ASSUME NEW c \in Conn, inbox[c] # <<>>, inbox' = [inbox EXCEPT ![c] = Tail(@)]
        PROVE  \A i \in DOMAIN inbox'[d] : inbox'[d][i].kind # "ROUTE-REFRESH"
    <2>1. /\ \A b \in Conn : b # c => inbox'[b] = inbox[b]
          /\ \A i \in DOMAIN inbox'[c] : i + 1 \in DOMAIN inbox[c] /\ inbox'[c][i] = inbox[c][i + 1]
      BY <1>1, <1>6, Consumed
    <2> QED
      BY <1>3, <2>1
  <1>7. ASSUME NEW c \in Conn, NEW m \in Message, m.kind # "ROUTE-REFRESH" \/ c # d,
               inbox' = [inbox EXCEPT ![c] = Append(@, m)]
        PROVE  \A i \in DOMAIN inbox'[d] : inbox'[d][i].kind # "ROUTE-REFRESH"
    <2>1. \A i \in DOMAIN inbox'[d] :
            (i \in DOMAIN inbox[d] /\ inbox'[d][i] = inbox[d][i]) \/ (d = c /\ inbox'[d][i] = m)
      BY <1>1, <1>7, Queued
    <2> QED
      BY <1>3, <1>7, <2>1
  <1>8. ASSUME NEW c \in Conn, Handler(c) PROVE Rest
    <2>1. CASE ReadOpen(c)
      <3>1. pc'[d] \notin {"refresh", "replay"}
        BY <1>1, <1>3, <2>1 DEF ReadOpen, Goto
      <3> QED
        BY <1>6, <2>1, <3>1 DEF ReadOpen
    <2>2. CASE SendOpen(c) \/ Add(c) \/ SendKeepalive(c) \/ KeepaliveTick(c)
      BY <1>1, <1>3, <2>2 DEF SendOpen, Add, SendKeepalive, KeepaliveTick, HandshakeOrder, Goto
    <2>3. CASE ReadMessage(c)
      <3>1. /\ inbox[c] # <<>> /\ inbox' = [inbox EXCEPT ![c] = Tail(@)]
            /\ \E l \in {"record", "refresh", "read"} :
                 /\ pc' = [pc EXCEPT ![c] = l]
                 /\ l = "refresh" => Head(inbox[c]).kind = "ROUTE-REFRESH"
        BY <2>3 DEF ReadMessage, Goto
      <3>2. 1 \in DOMAIN inbox[c] /\ Head(inbox[c]) = inbox[c][1]
        BY <1>1, <3>1, Taken
      <3>3. pc'[d] \notin {"refresh", "replay"}
        BY <1>1, <1>3, <3>1, <3>2
      <3> QED
        BY <1>6, <3>1, <3>3
    <2>4. CASE Record(c) \/ Reflect(c) \/ Leave(c)
      BY <1>1, <1>3, <2>4 DEF Record, Reflect, Leave, Goto
    <2>5. CASE Broadcast(c)
      <3>1. inbox' = inbox /\ \E l \in {"broadcast", "read"} : pc' = [pc EXCEPT ![c] = l]
        BY <2>5 DEF Broadcast, Goto
      <3> QED
        BY <1>1, <1>3, <3>1
    <2>6. CASE Refresh(c) \/ Replay(c)
      <3>1. c # d
        BY <1>3, <2>6 DEF Refresh, Replay
      <3> QED
        BY <1>1, <1>3, <2>6, <3>1 DEF Refresh, Replay, Goto
    <2> QED
      BY <1>8, <2>1, <2>2, <2>3, <2>4, <2>5, <2>6 DEF Handler
  <1>9. ASSUME NEW c \in Conn, Peer(c) PROVE Rest
    <2>1. CASE PeerConnects(c)
      <3>1. /\ inbox' = [inbox EXCEPT ![c] = <<Msg("OPEN")>>] /\ pc' = [pc EXCEPT ![c] = "accept"]
            /\ Msg("OPEN").kind # "ROUTE-REFRESH"
        BY <2>1, PlainMessages DEF PeerConnects, Goto, Plain
      <3> QED
        BY <1>1, <1>3, <3>1
    <2>2. CASE PeerReads(c)
      <3>1. pc' = pc /\ (inbox' = inbox \/ inbox' = [inbox EXCEPT ![c] = Append(@, Msg("KEEPALIVE"))])
        BY <2>2 DEF PeerReads, connVars
      <3>2. Msg("KEEPALIVE") \in Message /\ Msg("KEEPALIVE").kind # "ROUTE-REFRESH"
        BY PlainMessages DEF Plain
      <3> QED
        BY <1>3, <1>7, <3>1, <3>2
    <2>3. CASE PeerUpdates(c)
      <3> DEFINE u == [from |-> c, id |-> sent + 1]
      <3>1. u \in Update
        BY DEF Update, TypeInv
      <3>2. inbox' = [inbox EXCEPT ![c] = Append(@, UpdateMsg(u))] /\ pc' = pc
        BY <2>3 DEF PeerUpdates, connVars
      <3> HIDE DEF u
      <3>3. UpdateMsg(u) \in Message /\ UpdateMsg(u).kind # "ROUTE-REFRESH"
        BY <3>1, UpdateMessages
      <3> QED
        BY <1>3, <1>7, <3>2, <3>3
    <2>4. CASE PeerRefreshes(c)
      <3>1. /\ inbox' = [inbox EXCEPT ![c] = Append(@, Msg("ROUTE-REFRESH"))] /\ pc' = pc /\ c # d
            /\ Msg("ROUTE-REFRESH") \in Message
        BY <2>4, PlainMessages DEF PeerRefreshes, Plain, connVars
      <3> QED
        BY <1>3, <1>7, <3>1
    <2>5. CASE PeerCloses(c)
      BY <1>3, <2>5 DEF PeerCloses, connVars
    <2> QED
      BY <1>9, <2>1, <2>2, <2>3, <2>4, <2>5 DEF Peer
  <1>10. ASSUME UNCHANGED vars PROVE Rest
    BY <1>5, <1>10 DEF vars, connVars
  <1> QED
    BY <1>4, <1>8, <1>9, <1>10 DEF Next, Unasked

LEMMA EndedStep ==
    ASSUME ReflectorInv, [Next]_vars, NEW d \in Conn
    PROVE  Ended(d)'
  <1> SUFFICES ASSUME NEW e \in DOMAIN wire'[d], wire'[d][e].kind = "EoRR"
               PROVE  Complete(wire'[d], e, asked'[d])
    BY DEF Ended, Complete
  <1>1. Extends(wire'[d], wire[d])
    BY WireGrows DEF Extends
  <1>2. answer \in [Conn -> Seq(Message)] /\ Ended(d) /\ Ending(d) /\ Unasked(d) /\ Answering(d)
    BY DEF ReflectorInv, RefreshInv, TypeInv
  <1>3. CASE e \in DOMAIN wire[d]
    <2>1. wire[d][e].kind = "EoRR"
      BY <1>1, <1>3 DEF Extends
    <2>2. asked'[d] = asked[d]
      BY <1>2, <1>3, <2>1, CachedStep DEF Unasked
    <2>3. Complete(wire[d], e, asked[d])
      BY <1>2, <1>3, <2>1 DEF Ended
    <2> QED
      BY <1>1, <2>2, <2>3, Extended
  <1>4. CASE e \notin DOMAIN wire[d]
    <2>1. /\ Replay(d) /\ wire'[d][e] = Head(answer[d])
          /\ \A j \in DOMAIN wire[d] : j < e
      BY <1>4, EndOnWire
    <2>2. answer[d] # <<>> /\ answer[d] \in Seq(Message) /\ asked'[d] = asked[d]
      BY <1>2, <2>1 DEF Replay, Answering, peerVars
    <2>3. /\ 1 \in DOMAIN answer[d] /\ Head(answer[d]) = answer[d][1]
          /\ \A i \in DOMAIN answer[d] : i \in Nat /\ i > 0
      BY <2>2, Taken
    <2>4. Complete(answer[d], 1, asked[d]) \/ Divided(wire[d], answer[d], 1, asked[d])
      BY <1>2, <2>1, <2>3 DEF Ending
    <2> DEFINE w == wire[d]
               v == wire'[d]
               r == answer[d]
               us == asked[d]
    <2>5. Extends(v, w) /\ e \in DOMAIN v /\ \A i \in DOMAIN w : i < e
      BY <1>1, <2>1
    <2>6. (\A i \in DOMAIN r : i \in Nat /\ i > 0) /\ (Complete(r, 1, us) \/ Divided(w, r, 1, us))
      BY <2>3, <2>4
    <2> HIDE DEF w, v, r, us
    <2>7. Complete(v, e, us)
      BY <2>5, <2>6, EndMoves
    <2> QED
      BY <2>2, <2>7 DEF v, us
  <1> QED
    BY <1>3, <1>4

LEMMA EndingStep ==
    ASSUME ReflectorInv, [Next]_vars, NEW d \in Conn
    PROVE  Ending(d)'
  <1> SUFFICES ASSUME NEW e \in DOMAIN answer'[d], answer'[d][e].kind = "EoRR"
               PROVE  Complete(answer'[d], e, asked'[d]) \/ Divided(wire'[d], answer'[d], e, asked'[d])
    BY DEF Ending, Complete, Divided
  <1>1. Extends(wire'[d], wire[d])
    BY WireGrows DEF Extends
  <1>2. /\ answer \in [Conn -> Seq(Message)] /\ wire \in [Conn -> Seq(Message)] /\ updates \in Seq(Update)
        /\ Cached(d) /\ Ending(d) /\ Unasked(d) /\ Answering(d)
    BY DEF ReflectorInv, RefreshInv, TypeInv
  <1>3. CASE answer'[d] = answer[d]
    <2>1. answer[d] # <<>>
      BY <1>3
    <2>2. asked'[d] = asked[d]
      BY <1>2, <2>1, CachedStep DEF Unasked, Answering
    <2>3. Complete(answer[d], e, asked[d]) \/ Divided(wire[d], answer[d], e, asked[d])
      BY <1>2, <1>3 DEF Ending
    <2> QED
      BY <1>1, <1>3, <2>2, <2>3, Extended
  <1>4. CASE Refresh(d)
    <2>1. PICK full : /\ full = FullAnswer(d)
                      /\ answer' = [answer EXCEPT ![d] = full]
      BY <1>4 DEF Refresh, FullAnswer
    <2>2. answer'[d] = full /\ asked'[d] = asked[d]
      BY <1>2, <1>4, <2>1 DEF Refresh, peerVars
    <2>3. \A x \in DOMAIN full : full[x].kind = "EoRR" =>
            \E b \in DOMAIN full :
               /\ b < x /\ full[b].kind = "BoRR"
               /\ \A i \in DOMAIN updates : updates[i].from # d =>
                    \E k \in DOMAIN full : b < k /\ k < x /\ full[k] = ReplayMsg(updates[i])
      <3>1. updates \in Seq(Update)
        BY <1>2
      <3> QED
        BY <2>1, <3>1, AnswerFacts
    <2>4. PICK b \in DOMAIN full :
               /\ b < e /\ full[b].kind = "BoRR"
               /\ \A i \in DOMAIN updates : updates[i].from # d =>
                    \E k \in DOMAIN full : b < k /\ k < e /\ full[k] = ReplayMsg(updates[i])
      BY <2>2, <2>3
    <2>5. \A u \in asked[d] : \E k \in DOMAIN full : b < k /\ k < e /\ full[k] = ReplayMsg(u)
      BY <1>2, <2>4 DEF Cached
    <2> QED
      BY <2>2, <2>4, <2>5 DEF Complete
  <1>5. CASE Replay(d)
    <2> DEFINE w == wire[d]
               v == wire'[d]
               r == answer[d]
               rest == answer'[d]
               us == asked[d]
    <2>1. /\ r # <<>> /\ wire' = Written(d, Head(r)) /\ answer' = [answer EXCEPT ![d] = Tail(@)]
          /\ asked'[d] = us /\ pc[d] # "gone"
      BY <1>2, <1>5 DEF Replay, Answering, peerVars
    <2>2. /\ 1 \in DOMAIN r /\ Head(r) = r[1] /\ Head(r) \in Message
          /\ \A i \in DOMAIN rest : i \in Nat /\ i > 0 /\ i + 1 \in DOMAIN r /\ rest[i] = r[i + 1]
          /\ \A i \in DOMAIN r : i \in Nat /\ (i = 1 \/ i - 1 \in DOMAIN rest)
      BY <1>2, <2>1, Consumed
    <2>3. PICK n \in DOMAIN v : v[n] = r[1] /\ \A j \in DOMAIN w : j < n
      <3>1. \E n \in DOMAIN v : n \in Nat /\ v[n] = Head(r) /\ \A j \in DOMAIN w : j < n
        BY <1>2, <2>1, <2>2, Grown
      <3> QED
        BY <2>2, <3>1
    <2>4. Complete(r, e + 1, us) \/ Divided(w, r, e + 1, us)
      BY <1>2, <2>2 DEF Ending
    <2>5. \A i \in DOMAIN r : i = 1 \/ (i > 1 /\ i - 1 \in DOMAIN rest /\ rest[i - 1] = r[i])
      <3> TAKE i \in DOMAIN r
      <3>1. i \in Nat /\ (i = 1 \/ i - 1 \in DOMAIN rest)
        BY <2>2
      <3>2. CASE i - 1 \in DOMAIN rest
        <4>1. i - 1 > 0 /\ rest[i - 1] = r[(i - 1) + 1]
          BY <2>2, <3>2
        <4>2. i > 1 /\ (i - 1) + 1 = i
          BY <3>1, <4>1
        <4> QED
          BY <3>2, <4>1, <4>2
      <3> QED
        BY <3>1, <3>2
    <2>6. e \in Nat /\ DOMAIN r \subseteq Nat /\ Extends(v, w)
      BY <1>1, <2>2
    <2> HIDE DEF w, v, r, rest, us
    <2>7. Complete(rest, e, us) \/ Divided(v, rest, e, us)
      BY <2>3, <2>4, <2>5, <2>6, HeadMoves
    <2> QED
      BY <2>1, <2>7 DEF v, rest
  <1> QED
    BY <1>3, <1>4, <1>5, AnswerMoves

LEMMA RefreshStep == ReflectorInv /\ [Next]_vars => RefreshInv'
  BY CachedStep, AnsweringStep, UnaskedStep, EndedStep, EndingStep DEF RefreshInv

----------------------------------------------------------------------------
\* The theorems.

(* No step of a handleConn, of a ticker or of a peer breaks any of this.   *)
THEOREM ReflectorInvariant == Spec => []ReflectorInv
  <1>1. ReflectorInv /\ [Next]_vars => ReflectorInv'
    BY TypeStep, StageStep, OriginStep, DueStep, IdStep, OrderStep, RefreshStep DEF ReflectorInv
  <1> QED
    BY InitInv, <1>1, PTL DEF Spec

(* hub.broadcast and hub.replay leave out the origin: no session gets its  *)
(* own UPDATE back.                                                        *)
THEOREM NoUpdateComesBack == Spec => []SplitHorizon
  <1>1. ReflectorInv => SplitHorizon
    BY DEF ReflectorInv, OriginInv, Received, SplitHorizon
  <1> QED
    BY <1>1, ReflectorInvariant, PTL

(* h.add comes before the KEEPALIVE: once the broadcast of an UPDATE is    *)
(* over, it is on the wire of every session that was Established when it   *)
(* was sent, behind those its origin sent before.                          *)
THEOREM UpdatesReachAll == Spec => []ReflectedToAll
  <1>1. ReflectorInv => ReflectedToAll
    <2> SUFFICES ASSUME ReflectorInv PROVE ReflectedToAll
      OBVIOUS
    <2>1. ASSUME reflectMode, NEW u \in ToSet(updates), NEW c \in Conn, u \in due[c], pc[c] # "gone",
                 inHand[u.from] = u => pc[u.from] \notin {"reflect", "broadcast"}
          PROVE  \E i \in OnWire(c, "UPDATE") : wire[c][i].update = u
      <3>1. PICK i \in DOMAIN updates : updates[i] = u
        BY DEF ToSet
      <3>2. Has(wire[c], u) \/ Awaiting(u, c)
        BY <2>1, <3>1 DEF ReflectorInv, DueInv
      <3>3. ~Awaiting(u, c)
        BY <2>1 DEF Awaiting
      <3> QED
        BY <3>2, <3>3 DEF Has, OnWire
    <2> QED
      BY <2>1 DEF ReflectedToAll, ReflectorInv, OrderInv
  <1> QED
    BY <1>1, ReflectorInvariant, PTL

(* hub.replay answers from one snapshot of the cache: between the BoRR and *)
(* the EoRR lies every UPDATE of another session that was cached when the  *)
(* refresh was asked for.                                                  *)
THEOREM AnswersAreComplete == Spec => []AnswerIsComplete
  <1>1. ReflectorInv => AnswerIsComplete
    <2> SUFFICES ASSUME ReflectorInv, NEW c \in Conn, NEW e \in OnWire(c, "EoRR")
                 PROVE  \E b \in OnWire(c, "BoRR") :
                          /\ b < e
                          /\ \A u \in asked[c] :
                               \E i \in OnWire(c, "replayed UPDATE") :
                                 b < i /\ i < e /\ wire[c][i].update = u
      BY DEF AnswerIsComplete
    <2>1. Complete(wire[c], e, asked[c])
      BY DEF ReflectorInv, RefreshInv, Ended, OnWire
    <2>2. PICK b \in DOMAIN wire[c] :
            /\ b < e /\ wire[c][b].kind = "BoRR"
            /\ \A u \in asked[c] : \E i \in DOMAIN wire[c] : b < i /\ i < e /\ wire[c][i] = ReplayMsg(u)
      BY <2>1 DEF Complete
    <2>3. \A u \in asked[c] : ReplayMsg(u).kind = "replayed UPDATE" /\ ReplayMsg(u).update = u
      BY UpdateMessages DEF ReflectorInv, TypeInv
    <2>4. \A u \in asked[c] :
            \E i \in OnWire(c, "replayed UPDATE") : b < i /\ i < e /\ wire[c][i].update = u
      <3> TAKE u \in asked[c]
      <3>1. PICK i \in DOMAIN wire[c] : b < i /\ i < e /\ wire[c][i] = ReplayMsg(u)
        BY <2>2
      <3>2. wire[c][i].kind = "replayed UPDATE" /\ wire[c][i].update = u
        BY <2>3, <3>1
      <3> QED
        BY <3>1, <3>2 DEF OnWire
    <2>5. b \in OnWire(c, "BoRR")
      BY <2>2 DEF OnWire
    <2> QED
      BY <2>2, <2>4, <2>5
  <1> QED
    BY <1>1, ReflectorInvariant, PTL
=============================================================================
