--------------------------- MODULE BarrierProofs ---------------------------
(***************************************************************************)
(* Proofs about Barrier, for any number of virtual users, names, counts    *)
(* and arrivals: no rendezvous is split, no channel is closed twice, and   *)
(* every name keeps the promise of Rendezvous.                             *)
(***************************************************************************)
EXTENDS Barrier, TLAPS

----------------------------------------------------------------------------
\* The inductive invariant.

(* A name the registry does not know has no Barrier, a name it knows has   *)
(* the one its creator made, with a target.                                *)
RegistryInv ==
    /\ \A n \in Name, u \in Vu :
         target[<<n, u>>] # 0 <=> registry[n] = u
    /\ OneBarrierPerName

(* The indexes handed out so far are at most the count, and a channel is   *)
(* closed only after its target.                                           *)
ArrivalInv ==
    /\ \A b \in Barriers : target[b] = 0 => arrived[b] = 0 /\ closes[b] = 0
    /\ \A v \in Vu : pc[v] # "script" => index[v] <= arrived[held[v]] /\ index[v] > 0

BarrierInv == TypeOK /\ RegistryInv /\ ArrivalInv /\ ClosedOnce

----------------------------------------------------------------------------
\* Each action keeps it.

(* Fetching a Barrier changes nobody else's standing with it.              *)
LEMMA FindKeeps ==
    ASSUME BarrierInv, NEW v \in Vu, NEW n \in Name, NEW c \in Count, Find(v, n, c)
    PROVE  BarrierInv'
  <1> USE VuAssumption DEF None, Barriers, NoBarrier
  <1>1. TypeOK'
    BY DEF BarrierInv, TypeOK, Find, Known, objectVars, callVars
  <1>2. RegistryInv'
    BY DEF BarrierInv, TypeOK, RegistryInv, OneBarrierPerName, Find, Known, objectVars
  <1>3. ArrivalInv'
    BY DEF BarrierInv, TypeOK, ArrivalInv, Find, objectVars, callVars
  <1>4. ASSUME NEW b \in Barriers PROVE Closing(b)' = Closing(b)
    BY DEF BarrierInv, TypeOK, Find, objectVars, callVars, Closing, Completes
  <1>5. ClosedOnce'
    BY <1>4 DEF BarrierInv, ClosedOnce, Find, objectVars
  <1> QED
    BY <1>1, <1>2, <1>3, <1>5 DEF BarrierInv

(* A new Barrier has nobody inside.                                        *)
LEMMA CreateKeeps ==
    ASSUME BarrierInv, NEW v \in Vu, NEW n \in Name, NEW c \in Count, Create(v, n, c)
    PROVE  BarrierInv'
  <1> USE VuAssumption DEF None, Barriers, NoBarrier
  <1>1. TypeOK'
    BY CountAssumption
    DEF BarrierInv, TypeOK, Create, Known, ValidTarget, objectVars, callVars
  <1>2. /\ registry[n] = None /\ c \in Nat \ {0}
        /\ registry' = [registry EXCEPT ![n] = v]
        /\ target' = [target EXCEPT ![<<n, v>>] = c]
        /\ held' = [held EXCEPT ![v] = <<n, v>>]
        /\ UNCHANGED <<arrived, closes, pc, index>>
        /\ pc[v] = "script"
    BY CountAssumption DEF Create, Known, ValidTarget, callVars
  <1>3. \A w \in Vu : held[w] \notin {n} \X Vu
    BY <1>2 DEF BarrierInv, TypeOK, RegistryInv, OneBarrierPerName
  <1>4. RegistryInv'
    <2>1. \A m \in Name, u \in Vu : target'[<<m, u>>] # 0 <=> registry'[m] = u
      <3> TAKE m \in Name, u \in Vu
      <3>1. target[<<m, u>>] # 0 <=> registry[m] = u
        BY DEF BarrierInv, RegistryInv
      <3>2. CASE m = n
        <4>1. registry'[m] = v /\ registry[m] # u
          BY <1>2, <3>2 DEF BarrierInv, TypeOK
        <4>2. target'[<<m, u>>] = IF u = v THEN c ELSE target[<<m, u>>]
          BY <1>2, <3>2 DEF BarrierInv, TypeOK
        <4> QED
          BY <1>2, <3>1, <4>1, <4>2
      <3>3. CASE m # n
        <4>1. registry'[m] = registry[m]
          BY <1>2, <3>3 DEF BarrierInv, TypeOK
        <4>2. target'[<<m, u>>] = target[<<m, u>>]
          BY <1>2, <3>3 DEF BarrierInv, TypeOK
        <4> QED
          BY <3>1, <4>1, <4>2
      <3> QED
        BY <3>2, <3>3
    <2>2. OneBarrierPerName'
      BY <1>2, <1>3 DEF BarrierInv, TypeOK, RegistryInv, OneBarrierPerName
    <2> QED
      BY <2>1, <2>2 DEF RegistryInv
  <1>5. ArrivalInv'
    BY <1>2 DEF BarrierInv, TypeOK, ArrivalInv
  <1>6. ClosedOnce'
    <2> SUFFICES ASSUME NEW b \in Barriers, target'[b] # 0
                 PROVE  /\ closes'[b] <= 1
                        /\ closes'[b] = 1 => Closing(b)' = {}
                        /\ \A x, y \in Closing(b)' : x = y
                        /\ arrived'[b] >= target'[b] <=> closes'[b] = 1 \/ Closing(b)' # {}
      BY DEF ClosedOnce
    <2>1. CASE b = <<n, v>>
      <3>1. target[b] = 0 /\ arrived[b] = 0 /\ closes[b] = 0 /\ target'[b] = c
        BY <1>2, <2>1 DEF BarrierInv, TypeOK, RegistryInv, ArrivalInv
      <3>2. \A w \in Vu : pc[w] = "added" => held'[w] # b
        BY <1>2, <1>3, <2>1 DEF BarrierInv, TypeOK
      <3>3. Closing(b)' = {}
        BY <1>2, <3>2 DEF Closing
      <3> QED
        BY <1>2, <3>1, <3>3
    <2>2. CASE b # <<n, v>>
      <3>1. target'[b] = target[b]
        BY <1>2, <2>2 DEF BarrierInv, TypeOK
      <3>2. \A w \in Vu : pc[w] = "added" => held'[w] = held[w]
        BY <1>2 DEF BarrierInv, TypeOK
      <3>3. Closing(b)' = Closing(b)
        BY <1>2, <3>1, <3>2 DEF Closing, Completes
      <3> QED
        BY <1>2, <3>1, <3>3 DEF BarrierInv, ClosedOnce
    <2> QED
      BY <2>1, <2>2
  <1> QED
    BY <1>1, <1>4, <1>5, <1>6 DEF BarrierInv

(* The atomic add gives its caller an index nobody else has.               *)
LEMMA ArriveKeeps ==
    ASSUME BarrierInv, NEW v \in Vu, Arrive(v)
    PROVE  BarrierInv'
  <1> USE VuAssumption DEF None, Barriers, NoBarrier
  <1> DEFINE h == held[v]
  <1>1. /\ pc[v] = "script" /\ h \in Barriers
        /\ arrived' = [arrived EXCEPT ![h] = arrived[h] + 1]
        /\ index' = [index EXCEPT ![v] = arrived[h] + 1]
        /\ pc' = [pc EXCEPT ![v] = "added"]
        /\ UNCHANGED <<registry, target, closes, held>>
    BY DEF Arrive, BarrierInv, TypeOK
  <1>2. /\ arrived \in [Barriers -> Nat] /\ index \in [Vu -> Nat] /\ target \in [Barriers -> Nat]
        /\ closes \in [Barriers -> Nat]
        /\ held \in [Vu -> Barriers \cup {NoBarrier}]
        /\ pc \in [Vu -> {"script", "added", "select"}]
    BY DEF BarrierInv, TypeOK
  <1>3. TypeOK'
    BY <1>1 DEF BarrierInv, TypeOK, Arrive
  <1>4. RegistryInv'
    BY <1>1 DEF BarrierInv, RegistryInv, OneBarrierPerName
  <1>5. target[h] # 0
    <2>1. PICK n \in Name, u \in Vu : h = <<n, u>>
      BY <1>1
    <2>2. registry[n] = u
      BY <2>1 DEF BarrierInv, RegistryInv, OneBarrierPerName
    <2> QED
      BY <2>1, <2>2 DEF BarrierInv, RegistryInv
  <1>6. ArrivalInv'
    <2>1. \A b \in Barriers : target'[b] = 0 => arrived'[b] = 0 /\ closes'[b] = 0
      BY <1>1, <1>2, <1>5 DEF BarrierInv, ArrivalInv
    <2>2. ASSUME NEW w \in Vu, pc'[w] # "script"
          PROVE  index'[w] <= arrived'[held'[w]] /\ index'[w] > 0
      <3>1. CASE w = v
        BY <1>1, <1>2, <3>1
      <3>2. CASE w # v
        <4>1. /\ index[w] <= arrived[held[w]] /\ index[w] > 0 /\ held[w] \in Barriers
              /\ index'[w] = index[w]
          BY <1>1, <1>2, <2>2, <3>2, SMTT(30) DEF BarrierInv, TypeOK, ArrivalInv
        <4> QED
          BY <1>1, <1>2, <4>1
      <3> QED
        BY <3>1, <3>2
    <2> QED
      BY <2>1, <2>2 DEF ArrivalInv
  <1>7. ASSUME NEW b \in Barriers, target[b] # 0
        PROVE  /\ closes[b] <= 1
               /\ closes[b] = 1 => Closing(b)' = {}
               /\ \A x, y \in Closing(b)' : x = y
               /\ arrived'[b] >= target[b] <=> closes[b] = 1 \/ Closing(b)' # {}
    <2>1. /\ closes[b] <= 1
          /\ closes[b] = 1 => Closing(b) = {}
          /\ \A x, y \in Closing(b) : x = y
          /\ arrived[b] >= target[b] <=> closes[b] = 1 \/ Closing(b) # {}
      BY <1>7 DEF BarrierInv, ClosedOnce
    <2>2. CASE b # h
      <3>1. Closing(b)' = Closing(b) /\ arrived'[b] = arrived[b]
        BY <1>1, <1>2, <2>2 DEF Closing, Completes
      <3> QED
        BY <2>1, <3>1
    <2>3. CASE b = h
      <3>1. Closing(b)' = IF arrived[b] + 1 = target[b] THEN Closing(b) \cup {v} ELSE Closing(b)
        BY <1>1, <1>2, <2>3 DEF Closing, Completes
      <3>2. arrived'[b] = arrived[b] + 1 /\ arrived[b] \in Nat /\ target[b] \in Nat
        BY <1>1, <1>2, <2>3
      <3> QED
        BY <2>1, <3>1, <3>2
    <2> QED
      BY <2>2, <2>3
  <1>8. ClosedOnce'
    BY <1>1, <1>7 DEF ClosedOnce
  <1> QED
    BY <1>3, <1>4, <1>6, <1>8 DEF BarrierInv

(* Only the arrival with the target's index closes the channel.            *)
LEMMA CloseDoneKeeps ==
    ASSUME BarrierInv, NEW v \in Vu, CloseDone(v)
    PROVE  BarrierInv'
  <1> USE VuAssumption DEF None, Barriers, NoBarrier
  <1> DEFINE h == held[v]
  <1>1. /\ pc[v] = "added" /\ h \in Barriers
        /\ closes' = IF Completes(v) THEN [closes EXCEPT ![h] = closes[h] + 1] ELSE closes
        /\ pc' = [pc EXCEPT ![v] = "select"]
        /\ UNCHANGED <<registry, target, arrived, held, index>>
    BY DEF CloseDone, BarrierInv, TypeOK, callVars
  <1>2. /\ arrived \in [Barriers -> Nat] /\ index \in [Vu -> Nat] /\ target \in [Barriers -> Nat]
        /\ closes \in [Barriers -> Nat]
        /\ pc \in [Vu -> {"script", "added", "select"}]
    BY DEF BarrierInv, TypeOK
  <1>3. TypeOK'
    BY <1>1 DEF BarrierInv, TypeOK, CloseDone, callVars
  <1>4. RegistryInv'
    BY <1>1 DEF BarrierInv, RegistryInv, OneBarrierPerName
  <1>5. ArrivalInv'
    <2>1. target[h] # 0
      <3>1. index[v] > 0 /\ index[v] <= arrived[h]
        BY <1>1 DEF BarrierInv, ArrivalInv
      <3>2. arrived[h] # 0
        BY <1>1, <1>2, <3>1
      <3> QED
        BY <1>1, <3>2 DEF BarrierInv, ArrivalInv
    <2> QED
      BY <1>1, <1>2, <2>1 DEF BarrierInv, ArrivalInv
  <1>6. ASSUME NEW b \in Barriers, target[b] # 0
        PROVE  /\ closes'[b] <= 1
               /\ closes'[b] = 1 => Closing(b)' = {}
               /\ \A x, y \in Closing(b)' : x = y
               /\ arrived[b] >= target[b] <=> closes'[b] = 1 \/ Closing(b)' # {}
    <2>1. /\ closes[b] <= 1
          /\ closes[b] = 1 => Closing(b) = {}
          /\ \A x, y \in Closing(b) : x = y
          /\ arrived[b] >= target[b] <=> closes[b] = 1 \/ Closing(b) # {}
      BY <1>6 DEF BarrierInv, ClosedOnce
    <2>2. Closing(b)' = Closing(b) \ {v}
      BY <1>1, <1>2 DEF Closing, Completes
    <2>3. CASE v \in Closing(b)
      <3>1. Completes(v) /\ b = h
        BY <2>3 DEF Closing
      <3>2. closes[b] = 0 /\ closes'[b] = 1 /\ Closing(b)' = {}
        <4>1. closes[b] = 0
          BY <1>2, <2>1, <2>3
        <4>2. closes'[b] = 1
          BY <1>1, <1>2, <3>1, <4>1
        <4>3. Closing(b)' = {}
          BY <2>1, <2>2, <2>3
        <4> QED
          BY <4>1, <4>2, <4>3
      <3> QED
        BY <2>1, <2>3, <3>2
    <2>4. CASE v \notin Closing(b)
      <3>1. Closing(b)' = Closing(b)
        BY <2>2, <2>4
      <3>2. closes'[b] = closes[b]
        <4>1. ~(Completes(v) /\ b = h)
          BY <1>1, <2>4 DEF Closing
        <4> QED
          BY <1>1, <1>2, <4>1
      <3> QED
        BY <2>1, <3>1, <3>2
    <2> QED
      BY <2>3, <2>4
  <1>7. ClosedOnce'
    BY <1>1, <1>6 DEF ClosedOnce
  <1> QED
    BY <1>3, <1>4, <1>5, <1>7 DEF BarrierInv

(* Leaving, with or without the rendezvous, leaves the Barrier as it is.   *)
LEMMA LeaveKeeps ==
    ASSUME BarrierInv, NEW v \in Vu, Done(v) \/ TimerFires(v)
    PROVE  BarrierInv'
  <1> USE VuAssumption DEF None, Barriers, NoBarrier
  <1>1. /\ pc[v] = "select" /\ pc' = [pc EXCEPT ![v] = "script"]
        /\ \/ result' = [result EXCEPT ![v] = "ok"]
           \/ result' = [result EXCEPT ![v] = "timeout"]
        /\ UNCHANGED <<registry, target, arrived, closes, held, index, bounded>>
    BY DEF Done, TimerFires, ArrivalKept, objectVars, callVars
  <1>2. TypeOK'
    BY <1>1 DEF BarrierInv, TypeOK
  <1>3. RegistryInv'
    BY <1>1 DEF BarrierInv, RegistryInv, OneBarrierPerName
  <1>4. ArrivalInv'
    BY <1>1 DEF BarrierInv, TypeOK, ArrivalInv
  <1>5. ASSUME NEW b \in Barriers PROVE Closing(b)' = Closing(b)
    BY <1>1 DEF BarrierInv, TypeOK, Closing, Completes
  <1>6. ClosedOnce'
    BY <1>1, <1>5 DEF BarrierInv, ClosedOnce
  <1> QED
    BY <1>2, <1>3, <1>4, <1>6 DEF BarrierInv

----------------------------------------------------------------------------
\* The theorems.

(* An empty registry satisfies the invariant.                              *)
LEMMA BarrierInit == Init => BarrierInv
  <1> USE VuAssumption DEF None, Barriers, NoBarrier
  <1> SUFFICES ASSUME Init PROVE BarrierInv
    OBVIOUS
  <1>1. TypeOK
    BY DEF Init, TypeOK
  <1>2. RegistryInv
    BY DEF Init, RegistryInv, OneBarrierPerName
  <1>3. ArrivalInv
    BY DEF Init, ArrivalInv
  <1>4. ClosedOnce
    BY DEF Init, ClosedOnce
  <1> QED
    BY <1>1, <1>2, <1>3, <1>4 DEF BarrierInv

(* Every step keeps it.                                                    *)
LEMMA BarrierStep == BarrierInv /\ [Next]_vars => BarrierInv'
  <1> SUFFICES ASSUME BarrierInv, [Next]_vars PROVE BarrierInv'
    OBVIOUS
  <1>1. CASE UNCHANGED vars
    BY <1>1 DEF vars, objectVars, callVars, BarrierInv, TypeOK, RegistryInv, OneBarrierPerName,
                ArrivalInv, ClosedOnce, Closing, Completes
  <1> QED
    BY <1>1, FindKeeps, CreateKeeps, ArriveKeeps, CloseDoneKeeps, LeaveKeeps DEF Next

(* The registry, the Barriers and the calls always have their types.       *)
THEOREM TypeCorrect == Spec => []TypeOK
  <1>1. BarrierInv => TypeOK
    BY DEF BarrierInv
  <1> QED
    BY <1>1, BarrierInit, BarrierStep, PTL DEF Spec

(* All callers of a name share the Barrier the registry has for it.        *)
THEOREM NeverSplit == Spec => []OneBarrierPerName
  <1>1. BarrierInv => OneBarrierPerName
    BY DEF BarrierInv, RegistryInv
  <1> QED
    BY <1>1, BarrierInit, BarrierStep, PTL DEF Spec

(* close(b.done) runs exactly once per completed Barrier: it cannot panic, *)
(* and it is not forgotten.                                                *)
THEOREM DoneClosedOnce == Spec => []ClosedOnce
  <1>1. BarrierInv => ClosedOnce
    BY DEF BarrierInv
  <1> QED
    BY <1>1, BarrierInit, BarrierStep, PTL DEF Spec

----------------------------------------------------------------------------
\* The refinement.

(* What the goal, the count and the party of a name are mapped to.         *)
Goal(n)  == IF registry[n] = None THEN 0 ELSE target[<<n, registry[n]>>]
Came(n)  == IF registry[n] = None THEN 0 ELSE arrived[<<n, registry[n]>>]
Party(n) == [v \in Vu |-> Standing(n, v)]

(* The steps of the promise, in terms of the mapping.                      *)
PromiseSteps(n) ==
    \/ Goal(n) = 0 /\ Goal(n)' \in Nat \ {0} /\ UNCHANGED <<Came(n), Party(n)>>
    \/ \E v \in Vu :
         /\ UNCHANGED Goal(n)
         /\ \/ /\ Goal(n) # 0 /\ Party(n)[v] # "in" /\ Came(n)' = Came(n) + 1
               /\ Party(n)' = [Party(n) EXCEPT ![v] = "in"]
            \/ /\ Party(n)[v] = "in" /\ Came(n) >= Goal(n) /\ UNCHANGED Came(n)
               /\ Party(n)' = [Party(n) EXCEPT ![v] = "passed"]
            \/ /\ Party(n)[v] = "in" /\ UNCHANGED Came(n)
               /\ Party(n)' = [Party(n) EXCEPT ![v] = "gaveUp"]
            \/ /\ Party(n)[v] \in {"passed", "gaveUp"} /\ UNCHANGED Came(n)
               /\ Party(n)' = [Party(n) EXCEPT ![v] = "out"]
    \/ UNCHANGED <<Goal(n), Came(n), Party(n)>>

(* They are the steps of Rendezvous under the mapping.                     *)
LEMMA PromiseStepsAre ==
    ASSUME NEW n \in Name
    PROVE  PromiseSteps(n) => Promise(n)!Next \/ UNCHANGED Promise(n)!rendezvousVars
  BY DEF PromiseSteps, Goal, Came, Party, Promise!Next, Promise!Announce, Promise!Join,
         Promise!Pass, Promise!GiveUp, Promise!GoOn, Promise!rendezvousVars

(* A step of one virtual user moves nobody else.                           *)
LEMMA OnlyOneMoves ==
    ASSUME BarrierInv, NEW n \in Name, NEW v \in Vu,
           \A w \in Vu \ {v} : UNCHANGED <<held[w], pc[w], result[w]>>
    PROVE  /\ Party(n)' = [Party(n) EXCEPT ![v] = Standing(n, v)']
           /\ Standing(n, v)' = Standing(n, v) => Party(n)' = Party(n)
           /\ Party(n)[v] = Standing(n, v)
  <1>1. \A w \in Vu \ {v} : Standing(n, w)' = Standing(n, w)
    BY DEF Standing
  <1> QED
    BY <1>1 DEF Party

(* Every step of the code is a step of the promise of each name.           *)
LEMMA PromiseStep ==
    ASSUME BarrierInv, [Next]_vars, NEW n \in Name
    PROVE  PromiseSteps(n)
  <1> USE VuAssumption DEF None, Barriers, NoBarrier
  <1>1. CASE UNCHANGED vars
    BY <1>1 DEF vars, objectVars, PromiseSteps, Goal, Came, Party, Standing
  <1>2. ASSUME NEW v \in Vu, NEW m \in Name, NEW c \in Count, Find(v, m, c)
        PROVE  PromiseSteps(n)
    <2>1. /\ UNCHANGED <<registry, target, arrived, pc>> /\ pc[v] = "script"
          /\ held' = [held EXCEPT ![v] = <<m, registry[m]>>]
          /\ result' = [result EXCEPT ![v] = None]
      BY <1>2 DEF Find, objectVars
    <2>2. UNCHANGED <<Goal(n), Came(n)>>
      BY <2>1 DEF Goal, Came
    <2>3. \A w \in Vu \ {v} : UNCHANGED <<held[w], pc[w], result[w]>>
      BY <2>1 DEF BarrierInv, TypeOK
    <2>4. Standing(n, v)' = "out" /\ Standing(n, v) \in {"out", "passed", "gaveUp"}
      BY <2>1 DEF BarrierInv, TypeOK, Standing
    <2> QED
      BY <2>2, <2>3, <2>4, OnlyOneMoves DEF PromiseSteps
  <1>3. ASSUME NEW v \in Vu, NEW m \in Name, NEW c \in Count, Create(v, m, c)
        PROVE  PromiseSteps(n)
    <2>1. /\ UNCHANGED <<arrived, pc>> /\ pc[v] = "script"
          /\ registry[m] = None /\ c \in Nat \ {0}
          /\ registry' = [registry EXCEPT ![m] = v]
          /\ target' = [target EXCEPT ![<<m, v>>] = c]
          /\ held' = [held EXCEPT ![v] = <<m, v>>]
          /\ result' = [result EXCEPT ![v] = None]
      BY <1>3, CountAssumption DEF Create, Known, ValidTarget
    <2>2. \A w \in Vu \ {v} : UNCHANGED <<held[w], pc[w], result[w]>>
      BY <2>1 DEF BarrierInv, TypeOK
    <2>3. Standing(n, v)' = "out" /\ Standing(n, v) \in {"out", "passed", "gaveUp"}
      BY <2>1 DEF BarrierInv, TypeOK, Standing
    <2>4. CASE n = m
      <3>1. Goal(n) = 0 /\ Goal(n)' = c
        BY <2>1, <2>4 DEF Goal, BarrierInv, TypeOK
      <3>2. Came(n) = 0 /\ Came(n)' = 0
        <4>1. target[<<m, v>>] = 0
          BY <2>1 DEF BarrierInv, TypeOK, RegistryInv
        <4>2. arrived[<<m, v>>] = 0
          BY <4>1 DEF BarrierInv, ArrivalInv
        <4> QED
          BY <2>1, <2>4, <4>2 DEF Came, BarrierInv, TypeOK
      <3>3. Standing(n, v) = "out"
        <4>1. held[v] \notin {n} \X Vu
          BY <2>1, <2>4 DEF BarrierInv, TypeOK, RegistryInv, OneBarrierPerName
        <4> QED
          BY <4>1 DEF Standing
      <3>4. Party(n)' = Party(n)
        BY <2>2, <2>3, <3>3, OnlyOneMoves
      <3> QED
        BY <2>1, <3>1, <3>2, <3>4 DEF PromiseSteps
    <2>5. CASE n # m
      <3>1. UNCHANGED <<Goal(n), Came(n)>>
        BY <2>1, <2>5 DEF Goal, Came, BarrierInv, TypeOK
      <3> QED
        BY <2>2, <2>3, <3>1, OnlyOneMoves DEF PromiseSteps
    <2> QED
      BY <2>4, <2>5
  <1>4. ASSUME NEW v \in Vu, Arrive(v)
        PROVE  PromiseSteps(n)
    <2>1. /\ UNCHANGED <<registry, target, held>>
          /\ pc[v] = "script" /\ held[v] \in Barriers
          /\ pc' = [pc EXCEPT ![v] = "added"]
          /\ arrived' = [arrived EXCEPT ![held[v]] = arrived[held[v]] + 1]
          /\ result' = [result EXCEPT ![v] = None]
      BY <1>4 DEF Arrive, BarrierInv, TypeOK
    <2>2. \A w \in Vu \ {v} : UNCHANGED <<held[w], pc[w], result[w]>>
      BY <2>1 DEF BarrierInv, TypeOK
    <2>3. UNCHANGED Goal(n)
      BY <2>1 DEF Goal
    <2>4. CASE held[v] \in {n} \X Vu
      <3>1. held[v] = <<n, registry[n]>> /\ registry[n] # None /\ registry[n] \in Vu
        BY <2>4 DEF BarrierInv, RegistryInv, OneBarrierPerName
      <3>2. Goal(n) # 0
        BY <3>1 DEF Goal, BarrierInv, TypeOK
      <3>3. Came(n)' = Came(n) + 1
        BY <2>1, <3>1 DEF Came, BarrierInv, TypeOK
      <3>4. Standing(n, v) # "in" /\ Standing(n, v)' = "in"
        BY <2>1, <2>4 DEF Standing, BarrierInv, TypeOK
      <3> QED
        BY <2>2, <2>3, <3>2, <3>3, <3>4, OnlyOneMoves DEF PromiseSteps
    <2>5. CASE held[v] \notin {n} \X Vu
      <3>1. Standing(n, v)' = Standing(n, v)
        BY <2>1, <2>5 DEF Standing
      <3>2. Came(n)' = Came(n)
        BY <2>1, <2>5 DEF Came, BarrierInv, TypeOK
      <3> QED
        BY <2>2, <2>3, <3>1, <3>2, OnlyOneMoves DEF PromiseSteps
    <2> QED
      BY <2>4, <2>5
  <1>5. ASSUME NEW v \in Vu, CloseDone(v)
        PROVE  PromiseSteps(n)
    <2>1. /\ UNCHANGED <<registry, target, arrived, held, result>>
          /\ pc[v] = "added" /\ pc' = [pc EXCEPT ![v] = "select"]
      BY <1>5 DEF CloseDone
    <2>2. \A w \in Vu \ {v} : UNCHANGED <<held[w], pc[w], result[w]>>
      BY <2>1 DEF BarrierInv, TypeOK
    <2>3. UNCHANGED <<Goal(n), Came(n)>> /\ Standing(n, v)' = Standing(n, v)
      BY <2>1 DEF Goal, Came, Standing, BarrierInv, TypeOK
    <2> QED
      BY <2>2, <2>3, OnlyOneMoves DEF PromiseSteps
  <1>6. ASSUME NEW v \in Vu, Done(v) \/ TimerFires(v)
        PROVE  PromiseSteps(n)
    <2>1. /\ UNCHANGED <<registry, target, arrived, held>>
          /\ pc[v] = "select" /\ pc' = [pc EXCEPT ![v] = "script"]
          /\ \/ closes[held[v]] # 0 /\ result' = [result EXCEPT ![v] = "ok"]
             \/ result' = [result EXCEPT ![v] = "timeout"]
      BY <1>6 DEF Done, TimerFires, ArrivalKept, objectVars
    <2>2. \A w \in Vu \ {v} : UNCHANGED <<held[w], pc[w], result[w]>>
      BY <2>1 DEF BarrierInv, TypeOK
    <2>3. UNCHANGED <<Goal(n), Came(n)>>
      BY <2>1 DEF Goal, Came
    <2>4. CASE held[v] \notin {n} \X Vu
      <3>1. Standing(n, v)' = Standing(n, v)
        BY <2>1, <2>4 DEF Standing
      <3> QED
        BY <2>2, <2>3, <3>1, OnlyOneMoves DEF PromiseSteps
    <2>5. CASE held[v] \in {n} \X Vu
      <3>1. held[v] = <<n, registry[n]>> /\ registry[n] # None /\ held[v] \in Barriers
        BY <2>5 DEF BarrierInv, RegistryInv, OneBarrierPerName
      <3>2. Standing(n, v) = "in"
        BY <2>1, <2>5 DEF Standing
      <3>3. CASE closes[held[v]] # 0 /\ result' = [result EXCEPT ![v] = "ok"]
        <4>1. target[held[v]] # 0
          BY <3>1, <3>3 DEF BarrierInv, ArrivalInv
        <4>2. closes[held[v]] = 1
          <5>1. closes[held[v]] \in Nat /\ closes[held[v]] <= 1
            BY <3>1, <4>1 DEF BarrierInv, ClosedOnce, TypeOK
          <5> QED
            BY <3>3, <5>1
        <4>3. Came(n) >= Goal(n)
          BY <3>1, <4>1, <4>2 DEF BarrierInv, ClosedOnce, Came, Goal
        <4>4. Standing(n, v)' = "passed"
          BY <2>1, <2>5, <3>3 DEF Standing, BarrierInv, TypeOK
        <4> QED
          BY <2>2, <2>3, <3>2, <4>3, <4>4, OnlyOneMoves DEF PromiseSteps
      <3>4. CASE result' = [result EXCEPT ![v] = "timeout"]
        <4>1. Standing(n, v)' = "gaveUp"
          BY <2>1, <2>5, <3>4 DEF Standing, BarrierInv, TypeOK
        <4> QED
          BY <2>2, <2>3, <3>2, <4>1, OnlyOneMoves DEF PromiseSteps
      <3> QED
        BY <2>1, <3>3, <3>4
    <2> QED
      BY <2>4, <2>5
  <1> QED
    BY <1>1, <1>2, <1>3, <1>4, <1>5, <1>6 DEF Next

(* The registry and the Barriers of internal/coord implement, for every    *)
(* name, the rendezvous of Rendezvous.                                     *)
THEOREM PromiseKept == Spec => KeepsPromise
  <1>1. Init => \A n \in Name : Promise(n)!Init
    BY VuAssumption DEF Init, Promise!Init, Standing, None, NoBarrier
  <1>2. BarrierInv /\ [Next]_vars =>
          [\A n \in Name : Promise(n)!Next \/ UNCHANGED Promise(n)!rendezvousVars]_vars
    BY PromiseStep, PromiseStepsAre
  <1> QED
    BY <1>1, <1>2, BarrierInit, BarrierStep, PTL DEF Spec, KeepsPromise
=============================================================================
