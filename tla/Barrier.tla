------------------------------ MODULE Barrier ------------------------------
(***************************************************************************)
(* The barriers of a k6 process, internal/coord/barrier.go, as virtual     *)
(* users reach them through bgp.barrier(name, count).arrive(timeout).      *)
(*                                                                         *)
(* Registry.Barrier is one critical section of Registry.mu.  Arriving is   *)
(* an atomic add, then, for the arrival that completes the target, the     *)
(* close of the done channel, then a select on that channel and a timer;   *)
(* between these steps any other virtual user may run.                     *)
(*                                                                         *)
(* A Barrier object is identified by its name and the virtual user whose   *)
(* call created it, so that two objects of one name could be told apart.   *)
(***************************************************************************)
EXTENDS Integers

CONSTANTS
    Vu,             \* virtual users
    Name,           \* barrier names
    Count,          \* counts that scripts pass
    MaxArrivals     \* bound: calls of arrive on one Barrier

ASSUME CountAssumption == Count \subseteq Int
ASSUME VuAssumption == "none" \notin Vu

VARIABLES
    registry,   \* Registry.barriers: the creator of the Barrier of a name
    target,     \* Barrier.target
    arrived,    \* Barrier.arrived
    closes,     \* close(Barrier.done) calls; a second one would panic
    pc,         \* where each virtual user is
    held,       \* the Barrier its last call of bgp.barrier returned
    index,      \* what Barrier.arrived.Add returned to its last arrive
    bounded,    \* whether its last arrive was given a timeout
    result      \* how its last arrive ended

objectVars == <<target, arrived, closes>>
callVars   == <<index, bounded>>
vars == <<registry, objectVars, pc, held, callVars, result>>

None      == "none"
Barriers  == Name \X Vu
NoBarrier == <<None, None>>

(* "added" is after Barrier.arrived.Add, "select" in the receive or the    *)
(* select on Barrier.done.                                                 *)
TypeOK ==
    /\ registry \in [Name -> Vu \cup {None}]
    /\ target \in [Barriers -> Nat]
    /\ \A n \in Name : registry[n] # None => target[<<n, registry[n]>>] # 0
    /\ arrived \in [Barriers -> Nat]
    /\ closes \in [Barriers -> Nat]
    /\ pc \in [Vu -> {"script", "added", "select"}]
    /\ held \in [Vu -> Barriers \cup {NoBarrier}]
    /\ index \in [Vu -> Nat]
    /\ bounded \in [Vu -> BOOLEAN]
    /\ result \in [Vu -> {None, "ok", "timeout"}]
    /\ \A v \in Vu : pc[v] # "script" => held[v] # NoBarrier /\ result[v] = None

Init ==
    /\ registry = [n \in Name |-> None]
    /\ target = [b \in Barriers |-> 0]
    /\ arrived = [b \in Barriers |-> 0]
    /\ closes = [b \in Barriers |-> 0]
    /\ pc = [v \in Vu |-> "script"]
    /\ held = [v \in Vu |-> NoBarrier]
    /\ index = [v \in Vu |-> 0]
    /\ bounded = [v \in Vu |-> FALSE]
    /\ result = [v \in Vu |-> None]

----------------------------------------------------------------------------
\* Registry.Barrier.

\* Mutant: a Barrier is found by name and target, not by name alone.
KnownByTarget(n, c) == registry[n] # None /\ target[<<n, registry[n]>>] = c

(* Whether the registry has a Barrier for the call: the count asked for    *)
(* does not matter, not even an invalid one.                               *)
Known(n, c) == registry[n] # None

\* Mutant: the target is not checked.
AnyTarget(c) == TRUE

(* NewBarrier's check.                                                     *)
ValidTarget(c) == c > 0

Find(v, n, c) ==
    /\ pc[v] = "script"
    /\ Known(n, c)
    /\ held' = [held EXCEPT ![v] = <<n, registry[n]>>]
    /\ result' = [result EXCEPT ![v] = None]
    /\ UNCHANGED <<registry, objectVars, pc, callVars>>

Create(v, n, c) ==
    /\ pc[v] = "script"
    /\ ~Known(n, c)
    /\ ValidTarget(c)
    /\ registry' = [registry EXCEPT ![n] = v]
    /\ target' = [target EXCEPT ![<<n, v>>] = c]
    /\ held' = [held EXCEPT ![v] = <<n, v>>]
    /\ result' = [result EXCEPT ![v] = None]
    /\ UNCHANGED <<arrived, closes, pc, callVars>>

----------------------------------------------------------------------------
\* Barrier.ArriveTimeout.

(* The arrival is counted; a call without a timeout is not bounded.        *)
Arrive(v) ==
    /\ pc[v] = "script"
    /\ held[v] # NoBarrier
    /\ arrived[held[v]] < MaxArrivals
    /\ arrived' = [arrived EXCEPT ![held[v]] = @ + 1]
    /\ index' = [index EXCEPT ![v] = arrived[held[v]] + 1]
    /\ \E d \in BOOLEAN : bounded' = [bounded EXCEPT ![v] = d]
    /\ pc' = [pc EXCEPT ![v] = "added"]
    /\ result' = [result EXCEPT ![v] = None]
    /\ UNCHANGED <<registry, target, closes, held>>

\* Mutant: the counter is read again instead of using what Add returned.
CompletesByReload(v) == arrived[held[v]] = target[held[v]]

\* Mutant: the arrival after the target completes the rendezvous.
CompletesLate(v) == index[v] = target[held[v]] + 1

(* The arrival that completes the rendezvous.                              *)
Completes(v) == index[v] = target[held[v]]

CloseDone(v) ==
    /\ pc[v] = "added"
    /\ closes' = IF Completes(v) THEN [closes EXCEPT ![held[v]] = @ + 1] ELSE closes
    /\ pc' = [pc EXCEPT ![v] = "select"]
    /\ UNCHANGED <<registry, target, arrived, held, callVars, result>>

Done(v) ==
    /\ pc[v] = "select"
    /\ closes[held[v]] # 0
    /\ pc' = [pc EXCEPT ![v] = "script"]
    /\ result' = [result EXCEPT ![v] = "ok"]
    /\ UNCHANGED <<registry, objectVars, held, callVars>>

\* Mutant: a call that gives up takes its arrival back.
ArrivalWithdrawn(v) == [arrived EXCEPT ![held[v]] = @ - 1]

(* What a timeout leaves of the count: the arrival is not withdrawn.       *)
ArrivalKept(v) == arrived

(* The timer may win the select even when done is closed as well.          *)
TimerFires(v) ==
    /\ pc[v] = "select"
    /\ bounded[v]
    /\ arrived' = ArrivalKept(v)
    /\ pc' = [pc EXCEPT ![v] = "script"]
    /\ result' = [result EXCEPT ![v] = "timeout"]
    /\ UNCHANGED <<registry, target, closes, held, callVars>>

----------------------------------------------------------------------------
Next ==
    \E v \in Vu :
        \/ \E n \in Name, c \in Count : Find(v, n, c) \/ Create(v, n, c)
        \/ Arrive(v) \/ CloseDone(v) \/ Done(v) \/ TimerFires(v)

(* A virtual user that can run does run once it is inside arrive.  Nothing *)
(* makes a script call arrive, and no timer has to fire.                   *)
Fairness == \A v \in Vu : WF_vars(CloseDone(v)) /\ WF_vars(Done(v))

Spec == Init /\ [][Next]_vars
FairSpec == Spec /\ Fairness

----------------------------------------------------------------------------
\* Safety.

(* All virtual users that ask for a name share the Barrier the registry    *)
(* has for it, whatever counts they pass: a rendezvous is never split.     *)
OneBarrierPerName ==
    \A v \in Vu, n \in Name : held[v] \in {n} \X Vu => held[v] = <<n, registry[n]>>

(* The done channel is closed by exactly one arrival, however the atomic   *)
(* adds and the closes of different virtual users interleave, so that      *)
(* close never panics; and it is closed, or about to be, exactly when the  *)
(* target has been reached.                                                *)
Closing(b) == {v \in Vu : pc[v] = "added" /\ held[v] = b /\ Completes(v)}

ClosedOnce ==
    \A b \in Barriers : target[b] # 0 =>
        /\ closes[b] <= 1
        /\ closes[b] = 1 => Closing(b) = {}
        /\ \A v, w \in Closing(b) : v = w
        /\ arrived[b] >= target[b] <=> closes[b] = 1 \/ Closing(b) # {}

----------------------------------------------------------------------------
\* The promise of a name.

Standing(n, v) ==
    IF held[v] \notin {n} \X Vu THEN "out"
    ELSE IF pc[v] # "script" THEN "in"
    ELSE IF result[v] = "ok" THEN "passed"
    ELSE IF result[v] = "timeout" THEN "gaveUp"
    ELSE "out"

Promise(n) == INSTANCE Rendezvous WITH
    goal  <- IF registry[n] = None THEN 0 ELSE target[<<n, registry[n]>>],
    count <- IF registry[n] = None THEN 0 ELSE arrived[<<n, registry[n]>>],
    party <- [v \in Vu |-> Standing(n, v)]

(* The registry and the Barriers implement the rendezvous of every name.   *)
KeepsPromise ==
    /\ \A n \in Name : Promise(n)!Init
    /\ [][\A n \in Name :
            Promise(n)!Next \/ UNCHANGED Promise(n)!rendezvousVars]_vars

(* Under FairSpec: once the target has been reached, by calls that have    *)
(* given up as well, everybody inside arrive gets out, no timer needed.    *)
EverybodyReleased ==
    \A v \in Vu : (pc[v] # "script" /\ arrived[held[v]] >= target[held[v]])
                    ~> pc[v] = "script"
=============================================================================
