----------------------------- MODULE Rendezvous -----------------------------
(***************************************************************************)
(* What bgp.barrier(name, count) promises the virtual users of a script,   *)
(* for one name: nobody passes before `goal' calls of arrive have been     *)
(* made, a call that gives up still counts, and the goal never changes     *)
(* once somebody has named it.                                             *)
(***************************************************************************)
EXTENDS Naturals

CONSTANT Vu

VARIABLES
    goal,   \* how many arrivals complete the rendezvous, 0 while unnamed
    count,  \* arrivals so far
    party   \* where each virtual user stands

rendezvousVars == <<goal, count, party>>

Init == goal = 0 /\ count = 0 /\ party = [v \in Vu |-> "out"]

Announce ==
    /\ goal = 0
    /\ goal' \in Nat \ {0}
    /\ UNCHANGED <<count, party>>

Join(v) ==
    /\ goal # 0
    /\ party[v] # "in"
    /\ count' = count + 1
    /\ party' = [party EXCEPT ![v] = "in"]
    /\ UNCHANGED goal

Pass(v) ==
    /\ party[v] = "in"
    /\ count >= goal
    /\ party' = [party EXCEPT ![v] = "passed"]
    /\ UNCHANGED <<goal, count>>

GiveUp(v) ==
    /\ party[v] = "in"
    /\ party' = [party EXCEPT ![v] = "gaveUp"]
    /\ UNCHANGED <<goal, count>>

(* A virtual user goes on with its script.                                 *)
GoOn(v) ==
    /\ party[v] \in {"passed", "gaveUp"}
    /\ party' = [party EXCEPT ![v] = "out"]
    /\ UNCHANGED <<goal, count>>

Next == Announce \/ \E v \in Vu : Join(v) \/ Pass(v) \/ GiveUp(v) \/ GoOn(v)

Spec == Init /\ [][Next]_rendezvousVars
=============================================================================
