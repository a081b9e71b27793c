-------------------------- MODULE CpuProfileProofs --------------------------
(***************************************************************************)
(* Proofs about CpuProfile: one profile at a time, for any number of calls *)
(* and files.                                                              *)
(***************************************************************************)
EXTENDS CpuProfile, TLAPS

----------------------------------------------------------------------------
\* The strengthening.

(* active.mu is held from the check of active.on to the return.            *)
Holds(c) == pc[c] \in {"check", "create", "start", "giveUp", "unlock"}
LockInv == \A c \in Call : mu = c <=> Holds(c)

(* What the holder of active.mu knows about the guard and its file.        *)
StartInv ==
    \A c \in Call : /\ pc[c] \in {"create", "start"} => ~on
                    /\ pc[c] = "start" => file[path[c]] = c /\ c \in open
                    /\ pc[c] \notin {"start", "unlock", "started"} => c \notin open

(* The steps of the stop function, which only a started call has.          *)
StopInv ==
    \A c \in Call :
        /\ once[c] # "unused" => Started(c)
        /\ once[c] \in {"closeFile", "writeHeap", "release", "done"} => profiler # c
        /\ once[c] \in {"writeHeap", "release", "done"} => c \notin open
        /\ \A k \in Caller : stopper[c][k] = "returned" => once[c] = "done"

(* One conjunct of OneProfile each.                                        *)
ActiveInv ==
    /\ \A c, d \in Call : Active(c) /\ Active(d) => c = d
    /\ on <=> \E c \in Call : Active(c)
    /\ \A c \in Call : Active(c) => file[path[c]] = c
    /\ \A c \in Call : profiler = c => Active(c) /\ c \in open

IInv == TypeOK /\ LockInv /\ StartInv /\ StopInv /\ ActiveInv

----------------------------------------------------------------------------
LEMMA InitHolds == Init => IInv
<1> SUFFICES ASSUME Init PROVE IInv
  OBVIOUS
<1> USE DEF Init, Nobody, Caller
<1>1. TypeOK
  BY DEF TypeOK, StopSteps
<1>2. \A c \in Call : pc[c] = "idle" /\ once[c] = "unused" /\ mu # c /\ profiler # c
  BY CallAssumption
<1>3. LockInv
  BY <1>2 DEF LockInv, Holds
<1>4. StartInv
  BY <1>2 DEF StartInv
<1>5. StopInv
  BY <1>2 DEF StopInv
<1>6. ActiveInv
  BY <1>2 DEF ActiveInv, Active, Started
<1>7. QED
  BY <1>1, <1>3, <1>4, <1>5, <1>6 DEF IInv

LEMMA TypeHolds == TypeOK /\ [Next]_vars => TypeOK'
<1> SUFFICES ASSUME TypeOK, [Next]_vars PROVE TypeOK'
  OBVIOUS
<1> USE DEF TypeOK, Goto, Nobody, StopSteps, Caller, configVars, guardVars, fileVars, stopVars
<1>1. ASSUME NEW c \in Call, Begin(c) PROVE TypeOK'
  BY <1>1, CallAssumption DEF Begin
<1>2. ASSUME NEW c \in Call, Stat(c) PROVE TypeOK'
  BY <1>2, CallAssumption DEF Stat
<1>3. ASSUME NEW c \in Call, Lock(c) PROVE TypeOK'
  BY <1>3, CallAssumption DEF Lock
<1>4. ASSUME NEW c \in Call, Check(c) PROVE TypeOK'
  BY <1>4, CallAssumption DEF Check
<1>5. ASSUME NEW c \in Call, Create(c) PROVE TypeOK'
  <2>1. pc' \in [Call -> {"idle", "stat", "lock", "check", "create", "start",
                        "giveUp", "unlock", "refused", "started"}]
    <3>1. CASE Goto(c, "start")
      BY <3>1
    <3>2. CASE Goto(c, "giveUp")
      BY <3>2
    <3>3. QED
      BY <1>5, <3>1, <3>2 DEF Create
  <2>2. file' \in [Path -> Call \cup {Nobody}] /\ open' \subseteq Call
    BY <1>5 DEF Create
  <2>3. QED
    BY <1>5, <2>1, <2>2 DEF Create
<1>6. ASSUME NEW c \in Call, Start(c) PROVE TypeOK'
  BY <1>6, CallAssumption DEF Start
<1>7. ASSUME NEW c \in Call, Return(c) PROVE TypeOK'
  BY <1>7, CallAssumption DEF Return
<1>8. ASSUME NEW c \in Call, StopProfile(c) PROVE TypeOK'
  BY <1>8, CallAssumption DEF StopProfile
<1>9. ASSUME NEW c \in Call, CloseFile(c) PROVE TypeOK'
  BY <1>9, CallAssumption DEF CloseFile
<1>10. ASSUME NEW c \in Call, WriteHeap(c) PROVE TypeOK'
  <2>1. heap' \in [Path -> Call \cup {Nobody}]
    <3>1. [heap EXCEPT ![path[c]] = c] \in [Path -> Call \cup {Nobody}]
      OBVIOUS
    <3>2. QED
      BY <1>10, <3>1 DEF WriteHeap
  <2>2. once' \in [Call -> {"unused", "done"} \cup StopSteps]
    BY <1>10 DEF WriteHeap
  <2>3. QED
    BY <1>10, <2>1, <2>2 DEF WriteHeap
<1>11. ASSUME NEW c \in Call, Release(c) PROVE TypeOK'
  BY <1>11, CallAssumption DEF Release
<1>12. ASSUME NEW c \in Call, NEW k \in Caller, Stop(c, k) PROVE TypeOK'
  BY <1>12 DEF Stop, Entered
<1>13. CASE UNCHANGED vars
  BY <1>13 DEF vars
<1>14. QED
  BY <1>1, <1>2, <1>3, <1>4, <1>5, <1>6, <1>7,
     <1>8, <1>9, <1>10, <1>11, <1>12, <1>13
  DEF Next, Starting, Stopping

LEMMA LockHolds == IInv /\ [Next]_vars => LockInv'
<1> SUFFICES ASSUME IInv, [Next]_vars PROVE LockInv'
  OBVIOUS
<1> USE DEF IInv, LockInv, Holds, TypeOK, Goto, Nobody, guardVars
<1>1. ASSUME NEW c \in Call, Begin(c) PROVE LockInv'
  BY <1>1, CallAssumption DEF Begin
<1>2. ASSUME NEW c \in Call, Stat(c) PROVE LockInv'
  BY <1>2, CallAssumption DEF Stat
<1>3. ASSUME NEW c \in Call, Lock(c) PROVE LockInv'
  BY <1>3, CallAssumption DEF Lock
<1>4. ASSUME NEW c \in Call, Check(c) PROVE LockInv'
  BY <1>4, CallAssumption DEF Check
<1>5. ASSUME NEW c \in Call, Create(c) PROVE LockInv'
  BY <1>5, CallAssumption DEF Create
<1>6. ASSUME NEW c \in Call, Start(c) PROVE LockInv'
  BY <1>6, CallAssumption DEF Start
<1>7. ASSUME NEW c \in Call, Return(c) PROVE LockInv'
  BY <1>7, CallAssumption DEF Return
<1>8. ASSUME NEW c \in Call, StopProfile(c) PROVE LockInv'
  BY <1>8, CallAssumption DEF StopProfile
<1>9. ASSUME NEW c \in Call, CloseFile(c) PROVE LockInv'
  BY <1>9, CallAssumption DEF CloseFile
<1>10. ASSUME NEW c \in Call, WriteHeap(c) PROVE LockInv'
  BY <1>10, CallAssumption DEF WriteHeap
<1>11. ASSUME NEW c \in Call, Release(c) PROVE LockInv'
  BY <1>11, CallAssumption DEF Release
<1>12. ASSUME NEW c \in Call, NEW k \in Caller, Stop(c, k) PROVE LockInv'
  BY <1>12 DEF Stop, Entered
<1>13. CASE UNCHANGED vars
  BY <1>13 DEF vars
<1>14. QED
  BY <1>1, <1>2, <1>3, <1>4, <1>5, <1>6, <1>7,
     <1>8, <1>9, <1>10, <1>11, <1>12, <1>13
  DEF Next, Starting, Stopping

LEMMA StartHolds == IInv /\ [Next]_vars => StartInv'
<1> SUFFICES ASSUME IInv, [Next]_vars PROVE StartInv'
  OBVIOUS
<1> USE DEF IInv, LockInv, Holds, StartInv, StopInv, Started, TypeOK, Goto,
            configVars, guardVars, fileVars
<1>1. ASSUME NEW c \in Call, Begin(c) PROVE StartInv'
  BY <1>1, CallAssumption DEF Begin
<1>2. ASSUME NEW c \in Call, Stat(c) PROVE StartInv'
  BY <1>2, CallAssumption DEF Stat
<1>3. ASSUME NEW c \in Call, Lock(c) PROVE StartInv'
  BY <1>3, CallAssumption DEF Lock
<1>4. ASSUME NEW c \in Call, Check(c) PROVE StartInv'
  BY <1>4, CallAssumption DEF Check
<1>5. ASSUME NEW c \in Call, Create(c) PROVE StartInv'
  BY <1>5, CallAssumption DEF Create
<1>6. ASSUME NEW c \in Call, Start(c) PROVE StartInv'
  BY <1>6, CallAssumption DEF Start
<1>7. ASSUME NEW c \in Call, Return(c) PROVE StartInv'
  BY <1>7, CallAssumption DEF Return
<1>8. ASSUME NEW c \in Call, StopProfile(c) PROVE StartInv'
  BY <1>8, CallAssumption DEF StopProfile
<1>9. ASSUME NEW c \in Call, CloseFile(c) PROVE StartInv'
  BY <1>9, CallAssumption DEF CloseFile
<1>10. ASSUME NEW c \in Call, WriteHeap(c) PROVE StartInv'
  BY <1>10, CallAssumption DEF WriteHeap
<1>11. ASSUME NEW c \in Call, Release(c) PROVE StartInv'
  BY <1>11, CallAssumption DEF Release
<1>12. ASSUME NEW c \in Call, NEW k \in Caller, Stop(c, k) PROVE StartInv'
  BY <1>12 DEF Stop, Entered
<1>13. CASE UNCHANGED vars
  BY <1>13 DEF vars
<1>14. QED
  BY <1>1, <1>2, <1>3, <1>4, <1>5, <1>6, <1>7,
     <1>8, <1>9, <1>10, <1>11, <1>12, <1>13
  DEF Next, Starting, Stopping

LEMMA StopHolds == IInv /\ [Next]_vars => StopInv'
<1> SUFFICES ASSUME IInv, [Next]_vars PROVE StopInv'
  OBVIOUS
<1> USE DEF IInv, StopInv, Started, TypeOK, Goto, Nobody, guardVars,
            fileVars, stopVars
<1>1. ASSUME NEW c \in Call, Begin(c) PROVE StopInv'
  BY <1>1, CallAssumption DEF Begin
<1>2. ASSUME NEW c \in Call, Stat(c) PROVE StopInv'
  BY <1>2, CallAssumption DEF Stat
<1>3. ASSUME NEW c \in Call, Lock(c) PROVE StopInv'
  BY <1>3, CallAssumption DEF Lock
<1>4. ASSUME NEW c \in Call, Check(c) PROVE StopInv'
  BY <1>4, CallAssumption DEF Check
<1>5. ASSUME NEW c \in Call, Create(c) PROVE StopInv'
  BY <1>5, CallAssumption DEF Create
<1>6. ASSUME NEW c \in Call, Start(c) PROVE StopInv'
  BY <1>6, CallAssumption DEF Start
<1>7. ASSUME NEW c \in Call, Return(c) PROVE StopInv'
  BY <1>7, CallAssumption DEF Return
<1>8. ASSUME NEW c \in Call, StopProfile(c) PROVE StopInv'
  BY <1>8, CallAssumption DEF StopProfile
<1>9. ASSUME NEW c \in Call, CloseFile(c) PROVE StopInv'
  BY <1>9, CallAssumption DEF CloseFile
<1>10. ASSUME NEW c \in Call, WriteHeap(c) PROVE StopInv'
  BY <1>10, CallAssumption DEF WriteHeap
<1>11. ASSUME NEW c \in Call, Release(c) PROVE StopInv'
  BY <1>11, CallAssumption DEF Release
<1>12. ASSUME NEW c \in Call, NEW k \in Caller, Stop(c, k) PROVE StopInv'
  BY <1>12 DEF Stop, Entered
<1>13. CASE UNCHANGED vars
  BY <1>13 DEF vars
<1>14. QED
  BY <1>1, <1>2, <1>3, <1>4, <1>5, <1>6, <1>7,
     <1>8, <1>9, <1>10, <1>11, <1>12, <1>13
  DEF Next, Starting, Stopping

LEMMA ActiveHolds == IInv /\ [Next]_vars => ActiveInv'
<1> SUFFICES ASSUME IInv, [Next]_vars PROVE ActiveInv'
  OBVIOUS
<1> USE DEF IInv, StartInv, StopInv, ActiveInv, Active, Started, TypeOK,
            Goto, Nobody, StopSteps, Caller, configVars, guardVars, fileVars, stopVars
<1>1. ASSUME NEW c \in Call, Begin(c) PROVE ActiveInv'
  BY <1>1, CallAssumption DEF Begin
<1>2. ASSUME NEW c \in Call, Stat(c) PROVE ActiveInv'
  BY <1>2, CallAssumption DEF Stat
<1>3. ASSUME NEW c \in Call, Lock(c) PROVE ActiveInv'
  BY <1>3, CallAssumption DEF Lock
<1>4. ASSUME NEW c \in Call, Check(c) PROVE ActiveInv'
  BY <1>4, CallAssumption DEF Check
<1>5. ASSUME NEW c \in Call, Create(c) PROVE ActiveInv'
  BY <1>5, CallAssumption DEF Create
<1>6. ASSUME NEW c \in Call, Start(c) PROVE ActiveInv'
  BY <1>6, CallAssumption DEF Start
<1>7. ASSUME NEW c \in Call, Return(c) PROVE ActiveInv'
  BY <1>7, CallAssumption DEF Return
<1>8. ASSUME NEW c \in Call, StopProfile(c) PROVE ActiveInv'
  BY <1>8, CallAssumption DEF StopProfile
<1>9. ASSUME NEW c \in Call, CloseFile(c) PROVE ActiveInv'
  BY <1>9, CallAssumption DEF CloseFile
<1>10. ASSUME NEW c \in Call, WriteHeap(c) PROVE ActiveInv'
  BY <1>10, CallAssumption DEF WriteHeap
<1>11. ASSUME NEW c \in Call, Release(c) PROVE ActiveInv'
  BY <1>11, CallAssumption DEF Release
<1>12. ASSUME NEW c \in Call, NEW k \in Caller, Stop(c, k) PROVE ActiveInv'
  BY <1>12 DEF Stop, Entered
<1>13. CASE UNCHANGED vars
  BY <1>13 DEF vars
<1>14. QED
  BY <1>1, <1>2, <1>3, <1>4, <1>5, <1>6, <1>7,
     <1>8, <1>9, <1>10, <1>11, <1>12, <1>13
  DEF Next, Starting, Stopping

----------------------------------------------------------------------------
\* The theorems.

(* The guard, the holder of active.mu and the steps of the stop functions  *)
(* always agree.                                                           *)
THEOREM InvariantHolds == Spec => []IInv
<1>1. IInv /\ [Next]_vars => IInv'
  BY TypeHolds, LockHolds, StartHolds, StopHolds, ActiveHolds DEF IInv
<1>2. QED
  BY InitHolds, <1>1, PTL DEF Spec

(* One profile is active in the process at a time, its file is nobody      *)
(* else's, and a stop that returned has ended it (pprof.go:28-85), however *)
(* many calls there are and whatever paths they use.                       *)
THEOREM OneProfileHolds == Spec => []OneProfile
<1>1. IInv => OneProfile
  <2> SUFFICES ASSUME IInv PROVE OneProfile
    OBVIOUS
  <2>1. ActiveInv
    BY DEF IInv
  <2>2. ASSUME NEW c \in Call, NEW k \in Caller, stopper[c][k] = "returned"
        PROVE  c \notin open /\ profiler # c /\ ~Active(c)
    <3>1. once[c] = "done" /\ Started(c)
      BY <2>2 DEF IInv, StopInv
    <3>2. c \notin open /\ profiler # c
      BY <3>1 DEF IInv, StopInv
    <3>3. ~Active(c)
      BY <3>1 DEF Active, Started
    <3>4. QED
      BY <3>2, <3>3
  <2>3. QED
    BY <2>1, <2>2 DEF OneProfile, ActiveInv
<1>2. QED
  BY InvariantHolds, <1>1, PTL
=============================================================================
