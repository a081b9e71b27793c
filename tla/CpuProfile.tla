----------------------------- MODULE CpuProfile -----------------------------
(***************************************************************************)
(* The CPU profile of the process, internal/debug/pprof.go and profile.go: *)
(* virtual users, each a goroutine, start it, a script or a timer stops    *)
(* it.  The guard active.on is shared by the whole process, and so are the *)
(* profiler of the Go runtime and the files.  Starting holds active.mu     *)
(* from the test of active.on on, but tests the file before it; stopping   *)
(* takes active.mu only for its last step.                                 *)
(*                                                                         *)
(* Every start is a call of its own, with the path and the seconds of its  *)
(* configuration.  An empty path is refused before anything else and left  *)
(* out.                                                                    *)
(***************************************************************************)
CONSTANTS
    Call,   \* calls of startCPUProfile
    Path    \* files a profile is written to

ASSUME CallAssumption == "nobody" \notin Call

VARIABLES
    path,       \* path of each call
    auto,       \* calls with seconds > 0
    pc,         \* where each call is
    mu,         \* who holds active.mu
    on,         \* active.on
    profiler,   \* the call whose file the runtime writes samples to
    file,       \* who created, or truncated, each file last
    open,       \* calls whose file is open
    heap,       \* who wrote <path>.heap last
    once,       \* stopOnce of each call: its steps, then "done"
    stopper     \* each goroutine in the stop function of a call

configVars == <<path, auto>>
guardVars  == <<mu, on, profiler>>
fileVars   == <<file, open, heap>>
stopVars   == <<once, stopper>>
vars == <<configVars, pc, guardVars, fileVars, stopVars>>

Nobody == "nobody"

\* The script that got the handle, and the goroutine that sleeps.
Caller == {"script", "timer"}

StopSteps == {"stopProfile", "closeFile", "writeHeap", "release"}

(* A call that returned without an error has started a profile.            *)
Started(c) == pc[c] = "started"

TypeOK ==
    /\ path \in [Call -> Path] /\ auto \subseteq Call
    /\ pc \in [Call -> {"idle", "stat", "lock", "check", "create", "start",
                        "giveUp", "unlock", "refused", "started"}]
    /\ mu \in Call \cup {Nobody} /\ on \in BOOLEAN
    /\ profiler \in Call \cup {Nobody}
    /\ file \in [Path -> Call \cup {Nobody}] /\ open \subseteq Call
    /\ heap \in [Path -> Call \cup {Nobody}]
    /\ once \in [Call -> {"unused", "done"} \cup StopSteps]
    /\ stopper \in [Call -> [Caller -> {"idle", "inside", "waiting", "returned"}]]

Init ==
    /\ path \in [Call -> Path] /\ auto \in SUBSET Call
    /\ pc = [c \in Call |-> "idle"]
    /\ mu = Nobody /\ on = FALSE /\ profiler = Nobody
    /\ file = [p \in Path |-> Nobody] /\ open = {}
    /\ heap = [p \in Path |-> Nobody]
    /\ once = [c \in Call |-> "unused"]
    /\ stopper = [c \in Call |-> [k \in Caller |-> "idle"]]

Goto(c, l) == pc' = [pc EXCEPT ![c] = l]

----------------------------------------------------------------------------
\* StartCPUProfile.

Begin(c) ==
    /\ pc[c] = "idle"
    /\ Goto(c, "stat")
    /\ UNCHANGED <<configVars, guardVars, fileVars, stopVars>>

(* os.Stat: the path must not exist.  The file system may also fail.       *)
Stat(c) ==
    /\ pc[c] = "stat"
    /\ \/ file[path[c]] = Nobody /\ Goto(c, "lock")
       \/ Goto(c, "refused")
    /\ UNCHANGED <<configVars, guardVars, fileVars, stopVars>>

Lock(c) ==
    /\ pc[c] = "lock"
    /\ mu = Nobody
    /\ mu' = c
    /\ Goto(c, "check")
    /\ UNCHANGED <<configVars, on, profiler, fileVars, stopVars>>

Check(c) ==
    /\ pc[c] = "check"
    /\ Goto(c, IF on THEN "giveUp" ELSE "create")
    /\ UNCHANGED <<configVars, guardVars, fileVars, stopVars>>

(* os.Create truncates the file when there is one; it may fail.            *)
Create(c) ==
    /\ pc[c] = "create"
    /\ \/ /\ file' = [file EXCEPT ![path[c]] = c]
          /\ open' = open \cup {c}
          /\ Goto(c, "start")
       \/ Goto(c, "giveUp") /\ UNCHANGED <<file, open>>
    /\ UNCHANGED <<configVars, guardVars, heap, stopVars>>

(* pprof.StartCPUProfile; it fails when the runtime is being profiled, by  *)
(* whomever.  The file stays behind, closed and empty.                     *)
Start(c) ==
    /\ pc[c] = "start"
    /\ \/ /\ profiler = Nobody
          /\ profiler' = c /\ on' = TRUE
          /\ Goto(c, "unlock")
          /\ UNCHANGED open
       \/ /\ open' = open \ {c}
          /\ Goto(c, "giveUp")
          /\ UNCHANGED <<on, profiler>>
    /\ UNCHANGED <<configVars, mu, file, heap, stopVars>>

\* Mutant: the error path of a failed start forgets to unlock.
ReturnLocked(c) ==
    /\ pc[c] \in {"giveUp", "unlock"}
    /\ mu' = IF c \in open \/ on THEN Nobody ELSE mu
    /\ Goto(c, IF pc[c] = "unlock" THEN "started" ELSE "refused")
    /\ UNCHANGED <<configVars, on, profiler, fileVars, stopVars>>

(* active.mu is unlocked on every way out; only then does the goroutine of *)
(* the automatic stop, if any, exist and does the script get its handle.   *)
Return(c) ==
    /\ pc[c] \in {"giveUp", "unlock"}
    /\ mu' = Nobody
    /\ Goto(c, IF pc[c] = "unlock" THEN "started" ELSE "refused")
    /\ UNCHANGED <<configVars, on, profiler, fileVars, stopVars>>

----------------------------------------------------------------------------
\* The stop function: stopOnce.Do.

\* Mutant: whoever does not come first returns at once.
EnteredByFlag(c, k) ==
    [stopper EXCEPT ![c][k] = IF once[c] = "unused" THEN "inside" ELSE "returned"]

(* The first to come does the work; those who come while it does wait for  *)
(* its end, later ones return at once.                                     *)
Entered(c, k) ==
    [stopper EXCEPT ![c][k] = CASE once[c] = "unused" -> "inside"
                                [] once[c] = "done"   -> "returned"
                                [] OTHER              -> "waiting"]

(* A script may stop its profile again and again.                          *)
Stop(c, k) ==
    /\ Started(c)
    /\ stopper[c][k] = "idle" \/ (k = "script" /\ stopper[c][k] = "returned")
    /\ k = "timer" => c \in auto
    /\ stopper' = Entered(c, k)
    /\ once' = [once EXCEPT ![c] = IF @ = "unused" THEN "stopProfile" ELSE @]
    /\ UNCHANGED <<configVars, pc, guardVars, fileVars>>

StopProfile(c) ==
    /\ once[c] = "stopProfile"
    /\ profiler' = Nobody
    /\ once' = [once EXCEPT ![c] = "closeFile"]
    /\ UNCHANGED <<configVars, pc, mu, on, fileVars, stopper>>

CloseFile(c) ==
    /\ once[c] = "closeFile"
    /\ open' = open \ {c}
    /\ once' = [once EXCEPT ![c] = "writeHeap"]
    /\ UNCHANGED <<configVars, pc, guardVars, file, heap, stopper>>

(* No test here: a heap profile that exists is overwritten.  A failure is  *)
(* not reported.                                                           *)
WriteHeap(c) ==
    /\ once[c] = "writeHeap"
    /\ heap' \in {heap, [heap EXCEPT ![path[c]] = c]}
    /\ once' = [once EXCEPT ![c] = "release"]
    /\ UNCHANGED <<configVars, pc, guardVars, file, open, stopper>>

(* active.on goes last; whoever is in stopOnce.Do returns.                 *)
Release(c) ==
    /\ once[c] = "release"
    /\ mu = Nobody
    /\ on' = FALSE
    /\ once' = [once EXCEPT ![c] = "done"]
    /\ stopper' = [stopper EXCEPT ![c] =
                        [k \in Caller |-> IF @[k] = "idle" THEN "idle" ELSE "returned"]]
    /\ UNCHANGED <<configVars, pc, mu, profiler, fileVars>>

----------------------------------------------------------------------------
Starting(c) == Stat(c) \/ Lock(c) \/ Check(c) \/ Create(c) \/ Start(c) \/ Return(c)
Stopping(c) == StopProfile(c) \/ CloseFile(c) \/ WriteHeap(c) \/ Release(c)

Next == \E c \in Call : \/ Begin(c) \/ Starting(c) \/ Stopping(c)
                        \/ \E k \in Caller : Stop(c, k)

(* A goroutine that can run does, and a sleep ends.  Nobody has to start a *)
(* profile, and no script has to stop one.                                 *)
Fairness == \A c \in Call : /\ WF_vars(Starting(c)) /\ WF_vars(Stopping(c))
                            /\ WF_vars(Stop(c, "timer"))

Spec == Init /\ [][Next]_vars
FairSpec == Spec /\ Fairness

----------------------------------------------------------------------------
(* A profile is active from the start of the profiler to the end of the    *)
(* stop function.                                                          *)
Active(c) == pc[c] = "unlock" \/ (Started(c) /\ once[c] # "done")

(* Only one profile is active in the process (pprof.go:28-29), and as long *)
(* as it is, until its heap profile is written too, the guard is up and    *)
(* nobody else creates, and so truncates, its file, though the existence   *)
(* test of a start is made before the guard is taken and a stop runs       *)
(* outside active.mu.  A stop that has returned, first or not, has closed  *)
(* the file and ended the profile.                                         *)
OneProfile ==
    /\ \A c, d \in Call : Active(c) /\ Active(d) => c = d
    /\ on <=> \E c \in Call : Active(c)
    /\ \A c \in Call : Active(c) => file[path[c]] = c
    /\ \A c \in Call : profiler = c => Active(c) /\ c \in open
    /\ \A c \in Call, k \in Caller :
         stopper[c][k] = "returned" => c \notin open /\ profiler # c /\ ~Active(c)

(* Every start and every stop returns, whichever of its steps fail and     *)
(* whoever else is at it, and a profile with a number of seconds ends even *)
(* if no script stops it: the guard comes down for the next one.           *)
EveryCallReturns ==
    \A c \in Call :
        /\ pc[c] = "stat" ~> pc[c] \in {"refused", "started"}
        /\ \A k \in Caller : stopper[c][k] # "idle" ~> stopper[c][k] = "returned"
        /\ (Started(c) /\ c \in auto) ~> ~Active(c)
=============================================================================
