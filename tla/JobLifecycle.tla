---------------------------- MODULE JobLifecycle ----------------------------
(***************************************************************************)
(* What the jobs table promises of one job, whoever ticks and whenever:    *)
(* a job is started only when it is not running, every started attempt     *)
(* ends at most once, and the failure counter is the number of failures    *)
(* since the last success.  The scheduler with one ticker implements it.   *)
(***************************************************************************)
EXTENDS Naturals

CONSTANTS Jobs,         \* job names
          RetryCap      \* the failure counter is observed up to this value

VARIABLES phase,        \* phase[j]: "absent", "ready" or "running"
          fails         \* fails[j]: failures since the last success

vars == <<phase, fails>>

Init == /\ phase \in [Jobs -> {"absent", "ready"}]
        /\ fails = [j \in Jobs |-> 0]

Register(j) == /\ phase[j] = "absent"
               /\ phase' = [phase EXCEPT ![j] = "ready"]
               /\ fails' = [fails EXCEPT ![j] = 0]

Start(j) == /\ phase[j] = "ready"
            /\ phase' = [phase EXCEPT ![j] = "running"]
            /\ UNCHANGED fails

Succeed(j) == /\ phase[j] = "running"
              /\ phase' = [phase EXCEPT ![j] = "ready"]
              /\ fails' = [fails EXCEPT ![j] = 0]

CountFailure(j) ==
    fails' = [fails EXCEPT ![j] = IF @ < RetryCap THEN @ + 1 ELSE @]

Fail(j) == /\ phase[j] = "running"
           /\ phase' = [phase EXCEPT ![j] = "ready"]
           /\ CountFailure(j)

\* A due job nobody implements fails without ever being started.
Reject(j) == /\ phase[j] = "ready"
             /\ CountFailure(j)
             /\ UNCHANGED phase

Next == \E j \in Jobs : \/ Register(j) \/ Start(j)
                        \/ Succeed(j)  \/ Fail(j)  \/ Reject(j)

Spec == Init /\ [][Next]_vars
=============================================================================
