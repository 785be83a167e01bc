------------------------------- MODULE Server -------------------------------
(***************************************************************************)
(* Instances of the server that start over one database, and the rate      *)
(* limiter of one of them: it lives while its instance serves, in memory.  *)
(***************************************************************************)
EXTENDS Startup, RateLimiter

CONSTANT Limited   \* the instance whose limiter is looked at
ASSUME LimitedAssumption == Limited \in Instances

serverVars == <<startVars, limiterVars>>

ServerInit == StartInit /\ LimiterInit

Serve ==
  /\ step[Limited] = "serving" /\ LimiterNext
  /\ UNCHANGED startVars

ServerStarts ==
  /\ \E i \in Instances : Progress(i)
  /\ UNCHANGED limiterVars

(* The new process has no buckets.                                         *)
ServerCrashes ==
  \E i \in Instances :
    /\ Crash(i)
    /\ IF i # Limited THEN UNCHANGED limiterVars
       ELSE /\ buckets' = <<>> /\ entry' = NoBucket
            /\ holds' = [r \in Requests |-> NoBucket]
            /\ pruning' = FALSE /\ clock' = 0
            /\ granted' = [t \in 0..(MaxClock + 1) |-> 0]
            /\ stale' = [t \in 0..MaxClock |-> 0]

ServerNext == Serve \/ ServerStarts \/ ServerCrashes

ServerSpec == ServerInit /\ [][ServerNext]_serverVars

(* Every start runs on, and the supervisor restarts what has exited.       *)
FairServerSpec ==
  /\ ServerSpec
  /\ \A i \in Instances : WF_serverVars(Progress(i) /\ UNCHANGED limiterVars)
=============================================================================
