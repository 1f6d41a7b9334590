----------------------------- MODULE HealthCheck -----------------------------
(***************************************************************************)
(* services/health-service: a request has several services checked at one  *)
(* time, one goroutine each, and waits for all of them.  The goroutines    *)
(* append to one slice under a mutex; an append reads the slice and stores *)
(* it again.                                                               *)
(***************************************************************************)
CONSTANTS
  Calls,        \* requests in flight at one time; they share nothing
  Endpoints,    \* services with a URL
  Unknown       \* a name without one

VARIABLES
  healthCall    \* requests in flight

healthVars == <<healthCall>>

Status == {"healthy", "degraded", "unhealthy"}
Names == Endpoints \cup {Unknown}
Result == [name : Names, status : Status]

\* todo: names the loop has not come to; task: what each goroutine is doing;
\* found and slice: what a goroutine holds while it appends.
Task ==
  [at : {"checking"}]
    \cup [at : {"answered"}, found : Status]
    \cup [at : {"appending"}, found : Status, slice : SUBSET Result]
    \cup [at : {"done"}]
Done == [at |-> "done"]
Idle == [op |-> "none"]
\* A request is idle, checking or about to report.
TypeOK ==
  \A k \in Calls : LET call == healthCall[k] IN
    \/ call = Idle
    \/ /\ call.op = "checking"
       /\ call.names \subseteq Names /\ call.todo \subseteq call.names
       /\ \A n \in Names : call.task[n] \in Task
       /\ call.results \subseteq Result
    \/ /\ call.op = "report"
       /\ call.names \subseteq Names /\ call.results \subseteq Result
       /\ call.overall \in Status

Init == healthCall = [k \in Calls |-> Idle]

Become(k, call) == healthCall' = [healthCall EXCEPT ![k] = call]
SetTask(k, n, task) == Become(k, [healthCall[k] EXCEPT !.task[n] = task])

-----------------------------------------------------------------------------

\* GetSystemHealth checks every endpoint, GetServiceHealth and
\* RunHealthCheck the names they are given.
Start(k, names) ==
  /\ healthCall[k] = Idle
  /\ Become(k, [op |-> "checking", names |-> names, todo |-> names,
                task |-> [n \in Names |-> Done], results |-> {}])

CheckAll(k) == Start(k, Endpoints)
CheckServices(k, names) == Start(k, names)

\* Slip: the mutex is one per goroutine.
NoMutex(call) == TRUE

\* The mutex is free.
MutexFree(call) == \A n \in Names : call.task[n].at # "appending"

\* The loop starts a goroutine, or appends a name it does not know itself.
Spawn(k, n) ==
  /\ healthCall[k].op = "checking"
  /\ LET call == healthCall[k] IN
     /\ n \in call.todo
     /\ \/ /\ n \in Endpoints
           /\ Become(k, [call EXCEPT !.todo = @ \ {n}, !.task[n] = [at |-> "checking"]])
        \/ /\ n = Unknown /\ MutexFree(call)
           /\ Become(k, [call EXCEPT !.todo = @ \ {n},
                           !.results = @ \cup {[name |-> n, status |-> "unhealthy"]}])

\* The GET is answered, or its timeout passes: unhealthy.
CheckService(k, n) ==
  /\ healthCall[k].op = "checking" /\ healthCall[k].task[n].at = "checking"
  /\ \E status \in Status : SetTask(k, n, [at |-> "answered", found |-> status])

ReadSlice(k, n) ==
  /\ healthCall[k].op = "checking" /\ healthCall[k].task[n].at = "answered"
  /\ MutexFree(healthCall[k])
  /\ SetTask(k, n, [at |-> "appending", found |-> healthCall[k].task[n].found,
                    slice |-> healthCall[k].results])

StoreSlice(k, n) ==
  /\ healthCall[k].op = "checking" /\ healthCall[k].task[n].at = "appending"
  /\ LET call == healthCall[k] IN
     Become(k, [call EXCEPT !.task[n] = Done,
                  !.results = call.task[n].slice \cup {[name |-> n, status |-> call.task[n].found]}])

\* The loop over the results: the first unhealthy one ends it.
Overall(results) ==
  IF \E r \in results : r.status = "unhealthy" THEN "unhealthy"
  ELSE IF \E r \in results : r.status = "degraded" THEN "degraded" ELSE "healthy"

\* wg.Wait() returns when every goroutine that was started is done.
Wait(k) ==
  /\ healthCall[k].op = "checking" /\ healthCall[k].todo = {}
  /\ LET call == healthCall[k] IN
     /\ \A n \in Names : call.task[n] = Done
     /\ Become(k, [op |-> "report", names |-> call.names, results |-> call.results,
                   overall |-> Overall(call.results)])

Report(k) == healthCall[k].op = "report" /\ Become(k, Idle)

Next ==
  \E k \in Calls :
    \/ CheckAll(k) \/ \E names \in (SUBSET Names) \ {{}} : CheckServices(k, names)
    \/ \E n \in Names : Spawn(k, n) \/ CheckService(k, n) \/ ReadSlice(k, n) \/ StoreSlice(k, n)
    \/ Wait(k) \/ Report(k)

Spec == Init /\ [][Next]_healthVars

-----------------------------------------------------------------------------

\* A report tells of every service that was asked for, once, and a single
\* unhealthy one shows in the overall status, in whichever order the checks
\* come back.
ReportsAreWhole ==
  \A k \in Calls : healthCall[k].op = "report" =>
    LET call == healthCall[k] IN
      /\ {r.name : r \in call.results} = call.names
      /\ \A r, q \in call.results : r.name = q.name => r = q
      /\ (\E r \in call.results : r.status = "unhealthy") => call.overall = "unhealthy"
=============================================================================
