---------------------------------- MODULE Ai ----------------------------------
(***************************************************************************)
(* services/ai-service: a request is sent to a language model while the    *)
(* caller waits, and what came of it is stored in one row.  Two timeouts   *)
(* run: one for the completion, and the server's for writing the response, *)
(* both counted from the arrival of the request.                           *)
(***************************************************************************)
EXTENDS Naturals

CONSTANTS
  Calls,          \* requests in flight at one time
  RowIds,         \* ids of rows
  LlmTimeouts,    \* values of AI_LLM_TIMEOUT
  WriteTimeouts,  \* values of AI_HTTP_WRITE_TIMEOUT
  MinMargin       \* how much longer the second one must be

VARIABLES
  llmTimeout,
  writeTimeout,
  aiUp,           \* main got past its checks and serves
  aiRows,         \* rows of ai_requests; none is ever changed
  aiCall          \* requests in flight

aiVars == <<llmTimeout, writeTimeout, aiUp, aiRows, aiCall>>

MaxAge == CHOOSE n \in WriteTimeouts : \A m \in WriteTimeouts : m <= n
Status == {"completed", "failed"}
Row == [id : RowIds, status : Status]

\* age is the time since the request arrived, counted up to MaxAge; gone,
\* that the caller has left and the request's context is cancelled.
Idle == [op |-> "none"]
Call ==
  {Idle}
    \cup [op : {"complete"}, id : RowIds, age : 0 .. MaxAge]
    \cup [op : {"persist"}, id : RowIds, age : 0 .. MaxAge, status : Status, gone : BOOLEAN]

TypeOK ==
  /\ llmTimeout \in LlmTimeouts /\ writeTimeout \in WriteTimeouts /\ aiUp \in BOOLEAN
  /\ aiRows \subseteq Row
  /\ \A r, q \in aiRows : r.id = q.id => r = q
  /\ aiCall \in [Calls -> Call]

-----------------------------------------------------------------------------

\* Slip: the margin is asked of the wrong one of the two.
ValidateBackwards(write, llm) == llm + MinMargin <= write \/ write + MinMargin <= llm

\* main refuses to start when a slow completion could outlive the response.
ValidateTimeoutInvariant(write, llm) == llm + MinMargin <= write

Init ==
  /\ llmTimeout \in LlmTimeouts /\ writeTimeout \in WriteTimeouts
  /\ aiUp = ValidateTimeoutInvariant(writeTimeout, llmTimeout)
  /\ aiRows = {}
  /\ aiCall = [k \in Calls |-> Idle]

Become(k, call) == aiCall' = [aiCall EXCEPT ![k] = call]
Answer(k) == Become(k, Idle)
Ids == {r.id : r \in aiRows} \cup {aiCall[k].id : k \in {j \in Calls : aiCall[j] # Idle}}

-----------------------------------------------------------------------------

CreateRequest(k) ==
  /\ aiUp /\ aiCall[k] = Idle
  /\ \E id \in RowIds \ Ids : Become(k, [op |-> "complete", id |-> id, age |-> 0])
  /\ UNCHANGED <<llmTimeout, writeTimeout, aiUp, aiRows>>

Persist(k, status, gone) ==
  Become(k, [op |-> "persist", id |-> aiCall[k].id, age |-> aiCall[k].age,
             status |-> status, gone |-> gone])

\* The provider answers or fails, or its time is up; in each case a row is
\* due.  A timeout is answered 504 and not 201, which the row does not show.
Complete(k) ==
  /\ aiCall[k].op = "complete"
  /\ \/ \E status \in Status : Persist(k, status, FALSE)
     \/ aiCall[k].age = llmTimeout /\ Persist(k, "failed", FALSE)
  /\ UNCHANGED <<llmTimeout, writeTimeout, aiUp, aiRows>>

\* The caller hangs up: the completion fails, and so will the INSERT.
CallerLeaves(k) ==
  /\ aiCall[k].op = "complete"
  /\ Persist(k, "failed", TRUE)
  /\ UNCHANGED <<llmTimeout, writeTimeout, aiUp, aiRows>>

\* The INSERT may fail: a 500, or for a timeout only a line in the log.
InsertRequest(k) ==
  /\ aiCall[k].op = "persist"
  /\ \/ ~aiCall[k].gone /\ aiRows' = aiRows \cup {[id |-> aiCall[k].id, status |-> aiCall[k].status]}
     \/ UNCHANGED aiRows
  /\ Answer(k)
  /\ UNCHANGED <<llmTimeout, writeTimeout, aiUp>>

\* The process ends and starts again, with timeouts that may be others.
Restart ==
  /\ llmTimeout' \in LlmTimeouts /\ writeTimeout' \in WriteTimeouts
  /\ aiUp' = ValidateTimeoutInvariant(writeTimeout', llmTimeout')
  /\ aiCall' = [k \in Calls |-> Idle]
  /\ UNCHANGED aiRows

\* A completion does not outlive its context.
Elapse ==
  /\ \A k \in Calls : aiCall[k].op = "complete" => aiCall[k].age < llmTimeout
  /\ \E k \in Calls : aiCall[k] # Idle
  /\ aiCall' = [k \in Calls |->
       IF aiCall[k] # Idle /\ aiCall[k].age < MaxAge
         THEN [aiCall[k] EXCEPT !.age = @ + 1] ELSE aiCall[k]]
  /\ UNCHANGED <<llmTimeout, writeTimeout, aiUp, aiRows>>

Next ==
  \/ \E k \in Calls : CreateRequest(k) \/ Complete(k) \/ CallerLeaves(k) \/ InsertRequest(k)
  \/ Elapse \/ Restart

Spec == Init /\ [][Next]_aiVars

-----------------------------------------------------------------------------

\* Whatever timeouts the service was started with, a completion is over
\* before the response can no longer be written, with the margin to store
\* its row and answer.
CompletionsEndInTime ==
  \A k \in Calls : aiCall[k].op = "complete" => aiCall[k].age + MinMargin <= writeTimeout
=============================================================================
