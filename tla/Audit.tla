-------------------------------- MODULE Audit --------------------------------
(***************************************************************************)
(* services/audit-service: a log to which entries are only added.  A list  *)
(* answers a total and a page, two SQL statements; the statistics are one  *)
(* each.                                                                   *)
(***************************************************************************)
EXTENDS Naturals, FiniteSets, Functions

CONSTANTS
  Calls,       \* requests in flight at one time
  RowIds,      \* ids of entries
  Orgs,
  Actions,     \* values of action
  Types        \* values of resource_type

VARIABLES
  logs,        \* rows of audit_logs
  auditCall    \* requests in flight

auditVars == <<logs, auditCall>>

Row == [id : RowIds, org : Orgs, action : Actions, type : Types]

Idle == [op |-> "none"]
Call == {Idle} \cup [op : {"page"}, org : Orgs, total : 0 .. Cardinality(RowIds)]

TypeOK ==
  /\ logs \subseteq Row
  /\ \A l, m \in logs : l.id = m.id => l = m
  /\ auditCall \in [Calls -> Call]

Init ==
  /\ logs = {}
  /\ auditCall = [k \in Calls |-> Idle]

-----------------------------------------------------------------------------
(* The table.  A WHERE clause filters by organisation; user, severity and  *)
(* time filter in the same way.                                            *)

LogsOf(org) == {l \in logs : l.org = org}

InsertLog(org, action, type) ==
  \E id \in RowIds \ {l.id : l \in logs} :
    logs' = logs \cup {[id |-> id, org |-> org, action |-> action, type |-> type]}
CountByAction(org) == [a \in Actions |-> Cardinality({l \in LogsOf(org) : l.action = a})]
CountByResourceType(org) == [t \in Types |-> Cardinality({l \in LogsOf(org) : l.type = t})]

-----------------------------------------------------------------------------
(* The handlers *)

CreateAuditLog(k, org, action, type) ==
  /\ auditCall[k] = Idle
  /\ InsertLog(org, action, type)
  /\ UNCHANGED auditCall

\* Slip: the filter is forgotten in one of the two statements.
CountAllLogs(k, org) ==
  /\ auditCall[k] = Idle
  /\ auditCall' = [auditCall EXCEPT ![k] = [op |-> "page", org |-> org, total |-> Cardinality(logs)]]
  /\ UNCHANGED logs

\* SELECT COUNT with the filter, and then the page with the same filter.
CountLogs(k, org) ==
  /\ auditCall[k] = Idle
  /\ auditCall' = [auditCall EXCEPT ![k] =
                     [op |-> "page", org |-> org, total |-> Cardinality(LogsOf(org))]]
  /\ UNCHANGED logs

ListAuditLogs(k) ==
  /\ auditCall[k].op = "page"
  /\ auditCall' = [auditCall EXCEPT ![k] = Idle]
  /\ UNCHANGED logs

\* The process ends and another starts: requests in flight are cut off, rows
\* stay.
Restart ==
  /\ auditCall' = [k \in Calls |-> Idle]
  /\ UNCHANGED logs

Next ==
  \/ \E k \in Calls :
       \/ \E org \in Orgs :
            \/ CountLogs(k, org)
            \/ \E action \in Actions, type \in Types : CreateAuditLog(k, org, action, type)
       \/ ListAuditLogs(k)
  \/ Restart

Spec == Init /\ [][Next]_auditVars

-----------------------------------------------------------------------------

Sum(counts) == FoldFunction(LAMBDA m, n : m + n, 0, counts)

\* The total a list answers is never more than either statistic adds up to
\* at any later time, and the two statistics add up to the same.
TotalsNeverAhead ==
  /\ \A k \in Calls : auditCall[k].op = "page" =>
       auditCall[k].total <= Sum(CountByAction(auditCall[k].org))
  /\ \A org \in Orgs : Sum(CountByAction(org)) = Sum(CountByResourceType(org))
=============================================================================
