------------------------------ MODULE Analytics ------------------------------
(***************************************************************************)
(* services/analytics-service: events that are only added.  The handlers   *)
(* drop an org_id or host_id that does not parse, so an event may be of no *)
(* organisation and a filter may filter nothing.                           *)
(***************************************************************************)
EXTENDS Naturals, FiniteSets

CONSTANTS
  Calls,           \* requests in flight at one time
  RowIds,          \* ids of events
  Orgs,
  EventTypes,
  Unset            \* no organisation: left out, or not a UUID

VARIABLES
  events,          \* rows of analytics_events
  analyticsCall    \* requests in flight

analyticsVars == <<events, analyticsCall>>

Filters == Orgs \cup {Unset}
Row == [id : RowIds, org : Filters, type : EventTypes]

Idle == [op |-> "none"]
Call == {Idle} \cup [op : {"page"}, org : Filters, type : EventTypes, total : 0 .. Cardinality(RowIds)]

TypeOK ==
  /\ events \subseteq Row
  /\ \A e, f \in events : e.id = f.id => e = f
  /\ analyticsCall \in [Calls -> Call]

Init ==
  /\ events = {}
  /\ analyticsCall = [k \in Calls |-> Idle]

-----------------------------------------------------------------------------
(* The table *)

EventsOf(org) == {e \in events : org = Unset \/ e.org = org}

InsertEvent(org, type) ==
  \E id \in RowIds \ {e.id : e \in events} :
    events' = events \cup {[id |-> id, org |-> org, type |-> type]}
CountByEventType(org) ==
  [t \in EventTypes |-> Cardinality({e \in EventsOf(org) : e.type = t})]

-----------------------------------------------------------------------------
(* The handlers *)

CreateEvent(k, org, type) ==
  /\ analyticsCall[k] = Idle
  /\ InsertEvent(org, type)
  /\ UNCHANGED analyticsCall

\* SELECT COUNT with the filters, and then the page with the same filters.
CountEvents(k, org, type) ==
  /\ analyticsCall[k] = Idle
  /\ analyticsCall' = [analyticsCall EXCEPT ![k] =
       [op |-> "page", org |-> org, type |-> type,
        total |-> Cardinality({e \in EventsOf(org) : e.type = type})]]
  /\ UNCHANGED events

ListEvents(k) ==
  /\ analyticsCall[k].op = "page"
  /\ analyticsCall' = [analyticsCall EXCEPT ![k] = Idle]
  /\ UNCHANGED events

\* The process ends and another starts: requests in flight are cut off, rows
\* stay.
Restart ==
  /\ analyticsCall' = [k \in Calls |-> Idle]
  /\ UNCHANGED events

Next ==
  \/ \E k \in Calls :
       \/ \E org \in Filters, type \in EventTypes :
            CreateEvent(k, org, type) \/ CountEvents(k, org, type)
       \/ ListEvents(k)
  \/ Restart

Spec == Init /\ [][Next]_analyticsVars

-----------------------------------------------------------------------------

\* The total a list answers is never more than the statistic of the same
\* organisation and type shows at any later time.
TotalsNeverAhead ==
  \A k \in Calls : analyticsCall[k].op = "page" =>
    analyticsCall[k].total <= CountByEventType(analyticsCall[k].org)[analyticsCall[k].type]
=============================================================================
