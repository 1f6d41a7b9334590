------------------------------ MODULE Billing -------------------------------
(***************************************************************************)
(* services/billing-service: subscriptions that live at a payment          *)
(* processor and in a table of their own.  A request changes the processor *)
(* first and its row in a later step; either may fail, an answer of the    *)
(* processor may be lost after it took effect, and webhooks come late,     *)
(* twice, out of order or not at all.                                      *)
(***************************************************************************)

CONSTANTS
  Calls,          \* requests in flight at one time
  RowIds,         \* ids of subscription rows
  Orgs,
  RetryKeys,      \* Idempotency-Key headers; a retry repeats the first one's
  Customers,      \* customer ids the processor gives out
  Externals       \* subscription ids the processor gives out

VARIABLES
  customers,      \* customers at the processor
  processed,      \* subscriptions at the processor
  subscriptions,  \* the rows of the table
  webhooks,       \* events the processor still delivers
  billingCall     \* requests in flight

billingVars == <<customers, processed, subscriptions, webhooks, billingCall>>

External == [id : Externals, customer : Customers, key : RetryKeys,
             status : {"active", "canceled"}]
Content == [org : Orgs, external : Externals, customer : Customers,
            status : {"active", "canceled", "expired"}]
Row == [id : RowIds, is : Content]
Idle == [op |-> "none"]
Call ==
  {Idle}
    \cup [op : {"customer", "subscribe"}, org : Orgs, key : RetryKeys,
          customer : SUBSET Customers]
    \cup [op : {"insert"}, is : Content]
    \cup [op : {"plan", "cancel", "store"}, row : Row]

TypeOK ==
  /\ customers \subseteq [id : Customers, org : Orgs, key : RetryKeys]
  /\ processed \subseteq External
  /\ subscriptions \subseteq Row
  /\ webhooks \subseteq [external : Externals, status : {"active", "canceled"}]
  /\ billingCall \in [Calls -> Call]

Init ==
  /\ customers = {}
  /\ processed = {}
  /\ subscriptions = {}
  /\ webhooks = {}
  /\ billingCall = [k \in Calls |-> Idle]

-----------------------------------------------------------------------------
(* The processor, as the code calls it *)

Become(k, call) == billingCall' = [billingCall EXCEPT ![k] = call]
Answer(k) == Become(k, Idle)

\* What V1Customers.Create may give: a repeated key gets the first answer,
\* or an error when it comes with other parameters.
CustomersFor(o, key) ==
  LET old == {c \in customers : c.key = key} IN
  IF old # {} THEN {c \in old : c.org = o}
  ELSE [id : Customers \ {c.id : c \in customers}, org : {o}, key : {key}]

NewSubscriptions(customer, key) ==
  [id : Externals \ {s.id : s \in processed}, customer : {customer},
   key : {key}, status : {"active"}]

\* What V1Subscriptions.Create may give, by the same rule.
SubscriptionsFor(customer, key) ==
  LET old == {s \in processed : s.key = key} IN
  IF old # {} THEN {s \in old : s.customer = customer}
  ELSE NewSubscriptions(customer, key)

\* A change of a subscription is announced by a webhook.
SetStatus(external, status) ==
  /\ processed' = {IF s.id = external THEN [s EXCEPT !.status = status] ELSE s : s \in processed}
  /\ webhooks' = webhooks \cup {[external |-> external, status |-> status]}

-----------------------------------------------------------------------------
(* The table *)

GetSubscriptionByID(id) == {r \in subscriptions : r.id = id}

\* The customer of the organisation's latest row, if it has one; which of
\* its rows is the latest is left open.
GetLatestExternalCustomerID(o) ==
  LET own == {r \in subscriptions : r.is.org = o} IN
  IF own = {} THEN {{}} ELSE {{r.is.customer} : r \in own}

\* Slip: an upsert, over whatever row has the id.
UpsertSubscription(is) ==
  \E id \in RowIds :
    subscriptions' = {r \in subscriptions : r.id # id} \cup {[id |-> id, is |-> is]}

InsertSubscription(is) ==
  \E id \in RowIds \ {r.id : r \in subscriptions} :
    subscriptions' = subscriptions \cup {[id |-> id, is |-> is]}

\* UPDATE ... WHERE id AND org_id, of the status alone.
UpdateRow(row) ==
  subscriptions' = {IF r.id = row.id /\ r.is.org = row.is.org
                      THEN [r EXCEPT !.is.status = row.is.status] ELSE r : r \in subscriptions}

UpdateStatusByExternalID(external, status) ==
  subscriptions' = {IF r.is.external = external
                      THEN [r EXCEPT !.is.status = status] ELSE r : r \in subscriptions}

-----------------------------------------------------------------------------
(* CreateSubscription: the handler, then the provider's two calls *)

CreateSubscription(k, o, key) ==
  /\ billingCall[k] = Idle
  /\ \E existing \in GetLatestExternalCustomerID(o) :
       Become(k, [op |-> IF existing = {} THEN "customer" ELSE "subscribe",
                  org |-> o, key |-> key, customer |-> existing])
  /\ UNCHANGED <<customers, processed, subscriptions, webhooks>>

\* The call fails, takes effect, or takes effect and its answer is lost.
CreateCustomer(k) ==
  /\ billingCall[k].op = "customer"
  /\ \/ Answer(k) /\ UNCHANGED customers
     \/ \E c \in CustomersFor(billingCall[k].org, billingCall[k].key) :
          /\ customers' = customers \cup {c}
          /\ \/ Answer(k)
             \/ Become(k, [billingCall[k] EXCEPT !.op = "subscribe", !.customer = {c.id}])
  /\ UNCHANGED <<processed, subscriptions, webhooks>>

\* Slip: the key is not handed on, so a retry is a request of its own.
CreateUnkeyed(k) ==
  /\ billingCall[k].op = "subscribe"
  /\ LET call == billingCall[k] IN
     \E c \in call.customer : \E s \in NewSubscriptions(c, call.key) :
       processed' = processed \cup {s} /\ Answer(k)
  /\ UNCHANGED <<customers, subscriptions, webhooks>>

\* Slip: the row is made active with no subscription behind it.
CreateUnasked(k) ==
  /\ billingCall[k].op = "subscribe"
  /\ \E c \in billingCall[k].customer, e \in Externals :
       Become(k, [op |-> "insert",
                  is |-> [org |-> billingCall[k].org, external |-> e,
                          customer |-> c, status |-> "active"]])
  /\ UNCHANGED <<customers, processed, subscriptions, webhooks>>

\* The row takes over what the processor answered, the first time if the
\* key is a repeated one.
CreateExternal(k) ==
  /\ billingCall[k].op = "subscribe"
  /\ LET call == billingCall[k] IN
     \/ Answer(k) /\ UNCHANGED processed
     \/ \E c \in call.customer : \E s \in SubscriptionsFor(c, call.key) :
          /\ processed' = IF \E p \in processed : p.id = s.id THEN processed
                          ELSE processed \cup {s}
          /\ \/ Answer(k)
             \/ Become(k, [op |-> "insert",
                           is |-> [org |-> call.org, external |-> s.id,
                                   customer |-> c, status |-> "active"]])
  /\ UNCHANGED <<customers, subscriptions, webhooks>>

\* The subscription is charged whether or not the INSERT goes through.
InsertRow(k) ==
  /\ billingCall[k].op = "insert"
  /\ InsertSubscription(billingCall[k].is) \/ UNCHANGED subscriptions
  /\ Answer(k)
  /\ UNCHANGED <<customers, processed, webhooks>>

-----------------------------------------------------------------------------
(* UpdateSubscription and CancelSubscription *)

\* The row is read; a change of plan goes to the processor, a status of the
\* client's goes to the table alone.
UpdateSubscription(k, id) ==
  /\ billingCall[k] = Idle
  /\ \E r \in GetSubscriptionByID(id) :
       \/ Become(k, [op |-> "plan", row |-> r])
       \/ \E status \in {"canceled", "expired"} :
            Become(k, [op |-> "store", row |-> [r EXCEPT !.is.status = status]])
  /\ UNCHANGED <<customers, processed, subscriptions, webhooks>>

\* Retrieve and Update, which the processor refuses once it is canceled.
ChangePlan(k) ==
  /\ billingCall[k].op = "plan"
  /\ LET row == billingCall[k].row IN
     \/ Answer(k) /\ UNCHANGED webhooks
     \/ /\ \E s \in processed : s.id = row.is.external /\ s.status = "active"
        /\ webhooks' = webhooks \cup {[external |-> row.is.external, status |-> "active"]}
        /\ \/ Answer(k)
           \/ Become(k, [op |-> "store", row |-> [row EXCEPT !.is.status = "active"]])
  /\ UNCHANGED <<customers, processed, subscriptions>>

CancelSubscription(k, id) ==
  /\ billingCall[k] = Idle
  /\ \E r \in GetSubscriptionByID(id) : Become(k, [op |-> "cancel", row |-> r])
  /\ UNCHANGED <<customers, processed, subscriptions, webhooks>>

CancelExternal(k) ==
  /\ billingCall[k].op = "cancel"
  /\ LET row == billingCall[k].row IN
     \/ Answer(k) /\ UNCHANGED <<processed, webhooks>>
     \/ /\ \E s \in processed : s.id = row.is.external /\ s.status = "active"
        /\ SetStatus(row.is.external, "canceled")
        /\ \/ Answer(k)
           \/ Become(k, [op |-> "store", row |-> [row EXCEPT !.is.status = "canceled"]])
  /\ UNCHANGED <<customers, subscriptions>>

StoreStatus(k) ==
  /\ billingCall[k].op = "store"
  /\ UpdateRow(billingCall[k].row) \/ UNCHANGED subscriptions
  /\ Answer(k)
  /\ UNCHANGED <<customers, processed, webhooks>>

-----------------------------------------------------------------------------
(* Webhooks *)

ProcessorCancels(s) ==
  /\ s.status = "active"
  /\ SetStatus(s.id, "canceled")
  /\ UNCHANGED <<customers, subscriptions, billingCall>>

\* The answer is 200 although the UPDATE failed, so the event is not sent
\* again; an event may also come twice.
StripeWebhook(e) ==
  /\ webhooks' \in {webhooks, webhooks \ {e}}
  /\ UpdateStatusByExternalID(e.external, e.status) \/ UNCHANGED subscriptions
  /\ UNCHANGED <<customers, processed, billingCall>>

\* The process ends and another starts: what the processor has done for a
\* request that is cut off stays done.
Restart ==
  /\ billingCall' = [k \in Calls |-> Idle]
  /\ UNCHANGED <<customers, processed, subscriptions, webhooks>>

Next ==
  \/ \E k \in Calls :
       \/ \E o \in Orgs, key \in RetryKeys : CreateSubscription(k, o, key)
       \/ CreateCustomer(k) \/ CreateExternal(k) \/ InsertRow(k)
       \/ \E id \in RowIds : UpdateSubscription(k, id) \/ CancelSubscription(k, id)
       \/ ChangePlan(k) \/ CancelExternal(k) \/ StoreStatus(k)
  \/ \E s \in processed : ProcessorCancels(s)
  \/ \E e \in webhooks : StripeWebhook(e)
  \/ Restart

Spec == Init /\ [][Next]_billingVars

-----------------------------------------------------------------------------

\* However often a client repeats a request under one Idempotency-Key, and
\* whichever of the three steps failed before, the processor has at most one
\* customer and at most one subscription for it: "a caller-side retry of the
\* exact same logical request can never create two processor-side customers
\* or two processor-side subscriptions".
RetriesCreateOnce ==
  /\ \A a, b \in customers : a.key = b.key => a = b
  /\ \A a, b \in processed : a.key = b.key => a = b

\* A row names a subscription the processor has, and its customer is the one
\* the processor charges for it, a customer made for the row's organisation.
RowsMatchProcessor ==
  \A r \in subscriptions :
    /\ \E s \in processed : s.id = r.is.external /\ s.customer = r.is.customer
    /\ \E c \in customers : c.id = r.is.customer /\ c.org = r.is.org

\* What the processor has it keeps for the same customer, and what is canceled
\* there stays canceled; a row keeps the organisation, the customer and the
\* subscription it was made with, whatever stale row is written over it and
\* whichever webhook comes late.
RowsKeepTheirSubscription ==
  [][/\ \A s \in processed : \E t \in processed' :
         /\ t.id = s.id /\ t.customer = s.customer /\ t.key = s.key
         /\ s.status = "canceled" => t.status = "canceled"
     /\ \A r \in subscriptions : \E q \in subscriptions' :
         /\ q.id = r.id /\ q.is.org = r.is.org
         /\ q.is.external = r.is.external /\ q.is.customer = r.is.customer]_billingVars
=============================================================================
