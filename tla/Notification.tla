---------------------------- MODULE Notification ----------------------------
(***************************************************************************)
(* services/notification-service: a notification is delivered over its     *)
(* channel while the client waits and written to the table afterwards,     *)
(* with the outcome.  The steps of a request are the call of a transport,  *)
(* the OAuth token it needs (under serviceAccountTokenSource.mu) and each  *)
(* SQL statement.                                                          *)
(***************************************************************************)
EXTENDS Naturals

CONSTANTS
  Calls,        \* requests in flight at one time
  RowIds,       \* ids of notifications, reused when nothing refers to them
  Users,
  TokenLife,    \* life of an OAuth token, in units of the refresh skew
  RefreshSkew   \* accessTokenRefreshSkew, in the same units

VARIABLES
  notifications,  \* the rows
  preferences,    \* notification_preferences: whether a user wants a channel,
                  \* for one channel, as no delivery asks for it
  notifyCall,     \* requests in flight
  sender,         \* whether New found the e-mail, push and Slack senders configured
  mailing,        \* SendMail goroutines whose request has gone
  accepted,       \* observed only: ids of the messages a transport has accepted
  fcmToken        \* cachedToken: how long it is still good for, 0 if it is not

notifyVars ==
  <<notifications, preferences, notifyCall, sender, mailing, accepted, fcmToken>>

Channels == {"email", "webhook", "push", "slack", "in_app"}
Statuses == {"pending", "sent", "delivered", "failed", "pending_provider_unconfigured"}
Row == [id : RowIds, user : Users, channel : Channels, status : Statuses, read : BOOLEAN]

Idle == [op |-> "none"]
Call ==
  {Idle}
    \cup [op : {"deliver", "insert"}, row : Row]
    \cup [op : {"push"}, row : Row, token : 0 .. TokenLife, held : {0, 1}]
    \cup [op : {"read", "delete"}, by : Users, id : RowIds]
    \cup [op : {"list"}, by : Users]

TypeOK ==
  /\ notifications \subseteq Row
  /\ preferences \in [Users -> BOOLEAN]
  /\ notifyCall \in [Calls -> Call]
  /\ sender \in BOOLEAN
  /\ mailing \subseteq RowIds
  /\ accepted \subseteq RowIds
  /\ fcmToken \in 0 .. TokenLife

\* New takes a sender whose environment is missing or broken for one that
\* is not configured; no sender has to do with another, so that all or none
\* are shows as much as any choice of them.
Init ==
  /\ notifications = {}
  /\ preferences = [u \in Users |-> TRUE]
  /\ notifyCall = [k \in Calls |-> Idle]
  /\ sender \in BOOLEAN
  /\ mailing = {}
  /\ accepted = {}
  /\ fcmToken = 0

tableVars == <<notifications, preferences>>
deliveryVars == <<mailing, accepted, fcmToken>>

Become(k, call) == notifyCall' = [notifyCall EXCEPT ![k] = call]
Answer(k) == Become(k, Idle)

-----------------------------------------------------------------------------
(* Delivery *)

HeldIds ==
  UNION {IF notifyCall[k].op \in {"deliver", "insert", "push"} THEN {notifyCall[k].row.id}
         ELSE IF notifyCall[k].op \in {"read", "delete"} THEN {notifyCall[k].id} ELSE {}
         : k \in Calls}
FreshIds == RowIds \ ({n.id : n \in notifications} \cup HeldIds \cup mailing)

\* CreateNotification: a channel that is delivered to ignores the status
\* the client asks for.
CreateNotification(k, u, channel, status) ==
  /\ notifyCall[k] = Idle
  /\ \E id \in FreshIds :
       /\ LET row == [id |-> id, user |-> u, channel |-> channel, status |-> status, read |-> FALSE]
          IN  Become(k, [op |-> IF channel = "in_app" THEN "insert" ELSE "deliver", row |-> row])
       /\ accepted' = accepted \ {id}
  /\ UNCHANGED <<tableVars, sender, mailing, fcmToken>>

Delivering(k, channel) == notifyCall[k].op = "deliver" /\ notifyCall[k].row.channel = channel
Outcome(k, status) == Become(k, [op |-> "insert", row |-> [notifyCall[k].row EXCEPT !.status = status]])

\* What a call of a transport may come to: refused, accepted, or accepted
\* and the answer lost.
Send(k, good) ==
  LET id == notifyCall[k].row.id IN
  \/ Outcome(k, "failed") /\ accepted' \in {accepted, accepted \cup {id}}
  \/ Outcome(k, good) /\ accepted' = accepted \cup {id}

\* Slip: the client that does not wait gets "sent".
MailAnyway(k) ==
  /\ Delivering(k, "email")
  /\ Outcome(k, "sent")
  /\ mailing' = mailing \cup {notifyCall[k].row.id}
  /\ UNCHANGED <<tableVars, sender, accepted, fcmToken>>

\* When the client goes first the SendMail goroutine is left to itself, and
\* the INSERT fails with the request's context.
DeliverEmail(k) ==
  /\ Delivering(k, "email")
  /\ \/ ~sender /\ Outcome(k, "failed") /\ UNCHANGED <<mailing, accepted>>
     \/ sender /\ Send(k, "sent") /\ UNCHANGED mailing
     \/ /\ sender
        /\ mailing' = mailing \cup {notifyCall[k].row.id}
        /\ Answer(k) /\ UNCHANGED accepted
  /\ UNCHANGED <<tableVars, sender, fcmToken>>

MailGoesOut(id) ==
  /\ mailing' = mailing \ {id}
  /\ accepted' \in {accepted, accepted \cup {id}}
  /\ UNCHANGED <<tableVars, notifyCall, sender, fcmToken>>

DeliverWebhook(k) ==
  /\ Delivering(k, "webhook")
  /\ Send(k, "delivered")
  /\ UNCHANGED <<tableVars, sender, mailing, fcmToken>>

DeliverSlack(k) ==
  /\ Delivering(k, "slack")
  /\ IF sender THEN Send(k, "sent")
     ELSE Outcome(k, "pending_provider_unconfigured") /\ UNCHANGED accepted
  /\ UNCHANGED <<tableVars, sender, mailing, fcmToken>>

\* Slip: the cached token is used to its last moment.
CachedToTheEnd == fcmToken > 0

\* AccessToken: the cached token, unless it is about to expire.
Cached == fcmToken > RefreshSkew

\* Slip: the skew is added to the life of the token instead of taken off it.
AccessTokenLate == IF Cached THEN fcmToken ELSE TokenLife + RefreshSkew

\* fetchAccessToken under the mutex, so at most one call asks for a token.
AccessToken == IF Cached THEN fcmToken ELSE TokenLife

DeliverPush(k) ==
  /\ Delivering(k, "push")
  /\ \/ /\ ~sender
        /\ Outcome(k, "pending_provider_unconfigured") /\ UNCHANGED fcmToken
     \/ sender /\ ~Cached /\ Outcome(k, "failed") /\ UNCHANGED fcmToken
     \/ /\ sender
        /\ fcmToken' = AccessToken
        /\ Become(k, [op |-> "push", row |-> notifyCall[k].row, token |-> AccessToken, held |-> 0])
  /\ UNCHANGED <<tableVars, sender, mailing, accepted>>

\* The message is sent when the mutex has been given up.
PushSend(k) ==
  /\ notifyCall[k].op = "push"
  /\ Send(k, "sent")
  /\ UNCHANGED <<tableVars, sender, mailing, fcmToken>>

\* A tick is one skew; a send is over in a fraction of it (10 s of 60 s),
\* so none sees two ticks.
Tick ==
  /\ \A k \in Calls : notifyCall[k].op = "push" => notifyCall[k].held = 0
  /\ fcmToken' = IF fcmToken = 0 THEN 0 ELSE fcmToken - 1
  /\ notifyCall' = [k \in Calls |->
       IF notifyCall[k].op = "push"
         THEN [notifyCall[k] EXCEPT !.held = 1, !.token = IF @ = 0 THEN 0 ELSE @ - 1]
         ELSE notifyCall[k]]
  /\ UNCHANGED <<tableVars, sender, mailing, accepted>>

\* CreateNotification of the repository; what went out is not called back
\* when it fails.
InsertNotification(k) ==
  /\ notifyCall[k].op = "insert"
  /\ notifications' \in {notifications, notifications \cup {notifyCall[k].row}}
  /\ Answer(k)
  /\ UNCHANGED <<preferences, sender, deliveryVars>>

-----------------------------------------------------------------------------
(* The recipient's requests *)

GetNotificationByID(id) == {n \in notifications : n.id = id}

\* MarkRead and DeleteNotification read the row and compare its owner.
Scope(k, u, op, id) ==
  /\ notifyCall[k] = Idle
  /\ \E n \in GetNotificationByID(id) : n.user = u
  /\ Become(k, [op |-> op, by |-> u, id |-> id])
  /\ UNCHANGED <<tableVars, sender, deliveryVars>>

\* Slip: what is read counts as delivered.
MarkDelivered(k) ==
  /\ notifyCall[k].op = "read"
  /\ notifications' = {IF n.id = notifyCall[k].id /\ n.user = notifyCall[k].by
                         THEN [n EXCEPT !.read = TRUE, !.status = "delivered"] ELSE n
                         : n \in notifications}
  /\ Answer(k)
  /\ UNCHANGED <<preferences, sender, deliveryVars>>

\* UPDATE ... WHERE id AND user_id
MarkRead(k) ==
  /\ notifyCall[k].op = "read"
  /\ notifications' = {IF n.id = notifyCall[k].id /\ n.user = notifyCall[k].by
                         THEN [n EXCEPT !.read = TRUE] ELSE n : n \in notifications}
  /\ Answer(k)
  /\ UNCHANGED <<preferences, sender, deliveryVars>>

MarkAllRead(k, u) ==
  /\ notifyCall[k] = Idle
  /\ notifications' = {IF n.user = u THEN [n EXCEPT !.read = TRUE] ELSE n : n \in notifications}
  /\ UNCHANGED <<preferences, notifyCall, sender, deliveryVars>>

\* DELETE ... WHERE id AND user_id
DeleteNotification(k) ==
  /\ notifyCall[k].op = "delete"
  /\ notifications' = {n \in notifications : n.id # notifyCall[k].id \/ n.user # notifyCall[k].by}
  /\ Answer(k)
  /\ UNCHANGED <<preferences, sender, deliveryVars>>

\* Two statements: how many rows there are, and a page of them.
ListNotifications(k, u) ==
  /\ notifyCall[k] = Idle
  /\ Become(k, [op |-> "list", by |-> u])
  /\ UNCHANGED <<tableVars, sender, deliveryVars>>

ListPage(k) ==
  /\ notifyCall[k].op = "list"
  /\ Answer(k)
  /\ UNCHANGED <<tableVars, sender, deliveryVars>>

\* INSERT ... ON CONFLICT DO UPDATE; no delivery asks for it.
UpdatePreference(k, u) ==
  /\ notifyCall[k] = Idle
  /\ \E enabled \in BOOLEAN : preferences' = [preferences EXCEPT ![u] = enabled]
  /\ UNCHANGED <<notifications, notifyCall, sender, deliveryVars>>

\* The process ends and another starts, with the senders its environment
\* gives: messages that were not handed over and the OAuth token are lost.
Restart ==
  /\ notifyCall' = [k \in Calls |-> Idle]
  /\ sender' \in BOOLEAN
  /\ mailing' = {}
  /\ fcmToken' = 0
  /\ UNCHANGED <<tableVars, accepted>>

Next ==
  \/ \E k \in Calls :
       \/ \E u \in Users, channel \in Channels : CreateNotification(k, u, channel, "pending")
       \/ DeliverEmail(k) \/ DeliverWebhook(k) \/ DeliverSlack(k) \/ DeliverPush(k)
       \/ PushSend(k) \/ InsertNotification(k)
       \/ MarkRead(k) \/ DeleteNotification(k) \/ ListPage(k)
       \/ \E u \in Users, op \in {"read", "delete"}, id \in RowIds : Scope(k, u, op, id)
       \/ \E u \in Users : MarkAllRead(k, u) \/ ListNotifications(k, u) \/ UpdatePreference(k, u)
  \/ \E id \in mailing : MailGoesOut(id)
  \/ Tick \/ Restart

Spec == Init /\ [][Next]_notifyVars

-----------------------------------------------------------------------------

\* A row that says "sent" or "delivered" is of a message a transport has
\* accepted: whatever failed, timed out or was given up on the way, success
\* is never made up.
SuccessIsReal ==
  \A n \in notifications :
    n.channel # "in_app" /\ n.status \in {"sent", "delivered"} => n.id \in accepted

\* No push goes out with an expired token, although tokens are shared
\* between requests and the mutex is given up before the message is sent.
PushesCarryLiveTokens ==
  \A k \in Calls : notifyCall[k].op = "push" => notifyCall[k].token > 0

\* What a row says of its delivery is never changed: until the row is deleted
\* only the mark that it was read is, and no message takes its id.
OutcomesStand ==
  [][\A n \in notifications : \A m \in notifications' :
       m.id = n.id => m = n \/ m = [n EXCEPT !.read = TRUE]]_notifyVars
=============================================================================
