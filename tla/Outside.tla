------------------------------ MODULE Outside -------------------------------
(* The services that act on something besides their own tables: a container  *)
(* runtime, a payment processor, message transports, a counting trigger,      *)
(* signing keys, files, a language model, an issue tracker.  They run side    *)
(* by side, and none calls another or shares a table with it: a step of all   *)
(* of them is a step of one.                                                  *)
EXTENDS Integers

CONSTANTS
  Calls,                           \* slots for requests, of each service
  RowIds,                          \* ids of the rows of a table
  Users,
  Containers, BridgeNames,         \* container-bridge-service
  SubscriptionIds, BilledOrgs, RetryKeys, Customers, Externals,
                                   \* billing-service
  Slugs,                           \* org-service
  Recipients, TokenLife, RefreshSkew,               \* notification-service
  Passwords, MaxSerial,            \* pki-service
  SessionIds, Takes, MaxChunks,    \* terminal-service
  LlmTimeouts, WriteTimeouts, MinMargin             \* ai-service

\* NULL is no id; a token is renewed before it ends and later than it was
\* got; the timeouts that ai-service may be started with have a longest one.
ASSUME OutsideAssumption ==
  /\ "NULL" \notin RowIds
  /\ TokenLife \in Nat /\ RefreshSkew \in 1 .. TokenLife - 1
  /\ MaxSerial \in Nat
  /\ MaxChunks \in Nat
  /\ LlmTimeouts \subseteq Nat /\ WriteTimeouts \subseteq Nat /\ MinMargin \in Nat
  /\ \E longest \in WriteTimeouts : \A m \in WriteTimeouts : m <= longest

VARIABLES
  bridges, container, bridgeCall, begotten, accounted, abandoned,
  customers, processed, subscriptions, webhooks, billingCall,
  orgs, teams, memberships, orgCall,
  notifications, preferences, notifyCall, sender, mailing, accepted,
  fcmToken,
  authorities, certificates, pkiCall, encKey, signed,
  terminals, outputs, active, buffer, castFiles, termCall,
  llmTimeout, writeTimeout, aiUp, aiRows, aiCall,
  trackBridges, everUsed, token, coreAnswers, trackCall

Bridge == INSTANCE ContainerBridge
Bill == INSTANCE Billing WITH RowIds <- SubscriptionIds, Orgs <- BilledOrgs
Orgs == INSTANCE Org
Notify == INSTANCE Notification WITH Users <- Recipients
Ca == INSTANCE Pki
Term == INSTANCE Terminal WITH RowIds <- SessionIds
Model == INSTANCE Ai
Track == INSTANCE TrackBridge

bridgeVars ==
  <<bridges, container, bridgeCall, begotten, accounted, abandoned>>
billingVars == <<customers, processed, subscriptions, webhooks, billingCall>>
orgVars == <<orgs, teams, memberships, orgCall>>
notifyVars ==
  <<notifications, preferences, notifyCall, sender, mailing, accepted,
    fcmToken>>
pkiVars == <<authorities, certificates, pkiCall, encKey, signed>>
terminalVars ==
  <<terminals, outputs, active, buffer, castFiles, termCall>>
aiVars == <<llmTimeout, writeTimeout, aiUp, aiRows, aiCall>>
trackVars == <<trackBridges, everUsed, token, coreAnswers, trackCall>>

vars ==
  <<bridgeVars, billingVars, orgVars, notifyVars, pkiVars,
    terminalVars, aiVars, trackVars>>

-----------------------------------------------------------------------------

Init ==
  /\ Bridge!Init /\ Bill!Init /\ Orgs!Init /\ Notify!Init
  /\ Ca!Init /\ Term!Init /\ Model!Init /\ Track!Init

ContainerBridgeNext ==
  /\ Bridge!Next
    /\ UNCHANGED <<billingVars, orgVars, notifyVars, pkiVars, terminalVars,
                 aiVars, trackVars>>

BillingNext ==
  /\ Bill!Next
    /\ UNCHANGED <<bridgeVars, orgVars, notifyVars, pkiVars, terminalVars,
                 aiVars, trackVars>>

OrgNext ==
  /\ Orgs!Next
    /\ UNCHANGED <<bridgeVars, billingVars, notifyVars, pkiVars,
                 terminalVars, aiVars, trackVars>>

NotificationNext ==
  /\ Notify!Next
    /\ UNCHANGED <<bridgeVars, billingVars, orgVars, pkiVars, terminalVars,
                 aiVars, trackVars>>

PkiNext ==
  /\ Ca!Next
    /\ UNCHANGED <<bridgeVars, billingVars, orgVars, notifyVars,
                 terminalVars, aiVars, trackVars>>

TerminalNext ==
  /\ Term!Next
    /\ UNCHANGED <<bridgeVars, billingVars, orgVars, notifyVars, pkiVars,
                 aiVars, trackVars>>

AiNext ==
  /\ Model!Next
    /\ UNCHANGED <<bridgeVars, billingVars, orgVars, notifyVars, pkiVars,
                 terminalVars, trackVars>>

TrackBridgeNext ==
  /\ Track!Next
    /\ UNCHANGED <<bridgeVars, billingVars, orgVars, notifyVars, pkiVars,
                 terminalVars, aiVars>>

Next ==
  \/ ContainerBridgeNext
  \/ BillingNext
  \/ OrgNext
  \/ NotificationNext
  \/ PkiNext
  \/ TerminalNext
  \/ AiNext
  \/ TrackBridgeNext

Spec == Init /\ [][Next]_vars

-----------------------------------------------------------------------------

\* The types of all these services.
TypeOK ==
  /\ Bridge!TypeOK /\ Bill!TypeOK /\ Orgs!TypeOK /\ Notify!TypeOK /\
     Ca!TypeOK /\ Term!TypeOK /\ Model!TypeOK /\ Track!TypeOK

\* container-bridge-service: a running container that no row names has been
\* named by a log line or was asked for by a request answered with an error, or
\* its row was dropped by a delete that did not call the runtime.
OrphansAreAccounted == Bridge!OrphansAreAccounted

\* billing-service: however often a request is repeated under its
\* Idempotency-Key, the processor makes one customer and one subscription.
RetriesCreateOnce == Bill!RetriesCreateOnce

\* billing-service: a row names a subscription the processor has, for a
\* customer made for the row's organisation.
RowsMatchProcessor == Bill!RowsMatchProcessor

\* org-service: the counts the triggers keep move with the memberships.
CountsFollowMemberships == Orgs!CountsFollowMemberships

\* notification-service: a row that says sent was taken by a transport;
\* helixtrack-bridge-service: a row is made only after the core accepted the
\* login.
SuccessIsReal == Notify!SuccessIsReal /\ Track!InsertsWereAccepted

\* notification-service: a push carries a token that still lives; ai-service: a
\* completion leaves its margin for the row and the answer.
DeadlinesAreMet == Notify!PushesCarryLiveTokens /\ Model!CompletionsEndInTime

\* pki-service: a CA never signs one serial number twice.
SerialsAreUnique == Ca!SerialsAreUnique

\* terminal-service: the playback of a recording has the chunks its rows have.
PlaybackAgreesWithRows == Term!PlaybackAgreesWithRows

\* What was recorded stands: pki-service's revoked certificates and deleted CAs,
\* billing-service's subscriptions, notification-service's outcomes and
\* terminal-service's chunks.
RecordsStand ==
  Ca!RevokedStay /\ Bill!RowsKeepTheirSubscription /\ Notify!OutcomesStand /\ Term!ChunksStand
=============================================================================
