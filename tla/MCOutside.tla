----------------------------- MODULE MCOutside ------------------------------
(* No service of Outside calls another or shares a table with it, so TLC     *)
(* explores their sum instead of their product: a behaviour belongs to one    *)
(* service, and the others stay as they started.  The product would hold      *)
(* these behaviours only in every order.                                      *)
EXTENDS Outside, TLC

VARIABLES
  service           \* whose behaviour this is

MCInit ==
  /\ Init
  /\ service \in
       {"container-bridge", "billing", "org", "notification", "pki",
        "terminal", "ai", "helixtrack-bridge"}
  \* Only the service whose behaviour this is starts in more than one state.
  /\ service # "container-bridge" =>
       \A c \in Containers : container[c] = "absent"
  /\ service # "notification" => ~sender
  /\ service # "pki" => encKey = CHOOSE p \in Passwords : TRUE
  /\ service # "ai" =>
       /\ llmTimeout = CHOOSE t \in LlmTimeouts : TRUE
       /\ writeTimeout = CHOOSE t \in WriteTimeouts : TRUE
  /\ service # "helixtrack-bridge" => coreAnswers

MCNext ==
  /\ UNCHANGED service
  /\ \/ service = "container-bridge" /\ ContainerBridgeNext
     \/ service = "billing" /\ BillingNext
     \/ service = "org" /\ OrgNext
     \/ service = "notification" /\ NotificationNext
     \/ service = "pki" /\ PkiNext
     \/ service = "terminal" /\ TerminalNext
     \/ service = "ai" /\ AiNext
     \/ service = "helixtrack-bridge" /\ TrackBridgeNext

MCSpec == MCInit /\ [][MCNext]_<<vars, service>>

Symmetric == Permutations(Calls) \cup Permutations(RowIds)
=============================================================================
