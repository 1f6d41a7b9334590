--------------------------- MODULE Outside_proofs ---------------------------
(***************************************************************************)
(* What the services of Outside promise, side by side, for any constants   *)
(* that satisfy OutsideAssumption.  The inductive invariant of them all is *)
(* the conjunction of theirs: a step of one is no step of the others.      *)
(***************************************************************************)
EXTENDS OutsideLocal_proofs, OutsideRemote_proofs

Inv ==
  /\ BridgeInv /\ BillInv /\ OrgInv /\ NotifyInv /\ RowInv
  /\ CaInv /\ CertInv /\ TermInv /\ ModelInv /\ TrackInv

\* Every service starts as its own specification says.
LEMMA InvStart == Init => Inv
  BY BridgeStart, BillStart, OrgStart, NotifyStart, RowStart, CaStart, CertStart, TermStart,
     ModelStart, TrackStart
  DEF Init, Inv

\* A step of the services is, for each of them, its own or none.
LEMMA StepsAreTheirs ==
  [Next]_vars =>
    /\ [Bridge!Next]_bridgeVars /\ [Bill!Next]_billingVars
    /\ [Orgs!Next]_orgVars /\ [Notify!Next]_notifyVars
    /\ [Ca!Next]_pkiVars /\ [Term!Next]_terminalVars
    /\ [Model!Next]_aiVars /\ [Track!Next]_trackVars
  BY DEF Next, vars, ContainerBridgeNext, BillingNext, OrgNext, NotificationNext, PkiNext,
         TerminalNext, AiNext, TrackBridgeNext

\* So the invariant is inductive.
LEMMA InvStep == Inv /\ [Next]_vars => Inv'
  BY StepsAreTheirs, BridgeStep, BillStep, OrgStep, NotifyStep, RowStep, CaStep, CertStep,
     TermStep, ModelStep, TrackStep
  DEF Inv

\* The inductive invariant holds of every behaviour.
THEOREM Invariance == Spec => []Inv
  BY InvStart, InvStep, PTL DEF Spec

\* Every variable has its type, and so have the rows of each table their keys.
THEOREM TypeCorrect == Spec => []TypeOK
<1>1. Inv => TypeOK
  BY DEF Inv, TypeOK, BridgeInv, BillInv, OrgInv, NotifyInv, CaInv, TermInv, ModelInv, TrackInv
<1> QED
  BY <1>1, Invariance, PTL

\* container-bridge-service: the create, delete, update and reconcile handlers
\* may interleave and fail at every call to the runtime or the table: a
\* container that runs and that no row names was logged or answered for.
THEOREM OrphansAccounted == Spec => []OrphansAreAccounted
<1>1. Inv => OrphansAreAccounted
  BY BridgeImplies DEF Inv, OrphansAreAccounted
<1> QED
  BY <1>1, Invariance, PTL

\* billing-service: requests repeated under an Idempotency-Key, in parallel
\* or after a failure, make one customer and one subscription of it.
THEOREM CreatedOnce == Spec => []RetriesCreateOnce
<1>1. Inv => RetriesCreateOnce
  BY DEF Inv, BillInv, RetriesCreateOnce
<1> QED
  BY <1>1, Invariance, PTL

\* billing-service: whatever is lost between the processor's answer and the
\* INSERT, a row names a subscription that the processor has, for a customer
\* that was made for the row's organisation.
THEOREM RowsMatch == Spec => []RowsMatchProcessor
<1>1. Inv => RowsMatchProcessor
  BY DEF Inv, BillInv, RowsMatchProcessor
<1> QED
  BY <1>1, Invariance, PTL

\* org-service: the counters are what the triggers should have made of the
\* memberships, whichever stale rows are written back and in whatever order.
THEOREM CountsFollow == Spec => []CountsFollowMemberships
<1>1. Inv => CountsFollowMemberships
  BY DEF Inv, OrgInv, CountsFollowMemberships
<1> QED
  BY <1>1, Invariance, PTL

\* notification-service and helixtrack-bridge-service: a row that says sent
\* was accepted by a transport, and a row of a bridge stands on a login that
\* the core accepted.
THEOREM SuccessReal == Spec => []SuccessIsReal
<1>1. Inv => SuccessIsReal
  BY NotifyImplies DEF Inv, TrackInv, SuccessIsReal
<1> QED
  BY <1>1, Invariance, PTL

\* notification-service: the token of a push is renewed early enough, however
\* the cached one ages between the lookup and the request. ai-service: with any
\* two timeouts that main lets pass, and across restarts with others, a
\* completion leaves MinMargin for its row and its answer.
THEOREM DeadlinesMet == Spec => []DeadlinesAreMet
<1>1. Inv => DeadlinesAreMet
  BY NotifyImplies, ModelImplies DEF Inv, DeadlinesAreMet
<1> QED
  BY <1>1, Invariance, PTL

\* pki-service: no CA signs one serial number twice, and no two rows are of one
\* certificate or of none, though the counter is raised, the certificate made
\* and its row inserted in steps of their own.
THEOREM SerialsUnique == Spec => []SerialsAreUnique
<1>1. Inv => SerialsAreUnique
  BY DEF Inv, CaInv, CertInv, SerialsAreUnique, Ca!SerialsAreUnique
<1> QED
  BY <1>1, Invariance, PTL

\* terminal-service: what is read from a recording by playback covers what is
\* read from its rows, though a chunk is numbered and inserted in two steps.
THEOREM PlaybackAgrees == Spec => []PlaybackAgreesWithRows
<1>1. Inv => PlaybackAgreesWithRows
  BY TermImplies DEF Inv, PlaybackAgreesWithRows
<1> QED
  BY <1>1, Invariance, PTL

\* What was recorded stands. pki-service: a revoked certificate and a deleted
\* CA. billing-service: what a row was made for, and a cancellation at the
\* processor. notification-service: the outcome of a delivery.
\* terminal-service: a chunk's number and its place in the playback. No
\* request that is stale, repeated or cut off by a restart takes it back.
THEOREM RecordsStanding == Spec => RecordsStand
<1>1. Inv /\ [Next]_vars => CaStands /\ BillStands /\ NotifyStands /\ TermStands
  BY StepsAreTheirs, CaStays, BillStays, NotifyStays, TermStays DEF Inv
<1>2. Inv /\ [Next]_vars => /\ [CaStands]_pkiVars /\ [BillStands]_billingVars
                           /\ [NotifyStands]_notifyVars /\ [TermStands]_terminalVars
  BY <1>1
<1> QED
  BY <1>2, Invariance, PTL
  DEF Spec, RecordsStand, Ca!RevokedStay, Bill!RowsKeepTheirSubscription,
      Notify!OutcomesStand, Term!ChunksStand, CaStands, BillStands, NotifyStands, TermStands,
      pkiVars, billingVars, notifyVars, terminalVars,
      Ca!pkiVars, Bill!billingVars, Notify!notifyVars, Term!terminalVars
=============================================================================
