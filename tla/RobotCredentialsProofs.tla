----------------------- MODULE RobotCredentialsProofs -----------------------
(***************************************************************************)
(* What is proved about RobotCredentials for every set of robots, every    *)
(* lag and every budget of disruptions.                                    *)
(***************************************************************************)
EXTENDS RobotCredentials, TLAPS

(* The steps of a pass that has not yet written the Secret. *)
BeforeSecret == {"prepare", "find", "create", "check", "refind", "delete",
                 "recreate", "get", "put"}

(* The cache, once the pending events are delivered, agrees with the API
   server. *)
CacheTracks ==
    IF watch = <<>> THEN cache = (secret # None)
                    ELSE watch[Len(watch)] = (secret # None)

(* Credentials are in hand whenever the Secret is about to be written. *)
CredsInHand == pc \in {"get", "put"} => creds # None

(* What is seen of the ServiceAccount may be old, but it is never ahead. *)
AccountNotAhead ==
    /\ saCache = "linked" => sa = "linked"
    /\ saSeen = "linked" => sa = "linked"

(* A missing Secret leaves something to do. *)
SecretPending == secret = None => queued \/ watch # <<>> \/ pc \in BeforeSecret

(* A missing link leaves something to do. *)
LinkPending ==
    sa # "linked" => queued \/ pc \in BeforeSecret \cup {"saGet", "saPut"}

(* RefreshRobotSecret deletes a robot it has found. *)
TargetFound == pc = "delete" => target \in Robots

TypeInv == TypeOK /\ TargetFound

SettledInv ==
    TypeInv /\ CacheTracks /\ CredsInHand /\ AccountNotAhead /\ SecretPending
    /\ LinkPending

(* While the robot is being refreshed there is no Secret to invalidate. *)
RefreshOnlyWhenMissing ==
    pc \in {"refind", "delete", "recreate", "get", "put"} => secret = None

(* The credentials in hand are those of the robot, and no late request can
   delete it. *)
CredsAreLive ==
    pc \in {"get", "put"} => creds = robot /\ creds \notin lateDeletes

(* Nobody removes the robot, and no late request can take it from the Secret. *)
RobotIsKept == budget["loss"] = 0 /\ secret \notin lateDeletes

LiveInv ==
    SettledInv /\ PublishedCredentialIsLive /\ RobotIsKept
    /\ RefreshOnlyWhenMissing /\ CredsAreLive

-----------------------------------------------------------------------------
(***************************************************************************)
(* Type correctness.                                                       *)
(***************************************************************************)

(* A freshly created workspace satisfies the type invariant. *)
LEMMA TypeInit == Init => TypeInv
<1> SUFFICES ASSUME Init PROVE TypeInv
  OBVIOUS
<1>1. watch \in Seq(BOOLEAN)
  BY DEF Init
<1>2. cache \in BOOLEAN /\ queued \in BOOLEAN
  BY DEF Init
<1>3. QED
  BY <1>1, <1>2, BudgetAssumption
  DEF Init, TypeInv, TypeOK, TargetFound, Accounts, Copies, Steps

(* Every step of the pass, of Harbor and of the cluster preserves it. *)
LEMMA TypeStep == TypeInv /\ [Next]_vars => TypeInv'
<1> SUFFICES ASSUME TypeInv, [Next]_vars PROVE TypeInv'
  OBVIOUS
<1> USE DEF TypeInv, TypeOK, TargetFound, Goto, Fail, ForgetLocals, Disrupt, harbor, pull, account, locals,
            Accounts, Copies, Steps, Disruptions
<1>1. CASE Start
  BY <1>1 DEF Start
<1>2. CASE Prepare
  BY <1>2 DEF Prepare
<1>3. CASE EnsureRobot
  BY <1>3 DEF EnsureRobot
<1>4. CASE createRobot
  BY <1>4 DEF createRobot, RobotCreated, RobotConflict, FreshRobots
<1>5. CASE imagePullSecretMissing
  BY <1>5 DEF imagePullSecretMissing
<1>6. CASE FindRobotToRefresh
  BY <1>6 DEF FindRobotToRefresh
<1>7. CASE deleteRobot
  BY <1>7 DEF deleteRobot
<1>8. CASE GetSecret
  BY <1>8 DEF GetSecret
<1>9. CASE reconcileImagePullSecret
  <2>1. CASE WriteAccepted /\ WriteSecret /\ Goto("saGet") /\ ForgetLocals
    BY <1>9, <2>1 DEF reconcileImagePullSecret, WriteSecret, SecretEvent
  <2>2. CASE Fail /\ UNCHANGED pull
    BY <1>9, <2>2 DEF reconcileImagePullSecret
  <2>3. QED
    BY <1>9, <2>1, <2>2 DEF reconcileImagePullSecret
<1>10. CASE GetServiceAccount
  BY <1>10 DEF GetServiceAccount
<1>11. CASE ensureImagePullSecret
  BY <1>11 DEF ensureImagePullSecret
<1>12. CASE Finish
  BY <1>12 DEF Finish
<1>13. CASE DeliverEvent
  BY <1>13 DEF DeliverEvent
<1>14. CASE DeliverAccount
  BY <1>14 DEF DeliverAccount
<1>15. CASE HarborFails
  BY <1>15 DEF HarborFails
<1>16. CASE HarborTimeout
  BY <1>16 DEF HarborTimeout
<1>17. CASE LateCreate
  BY <1>17 DEF LateCreate, FreshRobots
<1>18. CASE LateDelete
  BY <1>18 DEF LateDelete
<1>19. CASE RobotLost
  BY <1>19 DEF RobotLost
<1>20. CASE ApiFails
  BY <1>20 DEF ApiFails
<1>21. CASE WriteUnanswered
  BY <1>21 DEF WriteUnanswered, WriteSecret, SecretEvent
<1>22. CASE Resync
  BY <1>22 DEF Resync
<1>23. CASE AccountCreated
  BY <1>23 DEF AccountCreated
<1>24. CASE SecretDeleted
  BY <1>24 DEF SecretDeleted, SecretEvent, OutdateCopy
<1>25. CASE SecretTouched
  BY <1>25 DEF SecretTouched, SecretEvent, OutdateCopy
<1>26. CASE Crash
  BY <1>26 DEF Crash
<1>27. CASE UNCHANGED vars
  BY <1>27 DEF vars
<1>28. QED
  BY <1>1, <1>2, <1>3, <1>4, <1>5, <1>6, <1>7, <1>8, <1>9, <1>10, <1>11, <1>12,
     <1>13, <1>14, <1>15, <1>16, <1>17, <1>18, <1>19, <1>20, <1>21, <1>22, <1>23,
     <1>24, <1>25, <1>26, <1>27 DEF Next, Reconciler, Informer, Environment

(* Every step keeps every variable in its type, so the operations of
   ReconcileHarbor never leave the states the model describes. *)
THEOREM TypeCorrect == Spec => []TypeOK
<1>1. TypeInv => TypeOK
  BY DEF TypeInv
<1>2. QED
  BY TypeInit, TypeStep, <1>1, PTL DEF Spec

-----------------------------------------------------------------------------
(***************************************************************************)
(* The cache and the events on their way to it.                            *)
(***************************************************************************)

(* Appending the outcome of a write keeps the last pending event up to date. *)
LEMMA EventTracks ==
    ASSUME NEW s \in Seq(BOOLEAN), NEW e \in BOOLEAN
    PROVE  /\ Append(s, e) # <<>>
           /\ Append(s, e)[Len(Append(s, e))] = e
  OBVIOUS

(* Every write to the Secret is followed by the event that tells the informer,
   and a restart lists the Secret afresh. *)
LEMMA CacheStep == TypeInv /\ CacheTracks /\ CredsInHand /\ [Next]_vars => CacheTracks'
<1> SUFFICES ASSUME TypeInv, CacheTracks, CredsInHand, [Next]_vars PROVE CacheTracks'
  OBVIOUS
<1> USE DEF CacheTracks, TypeInv, TypeOK
<1>1. CASE UNCHANGED pull
  BY <1>1 DEF pull
<1>2. ASSUME WriteSecret, pc = "put" PROVE CacheTracks'
  <2>1. secret' # None /\ watch' = Append(watch, TRUE)
    BY <1>2 DEF WriteSecret, SecretEvent, CredsInHand
  <2>2. QED
    BY <2>1, EventTracks
<1>3. CASE SecretDeleted
  <2>1. secret' = None /\ watch' = Append(watch, FALSE)
    BY <1>3 DEF SecretDeleted, SecretEvent
  <2>2. QED
    BY <2>1, EventTracks
<1>4. CASE SecretTouched
  <2>1. secret' # None /\ watch' = Append(watch, TRUE)
    BY <1>4 DEF SecretTouched, SecretEvent
  <2>2. QED
    BY <2>1, EventTracks
<1>5. CASE DeliverEvent
  <2>1. secret' = secret /\ watch # <<>> /\ watch' = Tail(watch) /\ cache' = watch[1]
    BY <1>5 DEF DeliverEvent
  <2>2. CASE Len(watch) = 1
    BY <2>1, <2>2
  <2>3. CASE Len(watch) > 1
    <3>1. watch' # <<>> /\ Len(watch') = Len(watch) - 1
      BY <2>1, <2>3
    <3>2. watch'[Len(watch')] = watch[Len(watch)]
      BY <2>1, <2>3, <3>1
    <3>3. QED
      BY <2>1, <3>1, <3>2
  <2>4. QED
    BY <2>1, <2>2, <2>3
<1>6. CASE Crash
  BY <1>6 DEF Crash
<1>7. QED
  BY <1>1, <1>2, <1>3, <1>4, <1>5, <1>6
  DEF Next, Reconciler, Informer, Environment, vars, Start, Prepare, EnsureRobot,
      createRobot, imagePullSecretMissing, FindRobotToRefresh, deleteRobot, GetSecret,
      reconcileImagePullSecret, GetServiceAccount, ensureImagePullSecret, Finish,
      DeliverAccount, HarborFails, HarborTimeout, LateCreate, LateDelete, RobotLost,
      ApiFails, WriteUnanswered, Resync, AccountCreated

-----------------------------------------------------------------------------
(***************************************************************************)
(* Coming to rest.                                                         *)
(***************************************************************************)

(* The work that is left after a step: a missing Secret or a missing link keeps
   the workspace queued, an event pending or a pass under way. *)
LEMMA PendingStep ==
    SettledInv /\ [Next]_vars
      => CredsInHand' /\ AccountNotAhead' /\ SecretPending' /\ LinkPending'
<1> SUFFICES ASSUME SettledInv, [Next]_vars
             PROVE  CredsInHand' /\ AccountNotAhead' /\ SecretPending' /\ LinkPending'
  OBVIOUS
<1> USE NoneAssumption
    DEF SettledInv, TypeInv, TypeOK, CacheTracks, CredsInHand, AccountNotAhead,
        SecretPending, LinkPending, BeforeSecret, Goto, Fail, ForgetLocals, harbor, pull,
        account, locals, Accounts, Steps
<1>1. CASE Start
  BY <1>1 DEF Start
<1>2. CASE Prepare
  BY <1>2 DEF Prepare
<1>3. CASE EnsureRobot
  BY <1>3 DEF EnsureRobot
<1>4. CASE createRobot
  BY <1>4 DEF createRobot, RobotCreated, RobotConflict, FreshRobots
<1>5. CASE imagePullSecretMissing
  BY <1>5 DEF imagePullSecretMissing, CacheReadable
<1>6. CASE FindRobotToRefresh
  BY <1>6 DEF FindRobotToRefresh
<1>7. CASE deleteRobot
  BY <1>7 DEF deleteRobot
<1>8. CASE GetSecret
  BY <1>8 DEF GetSecret, CacheReadable
<1>9. CASE reconcileImagePullSecret
  BY <1>9 DEF reconcileImagePullSecret, WriteSecret, WriteAccepted, SecretEvent
<1>10. CASE GetServiceAccount
  BY <1>10 DEF GetServiceAccount
<1>11. CASE ensureImagePullSecret
  BY <1>11 DEF ensureImagePullSecret
<1>12. CASE Finish
  BY <1>12 DEF Finish
<1>13. CASE DeliverEvent
  BY <1>13 DEF DeliverEvent
<1>14. CASE DeliverAccount
  BY <1>14 DEF DeliverAccount
<1>15. CASE HarborFails
  BY <1>15 DEF HarborFails
<1>16. CASE HarborTimeout
  BY <1>16 DEF HarborTimeout
<1>17. CASE LateCreate
  BY <1>17 DEF LateCreate, FreshRobots
<1>18. CASE LateDelete
  BY <1>18 DEF LateDelete
<1>19. CASE RobotLost
  BY <1>19 DEF RobotLost
<1>20. CASE ApiFails
  BY <1>20 DEF ApiFails
<1>21. CASE WriteUnanswered
  BY <1>21 DEF WriteUnanswered, WriteSecret, WriteAccepted, SecretEvent
<1>22. CASE Resync
  BY <1>22 DEF Resync
<1>23. CASE AccountCreated
  BY <1>23 DEF AccountCreated
<1>24. CASE SecretDeleted
  <2>1. watch' # <<>>
    BY <1>24, EventTracks DEF SecretDeleted, SecretEvent
  <2>2. QED
    BY <1>24, <2>1 DEF SecretDeleted
<1>25. CASE SecretTouched
  BY <1>25 DEF SecretTouched, SecretEvent, OutdateCopy
<1>26. CASE Crash
  BY <1>26 DEF Crash
<1>27. CASE UNCHANGED vars
  BY <1>27 DEF vars
<1>28. QED
  BY <1>1, <1>2, <1>3, <1>4, <1>5, <1>6, <1>7, <1>8, <1>9, <1>10, <1>11, <1>12,
     <1>13, <1>14, <1>15, <1>16, <1>17, <1>18, <1>19, <1>20, <1>21, <1>22, <1>23, <1>24, <1>25, <1>26, <1>27
  DEF Next, Reconciler, Informer, Environment

(* For every lag and every budget of disruptions: when the operator comes to
   rest, ReconcileHarbor has left the pull Secret and its link in place. *)
THEOREM SettledTheorem == Spec => []SettledHasSecret
<1>1. Init => SettledInv
  BY TypeInit DEF Init, SettledInv, CacheTracks, CredsInHand, AccountNotAhead,
                  SecretPending, LinkPending
<1>2. SettledInv /\ [Next]_vars => SettledInv'
  BY TypeStep, CacheStep, PendingStep DEF SettledInv
<1>3. SettledInv => SettledHasSecret
  BY DEF SettledInv, SecretPending, LinkPending, BeforeSecret, SettledHasSecret, Settled
<1>4. QED
  BY <1>1, <1>2, <1>3, PTL DEF Spec

-----------------------------------------------------------------------------
(***************************************************************************)
(* No live credential is rotated away.                                     *)
(***************************************************************************)

(* With up-to-date reads a step invalidates a robot only when there is no
   Secret, and writes only the credentials of the robot Harbor holds. *)
LEMMA LiveStep ==
    MaxLag = 0 /\ LiveInv /\ [Next]_vars
      => /\ PublishedCredentialIsLive' /\ RobotIsKept'
         /\ RefreshOnlyWhenMissing' /\ CredsAreLive'
<1> SUFFICES ASSUME MaxLag = 0, LiveInv, [Next]_vars
             PROVE  /\ PublishedCredentialIsLive' /\ RobotIsKept'
                    /\ RefreshOnlyWhenMissing' /\ CredsAreLive'
  OBVIOUS
<1> USE NoneAssumption
    DEF LiveInv, SettledInv, TypeInv, TypeOK, TargetFound, CacheTracks, CredsInHand,
        PublishedCredentialIsLive, RobotIsKept, RefreshOnlyWhenMissing, CredsAreLive,
        Goto, Fail, ForgetLocals, Disrupt, Disruptions, harbor, pull, account, locals
<1>1. CASE Start
  BY <1>1 DEF Start
<1>2. CASE Prepare
  BY <1>2 DEF Prepare
<1>3. CASE EnsureRobot
  BY <1>3 DEF EnsureRobot
<1>4. CASE createRobot
  BY <1>4 DEF createRobot, RobotCreated, RobotConflict, FreshRobots
<1>5. CASE imagePullSecretMissing
  BY <1>5 DEF imagePullSecretMissing, CacheReadable
<1>6. CASE FindRobotToRefresh
  BY <1>6 DEF FindRobotToRefresh
<1>7. CASE deleteRobot
  BY <1>7 DEF deleteRobot
<1>8. CASE GetSecret
  BY <1>8 DEF GetSecret, CacheReadable
<1>9. CASE reconcileImagePullSecret
  BY <1>9 DEF reconcileImagePullSecret, WriteSecret, WriteAccepted, SecretEvent
<1>10. CASE GetServiceAccount
  BY <1>10 DEF GetServiceAccount
<1>11. CASE ensureImagePullSecret
  BY <1>11 DEF ensureImagePullSecret
<1>12. CASE Finish
  BY <1>12 DEF Finish
<1>13. CASE DeliverEvent
  BY <1>13 DEF DeliverEvent
<1>14. CASE DeliverAccount
  BY <1>14 DEF DeliverAccount
<1>15. CASE HarborFails
  BY <1>15 DEF HarborFails
<1>16. CASE HarborTimeout
  BY <1>16 DEF HarborTimeout
<1>17. CASE LateCreate
  BY <1>17 DEF LateCreate, FreshRobots
<1>18. CASE LateDelete
  BY <1>18 DEF LateDelete
<1>19. CASE RobotLost
  BY <1>19 DEF RobotLost
<1>20. CASE ApiFails
  BY <1>20 DEF ApiFails
<1>21. CASE WriteUnanswered
  BY <1>21 DEF WriteUnanswered, WriteSecret, WriteAccepted, SecretEvent
<1>22. CASE Resync
  BY <1>22 DEF Resync
<1>23. CASE AccountCreated
  BY <1>23 DEF AccountCreated
<1>24. CASE SecretDeleted
  BY <1>24 DEF SecretDeleted, SecretEvent, OutdateCopy
<1>25. CASE SecretTouched
  BY <1>25 DEF SecretTouched, SecretEvent, OutdateCopy
<1>26. CASE Crash
  BY <1>26 DEF Crash
<1>27. CASE UNCHANGED vars
  BY <1>27 DEF vars
<1>28. QED
  BY <1>1, <1>2, <1>3, <1>4, <1>5, <1>6, <1>7, <1>8, <1>9, <1>10, <1>11, <1>12,
     <1>13, <1>14, <1>15, <1>16, <1>17, <1>18, <1>19, <1>20, <1>21, <1>22, <1>23, <1>24, <1>25, <1>26, <1>27
  DEF Next, Reconciler, Informer, Environment

(* A freshly created workspace satisfies LiveInv. *)
LEMMA LiveInit ==
    ASSUME Budget["loss"] = 0
    PROVE  Init => LiveInv
  BY TypeInit, NoneAssumption
  DEF Init, LiveInv, SettledInv, CacheTracks, CredsInHand, AccountNotAhead, SecretPending,
      LinkPending, PublishedCredentialIsLive, RobotIsKept, RefreshOnlyWhenMissing,
      CredsAreLive

(* When the cache is read up to date and nobody removes the robot, a Secret
   that exists always holds the credentials of the robot in Harbor, whatever
   fails, times out, arrives late or crashes: an intact Secret is never rotated
   out from under its users. *)
THEOREM LiveTheorem ==
    ASSUME MaxLag = 0, Budget["loss"] = 0
    PROVE  Spec => []PublishedCredentialIsLive
<1>1. Init => LiveInv
  BY LiveInit
<1>2. LiveInv /\ [Next]_vars => LiveInv'
  BY TypeStep, CacheStep, PendingStep, LiveStep DEF LiveInv, SettledInv
<1>3. LiveInv => PublishedCredentialIsLive
  BY DEF LiveInv
<1>4. QED
  BY <1>1, <1>2, <1>3, PTL DEF Spec

-----------------------------------------------------------------------------
(***************************************************************************)
(* The promise to the pods.                                                *)
(***************************************************************************)

(* Every step issues, revokes, publishes or withdraws credentials the way
   PullCredential allows, or does none of these. *)
LEMMA PromiseStep ==
    MaxLag = 0 /\ LiveInv /\ [Next]_vars => [Promise!Next]_(Promise!vars)
<1> SUFFICES ASSUME MaxLag = 0, LiveInv, [Next]_vars
             PROVE  Promise!Next \/ UNCHANGED Promise!vars
  OBVIOUS
<1> USE NoneAssumption
    DEF LiveInv, SettledInv, TypeInv, TypeOK, TargetFound, CredsInHand,
        PublishedCredentialIsLive, RobotIsKept, RefreshOnlyWhenMissing, CredsAreLive,
        Goto, Fail, Disrupt, Disruptions, harbor, pull,
        Promise!Next, Promise!Issue, Promise!Revoke, Promise!Publish, Promise!Withdraw,
        Promise!vars
<1>1. CASE Start
  BY <1>1 DEF Start
<1>2. CASE Prepare
  BY <1>2 DEF Prepare
<1>3. CASE EnsureRobot
  BY <1>3 DEF EnsureRobot
<1>4. CASE createRobot
  BY <1>4 DEF createRobot, RobotCreated, RobotConflict, FreshRobots
<1>5. CASE imagePullSecretMissing
  BY <1>5 DEF imagePullSecretMissing
<1>6. CASE FindRobotToRefresh
  BY <1>6 DEF FindRobotToRefresh
<1>7. CASE deleteRobot
  BY <1>7 DEF deleteRobot
<1>8. CASE GetSecret
  BY <1>8 DEF GetSecret
<1>9. CASE reconcileImagePullSecret
  BY <1>9 DEF reconcileImagePullSecret, WriteSecret
<1>10. CASE GetServiceAccount
  BY <1>10 DEF GetServiceAccount
<1>11. CASE ensureImagePullSecret
  BY <1>11 DEF ensureImagePullSecret
<1>12. CASE Finish
  BY <1>12 DEF Finish
<1>13. CASE DeliverEvent
  BY <1>13 DEF DeliverEvent
<1>14. CASE DeliverAccount
  BY <1>14 DEF DeliverAccount
<1>15. CASE HarborFails
  BY <1>15 DEF HarborFails
<1>16. CASE HarborTimeout
  BY <1>16 DEF HarborTimeout
<1>17. CASE LateCreate
  BY <1>17 DEF LateCreate, FreshRobots
<1>18. CASE LateDelete
  BY <1>18 DEF LateDelete
<1>19. CASE RobotLost
  BY <1>19 DEF RobotLost
<1>20. CASE ApiFails
  BY <1>20 DEF ApiFails
<1>21. CASE WriteUnanswered
  BY <1>21 DEF WriteUnanswered, WriteSecret
<1>22. CASE Resync
  BY <1>22 DEF Resync
<1>23. CASE AccountCreated
  BY <1>23 DEF AccountCreated
<1>24. CASE SecretDeleted
  BY <1>24 DEF SecretDeleted
<1>25. CASE SecretTouched
  BY <1>25 DEF SecretTouched
<1>26. CASE Crash
  BY <1>26 DEF Crash
<1>27. CASE UNCHANGED vars
  BY <1>27 DEF vars
<1>28. QED
  BY <1>1, <1>2, <1>3, <1>4, <1>5, <1>6, <1>7, <1>8, <1>9, <1>10, <1>11, <1>12,
     <1>13, <1>14, <1>15, <1>16, <1>17, <1>18, <1>19, <1>20, <1>21, <1>22, <1>23, <1>24, <1>25, <1>26, <1>27
  DEF Next, Reconciler, Informer, Environment

(* When the cache is read up to date and nobody removes the robot, the operator
   implements PullCredential: the robot behind a published Secret is never
   replaced, and only the credentials of the robot in place are published. *)
THEOREM PromiseTheorem ==
    ASSUME MaxLag = 0, Budget["loss"] = 0
    PROVE  Spec => PromiseKept
<1>1. Init => LiveInv
  BY LiveInit
<1>2. Init => Promise!Init
  BY DEF Init, Promise!Init
<1>3. LiveInv /\ [Next]_vars => LiveInv'
  BY TypeStep, CacheStep, PendingStep, LiveStep DEF LiveInv, SettledInv
<1>4. LiveInv /\ [Next]_vars => [Promise!Next]_(Promise!vars)
  BY PromiseStep
<1>5. QED
  BY <1>1, <1>2, <1>3, <1>4, PTL DEF Spec, PromiseKept, Promise!Spec
=============================================================================
