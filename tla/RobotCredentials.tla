-------------------------- MODULE RobotCredentials --------------------------
(***************************************************************************)
(* How one workspace obtains and keeps its registry credentials: the       *)
(* Harbor half of a reconcile pass (workspace.ReconcileHarbor together     *)
(* with EnsureRobot and RefreshRobotSecret of the Harbor client), the      *)
(* image pull Secret it writes, and the default ServiceAccount it links    *)
(* the Secret to.                                                          *)
(*                                                                         *)
(* Harbor shows a robot's secret once, when the robot is created, so a     *)
(* robot stands for its credentials too: the Secret holds the robot whose  *)
(* credentials it was written from.  Robot ids are never reused by Harbor; *)
(* here a new robot may be any id that nothing refers to any more, which   *)
(* keeps the model finite without bounding the number of rotations.        *)
(*                                                                         *)
(* The reconciler reads Kubernetes objects from an informer cache and      *)
(* writes them to the API server; the watch events between the two are the *)
(* sequence  watch.  Each event says whether the Secret then existed.      *)
(***************************************************************************)
EXTENDS Naturals, Sequences

CONSTANTS
    Robots,   \* ids Harbor can give to the workspace's robot account
    None,     \* no robot, no credentials, no Secret
    MaxLag,   \* how many Secret events the cache may be behind when it is read
    Budget    \* how often the environment does each disruptive thing

(***************************************************************************)
(* The disruptions: a Harbor call that fails or times out, an API call     *)
(* that fails, a crash of the operator, somebody deleting or touching the  *)
(* Secret, somebody removing the robot behind the operator's back.         *)
(***************************************************************************)
Disruptions == {"harbor", "api", "crash", "delete", "touch", "loss"}

ASSUME NoneAssumption == None \notin Robots
ASSUME MaxLagAssumption == MaxLag \in Nat
ASSUME BudgetAssumption == Budget \in [Disruptions -> Nat]

VARIABLES
    robot,        \* Harbor: the project's robot account, or None
    lateCreates,  \* create requests given up on that Harbor may still serve
    lateDeletes,  \* robots whose delete was given up on but may still happen
    secret,       \* API server: credentials in the image pull Secret, or None
    watch,        \* events about the Secret the informer has not delivered
    cache,        \* informer: does the Secret exist?
    sa,           \* API server: the namespace's default ServiceAccount
    saCache,      \* informer: the same
    queued,       \* the workspace is in the work queue (or marked dirty)
    pc,           \* where the reconcile pass is
    creds,        \* credentials the pass obtained, or None
    target,       \* robot RefreshRobotSecret is about to delete
    copy,         \* what CreateOrUpdate's Get returned for the Secret
    saSeen,       \* what CreateOrUpdate's Get returned for the ServiceAccount
    budget        \* disruptions the environment still has

harbor == <<robot, lateCreates, lateDeletes>>
pull == <<secret, watch, cache>>
account == <<sa, saCache>>
locals == <<creds, target, copy, saSeen>>
vars == <<harbor, pull, account, queued, pc, locals, budget>>

Accounts == {"absent", "bare", "linked"}
Copies == {"absent", "current", "outdated"}
Steps == {"idle", "prepare", "find", "create", "check", "refind", "delete",
          "recreate", "get", "put", "saGet", "saPut", "rest"}

(* What every variable holds. *)
TypeOK ==
    /\ robot \in Robots \cup {None}
    /\ lateCreates \in Nat
    /\ lateDeletes \subseteq Robots
    /\ secret \in Robots \cup {None}
    /\ watch \in Seq(BOOLEAN)
    /\ cache \in BOOLEAN
    /\ sa \in Accounts
    /\ saCache \in Accounts
    /\ queued \in BOOLEAN
    /\ pc \in Steps
    /\ creds \in Robots \cup {None}
    /\ target \in Robots \cup {None}
    /\ copy \in Copies
    /\ saSeen \in Accounts
    /\ budget \in [Disruptions -> Nat]

(* A workspace whose namespace exists and nothing else: the first pass created
   it and stopped there, or its creation event has just queued the workspace. *)
Init ==
    /\ robot = None /\ lateCreates = 0 /\ lateDeletes = {}
    /\ secret = None /\ watch = <<>> /\ cache = FALSE
    /\ sa = "absent" /\ saCache = "absent"
    /\ queued = TRUE /\ pc = "idle"
    /\ creds = None /\ target = None /\ copy = "absent" /\ saSeen = "absent"
    /\ budget = Budget

-----------------------------------------------------------------------------
(***************************************************************************)
(* Building blocks.                                                        *)
(***************************************************************************)

Disrupt(kind) ==
    /\ budget[kind] > 0
    /\ budget' = [budget EXCEPT ![kind] = @ - 1]

ForgetLocals ==
    /\ creds' = None /\ target' = None
    /\ copy' = "absent" /\ saSeen' = "absent"

(* Mutant of Fail: the error is swallowed and no retry is queued. *)
FailSwallowed == pc' = "idle" /\ UNCHANGED queued /\ ForgetLocals

(* The pass ends in an error, and controller-runtime queues a retry. *)
Fail == pc' = "idle" /\ queued' = TRUE /\ ForgetLocals

(* The pass goes on at the next step. *)
Goto(step) == pc' = step /\ UNCHANGED queued

(* Robot ids nothing refers to. *)
FreshRobots == Robots \ ({robot, secret, creds, target} \cup lateDeletes)

(* The cache may be read: it is at most MaxLag events behind. *)
CacheReadable == Len(watch) <= MaxLag

(* A write to the Secret outdates every copy that was read before it. *)
SecretEvent(exists) == watch' = Append(watch, exists) /\ UNCHANGED cache
OutdateCopy == copy' = IF copy = "current" THEN "outdated" ELSE copy

-----------------------------------------------------------------------------
(***************************************************************************)
(* The reconcile pass.                                                     *)
(***************************************************************************)

Start ==
    /\ pc = "idle" /\ queued
    /\ pc' = "prepare" /\ queued' = FALSE
    /\ UNCHANGED <<harbor, pull, account, locals, budget>>

(* ReconcileNamespace, OperatorHarborCredentials, EnsureProject and
   ReconcileProjectMembers come first; here they succeed, and HarborFails and
   ApiFails are their errors. *)
Prepare ==
    /\ pc = "prepare"
    /\ Goto("find")
    /\ UNCHANGED <<harbor, pull, account, locals, budget>>

(* EnsureRobot looks for the robot and creates it only if there is none. *)
EnsureRobot ==
    /\ pc = "find"
    /\ Goto(IF robot = None THEN "create" ELSE "check")
    /\ UNCHANGED <<harbor, pull, account, locals, budget>>

(* Harbor creates the robot and reveals its credentials. *)
RobotCreated ==
    /\ robot = None
    /\ \E n \in FreshRobots : robot' = n /\ creds' = n
    /\ Goto("get")
    /\ UNCHANGED <<lateCreates, lateDeletes, target, copy, saSeen>>

(* A 409: EnsureRobot reports no credentials, RefreshRobotSecret an error. *)
RobotConflict ==
    /\ robot # None
    /\ IF pc = "create" THEN Goto("check") /\ UNCHANGED locals ELSE Fail
    /\ UNCHANGED harbor

createRobot ==
    /\ pc \in {"create", "recreate"}
    /\ RobotCreated \/ RobotConflict
    /\ UNCHANGED <<pull, account, budget>>

(* Mutant: the robot is refreshed without looking at the Secret. *)
RefreshAlways ==
    /\ pc = "check" /\ CacheReadable
    /\ Goto("refind")
    /\ UNCHANGED <<harbor, pull, account, locals, budget>>

(* Mutant: an existing robot is taken to mean an existing Secret. *)
RefreshNever ==
    /\ pc = "check" /\ CacheReadable
    /\ Goto("saGet")
    /\ UNCHANGED <<harbor, pull, account, locals, budget>>

(* Without credentials the pass reads the Secret from the cache, and refreshes
   the robot when the Secret is missing there. *)
imagePullSecretMissing ==
    /\ pc = "check" /\ CacheReadable
    /\ Goto(IF cache THEN "saGet" ELSE "refind")
    /\ UNCHANGED <<harbor, pull, account, locals, budget>>

(* Mutant: the robot is not checked for nil. *)
FindRobotUnchecked ==
    /\ pc = "refind"
    /\ target' = robot /\ Goto("delete")
    /\ UNCHANGED <<creds, copy, saSeen>>
    /\ UNCHANGED <<harbor, pull, account, budget>>

(* RefreshRobotSecret finds the robot again; it must be there. *)
FindRobotToRefresh ==
    /\ pc = "refind"
    /\ \/ robot = None /\ Fail
       \/ /\ robot # None /\ target' = robot /\ Goto("delete")
          /\ UNCHANGED <<creds, copy, saSeen>>
    /\ UNCHANGED <<harbor, pull, account, budget>>

(* Deletion is by id, and a robot that is already gone is no error. *)
deleteRobot ==
    /\ pc = "delete"
    /\ robot' = IF robot = target THEN None ELSE robot
    /\ target' = None
    /\ Goto("recreate")
    /\ UNCHANGED <<lateCreates, lateDeletes, pull, account, creds, copy, saSeen, budget>>

(* reconcileImagePullSecret: CreateOrUpdate reads the Secret from the cache... *)
GetSecret ==
    /\ pc = "get" /\ CacheReadable
    /\ copy' = IF ~cache THEN "absent"
               ELSE IF watch = <<>> THEN "current" ELSE "outdated"
    /\ Goto("put")
    /\ UNCHANGED <<harbor, pull, account, creds, target, saSeen, budget>>

(* ... and then creates it, or updates the version it read. *)
WriteAccepted == \/ copy = "absent" /\ secret = None
                 \/ copy = "current"

WriteSecret == secret' = creds /\ SecretEvent(TRUE)

reconcileImagePullSecret ==
    /\ pc = "put"
    /\ \/ /\ WriteAccepted /\ WriteSecret /\ Goto("saGet") /\ ForgetLocals
       \/ /\ ~WriteAccepted /\ Fail /\ UNCHANGED pull
    /\ UNCHANGED <<harbor, account, budget>>

(* ensureImagePullSecret: CreateOrUpdate on the default ServiceAccount, which
   adds the Secret to it unless it is there. *)
GetServiceAccount ==
    /\ pc = "saGet" /\ (MaxLag = 0 => saCache = sa)
    /\ saSeen' = saCache
    /\ Goto("saPut")
    /\ UNCHANGED <<harbor, pull, account, creds, target, copy, budget>>

(* Mutant: a failed write of the ServiceAccount is logged and ignored. *)
ServiceAccountErrorIgnored ==
    /\ pc = "saPut"
    /\ sa' = IF saSeen = sa THEN "linked" ELSE sa
    /\ Goto("rest") /\ ForgetLocals
    /\ UNCHANGED <<harbor, pull, saCache, budget>>

ensureImagePullSecret ==
    /\ pc = "saPut"
    /\ \/ /\ saSeen = "linked" /\ UNCHANGED sa
          /\ Goto("rest") /\ ForgetLocals
       \/ /\ saSeen # "linked" /\ saSeen = sa /\ sa' = "linked"
          /\ Goto("rest") /\ ForgetLocals
       \/ /\ saSeen # "linked" /\ saSeen # sa /\ UNCHANGED sa
          /\ Fail
    /\ UNCHANGED <<harbor, pull, saCache, budget>>

(* The other child resources and the status, which may end in an error of
   their own (ApiFails). *)
Finish ==
    /\ pc = "rest"
    /\ Goto("idle")
    /\ UNCHANGED <<harbor, pull, account, locals, budget>>

-----------------------------------------------------------------------------
(***************************************************************************)
(* Harbor and its failures.                                                *)
(***************************************************************************)

(* A read of Harbor fails. *)
HarborFails ==
    /\ pc \in {"prepare", "find", "refind"}
    /\ Disrupt("harbor") /\ Fail
    /\ UNCHANGED <<harbor, pull, account>>

(* A create or a delete gets no answer in time.  Whether the request was lost,
   was served and only the answer was lost, or is served much later is not
   known: it becomes a late request that Harbor may serve at any time. *)
HarborTimeout ==
    /\ \/ /\ pc \in {"create", "recreate"}
          /\ lateCreates' = lateCreates + 1 /\ UNCHANGED lateDeletes
       \/ /\ pc = "delete"
          /\ lateDeletes' = lateDeletes \cup {target} /\ UNCHANGED lateCreates
    /\ Disrupt("harbor") /\ Fail
    /\ UNCHANGED <<robot, pull, account>>

(* Harbor serves a late create; nobody learns the credentials. *)
LateCreate ==
    /\ lateCreates > 0
    /\ lateCreates' = lateCreates - 1
    /\ \/ robot # None /\ UNCHANGED robot
       \/ robot = None /\ robot' \in FreshRobots
    /\ UNCHANGED <<lateDeletes, pull, account, queued, pc, locals, budget>>

(* Harbor serves a late delete. *)
LateDelete ==
    /\ \E n \in lateDeletes :
          /\ lateDeletes' = lateDeletes \ {n}
          /\ robot' = IF robot = n THEN None ELSE robot
    /\ UNCHANGED <<lateCreates, pull, account, queued, pc, locals, budget>>

(* Somebody removes the robot in Harbor. *)
RobotLost ==
    /\ robot # None /\ robot' = None
    /\ Disrupt("loss")
    /\ UNCHANGED <<lateCreates, lateDeletes, pull, account, queued, pc, locals>>

-----------------------------------------------------------------------------
(***************************************************************************)
(* The API server, the informer, the other writers, and crashes.           *)
(***************************************************************************)

(* A Kubernetes call of the pass fails without effect. *)
ApiFails ==
    /\ pc \in {"prepare", "check", "get", "put", "saGet", "saPut", "rest"}
    /\ Disrupt("api") /\ Fail
    /\ UNCHANGED <<harbor, pull, account>>

(* The Secret is written, but the pass sees an error. *)
WriteUnanswered ==
    /\ pc = "put" /\ WriteAccepted
    /\ WriteSecret
    /\ Disrupt("api") /\ Fail
    /\ UNCHANGED <<harbor, account>>

(* Mutant: Secrets are watched without being mapped to their owner. *)
DeliverUnowned ==
    /\ watch # <<>>
    /\ cache' = Head(watch) /\ watch' = Tail(watch)
    /\ UNCHANGED <<harbor, secret, account, queued, pc, locals, budget>>

(* The informer delivers an event; the controller owns the Secret, so every
   event queues the workspace. *)
DeliverEvent ==
    /\ watch # <<>>
    /\ cache' = Head(watch) /\ watch' = Tail(watch)
    /\ queued' = TRUE
    /\ UNCHANGED <<harbor, secret, account, pc, locals, budget>>

(* The informer's periodic resync replays the objects the workspace owns. *)
Resync ==
    /\ cache /\ ~queued
    /\ queued' = TRUE
    /\ UNCHANGED <<harbor, pull, account, pc, locals, budget>>

(* Kubernetes creates the default ServiceAccount of the namespace. *)
AccountCreated ==
    /\ sa = "absent"
    /\ sa' = "bare"
    /\ UNCHANGED <<harbor, pull, saCache, queued, pc, locals, budget>>

(* The workspace does not own that ServiceAccount: its events queue nothing. *)
DeliverAccount ==
    /\ saCache # sa
    /\ saCache' = sa
    /\ UNCHANGED <<harbor, pull, sa, queued, pc, locals, budget>>

(* Somebody deletes the Secret. *)
SecretDeleted ==
    /\ secret # None
    /\ secret' = None /\ SecretEvent(FALSE) /\ OutdateCopy
    /\ Disrupt("delete")
    /\ UNCHANGED <<harbor, account, queued, pc, creds, target, saSeen>>

(* Somebody changes the Secret's metadata. *)
SecretTouched ==
    /\ secret # None
    /\ UNCHANGED secret /\ SecretEvent(TRUE) /\ OutdateCopy
    /\ Disrupt("touch")
    /\ UNCHANGED <<harbor, account, queued, pc, creds, target, saSeen>>

(* The operator dies and another instance starts with fresh caches; its first
   listing queues every workspace. *)
Crash ==
    /\ Disrupt("crash")
    /\ Fail
    /\ cache' = (secret # None) /\ watch' = <<>> /\ saCache' = sa
    /\ UNCHANGED <<harbor, secret, sa>>

-----------------------------------------------------------------------------
Reconciler ==
    \/ Start \/ Prepare \/ EnsureRobot \/ createRobot \/ imagePullSecretMissing
    \/ FindRobotToRefresh \/ deleteRobot \/ GetSecret \/ reconcileImagePullSecret
    \/ GetServiceAccount \/ ensureImagePullSecret \/ Finish

Informer == DeliverEvent \/ DeliverAccount

Environment ==
    \/ HarborFails \/ HarborTimeout \/ LateCreate \/ LateDelete \/ RobotLost
    \/ ApiFails \/ WriteUnanswered \/ Resync \/ AccountCreated
    \/ SecretDeleted \/ SecretTouched \/ Crash

Next == Reconciler \/ Informer \/ Environment

Spec == Init /\ [][Next]_vars

(* The worker keeps working, and the informer delivers what it was sent; the
   environment owes nothing. *)
Fairness == WF_vars(Reconciler) /\ WF_vars(DeliverEvent) /\ WF_vars(DeliverAccount)

FairSpec == Spec /\ Fairness

-----------------------------------------------------------------------------
(* Nothing is left to do: no pass, no retry, no event. *)
Settled == pc = "idle" /\ ~queued /\ watch = <<>>

Usable == secret # None /\ secret = robot /\ sa = "linked"

(* A Secret that exists holds the credentials of the robot Harbor knows: no
   interleaving of passes, retries, late Harbor requests and crashes rotates
   them away from its users (RefreshRobotSecret must only run on a missing
   Secret).  Holds when the cache is read up to date and nobody removes the
   robot. *)
PublishedCredentialIsLive == secret # None => secret = robot

(* When the operator comes to rest, the pull Secret exists and the default
   ServiceAccount lists it, whatever failed on the way and however stale the
   cache was: every error and every lost Secret leaves a retry or an event. *)
SettledHasSecret == Settled => secret # None /\ sa = "linked"

(* Once the environment stops interfering the workspace can pull for ever:
   every failed or half-done pass of ReconcileHarbor is made good by a retry. *)
EventuallyUsable == <>[]Usable

(* The part of it that does not depend on fresh reads, nor on nobody removing the
   robot: the Secret and its link are there for good, once nobody deletes the
   Secret any more. *)
EventuallyPublished == <>[](secret # None /\ sa = "linked")

Promise == INSTANCE PullCredential
               WITH honoured <- robot, published <- secret, withdrawals <- budget["delete"]

(* The operator implements PullCredential: RefreshRobotSecret replaces a robot
   only while no Secret is published, and only the credentials of the robot in
   place are published.  Holds when the cache is read up to date and nobody
   removes the robot. *)
PromiseKept == Promise!Spec
=============================================================================
