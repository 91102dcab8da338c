----------------------- MODULE WorkspaceAccessProofs -----------------------
(***************************************************************************)
(* Proofs about WorkspaceAccess: for any users, member lists and number of *)
(* overlapping requests, only an authorized user changes the Workspace,    *)
(* its user labels are those of its members, and when the operator rests   *)
(* the RoleBindings give what the member list says or the status reports   *)
(* that the Namespace is somebody else's.                                  *)
(***************************************************************************)
EXTENDS WorkspaceAccess, WatchLemmas

(***************************************************************************)
(* What is known of the requests that are under way.  Past the mutating    *)
(* webhook a request carries the labels of its members; while it is        *)
(* current, the object it was judged by is the one that is stored; and it  *)
(* is approved only for a user the judged object, or a group, gives the    *)
(* right to.                                                               *)
(***************************************************************************)
Held(u) == request[u] # None

RequestsMirror ==
    \A u \in Users : Held(u) /\ request[u].stage # "default" =>
        request[u].labels = Subjects(request[u].new)

CurrentIsStored ==
    \A u \in Users : Held(u) /\ request[u].current => request[u].old = members

ApprovedByList ==
    \A u \in Users : Held(u) /\ request[u].stage = "approved" =>
        u \in Privileged \/ isWorkspaceAdmin(u, Judged(request[u]))

TypeRequests == members \in MemberLists /\ request \in [Users -> Request \cup {None}]

AdmissionInv ==
    /\ TypeRequests
    /\ RequestsMirror
    /\ CurrentIsStored
    /\ ApprovedByList
    /\ LabelsMirrorMembers

-----------------------------------------------------------------------------
(* Nobody has asked for anything yet. *)
LEMMA AdmissionInit == Init => AdmissionInv
  BY DEF Init, AdmissionInv, TypeRequests, MemberLists, Roles, RequestsMirror, CurrentIsStored,
         ApprovedByList, LabelsMirrorMembers, Held, Subjects

(* Every step keeps what is known of the requests. *)
LEMMA AdmissionStep == AdmissionInv /\ [Next]_vars => AdmissionInv'
<1> SUFFICES ASSUME AdmissionInv, [Next]_vars PROVE AdmissionInv'
  OBVIOUS
<1> USE NoneAssumption, ListsAssumption
    DEF AdmissionInv, TypeRequests, RequestsMirror, CurrentIsStored, ApprovedByList,
        LabelsMirrorMembers, Held, Request, stored
<1>1. CASE UNCHANGED <<stored, request>>
  BY <1>1 DEF Subjects, Judged, isWorkspaceAdmin
<1>2. ASSUME NEW u \in Users, Submit(u) PROVE AdmissionInv'
  BY <1>2 DEF Submit, AdmissionOnly, Subjects, MemberLists
<1>3. ASSUME NEW u \in Users, Default(u) PROVE AdmissionInv'
  BY <1>3 DEF Default, AdmissionOnly, Stage, Refuse, Subjects
<1>4. ASSUME NEW u \in Users, Authorize(u) PROVE AdmissionInv'
  BY <1>4 DEF Authorize, AdmissionOnly, Stage, Advance, Judged, isWorkspaceAdmin
<1>5. ASSUME NEW u \in Users, hasClusterWideAccess(u) PROVE AdmissionInv'
  BY <1>5 DEF hasClusterWideAccess, AdmissionOnly, Stage, Advance, Refuse, Judged
<1>6. ASSUME NEW u \in Users, ReviewFails(u) \/ StoreRefused(u) PROVE AdmissionInv'
  BY <1>6 DEF ReviewFails, StoreRefused, AdmissionOnly, Refuse, Judged
<1>7. ASSUME NEW u \in Users, Store(u) PROVE AdmissionInv'
  <2>1. request[u] \in Request /\ request[u].labels = Subjects(request[u].new)
    BY <1>7 DEF Store, Stage
  <2>2. \A v \in Users : request'[v] # None =>
            /\ request[v] \in Request /\ request'[v] \in Request
            /\ request'[v].stage = request[v].stage /\ request'[v].old = request[v].old
            /\ request'[v].new = request[v].new /\ request'[v].labels = request[v].labels
            /\ request'[v].current = FALSE
    BY <1>7 DEF Store
  <2>3. request' \in [Users -> Request \cup {None}] /\ members' \in MemberLists
    <3>1. request' = [v \in Users |-> request'[v]]
      BY <1>7 DEF Store
    <3>2. QED
      BY <1>7, <2>1, <2>2, <3>1 DEF Store
  <2>4. (labels = Subjects(members))'
    BY <1>7, <2>1 DEF Store, Subjects
  <2>5. RequestsMirror' /\ CurrentIsStored'
    BY <2>2 DEF Subjects
  <2>6. ApprovedByList'
    BY <2>2 DEF Judged, isWorkspaceAdmin
  <2>7. QED
    BY <2>3, <2>4, <2>5, <2>6
<1>8. ASSUME NEW u \in Users, Retry(u) PROVE AdmissionInv'
  <2>1. request[u] \in Request /\ request[u].labels = Subjects(request[u].new)
    BY <1>8 DEF Retry, Stage
  <2>2. \A v \in Users \ {u} : request'[v] = request[v]
    BY <1>8 DEF Retry
  <2>3. /\ request'[u] \in Request
        /\ request'[u].labels = request[u].labels /\ request'[u].new = request[u].new
        /\ request'[u].old = members /\ request'[u].stage \in {"authorize", "default"}
    BY <1>8, <2>1 DEF Retry
  <2>4. UNCHANGED <<members, labels>>
    BY <1>8 DEF Retry, AdmissionOnly
  <2>5. TypeRequests'
    BY <1>8, <2>2, <2>3, <2>4 DEF Retry
  <2>6. RequestsMirror' /\ CurrentIsStored'
    BY <2>1, <2>2, <2>3, <2>4 DEF Subjects
  <2>7. ApprovedByList'
    BY <2>2, <2>3 DEF Judged, isWorkspaceAdmin
  <2>8. QED
    BY <2>4, <2>5, <2>6, <2>7 DEF Subjects
<1>9. CASE Crash
  BY <1>9 DEF Crash, Stage, Judged
<1>10. CASE Worker
  BY <1>1, <1>10
  DEF Worker, Reconcile, Prepare, reconcileRoleBinding, FinishPass, PassOnly
<1>11. CASE Deliver
  BY <1>1, <1>11 DEF Deliver
<1>12. CASE Environment /\ ~Crash
  BY <1>1, <1>12
  DEF Environment, PassFails, Collect, NamespaceChanges, AccessChanges, Tamper, Replace, PassOnly
<1>13. CASE UNCHANGED vars
  BY <1>1, <1>13 DEF vars
<1>14. QED
  BY <1>2, <1>3, <1>4, <1>5, <1>6, <1>7, <1>8, <1>9, <1>10, <1>11, <1>12, <1>13
  DEF Next, Admission

-----------------------------------------------------------------------------
(* The user labels mirror the members in every state, for any requests. *)
THEOREM LabelsTheorem == Spec => []LabelsMirrorMembers
<1>1. AdmissionInv => LabelsMirrorMembers
  BY DEF AdmissionInv
<1>2. QED
  BY <1>1, AdmissionInit, AdmissionStep, PTL DEF Spec

(* A step changes the member list only by storing a request of its author. *)
LEMMA OnlyStoreChanges ==
    [Next]_vars /\ members' # members => \E u \in Users : Store(u)
<1> SUFFICES ASSUME [Next]_vars, members' # members PROVE \E u \in Users : Store(u)
  OBVIOUS
<1> USE DEF stored, AdmissionOnly, PassOnly
<1>1. ~Worker
  BY DEF Worker, Reconcile, Prepare, reconcileRoleBinding, FinishPass
<1>2. ~Deliver
  BY DEF Deliver
<1>3. ~Environment
  BY DEF Environment, PassFails, Crash, Collect, NamespaceChanges, AccessChanges, Tamper, Replace
<1>4. ~UNCHANGED vars
  BY DEF vars
<1>5. \A u \in Users : ~(Submit(u) \/ Default(u) \/ Authorize(u) \/ hasClusterWideAccess(u)
                         \/ ReviewFails(u) \/ Retry(u) \/ StoreRefused(u))
  BY DEF Submit, Default, Authorize, hasClusterWideAccess, ReviewFails, Retry, StoreRefused
<1>6. QED
  BY <1>1, <1>2, <1>3, <1>4, <1>5 DEF Next, Admission

(* Whoever changes or deletes the Workspace was entitled to by the version that
   is replaced, by a privileged group or by the cluster authorizer, however many
   requests overlap. *)
THEOREM NoEscalationTheorem == Spec => NoEscalation
<1> DEFINE Entitled(u) ==
        /\ request[u] # None /\ request'[u] = None
        /\ \/ u \in Privileged \/ request[u].stage = "reviewed"
           \/ isWorkspaceAdmin(u, IF members = {} THEN members' ELSE members)
<1>1. ASSUME AdmissionInv, NEW u \in Users, Store(u)
      PROVE  Entitled(u)
  BY <1>1, NoneAssumption
  DEF Store, Stage, AdmissionInv, TypeRequests, CurrentIsStored, ApprovedByList, Held, Judged
<1>2. AdmissionInv /\ [Next]_vars => [members' # members => \E u \in Users : Entitled(u)]_vars
  BY <1>1, OnlyStoreChanges
<1>3. QED
  BY <1>2, AdmissionInit, AdmissionStep, PTL DEF Spec, NoEscalation
-----------------------------------------------------------------------------
(***************************************************************************)
(* Type correctness.                                                       *)
(***************************************************************************)

(* The parts of the type invariant that admission does not cover. *)
TypeInformer ==
    /\ labels \subseteq Users /\ born \in BOOLEAN /\ clusterWide \subseteq Users
    /\ watch \in Seq(MemberLists) /\ cache \in MemberLists

TypePass ==
    /\ namespace \in {"absent", "own", "foreign"} /\ conflict \in BOOLEAN
    /\ bindings \in [Roles -> Binding \cup {None}] /\ queued \in BOOLEAN
    /\ pc \in {"idle", "prepare", "rest"} \cup Roles
    /\ copy \in MemberLists /\ (copy = {} <=> pc = "idle")

TypeBudget == budget \in [Disruptions -> Nat]

(* Disruptions use the budget up. *)
LEMMA DisruptType ==
    ASSUME TypeBudget, NEW kind \in Disruptions \ {"any"}, Disrupt(kind)
    PROVE  TypeBudget'
<1>1. "any" \in Disruptions /\ budget["any"] - 1 \in Nat /\ budget[kind] - 1 \in Nat
  BY DEF TypeBudget, Disrupt, Disruptions
<1>2. QED
  BY <1>1 DEF TypeBudget, Disrupt

(* No Workspace yet. *)
LEMMA TypeInit == Init => TypeInformer /\ TypePass /\ TypeBudget
<1> SUFFICES ASSUME Init PROVE TypeInformer /\ TypePass /\ TypeBudget
  OBVIOUS
<1>1. TypeInformer
  <2>1. {} \in MemberLists
    BY DEF MemberLists
  <2>2. watch \in Seq(MemberLists)
    BY DEF Init
  <2>3. QED
    BY <2>1, <2>2 DEF Init, TypeInformer
<1>2. TypePass
  BY DEF Init, Emptied, TypePass, MemberLists, Roles
<1>3. TypeBudget
  BY BoundsAssumption DEF Init, TypeBudget
<1>4. QED
  BY <1>1, <1>2, <1>3

(* Every step keeps every variable in its type: in particular a pass has a
   Workspace to work on at every step. *)
LEMMA TypeStep ==
    ASSUME TypeRequests, TypeInformer, TypePass, TypeBudget, [Next]_vars
    PROVE  TypeInformer' /\ TypePass' /\ TypeBudget'
<1> DEFINE Typed == TypeInformer' /\ TypePass' /\ TypeBudget'
<1> USE NoneAssumption DEF stored, tenancy, informer, pass
<1>a. UNCHANGED <<labels, born, clusterWide, watch, cache>> => TypeInformer'
  BY DEF TypeInformer
<1>b. UNCHANGED <<namespace, conflict, bindings, queued, pc, copy>> => TypePass'
  BY DEF TypePass
<1>c. UNCHANGED budget => TypeBudget'
  BY DEF TypeBudget
<1> HIDE DEF Typed
<1>1. ASSUME NEW u \in Users, Submit(u) PROVE Typed
  <2>1. TypeBudget'
    BY <1>1 DEF Submit, TypeBudget, Disruptions
  <2>2. QED
    BY <1>1, <2>1, <1>a, <1>b DEF Submit, AdmissionOnly, Typed
<1>2. ASSUME NEW u \in Users,
             \/ Default(u) \/ Authorize(u) \/ hasClusterWideAccess(u) \/ Retry(u) \/ StoreRefused(u)
      PROVE  Typed
  BY <1>2, <1>a, <1>b, <1>c
  DEF Default, Authorize, hasClusterWideAccess, Retry, StoreRefused, AdmissionOnly, Typed
<1>3. ASSUME NEW u \in Users, ReviewFails(u) PROVE Typed
  BY <1>3, <1>a, <1>b, DisruptType DEF ReviewFails, AdmissionOnly, Typed, Disruptions
<1>4. ASSUME NEW u \in Users, Store(u) PROVE Typed
  <2>1. request[u] \in Request
    BY <1>4 DEF Store, Stage, TypeRequests
  <2>2. TypeInformer'
    BY <1>4, <2>1 DEF Store, TypeInformer, Request
  <2>3. QED
    BY <1>4, <2>2, <1>b, <1>c DEF Store, Typed
<1>5. ASSUME NEW u \in Users, AccessChanges(u) PROVE Typed
  <2>1. TypeInformer'
    BY <1>5 DEF AccessChanges, TypeInformer
  <2>2. QED
    BY <1>5, <2>1, <1>b, DisruptType DEF AccessChanges, Typed, Disruptions
<1>6. CASE Reconcile \/ Prepare \/ FinishPass
  <2>1. TypePass'
    BY <1>6
    DEF Reconcile, Prepare, NamespaceConflict, FinishPass, GiveUp, EndPass, TypePass, TypeInformer,
        Roles, MemberLists
  <2>2. QED
    BY <1>6, <2>1, <1>a, <1>c DEF Reconcile, Prepare, FinishPass, PassOnly, Typed
<1>7. CASE PassFails
  <2>1. TypePass'
    BY <1>7 DEF PassFails, GiveUp, EndPass, TypePass, MemberLists
  <2>2. QED
    BY <1>7, <2>1, <1>a, DisruptType DEF PassFails, PassOnly, Typed, Disruptions
<1>8. ASSUME NEW role \in Roles, NEW obj \in Binding \cup {None}, WriteBinding(role, obj)
      PROVE  bindings' \in [Roles -> Binding \cup {None}] /\ queued' \in BOOLEAN
  BY <1>8 DEF WriteBinding, TypePass
<1>9. CASE reconcileRoleBinding
  <2>1. pc \in Roles /\ WithRole(copy, pc) \subseteq Users
    BY <1>9 DEF reconcileRoleBinding, WithRole
  <2>2. AfterRole[pc] \in {"rest"} \cup Roles /\ AfterRole[pc] # "idle" /\ pc # "idle"
    BY <2>1 DEF AfterRole, Roles
  <2>3. CASE GiveUp /\ UNCHANGED bindings
    <3>1. TypePass'
      BY <2>3 DEF GiveUp, EndPass, TypePass, MemberLists
    <3>2. QED
      BY <1>9, <3>1, <1>a, <1>c DEF reconcileRoleBinding, PassOnly, Typed
  <2>4. CASE /\ pc' = AfterRole[pc] /\ UNCHANGED <<copy, tenancy>>
             /\ WriteBinding(pc, IF WithRole(copy, pc) = {} THEN None
                                 ELSE [ref |-> pc, subjects |-> WithRole(copy, pc)])
    <3>1. [ref |-> pc, subjects |-> WithRole(copy, pc)] \in Binding
      BY <2>1 DEF Binding
    <3>2. bindings' \in [Roles -> Binding \cup {None}] /\ queued' \in BOOLEAN
      BY <1>8, <2>1, <2>4, <3>1
    <3>3. TypePass'
      BY <2>2, <2>4, <3>2 DEF TypePass
    <3>4. QED
      BY <1>9, <3>3, <1>a, <1>c DEF reconcileRoleBinding, PassOnly, Typed
  <2>5. QED
    BY <1>9, <2>3, <2>4 DEF reconcileRoleBinding
<1>10. CASE Deliver
  <2>1. Head(watch) \in MemberLists /\ Tail(watch) \in Seq(MemberLists)
    BY <1>10, HeadTailProperties DEF Deliver, TypeInformer
  <2>2. TypeInformer' /\ TypePass'
    BY <1>10, <2>1 DEF Deliver, TypeInformer, TypePass
  <2>3. QED
    BY <1>10, <2>2, <1>c DEF Deliver, Typed
<1>11. CASE Crash
  <2>1. TypeInformer' /\ TypePass'
    BY <1>11 DEF Crash, EndPass, TypeInformer, TypePass, TypeRequests, MemberLists
  <2>2. QED
    BY <1>11, <2>1, DisruptType DEF Crash, Typed, Disruptions
<1>12. CASE Collect
  <2>1. TypePass'
    BY <1>12 DEF Collect, Emptied, TypePass
  <2>2. QED
    BY <1>12, <2>1, <1>a, <1>c DEF Collect, PassOnly, Typed
<1>12a. CASE NamespaceChanges
  <2>1. TypePass'
    BY <1>12a DEF NamespaceChanges, Emptied, TypePass
  <2>2. QED
    BY <1>12a, <2>1, <1>a, DisruptType DEF NamespaceChanges, PassOnly, Typed, Disruptions
<1>13. ASSUME NEW role \in Roles, Tamper(role) \/ Replace(role) PROVE Typed
  <2>1. bindings[role] \in Binding
    BY <1>13 DEF Tamper, Replace, TypePass
  <2>2. /\ \A s \in SUBSET Users : [bindings[role] EXCEPT !.subjects = s] \in Binding
        /\ \A other \in Roles : [ref |-> other, subjects |-> bindings[role].subjects] \in Binding
    BY <2>1 DEF Binding
  <2>3. bindings' \in [Roles -> Binding \cup {None}] /\ queued' \in BOOLEAN
    BY <1>8, <1>13, <2>2 DEF Tamper, Replace
  <2>4. TypePass'
    BY <1>13, <2>3 DEF Tamper, Replace, TypePass
  <2>5. QED
    BY <1>13, <2>4, <1>a, DisruptType DEF Tamper, Replace, PassOnly, Typed, Disruptions
<1>14. CASE UNCHANGED vars
  BY <1>14, <1>a, <1>b, <1>c DEF vars, Typed
<1>15. QED
  BY <1>1, <1>2, <1>3, <1>4, <1>5, <1>6, <1>7, <1>9, <1>10, <1>11, <1>12, <1>12a, <1>13,
     <1>14
  DEF Next, Worker, Admission, Environment, Typed

(* Type correctness, for any users, member lists and requests; in particular a
   pass of Reconcile never works on a Workspace that is not there. *)
THEOREM TypeCorrect == Spec => []TypeOK
<1> DEFINE Inv == AdmissionInv /\ TypeInformer /\ TypePass /\ TypeBudget
<1>1. Init => Inv
  BY AdmissionInit, TypeInit
<1>2. Inv /\ [Next]_vars => Inv'
  BY AdmissionStep, TypeStep DEF AdmissionInv
<1>3. Inv => TypeOK
  BY DEF AdmissionInv, TypeRequests, TypeInformer, TypePass, TypeBudget, TypeOK
<1> HIDE DEF Inv
<1>4. QED
  BY <1>1, <1>2, <1>3, PTL DEF Spec
-----------------------------------------------------------------------------
(***************************************************************************)
(* At rest the RoleBindings are those of the member list.                  *)
(***************************************************************************)

(* The binding of a role that a pass over the list leaves behind. *)
Right(obj, list, role) ==
    obj = IF WithRole(list, role) = {} THEN None
          ELSE [ref |-> role, subjects |-> WithRole(list, role)]

(* The roles a pass has been through. *)
Passed ==
    CASE pc = "edit" -> {"admin"} [] pc = "view" -> {"admin", "edit"} [] pc = "rest" -> Roles
      [] OTHER -> {}

(* The cache will show the Workspace as it is. *)
CacheTracks == Latest(watch, cache) = members

(* A pass works on what the cache has and has put right what it has been through,
   or it will be repeated. *)
PassCurrent ==
    pc # "idle" => queued \/ (copy = cache /\ \A r \in Passed : Right(bindings[r], copy, r))

(* Between passes the bindings are right for what the cache has, or there is a
   pass to come, or nothing to do, or a conflict has been reported. *)
IdleRight ==
    pc = "idle" => queued \/ cache = {} \/ conflict \/ \A r \in Roles : Right(bindings[r], cache, r)

(* Before the Workspace is created there is nothing. *)
Unborn ==
    ~born => /\ members = {} /\ cache = {} /\ watch = <<>> /\ pc = "idle"
             /\ \A r \in Roles : bindings[r] = None

AccessInv ==
    /\ AdmissionInv /\ TypeInformer /\ TypePass /\ TypeBudget
    /\ CacheTracks /\ PassCurrent /\ IdleRight /\ Unborn

(* The events keep the cache up to date. *)
LEMMA CacheStep ==
    ASSUME TypeRequests, TypeInformer, CacheTracks, [Next]_vars
    PROVE  CacheTracks'
<1> USE DEF stored, tenancy, informer, pass
<1>1. ASSUME UNCHANGED <<members, watch, cache>> PROVE CacheTracks'
  BY <1>1 DEF CacheTracks
<1>2. ASSUME NEW u \in Users, Store(u) PROVE CacheTracks'
  <2>1. request[u].new \in MemberLists
    BY <1>2, NoneAssumption DEF Store, Stage, TypeRequests, Request
  <2>2. /\ watch \in Seq(MemberLists) /\ watch' = Append(watch, request[u].new)
        /\ members' = request[u].new
    BY <1>2 DEF Store, TypeInformer
  <2>3. QED
    BY <2>1, <2>2, LatestAppend DEF CacheTracks
<1>3. CASE Deliver
  <2>1. /\ watch \in Seq(MemberLists) /\ watch # <<>> /\ members' = members
        /\ cache' = Head(watch) /\ watch' = Tail(watch)
    BY <1>3 DEF Deliver, TypeInformer
  <2>2. QED
    BY <2>1, LatestTail DEF CacheTracks
<1>4. CASE Crash
  BY <1>4 DEF Crash, CacheTracks, Latest
<1>5. ASSUME NEW u \in Users,
             \/ Submit(u) \/ Default(u) \/ Authorize(u) \/ hasClusterWideAccess(u) \/ Retry(u)
             \/ StoreRefused(u) \/ ReviewFails(u) \/ AccessChanges(u)
      PROVE  UNCHANGED <<members, watch, cache>>
  BY <1>5 DEF Submit, Default, Authorize, hasClusterWideAccess, Retry, StoreRefused, ReviewFails,
              AccessChanges, AdmissionOnly
<1>6. Worker \/ PassFails \/ Collect \/ NamespaceChanges \/ UNCHANGED vars
         => UNCHANGED <<members, watch, cache>>
  BY DEF Worker, Reconcile, Prepare, reconcileRoleBinding, FinishPass, PassFails, Collect,
         NamespaceChanges, PassOnly, vars
<1>7. ASSUME NEW role \in Roles, Tamper(role) \/ Replace(role)
      PROVE  UNCHANGED <<members, watch, cache>>
  BY <1>7 DEF Tamper, Replace, PassOnly
<1>8. QED
  BY <1>1, <1>2, <1>3, <1>4, <1>5, <1>6, <1>7 DEF Next, Admission, Environment

(* Every step leaves the bindings right or a pass to come. *)
LEMMA RightStep ==
    ASSUME TypeRequests, TypeInformer, TypePass, PassCurrent, IdleRight, Unborn, [Next]_vars
    PROVE  PassCurrent' /\ IdleRight' /\ Unborn'
<1> DEFINE Kept == PassCurrent' /\ IdleRight' /\ Unborn'
<1> USE DEF stored, tenancy, informer, pass
<1>1. ASSUME UNCHANGED <<born, members, watch, cache, conflict, bindings, queued, pc, copy>>
      PROVE  Kept
  BY <1>1 DEF PassCurrent, IdleRight, Unborn, Passed, Right, WithRole
<1>2. ASSUME NEW u \in Users, Store(u) PROVE Kept
  BY <1>2 DEF Store, PassCurrent, IdleRight, Unborn, Passed, Right, WithRole
<1>3. CASE Reconcile
  <2>1. CASE cache = {}
    BY <1>3, <2>1 DEF Reconcile, PassOnly, PassCurrent, IdleRight, Unborn
  <2>2. CASE cache # {}
    <3>1. born /\ born' /\ pc' = "prepare" /\ copy' = cache /\ cache' = cache
      BY <1>3, <2>2 DEF Reconcile, PassOnly, Unborn, TypeInformer
    <3>2. Passed' = {}
      BY <3>1 DEF Passed
    <3>3. QED
      BY <3>1, <3>2 DEF PassCurrent, IdleRight, Unborn
  <2>3. QED
    BY <2>1, <2>2
<1>4. ASSUME pc' = "idle", queued', UNCHANGED <<born, members, watch, cache, bindings>>
      PROVE  Kept
  BY <1>4 DEF PassCurrent, IdleRight, Unborn
<1>5. CASE Prepare
  <2>1. /\ pc = "prepare" /\ UNCHANGED <<born, members, watch, cache, bindings>>
    BY <1>5 DEF Prepare, PassOnly
  <2>2. CASE NamespaceConflict
    <3>1. pc' = "idle" /\ (queued' \/ conflict')
      BY <2>2 DEF NamespaceConflict, EndPass
    <3>2. QED
      BY <2>1, <3>1 DEF PassCurrent, IdleRight, Unborn
  <2>3. CASE pc' = "admin" /\ (queued => queued') /\ UNCHANGED copy
    <3>1. Passed' = {}
      BY <2>3 DEF Passed
    <3>2. QED
      BY <2>1, <2>3, <3>1 DEF PassCurrent, IdleRight, Unborn
  <2>4. QED
    BY <1>5, <2>2, <2>3 DEF Prepare
<1>6. CASE reconcileRoleBinding
  <2>1. pc \in Roles /\ pc # "idle" /\ born /\ born' /\ UNCHANGED <<members, watch, cache>>
    BY <1>6 DEF reconcileRoleBinding, Unborn, Roles, PassOnly
  <2>2. CASE GiveUp /\ UNCHANGED bindings
    BY <1>4, <2>1, <2>2 DEF GiveUp, EndPass, TypeInformer
  <2>3. CASE /\ pc' = AfterRole[pc] /\ UNCHANGED <<copy, tenancy>>
             /\ WriteBinding(pc, IF WithRole(copy, pc) = {} THEN None
                                 ELSE [ref |-> pc, subjects |-> WithRole(copy, pc)])
    <3>1. pc' \in {"edit", "view", "rest"} /\ Passed' = Passed \cup {pc}
      BY <2>1, <2>3 DEF AfterRole, Roles, Passed
    <3>2. /\ Right(bindings'[pc], copy, pc) /\ (queued => queued')
          /\ \A r \in Roles \ {pc} : bindings'[r] = bindings[r]
      BY <2>1, <2>3 DEF WriteBinding, TypePass, Right
    <3>3. Passed \subseteq Roles
      BY DEF Passed, Roles
    <3>4. queued' \/ \A r \in Passed' : Right(bindings'[r], copy', r)
      BY <2>1, <2>3, <3>1, <3>2, <3>3 DEF PassCurrent
    <3>5. PassCurrent'
      BY <2>1, <2>3, <3>2, <3>4 DEF PassCurrent, Right, WithRole
    <3>6. QED
      BY <2>1, <3>1, <3>5 DEF IdleRight, Unborn
  <2>4. QED
    BY <1>6, <2>2, <2>3 DEF reconcileRoleBinding
<1>7. CASE FinishPass
  <2>1. /\ pc = "rest" /\ pc' = "idle" /\ born /\ (queued => queued')
        /\ UNCHANGED <<born, members, watch, cache, bindings>>
    BY <1>7 DEF FinishPass, GiveUp, EndPass, PassOnly, Unborn
  <2>2. Passed = Roles
    BY <2>1 DEF Passed
  <2>3. queued \/ \A r \in Roles : Right(bindings[r], cache, r)
    BY <2>1, <2>2 DEF PassCurrent
  <2>4. IdleRight'
    BY <2>1, <2>3 DEF IdleRight, Right, WithRole
  <2>5. QED
    BY <2>1, <2>4 DEF PassCurrent, Unborn
<1>8. CASE PassFails
  BY <1>4, <1>8 DEF PassFails, GiveUp, EndPass, PassOnly
<1>9. CASE Deliver
  <2>1. /\ born /\ UNCHANGED <<born, members, conflict, bindings, pc, copy>>
        /\ queued' = (queued \/ cache' # cache)
    BY <1>9 DEF Deliver, Unborn
  <2>2. CASE queued'
    BY <2>1, <2>2 DEF PassCurrent, IdleRight, Unborn
  <2>3. CASE ~queued'
    BY <2>1, <2>3 DEF PassCurrent, IdleRight, Unborn, Passed, Right, WithRole
  <2>4. QED
    BY <2>2, <2>3
<1>10. CASE Crash
  BY <1>10 DEF Crash, EndPass, PassCurrent, IdleRight, Unborn
<1>11. CASE Collect
  <2>1. /\ queued' /\ born /\ born'
    BY <1>11 DEF Collect, Garbage, PassOnly
  <2>2. QED
    BY <2>1 DEF PassCurrent, IdleRight, Unborn
<1>11a. CASE NamespaceChanges
  <2>1. /\ UNCHANGED <<born, members, watch, cache, conflict, pc, copy>>
        /\ queued' \/ UNCHANGED <<bindings, queued>>
        /\ bindings' = bindings \/ \A r \in Roles : bindings'[r] = None
    BY <1>11a DEF NamespaceChanges, Emptied, PassOnly, TypePass
  <2>2. CASE queued'
    BY <2>1, <2>2 DEF PassCurrent, IdleRight, Unborn
  <2>3. QED
    BY <1>1, <2>1, <2>2
<1>12. ASSUME NEW role \in Roles, Tamper(role) \/ Replace(role) PROVE Kept
  <2>1. /\ born /\ UNCHANGED <<born, members, watch, cache, conflict, pc, copy>>
        /\ \E obj : WriteBinding(role, obj)
    BY <1>12 DEF Tamper, Replace, PassOnly, Unborn
  <2>2. queued' \/ UNCHANGED <<bindings, queued>>
    BY <2>1 DEF WriteBinding, TypePass
  <2>3. CASE queued'
    BY <2>1, <2>3 DEF PassCurrent, IdleRight, Unborn
  <2>4. QED
    BY <1>1, <2>1, <2>2, <2>3
<1>13. ASSUME NEW u \in Users,
              \/ Submit(u) \/ Default(u) \/ Authorize(u) \/ hasClusterWideAccess(u) \/ Retry(u)
              \/ StoreRefused(u) \/ ReviewFails(u) \/ AccessChanges(u)
       PROVE  UNCHANGED <<born, members, watch, cache, conflict, bindings, queued, pc, copy>>
  BY <1>13 DEF Submit, Default, Authorize, hasClusterWideAccess, Retry, StoreRefused, ReviewFails,
               AccessChanges, AdmissionOnly
<1>14. CASE UNCHANGED vars
  BY <1>1, <1>14 DEF vars
<1>15. QED
  BY <1>1, <1>2, <1>3, <1>5, <1>6, <1>7, <1>8, <1>9, <1>10, <1>11, <1>11a, <1>12, <1>13, <1>14
  DEF Next, Worker, Admission, Environment

(* At rest the RoleBindings give every user the roles the Workspace lists and no
   others, or the status reports that the Namespace is somebody else's, for any
   lag of the cache and any failures, tampering, edits and loss of the
   Namespace. *)
THEOREM AccessAtRest == Spec => []SettledAccess
<1>1. Init => AccessInv
  <2>1. Init => CacheTracks /\ PassCurrent /\ IdleRight /\ Unborn
    BY DEF Init, Emptied, CacheTracks, Latest, PassCurrent, IdleRight, Unborn
  <2>2. QED
    BY <2>1, AdmissionInit, TypeInit DEF AccessInv
<1>2. AccessInv /\ [Next]_vars => AccessInv'
  BY AdmissionStep, TypeStep, CacheStep, RightStep DEF AccessInv, AdmissionInv
<1>3. AccessInv => SettledAccess
  <2>1. SUFFICES ASSUME AccessInv, Settled, ~InConflict PROVE Exact
    BY DEF SettledAccess
  <2>2. cache = members
    BY <2>1 DEF AccessInv, CacheTracks, Latest, Settled
  <2>3. CASE members = {}
    <3>1. \A r \in Roles : bindings[r] = None
      BY <2>1, <2>3 DEF AccessInv, Settled, Garbage, Emptied, Unborn
    <3>2. QED
      BY <2>3, <3>1 DEF Exact, Given, Granted, WithRole
  <2>4. CASE members # {}
    <3>1. \A r \in Roles : Right(bindings[r], members, r)
      BY <2>1, <2>2, <2>4 DEF AccessInv, Settled, IdleRight, InConflict
    <3>2. ASSUME NEW r \in Roles
          PROVE  Given(r)
      <4>1. CASE WithRole(members, r) = {}
        BY <3>1, <4>1 DEF Right, Given, Granted
      <4>2. CASE WithRole(members, r) # {}
        <5>1. [ref |-> r, subjects |-> WithRole(members, r)] \in Binding
          BY DEF Binding, WithRole
        <5>2. QED
          BY <3>1, <4>2, <5>1, NoneAssumption DEF Right, Given, Granted
      <4>3. QED
        BY <4>1, <4>2
    <3>3. QED
      BY <3>2 DEF Exact
  <2>5. QED
    BY <2>3, <2>4
<1>4. QED
  BY <1>1, <1>2, <1>3, PTL DEF Spec
=============================================================================
