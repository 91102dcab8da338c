-------------------------- MODULE WorkspaceAccess --------------------------
(***************************************************************************)
(* Who may change a Workspace, and who may work in its namespace.  Users   *)
(* send creates, updates and deletes of one Workspace to the API server,   *)
(* which asks the operator's webhooks (Default, ValidateCreate,            *)
(* ValidateUpdate, ValidateDelete) before it stores anything; several      *)
(* requests are under way at once.  The reconcile pass then turns the      *)
(* stored member list into one RoleBinding per role.                       *)
(*                                                                         *)
(* A member list is a set of pairs of a user and a role: its order does    *)
(* not matter here, and a user may be listed with several roles.  The      *)
(* Workspace is absent when the list is empty, which no stored one is.     *)
(* RoleBindings, the Namespace and the status are read up to date here;    *)
(* WorkspaceController has what a stale cache of the children does.  How a *)
(* Namespace is claimed, adopted and disowned is in NamespaceOwnership:    *)
(* here it is not there, the Workspace's own, or somebody else's, and the  *)
(* last ends a pass with a report instead of a retry.                      *)
(***************************************************************************)
EXTENDS Naturals, Sequences

CONSTANTS
    Users,       \* who sends requests and who is listed as a member
    Privileged,  \* the users in a privileged group
    Lists,       \* the member lists they ask for
    None,        \* no request, no RoleBinding
    MaxLag,      \* how many events the cache may be behind when it is read
    Budgets      \* how often each of the following happens: one of these

(***************************************************************************)
(* A request, a failed call, a crash of the operator, a change of          *)
(* somebody's cluster-wide access, a RoleBinding deleted or given other    *)
(* subjects, one deleted and created again for another role, and a         *)
(* Namespace deleted or taken.  "any" bounds how many of them happen,      *)
(* requests apart.                                                         *)
(***************************************************************************)
Disruptions == {"ask", "fail", "crash", "rbac", "tamper", "replace", "namespace", "any"}

Roles == {"admin", "edit", "view"}
MemberLists == SUBSET (Users \X Roles)

ASSUME UsersAssumption == Privileged \subseteq Users
ASSUME ListsAssumption == Lists \subseteq MemberLists
ASSUME BoundsAssumption == MaxLag \in Nat /\ Budgets \subseteq [Disruptions -> Nat]

VARIABLES
    members,      \* API server: spec.members of the Workspace
    labels,       \* API server: the users it has a user label for
    born,         \* the Workspace has been created, and may be gone again
    request,      \* the request of each user that is in admission
    clusterWide,  \* the users the cluster authorizer allows everything
    watch,        \* Workspace events not yet delivered
    cache,        \* informer: spec.members
    namespace,    \* API server: whose the Namespace is
    bindings,     \* API server: the RoleBinding of each role in it
    conflict,     \* the last status reported is NamespaceConflict
    queued,       \* the Workspace is in the work queue
    pc,           \* where the reconcile pass is
    copy,         \* the member list it works on
    budget        \* what can still happen

stored == <<members, labels, born>>
tenancy == <<namespace, conflict>>
informer == <<watch, cache>>
pass == <<pc, copy>>
vars == <<stored, request, clusterWide, informer, tenancy, bindings, queued, pass, budget>>

Binding == [ref : Roles, subjects : SUBSET Users]
Request == [stage : {"default", "authorize", "review", "approved", "reviewed"},
            old : MemberLists, new : MemberLists, labels : SUBSET Users, current : BOOLEAN]

ASSUME NoneAssumption == None \notin Request \cup Binding

(* What every variable holds; a pass always has a Workspace to work on. *)
TypeOK ==
    /\ members \in MemberLists
    /\ labels \subseteq Users
    /\ born \in BOOLEAN
    /\ request \in [Users -> Request \cup {None}]
    /\ clusterWide \subseteq Users
    /\ watch \in Seq(MemberLists)
    /\ cache \in MemberLists
    /\ namespace \in {"absent", "own", "foreign"} /\ conflict \in BOOLEAN
    /\ bindings \in [Roles -> Binding \cup {None}]
    /\ queued \in BOOLEAN
    /\ pc \in {"idle", "prepare", "rest"} \cup Roles
    /\ copy \in MemberLists /\ (copy = {} <=> pc = "idle")
    /\ budget \in [Disruptions -> Nat]

Emptied == [r \in Roles |-> None]

(* No Workspace yet; somebody else may have the Namespace it will ask for. *)
Init ==
    /\ members = {} /\ labels = {} /\ born = FALSE
    /\ request = [u \in Users |-> None]
    /\ clusterWide \in SUBSET Users
    /\ watch = <<>> /\ cache = {}
    /\ namespace \in {"absent", "foreign"} /\ conflict = FALSE
    /\ bindings = Emptied
    /\ queued = FALSE /\ pc = "idle" /\ copy = {}
    /\ budget \in Budgets

-----------------------------------------------------------------------------
(***************************************************************************)
(* Building blocks.                                                        *)
(***************************************************************************)
Disrupt(kind) ==
    /\ budget[kind] > 0 /\ budget["any"] > 0
    /\ budget' = [budget EXCEPT ![kind] = @ - 1, !["any"] = @ - 1]

Subjects(list) == {m[1] : m \in list}
WithRole(list, role) == {u \in Users : <<u, role>> \in list}

isWorkspaceAdmin(u, list) == <<u, "admin">> \in list

(* The CRD's rule that some member is an admin. *)
SchemaValid(list) == \E u \in Users : isWorkspaceAdmin(u, list)

Stage(u) == IF request[u] = None THEN "none" ELSE request[u].stage
Advance(u, stage) == request' = [request EXCEPT ![u].stage = stage]
Refuse(u) == request' = [request EXCEPT ![u] = None]

(* What the steps of an admission leave alone. *)
AdmissionOnly == UNCHANGED <<stored, clusterWide, informer, tenancy, bindings, queued, pass>>

-----------------------------------------------------------------------------
(***************************************************************************)
(* Admission.                                                              *)
(***************************************************************************)

(* A user asks for a Workspace, for other members and labels, or for its
   deletion: the empty list.  Only a create has no old object; deletes pass by
   the mutating webhook. *)
Submit(u) ==
    /\ request[u] = None
    /\ budget["ask"] > 0 /\ budget' = [budget EXCEPT !["ask"] = @ - 1]
    /\ \E new \in Lists \cup {{}}, given \in SUBSET Users :
          /\ members # {} \/ (~born /\ new # {})
          /\ request' = [request EXCEPT ![u] =
                [stage |-> IF new = {} THEN "authorize" ELSE "default", old |-> members,
                 new |-> new, labels |-> IF new = {} THEN {} ELSE given, current |-> TRUE]]
    /\ AdmissionOnly

(* Mutant: labels of users who are no longer members are kept. *)
LabelsAdded(u) ==
    /\ Stage(u) = "default"
    /\ IF SchemaValid(request[u].new)
       THEN request' = [request EXCEPT ![u].stage = "authorize",
                                       ![u].labels = @ \cup Subjects(request[u].new)]
       ELSE Refuse(u)
    /\ UNCHANGED budget /\ AdmissionOnly

(* Default makes the user labels those of the members; then the API server
   checks the object against the CRD. *)
Default(u) ==
    /\ Stage(u) = "default"
    /\ IF SchemaValid(request[u].new)
       THEN request' = [request EXCEPT ![u].stage = "authorize",
                                       ![u].labels = Subjects(request[u].new)]
       ELSE Refuse(u)
    /\ UNCHANGED budget /\ AdmissionOnly

(* Mutant: an update is judged by the object it would store. *)
JudgedNew(r) == r.new

(* A create is judged by the new object, anything else by the old one. *)
Judged(r) == IF r.old = {} THEN r.new ELSE r.old

(* AuthorizeCreation and AuthorizeModification answer locally if they can... *)
Authorize(u) ==
    /\ Stage(u) = "authorize"
    /\ Advance(u, IF u \in Privileged \/ isWorkspaceAdmin(u, Judged(request[u]))
                  THEN "approved" ELSE "review")
    /\ UNCHANGED budget /\ AdmissionOnly

(* ... and ask the cluster authorizer otherwise. *)
hasClusterWideAccess(u) ==
    /\ Stage(u) = "review"
    /\ IF u \in clusterWide THEN Advance(u, "reviewed") ELSE Refuse(u)
    /\ UNCHANGED budget /\ AdmissionOnly

(* A review that fails is an error, and an error refuses the request. *)
ReviewFails(u) ==
    /\ Stage(u) = "review"
    /\ Disrupt("fail")
    /\ Refuse(u)
    /\ AdmissionOnly

(* The API server stores the object if it is still the version that was
   admitted, and outdates every other request. *)
Store(u) ==
    /\ Stage(u) \in {"approved", "reviewed"} /\ request[u].current
    /\ members' = request[u].new /\ labels' = request[u].labels /\ born' = TRUE
    /\ request' = [v \in Users |-> IF v = u \/ request[v] = None THEN None
                                   ELSE [request[v] EXCEPT !.current = FALSE]]
    /\ watch' = Append(watch, request[u].new)
    /\ UNCHANGED <<clusterWide, cache, tenancy, bindings, queued, pass, budget>>

(* Otherwise, or if only the status was patched meanwhile, it admits the request
   once more with the object as it is now... *)
Retry(u) ==
    /\ Stage(u) \in {"approved", "reviewed"}
    /\ request[u].old # {} /\ members # {}
    /\ request' = [request EXCEPT ![u].old = members, ![u].current = TRUE,
                      ![u].stage = IF request[u].new = {} THEN "authorize" ELSE "default"]
    /\ UNCHANGED budget /\ AdmissionOnly

(* ... or answers that the object has changed, is there already or is gone. *)
StoreRefused(u) ==
    /\ Stage(u) \in {"approved", "reviewed"} /\ ~request[u].current
    /\ Refuse(u)
    /\ UNCHANGED budget /\ AdmissionOnly

(* Somebody is given cluster-wide access, or loses it. *)
AccessChanges(u) ==
    /\ Disrupt("rbac")
    /\ clusterWide' = IF u \in clusterWide THEN clusterWide \ {u} ELSE clusterWide \cup {u}
    /\ UNCHANGED <<stored, request, informer, tenancy, bindings, queued, pass>>

-----------------------------------------------------------------------------
(***************************************************************************)
(* The reconcile pass.                                                     *)
(***************************************************************************)
PassOnly == UNCHANGED <<stored, request, clusterWide, informer>>

(* Mutant: a Workspace that is gone is reconciled too. *)
ReconcileGone ==
    /\ pc = "idle" /\ queued /\ Len(watch) <= MaxLag
    /\ queued' = FALSE
    /\ pc' = "prepare" /\ copy' = cache
    /\ UNCHANGED <<tenancy, bindings, budget>> /\ PassOnly

(* Reconcile reads the Workspace; one that is gone needs nothing. *)
Reconcile ==
    /\ pc = "idle" /\ queued /\ Len(watch) <= MaxLag
    /\ queued' = FALSE
    /\ IF cache = {} THEN UNCHANGED pass ELSE pc' = "prepare" /\ copy' = cache
    /\ UNCHANGED <<tenancy, bindings, budget>> /\ PassOnly

(* AllMemberRoles: the order of the bindings. *)
AfterRole == [r \in Roles |-> CASE r = "admin" -> "edit" [] r = "edit" -> "view" [] OTHER -> "rest"]

EndPass == pc' = "idle" /\ copy' = {}

(* An error is put on the status, unless it is a write conflict or the patch
   fails, and goes back to the work queue. *)
GiveUp ==
    /\ EndPass /\ queued' = TRUE
    /\ conflict' \in {FALSE, conflict}
    /\ UNCHANGED namespace

(* A Namespace of somebody else's is reported and not retried, unless there is
   no Workspace any more to report it on. *)
NamespaceConflict ==
    /\ namespace = "foreign"
    /\ EndPass
    /\ IF members = {} THEN queued' = TRUE /\ UNCHANGED conflict
                       ELSE conflict' = TRUE /\ UNCHANGED queued
    /\ UNCHANGED namespace

(* Namespace, Harbor and HelmRepository come first, and their errors end the
   pass (PassFails) before any RoleBinding is touched.  A new Namespace queues
   its Workspace. *)
Prepare ==
    /\ pc = "prepare"
    /\ \/ NamespaceConflict
       \/ /\ namespace # "foreign"
          /\ namespace' = "own" /\ queued' = (queued \/ namespace = "absent")
          /\ pc' = "admin" /\ UNCHANGED <<copy, conflict>>
    /\ UNCHANGED <<bindings, budget>> /\ PassOnly

(* Every change of a RoleBinding the Workspace owns queues it. *)
WriteBinding(role, obj) ==
    /\ bindings' = [bindings EXCEPT ![role] = obj]
    /\ queued' = (queued \/ bindings[role] # obj)

(* The API server changes no binding to another role, and creates nothing in a
   Namespace that is not there. *)
Refused(role, users) ==
    /\ users # {}
    /\ IF bindings[role] = None THEN namespace = "absent" ELSE bindings[role].ref # role

(* Mutant: the binding of a role nobody has is left alone. *)
EmptyRoleSkipped ==
    /\ pc \in Roles
    /\ LET users == WithRole(copy, pc)
       IN  IF Refused(pc, users)
           THEN GiveUp /\ UNCHANGED bindings
           ELSE /\ pc' = AfterRole[pc] /\ UNCHANGED <<copy, tenancy>>
                /\ WriteBinding(pc, IF users = {} THEN bindings[pc]
                                    ELSE [ref |-> pc, subjects |-> users])
    /\ UNCHANGED budget /\ PassOnly

(* The binding of a role nobody has is deleted; any other is created or
   updated. *)
reconcileRoleBinding ==
    /\ pc \in Roles
    /\ LET users == WithRole(copy, pc)
       IN  IF Refused(pc, users)
           THEN GiveUp /\ UNCHANGED bindings
           ELSE /\ pc' = AfterRole[pc] /\ UNCHANGED <<copy, tenancy>>
                /\ WriteBinding(pc, IF users = {} THEN None
                                    ELSE [ref |-> pc, subjects |-> users])
    /\ UNCHANGED budget /\ PassOnly

(* The other children, which need the Namespace as well, and the status. *)
FinishPass ==
    /\ pc = "rest"
    /\ IF namespace = "absent" THEN GiveUp
       ELSE EndPass /\ conflict' = FALSE /\ UNCHANGED <<namespace, queued>>
    /\ UNCHANGED <<bindings, budget>> /\ PassOnly

(* Mutant: the error is logged and no retry is queued. *)
ErrorSwallowed ==
    /\ pc # "idle"
    /\ Disrupt("fail")
    /\ EndPass
    /\ UNCHANGED <<tenancy, bindings, queued>> /\ PassOnly

(* A call of the pass fails. *)
PassFails ==
    /\ pc # "idle"
    /\ Disrupt("fail")
    /\ GiveUp
    /\ UNCHANGED bindings /\ PassOnly

(* The informer delivers an event; one that changes the spec, or a deletion,
   queues the Workspace. *)
Deliver ==
    /\ watch # <<>>
    /\ cache' = Head(watch) /\ watch' = Tail(watch)
    /\ queued' = (queued \/ Head(watch) # cache)
    /\ UNCHANGED <<stored, request, clusterWide, tenancy, bindings, pass, budget>>

(* The operator dies, and no webhook answers the requests that wait for one; the
   next instance lists and queues what there is. *)
Crash ==
    /\ Disrupt("crash")
    /\ EndPass /\ queued' = (members # {})
    /\ cache' = members /\ watch' = <<>>
    /\ request' = [u \in Users |-> IF Stage(u) \in {"approved", "reviewed"}
                                   THEN request[u] ELSE None]
    /\ UNCHANGED <<stored, clusterWide, tenancy, bindings>>

Garbage == born /\ members = {} /\ (namespace = "own" \/ bindings # Emptied)

(* Garbage collection removes what a Workspace that is gone has owned. *)
Collect ==
    /\ Garbage
    /\ namespace' = (IF namespace = "own" THEN "absent" ELSE namespace)
    /\ bindings' = Emptied
    /\ queued' = TRUE
    /\ UNCHANGED <<conflict, pass, budget>> /\ PassOnly

(* Somebody deletes the Namespace, and everything in it, creates one of that
   name, or does the one after the other; or takes it over with what is in it.
   A change of what the Workspace owns queues it. *)
NamespaceChanges ==
    /\ Disrupt("namespace")
    /\ namespace' \in {"absent", "foreign"} \ {namespace}
    /\ bindings' = Emptied \/ (namespace' = "foreign" /\ UNCHANGED bindings)
    /\ queued' = (queued \/ namespace = "own" \/ bindings' # bindings)
    /\ UNCHANGED <<conflict, pass>> /\ PassOnly

(* Somebody who may edit RoleBindings changes the subjects of one, deletes it,
   or deletes it and binds another role under its name. *)
Tamper(role) ==
    /\ bindings[role] # None
    /\ Disrupt("tamper")
    /\ \E obj \in {[bindings[role] EXCEPT !.subjects = s] : s \in SUBSET Users} \cup {None} :
          WriteBinding(role, obj)
    /\ UNCHANGED <<tenancy, pass>> /\ PassOnly

Replace(role) ==
    /\ bindings[role] # None
    /\ Disrupt("replace")
    /\ \E other \in Roles \ {role} :
          WriteBinding(role, [ref |-> other, subjects |-> bindings[role].subjects])
    /\ UNCHANGED <<tenancy, pass>> /\ PassOnly

-----------------------------------------------------------------------------
Worker == Reconcile \/ Prepare \/ reconcileRoleBinding \/ FinishPass

Admission ==
    \E u \in Users :
        \/ Submit(u) \/ Default(u) \/ Authorize(u) \/ hasClusterWideAccess(u)
        \/ ReviewFails(u) \/ Store(u) \/ Retry(u) \/ StoreRefused(u)

Environment ==
    \/ PassFails \/ Crash \/ Collect \/ NamespaceChanges
    \/ \E u \in Users : AccessChanges(u)
    \/ \E role \in Roles : Tamper(role) \/ Replace(role)

Next == Worker \/ Admission \/ Deliver \/ Environment

Spec == Init /\ [][Next]_vars

(* The worker, the informer and the garbage collector keep working; no request
   has to be sent or answered. *)
FairSpec == Spec /\ WF_vars(Worker) /\ WF_vars(Deliver) /\ WF_vars(Collect)

-----------------------------------------------------------------------------
Settled == pc = "idle" /\ ~queued /\ watch = <<>> /\ ~Garbage

Granted(role) == IF bindings[role] = None THEN {} ELSE bindings[role].subjects
Given(role) ==
    /\ Granted(role) = WithRole(members, role)
    /\ bindings[role] # None => bindings[role].ref = role

Exact == \A role \in Roles : Given(role)

(* The status says that the Namespace is not the Workspace's. *)
InConflict == conflict /\ members # {}

(* The user labels are exactly those of the members ("syncing members to
   labels"), whatever labels requests bring and however they overlap. *)
LabelsMirrorMembers == labels = Subjects(members)

(* Whoever changes or deletes the Workspace is privileged, was an admin in the
   very version that is replaced, or was allowed everything when the authorizer
   was asked: "a user cannot grant themselves admin and approve it in one
   request", nor by racing the request that removes them. *)
NoEscalation ==
    [][members' # members =>
          \E u \in Users :
              /\ request[u] # None /\ request'[u] = None
              /\ \/ u \in Privileged \/ request[u].stage = "reviewed"
                 \/ isWorkspaceAdmin(u, IF members = {} THEN members' ELSE members)]_vars

(* At rest the RoleBindings give every user the roles the Workspace lists and no
   others, whatever failed, was tampered with or was edited during a pass, or
   the status reports that the Namespace is not the Workspace's. *)
SettledAccess == Settled => Exact \/ InConflict

(* A RoleBinding for another role is in the way: its role cannot be changed, and
   the pass gets no further. *)
Stuck(role) ==
    bindings[role] # None /\ bindings[role].ref # role /\ WithRole(members, role) # {}

UpTo(role) == {"admin", role} \cup (IF role = "view" THEN {"edit"} ELSE {})

(* Once nothing interferes any more, everybody has each role exactly if the
   member list says so, for good: a removed member loses every binding.  A
   binding that cannot be put right costs only its own role and the later ones;
   the other exception is a reported NamespaceConflict. *)
EventuallyExact ==
    <>[](InConflict \/ \A role \in Roles : Given(role) \/ \E r \in UpTo(role) : Stuck(r))
=============================================================================
