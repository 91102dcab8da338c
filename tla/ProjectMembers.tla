--------------------------- MODULE ProjectMembers ---------------------------
(***************************************************************************)
(* The members of a workspace's Harbor project: the part of a reconcile    *)
(* pass that makes the project and brings its members in line with the     *)
(* Workspace's member list (EnsureProject and ReconcileProjectMembers of   *)
(* the Harbor client, called by ReconcileHarbor).                          *)
(*                                                                         *)
(* Nothing tells the operator about Harbor: not about a user's first       *)
(* sign-in, which creates the account, nor about an administrator who      *)
(* changes the members.  A member is changed and removed by the id it had  *)
(* in the listing, which is no longer valid once the member was removed.   *)
(***************************************************************************)
EXTENDS Naturals, Sequences, FiniteSets, FiniteSetsExt

CONSTANTS
    Users,     \* subjects of members
    None,      \* not a member, no request
    Specs,     \* the member list of every generation of the Workspace
    PageSize,  \* how many members one answer of Harbor lists
    Budget     \* how often the environment does each disruptive thing, and all

(***************************************************************************)
(* The disruptions: a Harbor or API call that fails, a write that is       *)
(* served but not answered, a write that is served after the pass gave up, *)
(* a crash, another administrator changing a member or dropping the        *)
(* project.  "any" bounds how many of them happen.                         *)
(***************************************************************************)
Disruptions == {"fail", "unanswered", "late", "crash", "other", "drop", "any"}

MemberRoles == {"admin", "edit", "view"}
Generations == 1..Len(Specs)
Entries == [subject : Users, role : MemberRoles, serviceAccount : BOOLEAN]

ASSUME NoneAssumption == None \notin 1..3
ASSUME SpecsAssumption ==
    /\ Specs \in Seq(Seq(Entries)) /\ Specs # <<>>
    /\ \A g \in Generations : \E k \in DOMAIN Specs[g] : Specs[g][k].role = "admin"
ASSUME PageAssumption == PageSize \in Nat \ {0}
ASSUME BudgetAssumption == Budget \in [Disruptions -> Nat]

VARIABLES
    account,   \* Harbor: users with an account
    project,   \* Harbor: the project exists
    member,    \* Harbor: role id of every user in the project
    late,      \* writes given up on that Harbor may still serve
    others,    \* users changed by others, or by a late write, since the last listing
    gen,       \* API server: generation of the Workspace
    cached,    \* informer: the same
    reported,  \* members the status names as pending
    queued,    \* the Workspace is in the work queue (or marked dirty)
    timer,     \* a delayed requeue (RequeueAfter) is pending
    pc,        \* where the pass is
    goal,      \* generation of the pass's copy, or of the last one
    existing,  \* existingByName: role id of listed members not yet dealt with
    known,     \* listed members whose id is still theirs
    i,         \* where the loop over the desired members is
    missing,   \* members found to have no account
    budget     \* disruptions the environment still has

harbor == <<account, project, member, late, others>>
object == <<gen, cached, reported>>
queue == <<queued, timer>>
locals == <<existing, known, i, missing>>
vars == <<harbor, object, queue, pc, goal, locals, budget>>

(***************************************************************************)
(* What the spec asks for.                                                 *)
(***************************************************************************)
(* Mutant: the view role has no case, and the zero value is returned. *)
RoleIDWithoutView(role) == CASE role = "admin" -> 1 [] role = "edit" -> 2 [] OTHER -> 0

harborRoleID(role) == CASE role = "admin" -> 1 [] role = "edit" -> 2 [] OTHER -> 3

(* The desired members: where the list has them, in its order.  Service accounts
   have no identity in Harbor. *)
harborMembers(g) == {k \in DOMAIN Specs[g] : ~Specs[g][k].serviceAccount}

(* What a generation makes of a user.  The list may name a subject twice; the
   first entry counts, because adding an existing member has no effect. *)
Named(g, u) == {k \in harborMembers(g) : Specs[g][k].subject = u}
Asks(g, u) == {harborRoleID(Specs[g][k].role) : k \in Named(g, u)}
Wanted ==
    [g \in Generations |-> [u \in Users |->
        IF Named(g, u) = {} THEN None ELSE harborRoleID(Specs[g][Min(Named(g, u))].role)]]
Want(g, u) == Wanted[g][u]

RoleIDs == 1..3
Requests == [op : {"create", "add", "update", "delete"}, user : Users \cup {None},
             role : RoleIDs \cup {None}]

(* What every variable holds; only users with an account are members. *)
TypeOK ==
    /\ account \subseteq Users /\ project \in BOOLEAN
    /\ member \in [Users -> RoleIDs \cup {None}]
    /\ \A u \in Users : member[u] # None => project /\ u \in account
    /\ late \subseteq Requests /\ others \subseteq Users
    /\ gen \in Generations /\ cached \in 1..gen /\ goal \in 1..cached
    /\ reported \subseteq Users
    /\ queued \in BOOLEAN /\ timer \in BOOLEAN
    /\ pc \in {"idle", "project", "create", "list", "members", "rest"}
    /\ existing \in [Users -> RoleIDs \cup {None}] /\ known \subseteq Users
    /\ i \in 1..Len(Specs[goal]) + 1 /\ missing \subseteq Users
    /\ budget \in [Disruptions -> Nat]

Nobody == [u \in Users |-> None]

(* A new Workspace.  Its project may be left over from an earlier Workspace of
   the same namespace, members included. *)
Init ==
    /\ account \in SUBSET Users /\ project \in BOOLEAN
    /\ \E left \in RoleIDs, us \in SUBSET account :
          /\ ~project => us = {}
          /\ member = [u \in Users |-> IF u \in us THEN left ELSE None]
    /\ late = {} /\ others = {}
    /\ gen = 1 /\ cached = 1 /\ goal = 1 /\ reported = {}
    /\ queued = TRUE /\ timer = FALSE /\ pc = "idle"
    /\ existing = Nobody /\ known = {} /\ i = 1 /\ missing = {}
    /\ budget = Budget

-----------------------------------------------------------------------------
(***************************************************************************)
(* Building blocks.                                                        *)
(***************************************************************************)
Disrupt(kind) ==
    /\ budget[kind] > 0 /\ budget["any"] > 0
    /\ budget' = [budget EXCEPT ![kind] = @ - 1, !["any"] = @ - 1]

Goto(step) == pc' = step /\ UNCHANGED <<reported, queue>>
Forget == existing' = Nobody /\ known' = {} /\ i' = 1 /\ missing' = {}

(* The pass ends in an error.  The status says so, unless patching it fails too,
   and controller-runtime queues a retry. *)
Fail ==
    /\ pc' = "idle" /\ queued' = TRUE /\ UNCHANGED timer
    /\ reported' \in {{}, reported}
    /\ Forget

-----------------------------------------------------------------------------
(***************************************************************************)
(* Writes to Harbor.                                                       *)
(***************************************************************************)
Request(op, u, role) == [op |-> op, user |-> u, role |-> role]
ById(r) == r.op \in {"update", "delete"}

(* The writes the pass can make next: create the project, add or re-role the
   member whose turn it is, or remove one of those that are left over. *)
Ahead == {k \in harborMembers(goal) : k >= i}
Turn == Ahead # {}
Subject == Specs[goal][Min(Ahead)].subject
Role == harborRoleID(Specs[goal][Min(Ahead)].role)

Writes ==
    CASE pc = "create" -> {Request("create", None, None)}
      [] pc = "members" /\ Turn /\ existing[Subject] = None -> {Request("add", Subject, Role)}
      [] pc = "members" /\ Turn /\ existing[Subject] \notin {None, Role} ->
            {Request("update", Subject, Role)}
      [] pc = "members" /\ ~Turn ->
            {Request("delete", u, None) : u \in {v \in Users : existing[v] # None}}
      [] OTHER -> {}

(* Adding takes a project, an account and a user who is no member yet. *)
Addable(u) == project /\ u \in account /\ member[u] = None

(* What Harbor makes of a write, and of the ids of members. *)
Serve(r) ==
    /\ project' = (project \/ r.op = "create")
    /\ member' = IF ById(r) \/ (r.op = "add" /\ Addable(r.user))
                 THEN [member EXCEPT ![r.user] = r.role] ELSE member

(* Members that are removed take their ids with them. *)
WithoutIds(requests, us) == {r \in requests : ~(ById(r) /\ r.user \in us)}
Removed == {u \in Users : member[u] # None /\ member'[u] = None}

(* Mutant: a user without an account ends the loop like any other error. *)
MissingIsError(r) ==
    CASE ById(r) /\ r.user \notin known -> "error"
      [] r.op = "add" /\ ~(project /\ r.user \in account) -> "error"
      [] OTHER -> "ok"

(* Harbor's answer: an error if the id is gone; "not found" for an account or a
   project that is missing, which the client takes for the account; success if
   the write was done or the member is there already (409). *)
Answer(r) ==
    CASE ById(r) /\ r.user \notin known -> "error"
      [] r.op = "add" /\ ~(project /\ r.user \in account) -> "missing"
      [] OTHER -> "ok"

-----------------------------------------------------------------------------
(***************************************************************************)
(* The reconcile pass.                                                     *)
(***************************************************************************)
Reconcile ==
    /\ pc = "idle" /\ queued
    /\ pc' = "project" /\ queued' = FALSE /\ goal' = cached
    /\ UNCHANGED <<harbor, object, timer, locals, budget>>

(* EnsureProject asks whether the project exists. *)
projectExists ==
    /\ pc = "project"
    /\ Goto(IF project THEN "list" ELSE "create")
    /\ UNCHANGED <<harbor, gen, cached, goal, locals, budget>>

(* ReconcileProjectMembers lists the members, one page of them. *)
ListMembers ==
    /\ pc = "list"
    /\ \/ /\ project
          /\ \E page \in SUBSET {u \in Users : member[u] # None} :
                /\ \/ page = {u \in Users : member[u] # None} /\ Cardinality(page) <= PageSize
                   \/ Cardinality(page) = PageSize
                /\ existing' = [u \in Users |-> IF u \in page THEN member[u] ELSE None]
                /\ known' = page
          /\ others' = {}
          /\ Goto("members") /\ UNCHANGED <<i, missing>>
       \/ ~project /\ Fail /\ UNCHANGED others
    /\ UNCHANGED <<account, project, member, late, gen, cached, goal, budget>>

(* The loops move on: past a member that is as desired or was just made so, past
   one without an account, or past one that was removed. *)
CrossOff(u) == existing' = [existing EXCEPT ![u] = None]

(* Mutant: members that are found stay in the lookup and are removed in the end. *)
NeverCrossedOff(u, answer) ==
    /\ IF Turn THEN UNCHANGED existing ELSE CrossOff(u)
    /\ i' = IF Turn THEN Min(Ahead) + 1 ELSE i
    /\ missing' = IF answer = "missing" THEN missing \cup {u} ELSE missing

MoveOn(u, answer) ==
    /\ CrossOff(u)
    /\ i' = IF Turn THEN Min(Ahead) + 1 ELSE i
    /\ missing' = IF answer = "missing" THEN missing \cup {u} ELSE missing

SkipMember ==
    /\ pc = "members" /\ Turn /\ existing[Subject] = Role
    /\ MoveOn(Subject, "ok") /\ Goto("members")
    /\ UNCHANGED <<harbor, gen, cached, goal, known, budget>>

(* One call of createProject, addProjectMember, updateProjectMember or
   deleteProjectMember; the first error ends the pass. *)
WriteHarbor ==
    \E r \in Writes :
        /\ \/ /\ Answer(r) # "error" /\ Serve(r)
              /\ IF pc = "create" THEN Goto("list") /\ UNCHANGED locals
                 ELSE /\ Goto("members") /\ MoveOn(r.user, Answer(r))
                      /\ known' = known \ Removed
              /\ late' = WithoutIds(late, Removed)
           \/ /\ Answer(r) = "error" /\ Fail /\ UNCHANGED <<project, member, late>>
        /\ UNCHANGED <<account, others, gen, cached, goal, budget>>

MembersDone ==
    /\ pc = "members" /\ ~Turn /\ Writes = {}
    /\ Goto("rest")
    /\ UNCHANGED <<harbor, gen, cached, goal, locals, budget>>

(* The robot, the child resources and the status, which names the members that
   are pending; they are tried again after a while. *)
FinishPass ==
    /\ pc = "rest"
    /\ pc' = "idle" /\ reported' = missing
    /\ timer' = (timer \/ missing # {}) /\ UNCHANGED queued
    /\ Forget
    /\ UNCHANGED <<harbor, gen, cached, goal, budget>>

-----------------------------------------------------------------------------
(***************************************************************************)
(* What goes wrong in a pass.                                              *)
(***************************************************************************)

(* A call fails without effect. *)
CallFails ==
    /\ pc # "idle"
    /\ Disrupt("fail") /\ Fail
    /\ UNCHANGED <<harbor, gen, cached, goal>>

(* A write is served, but the answer does not arrive. *)
Unanswered ==
    /\ \E r \in Writes : Answer(r) = "ok" /\ Serve(r)
    /\ late' = WithoutIds(late, Removed)
    /\ Disrupt("unanswered") /\ Fail
    /\ UNCHANGED <<account, others, gen, cached, goal>>

(* The client's timeout strikes before Harbor serves a write ... *)
TimesOut ==
    /\ \E r \in Writes : Answer(r) # "error" /\ late' = late \cup {r}
    /\ Disrupt("late") /\ Fail
    /\ UNCHANGED <<account, project, member, others, gen, cached, goal>>

(* ... which it does later. *)
LateServed ==
    /\ \E r \in late :
          /\ Serve(r)
          /\ late' = WithoutIds(late \ {r}, Removed)
          /\ others' = others \cup {u \in Users : member'[u] # member[u]}
    /\ known' = known \ Removed
    /\ UNCHANGED <<account, object, queue, pc, goal, existing, i, missing, budget>>

Crash ==
    /\ Disrupt("crash")
    /\ pc' = "idle" /\ queued' = TRUE /\ timer' = FALSE /\ Forget
    /\ cached' = gen
    /\ UNCHANGED <<harbor, gen, reported, goal>>

-----------------------------------------------------------------------------
(***************************************************************************)
(* Around the pass.                                                        *)
(***************************************************************************)
SpecEdited ==
    /\ gen < Len(Specs)
    /\ gen' = gen + 1
    /\ UNCHANGED <<harbor, cached, reported, queue, pc, goal, locals, budget>>

DeliverSpec ==
    /\ cached # gen
    /\ cached' = gen /\ queued' = TRUE
    /\ UNCHANGED <<harbor, gen, reported, timer, pc, goal, locals, budget>>

TimerFires ==
    /\ timer
    /\ timer' = FALSE /\ queued' = TRUE
    /\ UNCHANGED <<harbor, object, pc, goal, locals, budget>>

(* The informers replay what they hold every few hours. *)
Resync ==
    /\ ~queued /\ queued' = TRUE
    /\ UNCHANGED <<harbor, object, timer, pc, goal, locals, budget>>

(* A user signs in to Harbor for the first time. *)
SignIn ==
    /\ \E u \in Users \ account : account' = account \cup {u}
    /\ UNCHANGED <<project, member, late, others, object, queue, pc, goal, locals, budget>>

(* Another administrator adds, re-roles or removes a member ... *)
OtherAdmin ==
    /\ project /\ Disrupt("other")
    /\ \E u \in account, role \in RoleIDs \cup {None} :
          /\ role # member[u]
          /\ member' = [member EXCEPT ![u] = role]
          /\ others' = others \cup {u}
    /\ known' = known \ Removed /\ late' = WithoutIds(late, Removed)
    /\ UNCHANGED <<account, project, object, queue, pc, goal, existing, i, missing>>

(* ... or deletes the project. *)
ProjectDropped ==
    /\ project /\ Disrupt("drop")
    /\ project' = FALSE /\ member' = Nobody /\ others' = Users
    /\ known' = {} /\ late' = WithoutIds(late, Users)
    /\ UNCHANGED <<account, object, queue, pc, goal, existing, i, missing>>

-----------------------------------------------------------------------------
Worker ==
    \/ Reconcile \/ projectExists \/ ListMembers \/ SkipMember \/ WriteHarbor
    \/ MembersDone \/ FinishPass

Environment ==
    \/ CallFails \/ Unanswered \/ TimesOut \/ LateServed \/ Crash
    \/ SpecEdited \/ DeliverSpec \/ TimerFires \/ Resync \/ SignIn
    \/ OtherAdmin \/ ProjectDropped

Next == Worker \/ Environment

Spec == Init /\ [][Next]_vars

(* The worker works, events arrive, timers fire. *)
Fairness == WF_vars(Worker) /\ WF_vars(DeliverSpec) /\ WF_vars(TimerFires)
FairSpec == Spec /\ Fairness

(* And, for what only it can repair, the resync comes round. *)
ResyncSpec == FairSpec /\ WF_vars(Resync)

-----------------------------------------------------------------------------
(* A version of the member list has been brought to Harbor and nothing is on the
   way any more. *)
Settled == pc = "idle" /\ ~queued /\ cached = gen /\ late = {}

(* A user is what the list says, or is pending: named in the status, and looked
   for again after a while. *)
AsDesired(u) == member[u] = Want(gen, u)
Pending(u) == Want(gen, u) # None /\ u \in reported /\ timer

(* At rest, Harbor's members are those of the newest member list, apart from
   members that are pending and those changed by others or by a late write after
   the last pass listed them: whatever calls failed on the way,
   ReconcileProjectMembers "synchronizes the Harbor project membership to match
   desired". *)
SettledMembers == Settled => \A u \in Users \ others : AsDesired(u) \/ Pending(u)

(* What others, and writes of the operator that come late, may still change. *)
Interference == budget["other"] + budget["drop"] + budget["late"] + Cardinality(late)

Sync == INSTANCE MemberSync WITH Versions <- Len(Specs), interference <- Interference

(* The operator keeps the promise of MemberSync: it touches a member only to make
   it what the generation it works on asks for, never turns to an older one, and
   does not stop before the newest generation is reached, whatever fails, and
   whatever others do meanwhile. *)
ReachesGoal == Sync!FairSpec
=============================================================================
