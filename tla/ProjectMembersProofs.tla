------------------------ MODULE ProjectMembersProofs ------------------------
(***************************************************************************)
(* Proofs about ProjectMembers: for any users, any sequence of member      *)
(* lists and any number of failures, late writes and other administrators, *)
(* a pass touches a member only to make it what its list asks for, and, if *)
(* Harbor lists all members on one page, the operator does not rest before *)
(* the members are those of the newest list.                               *)
(***************************************************************************)
EXTENDS ProjectMembers, FiniteSetTheorems, WellFoundedInduction, TLAPS

(***************************************************************************)
(* The member lists.                                                       *)
(***************************************************************************)

(* Every set of numbers has a least one. *)
LEMMA MinIsLeast ==
    ASSUME NEW S \in SUBSET Nat, S # {}
    PROVE  Min(S) \in S /\ \A k \in S : Min(S) <= k
<1>1. PICK x \in S : \A y \in S : <<y, x>> \notin OpToRel(<, Nat)
  BY NatLessThanWellFounded, WFMin, Zenon
<1>2. ASSUME NEW y \in S, y < x PROVE FALSE
  <2>1. <<y, x>> \in OpToRel(<, Nat)
    BY <1>2 DEF OpToRel
  <2>2. QED
    BY <1>1, <2>1, Zenon
<1>3. \A y \in S : x <= y
  BY <1>2
<1>4. QED
  BY <1>3 DEF Min

(* The entries of a list. *)
LEMMA ListEntries ==
    ASSUME NEW g \in Generations
    PROVE  /\ Len(Specs[g]) \in Nat /\ harborMembers(g) \subseteq 1..Len(Specs[g])
           /\ \A k \in harborMembers(g) :
                 Specs[g][k].subject \in Users /\ harborRoleID(Specs[g][k].role) \in RoleIDs
<1>1. Specs[g] \in Seq(Entries)
  BY SpecsAssumption DEF Generations
<1>2. DOMAIN Specs[g] = 1..Len(Specs[g]) /\ Len(Specs[g]) \in Nat
  BY <1>1
<1>3. \A k \in DOMAIN Specs[g] : Specs[g][k] \in Entries
  BY <1>1, <1>2
<1>4. \A e \in Entries : e.subject \in Users /\ harborRoleID(e.role) \in RoleIDs
  BY DEF Entries, MemberRoles, harborRoleID, RoleIDs
<1>5. QED
  BY <1>2, <1>3, <1>4 DEF harborMembers

(* The first entry of a user decides; without one there is nothing to want. *)
LEMMA WantIsFirst ==
    ASSUME NEW g \in Generations, NEW u \in Users
    PROVE  /\ Named(g, u) = {} => Want(g, u) = None
           /\ \A k \in Named(g, u) :
                 /\ k \in Nat /\ Want(g, u) # None
                 /\ harborRoleID(Specs[g][k].role) \in Asks(g, u)
                 /\ (\A j \in Named(g, u) : k <= j) => Want(g, u) = harborRoleID(Specs[g][k].role)
<1>1. CASE Named(g, u) = {}
  BY <1>1 DEF Want, Wanted
<1>2. CASE Named(g, u) # {}
  <2>1. Named(g, u) \subseteq Nat /\ Named(g, u) \subseteq harborMembers(g)
    BY ListEntries DEF Named
  <2>2. Min(Named(g, u)) \in Named(g, u) /\ \A k \in Named(g, u) : Min(Named(g, u)) <= k
    BY <1>2, <2>1, MinIsLeast
  <2>3. Want(g, u) = harborRoleID(Specs[g][Min(Named(g, u))].role) /\ Want(g, u) \in RoleIDs
    BY <1>2, <2>1, <2>2, ListEntries DEF Want, Wanted
  <2>4. Want(g, u) # None
    BY <2>3, NoneAssumption DEF RoleIDs
  <2>5. ASSUME NEW k \in Named(g, u), \A j \in Named(g, u) : k <= j
        PROVE  k = Min(Named(g, u))
    BY <2>1, <2>2, <2>5
  <2>6. QED
    BY <1>2, <2>1, <2>3, <2>4, <2>5 DEF Asks
<1>3. QED
  BY <1>1, <1>2

-----------------------------------------------------------------------------
(***************************************************************************)
(* Type correctness.  Ids are what makes it more than a matter of form:    *)
(* the members whose id the pass, or a late write, holds are members.      *)
(***************************************************************************)
TypeHarbor ==
    /\ account \subseteq Users /\ project \in BOOLEAN
    /\ member \in [Users -> RoleIDs \cup {None}]
    /\ \A u \in Users : member[u] # None => project /\ u \in account

TypeLate ==
    /\ late \subseteq Requests /\ others \subseteq Users
    /\ \A r \in late : ById(r) => r.user \in Users /\ member[r.user] # None

TypeObject ==
    /\ gen \in Generations /\ cached \in 1..gen /\ goal \in 1..cached
    /\ reported \subseteq Users /\ queued \in BOOLEAN /\ timer \in BOOLEAN

TypeLocals ==
    /\ pc \in {"idle", "project", "create", "list", "members", "rest"}
    /\ existing \in [Users -> RoleIDs \cup {None}]
    /\ known \subseteq Users /\ \A u \in known : member[u] # None
    /\ i \in 1..Len(Specs[goal]) + 1 /\ missing \subseteq Users
    /\ pc \notin {"members", "rest"} => existing = Nobody /\ known = {} /\ i = 1 /\ missing = {}

TypeBudget == budget \in [Disruptions -> Nat]

TypeInv == TypeHarbor /\ TypeLate /\ TypeObject /\ TypeLocals /\ TypeBudget

(* The generations at hand. *)
LEMMA GoalIsGeneration ==
    ASSUME TypeObject
    PROVE  /\ gen \in Nat /\ cached \in Nat /\ goal \in Nat /\ 1 <= goal /\ goal <= cached
           /\ cached <= gen /\ gen <= Len(Specs) /\ Len(Specs) \in Nat
           /\ goal \in Generations /\ cached \in Generations
<1>1. Len(Specs) \in Nat
  BY SpecsAssumption
<1>2. QED
  BY <1>1 DEF TypeObject, Generations

(* The entry whose turn it is. *)
LEMMA TurnEntry ==
    ASSUME TypeObject, TypeLocals, Turn
    PROVE  /\ Min(Ahead) \in Named(goal, Subject) /\ i <= Min(Ahead)
           /\ Min(Ahead) \in 1..Len(Specs[goal])
           /\ \A k \in harborMembers(goal) : k >= i => Min(Ahead) <= k
           /\ Subject \in Users /\ Role \in RoleIDs
           /\ Role = harborRoleID(Specs[goal][Min(Ahead)].role)
<1>1. goal \in Generations /\ Ahead \subseteq harborMembers(goal) /\ Ahead \in SUBSET Nat
  BY GoalIsGeneration, ListEntries DEF Ahead
<1>2. Min(Ahead) \in Ahead /\ \A k \in Ahead : Min(Ahead) <= k
  BY <1>1, MinIsLeast DEF Turn
<1>3. QED
  BY <1>1, <1>2, ListEntries DEF Ahead, Named, Subject, Role

(* The writes of a pass. *)
LEMMA WritesAre ==
    ASSUME TypeObject, TypeLocals, NEW r \in Writes
    PROVE  /\ r \in Requests
           /\ \/ pc = "create" /\ r.op = "create"
              \/ /\ pc = "members" /\ Turn /\ r.user = Subject /\ r.role = Role
                 /\ \/ r.op = "add" /\ existing[Subject] = None
                    \/ r.op = "update" /\ existing[Subject] \notin {None, Role}
              \/ /\ pc = "members" /\ ~Turn /\ r.op = "delete" /\ r.role = None
                 /\ r.user \in Users /\ existing[r.user] # None
<1>1. CASE pc = "create"
  BY <1>1 DEF Writes, Request, Requests
<1>2. CASE pc = "members" /\ Turn
  <2>1. Subject \in Users /\ Role \in RoleIDs
    BY <1>2, TurnEntry
  <2>2. /\ Request("add", Subject, Role) \in Requests
        /\ Request("update", Subject, Role) \in Requests
    BY <2>1 DEF Request, Requests
  <2>3. \/ r = Request("add", Subject, Role) /\ existing[Subject] = None
        \/ r = Request("update", Subject, Role) /\ existing[Subject] \notin {None, Role}
    BY <1>2 DEF Writes
  <2>4. QED
    BY <1>2, <2>2, <2>3 DEF Request
<1>3. CASE pc = "members" /\ ~Turn
  <2>1. PICK u \in Users : existing[u] # None /\ r = Request("delete", u, None)
    BY <1>3 DEF Writes
  <2>2. QED
    BY <1>3, <2>1 DEF Request, Requests
<1>4. CASE pc \notin {"create", "members"}
  BY <1>4 DEF Writes
<1>5. QED
  BY <1>1, <1>2, <1>3, <1>4

(* The members after a write are members, whoever made it. *)
LEMMA ServeType ==
    ASSUME TypeHarbor, account' = account, NEW r \in Requests, Serve(r),
           ById(r) => r.user \in Users /\ member[r.user] # None
    PROVE  TypeHarbor'
<1> DEFINE change == ById(r) \/ (r.op = "add" /\ Addable(r.user))
<1>1. r.role \in RoleIDs \cup {None}
  BY DEF Requests
<1>2. ASSUME change
      PROVE  r.user \in Users /\ project /\ r.user \in account
  <2>1. CASE ById(r)
    BY <2>1 DEF TypeHarbor
  <2>2. CASE r.op = "add" /\ Addable(r.user)
    BY <2>2 DEF TypeHarbor, Addable
  <2>3. QED
    BY <1>2, <2>1, <2>2
<1>3. member' = IF change THEN [member EXCEPT ![r.user] = r.role] ELSE member
  BY DEF Serve
<1>4. project' \in BOOLEAN /\ (project => project')
  BY DEF Serve, TypeHarbor
<1>5. member' \in [Users -> RoleIDs \cup {None}]
  BY <1>1, <1>2, <1>3 DEF TypeHarbor
<1>6. ASSUME NEW u \in Users, member'[u] # None
      PROVE  project' /\ u \in account
  <2>1. CASE change /\ u = r.user
    BY <1>2, <1>4, <2>1
  <2>2. CASE ~change \/ u # r.user
    <3>1. member'[u] = member[u]
      BY <1>2, <1>3, <2>2 DEF TypeHarbor
    <3>2. QED
      BY <1>4, <1>6, <3>1 DEF TypeHarbor
  <2>3. QED
    BY <2>1, <2>2
<1>7. QED
  BY <1>4, <1>5, <1>6 DEF TypeHarbor

(* An id that is kept belongs to a member. *)
LEMMA IdsKept ==
    ASSUME NEW requests \in SUBSET Requests, NEW ids \in SUBSET Users,
           \A u \in ids : member[u] # None,
           \A r \in requests : ById(r) => r.user \in Users /\ member[r.user] # None
    PROVE  /\ \A u \in ids \ Removed : member'[u] # None
           /\ WithoutIds(requests, Removed) \subseteq requests
           /\ \A r \in WithoutIds(requests, Removed) :
                 ById(r) => r.user \in Users /\ member'[r.user] # None
  BY DEF Removed, WithoutIds

LEMMA DisruptType ==
    ASSUME TypeBudget, NEW kind \in Disruptions \ {"any"}, Disrupt(kind)
    PROVE  TypeBudget'
  BY DEF TypeBudget, Disrupt, Disruptions

(* A pass that is over has no variables. *)
LEMMA ForgetType ==
    ASSUME TypeObject', pc' = "idle", Forget
    PROVE  TypeLocals'
<1>1. goal' \in Generations
  <2>1. Len(Specs) \in Nat
    BY SpecsAssumption
  <2>2. QED
    BY <2>1 DEF TypeObject, Generations
<1>2. Len(Specs[goal']) \in Nat
  BY <1>1, ListEntries
<1>3. Nobody \in [Users -> RoleIDs \cup {None}]
  BY DEF Nobody
<1>4. existing' = Nobody /\ known' = {} /\ i' = 1 /\ missing' = {}
  BY DEF Forget
<1>5. Nobody' = Nobody
  BY DEF Nobody
<1>6. QED
  BY <1>2, <1>3, <1>4, <1>5 DEF TypeLocals

LEMMA FailType ==
    ASSUME TypeObject, Fail, UNCHANGED <<gen, cached, goal>>
    PROVE  TypeObject' /\ TypeLocals'
<1>1. TypeObject'
  BY DEF TypeObject, Fail
<1>2. QED
  BY <1>1, ForgetType DEF Fail

(* Only members of the page are in the lookup. *)
LEMMA MoveOnType ==
    ASSUME TypeObject, TypeLocals, NEW u \in Users, NEW answer, MoveOn(u, answer)
    PROVE  /\ existing' \in [Users -> RoleIDs \cup {None}]
           /\ i' \in 1..Len(Specs[goal]) + 1 /\ missing' \subseteq Users
<1>1. existing' \in [Users -> RoleIDs \cup {None}]
  BY DEF MoveOn, CrossOff, TypeLocals
<1>2. i' \in 1..Len(Specs[goal]) + 1
  <2>1. CASE Turn
    <3>1. Min(Ahead) \in 1..Len(Specs[goal]) /\ Len(Specs[goal]) \in Nat
      BY <2>1, TurnEntry, GoalIsGeneration, ListEntries
    <3>2. i' = Min(Ahead) + 1
      BY <2>1 DEF MoveOn
    <3>3. QED
      BY <3>1, <3>2
  <2>2. CASE ~Turn
    BY <2>2 DEF MoveOn, TypeLocals
  <2>3. QED
    BY <2>1, <2>2
<1>3. QED
  BY <1>1, <1>2 DEF MoveOn, TypeLocals

LEMMA TypeInit == Init => TypeInv
<1> SUFFICES ASSUME Init PROVE TypeInv
  OBVIOUS
<1>1. TypeHarbor
  BY DEF Init, TypeHarbor, RoleIDs
<1>2. TypeObject
  <2>1. Len(Specs) \in Nat /\ Len(Specs) >= 1
    BY SpecsAssumption
  <2>2. QED
    <3>1. gen = 1 /\ cached = 1 /\ goal = 1 /\ reported = {} /\ queued = TRUE /\ timer = FALSE
      BY DEF Init
    <3>2. gen \in Generations /\ cached \in 1..gen /\ goal \in 1..cached
      BY <2>1, <3>1 DEF Generations
    <3>3. QED
      BY <3>1, <3>2 DEF TypeObject
<1>3. TypeLocals
  <2>1. Len(Specs[goal]) \in Nat
    BY <1>2, GoalIsGeneration, ListEntries
  <2>2. Nobody \in [Users -> RoleIDs \cup {None}]
    BY DEF Nobody
  <2>3. QED
    BY <2>1, <2>2 DEF Init, TypeLocals
<1>4. TypeLate
  BY DEF Init, TypeLate
<1>5. TypeBudget
  BY BudgetAssumption DEF Init, TypeBudget
<1>6. QED
  BY <1>1, <1>2, <1>3, <1>4, <1>5 DEF TypeInv

(* A write of the pass, or a late one, leaves the ids that are kept valid. *)
LEMMA ServeIds ==
    ASSUME TypeInv, account' = account, NEW r \in Requests, Serve(r), NEW rest \in SUBSET late,
           ById(r) => r.user \in Users /\ member[r.user] # None
    PROVE  /\ TypeHarbor'
           /\ \A u \in known \ Removed : member'[u] # None
           /\ WithoutIds(rest, Removed) \subseteq late
           /\ \A q \in WithoutIds(rest, Removed) :
                 ById(q) => q.user \in Users /\ member'[q.user] # None
<1>1. TypeHarbor'
  BY ServeType DEF TypeInv
<1>2. rest \in SUBSET Requests /\ known \in SUBSET Users
  BY DEF TypeInv, TypeLate, TypeLocals
<1>3. (\A u \in known : member[u] # None)
      /\ \A q \in rest : ById(q) => q.user \in Users /\ member[q.user] # None
  BY DEF TypeInv, TypeLate, TypeLocals
<1>4. QED
  BY <1>1, <1>2, <1>3, IdsKept

(* A write that is not refused by id is one of a member. *)
LEMMA AnsweredIds ==
    ASSUME TypeInv, NEW r \in Writes, Answer(r) # "error"
    PROVE  /\ r \in Requests
           /\ ById(r) => r.user \in Users /\ r.user \in known /\ member[r.user] # None
<1>1. r \in Requests
  BY WritesAre DEF TypeInv
<1>2. ASSUME ById(r), r.user \notin known PROVE FALSE
  <2>1. Answer(r) = "error"
    BY <1>2 DEF Answer, ById
  <2>2. QED
    BY <2>1
<1>3. QED
  BY <1>1, <1>2 DEF TypeInv, TypeLocals

(* Every step keeps the types. *)
LEMMA TypeStep == TypeInv /\ [Next]_vars => TypeInv'
<1> SUFFICES ASSUME TypeInv, [Next]_vars PROVE TypeInv'
  OBVIOUS
<1>0. TypeHarbor /\ TypeLate /\ TypeObject /\ TypeLocals /\ TypeBudget
  BY DEF TypeInv
<1> USE DEF TypeInv
<1>1. CASE Reconcile
  <2>1. TypeHarbor' /\ TypeLate' /\ TypeBudget'
    BY <1>0, <1>1 DEF Reconcile, harbor, TypeHarbor, TypeLate, TypeBudget
  <2>2. TypeObject'
    <3>1. cached \in 1..cached
      BY <1>0, GoalIsGeneration
    <3>2. QED
      BY <1>0, <1>1, <3>1 DEF Reconcile, object, TypeObject
  <2>3. Len(Specs[cached]) \in Nat
    BY <1>0, GoalIsGeneration, ListEntries
  <2>4. TypeLocals'
    BY <1>0, <1>1, <2>3 DEF Reconcile, harbor, locals, TypeLocals, Nobody
  <2>5. QED
    BY <2>1, <2>2, <2>4
<1>2. CASE projectExists
  BY <1>0, <1>2 DEF projectExists, Goto, queue, harbor, locals, TypeHarbor, TypeLate, TypeObject, TypeLocals, TypeBudget, Nobody
<1>3. CASE ListMembers
  <2>1. CASE ~project
    <3>1. Fail /\ UNCHANGED <<harbor, gen, cached, goal, budget>>
      BY <1>3, <2>1 DEF ListMembers, harbor
    <3>2. TypeObject' /\ TypeLocals'
      BY <1>0, <3>1, FailType
    <3>3. QED
      BY <1>0, <3>1, <3>2 DEF harbor, TypeHarbor, TypeLate, TypeBudget
  <2>2. CASE project
    <3>1. PICK page \in SUBSET {u \in Users : member[u] # None} :
             /\ existing' = [u \in Users |-> IF u \in page THEN member[u] ELSE None]
             /\ known' = page
      BY <1>3, <2>2 DEF ListMembers
    <3>2. /\ others' = {} /\ pc = "list" /\ pc' = "members"
          /\ UNCHANGED <<i, missing, reported, queued, timer, account, project, member, late>>
          /\ UNCHANGED <<gen, cached, goal, budget>>
      BY <1>3, <2>2 DEF ListMembers, Goto, queue
    <3>3. TypeHarbor' /\ TypeLate' /\ TypeObject' /\ TypeBudget'
      BY <1>0, <3>2 DEF TypeHarbor, TypeLate, TypeObject, TypeBudget
    <3>4. existing' \in [Users -> RoleIDs \cup {None}]
      BY <1>0, <3>1 DEF TypeHarbor
    <3>5. known' \subseteq Users /\ \A u \in known' : member'[u] # None
      BY <3>1, <3>2
    <3>6. TypeLocals'
      BY <1>0, <3>2, <3>4, <3>5 DEF TypeLocals
    <3>7. QED
      BY <3>3, <3>6
  <2>3. QED
    BY <1>0, <2>1, <2>2 DEF TypeHarbor
<1>4. CASE SkipMember
  <2>1. /\ Turn /\ MoveOn(Subject, "ok") /\ pc' = "members"
        /\ UNCHANGED <<reported, queued, timer, account, project, member, late, others>>
        /\ UNCHANGED <<gen, cached, goal, known, budget>>
    BY <1>4 DEF SkipMember, Goto, queue, harbor
  <2>2. Subject \in Users
    BY <1>0, <2>1, TurnEntry
  <2>3. /\ existing' \in [Users -> RoleIDs \cup {None}]
        /\ i' \in 1..Len(Specs[goal]) + 1 /\ missing' \subseteq Users
    BY <1>0, <2>1, <2>2, MoveOnType
  <2>4. TypeHarbor' /\ TypeLate' /\ TypeObject' /\ TypeBudget'
    BY <1>0, <2>1 DEF TypeHarbor, TypeLate, TypeObject, TypeBudget
  <2>5. TypeLocals'
    BY <1>0, <2>1, <2>3 DEF TypeLocals
  <2>6. QED
    BY <2>4, <2>5
<1>5. CASE WriteHarbor
  <2>0. UNCHANGED <<account, others, gen, cached, goal, budget>>
    BY <1>5 DEF WriteHarbor
  <2>1. PICK r \in Writes :
           \/ /\ Answer(r) # "error" /\ Serve(r)
              /\ IF pc = "create" THEN Goto("list") /\ UNCHANGED locals
                 ELSE /\ Goto("members") /\ MoveOn(r.user, Answer(r))
                      /\ known' = known \ Removed
              /\ late' = WithoutIds(late, Removed)
           \/ Answer(r) = "error" /\ Fail /\ UNCHANGED <<project, member, late>>
    BY <1>5 DEF WriteHarbor
  <2>2. CASE Answer(r) = "error"
    <3>1. TypeObject' /\ TypeLocals'
      BY <1>0, <2>0, <2>1, <2>2, FailType
    <3>2. QED
      BY <1>0, <2>0, <2>1, <2>2, <3>1 DEF TypeHarbor, TypeLate, TypeBudget
  <2>3. CASE Answer(r) # "error"
    <3>1. r \in Requests /\ (ById(r) => r.user \in Users /\ member[r.user] # None)
      BY <2>3, AnsweredIds
    <3>2. /\ TypeHarbor' /\ (\A u \in known \ Removed : member'[u] # None)
          /\ late' \subseteq late
          /\ \A q \in late' : ById(q) => q.user \in Users /\ member'[q.user] # None
      BY <2>0, <2>1, <2>3, <3>1, ServeIds
    <3>3. TypeLate'
      BY <1>0, <2>0, <3>2 DEF TypeLate, ById
    <3>4. TypeObject' /\ TypeBudget'
      BY <1>0, <2>0, <2>1, <2>3 DEF TypeObject, TypeBudget, Goto, queue
    <3>5. CASE pc = "create"
      <4>1. pc' = "list" /\ UNCHANGED locals
        BY <2>1, <2>3, <3>5 DEF Goto
      <4>2. TypeLocals'
        BY <1>0, <2>0, <3>5, <4>1 DEF TypeLocals, locals, Nobody
      <4>3. QED
        BY <3>2, <3>3, <3>4, <4>2
    <3>6. CASE pc # "create"
      <4>1. pc' = "members" /\ MoveOn(r.user, Answer(r)) /\ known' = known \ Removed
        BY <2>1, <2>3, <3>6 DEF Goto
      <4>2. r.user \in Users
        BY <1>0, <3>6, WritesAre, TurnEntry
      <4>3. /\ existing' \in [Users -> RoleIDs \cup {None}]
            /\ i' \in 1..Len(Specs[goal]) + 1 /\ missing' \subseteq Users
        BY <1>0, <4>1, <4>2, MoveOnType
      <4>4. TypeLocals'
        BY <1>0, <2>0, <3>2, <4>1, <4>3 DEF TypeLocals
      <4>5. QED
        BY <3>2, <3>3, <3>4, <4>4
    <3>7. QED
      BY <3>5, <3>6
  <2>4. QED
    BY <2>2, <2>3
<1>6. CASE MembersDone
  BY <1>0, <1>6 DEF MembersDone, Goto, queue, harbor, locals, TypeHarbor, TypeLate, TypeObject, TypeLocals, TypeBudget, Nobody
<1>7. CASE FinishPass
  <2>1. TypeObject'
    BY <1>0, <1>7 DEF FinishPass, TypeObject, TypeLocals
  <2>2. TypeLocals'
    BY <1>7, <2>1, ForgetType DEF FinishPass
  <2>3. QED
    BY <1>0, <1>7, <2>1, <2>2 DEF FinishPass, harbor, TypeHarbor, TypeLate, TypeBudget
<1>8. CASE CallFails
  <2>1. TypeObject' /\ TypeLocals'
    BY <1>0, <1>8, FailType DEF CallFails
  <2>2. TypeBudget'
    BY <1>0, <1>8, DisruptType DEF CallFails, Disruptions
  <2>3. QED
    BY <1>0, <1>8, <2>1, <2>2 DEF CallFails, harbor, TypeHarbor, TypeLate
<1>9. CASE Unanswered
  <2>0. UNCHANGED <<account, others, gen, cached, goal>> /\ Fail /\ Disrupt("unanswered")
    BY <1>9 DEF Unanswered
  <2>1. PICK r \in Writes : Answer(r) = "ok" /\ Serve(r) /\ late' = WithoutIds(late, Removed)
    BY <1>9 DEF Unanswered
  <2>2. TypeObject' /\ TypeLocals'
    BY <1>0, <2>0, FailType
  <2>3. TypeBudget'
    BY <1>0, <2>0, DisruptType DEF Disruptions
  <2>4. r \in Requests /\ (ById(r) => r.user \in Users /\ member[r.user] # None)
    BY <2>1, AnsweredIds
  <2>5. /\ TypeHarbor' /\ late' \subseteq late
        /\ \A q \in late' : ById(q) => q.user \in Users /\ member'[q.user] # None
    BY <2>0, <2>1, <2>4, ServeIds
  <2>6. TypeLate'
    BY <1>0, <2>0, <2>5 DEF TypeLate, ById
  <2>7. QED
    BY <2>2, <2>3, <2>5, <2>6
<1>10. CASE TimesOut
  <2>0. /\ UNCHANGED <<account, project, member, others, gen, cached, goal>>
        /\ Fail /\ Disrupt("late")
    BY <1>10 DEF TimesOut
  <2>1. PICK r \in Writes : Answer(r) # "error" /\ late' = late \cup {r}
    BY <1>10 DEF TimesOut
  <2>2. TypeObject' /\ TypeLocals'
    BY <1>0, <2>0, FailType
  <2>3. TypeBudget'
    BY <1>0, <2>0, DisruptType DEF Disruptions
  <2>4. r \in Requests /\ (ById(r) => r.user \in Users /\ member[r.user] # None)
    BY <2>1, AnsweredIds
  <2>5. TypeHarbor' /\ TypeLate'
    BY <1>0, <2>0, <2>1, <2>4 DEF TypeHarbor, TypeLate, ById
  <2>6. QED
    BY <2>2, <2>3, <2>5
<1>11. CASE LateServed
  <2>0. /\ known' = known \ Removed
        /\ UNCHANGED <<account, object, queue, pc, goal, existing, i, missing, budget>>
    BY <1>11 DEF LateServed
  <2>1. PICK r \in late :
           /\ Serve(r)
           /\ late' = WithoutIds(late \ {r}, Removed)
           /\ others' = others \cup {u \in Users : member'[u] # member[u]}
    BY <1>11 DEF LateServed
  <2>2. r \in Requests /\ (ById(r) => r.user \in Users /\ member[r.user] # None)
    BY <1>0 DEF TypeLate
  <2>3. /\ TypeHarbor' /\ (\A u \in known \ Removed : member'[u] # None)
        /\ late' \subseteq late
        /\ \A q \in late' : ById(q) => q.user \in Users /\ member'[q.user] # None
    <3>1. late \ {r} \in SUBSET late
      OBVIOUS
    <3>2. QED
      BY <2>0, <2>1, <2>2, <3>1, ServeIds
  <2>4. TypeLate'
    BY <1>0, <2>1, <2>3 DEF TypeLate, ById
  <2>5. TypeObject' /\ TypeBudget'
    BY <1>0, <2>0 DEF TypeObject, TypeBudget, object, queue
  <2>6. TypeLocals'
    BY <1>0, <2>0, <2>3 DEF TypeLocals, Nobody
  <2>7. QED
    BY <2>3, <2>4, <2>5, <2>6
<1>12. CASE Crash
  <2>1. TypeObject'
    <3>1. gen \in Generations /\ gen \in Nat /\ goal \in 1..gen /\ gen \in 1..gen
      BY <1>0, GoalIsGeneration DEF TypeObject
    <3>2. QED
      BY <1>0, <1>12, <3>1 DEF Crash, TypeObject
  <2>2. TypeLocals'
    BY <1>12, <2>1, ForgetType DEF Crash
  <2>3. TypeBudget'
    BY <1>0, <1>12, DisruptType DEF Crash, Disruptions
  <2>4. QED
    BY <1>0, <1>12, <2>1, <2>2, <2>3 DEF Crash, harbor, TypeHarbor, TypeLate
<1>13. CASE SpecEdited
  <2>1. TypeObject'
    BY <1>0, <1>13, GoalIsGeneration DEF SpecEdited, queue, TypeObject, Generations
  <2>2. QED
    BY <1>0, <1>13, <2>1
       DEF SpecEdited, harbor, locals, TypeHarbor, TypeLate, TypeLocals, TypeBudget, Nobody
<1>14. CASE DeliverSpec
  <2>1. TypeObject'
    BY <1>0, <1>14, GoalIsGeneration DEF DeliverSpec, TypeObject
  <2>2. QED
    BY <1>0, <1>14, <2>1
       DEF DeliverSpec, harbor, locals, TypeHarbor, TypeLate, TypeLocals, TypeBudget, Nobody
<1>15. CASE TimerFires \/ Resync
  BY <1>0, <1>15 DEF TimerFires, Resync, harbor, object, locals, TypeHarbor, TypeLate, TypeObject, TypeLocals, TypeBudget, Nobody
<1>16. CASE SignIn
  <2>1. TypeHarbor' /\ TypeLate'
    BY <1>0, <1>16 DEF SignIn, TypeHarbor, TypeLate, ById
  <2>2. TypeObject' /\ TypeLocals' /\ TypeBudget'
    BY <1>0, <1>16 DEF SignIn, object, queue, locals, TypeObject, TypeLocals, TypeBudget, Nobody
  <2>3. QED
    BY <2>1, <2>2
<1>17. CASE OtherAdmin
  <2>0. /\ project /\ Disrupt("other")
        /\ known' = known \ Removed /\ late' = WithoutIds(late, Removed)
        /\ UNCHANGED <<account, project, object, queue, pc, goal, existing, i, missing>>
    BY <1>17 DEF OtherAdmin
  <2>1. PICK u \in account, role \in RoleIDs \cup {None} :
           member' = [member EXCEPT ![u] = role] /\ others' = others \cup {u}
    BY <1>17 DEF OtherAdmin
  <2>2. TypeHarbor'
    BY <1>0, <2>0, <2>1 DEF TypeHarbor
  <2>3. /\ \A v \in known \ Removed : member'[v] # None
        /\ late' \subseteq late
        /\ \A q \in late' : ById(q) => q.user \in Users /\ member'[q.user] # None
    <3>1. /\ late \in SUBSET Requests /\ known \in SUBSET Users
          /\ (\A v \in known : member[v] # None)
          /\ \A q \in late : ById(q) => q.user \in Users /\ member[q.user] # None
      BY <1>0 DEF TypeLate, TypeLocals
    <3>2. QED
      BY <2>0, <3>1, IdsKept
  <2>4. TypeLate'
    BY <1>0, <2>1, <2>3 DEF TypeLate, ById, TypeHarbor
  <2>5. TypeObject' /\ TypeLocals'
    BY <1>0, <2>0, <2>3 DEF object, queue, TypeObject, TypeLocals, Nobody
  <2>6. TypeBudget'
    BY <1>0, <2>0, DisruptType DEF Disruptions
  <2>7. QED
    BY <2>2, <2>4, <2>5, <2>6
<1>18. CASE ProjectDropped
  <2>1. TypeHarbor'
    BY <1>0, <1>18 DEF ProjectDropped, TypeHarbor, Nobody
  <2>2. TypeLate'
    BY <1>0, <1>18 DEF ProjectDropped, TypeLate, WithoutIds, ById
  <2>3. TypeObject' /\ TypeLocals'
    BY <1>0, <1>18 DEF ProjectDropped, object, queue, TypeObject, TypeLocals, Nobody
  <2>4. TypeBudget'
    BY <1>0, <1>18, DisruptType DEF ProjectDropped, Disruptions
  <2>5. QED
    BY <2>1, <2>2, <2>3, <2>4
<1>19. CASE UNCHANGED vars
  BY <1>0, <1>19 DEF vars, harbor, object, queue, locals, TypeHarbor, TypeLate, TypeObject, TypeLocals, TypeBudget, Nobody
<1>20. QED
  BY <1>1, <1>2, <1>3, <1>4, <1>5, <1>6, <1>7, <1>8, <1>9, <1>10, <1>11, <1>12, <1>13,
     <1>14, <1>15, <1>16, <1>17, <1>18, <1>19 DEF Next, Worker, Environment

(* TypeOK always holds: an id the pass uses, and one a late write carries, is that
   of a member, so updateProjectMember and deleteProjectMember never make a member
   of a user without an account or without a project. *)
THEOREM TypeCorrect == Spec => []TypeOK
<1>1. TypeInv => TypeOK
  BY DEF TypeInv, TypeHarbor, TypeLate, TypeObject, TypeLocals, TypeBudget, TypeOK
<1>2. QED
  BY <1>1, TypeInit, TypeStep, PTL DEF Spec

-----------------------------------------------------------------------------
(***************************************************************************)
(* The promise of MemberSync.  What it rests on: a member still in the     *)
(* lookup has no entry the loop has passed.  So the entry that re-roles it *)
(* is its first, and one the loop leaves over has no entry at all.         *)
(***************************************************************************)
Passed(u) == {k \in Named(goal, u) : k < i}

LookupAhead == \A u \in Users : existing[u] # None => Passed(u) = {}

LookupInv == TypeInv /\ LookupAhead

(* Moving on passes one entry of the user it is about, and of nobody else. *)
LEMMA MoveOnPasses ==
    ASSUME TypeObject, TypeLocals, NEW u \in Users, Turn => u = Subject, NEW answer,
           MoveOn(u, answer), goal' = goal
    PROVE  \A v \in Users :
              /\ v # u => existing'[v] = existing[v] /\ Passed(v)' = Passed(v)
              /\ v = u => existing'[v] = None
              /\ v = u /\ Turn => Passed(v)' # {}
              /\ ~Turn => Passed(v)' = Passed(v)
<1> SUFFICES ASSUME NEW v \in Users
             PROVE  /\ v # u => existing'[v] = existing[v] /\ Passed(v)' = Passed(v)
                    /\ v = u => existing'[v] = None
                    /\ v = u /\ Turn => Passed(v)' # {}
                    /\ ~Turn => Passed(v)' = Passed(v)
  OBVIOUS
<1>1. (v # u => existing'[v] = existing[v]) /\ (v = u => existing'[v] = None)
  BY DEF MoveOn, CrossOff, TypeLocals
<1>2. Named(goal, v)' = Named(goal, v)
  BY DEF Named, harborMembers
<1>3. CASE ~Turn
  <2>1. i' = i
    BY <1>3 DEF MoveOn
  <2>2. QED
    BY <1>1, <1>2, <1>3, <2>1 DEF Passed
<1>4. CASE Turn
  <2>1. i' = Min(Ahead) + 1
    BY <1>4 DEF MoveOn
  <2>2. /\ Min(Ahead) \in Named(goal, Subject) /\ i <= Min(Ahead)
        /\ Min(Ahead) \in Nat /\ i \in Nat
        /\ \A k \in harborMembers(goal) : k >= i => Min(Ahead) <= k
    BY <1>4, TurnEntry DEF TypeLocals
  <2>3. harborMembers(goal) \subseteq Nat
    BY GoalIsGeneration, ListEntries
  <2>4. ASSUME v # u PROVE Passed(v)' = Passed(v)
    <3>1. \A k \in Named(goal, v) : k \in Nat /\ k # Min(Ahead) /\ (k >= i => Min(Ahead) <= k)
      BY <1>4, <2>2, <2>3, <2>4 DEF Named
    <3>2. \A k \in Named(goal, v) : k < i' <=> k < i
      BY <2>1, <2>2, <3>1
    <3>3. QED
      BY <1>2, <3>2 DEF Passed
  <2>5. ASSUME v = u PROVE Min(Ahead) \in Passed(v)'
    BY <1>2, <1>4, <2>1, <2>2, <2>5 DEF Passed
  <2>6. QED
    BY <1>1, <1>4, <2>4, <2>5
<1>5. QED
  BY <1>3, <1>4

(* Every step keeps the lookup ahead of the loop. *)
LEMMA LookupStep == LookupInv /\ [Next]_vars => LookupInv'
<1> SUFFICES ASSUME LookupInv, [Next]_vars PROVE LookupInv'
  OBVIOUS
<1>0. TypeInv /\ LookupAhead /\ TypeInv' /\ TypeObject /\ TypeLocals
  BY TypeStep DEF LookupInv, TypeInv
<1> SUFFICES LookupAhead'
  BY <1>0 DEF LookupInv
<1>1. ASSUME existing' = Nobody PROVE LookupAhead'
  BY <1>1 DEF LookupAhead, Nobody
<1>2. ASSUME UNCHANGED <<existing, i, goal>> PROVE LookupAhead'
  BY <1>0, <1>2 DEF LookupAhead, Passed, Named, harborMembers
<1>3. ASSUME NEW u \in Users, Turn => u = Subject, NEW answer, MoveOn(u, answer), goal' = goal
      PROVE  LookupAhead'
  <2>1. \A v \in Users : v = u => existing'[v] = None
    BY <1>0, <1>3, MoveOnPasses
  <2>2. \A v \in Users : v # u => existing'[v] = existing[v] /\ Passed(v)' = Passed(v)
    BY <1>0, <1>3, MoveOnPasses
  <2>3. QED
    BY <1>0, <2>1, <2>2 DEF LookupAhead
<1>4. CASE Reconcile
  BY <1>0, <1>1, <1>4 DEF Reconcile, locals, TypeLocals
<1>5. CASE ListMembers
  <2>1. CASE pc' = "idle"
    BY <1>0, <1>1, <2>1 DEF TypeInv, TypeLocals, Nobody
  <2>2. CASE pc' # "idle"
    <3>1. i' = 1
      BY <1>0, <1>5, <2>2 DEF ListMembers, Fail, TypeLocals
    <3>2. \A k \in harborMembers(goal') : k \in Nat /\ k >= 1
      BY <1>0, GoalIsGeneration, ListEntries, <1>5 DEF ListMembers
    <3>3. QED
      BY <3>1, <3>2 DEF LookupAhead, Passed, Named, harborMembers
  <2>3. QED
    BY <2>1, <2>2
<1>6. CASE SkipMember
  BY <1>0, <1>3, <1>6, TurnEntry DEF SkipMember
<1>7. CASE WriteHarbor
  <2>1. CASE pc' = "idle" \/ pc' = "list"
    BY <1>0, <1>1, <2>1 DEF TypeInv, TypeLocals, Nobody
  <2>2. CASE pc' \notin {"idle", "list"}
    <3>1. PICK r \in Writes : pc # "create" /\ MoveOn(r.user, Answer(r))
      BY <1>7, <2>2 DEF WriteHarbor, Goto, Fail
    <3>2. r.user \in Users /\ (Turn => r.user = Subject)
      BY <1>0, <3>1, WritesAre, TurnEntry
    <3>3. QED
      BY <1>3, <1>7, <3>1, <3>2 DEF WriteHarbor
  <2>3. QED
    BY <2>1, <2>2
<1>8. CASE FinishPass \/ CallFails \/ Unanswered \/ TimesOut \/ Crash
  BY <1>1, <1>8 DEF FinishPass, CallFails, Unanswered, TimesOut, Crash, Fail, Forget
<1>9. CASE projectExists \/ MembersDone \/ LateServed \/ SpecEdited \/ DeliverSpec \/ TimerFires
  BY <1>2, <1>9 DEF projectExists, MembersDone, LateServed, SpecEdited, DeliverSpec, TimerFires, locals
<1>10. CASE Resync \/ SignIn \/ OtherAdmin \/ ProjectDropped \/ UNCHANGED vars
  BY <1>2, <1>10 DEF Resync, SignIn, OtherAdmin, ProjectDropped, vars, locals
<1>11. QED
  BY <1>4, <1>5, <1>6, <1>7, <1>8, <1>9, <1>10 DEF Next, Worker, Environment

(* What others may still do is a number, and only ever becomes less. *)
ImplInv == LookupInv /\ IsFiniteSet(late)

LEMMA InterferenceCounts ==
    ASSUME TypeBudget, IsFiniteSet(late), TypeBudget', NEW rest, rest \subseteq late, late' = rest,
           budget'["other"] <= budget["other"], budget'["drop"] <= budget["drop"],
           budget'["late"] <= budget["late"]
    PROVE  /\ IsFiniteSet(late)' /\ Interference \in Nat /\ Interference' \in 0..Interference
           /\ \/ budget'["other"] < budget["other"] \/ budget'["drop"] < budget["drop"]
              \/ late' # late
              => Interference' < Interference
<1>1. IsFiniteSet(rest) /\ Cardinality(rest) <= Cardinality(late)
      /\ (Cardinality(rest) = Cardinality(late) => rest = late)
  BY FS_Subset
<1>2. Cardinality(rest) \in Nat /\ Cardinality(late) \in Nat
  BY <1>1, FS_CardinalityType
<1>3. /\ budget["other"] \in Nat /\ budget["drop"] \in Nat /\ budget["late"] \in Nat
      /\ budget'["other"] \in Nat /\ budget'["drop"] \in Nat /\ budget'["late"] \in Nat
  BY DEF TypeBudget, Disruptions
<1>4. Interference' = budget'["other"] + budget'["drop"] + budget'["late"] + Cardinality(rest)
  BY DEF Interference
<1>5. QED
  BY <1>1, <1>2, <1>3, <1>4 DEF Interference

(* The first entry of a user, when its turn comes. *)
LEMMA FirstEntry ==
    ASSUME TypeObject, TypeLocals, Turn, Passed(Subject) = {}
    PROVE  Want(goal, Subject) = Role /\ Role # None
<1>1. goal \in Generations
  BY GoalIsGeneration
<1>2. /\ Min(Ahead) \in Named(goal, Subject) /\ Subject \in Users /\ Role \in RoleIDs
      /\ Role = harborRoleID(Specs[goal][Min(Ahead)].role)
      /\ \A k \in harborMembers(goal) : k >= i => Min(Ahead) <= k
  BY TurnEntry
<1>3. \A k \in Named(goal, Subject) : k \in harborMembers(goal) /\ k \in Nat /\ ~(k < i)
  BY <1>1, <1>2, WantIsFirst DEF Passed, Named
<1>4. \A k \in Named(goal, Subject) : Min(Ahead) <= k
  BY <1>2, <1>3 DEF TypeLocals
<1>5. QED
  BY <1>1, <1>2, <1>4, WantIsFirst, NoneAssumption DEF RoleIDs

(* A member the pass adds gets a role the list names for it, one it re-roles the
   role it should have, and one it removes should be none. *)
LEMMA WriteIsSync ==
    ASSUME ImplInv, NEW r \in Writes, Answer(r) # "error", Serve(r), pc # "create",
           UNCHANGED <<gen, goal, account>>, Interference' \in 0..Interference
    PROVE  member' = member \/ Sync!Sync
<1>0. TypeInv /\ TypeHarbor /\ TypeObject /\ TypeLocals /\ LookupAhead
  BY DEF ImplInv, LookupInv, TypeInv
<1>1. goal \in Generations
  BY <1>0, GoalIsGeneration
<1>2. member \in [Users -> RoleIDs \cup {None}]
  BY <1>0 DEF TypeHarbor
<1>3. CASE r.op = "add"
  <2>1. Turn /\ r.user = Subject /\ r.role = Role /\ Subject \in Users
    BY <1>0, <1>3, WritesAre, TurnEntry
  <2>2. CASE ~Addable(r.user)
    BY <1>3, <2>2 DEF Serve, ById
  <2>3. CASE Addable(r.user)
    <3>1. member' = [member EXCEPT ![Subject] = Role] /\ member[Subject] = None /\ Subject \in account
      BY <1>3, <2>1, <2>3 DEF Serve, Addable
    <3>2. Role \in Asks(goal, Subject) /\ Want(goal, Subject) # None
      BY <1>0, <1>1, <2>1, TurnEntry, WantIsFirst
    <3>3. QED
      BY <2>1, <3>1, <3>2 DEF Sync!Sync, Sync!Possible
  <2>4. QED
    BY <2>2, <2>3
<1>4. CASE r.op = "update"
  <2>1. /\ Turn /\ r.user = Subject /\ r.role = Role /\ Subject \in Users
        /\ existing[Subject] # None
    BY <1>0, <1>4, WritesAre, TurnEntry
  <2>2. member' = [member EXCEPT ![Subject] = Role] /\ Subject \in account
    <3>1. member[Subject] # None
      BY <1>0, <1>4, <2>1, AnsweredIds DEF ById
    <3>2. QED
      BY <1>0, <1>4, <2>1, <3>1 DEF Serve, ById, TypeHarbor
  <2>3. Want(goal, Subject) = Role
    BY <1>0, <2>1, FirstEntry DEF LookupAhead
  <2>4. CASE member[Subject] = Role
    BY <1>2, <2>1, <2>2, <2>4
  <2>5. CASE member[Subject] # Role
    BY <2>1, <2>2, <2>3, <2>5 DEF Sync!Sync, Sync!Possible
  <2>6. QED
    BY <2>4, <2>5
<1>5. CASE r.op = "delete"
  <2>1. ~Turn /\ r.user \in Users /\ r.role = None /\ existing[r.user] # None
    BY <1>0, <1>5, WritesAre
  <2>2. member' = [member EXCEPT ![r.user] = None] /\ member[r.user] # None
    BY <1>5, <1>0, <2>1, AnsweredIds DEF Serve, ById
  <2>3. Want(goal, r.user) = None
    <3>1. \A k \in Named(goal, r.user) : k \in Nat /\ ~(k < i) /\ k \in harborMembers(goal)
      BY <1>0, <1>1, <2>1, WantIsFirst DEF LookupAhead, Passed, Named
    <3>2. \A k \in harborMembers(goal) : ~(k >= i)
      BY <2>1 DEF Turn, Ahead
    <3>3. Named(goal, r.user) = {}
      BY <1>0, <3>1, <3>2 DEF TypeLocals
    <3>4. QED
      BY <1>1, <2>1, <3>3, WantIsFirst
  <2>4. QED
    BY <2>1, <2>2, <2>3 DEF Sync!Sync, Sync!Possible
<1>6. QED
  BY <1>0, <1>3, <1>4, <1>5, WritesAre

(* Every step is one of MemberSync, or changes nothing it speaks of. *)
LEMMA StepImplements ==
    ImplInv /\ [Next]_vars => IsFiniteSet(late)' /\ [Sync!Next]_(Sync!vars)
<1> SUFFICES ASSUME ImplInv, [Next]_vars PROVE IsFiniteSet(late)' /\ [Sync!Next]_(Sync!vars)
  OBVIOUS
<1>0. TypeInv /\ LookupInv /\ IsFiniteSet(late) /\ TypeInv'
  BY TypeStep DEF ImplInv, LookupInv
<1>1. /\ TypeHarbor /\ TypeLate /\ TypeObject /\ TypeLocals /\ TypeBudget
      /\ TypeHarbor' /\ TypeLate' /\ TypeObject' /\ TypeBudget'
  BY <1>0 DEF TypeInv
<1>2. ASSUME UNCHANGED <<late, budget>>
      PROVE  IsFiniteSet(late)' /\ Interference' = Interference
  BY <1>0, <1>2 DEF Interference
<1>3. ASSUME UNCHANGED <<gen, goal, member, account>>, UNCHANGED <<late, budget>>
      PROVE  IsFiniteSet(late)' /\ [Sync!Next]_(Sync!vars)
  BY <1>2, <1>3 DEF Sync!vars
<1>4. ASSUME UNCHANGED <<gen, goal, account>>, Interference' < Interference
      PROVE  Sync!Next
  <2>1. DOMAIN member' = Users /\ \A u \in Users \ account : member'[u] = None
    BY <1>1, <1>4 DEF TypeHarbor
  <2>2. QED
    BY <1>4, <2>1 DEF Sync!Next, Sync!Interfere
<1>5. \A kind \in Disruptions \ {"any"} : Disrupt(kind) =>
         \A other \in Disruptions :
            /\ budget[other] \in Nat /\ budget'[other] \in Nat
            /\ budget'[other] <= budget[other]
            /\ other \in {kind, "any"} => budget'[other] = budget[other] - 1
            /\ other \notin {kind, "any"} => budget'[other] = budget[other]
  BY <1>1 DEF TypeBudget, Disrupt, Disruptions
<1>6. ASSUME NEW r \in Writes, Answer(r) # "error", Serve(r), UNCHANGED <<gen, goal, account>>,
             late' = WithoutIds(late, Removed),
             budget'["other"] = budget["other"], budget'["drop"] = budget["drop"],
             budget'["late"] = budget["late"]
      PROVE  IsFiniteSet(late)' /\ [Sync!Next]_(Sync!vars)
  <2>1. WithoutIds(late, Removed) \subseteq late
    BY DEF WithoutIds
  <2>2. IsFiniteSet(late)' /\ Interference \in Nat /\ Interference' \in 0..Interference
    <3>1. /\ budget'["other"] <= budget["other"] /\ budget'["drop"] <= budget["drop"]
          /\ budget'["late"] <= budget["late"]
      BY <1>1, <1>6 DEF TypeBudget, Disruptions
    <3>2. QED
      BY <1>0, <1>1, <1>6, <2>1, <3>1, InterferenceCounts
  <2>3. ASSUME member' = member PROVE [Sync!Next]_(Sync!vars)
    <3>1. late' = late
      BY <1>6, <2>3 DEF WithoutIds, Removed
    <3>2. Interference' = Interference
      BY <1>6, <3>1 DEF Interference
    <3>3. QED
      BY <1>6, <2>3, <3>2 DEF Sync!vars
  <2>4. CASE pc = "create"
    <3>1. member' = member
      BY <1>1, <1>6, <2>4, WritesAre DEF Serve, ById
    <3>2. QED
      BY <2>2, <2>3, <3>1
  <2>5. CASE pc # "create"
    <3>1. member' = member \/ Sync!Sync
      BY <1>6, <2>2, <2>5, WriteIsSync
    <3>2. QED
      BY <2>2, <2>3, <3>1 DEF Sync!Next
  <2>6. QED
    BY <2>4, <2>5
<1>7. CASE Reconcile
  <2>1. /\ goal' = cached
        /\ UNCHANGED <<gen, member, account>> /\ UNCHANGED <<late, budget>>
    BY <1>7 DEF Reconcile, harbor, object
  <2>2. Interference' = Interference /\ IsFiniteSet(late)'
    BY <1>2, <2>1
  <2>3. CASE goal = cached
    BY <1>3, <2>1, <2>3
  <2>4. CASE goal # cached
    <3>1. cached \in (goal + 1)..gen
      BY <1>1, <2>4, GoalIsGeneration
    <3>2. Sync!Start
      BY <2>1, <2>2, <3>1 DEF Sync!Start
    <3>3. QED
      BY <2>2, <3>2 DEF Sync!Next
  <2>5. QED
    BY <2>3, <2>4
<1>8. CASE WriteHarbor
  <2>1. UNCHANGED <<account, gen, goal, budget>>
    BY <1>8 DEF WriteHarbor
  <2>2. PICK r \in Writes :
           \/ Answer(r) # "error" /\ Serve(r) /\ late' = WithoutIds(late, Removed)
           \/ Answer(r) = "error" /\ UNCHANGED <<project, member, late>>
    BY <1>8 DEF WriteHarbor
  <2>3. CASE Answer(r) # "error"
    BY <1>6, <2>1, <2>2, <2>3
  <2>4. CASE Answer(r) = "error"
    BY <1>3, <2>1, <2>2, <2>4
  <2>5. QED
    BY <2>3, <2>4
<1>9. CASE Unanswered
  <2>1. PICK r \in Writes : Answer(r) = "ok" /\ Serve(r) /\ late' = WithoutIds(late, Removed)
    BY <1>9 DEF Unanswered
  <2>2. UNCHANGED <<account, gen, goal>> /\ Disrupt("unanswered")
    BY <1>9 DEF Unanswered
  <2>3. /\ budget'["other"] = budget["other"] /\ budget'["drop"] = budget["drop"]
        /\ budget'["late"] = budget["late"]
    BY <1>5, <2>2 DEF Disruptions
  <2>4. QED
    BY <1>6, <2>1, <2>2, <2>3
<1>10. CASE TimesOut
  <2>1. PICK r \in Writes : late' = late \cup {r}
    BY <1>10 DEF TimesOut
  <2>2. UNCHANGED <<account, member, gen, goal>> /\ Disrupt("late")
    BY <1>10 DEF TimesOut
  <2>3. /\ budget'["other"] = budget["other"] /\ budget'["drop"] = budget["drop"]
        /\ budget'["late"] = budget["late"] - 1 /\ budget["other"] \in Nat
        /\ budget["drop"] \in Nat /\ budget["late"] \in Nat
    BY <1>5, <2>2 DEF Disruptions
  <2>4. /\ IsFiniteSet(late)' /\ Cardinality(late) \in Nat
        /\ Cardinality(late') \in {Cardinality(late), Cardinality(late) + 1}
    BY <1>0, <2>1, FS_AddElement, FS_CardinalityType
  <2>5. Interference' = budget'["other"] + budget'["drop"] + budget'["late"] + Cardinality(late')
    BY DEF Interference
  <2>6. Interference' = Interference \/ Interference' < Interference
    BY <2>3, <2>4, <2>5 DEF Interference
  <2>7. QED
    BY <1>4, <2>2, <2>4, <2>6 DEF Sync!vars
<1>11. CASE LateServed
  <2>1. PICK r \in late : late' = WithoutIds(late \ {r}, Removed)
    BY <1>11 DEF LateServed
  <2>2. UNCHANGED <<account, gen, goal, budget>>
    BY <1>11 DEF LateServed, object
  <2>3. WithoutIds(late \ {r}, Removed) \subseteq late /\ late' # late
    BY <2>1 DEF WithoutIds
  <2>4. /\ budget'["other"] <= budget["other"] /\ budget'["drop"] <= budget["drop"]
        /\ budget'["late"] <= budget["late"]
    BY <1>1, <2>2 DEF TypeBudget, Disruptions
  <2>5. IsFiniteSet(late)' /\ Interference' < Interference
    BY <1>0, <1>1, <2>1, <2>3, <2>4, InterferenceCounts
  <2>6. QED
    BY <1>4, <2>2, <2>5
<1>12. CASE OtherAdmin \/ ProjectDropped
  <2>1. PICK us : late' = WithoutIds(late, us)
    BY <1>12 DEF OtherAdmin, ProjectDropped
  <2>2. UNCHANGED <<account, gen, goal>>
    BY <1>12 DEF OtherAdmin, ProjectDropped, object
  <2>3. WithoutIds(late, us) \subseteq late
    BY DEF WithoutIds
  <2>4. /\ budget'["other"] <= budget["other"] /\ budget'["drop"] <= budget["drop"]
        /\ budget'["late"] <= budget["late"]
        /\ budget'["other"] < budget["other"] \/ budget'["drop"] < budget["drop"]
    <3>1. Disrupt("other") \/ Disrupt("drop")
      BY <1>12 DEF OtherAdmin, ProjectDropped
    <3>2. QED
      BY <1>5, <3>1 DEF Disruptions
  <2>5. IsFiniteSet(late)' /\ Interference' < Interference
    BY <1>0, <1>1, <2>1, <2>3, <2>4, InterferenceCounts
  <2>6. QED
    BY <1>4, <2>2, <2>5
<1>13. CASE CallFails \/ Crash
  <2>1. UNCHANGED <<gen, goal, member, account>> /\ late' = late
    BY <1>13 DEF CallFails, Crash, harbor
  <2>2. Disrupt("fail") \/ Disrupt("crash")
    BY <1>13 DEF CallFails, Crash
  <2>3. /\ budget'["other"] = budget["other"] /\ budget'["drop"] = budget["drop"]
        /\ budget'["late"] = budget["late"]
    BY <1>5, <2>2 DEF Disruptions
  <2>4. QED
    BY <1>0, <2>1, <2>3 DEF Interference, Sync!vars
<1>14. CASE SpecEdited
  BY <1>2, <1>14 DEF SpecEdited, harbor, Sync!Next, Sync!Edit
<1>15. CASE SignIn
  BY <1>2, <1>15 DEF SignIn, object, Sync!Next, Sync!SignIn
<1>16. CASE projectExists \/ ListMembers \/ SkipMember \/ MembersDone \/ FinishPass
  BY <1>3, <1>16 DEF projectExists, ListMembers, SkipMember, MembersDone, FinishPass, harbor, object
<1>17. CASE DeliverSpec \/ TimerFires \/ Resync \/ UNCHANGED vars
  BY <1>3, <1>17 DEF DeliverSpec, TimerFires, Resync, vars, harbor, object
<1>18. QED
  BY <1>7, <1>8, <1>9, <1>10, <1>11, <1>12, <1>13, <1>14, <1>15, <1>16, <1>17
     DEF Next, Worker, Environment

(* The operator implements MemberSync, but for its fairness: whatever calls fail,
   are answered late or not at all, and whatever others do to the project,
   ReconcileProjectMembers makes a user only what the list of its pass asks for,
   one user at a time, and never turns back to an older list. *)
THEOREM ImplementsSync == Spec => Sync!Spec
<1>1. Init => ImplInv /\ Sync!Init
  <2> SUFFICES ASSUME Init PROVE ImplInv /\ Sync!Init
    OBVIOUS
  <2>1. TypeInv
    BY TypeInit
  <2>2. LookupAhead
    BY DEF Init, LookupAhead, Nobody
  <2>3. IsFiniteSet(late)
    BY FS_EmptySet DEF Init
  <2>4. Sync!Init
    <3>1. DOMAIN member = Users /\ \A u \in Users \ account : member[u] = None
      BY <2>1 DEF TypeInv, TypeHarbor
    <3>2. QED
      BY <3>1 DEF Init, Sync!Init
  <2>5. QED
    BY <2>1, <2>2, <2>3, <2>4 DEF ImplInv, LookupInv
<1>2. ImplInv /\ [Next]_vars => ImplInv' /\ [Sync!Next]_(Sync!vars)
  BY LookupStep, StepImplements DEF ImplInv
<1>3. QED
  BY <1>1, <1>2, PTL DEF Spec, Sync!Spec

-----------------------------------------------------------------------------
(***************************************************************************)
(* At rest.  A pass deals with the users one by one: those in the lookup   *)
(* are members as listed, those whose first entry was passed are as they   *)
(* should be or noted as missing, the rest are no members.  That is lost   *)
(* if the listing leaves members out, so all of them must fit on one page. *)
(***************************************************************************)
Handled(u) ==
    /\ existing[u] # None => member[u] = existing[u]
    /\ Passed(u) # {} => member[u] = Want(goal, u) \/ u \in missing
    /\ Passed(u) = {} /\ existing[u] = None => member[u] = None

Made(u) == member[u] = Want(goal, u) \/ (Want(goal, u) # None /\ u \in reported /\ timer)

GoalCurrent == ~queued => goal = cached
PassHandles ==
    pc \in {"members", "rest"} =>
        (\A u \in Users \ others : Handled(u)) /\ \A u \in missing : Passed(u) # {}
PassComplete == pc = "rest" => ~Turn /\ existing = Nobody
IdleMade == pc = "idle" /\ ~queued => \A u \in Users \ others : Made(u)

RestParts == GoalCurrent /\ PassHandles /\ PassComplete /\ IdleMade
RestInv == LookupInv /\ RestParts

(* On one page, all members are listed. *)
LEMMA PageHasAll ==
    ASSUME IsFiniteSet(Users), Cardinality(Users) <= PageSize,
           NEW page \in SUBSET {u \in Users : member[u] # None},
           \/ page = {u \in Users : member[u] # None} /\ Cardinality(page) <= PageSize
           \/ Cardinality(page) = PageSize
    PROVE  page = {u \in Users : member[u] # None}
<1> DEFINE all == {u \in Users : member[u] # None}
<1> SUFFICES ASSUME Cardinality(page) = PageSize PROVE page = all
  OBVIOUS
<1>1. IsFiniteSet(all) /\ Cardinality(all) <= Cardinality(Users)
  <2>1. all \in SUBSET Users
    OBVIOUS
  <2>2. QED
    BY <2>1, FS_Subset
<1>2. /\ Cardinality(page) <= Cardinality(all)
      /\ Cardinality(all) = Cardinality(page) => all = page
  BY <1>1, FS_Subset
<1>3. Cardinality(all) \in Nat /\ Cardinality(Users) \in Nat /\ PageSize \in Nat
  BY <1>1, FS_CardinalityType, PageAssumption
<1>4. QED
  BY <1>1, <1>2, <1>3

(* What moving on does to the users that are handled. *)
LEMMA MoveOnHandles ==
    ASSUME TypeHarbor, TypeObject, TypeLocals, PassHandles, pc = "members", pc' = "members",
           NEW u \in Users, Turn => u = Subject, NEW answer, MoveOn(u, answer), goal' = goal,
           others' = others, \A v \in Users : v # u => member'[v] = member[v],
           answer = "missing" => Turn,
           u \notin others => (Passed(u)' # {} => member'[u] = Want(goal, u) \/ u \in missing'),
           u \notin others => (Passed(u)' = {} => member'[u] = None)
    PROVE  PassHandles'
<1>1. \A v \in Users : v # u => existing'[v] = existing[v] /\ Passed(v)' = Passed(v)
  BY MoveOnPasses
<1>2. existing'[u] = None /\ (Turn => Passed(u)' # {}) /\ (~Turn => Passed(u)' = Passed(u))
  BY MoveOnPasses
<1>3. missing' = IF answer = "missing" THEN missing \cup {u} ELSE missing
  BY DEF MoveOn
<1>4. \A v \in Users : Want(goal, v)' = Want(goal, v)
  BY DEF Want, Named, harborMembers
<1>5. (\A v \in Users \ others : Handled(v)) /\ (\A v \in missing : Passed(v) # {})
  BY DEF PassHandles
<1>6. ASSUME NEW v \in Users \ others PROVE Handled(v)'
  <2>1. CASE v = u
    BY <1>2, <1>4, <2>1 DEF Handled
  <2>2. CASE v # u
    <3>1. /\ existing'[v] = existing[v] /\ Passed(v)' = Passed(v) /\ member'[v] = member[v]
          /\ v \in missing => v \in missing'
      BY <1>1, <1>3, <2>2
    <3>2. QED
      BY <1>4, <1>5, <3>1 DEF Handled
  <2>3. QED
    BY <2>1, <2>2
<1>7. ASSUME NEW v \in missing' PROVE Passed(v)' # {}
  <2>1. v \in Users
    BY <1>3, <1>7 DEF TypeLocals
  <2>2. CASE v = u
    <3>1. Turn \/ v \in missing
      BY <1>3, <1>7
    <3>2. QED
      BY <1>2, <1>5, <2>2, <3>1
  <2>3. CASE v # u
    BY <1>1, <1>3, <1>5, <1>7, <2>1, <2>3
  <2>4. QED
    BY <2>2, <2>3
<1>8. QED
  BY <1>6, <1>7 DEF PassHandles

(* A write of the member loop. *)
LEMMA WriteHandles ==
    ASSUME RestInv, pc = "members", pc' = "members", UNCHANGED <<account, others, goal>>,
           NEW r \in Writes, Answer(r) # "error", Serve(r), MoveOn(r.user, Answer(r))
    PROVE  PassHandles'
<1>0. /\ TypeInv /\ TypeHarbor /\ TypeObject /\ TypeLocals /\ LookupAhead /\ PassHandles
  BY DEF RestInv, RestParts, LookupInv, TypeInv
<1>1. member \in [Users -> RoleIDs \cup {None}] /\ goal \in Generations
  BY <1>0, GoalIsGeneration DEF TypeHarbor
<1> DEFINE u == r.user
<1>2. u \in Users /\ (Turn => u = Subject)
  BY <1>0, WritesAre, TurnEntry
<1>3. \A v \in Users : v # u => member'[v] = member[v]
  BY <1>1 DEF Serve
<1>4. Answer(r) = "missing" => r.op = "add"
  BY DEF Answer
<1>5. /\ Turn => Passed(u)' # {}
      /\ ~Turn => Passed(u)' = Passed(u)
  BY <1>0, <1>2, MoveOnPasses
<1>6. missing \subseteq missing' /\ (Answer(r) = "missing" => u \in missing')
  BY DEF MoveOn
<1>7. u \notin others => Handled(u)
  BY <1>0, <1>2 DEF PassHandles
<1>8. CASE r.op = "add"
  <2>1. Turn /\ existing[u] = None /\ r.role = Role /\ u = Subject
    BY <1>0, <1>8, WritesAre
  <2>2. ASSUME u \notin others PROVE member'[u] = Want(goal, u) \/ u \in missing'
    <3>1. CASE Passed(u) = {}
      <4>1. member[u] = None /\ Want(goal, u) = Role
        BY <1>0, <1>7, <2>1, <2>2, <3>1, FirstEntry DEF Handled
      <4>2. CASE project /\ u \in account
        BY <1>1, <1>2, <1>8, <2>1, <4>1, <4>2 DEF Serve, Addable
      <4>3. CASE ~(project /\ u \in account)
        <5>1. Answer(r) = "missing"
          BY <1>8, <4>3 DEF Answer, ById
        <5>2. QED
          BY <1>6, <5>1
      <4>4. QED
        BY <4>2, <4>3
    <3>2. CASE Passed(u) # {}
      <4>1. member[u] = Want(goal, u) \/ u \in missing
        BY <1>7, <2>2, <3>2 DEF Handled
      <4>2. Want(goal, u) # None
        BY <1>1, <1>2, <3>2, WantIsFirst DEF Passed
      <4>3. CASE member[u] = Want(goal, u)
        <5>1. member' = member
          BY <1>8, <4>2, <4>3 DEF Serve, ById, Addable
        <5>2. QED
          BY <4>3, <5>1
      <4>4. QED
        BY <1>6, <4>1, <4>3
    <3>3. QED
      BY <3>1, <3>2
  <2>3. QED
    BY <1>0, <1>2, <1>3, <1>5, <2>1, <2>2, MoveOnHandles
<1>9. CASE r.op = "update"
  <2>1. Turn /\ existing[u] # None /\ r.role = Role /\ u = Subject
    BY <1>0, <1>9, WritesAre
  <2>2. Want(goal, u) = Role
    BY <1>0, <1>2, <2>1, FirstEntry DEF LookupAhead
  <2>3. member'[u] = Role
    BY <1>1, <1>2, <1>9, <2>1 DEF Serve, ById
  <2>4. QED
    BY <1>0, <1>2, <1>3, <1>5, <2>1, <2>2, <2>3, MoveOnHandles
<1>10. CASE r.op = "delete"
  <2>1. ~Turn /\ existing[u] # None /\ r.role = None
    BY <1>0, <1>10, WritesAre
  <2>2. Passed(u)' = {} /\ Answer(r) # "missing"
    BY <1>0, <1>2, <1>4, <1>5, <1>10, <2>1 DEF LookupAhead
  <2>3. member'[u] = None
    BY <1>1, <1>2, <1>10, <2>1 DEF Serve, ById
  <2>4. QED
    BY <1>0, <1>2, <1>3, <2>1, <2>2, <2>3, MoveOnHandles
<1>11. QED
  BY <1>0, <1>8, <1>9, <1>10, WritesAre

(* Every step keeps the promise. *)
LEMMA RestStep ==
    ASSUME IsFiniteSet(Users), Cardinality(Users) <= PageSize
    PROVE  RestInv /\ [Next]_vars => RestInv'
<1> SUFFICES ASSUME RestInv, [Next]_vars PROVE RestInv'
  OBVIOUS
<1>0. /\ LookupInv' /\ TypeInv /\ TypeHarbor /\ TypeObject /\ TypeLocals /\ LookupAhead
      /\ GoalCurrent /\ PassHandles /\ PassComplete /\ IdleMade
      /\ goal \in Generations
  BY LookupStep, GoalIsGeneration DEF RestInv, RestParts, LookupInv, TypeInv
<1> SUFFICES RestParts'
  BY <1>0 DEF RestInv
<1>1. ASSUME UNCHANGED <<existing, i, goal, missing, pc, reported>>, others \subseteq others',
             \A u \in Users \ others' : member'[u] = member[u],
             queued' \/ UNCHANGED <<queued, timer, cached>>,
             queued \in BOOLEAN
      PROVE  RestParts'
  <2>1. \A u \in Users : Passed(u)' = Passed(u) /\ Want(goal, u)' = Want(goal, u)
    BY <1>1 DEF Passed, Want, Named, harborMembers
  <2>2. Turn' = Turn /\ Nobody' = Nobody
    BY <1>1 DEF Turn, Ahead, harborMembers, Nobody
  <2>3. PassHandles'
    <3>1. ASSUME NEW u \in Users \ others', Handled(u) PROVE Handled(u)'
      BY <1>1, <2>1, <3>1 DEF Handled
    <3>2. missing \subseteq Users
      BY <1>0 DEF TypeLocals
    <3>3. QED
      BY <1>0, <1>1, <2>1, <3>1, <3>2 DEF PassHandles
  <2>4. IdleMade'
    <3>1. ASSUME NEW u \in Users \ others', Made(u), ~queued' PROVE Made(u)'
      BY <1>1, <2>1, <3>1 DEF Made
    <3>2. QED
      BY <1>0, <1>1, <3>1 DEF IdleMade
  <2>5. QED
    BY <1>0, <1>1, <2>2, <2>3, <2>4 DEF RestParts, GoalCurrent, PassComplete
<1>2. ASSUME pc' = "idle", queued' PROVE RestParts'
  BY <1>2 DEF RestParts, GoalCurrent, PassHandles, PassComplete, IdleMade
<1>3. ASSUME pc' \in {"project", "create", "list"}, GoalCurrent' PROVE RestParts'
  BY <1>3 DEF RestParts, PassHandles, PassComplete, IdleMade
<1>4. ASSUME Fail PROVE RestParts'
  BY <1>2, <1>4 DEF Fail
<1>5. CASE Reconcile
  BY <1>3, <1>5 DEF Reconcile, GoalCurrent, object
<1>6. CASE projectExists
  BY <1>0, <1>3, <1>6 DEF projectExists, Goto, queue, GoalCurrent
<1>7. CASE ListMembers
  <2>1. CASE ~project
    BY <1>4, <1>7, <2>1 DEF ListMembers
  <2>2. CASE project
    <3>1. PICK page \in SUBSET {u \in Users : member[u] # None} :
             /\ \/ page = {u \in Users : member[u] # None} /\ Cardinality(page) <= PageSize
                \/ Cardinality(page) = PageSize
             /\ existing' = [u \in Users |-> IF u \in page THEN member[u] ELSE None]
      BY <1>7, <2>2 DEF ListMembers
    <3>2. pc = "list" /\ pc' = "members" /\ UNCHANGED <<i, missing, queued, cached, goal, member>>
      BY <1>7, <2>2 DEF ListMembers, Goto, queue
    <3>3. \A u \in Users : existing'[u] = member'[u]
      BY <3>1, <3>2, PageHasAll
    <3>4. i' = 1 /\ missing' = {}
      BY <1>0, <3>2 DEF TypeLocals
    <3>5. \A u \in Users : Passed(u)' = {}
      <4>1. \A k \in harborMembers(goal') : k \in Nat /\ k >= 1
        BY <1>0, <3>2, ListEntries
      <4>2. QED
        BY <3>4, <4>1 DEF Passed, Named, harborMembers
    <3>6. \A u \in Users : Handled(u)'
      BY <3>3, <3>5 DEF Handled
    <3>7. QED
      BY <1>0, <3>2, <3>4, <3>6 DEF RestParts, GoalCurrent, PassHandles, PassComplete, IdleMade
  <2>3. QED
    BY <1>0, <2>1, <2>2 DEF TypeHarbor
<1>8. CASE SkipMember
  <2>1. /\ pc = "members" /\ Turn /\ existing[Subject] = Role /\ MoveOn(Subject, "ok")
        /\ pc' = "members" /\ UNCHANGED <<member, others, goal, queued, cached>>
    BY <1>8 DEF SkipMember, Goto, queue, harbor
  <2>2. Role # None
    BY <1>0, <2>1, TurnEntry, NoneAssumption DEF RoleIDs
  <2>3. PICK u \in Users : u = Subject
    BY <1>0, <2>1, TurnEntry
  <2>4. MoveOn(u, "ok") /\ existing[u] = Role
    BY <2>1, <2>3
  <2>5. Want(goal, u) = Role
    BY <1>0, <2>1, <2>2, <2>3, FirstEntry DEF LookupAhead
  <2>6. Passed(u)' # {}
    BY <1>0, <2>1, <2>3, <2>4, MoveOnPasses
  <2>7. u \notin others => member'[u] = Want(goal, u)
    BY <1>0, <2>1, <2>2, <2>4, <2>5 DEF PassHandles, Handled
  <2>8. PassHandles'
    BY <1>0, <2>1, <2>3, <2>4, <2>6, <2>7, MoveOnHandles
  <2>9. QED
    BY <1>0, <2>1, <2>8 DEF RestParts, GoalCurrent, PassComplete, IdleMade
<1>9. CASE WriteHarbor
  <2>1. UNCHANGED <<account, others, goal, cached>>
    BY <1>9 DEF WriteHarbor
  <2>2. PICK r \in Writes :
           \/ /\ Answer(r) # "error" /\ Serve(r)
              /\ IF pc = "create" THEN Goto("list") ELSE Goto("members") /\ MoveOn(r.user, Answer(r))
           \/ Fail
    BY <1>9 DEF WriteHarbor
  <2>3. CASE Fail
    BY <1>4, <2>3
  <2>4. CASE pc = "create" /\ Goto("list")
    BY <1>0, <1>3, <2>1, <2>4 DEF Goto, queue, GoalCurrent
  <2>5. CASE /\ pc # "create" /\ Answer(r) # "error" /\ Serve(r)
             /\ Goto("members") /\ MoveOn(r.user, Answer(r))
    <3>1. pc = "members" /\ pc' = "members" /\ UNCHANGED queued
      BY <1>0, <2>5, WritesAre DEF Goto, queue
    <3>2. PassHandles'
      BY <2>1, <2>5, <3>1, WriteHandles
    <3>3. QED
      BY <1>0, <2>1, <3>1, <3>2 DEF RestParts, GoalCurrent, PassComplete, IdleMade
  <2>6. QED
    BY <2>2, <2>3, <2>4, <2>5
<1>10. CASE MembersDone
  <2>1. /\ pc = "members" /\ ~Turn /\ Writes = {} /\ pc' = "rest"
        /\ UNCHANGED <<existing, i, missing, goal, member, others, queued, cached>>
    BY <1>10 DEF MembersDone, Goto, queue, harbor, locals
  <2>2. \A u \in Users : existing[u] = None
    BY <2>1 DEF Writes
  <2>3. existing = Nobody
    BY <1>0, <2>2 DEF TypeLocals, Nobody
  <2>4. Turn' = Turn /\ Nobody' = Nobody
    BY <2>1 DEF Turn, Ahead, harborMembers, Nobody
  <2>5. \A u \in Users : Passed(u)' = Passed(u) /\ Want(goal, u)' = Want(goal, u)
    BY <2>1 DEF Passed, Want, Named, harborMembers
  <2>6. PassHandles'
    <3>1. ASSUME NEW u \in Users, Handled(u) PROVE Handled(u)'
      BY <2>1, <2>5, <3>1 DEF Handled
    <3>2. missing \subseteq Users
      BY <1>0 DEF TypeLocals
    <3>3. QED
      BY <1>0, <2>1, <2>5, <3>1, <3>2 DEF PassHandles
  <2>7. QED
    BY <1>0, <2>1, <2>3, <2>4, <2>6 DEF RestParts, GoalCurrent, PassComplete, IdleMade
<1>11. CASE FinishPass
  <2>1. /\ pc = "rest" /\ pc' = "idle" /\ reported' = missing /\ timer' = (timer \/ missing # {})
        /\ UNCHANGED <<member, others, goal, queued, cached>>
    BY <1>11 DEF FinishPass, harbor
  <2>2. ASSUME NEW u \in Users \ others' PROVE Made(u)'
    <3>1. Handled(u) /\ existing[u] = None /\ ~Turn
      BY <1>0, <2>1 DEF PassHandles, PassComplete, Nobody
    <3>2. Want(goal, u)' = Want(goal, u)
      BY <2>1 DEF Want, Named, harborMembers
    <3>3. CASE Passed(u) = {}
      <4>1. \A k \in Named(goal, u) : k \in Nat /\ ~(k < i) /\ k \in harborMembers(goal)
        BY <1>0, <3>3, WantIsFirst DEF Passed, Named
      <4>2. Named(goal, u) = {}
        BY <1>0, <3>1, <4>1 DEF Turn, Ahead, TypeLocals
      <4>3. Want(goal, u) = None /\ member[u] = None
        BY <1>0, <3>1, <3>3, <4>2, WantIsFirst DEF Handled
      <4>4. QED
        BY <2>1, <3>2, <4>3 DEF Made
    <3>4. CASE Passed(u) # {}
      <4>1. Want(goal, u) # None
        BY <1>0, <3>4, WantIsFirst DEF Passed
      <4>2. member[u] = Want(goal, u) \/ u \in missing
        BY <3>1, <3>4 DEF Handled
      <4>3. QED
        BY <2>1, <3>2, <4>1, <4>2 DEF Made
    <3>5. QED
      BY <3>3, <3>4
  <2>3. QED
    BY <1>0, <2>1, <2>2 DEF RestParts, GoalCurrent, PassHandles, PassComplete, IdleMade
<1>12. CASE CallFails \/ Unanswered \/ TimesOut
  BY <1>4, <1>12 DEF CallFails, Unanswered, TimesOut
<1>13. CASE Crash
  BY <1>2, <1>13 DEF Crash
<1>14. queued \in BOOLEAN
  BY <1>0 DEF TypeObject
<1>15. CASE LateServed
  BY <1>1, <1>14, <1>15 DEF LateServed, object, queue
<1>16. CASE OtherAdmin
  <2>1. \A u \in Users \ others' : member'[u] = member[u]
    BY <1>0, <1>16 DEF OtherAdmin, TypeHarbor
  <2>2. QED
    BY <1>1, <1>14, <1>16, <2>1 DEF OtherAdmin, object, queue
<1>17. CASE ProjectDropped
  <2>1. others \subseteq others'
    BY <1>0, <1>17 DEF ProjectDropped, TypeInv, TypeLate
  <2>2. QED
    BY <1>1, <1>14, <1>17, <2>1 DEF ProjectDropped, object, queue
<1>18. CASE SpecEdited \/ DeliverSpec \/ TimerFires
  BY <1>1, <1>14, <1>18 DEF SpecEdited, DeliverSpec, TimerFires, harbor, object, queue, locals
<1>19. CASE Resync \/ SignIn \/ UNCHANGED vars
  BY <1>1, <1>14, <1>19 DEF Resync, SignIn, vars, harbor, object, queue, locals
<1>20. QED
  BY <1>5, <1>6, <1>7, <1>8, <1>9, <1>10, <1>11, <1>12, <1>13, <1>15, <1>16, <1>17, <1>18, <1>19
     DEF Next, Worker, Environment

(* SettledMembers always holds where Harbor lists all members on one page: then
   ReconcileProjectMembers, however often it fails half-way, leaves no user with
   access it should not have, and none without access it should have unless it is
   reported as pending and looked for again. *)
THEOREM MembersAtRest ==
    ASSUME IsFiniteSet(Users), Cardinality(Users) <= PageSize
    PROVE  Spec => []SettledMembers
<1>1. Init => RestInv
  <2> SUFFICES ASSUME Init PROVE RestInv
    OBVIOUS
  <2>1. LookupInv
    BY TypeInit DEF Init, LookupInv, LookupAhead, Nobody
  <2>2. QED
    BY <2>1 DEF Init, RestInv, RestParts, GoalCurrent, PassHandles, PassComplete, IdleMade
<1>2. RestInv /\ [Next]_vars => RestInv'
  BY RestStep
<1>3. RestInv => SettledMembers
  BY DEF RestInv, RestParts, GoalCurrent, IdleMade, Made, SettledMembers, Settled, AsDesired, Pending
<1>4. QED
  BY <1>1, <1>2, <1>3, PTL DEF Spec
=============================================================================
