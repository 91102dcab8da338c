------------------------ MODULE WorkspaceController ------------------------
(***************************************************************************)
(* The reconcile loop around one Workspace: the work queue and what feeds  *)
(* it, the pass over the child resources, the classification of its        *)
(* errors and the status it leaves behind.                                 *)
(*                                                                         *)
(* A child kind stands for one of the objects the pass creates or updates  *)
(* (CreateOrUpdate) when the spec asks for it and deletes when it does     *)
(* not.  A generation of the spec is an index into  Wants, which says what *)
(* each child then contains.  Harbor and the namespace are reduced to how  *)
(* their part of the pass ends; RobotCredentials has the detail of Harbor. *)
(*                                                                         *)
(* The worker reads the Workspace and the children from informer caches    *)
(* that are fed by the sequences of watch events  wsWatch  and             *)
(* childWatch.                                                             *)
(***************************************************************************)
EXTENDS Naturals, Sequences

CONSTANTS
    Order,       \* the child kinds, in the order the pass takes them
    Observed,    \* the kinds whose reference is read back, not derived
    Absent,      \* a child that does not, or shall not, exist
    Wants,       \* for every generation: the content of every child
    Labels,      \* may the Workspace lack the namespace label at first?
    Deployments, \* may the operator run without its webhooks?
    MaxLag,      \* how many events a cache may be behind when it is read
    Budget       \* how often the environment does each disruptive thing

Disruptions == {"fail", "crash", "drift"}

Kinds == {Order[i] : i \in 1..Len(Order)}
Generations == 1..Len(Wants)
Contents == UNION {{Wants[g][k] : k \in Kinds} : g \in Generations}
Reasons == {"Unknown", "True", "Pending", "Error", "Conflict"}

ASSUME OrderAssumption ==
    Order \in Seq(STRING \ {"observedGeneration", "Ready"}) /\ Order # <<>>
ASSUME ObservedAssumption == Observed \subseteq Kinds
ASSUME WantsAssumption == Wants \in Seq([Kinds -> Contents]) /\ Wants # <<>>
ASSUME InputAssumption == Labels \subseteq BOOLEAN /\ Deployments \subseteq BOOLEAN
ASSUME LagAssumption == MaxLag \in Nat
ASSUME BudgetAssumption == Budget \in [Disruptions -> Nat]

VARIABLES
    ws,          \* API server: the Workspace
    wsWatch,     \* Workspace events not yet delivered
    wsCache,     \* informer: the Workspace
    child,       \* API server: content of every child
    childWatch,  \* events about every child not yet delivered
    childCache,  \* informer: content of every child
    webhooks,    \* the admission webhooks run (ENABLE_WEBHOOKS)
    foreign,     \* the namespace exists and belongs to somebody else
    users,       \* Harbor knows the accounts of all members
    queued,      \* the Workspace is in the work queue (or marked dirty)
    timer,       \* a delayed requeue (RequeueAfter) is pending
    pc,          \* where the pass is
    w,           \* the pass's copy of the Workspace
    current,     \* that copy is still the API server's version
    step,        \* index into Order
    seen,        \* what CreateOrUpdate's Get returned
    fresh,       \* and whether that is still the API server's version
    missing,     \* Harbor reported members without an account
    failure,     \* reason that the pass is about to report
    budget       \* disruptions the environment still has

object == <<ws, wsWatch, wsCache>>
children == <<child, childWatch, childCache>>
outside == <<webhooks, foreign, users>>
queue == <<queued, timer>>
locals == <<w, current, step, seen, fresh, missing, failure>>
vars == <<object, children, outside, queue, pc, locals, budget>>

-----------------------------------------------------------------------------
(***************************************************************************)
(* The Workspace's status: observedGeneration, the Ready condition, and    *)
(* for each child whether a reference to it is listed.                     *)
(***************************************************************************)
Fields == {"observedGeneration", "Ready"} \cup Kinds

Condition(reason, generation) == [reason |-> reason, gen |-> generation]
Conditions == [reason : Reasons, gen : Generations \cup {0}]

EmptyStatus ==
    [f \in Fields |-> CASE f = "observedGeneration" -> 0
                        [] f = "Ready" -> Condition("Unknown", 0)
                        [] OTHER -> FALSE]

IsStatus(status) ==
    /\ DOMAIN status = Fields
    /\ status["observedGeneration"] \in Generations \cup {0}
    /\ status["Ready"] \in Conditions
    /\ \A k \in Kinds : status[k] \in BOOLEAN

IsWorkspace(obj) ==
    /\ DOMAIN obj = {"gen", "label", "status"}
    /\ obj.gen \in Generations /\ obj.label \in BOOLEAN /\ IsStatus(obj.status)

(* What every variable holds. *)
TypeOK ==
    /\ IsWorkspace(ws) /\ IsWorkspace(wsCache) /\ IsWorkspace(w)
    /\ \A i \in DOMAIN wsWatch : IsWorkspace(wsWatch[i])
    /\ child \in [Kinds -> Contents \cup {Absent}]
    /\ childCache \in [Kinds -> Contents \cup {Absent}]
    /\ childWatch \in [Kinds -> Seq(Contents \cup {Absent})]
    /\ webhooks \in BOOLEAN /\ foreign \in BOOLEAN /\ users \in BOOLEAN
    /\ queued \in BOOLEAN /\ timer \in BOOLEAN
    /\ pc \in {"idle", "backfill", "namespace", "harbor", "get", "put", "status", "report"}
    /\ current \in BOOLEAN /\ fresh \in BOOLEAN /\ missing \in BOOLEAN
    /\ step \in 1..Len(Order) + 1
    /\ seen \in Contents \cup {Absent}
    /\ failure \in {"none", "Error", "Conflict"}
    /\ budget \in [Disruptions -> Nat]

(* Between passes there is no copy; any fixed value will do. *)
NoCopy == [gen |-> 1, label |-> FALSE, status |-> EmptyStatus]

(* A Workspace that has just been created, and its creation event. *)
Init ==
    /\ \E label \in Labels : ws = [gen |-> 1, label |-> label, status |-> EmptyStatus]
    /\ wsWatch = <<>> /\ wsCache = ws
    /\ child = [k \in Kinds |-> Absent] /\ childCache = child
    /\ childWatch = [k \in Kinds |-> <<>>]
    /\ webhooks \in Deployments /\ foreign \in BOOLEAN /\ users \in BOOLEAN
    /\ queued = TRUE /\ timer = FALSE /\ pc = "idle"
    /\ w = NoCopy /\ current = FALSE /\ step = 1 /\ seen = Absent
    /\ fresh = FALSE /\ missing = FALSE /\ failure = "none"
    /\ budget = Budget

-----------------------------------------------------------------------------
(***************************************************************************)
(* Building blocks.                                                        *)
(***************************************************************************)
Disrupt(kind) ==
    /\ budget[kind] > 0
    /\ budget' = [budget EXCEPT ![kind] = @ - 1]

(* The pass goes on at the next stage. *)
Goto(stage) == pc' = stage /\ UNCHANGED queue

(* What the pass knew is dropped with it. *)
Forget ==
    /\ w' = NoCopy /\ current' = FALSE /\ step' = 1 /\ seen' = Absent
    /\ fresh' = FALSE /\ missing' = FALSE /\ failure' = "none"

(* The pass ends, and its result is handed to controller-runtime: an error is
   retried, a RequeueAfter starts a timer, anything else asks for nothing. *)
Retry == pc' = "idle" /\ queued' = TRUE /\ UNCHANGED timer /\ Forget
Return(after) == pc' = "idle" /\ timer' = (timer \/ after) /\ UNCHANGED queued /\ Forget

(* A write to the Workspace outdates the copy the pass holds. *)
WriteWorkspace(obj) ==
    /\ ws' = obj
    /\ wsWatch' = IF obj = ws THEN wsWatch ELSE Append(wsWatch, obj)
    /\ UNCHANGED wsCache

(* A merge patch changes the fields in which the new status differs from the
   copy the pass started from, and only those. *)
Merge(new) == [f \in Fields |-> IF new[f] # w.status[f] THEN new[f] ELSE ws.status[f]]
PatchStatus(new) == WriteWorkspace([ws EXCEPT !.status = Merge(new)])

WriteChild(k, content) ==
    /\ child' = [child EXCEPT ![k] = content]
    /\ childWatch' = [childWatch EXCEPT ![k] = Append(@, content)]
    /\ UNCHANGED childCache

Kind == Order[step]
Desired == Wants[w.gen][Kind]

-----------------------------------------------------------------------------
(***************************************************************************)
(* The reconcile pass.                                                     *)
(***************************************************************************)

(* Reconcile reads the Workspace.  One that lacks the namespace label gets it
   before anything else. *)
Reconcile ==
    /\ pc = "idle" /\ queued /\ Len(wsWatch) <= MaxLag
    /\ w' = wsCache /\ current' = (wsWatch = <<>>)
    /\ queued' = FALSE
    /\ pc' = IF wsCache.label THEN "namespace" ELSE "backfill"
    /\ UNCHANGED <<object, children, outside, timer, step, seen, fresh, missing, failure,
                   budget>>

(* The label is written with an update of the whole object.  The validating
   webhook turns the operator down, which is no admin of the workspace; without
   webhooks an outdated copy is a conflict.  Nothing is requeued on success. *)
BackfillLabel ==
    /\ pc = "backfill"
    /\ \/ /\ ~webhooks /\ current
          /\ WriteWorkspace([ws EXCEPT !.label = TRUE]) /\ Return(FALSE)
       \/ /\ webhooks \/ ~current
          /\ Retry /\ UNCHANGED object
    /\ UNCHANGED <<children, outside, budget>>

(* ReconcileNamespace: a foreign namespace is a permanent error. *)
ReconcileNamespace ==
    /\ pc = "namespace"
    /\ \/ foreign /\ failure' = "Conflict" /\ Goto("report")
       \/ ~foreign /\ UNCHANGED failure /\ Goto("harbor")
    /\ UNCHANGED <<object, children, outside, w, current, step, seen, fresh, missing, budget>>

(* Mutant: members without an account end the pass early. *)
HarborReturnsEarly ==
    /\ pc = "harbor"
    /\ missing' = ~users
    /\ Goto(IF users THEN "get" ELSE "status")
    /\ UNCHANGED <<object, children, outside, w, current, step, seen, fresh, failure, budget>>

(* ReconcileHarbor reports the members that have no account in Harbor yet. *)
ReconcileHarbor ==
    /\ pc = "harbor"
    /\ missing' = ~users
    /\ Goto("get")
    /\ UNCHANGED <<object, children, outside, w, current, step, seen, fresh, failure, budget>>

NextKind ==
    /\ step' = step + 1 /\ seen' = Absent /\ fresh' = FALSE
    /\ Goto(IF step = Len(Order) THEN "status" ELSE "get")
    /\ UNCHANGED <<w, current, missing, failure>>

(* A child the spec does not ask for is deleted, wherever the cache stands. *)
DeleteChild ==
    /\ pc = "get" /\ Desired = Absent
    /\ IF child[Kind] = Absent THEN UNCHANGED children ELSE WriteChild(Kind, Absent)
    /\ NextKind
    /\ UNCHANGED <<object, outside, budget>>

(* Any other child goes through CreateOrUpdate: read it from the cache ... *)
GetChild ==
    /\ pc = "get" /\ Desired # Absent /\ Len(childWatch[Kind]) <= MaxLag
    /\ seen' = childCache[Kind] /\ fresh' = (childWatch[Kind] = <<>>)
    /\ Goto("put")
    /\ UNCHANGED <<object, children, outside, w, current, step, missing, failure, budget>>

(* ... and write it when it differs.  Creating what exists, or updating what is
   gone, is an error to report; updating an outdated copy is a conflict. *)
PutUnchanged == seen = Desired /\ NextKind /\ UNCHANGED children

PutAccepted ==
    /\ seen # Desired
    /\ IF seen = Absent THEN child[Kind] = Absent ELSE fresh
    /\ WriteChild(Kind, Desired) /\ NextKind

(* Mutant: the reason of the failure is not filled in. *)
ReportWithoutReason ==
    /\ Goto("report")
    /\ UNCHANGED <<w, current, step, seen, fresh, missing, failure>>

ReportError ==
    /\ failure' = "Error" /\ Goto("report")
    /\ UNCHANGED <<w, current, step, seen, fresh, missing>>

PutRejected ==
    /\ seen # Desired
    /\ \/ seen = Absent /\ child[Kind] # Absent /\ ReportError
       \/ seen # Absent /\ ~fresh /\ child[Kind] = Absent /\ ReportError
       \/ seen # Absent /\ ~fresh /\ child[Kind] # Absent /\ Retry
    /\ UNCHANGED children

PutChild ==
    /\ pc = "put"
    /\ PutUnchanged \/ PutAccepted \/ PutRejected
    /\ UNCHANGED <<object, outside, budget>>

(* updateStatus computes the whole status and patches it unless it equals the
   status of the copy the pass started from. *)
NewStatus ==
    [f \in Fields |->
        CASE f = "observedGeneration" -> w.gen
          [] f = "Ready" -> Condition(IF missing THEN "Pending" ELSE "True", w.gen)
          [] f \in Observed -> childCache[f] # Absent
          [] OTHER -> Wants[w.gen][f] # Absent]

(* Mutant: the status is patched only for a generation not yet observed. *)
PatchOncePerGeneration ==
    /\ pc = "status" /\ \A k \in Observed : Len(childWatch[k]) <= MaxLag
    /\ IF w.status["observedGeneration"] = w.gen THEN UNCHANGED object
       ELSE PatchStatus(NewStatus)
    /\ Return(missing)
    /\ UNCHANGED <<children, outside, budget>>

(* Mutant: missing members do not bring the workspace back. *)
NoTimedRequeue ==
    /\ pc = "status" /\ \A k \in Observed : Len(childWatch[k]) <= MaxLag
    /\ IF NewStatus = w.status THEN UNCHANGED object ELSE PatchStatus(NewStatus)
    /\ Return(FALSE)
    /\ UNCHANGED <<children, outside, budget>>

updateStatus ==
    /\ pc = "status" /\ \A k \in Observed : Len(childWatch[k]) <= MaxLag
    /\ IF NewStatus = w.status THEN UNCHANGED object ELSE PatchStatus(NewStatus)
    /\ Return(missing)
    /\ UNCHANGED <<children, outside, budget>>

(* handleReconcileError: the failure is patched into the status.  A namespace
   conflict is not retried, anything else is. *)
FailureStatus ==
    [w.status EXCEPT !["observedGeneration"] = w.gen, !["Ready"] = Condition(failure, w.gen)]

(* Mutant: every error is taken for a permanent one. *)
EveryErrorPermanent ==
    /\ pc = "report"
    /\ PatchStatus(FailureStatus)
    /\ Return(FALSE)
    /\ UNCHANGED <<children, outside, budget>>

setReadyConditionFalse ==
    /\ pc = "report"
    /\ PatchStatus(FailureStatus)
    /\ IF failure = "Conflict" THEN Return(FALSE) ELSE Retry
    /\ UNCHANGED <<children, outside, budget>>

-----------------------------------------------------------------------------
(***************************************************************************)
(* What goes wrong in a pass.                                              *)
(***************************************************************************)

(* Harbor or the API server fails a call of the pass. *)
CallFails ==
    /\ pc \in {"namespace", "harbor", "get", "put"}
    /\ ReportError
    /\ Disrupt("fail")
    /\ UNCHANGED <<object, children, outside>>

(* The API server fails the update of the label or a patch of the status.  The
   report of a namespace conflict is then tried again after 30 seconds. *)
PatchFails ==
    /\ pc \in {"backfill", "status", "report"}
    /\ IF pc = "report" /\ failure = "Conflict" THEN Return(TRUE) ELSE Retry
    /\ Disrupt("fail")
    /\ UNCHANGED <<object, children, outside>>

(* The operator dies; the next instance lists everything and queues every
   Workspace. *)
Crash ==
    /\ Disrupt("crash")
    /\ pc' = "idle" /\ queued' = TRUE /\ timer' = FALSE
    /\ wsCache' = ws /\ wsWatch' = <<>> /\ UNCHANGED ws
    /\ childCache' = child /\ childWatch' = [k \in Kinds |-> <<>>] /\ UNCHANGED child
    /\ Forget
    /\ UNCHANGED outside

-----------------------------------------------------------------------------
(***************************************************************************)
(* What feeds the queue, and the other writers.                            *)
(***************************************************************************)

(* Only a change of generation queues the Workspace. *)
DeliverWorkspace ==
    /\ wsWatch # <<>>
    /\ wsCache' = Head(wsWatch) /\ wsWatch' = Tail(wsWatch)
    /\ queued' = (queued \/ Head(wsWatch).gen # wsCache.gen)
    /\ UNCHANGED <<ws, children, outside, timer, pc, locals, budget>>

(* Mutant: the children are watched without being mapped to their owner. *)
DeliverUnowned ==
    /\ \E k \in Kinds :
          /\ childWatch[k] # <<>>
          /\ childCache' = [childCache EXCEPT ![k] = Head(childWatch[k])]
          /\ childWatch' = [childWatch EXCEPT ![k] = Tail(@)]
    /\ UNCHANGED <<object, child, outside, queue, pc, locals, budget>>

(* Every event about a child queues its owner. *)
DeliverChild ==
    /\ \E k \in Kinds :
          /\ childWatch[k] # <<>>
          /\ childCache' = [childCache EXCEPT ![k] = Head(childWatch[k])]
          /\ childWatch' = [childWatch EXCEPT ![k] = Tail(@)]
    /\ queued' = TRUE
    /\ UNCHANGED <<object, child, outside, timer, pc, locals, budget>>

(* The informer's periodic resync replays the children. *)
Resync ==
    /\ ~queued /\ \E k \in Kinds : childCache[k] # Absent
    /\ queued' = TRUE
    /\ UNCHANGED <<object, children, outside, timer, pc, locals, budget>>

TimerFires ==
    /\ timer
    /\ timer' = FALSE /\ queued' = TRUE
    /\ UNCHANGED <<object, children, outside, pc, locals, budget>>

(* A user edits the spec; the mutating webhook, if it runs, stamps the label. *)
SpecEdited ==
    /\ ws.gen < Len(Wants)
    /\ WriteWorkspace([ws EXCEPT !.gen = @ + 1, !.label = @ \/ webhooks])
    /\ current' = FALSE
    /\ UNCHANGED <<children, outside, queue, pc, w, step, seen, fresh, missing, failure, budget>>

(* Somebody changes or deletes a child. *)
ChildDrifts ==
    /\ \E k \in Kinds, content \in Contents \cup {Absent} :
          /\ child[k] # Absent /\ child[k] # content
          /\ WriteChild(k, content)
          /\ fresh' = (fresh /\ Kind # k)
    /\ Disrupt("drift")
    /\ UNCHANGED <<object, outside, queue, pc, w, current, step, seen, missing, failure>>

(* The members sign in to Harbor; nothing tells the operator. *)
UsersProvisioned ==
    /\ ~users /\ users' = TRUE
    /\ UNCHANGED <<object, children, webhooks, foreign, queue, pc, locals, budget>>

(* The foreign namespace is deleted; nothing tells the operator. *)
NamespaceFreed ==
    /\ foreign /\ foreign' = FALSE
    /\ UNCHANGED <<object, children, webhooks, users, queue, pc, locals, budget>>

-----------------------------------------------------------------------------
Worker ==
    \/ Reconcile \/ BackfillLabel \/ ReconcileNamespace \/ ReconcileHarbor
    \/ DeleteChild \/ GetChild \/ PutChild \/ updateStatus \/ setReadyConditionFalse

Environment ==
    \/ CallFails \/ PatchFails \/ Crash \/ Resync \/ SpecEdited \/ ChildDrifts
    \/ UsersProvisioned \/ NamespaceFreed

Next == Worker \/ DeliverWorkspace \/ DeliverChild \/ TimerFires \/ Environment

Spec == Init /\ [][Next]_vars

(* The worker keeps working, events are delivered and timers fire. *)
Fairness ==
    WF_vars(Worker) /\ WF_vars(DeliverWorkspace) /\ WF_vars(DeliverChild) /\ WF_vars(TimerFires)

FairSpec == Spec /\ Fairness

-----------------------------------------------------------------------------
(* Nothing is left to do: no pass, no retry, no timer, no event. *)
Settled ==
    /\ pc = "idle" /\ ~queued /\ ~timer
    /\ wsWatch = <<>> /\ \A k \in Kinds : childWatch[k] = <<>>

Ready == ws.status["Ready"]
Reconciled == child = Wants[ws.gen]

(* What the status should say of a workspace that is as the spec wants it. *)
Truthful ==
    /\ ws.status["observedGeneration"] = ws.gen
    /\ Ready = Condition("True", ws.gen)
    /\ \A k \in Kinds : ws.status[k] = (child[k] # Absent)

(* The Workspace got its label from an operator without webhooks, and has not
   been reconciled since. *)
BackfilledOnly == ~webhooks /\ ws.label /\ ws.status = EmptyStatus

(* At rest the children are what the current generation asks for, or the status
   names the namespace conflict that stopped the pass: with up-to-date reads, no
   edit, drift, failure or crash leaves the operator idle with work undone, but for
   a Workspace that has only got its label. *)
SettledReconciled == Settled => Reconciled \/ Ready.reason = "Conflict" \/ BackfilledOnly

(* The same with stale reads: at rest the work is done, or the status says that it
   failed.  It may then name an earlier error in place of the conflict, since a
   patch leaves out what the outdated copy already says (setReadyConditionFalse). *)
SettledExplained ==
    Settled => Reconciled \/ Ready.reason \in {"Conflict", "Error"} \/ BackfilledOnly

(* At rest the status describes the current generation and what exists; in
   particular a failure that a retry made good is not left on it.  "Only patch
   on a real change" (updateStatus) must not skip a change that is needed. *)
SettledTruthful == Settled => Truthful \/ Ready = Condition("Conflict", ws.gen)

(* Ready=True (or waiting for Harbor users only) for the current generation
   means that every child of that generation has been put in place, unless
   somebody has interfered with the children. *)
ReadyMeansDone ==
    /\ Ready.reason \in {"True", "Pending"} /\ Ready.gen = ws.gen
    /\ budget["drift"] = Budget["drift"]
    => Reconciled

(* A Workspace that was created with its label ends up reconciled once the
   namespace is free of others and Harbor knows every member, and the status says
   so. *)
EventuallyTruthful ==
    (ws.label /\ []~foreign /\ <>[]users) => <>[](Reconciled /\ Truthful)

(* "reconcile backfills it onto Workspaces admitted before the label existed"
   (Reconcile): the label gets there. *)
LabelBackfilled == <>[](ws.label)
=============================================================================
