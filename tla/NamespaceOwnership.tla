------------------------- MODULE NamespaceOwnership -------------------------
(***************************************************************************)
(* Who owns a namespace.  Several Workspaces are created, deleted and      *)
(* created again under the same name while the operator creates, adopts    *)
(* or refuses the namespaces they ask for (ReconcileNamespace), the        *)
(* garbage collector removes what a deleted Workspace owned, and backup    *)
(* tooling puts namespaces back without their owner.                       *)
(*                                                                         *)
(* A create passes the admission webhook in separate reads of the API      *)
(* server (ValidateCreate) before it is stored; several creates may be in  *)
(* admission at once.  The reconcile pass reads Workspaces and Namespaces  *)
(* from informer caches.  An owner reference holds a name and a UID: a UID *)
(* here is the pair of a name and a number, so that both are at hand.      *)
(*                                                                         *)
(* The status of a Workspace is read up to date here; WorkspaceController  *)
(* has what a stale status does.  The rest of the pass is one step.        *)
(***************************************************************************)
EXTENDS Naturals, Sequences, FiniteSets

CONSTANTS
    Names,        \* names of Workspaces
    Namespaces,   \* names of Namespaces
    None,         \* no object, no owner, no label, no request
    MaxInFlight,  \* how many creates can be in admission at the same time
    MaxLag,       \* how many events a cache may be behind when it is read
    Stories       \* what the environment may do, one of these

(***************************************************************************)
(* The disruptions: a failed API call or crash, a Workspace deleted with   *)
(* or without its dependents, a Namespace deleted, restored from backup,   *)
(* created by somebody else, or losing its owner reference.                *)
(***************************************************************************)
Disruptions == {"fault", "delete", "orphan", "remove", "restore", "foreign", "strip"}

Uids == Names \X (Nat \ {0})

ASSUME BoundsAssumption == MaxInFlight \in Nat /\ MaxLag \in Nat

(* The names that are created, in order, how often each disruption may happen,
   and how many may happen in all. *)
Story == [creates : Seq(Names), budget : [Disruptions -> Nat], disruptions : Nat]
ASSUME StoriesAssumption == Stories \subseteq Story

VARIABLES
    ws,         \* API server: the Workspaces
    wsWatch,    \* Workspace events not yet delivered
    wsCache,    \* informer: the Workspaces
    ready,      \* API server: reason of each Workspace's Ready condition
    born,       \* how many Workspaces of each name have been created
    request,    \* creates in admission
    overlaps,   \* pairs of Workspaces whose admissions overlapped
    orphaned,   \* deletions whose dependents have been released
    ns,         \* API server: the Namespaces
    nsWatch,    \* Namespace events not yet delivered
    nsCache,    \* informer: the Namespaces
    backups,    \* namespaces the backup has, and the name they are labelled with
    queue,      \* names in the work queue
    pc,         \* where the reconcile pass is
    w,          \* the pass's copy of the Workspace
    seenReady,  \* the Ready reason in that copy
    seen,       \* what CreateOrUpdate's Get returned
    fresh,      \* and whether that is still the API server's version
    story       \* what the environment may still do

workspaces == <<ws, wsWatch, wsCache, born, overlaps>>
namespaces == <<ns, nsWatch, nsCache, backups>>
locals == <<w, seenReady, seen, fresh>>
vars == <<workspaces, ready, request, orphaned, namespaces, queue, pc, locals, story>>

Workspace == [uid : Uids, namespace : Namespaces, deleting : BOOLEAN]
Namespace == [owner : Uids \cup {None}, label : Names \cup {None}, terminating : BOOLEAN,
              origin : {"operator", "backup", "other"}]
Reasons == {"Unknown", "True", "Error", "Conflict"}
Request == [stage : {"unique", "available", "authorize"}, namespace : Namespaces]

ASSUME NoneAssumption ==
    None \notin Names \cup Uids \cup Workspace \cup Namespace \cup Request

(* What every variable holds; a pass has a Workspace, also when the one it was
   queued for is gone. *)
TypeOK ==
    /\ ws \in [Names -> Workspace \cup {None}]
    /\ wsWatch \in [Names -> Seq(Workspace \cup {None})]
    /\ wsCache \in [Names -> Workspace \cup {None}]
    /\ ready \in [Names -> Reasons]
    /\ born \in [Names -> Nat]
    /\ request \in [Names -> Request \cup {None}]
    /\ orphaned \subseteq Names
    /\ ns \in [Namespaces -> Namespace \cup {None}]
    /\ nsWatch \in [Namespaces -> Seq(Namespace \cup {None})]
    /\ nsCache \in [Namespaces -> Namespace \cup {None}]
    /\ overlaps \subseteq SUBSET Names
    /\ backups \subseteq Namespaces \X (Names \cup {None})
    /\ queue \subseteq Names
    /\ pc \in {"idle", "get", "put", "rest"}
    /\ w \in Workspace \cup {None} /\ (w = None <=> pc = "idle")
    /\ seenReady \in Reasons
    /\ seen \in Namespace \cup {None}
    /\ fresh \in BOOLEAN
    /\ story \in Story

(* An operator that runs in a cluster without Workspaces. *)
Init ==
    /\ ws = [a \in Names |-> None] /\ wsCache = ws /\ wsWatch = [a \in Names |-> <<>>]
    /\ ready = [a \in Names |-> "Unknown"] /\ born = [a \in Names |-> 0]
    /\ request = [a \in Names |-> None] /\ overlaps = {} /\ orphaned = {}
    /\ ns = [n \in Namespaces |-> None] /\ nsCache = ns
    /\ nsWatch = [n \in Namespaces |-> <<>>] /\ backups = {}
    /\ queue = {} /\ pc = "idle"
    /\ w = None /\ seenReady = "Unknown" /\ seen = None /\ fresh = FALSE
    /\ story \in Stories

-----------------------------------------------------------------------------
(***************************************************************************)
(* Building blocks.                                                        *)
(***************************************************************************)
Disrupt(kind) ==
    /\ story.budget[kind] > 0 /\ story.disruptions > 0
    /\ story' = [story EXCEPT !.budget[kind] = @ - 1, !.disruptions = @ - 1]

(* The name of the Workspace an owner reference or a copy stands for. *)
NameOf(uid) == uid[1]

Lives(uid) == ws[NameOf(uid)] # None /\ ws[NameOf(uid)].uid = uid

WriteWorkspace(a, obj) ==
    /\ ws' = [ws EXCEPT ![a] = obj]
    /\ wsWatch' = [wsWatch EXCEPT ![a] = Append(@, obj)]
    /\ UNCHANGED wsCache

WriteNamespace(n, obj) ==
    /\ ns' = [ns EXCEPT ![n] = obj]
    /\ nsWatch' = [nsWatch EXCEPT ![n] = Append(@, obj)]
    /\ UNCHANGED nsCache

(* Somebody else's write outdates the copy the pass holds. *)
Outdate(n) ==
    /\ fresh' = (fresh /\ w.namespace # n)
    /\ UNCHANGED <<w, seenReady, seen>>

Forget == w' = None /\ seenReady' = "Unknown" /\ seen' = None /\ fresh' = FALSE

(* The pass ends; controller-runtime keeps the name after an error or a
   RequeueAfter and asks for nothing otherwise. *)
Requeue == pc' = "idle" /\ queue' = queue \cup {NameOf(w.uid)} /\ Forget
Done == pc' = "idle" /\ UNCHANGED queue /\ Forget

(* The Ready condition is patched by name, and only where it differs from the
   copy of the pass; a Workspace that is gone cannot be patched. *)
Report(reason) ==
    ready' = IF ws[NameOf(w.uid)] # None /\ reason # seenReady
             THEN [ready EXCEPT ![NameOf(w.uid)] = reason] ELSE ready

-----------------------------------------------------------------------------
(***************************************************************************)
(* Admission of a new Workspace.                                           *)
(***************************************************************************)
Stage(a) == IF request[a] = None THEN "none" ELSE request[a].stage
InFlight == {a \in Names : request[a] # None}

Advance(a, stage) == request' = [request EXCEPT ![a].stage = stage]
Refuse(a) == request' = [request EXCEPT ![a] = None]

(* Default: the caller names the namespace, or gets one that does not exist. *)
generateAvailableNamespaceName(n) == ns[n] = None

Default(a) ==
    /\ request[a] = None /\ Cardinality(InFlight) < MaxInFlight
    /\ story.creates # <<>> /\ a = Head(story.creates)
    /\ story' = [story EXCEPT !.creates = Tail(@)]
    /\ \E n \in Namespaces, given \in BOOLEAN :
          /\ given \/ generateAvailableNamespaceName(n)
          /\ request' = [request EXCEPT ![a] = [stage |-> "unique", namespace |-> n]]
    /\ overlaps' = {o \in overlaps : a \in o => ws[a] # None} \cup {{a, b} : b \in InFlight}
    /\ UNCHANGED <<ws, wsWatch, wsCache, born, ready, orphaned, namespaces, queue, pc, locals>>

(* Mutant: only a Workspace of the same name counts as a rival. *)
UniquenessOfName(a) ==
    /\ Stage(a) = "unique"
    /\ IF ws[a] # None THEN Refuse(a) ELSE Advance(a, "available")
    /\ UNCHANGED <<workspaces, ready, orphaned, namespaces, queue, pc, locals, story>>

(* No other Workspace may claim the namespace. *)
Claimed(n, a) == \E b \in Names \ {a} : ws[b] # None /\ ws[b].namespace = n

ValidateNamespaceUniqueness(a) ==
    /\ Stage(a) = "unique"
    /\ IF Claimed(request[a].namespace, a) THEN Refuse(a) ELSE Advance(a, "available")
    /\ UNCHANGED <<workspaces, ready, orphaned, namespaces, queue, pc, locals, story>>

(* Mutant: an ownerless namespace is free for anybody. *)
AnyOwnerless(obj, a) == obj.owner = None

(* An ownerless namespace that carries the labels of the named Workspace. *)
Adoptable(obj, a) == obj.owner = None /\ obj.label = a

(* The namespace must not exist, or be one to adopt. *)
ValidateNamespaceAvailable(a) ==
    /\ Stage(a) = "available"
    /\ LET obj == ns[request[a].namespace]
       IN  IF obj = None \/ (~obj.terminating /\ Adoptable(obj, a))
           THEN Advance(a, "authorize") ELSE Refuse(a)
    /\ UNCHANGED <<workspaces, ready, orphaned, namespaces, queue, pc, locals, story>>

(* The last check passes, and the API server stores the Workspace unless the
   name is taken. *)
WorkspaceCreated(a) ==
    /\ Stage(a) = "authorize"
    /\ Refuse(a)
    /\ IF ws[a] # None THEN UNCHANGED <<workspaces, ready>>
       ELSE /\ born' = [born EXCEPT ![a] = @ + 1]
            /\ WriteWorkspace(a, [uid |-> <<a, born[a] + 1>>,
                                  namespace |-> request[a].namespace, deleting |-> FALSE])
            /\ ready' = [ready EXCEPT ![a] = "Unknown"]
            /\ UNCHANGED overlaps
    /\ UNCHANGED <<orphaned, namespaces, queue, pc, locals, story>>

(* AuthorizeCreation turns the caller down. *)
CreationDenied(a) ==
    /\ Stage(a) = "authorize"
    /\ Refuse(a)
    /\ UNCHANGED <<workspaces, ready, orphaned, namespaces, queue, pc, locals, story>>

-----------------------------------------------------------------------------
(***************************************************************************)
(* The reconcile pass.                                                     *)
(***************************************************************************)

(* Mutant: a Workspace that is gone is reconciled too. *)
ReconcileGone(a) ==
    /\ pc = "idle" /\ a \in queue /\ Len(wsWatch[a]) <= MaxLag
    /\ queue' = queue \ {a}
    /\ pc' = "get" /\ w' = wsCache[a] /\ seenReady' = ready[a]
    /\ UNCHANGED <<workspaces, ready, request, orphaned, namespaces, seen, fresh, story>>

(* Reconcile reads the Workspace.  One that is gone needs nothing; one that is
   being deleted is reconciled like any other. *)
Reconcile(a) ==
    /\ pc = "idle" /\ a \in queue /\ Len(wsWatch[a]) <= MaxLag
    /\ queue' = queue \ {a}
    /\ IF wsCache[a] = None THEN UNCHANGED <<pc, w, seenReady>>
       ELSE pc' = "get" /\ w' = wsCache[a] /\ seenReady' = ready[a]
    /\ UNCHANGED <<workspaces, ready, request, orphaned, namespaces, seen, fresh, story>>

(* ReconcileNamespace: CreateOrUpdate reads the Namespace from the cache... *)
GetNamespace ==
    /\ pc = "get" /\ Len(nsWatch[w.namespace]) <= MaxLag
    /\ seen' = nsCache[w.namespace] /\ fresh' = (nsWatch[w.namespace] = <<>>)
    /\ pc' = "put"
    /\ UNCHANGED <<workspaces, ready, request, orphaned, namespaces, queue, w, seenReady, story>>

IsOwned(obj, uid) == obj.owner = uid

(* ... creates it if it is not there, which fails if it is ... *)
NamespaceCreated ==
    /\ seen = None /\ ns[w.namespace] = None
    /\ WriteNamespace(w.namespace, [owner |-> w.uid, label |-> NameOf(w.uid),
                                    terminating |-> FALSE, origin |-> "operator"])
    /\ backups' = backups \cup {<<w.namespace, NameOf(w.uid)>>}

(* ... refuses one that is neither its own nor adoptable ... *)
NamespaceConflict ==
    /\ seen # None
    /\ ~IsOwned(seen, w.uid) /\ ~Adoptable(seen, NameOf(w.uid))

(* ... and updates one that is, on the version it read. *)
Stamped == [seen EXCEPT !.owner = w.uid, !.label = NameOf(w.uid)]

NamespaceUpToDate == seen # None /\ ~NamespaceConflict /\ seen = Stamped

NamespaceUpdated ==
    /\ seen # None /\ ~NamespaceConflict /\ seen # Stamped /\ fresh
    /\ WriteNamespace(w.namespace, Stamped)
    /\ UNCHANGED backups

(* An update of an outdated copy is a write conflict and not reported; a failed
   create, or the update of a Namespace that is gone, is. *)
WriteRefused ==
    \/ seen = None /\ ns[w.namespace] # None /\ Report("Error")
    \/ /\ seen # None /\ ~NamespaceConflict /\ seen # Stamped /\ ~fresh
       /\ IF ns[w.namespace] = None THEN Report("Error") ELSE UNCHANGED ready

(* Mutant: a namespace conflict ends the pass without a report. *)
ConflictUnreported ==
    /\ pc = "put"
    /\ \/ /\ NamespaceCreated \/ NamespaceUpdated
          /\ pc' = "rest" /\ UNCHANGED <<ready, queue, locals>>
       \/ /\ NamespaceUpToDate
          /\ pc' = "rest" /\ UNCHANGED <<namespaces, ready, queue, locals>>
       \/ NamespaceConflict /\ Done /\ UNCHANGED <<namespaces, ready>>
       \/ WriteRefused /\ Requeue /\ UNCHANGED namespaces
    /\ UNCHANGED <<workspaces, request, orphaned, story>>

(* Mutant: a namespace conflict is retried like any other error, and not
   reported. *)
ConflictRetried ==
    /\ pc = "put"
    /\ \/ /\ NamespaceCreated \/ NamespaceUpdated
          /\ pc' = "rest" /\ UNCHANGED <<ready, queue, locals>>
       \/ /\ NamespaceUpToDate
          /\ pc' = "rest" /\ UNCHANGED <<namespaces, ready, queue, locals>>
       \/ NamespaceConflict /\ Requeue /\ UNCHANGED <<namespaces, ready>>
       \/ WriteRefused /\ Requeue /\ UNCHANGED namespaces
    /\ UNCHANGED <<workspaces, request, orphaned, story>>

ReconcileNamespace ==
    /\ pc = "put"
    /\ \/ /\ NamespaceCreated \/ NamespaceUpdated
          /\ pc' = "rest" /\ UNCHANGED <<ready, queue, locals>>
       \/ /\ NamespaceUpToDate
          /\ pc' = "rest" /\ UNCHANGED <<namespaces, ready, queue, locals>>
       \/ /\ NamespaceConflict /\ Report("Conflict")
          /\ IF ws[NameOf(w.uid)] = None THEN Requeue ELSE Done
          /\ UNCHANGED namespaces
       \/ WriteRefused /\ Requeue /\ UNCHANGED namespaces
    /\ UNCHANGED <<workspaces, request, orphaned, story>>

(* The rest of the pass: children cannot be created in a namespace that is gone
   or terminating, but may all be there; then the status is patched. *)
FinishPass ==
    /\ pc = "rest"
    /\ LET obj == ns[w.namespace]
       IN  \/ obj # None /\ Report("True")
              /\ IF ws[NameOf(w.uid)] = None THEN Requeue ELSE Done
           \/ (obj # None => obj.terminating) /\ Report("Error") /\ Requeue
    /\ UNCHANGED <<workspaces, request, orphaned, namespaces, story>>

(* A call of the pass fails. *)
ApiFails ==
    /\ pc # "idle"
    /\ Disrupt("fault")
    /\ Report("Error") \/ UNCHANGED ready
    /\ Requeue
    /\ UNCHANGED <<workspaces, request, orphaned, namespaces>>

(* The operator dies; the next instance lists everything and queues every
   Workspace there is. *)
Crash ==
    /\ Disrupt("fault")
    /\ pc' = "idle" /\ Forget
    /\ queue' = {a \in Names : ws[a] # None}
    /\ wsCache' = ws /\ wsWatch' = [a \in Names |-> <<>>]
    /\ nsCache' = ns /\ nsWatch' = [n \in Namespaces |-> <<>>]
    /\ UNCHANGED <<ws, born, overlaps, ready, request, orphaned, ns, backups>>

-----------------------------------------------------------------------------
(***************************************************************************)
(* What feeds the queue.                                                   *)
(***************************************************************************)

(* Creation, deletion and the mark of deletion (a new generation) queue the
   Workspace. *)
DeliverWorkspace(a) ==
    /\ wsWatch[a] # <<>>
    /\ wsCache' = [wsCache EXCEPT ![a] = Head(wsWatch[a])]
    /\ wsWatch' = [wsWatch EXCEPT ![a] = Tail(@)]
    /\ queue' = queue \cup {a}
    /\ UNCHANGED <<ws, born, overlaps, ready, request, orphaned, namespaces, pc, locals, story>>

(* An event about a Namespace queues the Workspaces named as its owner before
   and after the change, whatever their UIDs. *)
OwnerNames(obj) == IF obj = None \/ obj.owner = None THEN {} ELSE {NameOf(obj.owner)}

EventOwners(old, new) == OwnerNames(old) \cup OwnerNames(new)

DeliverNamespace(n) ==
    /\ nsWatch[n] # <<>>
    /\ nsCache' = [nsCache EXCEPT ![n] = Head(nsWatch[n])]
    /\ nsWatch' = [nsWatch EXCEPT ![n] = Tail(@)]
    /\ queue' = queue \cup EventOwners(nsCache[n], Head(nsWatch[n]))
    /\ UNCHANGED <<workspaces, ready, request, orphaned, ns, backups, pc, locals, story>>

(* The informer's periodic resync replays the Namespaces. *)
Resync(n) ==
    /\ queue' = queue \cup OwnerNames(nsCache[n]) /\ queue' # queue
    /\ UNCHANGED <<workspaces, ready, request, orphaned, namespaces, pc, locals, story>>

-----------------------------------------------------------------------------
(***************************************************************************)
(* Deletion and garbage collection.                                        *)
(***************************************************************************)

(* A Workspace is deleted; its dependents are collected in the background. *)
WorkspaceDeleted(a) ==
    /\ ws[a] # None /\ ~ws[a].deleting
    /\ Disrupt("delete")
    /\ WriteWorkspace(a, None)
    /\ UNCHANGED <<born, overlaps, ready, request, orphaned, namespaces, queue, pc, locals>>

(* A Workspace is deleted, but its dependents shall stay (--cascade=orphan): it
   is marked, its dependents lose their owner reference, then it goes. *)
WorkspaceOrphaned(a) ==
    /\ ws[a] # None /\ ~ws[a].deleting
    /\ Disrupt("orphan")
    /\ WriteWorkspace(a, [ws[a] EXCEPT !.deleting = TRUE])
    /\ UNCHANGED <<born, overlaps, ready, request, orphaned, namespaces, queue, pc, locals>>

ReleaseDependents(a) ==
    /\ ws[a] # None /\ ws[a].deleting /\ a \notin orphaned
    /\ orphaned' = orphaned \cup {a}
    /\ LET n == ws[a].namespace
       IN  IF ns[n] # None /\ ns[n].owner = ws[a].uid
           THEN WriteNamespace(n, [ns[n] EXCEPT !.owner = None]) /\ Outdate(n)
           ELSE UNCHANGED <<ns, nsWatch, nsCache, locals>>
    /\ UNCHANGED <<workspaces, ready, request, backups, queue, pc, story>>

RemoveOrphaned(a) ==
    /\ a \in orphaned
    /\ orphaned' = orphaned \ {a}
    /\ WriteWorkspace(a, None)
    /\ UNCHANGED <<born, overlaps, ready, request, namespaces, queue, pc, locals, story>>

(* A Namespace whose owner is gone is deleted, and in time it is gone. *)
Collect(n) ==
    /\ ns[n] # None /\ ~ns[n].terminating
    /\ ns[n].owner # None /\ ~Lives(ns[n].owner)
    /\ WriteNamespace(n, [ns[n] EXCEPT !.terminating = TRUE]) /\ Outdate(n)
    /\ UNCHANGED <<workspaces, ready, request, orphaned, backups, queue, pc, story>>

NamespaceTerminated(n) ==
    /\ ns[n] # None /\ ns[n].terminating
    /\ WriteNamespace(n, None) /\ Outdate(n)
    /\ UNCHANGED <<workspaces, ready, request, orphaned, backups, queue, pc, story>>

-----------------------------------------------------------------------------
(***************************************************************************)
(* The other writers of Namespaces.                                        *)
(***************************************************************************)

(* Somebody deletes a Namespace. *)
NamespaceRemoved(n) ==
    /\ ns[n] # None /\ ~ns[n].terminating
    /\ Disrupt("remove")
    /\ WriteNamespace(n, [ns[n] EXCEPT !.terminating = TRUE]) /\ Outdate(n)
    /\ UNCHANGED <<workspaces, ready, request, orphaned, backups, queue, pc>>

(* Backup tooling restores a Namespace: its labels come back, its owner does
   not. *)
NamespaceRestored(n) ==
    /\ ns[n] = None
    /\ Disrupt("restore")
    /\ \E a \in Names \cup {None} :
          /\ <<n, a>> \in backups
          /\ WriteNamespace(n, [owner |-> None, label |-> a, terminating |-> FALSE,
                                origin |-> "backup"])
    /\ Outdate(n)
    /\ UNCHANGED <<workspaces, ready, request, orphaned, backups, queue, pc>>

(* Somebody creates a Namespace of their own. *)
ForeignNamespace(n) ==
    /\ ns[n] = None
    /\ Disrupt("foreign")
    /\ WriteNamespace(n, [owner |-> None, label |-> None, terminating |-> FALSE,
                          origin |-> "other"])
    /\ backups' = backups \cup {<<n, None>>}
    /\ Outdate(n)
    /\ UNCHANGED <<workspaces, ready, request, orphaned, queue, pc>>

(* Somebody removes the owner reference. *)
OwnerStripped(n) ==
    /\ ns[n] # None /\ ns[n].owner # None
    /\ Disrupt("strip")
    /\ WriteNamespace(n, [ns[n] EXCEPT !.owner = None]) /\ Outdate(n)
    /\ UNCHANGED <<workspaces, ready, request, orphaned, backups, queue, pc>>

-----------------------------------------------------------------------------
Worker == (\E a \in Names : Reconcile(a)) \/ GetNamespace \/ ReconcileNamespace \/ FinishPass

Admission ==
    \E a \in Names :
        \/ Default(a) \/ ValidateNamespaceUniqueness(a) \/ ValidateNamespaceAvailable(a)
        \/ WorkspaceCreated(a) \/ CreationDenied(a)

Informers ==
    \/ \E a \in Names : DeliverWorkspace(a)
    \/ \E n \in Namespaces : DeliverNamespace(n)

GarbageCollector ==
    \/ \E a \in Names : ReleaseDependents(a) \/ RemoveOrphaned(a)
    \/ \E n \in Namespaces : Collect(n) \/ NamespaceTerminated(n)

Environment ==
    \/ ApiFails \/ Crash
    \/ \E a \in Names : WorkspaceDeleted(a) \/ WorkspaceOrphaned(a)
    \/ \E n \in Namespaces :
          \/ Resync(n) \/ NamespaceRemoved(n) \/ NamespaceRestored(n)
          \/ ForeignNamespace(n) \/ OwnerStripped(n)

Next == Worker \/ Admission \/ Informers \/ GarbageCollector \/ Environment

Spec == Init /\ [][Next]_vars

(* The worker, the informers and the garbage collector keep working; the work
   queue is first in, first out, so that every name gets its turn. *)
Fairness ==
    /\ \A a \in Names : SF_vars(Reconcile(a))
    /\ WF_vars(GetNamespace \/ ReconcileNamespace \/ FinishPass)
    /\ \A a \in Names : WF_vars(DeliverWorkspace(a))
    /\ \A n \in Namespaces : WF_vars(DeliverNamespace(n))
    /\ WF_vars(GarbageCollector)

FairSpec == Spec /\ Fairness

-----------------------------------------------------------------------------
Live(a) == ws[a] # None /\ ~ws[a].deleting
Owns(a) == ns[ws[a].namespace] # None /\ ns[ws[a].namespace].owner = ws[a].uid

(* Nothing is left to do for the operator or the garbage collector. *)
Settled ==
    /\ pc = "idle" /\ queue = {}
    /\ \A a \in Names : wsWatch[a] = <<>> /\ (ws[a] # None => ~ws[a].deleting)
    /\ \A n \in Namespaces :
          /\ nsWatch[n] = <<>>
          /\ ns[n] # None =>
                ~ns[n].terminating /\ (ns[n].owner # None => Lives(ns[n].owner))

(* A Namespace that exists gets an owner only if it has none and is stamped with
   that owner's name, and is stamped only by the owner: "Never take over an
   existing namespace we do not own" (ReconcileNamespace), however stale the
   copy it decided on. *)
NoTakeOver ==
    [][\A n \in Namespaces :
          LET old == ns[n]
              new == ns'[n]
          IN  old # None /\ new # None =>
                /\ new.owner \notin {None, old.owner} =>
                      old.owner = None /\ old.label = NameOf(new.owner)
                /\ new.label # old.label => new.owner # None /\ new.owner = old.owner
      ]_vars

(* At rest every Workspace owns its Namespace or says that it cannot have it:
   deleted Namespaces are re-created, stripped ones re-owned, and the loser of
   two claims is told (NamespaceConflictError ends in a status). *)
SettledOwned == Settled => \A a \in Names : Live(a) => Owns(a) \/ ready[a] = "Conflict"

(* No two Workspaces claim the same Namespace: it "must be unique across all
   Workspaces" (WorkspaceSpec), which ValidateNamespaceUniqueness enforces for
   creates that are not in admission at the same time. *)
UniqueClaims ==
    \A a, b \in Names : a # b /\ ws[a] # None /\ ws[b] # None =>
        ws[a].namespace # ws[b].namespace \/ {a, b} \in overlaps

(* "The one exception is a namespace coming back from backup"
   (ReconcileNamespace): no other Namespace without an owner is adopted. *)
AdoptsOnlyFromBackup ==
    [][\A n \in Namespaces :
          ns[n] # None /\ ns[n].owner = None /\ ns'[n] # None /\ ns'[n].owner # None
          => ns[n].origin = "backup"]_vars

(* Somebody else has had the Namespace, once. *)
Contested(a) == \E b \in (Names \cup {None}) \ {a} : <<ws[a].namespace, b>> \in backups

(* When the environment has calmed down, no Namespace belongs to a Workspace
   that is gone, and every Workspace owns its Namespace, or reports a conflict
   over one that was somebody else's: a Workspace created again under its old
   name is not kept out by what its predecessor left behind. *)
EventuallyOwned ==
    <>[](/\ \A a \in Names :
               Live(a) => Owns(a) \/ (ready[a] = "Conflict" /\ Contested(a))
         /\ \A n \in Namespaces :
               ns[n] # None /\ ns[n].owner # None => Lives(ns[n].owner))
=============================================================================
