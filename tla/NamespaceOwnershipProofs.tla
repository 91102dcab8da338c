---------------------- MODULE NamespaceOwnershipProofs ----------------------
(***************************************************************************)
(* Proofs about NamespaceOwnership: for any number of Workspaces and       *)
(* Namespaces, any lag of the caches and any number of disruptions, no     *)
(* Namespace is taken over, claims clash only if admissions overlapped,    *)
(* and the operator does not rest before every Workspace owns its          *)
(* Namespace or reports a conflict.                                        *)
(***************************************************************************)
EXTENDS NamespaceOwnership, WatchLemmas

(***************************************************************************)
(* The invariants behind the properties.                                   *)
(***************************************************************************)

(* A copy that is called fresh is what the API server has, so an update of it
   decides on the Namespace as it is. *)
FreshIsStored == pc = "put" /\ fresh => seen = ns[w.namespace]

(* Whoever is in admission together overlaps; and who has passed the check of
   uniqueness clashes only with somebody who came in meanwhile. *)
InFlightOverlap ==
    \A a, b \in Names : a # b /\ request[a] # None /\ request[b] # None => {a, b} \in overlaps

CheckedUnique ==
    \A a, b \in Names :
        a # b /\ Stage(a) \in {"available", "authorize"} /\ ws[b] # None
              /\ ws[b].namespace = request[a].namespace
        => {a, b} \in overlaps

ClaimsInv == InFlightOverlap /\ CheckedUnique /\ UniqueClaims

(* The caches will show what there is. *)
CachesTrack ==
    /\ \A a \in Names : Latest(wsWatch[a], wsCache[a]) = ws[a]
    /\ \A n \in Namespaces : Latest(nsWatch[n], nsCache[n]) = ns[n]

(* The Workspace will be looked at again. *)
Coming(a) == a \in queue \/ wsWatch[a] # <<>>

(* The cached Namespace, or an event on its way, names the Workspace as owner:
   whatever happens to the Namespace then queues the Workspace. *)
Mentions(a, n) ==
    \/ a \in OwnerNames(nsCache[n])
    \/ \E i \in DOMAIN nsWatch[n] : a \in OwnerNames(nsWatch[n][i])

(* A pass works on the Workspace as it is, or the Workspace is coming again; so
   do its decisions on the Namespace it has seen. *)
PassCurrent ==
    pc # "idle" =>
        LET a == NameOf(w.uid)
        IN  \/ Coming(a)
            \/ /\ w = ws[a] /\ seenReady = ready[a]
               /\ pc = "put" /\ seen # None /\ a \in OwnerNames(seen) => Mentions(a, w.namespace)
               /\ pc = "rest" => Mentions(a, w.namespace)

(* Every Workspace is coming, in a pass, has reported a conflict or is named by
   its Namespace. *)
Attended ==
    \A a \in Names : ws[a] # None =>
        \/ Coming(a) \/ (pc # "idle" /\ NameOf(w.uid) = a)
        \/ ready[a] = "Conflict" \/ Mentions(a, ws[a].namespace)

(* A Workspace has a UID of its name, wherever it is kept. *)
OfName(a, obj) == obj # None => NameOf(obj.uid) = a

Named ==
    \A a \in Names :
        /\ OfName(a, ws[a]) /\ OfName(a, wsCache[a])
        /\ \A i \in DOMAIN wsWatch[a] : OfName(a, wsWatch[a][i])

OwnedInv == TypeOK /\ CachesTrack /\ Named /\ PassCurrent /\ Attended

-----------------------------------------------------------------------------
(***************************************************************************)
(* Type correctness.                                                       *)
(***************************************************************************)

(* An operator that has just started satisfies the type invariant. *)
LEMMA TypeInit == Init => TypeOK
<1> SUFFICES ASSUME Init PROVE TypeOK
  OBVIOUS
<1>1. /\ wsWatch \in [Names -> Seq(Workspace \cup {None})]
      /\ nsWatch \in [Namespaces -> Seq(Namespace \cup {None})]
  BY DEF Init
<1>2. QED
  BY <1>1, StoriesAssumption DEF Init, TypeOK, Reasons

(* The type invariant in parts. *)
TypeWorkspaces ==
    /\ ws \in [Names -> Workspace \cup {None}]
    /\ wsWatch \in [Names -> Seq(Workspace \cup {None})]
    /\ wsCache \in [Names -> Workspace \cup {None}]

TypeNamespaces ==
    /\ ns \in [Namespaces -> Namespace \cup {None}]
    /\ nsWatch \in [Namespaces -> Seq(Namespace \cup {None})]
    /\ nsCache \in [Namespaces -> Namespace \cup {None}]

TypeRecords ==
    /\ born \in [Names -> Nat] /\ overlaps \subseteq SUBSET Names
    /\ orphaned \subseteq Names /\ backups \subseteq Namespaces \X (Names \cup {None})

TypePass ==
    /\ pc \in {"idle", "get", "put", "rest"}
    /\ w \in Workspace \cup {None} /\ (w = None <=> pc = "idle")
    /\ seenReady \in Reasons /\ seen \in Namespace \cup {None} /\ fresh \in BOOLEAN

TypeQueue == ready \in [Names -> Reasons] /\ queue \subseteq Names
TypeRequests == request \in [Names -> Request \cup {None}]
TypeStory == story \in Story

(* What the parts of records are. *)
LEMMA Objects ==
    /\ \A obj \in Workspace : /\ obj.uid \in Uids /\ NameOf(obj.uid) \in Names
                              /\ obj.namespace \in Namespaces /\ obj.deleting \in BOOLEAN
    /\ \A obj \in Namespace : obj.owner # None => obj.owner \in Uids /\ NameOf(obj.owner) \in Names
    /\ \A obj \in Workspace : [obj EXCEPT !.deleting = TRUE] \in Workspace
    /\ \A obj \in Namespace : /\ [obj EXCEPT !.owner = None] \in Namespace
                              /\ [obj EXCEPT !.terminating = TRUE] \in Namespace
<1>1. \A uid \in Uids : NameOf(uid) \in Names
  BY DEF Uids, NameOf
<1>2. \A obj \in Workspace : obj.uid \in Uids /\ obj.namespace \in Namespaces /\ obj.deleting \in BOOLEAN
  BY DEF Workspace
<1>3. \A obj \in Namespace : obj.owner \in Uids \cup {None}
  BY DEF Namespace
<1>4. \A obj \in Workspace : [obj EXCEPT !.deleting = TRUE] \in Workspace
  BY DEF Workspace
<1>5. \A obj \in Namespace : /\ [obj EXCEPT !.owner = None] \in Namespace
                            /\ [obj EXCEPT !.terminating = TRUE] \in Namespace
  BY DEF Namespace
<1>6. QED
  BY <1>1, <1>2, <1>3, <1>4, <1>5

(* Every write leaves objects and events of their type. *)
LEMMA WriteWorkspaceType ==
    ASSUME TypeWorkspaces, NEW a \in Names, NEW obj \in Workspace \cup {None},
           WriteWorkspace(a, obj)
    PROVE  TypeWorkspaces'
  BY DEF TypeWorkspaces, WriteWorkspace

LEMMA WriteNamespaceType ==
    ASSUME TypeNamespaces, NEW n \in Namespaces, NEW obj \in Namespace \cup {None},
           WriteNamespace(n, obj)
    PROVE  TypeNamespaces'
  BY DEF TypeNamespaces, WriteNamespace

LEMMA DisruptType ==
    ASSUME TypeStory, NEW kind \in Disruptions, Disrupt(kind)
    PROVE  TypeStory'
<1>1. /\ story.creates \in Seq(Names) /\ story.budget \in [Disruptions -> Nat]
      /\ story.disruptions \in Nat
  BY DEF TypeStory, Story
<1>2. story.budget[kind] - 1 \in Nat /\ story.disruptions - 1 \in Nat
  BY <1>1 DEF Disrupt
<1>3. QED
  BY <1>1, <1>2 DEF TypeStory, Story, Disrupt

(* The end of a pass, and a report, keep the types as well. *)
LEMMA EndType ==
    ASSUME TypePass, TypeQueue, pc # "idle"
    PROVE  /\ w \in Workspace
           /\ Requeue => TypePass' /\ queue' \subseteq Names
           /\ Done => TypePass' /\ queue' \subseteq Names
           /\ \A reason \in Reasons : Report(reason) => ready' \in [Names -> Reasons]
<1>1. w \in Workspace /\ NameOf(w.uid) \in Names
  BY Objects DEF TypePass
<1>2. QED
  BY <1>1 DEF TypePass, TypeQueue, Requeue, Done, Forget, Report, Reasons

LEMMA OutdateType ==
    ASSUME TypePass, NEW n, Outdate(n), UNCHANGED pc
    PROVE  TypePass'
  BY DEF TypePass, Outdate

(* Every step keeps every variable in its type; in particular a pass always has a
   Workspace, also when the one it was queued for is gone. *)
LEMMA TypeStep == TypeOK /\ [Next]_vars => TypeOK'
<1> SUFFICES ASSUME TypeWorkspaces, TypeNamespaces, TypeRecords, TypePass, TypeQueue,
                    TypeRequests, TypeStory, [Next]_vars
             PROVE  /\ TypeWorkspaces' /\ TypeNamespaces' /\ TypeRecords' /\ TypePass'
                    /\ TypeQueue' /\ TypeRequests' /\ TypeStory'
  BY DEF TypeOK, TypeWorkspaces, TypeNamespaces, TypeRecords, TypePass, TypeQueue,
         TypeRequests, TypeStory
<1> DEFINE Typed == /\ TypeWorkspaces' /\ TypeNamespaces' /\ TypeRecords' /\ TypePass'
                    /\ TypeQueue' /\ TypeRequests' /\ TypeStory'
<1> USE NoneAssumption DEF workspaces, namespaces, locals
<1>a. UNCHANGED <<ws, wsWatch, wsCache>> => TypeWorkspaces'
  BY DEF TypeWorkspaces
<1>b. UNCHANGED <<ns, nsWatch, nsCache>> => TypeNamespaces'
  BY DEF TypeNamespaces
<1>c. UNCHANGED <<born, overlaps, orphaned, backups>> => TypeRecords'
  BY DEF TypeRecords
<1>d. UNCHANGED <<pc, locals>> => TypePass'
  BY DEF TypePass
<1>e. UNCHANGED <<ready, queue>> => TypeQueue'
  BY DEF TypeQueue
<1>f. UNCHANGED request => TypeRequests'
  BY DEF TypeRequests
<1>g. UNCHANGED story => TypeStory'
  BY DEF TypeStory
<1> HIDE DEF Typed
<1>1. ASSUME NEW a \in Names, Default(a) PROVE Typed
  <2>1. TypeStory'
    <3>1. story.creates \in Seq(Names) /\ story.creates # <<>>
      BY <1>1 DEF Default, TypeStory, Story
    <3>2. Tail(story.creates) \in Seq(Names)
      BY <3>1, HeadTailProperties
    <3>3. QED
      BY <1>1, <3>2 DEF Default, TypeStory, Story
  <2>2. TypeRequests'
    BY <1>1 DEF Default, TypeRequests, Request
  <2>3. TypeRecords'
    BY <1>1 DEF Default, TypeRecords, InFlight
  <2>4. QED
    BY <1>1, <2>1, <2>2, <2>3, <1>a, <1>b, <1>d, <1>e DEF Default, Typed
<1>2. ASSUME NEW a \in Names,
             \/ ValidateNamespaceUniqueness(a) \/ ValidateNamespaceAvailable(a)
             \/ CreationDenied(a)
      PROVE  Typed
  <2>1. TypeRequests'
    BY <1>2 DEF ValidateNamespaceUniqueness, ValidateNamespaceAvailable, CreationDenied,
                TypeRequests, Stage, Advance, Refuse, Request
  <2>2. QED
    BY <1>2, <2>1, <1>a, <1>b, <1>c, <1>d, <1>e, <1>g
    DEF ValidateNamespaceUniqueness, ValidateNamespaceAvailable, CreationDenied, Typed
<1>3. ASSUME NEW a \in Names, WorkspaceCreated(a) PROVE Typed
  <2>1. request[a] \in Request
    BY <1>3 DEF TypeRequests, WorkspaceCreated, Stage
  <2>2. [uid |-> <<a, born[a] + 1>>, namespace |-> request[a].namespace, deleting |-> FALSE]
            \in Workspace
    BY <2>1 DEF TypeRecords, Workspace, Uids, Request
  <2>3. TypeWorkspaces'
    BY <1>3, <2>2, <1>a, WriteWorkspaceType DEF WorkspaceCreated
  <2>4. TypeRecords'
    BY <1>3 DEF TypeRecords, WorkspaceCreated
  <2>5. TypeQueue' /\ TypeRequests'
    BY <1>3 DEF TypeQueue, TypeRequests, WorkspaceCreated, Refuse, Reasons
  <2>6. QED
    BY <1>3, <2>3, <2>4, <2>5, <1>b, <1>d, <1>g DEF WorkspaceCreated, Typed
<1>4. ASSUME NEW a \in Names, Reconcile(a) PROVE Typed
  <2>1. TypePass'
    BY <1>4 DEF Reconcile, TypePass, TypeWorkspaces, TypeQueue
  <2>2. QED
    BY <1>4, <2>1, <1>a, <1>b, <1>c, <1>f, <1>g DEF Reconcile, TypeQueue, Typed
<1>5. CASE GetNamespace
  <2>1. TypePass'
    BY <1>5, Objects DEF GetNamespace, TypePass, TypeNamespaces
  <2>2. QED
    BY <1>5, <2>1, <1>a, <1>b, <1>c, <1>e, <1>f, <1>g DEF GetNamespace, Typed
<1>6. CASE ReconcileNamespace
  <2>1. w \in Workspace /\ w.uid \in Uids /\ NameOf(w.uid) \in Names /\ w.namespace \in Namespaces
    BY <1>6, Objects, EndType DEF ReconcileNamespace
  <2>2. TypeWorkspaces' /\ TypeRequests' /\ TypeStory'
    BY <1>6, <1>a, <1>f, <1>g DEF ReconcileNamespace
  <2>3. CASE NamespaceCreated /\ pc' = "rest" /\ UNCHANGED <<ready, queue, locals>>
    <3>1. [owner |-> w.uid, label |-> NameOf(w.uid), terminating |-> FALSE,
           origin |-> "operator"] \in Namespace
      BY <2>1 DEF Namespace
    <3>2. TypeNamespaces' /\ TypeRecords'
      BY <1>6, <2>1, <2>3, <3>1, WriteNamespaceType
      DEF ReconcileNamespace, NamespaceCreated, TypeRecords
    <3>3. TypePass'
      BY <1>6, <2>3 DEF ReconcileNamespace, TypePass
    <3>4. QED
      BY <2>2, <2>3, <3>2, <3>3, <1>e DEF Typed
  <2>4. CASE NamespaceUpdated /\ pc' = "rest" /\ UNCHANGED <<ready, queue, locals>>
    <3>1. Stamped \in Namespace
      BY <2>1, <2>4 DEF TypePass, NamespaceUpdated, Stamped, Namespace
    <3>2. TypeNamespaces' /\ TypeRecords'
      BY <1>6, <2>1, <2>4, <3>1, WriteNamespaceType, <1>c
      DEF ReconcileNamespace, NamespaceUpdated
    <3>3. TypePass'
      BY <1>6, <2>4 DEF ReconcileNamespace, TypePass
    <3>4. QED
      BY <2>2, <2>4, <3>2, <3>3, <1>e DEF Typed
  <2>5. CASE NamespaceUpToDate /\ pc' = "rest" /\ UNCHANGED <<namespaces, ready, queue, locals>>
    <3>1. TypePass'
      BY <1>6, <2>5 DEF ReconcileNamespace, TypePass
    <3>2. QED
      BY <1>6, <2>2, <2>5, <3>1, <1>b, <1>c, <1>e DEF ReconcileNamespace, Typed
  <2>6. CASE UNCHANGED namespaces /\ (Requeue \/ Done) /\ ready' \in [Names -> Reasons]
    <3>1. TypePass' /\ TypeQueue'
      BY <1>6, <2>6, EndType DEF ReconcileNamespace, TypeQueue
    <3>2. QED
      BY <1>6, <2>2, <2>6, <3>1, <1>b, <1>c DEF ReconcileNamespace, Typed
  <2>7. NamespaceConflict /\ Report("Conflict") => ready' \in [Names -> Reasons]
    BY <1>6, EndType DEF ReconcileNamespace, Reasons
  <2>8. WriteRefused => ready' \in [Names -> Reasons]
    BY <1>6, EndType DEF ReconcileNamespace, WriteRefused, TypeQueue, Reasons
  <2>9. QED
    BY <1>6, <2>3, <2>4, <2>5, <2>6, <2>7, <2>8 DEF ReconcileNamespace
<1>7. CASE FinishPass
  <2>1. TypePass' /\ TypeQueue'
    BY <1>7, EndType DEF FinishPass, TypeQueue, Reasons
  <2>2. QED
    BY <1>7, <2>1, <1>a, <1>b, <1>c, <1>f, <1>g DEF FinishPass, Typed
<1>8. CASE ApiFails
  <2>1. TypePass' /\ TypeQueue'
    BY <1>8, EndType DEF ApiFails, TypeQueue, Reasons
  <2>2. QED
    BY <1>8, <2>1, <1>a, <1>b, <1>c, <1>f, DisruptType DEF ApiFails, Typed, Disruptions
<1>9. CASE Crash
  <2>1. TypeWorkspaces' /\ TypeNamespaces'
    BY <1>9 DEF Crash, TypeWorkspaces, TypeNamespaces
  <2>2. TypePass' /\ TypeQueue'
    BY <1>9 DEF Crash, TypePass, TypeQueue, Forget, Reasons
  <2>3. QED
    BY <1>9, <2>1, <2>2, <1>c, <1>f, DisruptType DEF Crash, Typed, Disruptions
<1>10. ASSUME NEW a \in Names, DeliverWorkspace(a) PROVE Typed
  <2>1. TypeWorkspaces'
    BY <1>10, LatestTail DEF DeliverWorkspace, TypeWorkspaces
  <2>2. QED
    BY <1>10, <2>1, <1>b, <1>c, <1>d, <1>f, <1>g DEF DeliverWorkspace, TypeQueue, Typed
<1>11. ASSUME NEW n \in Namespaces, DeliverNamespace(n) PROVE Typed
  <2>1. Head(nsWatch[n]) \in Namespace \cup {None} /\ Tail(nsWatch[n]) \in Seq(Namespace \cup {None})
    BY <1>11, HeadTailProperties DEF DeliverNamespace, TypeNamespaces
  <2>2. TypeNamespaces'
    BY <1>11, <2>1 DEF DeliverNamespace, TypeNamespaces
  <2>3. TypeQueue'
    BY <1>11, <2>1, Objects
    DEF DeliverNamespace, TypeNamespaces, TypeQueue, EventOwners, OwnerNames
  <2>4. QED
    BY <1>11, <2>2, <2>3, <1>a, <1>c, <1>d, <1>f, <1>g DEF DeliverNamespace, Typed
<1>12. ASSUME NEW n \in Namespaces, Resync(n) PROVE Typed
  <2>1. TypeQueue'
    BY <1>12, Objects DEF Resync, TypeNamespaces, TypeQueue, OwnerNames
  <2>2. QED
    BY <1>12, <2>1, <1>a, <1>b, <1>c, <1>d, <1>f, <1>g DEF Resync, Typed
<1>13. ASSUME NEW a \in Names, WorkspaceDeleted(a) \/ WorkspaceOrphaned(a) PROVE Typed
  <2>1. TypeWorkspaces'
    BY <1>13, Objects, WriteWorkspaceType DEF WorkspaceDeleted, WorkspaceOrphaned, TypeWorkspaces
  <2>2. TypeStory'
    BY <1>13, DisruptType DEF WorkspaceDeleted, WorkspaceOrphaned, Disruptions
  <2>3. QED
    BY <1>13, <2>1, <2>2, <1>b, <1>c, <1>d, <1>e, <1>f DEF WorkspaceDeleted, WorkspaceOrphaned, Typed
<1>14. ASSUME NEW a \in Names, RemoveOrphaned(a) PROVE Typed
  <2>1. TypeWorkspaces' /\ TypeRecords'
    BY <1>14, WriteWorkspaceType DEF RemoveOrphaned, TypeRecords
  <2>2. QED
    BY <1>14, <2>1, <1>b, <1>d, <1>e, <1>f, <1>g DEF RemoveOrphaned, Typed
<1>15. ASSUME NEW a \in Names, ReleaseDependents(a) PROVE Typed
  <2>1. ws[a] \in Workspace /\ ws[a].namespace \in Namespaces
    BY <1>15, Objects DEF ReleaseDependents, TypeWorkspaces
  <2>2. TypeNamespaces' /\ TypePass'
    BY <1>15, <2>1, Objects, WriteNamespaceType, OutdateType, <1>b, <1>d
    DEF ReleaseDependents, TypeNamespaces
  <2>3. QED
    BY <1>15, <2>2, <1>a, <1>e, <1>f, <1>g DEF ReleaseDependents, TypeRecords, Typed
<1>16. ASSUME NEW n \in Namespaces, Collect(n) \/ NamespaceTerminated(n) PROVE Typed
  <2>1. TypeNamespaces' /\ TypePass'
    BY <1>16, Objects, WriteNamespaceType, OutdateType
    DEF Collect, NamespaceTerminated, TypeNamespaces
  <2>2. QED
    BY <1>16, <2>1, <1>a, <1>c, <1>e, <1>f, <1>g DEF Collect, NamespaceTerminated, Typed
<1>17. ASSUME NEW n \in Namespaces, NamespaceRemoved(n) \/ OwnerStripped(n) PROVE Typed
  <2>1. TypeNamespaces' /\ TypePass'
    BY <1>17, Objects, WriteNamespaceType, OutdateType
    DEF NamespaceRemoved, OwnerStripped, TypeNamespaces
  <2>2. TypeStory'
    BY <1>17, DisruptType DEF NamespaceRemoved, OwnerStripped, Disruptions
  <2>3. QED
    BY <1>17, <2>1, <2>2, <1>a, <1>c, <1>e, <1>f DEF NamespaceRemoved, OwnerStripped, Typed
<1>18. ASSUME NEW n \in Namespaces, NamespaceRestored(n) \/ ForeignNamespace(n) PROVE Typed
  <2>1. \A a \in Names \cup {None}, o \in {"backup", "other"} :
            [owner |-> None, label |-> a, terminating |-> FALSE, origin |-> o] \in Namespace
    BY DEF Namespace
  <2>2. TypeNamespaces' /\ TypePass'
    BY <1>18, <2>1, WriteNamespaceType, OutdateType DEF NamespaceRestored, ForeignNamespace
  <2>3. TypeStory' /\ TypeRecords'
    BY <1>18, DisruptType DEF NamespaceRestored, ForeignNamespace, Disruptions, TypeRecords
  <2>4. QED
    BY <1>18, <2>2, <2>3, <1>a, <1>e, <1>f DEF NamespaceRestored, ForeignNamespace, Typed
<1>19. CASE UNCHANGED vars
  BY <1>19, <1>a, <1>b, <1>c, <1>d, <1>e, <1>f, <1>g DEF vars, Typed
<1>20. QED
  BY <1>1, <1>2, <1>3, <1>4, <1>5, <1>6, <1>7, <1>8, <1>9, <1>10, <1>11, <1>12, <1>13,
     <1>14, <1>15, <1>16, <1>17, <1>18, <1>19
  DEF Next, Worker, Admission, Informers, GarbageCollector, Environment, Typed

(* Type correctness, for any number of Workspaces, Namespaces and disruptions. *)
THEOREM TypeCorrect == Spec => []TypeOK
  BY TypeInit, TypeStep, PTL DEF Spec

-----------------------------------------------------------------------------
(***************************************************************************)
(* The caches.                                                             *)
(***************************************************************************)

(* A write is followed by its event. *)
LEMMA WriteWorkspaceTracks ==
    ASSUME TypeOK, CachesTrack, NEW a \in Names, NEW obj \in Workspace \cup {None},
           WriteWorkspace(a, obj)
    PROVE  /\ \A b \in Names : Latest(wsWatch'[b], wsCache'[b]) = ws'[b]
           /\ wsWatch'[a] # <<>>
           /\ \A b \in Names \ {a} : UNCHANGED <<ws[b], wsWatch[b], wsCache[b]>>
<1>1. /\ wsWatch[a] \in Seq(Workspace \cup {None}) /\ wsWatch'[a] = Append(wsWatch[a], obj)
      /\ ws'[a] = obj
  BY DEF TypeOK, WriteWorkspace
<1>2. wsWatch'[a] # <<>> /\ Latest(wsWatch'[a], wsCache'[a]) = ws'[a]
  BY <1>1, LatestAppend
<1>3. \A b \in Names \ {a} : UNCHANGED <<ws[b], wsWatch[b], wsCache[b]>>
  BY DEF TypeOK, WriteWorkspace
<1>4. QED
  BY <1>2, <1>3 DEF CachesTrack

LEMMA WriteNamespaceTracks ==
    ASSUME TypeOK, CachesTrack, NEW n \in Namespaces, NEW obj \in Namespace \cup {None},
           WriteNamespace(n, obj)
    PROVE  /\ \A m \in Namespaces : Latest(nsWatch'[m], nsCache'[m]) = ns'[m]
           /\ \A m \in Namespaces \ {n} : UNCHANGED <<ns[m], nsWatch[m], nsCache[m]>>
<1>1. /\ nsWatch[n] \in Seq(Namespace \cup {None}) /\ nsWatch'[n] = Append(nsWatch[n], obj)
      /\ ns'[n] = obj
  BY DEF TypeOK, WriteNamespace
<1>2. Latest(nsWatch'[n], nsCache'[n]) = ns'[n]
  BY <1>1, LatestAppend
<1>3. \A m \in Namespaces \ {n} : UNCHANGED <<ns[m], nsWatch[m], nsCache[m]>>
  BY DEF TypeOK, WriteNamespace
<1>4. QED
  BY <1>2, <1>3 DEF CachesTrack

(* Every step that writes a Workspace is a write of one Workspace ... *)
LEMMA WorkspaceSteps ==
    ASSUME TypeOK, [Next]_vars
    PROVE  \/ UNCHANGED <<ws, wsWatch, wsCache>>
           \/ \E a \in Names, obj \in Workspace \cup {None} : WriteWorkspace(a, obj)
           \/ \E a \in Names : DeliverWorkspace(a)
           \/ Crash
<1> USE DEF workspaces
<1>1. ASSUME NEW a \in Names, WorkspaceCreated(a)
      PROVE  \/ UNCHANGED <<ws, wsWatch, wsCache>>
             \/ \E obj \in Workspace \cup {None} : WriteWorkspace(a, obj)
  <2>1. request[a] \in Request
    BY <1>1 DEF TypeOK, WorkspaceCreated, Stage
  <2>2. [uid |-> <<a, born[a] + 1>>, namespace |-> request[a].namespace, deleting |-> FALSE]
            \in Workspace
    BY <2>1 DEF TypeOK, Workspace, Uids, Request
  <2>3. QED
    BY <1>1, <2>2 DEF WorkspaceCreated
<1>2. ASSUME NEW a \in Names, WorkspaceDeleted(a) \/ WorkspaceOrphaned(a) \/ RemoveOrphaned(a)
      PROVE  \E obj \in Workspace \cup {None} : WriteWorkspace(a, obj)
  BY <1>2, Objects DEF WorkspaceDeleted, WorkspaceOrphaned, RemoveOrphaned, TypeOK
<1>3. ASSUME NEW a \in Names,
             \/ Default(a) \/ ValidateNamespaceUniqueness(a) \/ ValidateNamespaceAvailable(a)
             \/ CreationDenied(a) \/ Reconcile(a) \/ ReleaseDependents(a)
      PROVE  UNCHANGED <<ws, wsWatch, wsCache>>
  BY <1>3 DEF Default, ValidateNamespaceUniqueness, ValidateNamespaceAvailable, CreationDenied,
              Reconcile, ReleaseDependents
<1>4. ASSUME NEW n \in Namespaces,
             \/ DeliverNamespace(n) \/ Resync(n) \/ Collect(n) \/ NamespaceTerminated(n)
             \/ NamespaceRemoved(n) \/ NamespaceRestored(n) \/ ForeignNamespace(n)
             \/ OwnerStripped(n)
      PROVE  UNCHANGED <<ws, wsWatch, wsCache>>
  BY <1>4 DEF DeliverNamespace, Resync, Collect, NamespaceTerminated, NamespaceRemoved,
              NamespaceRestored, ForeignNamespace, OwnerStripped
<1>5. GetNamespace \/ ReconcileNamespace \/ FinishPass \/ ApiFails \/ UNCHANGED vars
        => UNCHANGED <<ws, wsWatch, wsCache>>
  BY DEF GetNamespace, ReconcileNamespace, FinishPass, ApiFails, vars
<1>6. QED
  BY <1>1, <1>2, <1>3, <1>4, <1>5
  DEF Next, Worker, Admission, Informers, GarbageCollector, Environment

(* ... and likewise for Namespaces: the operator's pass writes to the one its
   Workspace asks for, anybody else outdates the copy of the pass. *)
LEMMA NamespaceSteps ==
    ASSUME TypeOK, [Next]_vars
    PROVE  \/ UNCHANGED <<ns, nsWatch, nsCache>>
           \/ \E n \in Namespaces, obj \in Namespace \cup {None} :
                 WriteNamespace(n, obj) /\ Outdate(n) /\ UNCHANGED <<queue, pc, ready>>
           \/ \E obj \in Namespace :
                 /\ ReconcileNamespace /\ pc' = "rest"
                 /\ WriteNamespace(w.namespace, obj) /\ obj.owner = w.uid
           \/ \E n \in Namespaces : DeliverNamespace(n)
           \/ Crash
<1> USE NoneAssumption DEF namespaces
<1>1. ASSUME NEW a \in Names, ReleaseDependents(a)
      PROVE  \/ UNCHANGED <<ns, nsWatch, nsCache>>
             \/ \E n \in Namespaces, obj \in Namespace \cup {None} :
                   WriteNamespace(n, obj) /\ Outdate(n) /\ UNCHANGED <<queue, pc, ready>>
  <2>1. ws[a] \in Workspace /\ ws[a].namespace \in Namespaces
    BY <1>1, Objects DEF ReleaseDependents, TypeOK
  <2> DEFINE n == ws[a].namespace
  <2>2. CASE ns[n] # None /\ ns[n].owner = ws[a].uid
    <3>1. [ns[n] EXCEPT !.owner = None] \in Namespace
      <4>1. ns[n] \in Namespace
        BY <2>1, <2>2 DEF TypeOK
      <4>2. QED
        BY <4>1, Objects
    <3>2. WriteNamespace(n, [ns[n] EXCEPT !.owner = None]) /\ Outdate(n)
      BY <1>1, <2>2 DEF ReleaseDependents
    <3>3. UNCHANGED <<queue, pc, ready>>
      BY <1>1 DEF ReleaseDependents
    <3>4. QED
      BY <2>1, <3>1, <3>2, <3>3
  <2>3. QED
    BY <1>1, <2>2 DEF ReleaseDependents
<1>2. ASSUME NEW n \in Namespaces,
             \/ Collect(n) \/ NamespaceTerminated(n) \/ NamespaceRemoved(n) \/ OwnerStripped(n)
      PROVE  \E obj \in Namespace \cup {None} :
                 WriteNamespace(n, obj) /\ Outdate(n) /\ UNCHANGED <<queue, pc, ready>>
  BY <1>2, Objects DEF Collect, NamespaceTerminated, NamespaceRemoved, OwnerStripped, TypeOK
<1>3. ASSUME NEW n \in Namespaces, NamespaceRestored(n) \/ ForeignNamespace(n)
      PROVE  \E obj \in Namespace \cup {None} :
                 WriteNamespace(n, obj) /\ Outdate(n) /\ UNCHANGED <<queue, pc, ready>>
  <2>1. \A a \in Names \cup {None}, o \in {"backup", "other"} :
            [owner |-> None, label |-> a, terminating |-> FALSE, origin |-> o] \in Namespace
    BY DEF Namespace
  <2>2. QED
    BY <1>3, <2>1 DEF NamespaceRestored, ForeignNamespace
<1>4. CASE ReconcileNamespace
  <2>1. w \in Workspace /\ w.uid \in Uids /\ NameOf(w.uid) \in Names
    BY <1>4, Objects DEF ReconcileNamespace, TypeOK
  <2>2. NamespaceCreated => \E obj \in Namespace : WriteNamespace(w.namespace, obj) /\ obj.owner = w.uid
    <3>1. ASSUME NEW obj, obj = [owner |-> w.uid, label |-> NameOf(w.uid), terminating |-> FALSE,
                                 origin |-> "operator"]
          PROVE  obj \in Namespace /\ obj.owner = w.uid
      BY <2>1, <3>1 DEF Namespace
    <3>2. QED
      BY <3>1 DEF NamespaceCreated
  <2>3. NamespaceUpdated => \E obj \in Namespace : WriteNamespace(w.namespace, obj) /\ obj.owner = w.uid
    <3>1. ASSUME NamespaceUpdated PROVE Stamped \in Namespace /\ Stamped.owner = w.uid
      BY <2>1, <3>1 DEF TypeOK, NamespaceUpdated, Stamped, Namespace
    <3>2. QED
      BY <3>1 DEF NamespaceUpdated
  <2>4. QED
    BY <1>4, <2>2, <2>3 DEF ReconcileNamespace
<1>5. ASSUME NEW a \in Names,
             \/ Default(a) \/ ValidateNamespaceUniqueness(a) \/ ValidateNamespaceAvailable(a)
             \/ WorkspaceCreated(a) \/ CreationDenied(a) \/ Reconcile(a) \/ DeliverWorkspace(a)
             \/ WorkspaceDeleted(a) \/ WorkspaceOrphaned(a) \/ RemoveOrphaned(a)
      PROVE  UNCHANGED <<ns, nsWatch, nsCache>>
  BY <1>5 DEF Default, ValidateNamespaceUniqueness, ValidateNamespaceAvailable, WorkspaceCreated,
              CreationDenied, Reconcile, DeliverWorkspace, WorkspaceDeleted, WorkspaceOrphaned,
              RemoveOrphaned
<1>6. ASSUME NEW n \in Namespaces, Resync(n) PROVE UNCHANGED <<ns, nsWatch, nsCache>>
  BY <1>6 DEF Resync
<1>7. GetNamespace \/ FinishPass \/ ApiFails \/ UNCHANGED vars => UNCHANGED <<ns, nsWatch, nsCache>>
  BY DEF GetNamespace, FinishPass, ApiFails, vars
<1>8. QED
  BY <1>1, <1>2, <1>3, <1>4, <1>5, <1>6, <1>7
  DEF Next, Worker, Admission, Informers, GarbageCollector, Environment

(* The caches keep up. *)
LEMMA CachesStep == TypeOK /\ CachesTrack /\ [Next]_vars => CachesTrack'
<1> SUFFICES ASSUME TypeOK, CachesTrack, [Next]_vars PROVE CachesTrack'
  OBVIOUS
<1>1. CASE Crash
  <2>1. /\ \A a \in Names : wsWatch'[a] = <<>> /\ wsCache'[a] = ws'[a]
        /\ \A n \in Namespaces : nsWatch'[n] = <<>> /\ nsCache'[n] = ns'[n]
    BY <1>1 DEF Crash
  <2>2. QED
    BY <2>1 DEF CachesTrack, Latest
<1>2. \A a \in Names : Latest(wsWatch'[a], wsCache'[a]) = ws'[a]
  <2>1. ASSUME NEW a \in Names, DeliverWorkspace(a)
        PROVE  \A b \in Names : Latest(wsWatch'[b], wsCache'[b]) = ws'[b]
    <3>1. /\ wsWatch[a] \in Seq(Workspace \cup {None}) /\ wsWatch[a] # <<>>
          /\ wsCache'[a] = Head(wsWatch[a]) /\ wsWatch'[a] = Tail(wsWatch[a]) /\ ws' = ws
      BY <2>1 DEF TypeOK, DeliverWorkspace
    <3>2. Latest(wsWatch'[a], wsCache'[a]) = Latest(wsWatch[a], wsCache[a])
      BY <3>1, LatestTail
    <3>3. \A b \in Names \ {a} : wsWatch'[b] = wsWatch[b] /\ wsCache'[b] = wsCache[b]
      BY <2>1 DEF TypeOK, DeliverWorkspace
    <3>4. QED
      BY <3>1, <3>2, <3>3 DEF CachesTrack
  <2>2. ASSUME NEW a \in Names, NEW obj \in Workspace \cup {None}, WriteWorkspace(a, obj)
        PROVE  \A b \in Names : Latest(wsWatch'[b], wsCache'[b]) = ws'[b]
    BY <2>2, WriteWorkspaceTracks
  <2>3. CASE UNCHANGED <<ws, wsWatch, wsCache>>
    BY <2>3 DEF CachesTrack
  <2>4. CASE Crash
    BY <1>1, <2>4 DEF CachesTrack
  <2>5. QED
    BY <2>1, <2>2, <2>3, <2>4, WorkspaceSteps
<1>3. \A n \in Namespaces : Latest(nsWatch'[n], nsCache'[n]) = ns'[n]
  <2>1. ASSUME NEW n \in Namespaces, DeliverNamespace(n)
        PROVE  \A m \in Namespaces : Latest(nsWatch'[m], nsCache'[m]) = ns'[m]
    <3>1. /\ nsWatch[n] \in Seq(Namespace \cup {None}) /\ nsWatch[n] # <<>>
          /\ nsCache'[n] = Head(nsWatch[n]) /\ nsWatch'[n] = Tail(nsWatch[n]) /\ ns' = ns
      BY <2>1 DEF TypeOK, DeliverNamespace
    <3>2. Latest(nsWatch'[n], nsCache'[n]) = Latest(nsWatch[n], nsCache[n])
      BY <3>1, LatestTail
    <3>3. \A m \in Namespaces \ {n} : nsWatch'[m] = nsWatch[m] /\ nsCache'[m] = nsCache[m]
      BY <2>1 DEF TypeOK, DeliverNamespace
    <3>4. QED
      BY <3>1, <3>2, <3>3 DEF CachesTrack
  <2>2. ASSUME ReconcileNamespace, pc' = "rest" PROVE w.namespace \in Namespaces
    BY <2>2, Objects DEF ReconcileNamespace, TypeOK
  <2>3. QED
    BY <1>1, <2>1, <2>2, NamespaceSteps, WriteNamespaceTracks DEF CachesTrack
<1>4. QED
  BY <1>2, <1>3 DEF CachesTrack
(* The caches start out with what there is. *)
LEMMA CachesInit == Init => CachesTrack
  BY DEF Init, CachesTrack, Latest

-----------------------------------------------------------------------------
(***************************************************************************)
(* No Namespace is taken over.                                             *)
(***************************************************************************)

(* A copy stays what the API server has until somebody else writes. *)
LEMMA FreshStep ==
    ASSUME TypeOK, CachesTrack, FreshIsStored, [Next]_vars
    PROVE  FreshIsStored'
<1> USE NoneAssumption DEF namespaces, locals
<1>1. pc # "idle" => w \in Workspace /\ w.namespace \in Namespaces
  BY Objects DEF TypeOK
<1>2. ASSUME UNCHANGED <<pc, locals>>, ns' = ns PROVE FreshIsStored'
  BY <1>2 DEF FreshIsStored
<1>3. ASSUME NEW n, NEW obj, WriteNamespace(n, obj), Outdate(n), UNCHANGED pc
      PROVE  FreshIsStored'
  <2>1. SUFFICES ASSUME pc' = "put", fresh' PROVE seen' = ns'[w'.namespace]
    BY DEF FreshIsStored
  <2>2. pc = "put" /\ fresh /\ w.namespace # n /\ w' = w /\ seen' = seen
    BY <1>3, <2>1 DEF Outdate, TypeOK
  <2>3. w.namespace \in Namespaces /\ seen = ns[w.namespace]
    BY <1>1, <2>2 DEF FreshIsStored
  <2>4. ns'[w.namespace] = ns[w.namespace]
    BY <1>3, <2>2, <2>3 DEF WriteNamespace, TypeOK
  <2>5. QED
    BY <2>2, <2>3, <2>4
<1>4. ASSUME pc' # "put" PROVE FreshIsStored'
  BY <1>4 DEF FreshIsStored
<1>5. CASE GetNamespace
  <2>1. fresh' => nsWatch[w.namespace] = <<>> /\ seen' = nsCache[w.namespace]
    BY <1>5 DEF GetNamespace
  <2>2. nsWatch[w.namespace] = <<>> => nsCache[w.namespace] = ns[w.namespace]
    BY <1>1, <1>5 DEF CachesTrack, Latest, GetNamespace
  <2>3. QED
    BY <1>5, <2>1, <2>2 DEF GetNamespace, FreshIsStored
<1>6. CASE ReconcileNamespace \/ FinishPass \/ ApiFails \/ Crash
  BY <1>4, <1>6 DEF ReconcileNamespace, FinishPass, ApiFails, Crash, Requeue, Done
<1>7. ASSUME NEW a \in Names, Reconcile(a) PROVE FreshIsStored'
  BY <1>4, <1>7 DEF Reconcile
<1>8. ASSUME NEW a \in Names,
             \/ Default(a) \/ ValidateNamespaceUniqueness(a) \/ ValidateNamespaceAvailable(a)
             \/ WorkspaceCreated(a) \/ CreationDenied(a) \/ DeliverWorkspace(a)
             \/ WorkspaceDeleted(a) \/ WorkspaceOrphaned(a) \/ RemoveOrphaned(a)
      PROVE  FreshIsStored'
  BY <1>2, <1>8
  DEF Default, ValidateNamespaceUniqueness, ValidateNamespaceAvailable, WorkspaceCreated,
      CreationDenied, DeliverWorkspace, WorkspaceDeleted, WorkspaceOrphaned, RemoveOrphaned
<1>9. ASSUME NEW a \in Names, ReleaseDependents(a) PROVE FreshIsStored'
  BY <1>2, <1>3, <1>9 DEF ReleaseDependents
<1>10. ASSUME NEW n \in Namespaces, DeliverNamespace(n) \/ Resync(n) PROVE FreshIsStored'
  BY <1>2, <1>10 DEF DeliverNamespace, Resync
<1>11. ASSUME NEW n \in Namespaces,
              \/ Collect(n) \/ NamespaceTerminated(n) \/ NamespaceRemoved(n)
              \/ NamespaceRestored(n) \/ ForeignNamespace(n) \/ OwnerStripped(n)
       PROVE  FreshIsStored'
  BY <1>3, <1>11 DEF Collect, NamespaceTerminated, NamespaceRemoved, NamespaceRestored,
                     ForeignNamespace, OwnerStripped
<1>12. CASE UNCHANGED vars
  BY <1>2, <1>12 DEF vars
<1>13. QED
  BY <1>5, <1>6, <1>7, <1>8, <1>9, <1>10, <1>11, <1>12
  DEF Next, Worker, Admission, Informers, GarbageCollector, Environment

(* What a step may do to a Namespace. *)
Rightful(old, new) ==
    old # None /\ new # None =>
        /\ new.owner \notin {None, old.owner} => old.owner = None /\ old.label = NameOf(new.owner)
        /\ new.label # old.label => new.owner # None /\ new.owner = old.owner

(* The writes of the others: they create and delete Namespaces and take owner
   references away. *)
LEMMA OthersRightful ==
    /\ \A new : Rightful(None, new)
    /\ \A old : Rightful(old, None) /\ Rightful(old, old)
    /\ \A old \in Namespace : /\ Rightful(old, [old EXCEPT !.owner = None])
                              /\ Rightful(old, [old EXCEPT !.terminating = TRUE])
<1>1. /\ \A new : Rightful(None, new)
      /\ \A old : Rightful(old, None) /\ Rightful(old, old)
  BY DEF Rightful
<1>2. ASSUME NEW old \in Namespace
      PROVE  /\ Rightful(old, [old EXCEPT !.owner = None])
             /\ Rightful(old, [old EXCEPT !.terminating = TRUE])
  BY DEF Rightful, Namespace
<1>3. QED
  BY <1>1, <1>2

(* A write that is rightful for the one Namespace is for all. *)
LEMMA WriteRightful ==
    ASSUME TypeOK, NEW n \in Namespaces, NEW obj, WriteNamespace(n, obj), Rightful(ns[n], obj)
    PROVE  \A m \in Namespaces : Rightful(ns[m], ns'[m])
<1>1. /\ ns'[n] = obj /\ \A m \in Namespaces \ {n} : ns'[m] = ns[m]
  BY DEF WriteNamespace, TypeOK
<1>2. QED
  BY <1>1, OthersRightful

(* Every step is rightful; the operator's own, because it decided on the
   Namespace as it is. *)
LEMMA RightfulStep ==
    ASSUME TypeOK, FreshIsStored, [Next]_vars
    PROVE  \A m \in Namespaces : Rightful(ns[m], ns'[m])
<1> USE NoneAssumption DEF namespaces
<1>1. ASSUME ns' = ns PROVE \A m \in Namespaces : Rightful(ns[m], ns'[m])
  BY <1>1, OthersRightful
<1>2. ASSUME NEW n \in Namespaces,
             \/ Collect(n) \/ NamespaceTerminated(n) \/ NamespaceRemoved(n)
             \/ NamespaceRestored(n) \/ ForeignNamespace(n) \/ OwnerStripped(n)
      PROVE  \A m \in Namespaces : Rightful(ns[m], ns'[m])
  <2>1. ns[n] # None => ns[n] \in Namespace
    BY DEF TypeOK
  <2>2. QED
    BY <1>2, <2>1, OthersRightful, WriteRightful
    DEF Collect, NamespaceTerminated, NamespaceRemoved, NamespaceRestored, ForeignNamespace,
        OwnerStripped
<1>3. ASSUME NEW a \in Names, ReleaseDependents(a)
      PROVE  \A m \in Namespaces : Rightful(ns[m], ns'[m])
  <2> DEFINE n == ws[a].namespace
  <2>1. n \in Namespaces /\ (ns[n] # None => ns[n] \in Namespace)
    BY <1>3, Objects DEF ReleaseDependents, TypeOK
  <2>2. CASE ns[n] # None /\ ns[n].owner = ws[a].uid
    <3>1. WriteNamespace(n, [ns[n] EXCEPT !.owner = None])
      BY <1>3, <2>2 DEF ReleaseDependents
    <3>2. QED
      BY <2>1, <2>2, <3>1, OthersRightful, WriteRightful
  <2>3. QED
    BY <1>1, <1>3, <2>2 DEF ReleaseDependents
<1>4. CASE ReconcileNamespace
  <2>1. /\ w \in Workspace /\ w.namespace \in Namespaces /\ w.uid \in Uids /\ w.uid # None
    BY <1>4, Objects DEF ReconcileNamespace, TypeOK
  <2>2. CASE NamespaceCreated
    BY <2>1, <2>2, OthersRightful, WriteRightful DEF NamespaceCreated
  <2>3. CASE NamespaceUpdated
    <3>1. seen \in Namespace /\ seen = ns[w.namespace]
      BY <1>4, <2>3 DEF ReconcileNamespace, NamespaceUpdated, FreshIsStored, TypeOK
    <3>2. Stamped.owner = w.uid /\ Stamped.label = NameOf(w.uid)
      BY <3>1 DEF Stamped, Namespace
    <3>3. Rightful(ns[w.namespace], Stamped)
      BY <2>1, <2>3, <3>1, <3>2
      DEF Rightful, NamespaceUpdated, NamespaceConflict, IsOwned, Adoptable
    <3>4. QED
      BY <2>1, <2>3, <3>3, WriteRightful DEF NamespaceUpdated
  <2>4. QED
    BY <1>1, <1>4, <2>2, <2>3 DEF ReconcileNamespace
<1>5. ASSUME NEW a \in Names,
             \/ Default(a) \/ ValidateNamespaceUniqueness(a) \/ ValidateNamespaceAvailable(a)
             \/ WorkspaceCreated(a) \/ CreationDenied(a) \/ DeliverWorkspace(a) \/ Reconcile(a)
             \/ WorkspaceDeleted(a) \/ WorkspaceOrphaned(a) \/ RemoveOrphaned(a)
      PROVE  ns' = ns
  BY <1>5
  DEF Default, ValidateNamespaceUniqueness, ValidateNamespaceAvailable, WorkspaceCreated, Reconcile,
      CreationDenied, DeliverWorkspace, WorkspaceDeleted, WorkspaceOrphaned, RemoveOrphaned
<1>6. ASSUME NEW n \in Namespaces, DeliverNamespace(n) \/ Resync(n) PROVE ns' = ns
  BY <1>6 DEF DeliverNamespace, Resync
<1>7. GetNamespace \/ FinishPass \/ ApiFails \/ Crash \/ UNCHANGED vars => ns' = ns
  BY DEF GetNamespace, FinishPass, ApiFails, Crash, vars
<1>8. QED
  BY <1>1, <1>2, <1>3, <1>4, <1>5, <1>6, <1>7
  DEF Next, Worker, Admission, Informers, GarbageCollector, Environment

(* A Namespace that exists gets an owner only if it has none and carries that
   owner's name, and a new label only from its owner, however far the caches of
   ReconcileNamespace are behind. *)
THEOREM NeverTakenOver == Spec => NoTakeOver
<1> DEFINE Inv == TypeOK /\ CachesTrack /\ FreshIsStored
<1>1. Init => Inv
  BY TypeInit, CachesInit DEF Init, FreshIsStored
<1>2. Inv /\ [Next]_vars => Inv'
  BY TypeStep, CachesStep, FreshStep
<1>3. Inv /\ [Next]_vars =>
        [\A n \in Namespaces :
            LET old == ns[n]
                new == ns'[n]
            IN  old # None /\ new # None =>
                  /\ new.owner \notin {None, old.owner} =>
                        old.owner = None /\ old.label = NameOf(new.owner)
                  /\ new.label # old.label => new.owner # None /\ new.owner = old.owner
        ]_vars
  BY RightfulStep DEF Rightful
<1> HIDE DEF Inv
<1>4. QED
  BY <1>1, <1>2, <1>3, PTL DEF Spec, NoTakeOver
-----------------------------------------------------------------------------
(***************************************************************************)
(* Claims clash only where admissions overlapped.                          *)
(***************************************************************************)

(* Requests and Workspaces that go, or go on, cause no clash. *)
LEMMA FewerClaims ==
    ASSUME ClaimsInv, UNCHANGED overlaps,
           \A a \in Names : request'[a] # None =>
              /\ request[a] # None /\ request'[a].namespace = request[a].namespace
              /\ request'[a].stage \in {"available", "authorize"} =>
                    request[a].stage \in {"available", "authorize"},
           \A a \in Names : ws'[a] # None => ws[a] # None /\ ws'[a].namespace = ws[a].namespace
    PROVE  ClaimsInv'
<1>1. InFlightOverlap'
  BY DEF ClaimsInv, InFlightOverlap
<1>2. CheckedUnique'
  BY DEF ClaimsInv, CheckedUnique, Stage
<1>3. UniqueClaims'
  BY DEF ClaimsInv, UniqueClaims
<1>4. QED
  BY <1>1, <1>2, <1>3 DEF ClaimsInv

(* The check of uniqueness, the recorded overlaps and the create keep claims
   apart. *)
LEMMA ClaimsStep ==
    ASSUME TypeOK, ClaimsInv, [Next]_vars
    PROVE  ClaimsInv'
<1> USE NoneAssumption DEF workspaces
<1>0. /\ request \in [Names -> Request \cup {None}] /\ ws \in [Names -> Workspace \cup {None}]
      /\ \A a \in Names : request[a] # None =>
            request[a] \in [stage : {"unique", "available", "authorize"}, namespace : Namespaces]
  BY DEF TypeOK, Request
<1>1. ASSUME NEW a \in Names, Default(a) PROVE ClaimsInv'
  <2>1. /\ request[a] = None /\ ws' = ws
        /\ overlaps' = {o \in overlaps : a \in o => ws[a] # None} \cup {{a, b} : b \in InFlight}
        /\ \A b \in Names \ {a} : request'[b] = request[b]
    BY <1>0, <1>1 DEF Default
  <2>2. request'[a].stage = "unique"
    BY <1>0, <1>1 DEF Default
  <2>3. ASSUME NEW b \in Names, request[b] # None PROVE {a, b} \in overlaps'
    BY <2>1, <2>3 DEF InFlight
  <2>4. ASSUME NEW b \in Names, NEW c \in Names, {b, c} \in overlaps, a \in {b, c} => ws[a] # None
        PROVE  {b, c} \in overlaps'
    BY <2>1, <2>4
  <2>5. InFlightOverlap'
    <3>1. SUFFICES ASSUME NEW b \in Names, NEW c \in Names, b # c,
                          request'[b] # None, request'[c] # None
                   PROVE  {b, c} \in overlaps'
      BY DEF InFlightOverlap
    <3>2. CASE b = a
      BY <2>1, <2>3, <3>1, <3>2
    <3>3. CASE c = a
      <4>1. {c, b} \in overlaps'
        BY <2>1, <2>3, <3>1, <3>3
      <4>2. {b, c} = {c, b}
        OBVIOUS
      <4>3. QED
        BY <4>1, <4>2
    <3>4. CASE a \notin {b, c}
      BY <2>1, <2>4, <3>1, <3>4 DEF ClaimsInv, InFlightOverlap
    <3>5. QED
      BY <3>2, <3>3, <3>4
  <2>6. CheckedUnique'
    <3>1. SUFFICES ASSUME NEW b \in Names, NEW c \in Names, b # c,
                          Stage(b)' \in {"available", "authorize"}, ws'[c] # None,
                          ws'[c].namespace = request'[b].namespace
                   PROVE  {b, c} \in overlaps'
      BY DEF CheckedUnique
    <3>2. b # a
      BY <2>2, <3>1 DEF Stage
    <3>3. {b, c} \in overlaps
      BY <2>1, <3>1, <3>2 DEF ClaimsInv, CheckedUnique, Stage
    <3>4. QED
      BY <2>1, <2>4, <3>1, <3>2, <3>3
  <2>7. UniqueClaims'
    BY <2>1, <2>4 DEF ClaimsInv, UniqueClaims
  <2>8. QED
    BY <2>5, <2>6, <2>7 DEF ClaimsInv
<1>2. ASSUME NEW a \in Names, ValidateNamespaceUniqueness(a) PROVE ClaimsInv'
  <2>1. CASE Claimed(request[a].namespace, a)
    <3>1. \A b \in Names : request'[b] # None => request'[b] = request[b]
      BY <1>0, <1>2, <2>1 DEF ValidateNamespaceUniqueness, Refuse
    <3>2. QED
      BY <1>2, <3>1, FewerClaims DEF ValidateNamespaceUniqueness
  <2>2. CASE ~Claimed(request[a].namespace, a)
    <3>1. /\ request[a] # None /\ UNCHANGED <<ws, overlaps>>
          /\ request'[a].namespace = request[a].namespace
          /\ \A b \in Names \ {a} : request'[b] = request[b]
      BY <1>0, <1>2, <2>2 DEF ValidateNamespaceUniqueness, Stage, Advance
    <3>2. InFlightOverlap' /\ UniqueClaims'
      BY <3>1 DEF ClaimsInv, InFlightOverlap, UniqueClaims
    <3>3. CheckedUnique'
      BY <2>2, <3>1 DEF ClaimsInv, CheckedUnique, Stage, Claimed
    <3>4. QED
      BY <3>2, <3>3 DEF ClaimsInv
  <2>3. QED
    BY <2>1, <2>2
<1>3. ASSUME NEW a \in Names, ValidateNamespaceAvailable(a) \/ CreationDenied(a)
      PROVE  ClaimsInv'
  <2>1. /\ request[a] # None /\ request[a].stage \in {"available", "authorize"}
        /\ UNCHANGED <<ws, overlaps>>
        /\ Advance(a, "authorize") \/ Refuse(a)
    BY <1>3 DEF ValidateNamespaceAvailable, CreationDenied, Stage
  <2>2. \A b \in Names : request'[b] # None =>
              /\ request[b] # None /\ request'[b].namespace = request[b].namespace
              /\ request'[b].stage \in {"available", "authorize"} =>
                    request[b].stage \in {"available", "authorize"}
    BY <1>0, <2>1 DEF Advance, Refuse
  <2>3. QED
    BY <2>1, <2>2, FewerClaims
<1>4. ASSUME NEW a \in Names, WorkspaceCreated(a) PROVE ClaimsInv'
  <2>1. /\ request[a] # None /\ request[a].stage = "authorize" /\ request'[a] = None
        /\ overlaps' = overlaps /\ \A b \in Names \ {a} : request'[b] = request[b]
    BY <1>0, <1>4 DEF WorkspaceCreated, Stage, Refuse
  <2>2. CASE ws[a] # None
    BY <1>4, <2>1, <2>2, FewerClaims DEF WorkspaceCreated
  <2>3. CASE ws[a] = None
    <3>1. /\ ws'[a].namespace = request[a].namespace
          /\ \A b \in Names \ {a} : ws'[b] = ws[b]
      BY <1>0, <1>4, <2>3 DEF WorkspaceCreated, WriteWorkspace
    <3>2. InFlightOverlap'
      BY <2>1 DEF ClaimsInv, InFlightOverlap
    <3>3. \A b, c \in Names : {b, c} = {c, b}
      OBVIOUS
    <3>4. CheckedUnique'
      BY <2>1, <3>1, <3>3 DEF ClaimsInv, InFlightOverlap, CheckedUnique, Stage
    <3>5. UniqueClaims'
      BY <2>1, <3>1, <3>3 DEF ClaimsInv, CheckedUnique, UniqueClaims, Stage
    <3>6. QED
      BY <3>2, <3>4, <3>5 DEF ClaimsInv
  <2>4. QED
    BY <2>2, <2>3
<1>5. ASSUME NEW a \in Names, WorkspaceDeleted(a) \/ WorkspaceOrphaned(a) \/ RemoveOrphaned(a)
      PROVE  ClaimsInv'
  <2>1. \A b \in Names : ws'[b] # None => ws[b] # None /\ ws'[b].namespace = ws[b].namespace
    BY <1>0, <1>5 DEF WorkspaceDeleted, WorkspaceOrphaned, RemoveOrphaned, WriteWorkspace, Workspace
  <2>2. UNCHANGED <<request, overlaps>>
    BY <1>5 DEF WorkspaceDeleted, WorkspaceOrphaned, RemoveOrphaned
  <2>3. QED
    BY <2>1, <2>2, FewerClaims
<1>6. ASSUME UNCHANGED <<ws, request, overlaps>> PROVE ClaimsInv'
  BY <1>6, FewerClaims
<1>7. ASSUME NEW a \in Names, Reconcile(a) \/ DeliverWorkspace(a) \/ ReleaseDependents(a)
      PROVE  UNCHANGED <<ws, request, overlaps>>
  BY <1>7 DEF Reconcile, DeliverWorkspace, ReleaseDependents
<1>8. ASSUME NEW n \in Namespaces,
             \/ DeliverNamespace(n) \/ Resync(n) \/ Collect(n) \/ NamespaceTerminated(n)
             \/ NamespaceRemoved(n) \/ NamespaceRestored(n) \/ ForeignNamespace(n)
             \/ OwnerStripped(n)
      PROVE  UNCHANGED <<ws, request, overlaps>>
  BY <1>8 DEF DeliverNamespace, Resync, Collect, NamespaceTerminated, NamespaceRemoved,
              NamespaceRestored, ForeignNamespace, OwnerStripped
<1>9. GetNamespace \/ ReconcileNamespace \/ FinishPass \/ ApiFails \/ Crash \/ UNCHANGED vars
        => UNCHANGED <<ws, request, overlaps>>
  BY DEF GetNamespace, ReconcileNamespace, FinishPass, ApiFails, Crash, vars
<1>10. QED
  BY <1>1, <1>2, <1>3, <1>4, <1>5, <1>6, <1>7, <1>8, <1>9
  DEF Next, Worker, Admission, Informers, GarbageCollector, Environment

(* Two Workspaces claim the same Namespace only if they were in admission at the
   same time, for any number of creates in admission. *)
THEOREM ClaimsAreUnique == Spec => []UniqueClaims
<1>1. Init => TypeOK /\ ClaimsInv
  BY TypeInit DEF Init, ClaimsInv, InFlightOverlap, CheckedUnique, UniqueClaims, Stage
<1>2. (TypeOK /\ ClaimsInv) /\ [Next]_vars => (TypeOK /\ ClaimsInv)'
  BY TypeStep, ClaimsStep
<1>3. ClaimsInv => UniqueClaims
  BY DEF ClaimsInv
<1>4. QED
  BY <1>1, <1>2, <1>3, PTL DEF Spec
-----------------------------------------------------------------------------
(***************************************************************************)
(* At rest every Workspace owns its Namespace or has reported a conflict.  *)
(***************************************************************************)

(* Workspaces keep their names. *)
LEMMA NamedStep ==
    ASSUME TypeOK, Named, [Next]_vars
    PROVE  Named'
<1> USE NoneAssumption
<1>1. ASSUME UNCHANGED <<ws, wsWatch, wsCache>> PROVE Named'
  BY <1>1 DEF Named
<1>2. ASSUME NEW a \in Names, NEW obj \in Workspace \cup {None}, WriteWorkspace(a, obj),
             OfName(a, obj)
      PROVE  Named'
  <2>1. /\ ws'[a] = obj /\ wsWatch'[a] = Append(wsWatch[a], obj) /\ wsCache' = wsCache
        /\ \A b \in Names \ {a} : ws'[b] = ws[b] /\ wsWatch'[b] = wsWatch[b]
        /\ wsWatch[a] \in Seq(Workspace \cup {None})
    BY <1>2 DEF WriteWorkspace, TypeOK
  <2>2. \A i \in DOMAIN wsWatch'[a] :
           \/ i \in DOMAIN wsWatch[a] /\ wsWatch'[a][i] = wsWatch[a][i]
           \/ wsWatch'[a][i] = obj
    BY <2>1
  <2>3. QED
    BY <1>2, <2>1, <2>2 DEF Named
<1>3. ASSUME NEW a \in Names, WorkspaceCreated(a) PROVE Named'
  <2> DEFINE obj == [uid |-> <<a, born[a] + 1>>, namespace |-> request[a].namespace,
                     deleting |-> FALSE]
  <2>1. request[a] \in Request
    BY <1>3 DEF TypeOK, WorkspaceCreated, Stage
  <2>2. obj \in Workspace /\ NameOf(obj.uid) = a
    BY <2>1 DEF TypeOK, Workspace, Uids, Request, NameOf
  <2>3. QED
    BY <1>1, <1>2, <1>3, <2>2 DEF WorkspaceCreated, workspaces, OfName
<1>4. ASSUME NEW a \in Names, WorkspaceDeleted(a) \/ RemoveOrphaned(a) PROVE Named'
  BY <1>2, <1>4 DEF WorkspaceDeleted, RemoveOrphaned, OfName
<1>5. ASSUME NEW a \in Names, WorkspaceOrphaned(a) PROVE Named'
  <2> DEFINE obj == [ws[a] EXCEPT !.deleting = TRUE]
  <2>1. ws[a] \in Workspace /\ NameOf(ws[a].uid) = a
    BY <1>5 DEF WorkspaceOrphaned, TypeOK, Named, OfName
  <2>2. obj \in Workspace /\ obj.uid = ws[a].uid
    BY <2>1 DEF Workspace
  <2>3. QED
    BY <1>2, <1>5, <2>1, <2>2 DEF WorkspaceOrphaned, OfName
<1>6. ASSUME NEW a \in Names, DeliverWorkspace(a) PROVE Named'
  <2>1. /\ ws' = ws /\ wsCache'[a] = Head(wsWatch[a]) /\ wsWatch'[a] = Tail(wsWatch[a])
        /\ \A b \in Names \ {a} : wsCache'[b] = wsCache[b] /\ wsWatch'[b] = wsWatch[b]
        /\ wsWatch[a] \in Seq(Workspace \cup {None}) /\ wsWatch[a] # <<>>
    BY <1>6 DEF DeliverWorkspace, TypeOK
  <2>2. /\ 1 \in DOMAIN wsWatch[a] /\ wsCache'[a] = wsWatch[a][1]
        /\ \A i \in DOMAIN wsWatch'[a] : i + 1 \in DOMAIN wsWatch[a] /\ wsWatch'[a][i] = wsWatch[a][i + 1]
    BY <2>1, HeadOrTail
  <2>3. ASSUME NEW b \in Names
        PROVE  /\ OfName(b, ws'[b]) /\ OfName(b, wsCache'[b])
               /\ \A i \in DOMAIN wsWatch'[b] : OfName(b, wsWatch'[b][i])
    <3>1. CASE b = a
      BY <2>1, <2>2, <3>1 DEF Named
    <3>2. CASE b # a
      BY <2>1, <3>2 DEF Named
    <3>3. QED
      BY <3>1, <3>2
  <2>4. QED
    BY <2>3 DEF Named
<1>7. CASE Crash
  <2>1. /\ ws' = ws /\ \A a \in Names : wsCache'[a] = ws[a] /\ wsWatch'[a] = <<>>
    BY <1>7 DEF Crash
  <2>2. \A a \in Names : DOMAIN wsWatch'[a] = {}
    BY <2>1
  <2>3. QED
    BY <2>1, <2>2 DEF Named
<1>8. ASSUME NEW a \in Names,
             \/ Default(a) \/ ValidateNamespaceUniqueness(a) \/ ValidateNamespaceAvailable(a)
             \/ CreationDenied(a) \/ Reconcile(a) \/ ReleaseDependents(a)
      PROVE  UNCHANGED <<ws, wsWatch, wsCache>>
  BY <1>8 DEF Default, ValidateNamespaceUniqueness, ValidateNamespaceAvailable, CreationDenied,
              Reconcile, ReleaseDependents, workspaces
<1>9. ASSUME NEW n \in Namespaces,
             \/ DeliverNamespace(n) \/ Resync(n) \/ Collect(n) \/ NamespaceTerminated(n)
             \/ NamespaceRemoved(n) \/ NamespaceRestored(n) \/ ForeignNamespace(n)
             \/ OwnerStripped(n)
      PROVE  UNCHANGED <<ws, wsWatch, wsCache>>
  BY <1>9 DEF DeliverNamespace, Resync, Collect, NamespaceTerminated, NamespaceRemoved,
              NamespaceRestored, ForeignNamespace, OwnerStripped, workspaces
<1>10. GetNamespace \/ ReconcileNamespace \/ FinishPass \/ ApiFails \/ UNCHANGED vars
        => UNCHANGED <<ws, wsWatch, wsCache>>
  BY DEF GetNamespace, ReconcileNamespace, FinishPass, ApiFails, vars, workspaces
<1>11. QED
  BY <1>1, <1>3, <1>4, <1>5, <1>6, <1>7, <1>8, <1>9, <1>10
  DEF Next, Worker, Admission, Informers, GarbageCollector, Environment

(* A mention on a Namespace stays until the event that removes it queues the
   Workspace (EventOwners has the owner before the change). *)
LEMMA MentionsKept ==
    ASSUME TypeOK, [Next]_vars, ~Crash, NEW a \in Names, NEW m \in Namespaces, Mentions(a, m)
    PROVE  Mentions(a, m)' \/ a \in queue'
<1>1. CASE UNCHANGED <<ns, nsWatch, nsCache>>
  BY <1>1 DEF Mentions, OwnerNames
<1>2. ASSUME NEW n \in Namespaces, NEW obj \in Namespace \cup {None}, WriteNamespace(n, obj)
      PROVE  Mentions(a, m)'
  <2>1. /\ nsCache' = nsCache /\ nsWatch[n] \in Seq(Namespace \cup {None})
        /\ nsWatch'[n] = Append(nsWatch[n], obj) /\ (m # n => nsWatch'[m] = nsWatch[m])
    BY <1>2 DEF WriteNamespace, TypeOK
  <2>2. \A i \in DOMAIN nsWatch[m] : i \in DOMAIN nsWatch'[m] /\ nsWatch'[m][i] = nsWatch[m][i]
    BY <2>1, AppendKeeps
  <2>3. QED
    BY <2>1, <2>2 DEF Mentions, OwnerNames
<1>3. ASSUME NEW n \in Namespaces, DeliverNamespace(n) PROVE Mentions(a, m)' \/ a \in queue'
  <2>1. /\ nsCache'[n] = Head(nsWatch[n]) /\ nsWatch'[n] = Tail(nsWatch[n])
        /\ m # n => nsCache'[m] = nsCache[m] /\ nsWatch'[m] = nsWatch[m]
        /\ nsWatch[n] \in Seq(Namespace \cup {None}) /\ nsWatch[n] # <<>>
        /\ queue' = queue \cup EventOwners(nsCache[n], Head(nsWatch[n]))
    BY <1>3 DEF DeliverNamespace, TypeOK
  <2>2. /\ nsWatch[n][1] = nsCache'[n]
        /\ \A i \in DOMAIN nsWatch[n] : i # 1 =>
              i - 1 \in DOMAIN nsWatch'[n] /\ nsWatch[n][i] = nsWatch'[n][i - 1]
    BY <2>1, HeadOrTail
  <2>3. CASE m # n
    BY <2>1, <2>3 DEF Mentions, OwnerNames
  <2>4. CASE m = n
    <3>1. CASE a \in OwnerNames(nsCache[n])
      BY <2>1, <3>1 DEF EventOwners
    <3>2. ASSUME NEW i \in DOMAIN nsWatch[n], a \in OwnerNames(nsWatch[n][i])
          PROVE  Mentions(a, n)'
      <4>1. CASE i = 1
        BY <2>2, <3>2, <4>1 DEF Mentions, OwnerNames
      <4>2. CASE i # 1
        BY <2>2, <3>2, <4>2 DEF Mentions, OwnerNames
      <4>3. QED
        BY <4>1, <4>2
    <3>3. QED
      BY <2>4, <3>1, <3>2 DEF Mentions
  <2>5. QED
    BY <2>3, <2>4
<1>4. ReconcileNamespace => w.namespace \in Namespaces
  BY Objects DEF ReconcileNamespace, TypeOK
<1>5. QED
  BY <1>1, <1>2, <1>3, <1>4, NamespaceSteps
(* A Workspace stays queued, or its event on its way, until a pass takes it. *)
LEMMA ComingKept ==
    ASSUME TypeOK, [Next]_vars, ~Crash, ~\E a \in Names : Reconcile(a)
    PROVE  queue \subseteq queue' /\ \A a \in Names : Coming(a) => Coming(a)'
<1>1. queue \subseteq queue'
  <2>1. ASSUME NEW a \in Names,
               \/ Default(a) \/ ValidateNamespaceUniqueness(a) \/ ValidateNamespaceAvailable(a)
               \/ WorkspaceCreated(a) \/ CreationDenied(a) \/ DeliverWorkspace(a)
               \/ WorkspaceDeleted(a) \/ WorkspaceOrphaned(a) \/ RemoveOrphaned(a)
               \/ ReleaseDependents(a)
        PROVE  queue \subseteq queue'
    BY <2>1
    DEF Default, ValidateNamespaceUniqueness, ValidateNamespaceAvailable, WorkspaceCreated,
        CreationDenied, DeliverWorkspace, WorkspaceDeleted, WorkspaceOrphaned, RemoveOrphaned,
        ReleaseDependents
  <2>2. ASSUME NEW n \in Namespaces,
               \/ DeliverNamespace(n) \/ Resync(n) \/ Collect(n) \/ NamespaceTerminated(n)
               \/ NamespaceRemoved(n) \/ NamespaceRestored(n) \/ ForeignNamespace(n)
               \/ OwnerStripped(n)
        PROVE  queue \subseteq queue'
    BY <2>2 DEF DeliverNamespace, Resync, Collect, NamespaceTerminated, NamespaceRemoved,
                NamespaceRestored, ForeignNamespace, OwnerStripped
  <2>3. GetNamespace \/ ReconcileNamespace \/ FinishPass \/ ApiFails \/ UNCHANGED vars
          => queue \subseteq queue'
    BY DEF GetNamespace, ReconcileNamespace, FinishPass, ApiFails, vars, Requeue, Done
  <2>4. QED
    BY <2>1, <2>2, <2>3
    DEF Next, Worker, Admission, Informers, GarbageCollector, Environment
<1>2. ASSUME NEW a \in Names, NEW obj \in Workspace \cup {None}, WriteWorkspace(a, obj),
             NEW b \in Names, Coming(b)
      PROVE  Coming(b)'
  <2>1. /\ wsWatch[a] \in Seq(Workspace \cup {None}) /\ wsWatch'[a] = Append(wsWatch[a], obj)
        /\ (b # a => wsWatch'[b] = wsWatch[b])
    BY <1>2 DEF WriteWorkspace, TypeOK
  <2>2. wsWatch'[a] # <<>>
    BY <2>1
  <2>3. QED
    BY <1>1, <1>2, <2>1, <2>2 DEF Coming
<1>3. ASSUME NEW a \in Names, DeliverWorkspace(a), NEW b \in Names, Coming(b) PROVE Coming(b)'
  BY <1>1, <1>3 DEF DeliverWorkspace, Coming, TypeOK
<1>4. CASE UNCHANGED <<ws, wsWatch, wsCache>>
  BY <1>1, <1>4 DEF Coming
<1>5. QED
  BY <1>1, <1>2, <1>3, <1>4, WorkspaceSteps

(* A step that leaves the pass alone, and announces what it does to Workspaces. *)
LEMMA QuietStep ==
    ASSUME TypeOK, PassCurrent, Attended, UNCHANGED <<pc, w, seenReady, seen>>,
           \A a \in Names : Coming(a) => Coming(a)',
           \A a \in Names : Coming(a)' \/ (ws'[a] = ws[a] /\ ready'[a] = ready[a]),
           \A a \in Names, m \in Namespaces : Mentions(a, m) => Mentions(a, m)' \/ a \in queue'
    PROVE  PassCurrent' /\ Attended'
<1>1. pc # "idle" => w.namespace \in Namespaces /\ NameOf(w.uid) \in Names
  BY Objects DEF TypeOK
<1>2. \A a \in Names : a \in queue' => Coming(a)'
  BY DEF Coming
<1>3. PassCurrent'
  BY <1>1, <1>2 DEF PassCurrent
<1>4. \A a \in Names : ws[a] # None => ws[a].namespace \in Namespaces
  BY Objects DEF TypeOK
<1>5. Attended'
  BY <1>2, <1>4 DEF Attended
<1>6. QED
  BY <1>3, <1>5

(* The steps of the pass. *)
LEMMA PassStep ==
    ASSUME TypeOK, CachesTrack, Named, PassCurrent, Attended, [Next]_vars,
           \/ \E a \in Names : Reconcile(a)
           \/ GetNamespace \/ ReconcileNamespace \/ FinishPass \/ ApiFails
    PROVE  PassCurrent' /\ Attended'
<1> USE NoneAssumption DEF workspaces, namespaces, locals
<1>1. pc # "idle" => /\ w \in Workspace /\ w.uid \in Uids /\ w.uid # None
                     /\ w.namespace \in Namespaces /\ NameOf(w.uid) \in Names
  BY Objects DEF TypeOK
<1>2. \A a \in Names : ws[a] # None => ws[a].namespace \in Namespaces
  BY Objects DEF TypeOK
<1>3. ASSUME NEW a \in Names, Reconcile(a) PROVE PassCurrent' /\ Attended'
  <2>1. /\ pc = "idle" /\ a \in queue /\ queue' = queue \ {a}
        /\ UNCHANGED <<ws, wsWatch, wsCache, ready, ns, nsWatch, nsCache>>
    BY <1>3 DEF Reconcile
  <2>2. /\ \A b \in Names \ {a} : Coming(b)' = Coming(b)
        /\ wsWatch[a] # <<>> => Coming(a)'
        /\ wsWatch[a] = <<>> => wsCache[a] = ws[a]
    BY <2>1 DEF Coming, CachesTrack, Latest
  <2>3. \A b \in Names, m \in Namespaces : Mentions(b, m)' = Mentions(b, m)
    BY <2>1 DEF Mentions, OwnerNames
  <2>4. CASE wsCache[a] = None
    <3>1. pc' = "idle"
      BY <1>3, <2>1, <2>4 DEF Reconcile
    <3>2. Attended'
      BY <2>1, <2>2, <2>3, <2>4, <1>2 DEF Attended
    <3>3. QED
      BY <3>1, <3>2 DEF PassCurrent
  <2>5. CASE wsCache[a] # None
    <3>1. pc' = "get" /\ w' = wsCache[a] /\ seenReady' = ready[a] /\ NameOf(w'.uid) = a
      BY <1>3, <2>5 DEF Reconcile, Named, OfName
    <3>2. PassCurrent'
      BY <2>1, <2>2, <3>1 DEF PassCurrent
    <3>3. Attended'
      BY <2>1, <2>2, <2>3, <3>1, <1>2 DEF Attended
    <3>4. QED
      BY <3>2, <3>3
  <2>6. QED
    BY <2>4, <2>5
<1>4. CASE GetNamespace
  <2>1. /\ pc = "get" /\ pc' = "put" /\ w' = w /\ seenReady' = seenReady
        /\ seen' = nsCache[w.namespace]
        /\ UNCHANGED <<ws, wsWatch, wsCache, ready, ns, nsWatch, nsCache, queue>>
    BY <1>4 DEF GetNamespace
  <2>2. /\ \A a \in Names : Coming(a)' = Coming(a)
        /\ \A a \in Names, m \in Namespaces : Mentions(a, m)' = Mentions(a, m)
    BY <2>1 DEF Coming, Mentions, OwnerNames
  <2>3. \A a \in Names : a \in OwnerNames(seen)' => Mentions(a, w.namespace)'
    BY <2>1 DEF Mentions, OwnerNames
  <2>4. PassCurrent'
    BY <1>1, <2>1, <2>2, <2>3 DEF PassCurrent
  <2>5. Attended'
    BY <2>1, <2>2, <1>2 DEF Attended
  <2>6. QED
    BY <2>4, <2>5
<1>5. ASSUME UNCHANGED <<ws, wsWatch, wsCache, ready, w, seenReady, seen, queue>>,
             pc # "idle", pc' = "rest", Mentions(NameOf(w.uid), w.namespace)' \/ Coming(NameOf(w.uid)),
             \A a \in Names, m \in Namespaces : Mentions(a, m) => Mentions(a, m)' \/ a \in queue'
      PROVE  PassCurrent' /\ Attended'
  <2>1. \A a \in Names : Coming(a)' = Coming(a) /\ (a \in queue' => Coming(a)')
    BY <1>5 DEF Coming
  <2>2. PassCurrent'
    BY <1>1, <1>5, <2>1 DEF PassCurrent
  <2>3. Attended'
    BY <1>2, <1>5, <2>1 DEF Attended
  <2>4. QED
    BY <2>2, <2>3
<1>6. ASSUME UNCHANGED <<ws, wsWatch, wsCache, ns, nsWatch, nsCache>>,
             pc # "idle", Requeue,
             \A a \in Names \ {NameOf(w.uid)} : ready'[a] = ready[a]
      PROVE  PassCurrent' /\ Attended'
  <2>1. /\ \A a \in Names : Coming(a) \/ a = NameOf(w.uid) => Coming(a)'
        /\ pc' = "idle"
        /\ \A a \in Names, m \in Namespaces : Mentions(a, m) => Mentions(a, m)'
    BY <1>6 DEF Coming, Mentions, OwnerNames, Requeue
  <2>2. PassCurrent'
    BY <2>1 DEF PassCurrent
  <2>3. Attended'
    BY <1>2, <1>6, <2>1 DEF Attended
  <2>4. QED
    BY <2>2, <2>3
<1>7. ASSUME UNCHANGED <<ws, wsWatch, wsCache, ns, nsWatch, nsCache>>,
             pc # "idle", Done,
             \A a \in Names \ {NameOf(w.uid)} : ready'[a] = ready[a],
             LET a == NameOf(w.uid)
             IN  Coming(a) \/ ready'[a] = "Conflict" \/ Mentions(a, ws[a].namespace)
      PROVE  PassCurrent' /\ Attended'
  <2>1. /\ \A a \in Names : Coming(a) => Coming(a)'
        /\ pc' = "idle"
        /\ \A a \in Names, m \in Namespaces : Mentions(a, m) => Mentions(a, m)'
    BY <1>7 DEF Coming, Mentions, OwnerNames, Done
  <2>2. PassCurrent'
    BY <2>1 DEF PassCurrent
  <2>3. Attended'
    BY <1>2, <1>7, <2>1 DEF Attended
  <2>4. QED
    BY <2>2, <2>3
<1>8. ASSUME NEW reason, Report(reason) PROVE \A a \in Names \ {NameOf(w.uid)} : ready'[a] = ready[a]
  BY <1>8 DEF Report, TypeOK
<1>9. CASE ReconcileNamespace
  <2> DEFINE a == NameOf(w.uid)
  <2>1. pc = "put" /\ UNCHANGED <<ws, wsWatch, wsCache>>
    BY <1>9 DEF ReconcileNamespace
  <2>2. ASSUME NEW obj \in Namespace, pc' = "rest", WriteNamespace(w.namespace, obj), obj.owner = w.uid,
               UNCHANGED <<ready, queue, locals>>
        PROVE  PassCurrent' /\ Attended'
    <3>1. /\ nsWatch[w.namespace] \in Seq(Namespace \cup {None})
          /\ nsWatch'[w.namespace] = Append(nsWatch[w.namespace], obj)
      BY <1>1, <2>1, <2>2 DEF WriteNamespace, TypeOK
    <3>2. \E i \in DOMAIN nsWatch'[w.namespace] : nsWatch'[w.namespace][i] = obj
      BY <3>1, AppendKeeps
    <3>3. a \in OwnerNames(obj)
      BY <1>1, <2>1, <2>2 DEF OwnerNames
    <3>4. Mentions(a, w.namespace)'
      BY <2>2, <3>2, <3>3 DEF Mentions, OwnerNames
    <3>5. QED
      BY <1>5, <2>1, <2>2, <3>4, <1>9, MentionsKept DEF Crash
  <2>3. CASE NamespaceUpToDate /\ pc' = "rest" /\ UNCHANGED <<namespaces, ready, queue, locals>>
    <3>1. seen \in Namespace /\ seen.owner = w.uid
      BY <2>3 DEF NamespaceUpToDate, Stamped, TypeOK, Namespace
    <3>2. a \in OwnerNames(seen)
      BY <1>1, <2>1, <2>3, <3>1 DEF OwnerNames, NamespaceUpToDate
    <3>3. Mentions(a, w.namespace) \/ Coming(a)
      BY <2>1, <2>3, <3>2 DEF PassCurrent, NamespaceUpToDate
    <3>4. \A b \in Names, m \in Namespaces : Mentions(b, m)' = Mentions(b, m)
      BY <2>3 DEF Mentions, OwnerNames
    <3>5. QED
      BY <1>1, <1>5, <2>1, <2>3, <3>3, <3>4
  <2>4. CASE NamespaceConflict /\ Report("Conflict") /\ UNCHANGED namespaces
             /\ IF ws[a] = None THEN Requeue ELSE Done
    <3>1. CASE ws[a] = None
      BY <1>6, <1>8, <2>1, <2>4, <3>1
    <3>2. CASE ws[a] # None
      <4>1. Coming(a) \/ ready'[a] = "Conflict"
        BY <1>1, <2>1, <2>4, <3>2 DEF Report, PassCurrent, TypeOK
      <4>2. QED
        BY <1>7, <1>8, <2>1, <2>4, <3>2, <4>1
    <3>3. QED
      BY <3>1, <3>2
  <2>5. CASE WriteRefused /\ Requeue /\ UNCHANGED namespaces
    <3>1. \A b \in Names \ {a} : ready'[b] = ready[b]
      BY <1>8, <2>5 DEF WriteRefused
    <3>2. QED
      BY <1>6, <2>1, <2>5, <3>1
  <2>6. NamespaceCreated => \E obj \in Namespace : WriteNamespace(w.namespace, obj) /\ obj.owner = w.uid
    <3>1. ASSUME NEW obj, obj = [owner |-> w.uid, label |-> NameOf(w.uid), terminating |-> FALSE,
                                 origin |-> "operator"]
          PROVE  obj \in Namespace /\ obj.owner = w.uid
      BY <1>1, <2>1, <3>1 DEF Namespace
    <3>2. QED
      BY <3>1 DEF NamespaceCreated
  <2>7. NamespaceUpdated => \E obj \in Namespace : WriteNamespace(w.namespace, obj) /\ obj.owner = w.uid
    <3>1. ASSUME NamespaceUpdated PROVE Stamped \in Namespace /\ Stamped.owner = w.uid
      BY <1>1, <2>1, <3>1 DEF TypeOK, NamespaceUpdated, Stamped, Namespace
    <3>2. QED
      BY <3>1 DEF NamespaceUpdated
  <2>8. QED
    BY <1>9, <2>2, <2>3, <2>4, <2>5, <2>6, <2>7 DEF ReconcileNamespace
<1>10. CASE FinishPass
  <2> DEFINE a == NameOf(w.uid)
  <2>1. pc = "rest" /\ UNCHANGED <<ws, wsWatch, wsCache, ns, nsWatch, nsCache>>
    BY <1>10 DEF FinishPass
  <2>2. Coming(a) \/ Mentions(a, ws[a].namespace)
    BY <2>1 DEF PassCurrent
  <2>3. /\ Requeue \/ Done
        /\ \A b \in Names \ {a} : ready'[b] = ready[b]
    BY <1>8, <1>10 DEF FinishPass
  <2>4. QED
    BY <1>6, <1>7, <2>1, <2>2, <2>3
<1>11. CASE ApiFails
  <2>1. \A b \in Names \ {NameOf(w.uid)} : ready'[b] = ready[b]
    BY <1>8, <1>11 DEF ApiFails
  <2>2. QED
    BY <1>6, <1>11, <2>1 DEF ApiFails
<1>12. QED
  BY <1>3, <1>4, <1>9, <1>10, <1>11
(* Every step. *)
LEMMA OwnedStep == OwnedInv /\ [Next]_vars => OwnedInv'
<1> SUFFICES ASSUME OwnedInv, [Next]_vars PROVE OwnedInv'
  OBVIOUS
<1> USE DEF workspaces, namespaces, locals
<1>1. TypeOK /\ CachesTrack /\ Named /\ PassCurrent /\ Attended
  BY DEF OwnedInv
<1>2. ASSUME \/ \E a \in Names : Reconcile(a)
             \/ GetNamespace \/ ReconcileNamespace \/ FinishPass \/ ApiFails
      PROVE  PassCurrent' /\ Attended'
  BY <1>1, <1>2, PassStep
<1>3. ASSUME Crash PROVE PassCurrent' /\ Attended'
  <2>1. /\ pc' = "idle" /\ ws' = ws /\ queue' = {a \in Names : ws[a] # None}
    BY <1>3 DEF Crash
  <2>2. QED
    BY <2>1 DEF PassCurrent, Attended, Coming
<1>4. ASSUME ~Crash, ~\E a \in Names : Reconcile(a),
             UNCHANGED <<pc, w, seenReady, seen>>,
             \A a \in Names : Coming(a)' \/ (ws'[a] = ws[a] /\ ready'[a] = ready[a])
      PROVE  PassCurrent' /\ Attended'
  BY <1>1, <1>4, QuietStep, ComingKept, MentionsKept
<1>5. ASSUME ~Crash, NEW a \in Names,
             \/ WorkspaceCreated(a) \/ WorkspaceDeleted(a) \/ WorkspaceOrphaned(a) \/ RemoveOrphaned(a)
      PROVE  \A b \in Names : Coming(b)' \/ (ws'[b] = ws[b] /\ ready'[b] = ready[b])
  <2>1. ASSUME NEW obj, WriteWorkspace(a, obj) PROVE Coming(a)' /\ \A b \in Names \ {a} : ws'[b] = ws[b]
    <3>1. wsWatch[a] \in Seq(Workspace \cup {None}) /\ wsWatch'[a] = Append(wsWatch[a], obj)
      BY <1>1, <2>1 DEF WriteWorkspace, TypeOK
    <3>2. wsWatch'[a] # <<>>
      BY <3>1
    <3>3. QED
      BY <1>1, <2>1, <3>2 DEF WriteWorkspace, TypeOK, Coming
  <2>2. \A b \in Names \ {a} : ready'[b] = ready[b]
    BY <1>1, <1>5 DEF WorkspaceCreated, WorkspaceDeleted, WorkspaceOrphaned, RemoveOrphaned, TypeOK
  <2>3. UNCHANGED <<ws, ready>> \/ \E obj : WriteWorkspace(a, obj)
    BY <1>5 DEF WorkspaceCreated, WorkspaceDeleted, WorkspaceOrphaned, RemoveOrphaned
  <2>4. QED
    BY <2>1, <2>2, <2>3
<1>6. ASSUME UNCHANGED vars PROVE PassCurrent' /\ Attended'
  <2>1. UNCHANGED <<pc, w, seenReady, seen, ws, ready, queue, wsWatch, nsCache, nsWatch>>
    BY <1>6 DEF vars
  <2>2. /\ \A a \in Names : Coming(a) => Coming(a)'
        /\ \A a \in Names, m \in Namespaces : Mentions(a, m) => Mentions(a, m)'
    BY <2>1 DEF Coming, Mentions, OwnerNames
  <2>3. QED
    BY <1>1, <2>1, <2>2, QuietStep
<1>7. ASSUME NEW a \in Names,
             \/ Default(a) \/ ValidateNamespaceUniqueness(a) \/ ValidateNamespaceAvailable(a)
             \/ CreationDenied(a) \/ DeliverWorkspace(a) \/ ReleaseDependents(a)
      PROVE  UNCHANGED <<pc, w, seenReady, seen, ws, ready>>
  BY <1>7 DEF Default, ValidateNamespaceUniqueness, ValidateNamespaceAvailable, CreationDenied,
              DeliverWorkspace, ReleaseDependents, Outdate
<1>8. ASSUME NEW n \in Namespaces,
             \/ DeliverNamespace(n) \/ Resync(n) \/ Collect(n) \/ NamespaceTerminated(n)
             \/ NamespaceRemoved(n) \/ NamespaceRestored(n) \/ ForeignNamespace(n)
             \/ OwnerStripped(n)
      PROVE  UNCHANGED <<pc, w, seenReady, seen, ws, ready>>
  BY <1>8 DEF DeliverNamespace, Resync, Collect, NamespaceTerminated, NamespaceRemoved,
              NamespaceRestored, ForeignNamespace, OwnerStripped, Outdate
<1>9. ASSUME NEW a \in Names,
             \/ WorkspaceCreated(a) \/ WorkspaceDeleted(a) \/ WorkspaceOrphaned(a) \/ RemoveOrphaned(a)
      PROVE  UNCHANGED <<pc, w, seenReady, seen>>
  BY <1>9 DEF WorkspaceCreated, WorkspaceDeleted, WorkspaceOrphaned, RemoveOrphaned
<1>10. PassCurrent' /\ Attended'
  BY <1>2, <1>3, <1>4, <1>5, <1>6, <1>7, <1>8, <1>9
  DEF Next, Worker, Admission, Informers, GarbageCollector, Environment
<1>11. TypeOK' /\ CachesTrack' /\ Named'
  BY <1>1, TypeStep, CachesStep, NamedStep
<1>12. QED
  BY <1>10, <1>11 DEF OwnedInv

(* When the operator and the garbage collector rest, every Workspace owns its
   Namespace or reports a conflict over it, whatever has been deleted, restored,
   stripped or created meanwhile, and however far the caches were behind. *)
THEOREM OwnedAtRest == Spec => []SettledOwned
<1>1. Init => OwnedInv
  <2>1. ASSUME Init PROVE Named /\ PassCurrent /\ Attended
    BY <2>1 DEF Init, Named, OfName, PassCurrent, Attended
  <2>2. QED
    BY <2>1, TypeInit, CachesInit DEF OwnedInv
<1>2. OwnedInv => SettledOwned
  <2>1. SUFFICES ASSUME OwnedInv, Settled, NEW a \in Names, Live(a), ready[a] # "Conflict"
                 PROVE  Owns(a)
    BY DEF SettledOwned
  <2> DEFINE n == ws[a].namespace
  <2>2. ws[a] # None /\ n \in Namespaces
    BY <2>1, Objects, NoneAssumption DEF Live, OwnedInv, TypeOK
  <2>3. Mentions(a, n)
    BY <2>1, <2>2 DEF OwnedInv, Attended, Coming, Settled
  <2>4. nsWatch[n] = <<>> /\ nsCache[n] = ns[n]
    BY <2>1, <2>2 DEF OwnedInv, CachesTrack, Latest, Settled
  <2>5. a \in OwnerNames(ns[n])
    BY <2>3, <2>4 DEF Mentions
  <2>6. ns[n] # None /\ ns[n].owner # None /\ NameOf(ns[n].owner) = a
    BY <2>5 DEF OwnerNames
  <2>7. QED
    BY <2>1, <2>2, <2>6 DEF Settled, Lives, Owns
<1>3. QED
  BY <1>1, <1>2, OwnedStep, PTL DEF Spec
=============================================================================
