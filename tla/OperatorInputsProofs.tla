------------------------ MODULE OperatorInputsProofs ------------------------
(***************************************************************************)
(* Proofs about OperatorInputs: for any number of Workspaces, hosts and    *)
(* projects and any sequence of changes, failures and crashes, the         *)
(* operator does not rest before every Workspace has been through a pass   *)
(* with the inputs as they are, unless a fan-out has left it out or it     *)
(* reports that its Namespace is somebody else's.                          *)
(***************************************************************************)
EXTENDS OperatorInputs, WatchLemmas

(***************************************************************************)
(* The invariants.                                                         *)
(***************************************************************************)

(* A pass has a Workspace of the cache. *)
PassHasWorkspace == pc # "idle" => w \in wsCache

(* The caches will show the inputs as they are. *)
CachesTrack ==
    /\ Latest(configWatch, configCache) = config
    /\ Latest(secretWatch, secretCache) = secret

(* What a pass has done so far is right for the inputs in the cache. *)
Annotated(a) == configCache \in Projects => annotation[a] = configCache

Progress ==
    /\ pc \in {"secret", "harbor", "helm", "status"} => Annotated(w)
    /\ pc \in {"harbor", "helm", "status"} => url = secretCache
    /\ pc \in {"helm", "status"} => pull[w] # None
    /\ pc = "status" => helm[w] = buildHelmRepositoryURL(url)

PassCurrent == pc # "idle" => w \in queue \cup lost \/ Progress

(* A Workspace is queued, in a pass or left out by a fan-out, or it is as the
   inputs in the cache want it or reports a namespace conflict. *)
AsCached(a) ==
    /\ secretCache \in URLs /\ pull[a] # None /\ helm[a] = buildHelmRepositoryURL(secretCache)
    /\ Annotated(a) /\ ready[a] = "True"

Served ==
    \A a \in wsCache :
        \/ a \in queue \cup lost \/ (pc # "idle" /\ w = a)
        \/ AsCached(a) \/ ready[a] = "Conflict"

InputsInv == TypeOK /\ PassHasWorkspace /\ CachesTrack /\ PassCurrent /\ Served

-----------------------------------------------------------------------------
(***************************************************************************)
(* Type correctness.                                                       *)
(***************************************************************************)

(* The type invariant in parts. *)
TypeInputs ==
    /\ config \in Configs /\ configCache \in Configs /\ configWatch \in Seq(Configs)
    /\ secret \in Secrets /\ secretCache \in Secrets /\ secretWatch \in Seq(Secrets)

TypeWorkspaces ==
    /\ ws \subseteq Workspaces /\ wsCache \subseteq ws /\ queue \subseteq wsCache
    /\ lost \subseteq Workspaces

TypeObjects ==
    /\ robots \subseteq {Registry[h] : h \in Hosts} \X Workspaces
    /\ namespace \in [Workspaces -> {"absent", "own", "foreign"}]
    /\ annotation \in [Workspaces -> Projects \cup {None}]
    /\ pull \in [Workspaces -> URLs \cup {None}]
    /\ helm \in [Workspaces -> [repo : Hosts, insecure : BOOLEAN] \cup {None}]
    /\ ready \in [Workspaces -> {"Unknown", "True", "Error", "Conflict"}]

TypePass ==
    /\ pc \in {"idle", "namespace", "secret", "harbor", "helm", "status"}
    /\ w \in wsCache \cup {None} /\ (pc # "idle" => w \in wsCache)
    /\ url \in URLs \cup {None} /\ (pc \in {"harbor", "helm", "status"} => url # None)

TypeBudget == budget \in [Disruptions -> Nat]

LEMMA TypeParts ==
    TypeOK /\ PassHasWorkspace <=>
        TypeInputs /\ TypeWorkspaces /\ TypeObjects /\ TypePass /\ TypeBudget
  BY DEF TypeOK, PassHasWorkspace, TypeInputs, TypeWorkspaces, TypeObjects, TypePass, TypeBudget

(* Disruptions use the budget up. *)
LEMMA DisruptType ==
    ASSUME TypeBudget, NEW kind \in Disruptions \ {"any"}, Disrupt(kind)
    PROVE  TypeBudget'
<1>1. "any" \in Disruptions /\ budget["any"] - 1 \in Nat /\ budget[kind] - 1 \in Nat
  BY DEF TypeBudget, Disrupt, Disruptions
<1>2. QED
  BY <1>1 DEF TypeBudget, Disrupt

(* An operator that has just started. *)
LEMMA TypeInit == Init => TypeOK /\ PassHasWorkspace
<1> SUFFICES ASSUME Init PROVE TypeOK /\ PassHasWorkspace
  OBVIOUS
<1>1. configWatch \in Seq(Configs) /\ secretWatch \in Seq(Secrets)
  BY DEF Init
<1>2. TypeInputs
  BY <1>1, InitialAssumption DEF Init, TypeInputs, Configs
<1>3. TypeWorkspaces /\ TypeObjects /\ TypePass /\ TypeBudget
  BY BudgetAssumption DEF Init, TypeWorkspaces, TypeObjects, TypePass, TypeBudget, Nothing
<1>4. QED
  BY <1>2, <1>3, TypeParts

(* Every step keeps every variable in its type, and the Workspace of a pass in the
   cache. *)
LEMMA TypeStep == TypeOK /\ PassHasWorkspace /\ [Next]_vars => TypeOK' /\ PassHasWorkspace'
<1> DEFINE Typed == TypeInputs' /\ TypeWorkspaces' /\ TypeObjects' /\ TypePass' /\ TypeBudget'
<1> SUFFICES ASSUME TypeInputs, TypeWorkspaces, TypeObjects, TypePass, TypeBudget, [Next]_vars
             PROVE  Typed
  BY DEF TypeOK, PassHasWorkspace, TypeInputs, TypeWorkspaces, TypeObjects, TypePass, TypeBudget
<1> USE DEF inputs, objects
<1>a. UNCHANGED inputs => TypeInputs'
  BY DEF TypeInputs
<1>b. UNCHANGED <<ws, wsCache, queue, lost>> => TypeWorkspaces'
  BY DEF TypeWorkspaces
<1>c. UNCHANGED <<objects, ready>> => TypeObjects'
  BY DEF TypeObjects
<1>d. UNCHANGED <<wsCache, pc, w, url>> => TypePass'
  BY DEF TypePass
<1>e. UNCHANGED budget => TypeBudget'
  BY DEF TypeBudget
<1>f. pc # "idle" => w \in Workspaces /\ w \in wsCache
  BY DEF TypePass, TypeWorkspaces
<1> HIDE DEF Typed
<1>1. ASSUME NEW a \in Workspaces, Reconcile(a) PROVE Typed
  <2>1. TypeWorkspaces' /\ TypePass'
    BY <1>1 DEF Reconcile, TypeWorkspaces, TypePass
  <2>2. QED
    BY <1>1, <2>1, <1>a, <1>c, <1>e DEF Reconcile, Typed
<1>2. CASE ReconcileNamespace
  <2>1. TypeObjects' /\ TypePass'
    BY <1>2, <1>f DEF ReconcileNamespace, Annotate, Goto, TypeObjects, TypePass
  <2>2. QED
    BY <1>2, <2>1, <1>a, <1>b, <1>e DEF ReconcileNamespace, Goto, Typed
<1>2a. CASE NamespaceConflict
  <2>1. TypeObjects' /\ TypePass'
    BY <1>2a, <1>f DEF NamespaceConflict, Report, TypeObjects, TypePass
  <2>2. QED
    BY <1>2a, <2>1, <1>a, <1>b, <1>e DEF NamespaceConflict, Typed
<1>3. ASSUME NEW reason \in {"Unknown", "True", "Error", "Conflict"}, Fail(reason), pc # "idle",
             UNCHANGED <<ws, wsCache, lost, namespace, annotation, pull, helm>>,
             robots' \subseteq {Registry[h] : h \in Hosts} \X Workspaces
      PROVE  TypeWorkspaces' /\ TypeObjects' /\ TypePass'
  BY <1>3, <1>f DEF Fail, Report, TypeWorkspaces, TypeObjects, TypePass
<1>4. CASE OperatorHarborCredentials
  <2>1. CASE secretCache \in URLs /\ url' = secretCache /\ Goto("harbor") /\ UNCHANGED ready
    <3>1. TypePass'
      BY <1>4, <2>1, <1>f, NoneAssumption DEF OperatorHarborCredentials, Goto, TypePass
    <3>2. QED
      BY <1>4, <2>1, <3>1, <1>a, <1>b, <1>c, <1>e DEF OperatorHarborCredentials, Goto, Typed
  <2>2. CASE Fail("Error")
    <3>1. TypeWorkspaces' /\ TypeObjects' /\ TypePass'
      BY <1>3, <1>4, <2>2 DEF OperatorHarborCredentials, TypeObjects
    <3>2. QED
      BY <1>4, <3>1, <1>a, <1>e DEF OperatorHarborCredentials, Typed
  <2>3. QED
    BY <1>4, <2>1, <2>2 DEF OperatorHarborCredentials
<1>5. ASSUME pc \in {"harbor", "helm"}
      PROVE  /\ url \in URLs /\ url.host \in Hosts /\ url.tls \in BOOLEAN
             /\ Robot \in {Registry[h] : h \in Hosts} \X Workspaces
             /\ buildHelmRepositoryURL(url) \in [repo : Hosts, insecure : BOOLEAN]
  BY <1>5, <1>f DEF TypePass, URLs, Robot, buildHelmRepositoryURL
<1>6. CASE ReconcileHarbor
  <2>1. TypeObjects'
    BY <1>5, <1>6, <1>f DEF ReconcileHarbor, TypeObjects
  <2>2. TypePass'
    BY <1>6 DEF ReconcileHarbor, Goto, TypePass
  <2>3. QED
    BY <1>6, <2>1, <2>2, <1>a, <1>b, <1>e DEF ReconcileHarbor, Goto, Typed
<1>7. CASE ReconcileHelmRepository
  <2>1. TypeObjects'
    BY <1>5, <1>7, <1>f DEF ReconcileHelmRepository, TypeObjects
  <2>2. TypePass'
    BY <1>7 DEF ReconcileHelmRepository, Goto, TypePass
  <2>3. QED
    BY <1>7, <2>1, <2>2, <1>a, <1>b, <1>e DEF ReconcileHelmRepository, Goto, Typed
<1>8. CASE FinishPass
  <2>1. TypeObjects' /\ TypePass'
    BY <1>8, <1>f DEF FinishPass, Report, TypeObjects, TypePass
  <2>2. QED
    BY <1>8, <2>1, <1>a, <1>b, <1>e DEF FinishPass, Report, Typed
<1>9. CASE CallFails
  <2>1. robots' \subseteq {Registry[h] : h \in Hosts} \X Workspaces
    BY <1>5, <1>9 DEF CallFails, TypeObjects
  <2>2. ready[w] \in {"Unknown", "True", "Error", "Conflict"}
    BY <1>9, <1>f DEF CallFails, TypeObjects
  <2>3. TypeWorkspaces' /\ TypeObjects' /\ TypePass'
    BY <1>3, <1>9, <2>1, <2>2 DEF CallFails
  <2>4. QED
    BY <1>9, <2>3, <1>a, DisruptType DEF CallFails, Typed, Disruptions
<1>10. CASE Crash
  <2>1. TypeInputs'
    BY <1>10 DEF Crash, TypeInputs
  <2>2. TypeWorkspaces' /\ TypePass'
    BY <1>10 DEF Crash, TypeWorkspaces, TypePass
  <2>3. QED
    BY <1>10, <2>1, <2>2, <1>c, DisruptType DEF Crash, Typed, Disruptions
<1>11. CASE DeliverWorkspace
  <2>1. TypeWorkspaces' /\ TypePass'
    BY <1>11 DEF DeliverWorkspace, TypeWorkspaces, TypePass
  <2>2. QED
    BY <1>11, <2>1, <1>a, <1>c, <1>e DEF DeliverWorkspace, Typed
<1>12. ASSUME NEW old, NEW new, FanOut(old, new), UNCHANGED <<ws, wsCache>>
       PROVE  TypeWorkspaces' /\ TypeBudget'
  <2>1. TypeWorkspaces'
    BY <1>12 DEF FanOut, TypeWorkspaces
  <2>2. TypeBudget'
    BY <1>12, <1>e, DisruptType DEF FanOut, Disruptions
  <2>3. QED
    BY <2>1, <2>2
<1>13. CASE DeliverConfig
  <2>1. Head(configWatch) \in Configs /\ Tail(configWatch) \in Seq(Configs)
    BY <1>13, HeadTailProperties DEF DeliverConfig, TypeInputs
  <2>2. TypeInputs'
    BY <1>13, <2>1 DEF DeliverConfig, TypeInputs
  <2>3. QED
    BY <1>12, <1>13, <2>2, <1>c, <1>d DEF DeliverConfig, Typed
<1>14. CASE DeliverSecret
  <2>1. Head(secretWatch) \in Secrets /\ Tail(secretWatch) \in Seq(Secrets)
    BY <1>14, HeadTailProperties DEF DeliverSecret, TypeInputs
  <2>2. TypeInputs'
    BY <1>14, <2>1 DEF DeliverSecret, TypeInputs
  <2>3. QED
    BY <1>12, <1>14, <2>2, <1>c, <1>d DEF DeliverSecret, Typed
<1>15. CASE WorkspaceCreated \/ \E a \in Workspaces : Resync(a)
  <2>1. TypeWorkspaces'
    BY <1>15 DEF WorkspaceCreated, Resync, TypeWorkspaces
  <2>2. QED
    BY <1>15, <2>1, <1>a, <1>c, <1>d, <1>e DEF WorkspaceCreated, Resync, Typed
<1>16. CASE ConfigChanged \/ SecretChanged
  <2>1. TypeInputs'
    <3>1. ASSUME ConfigChanged PROVE config' \in Configs /\ configWatch' \in Seq(Configs)
      BY <3>1, LatestAppend DEF ConfigChanged, TypeInputs
    <3>2. ASSUME SecretChanged PROVE secret' \in Secrets /\ secretWatch' \in Seq(Secrets)
      BY <3>2, LatestAppend DEF SecretChanged, TypeInputs
    <3>3. QED
      BY <1>16, <3>1, <3>2 DEF ConfigChanged, SecretChanged, TypeInputs
  <2>2. TypeBudget'
    BY <1>16, DisruptType DEF ConfigChanged, SecretChanged, Disruptions
  <2>3. QED
    BY <1>16, <2>1, <2>2, <1>b, <1>c, <1>d DEF ConfigChanged, SecretChanged, Typed
<1>16a. ASSUME NEW a \in Workspaces, NamespaceFreed(a) PROVE Typed
  <2>1. TypeObjects'
    BY <1>16a DEF NamespaceFreed, TypeObjects
  <2>2. QED
    BY <1>16a, <2>1, <1>a, <1>b, <1>d, <1>e DEF NamespaceFreed, Typed
<1>17. CASE UNCHANGED vars
  BY <1>17, <1>a, <1>b, <1>c, <1>d, <1>e DEF vars, Typed
<1>18. QED
  BY <1>1, <1>2, <1>2a, <1>4, <1>6, <1>7, <1>8, <1>9, <1>10, <1>11, <1>13, <1>14, <1>15, <1>16,
     <1>16a, <1>17
  DEF Next, Worker, Informers, Environment

(* Type correctness: in particular a pass that has come past the credentials has a
   complete Secret's URL, whatever happened to the Secret meanwhile. *)
THEOREM TypeCorrect == Spec => []TypeOK
  BY TypeInit, TypeStep, PTL DEF Spec
-----------------------------------------------------------------------------
(***************************************************************************)
(* At rest every Workspace follows the inputs.                             *)
(***************************************************************************)

(* The events keep the caches up to date. *)
LEMMA CachesStep ==
    ASSUME TypeInputs, CachesTrack, [Next]_vars
    PROVE  CachesTrack'
<1> USE DEF inputs, objects
<1>1. ASSUME UNCHANGED <<config, configWatch, configCache>>
      PROVE  Latest(configWatch', configCache') = config'
  BY <1>1 DEF CachesTrack
<1>2. ASSUME UNCHANGED <<secret, secretWatch, secretCache>>
      PROVE  Latest(secretWatch', secretCache') = secret'
  BY <1>2 DEF CachesTrack
<1>3. CASE ConfigChanged
  <2>1. PICK new \in Configs : config' = new /\ configWatch' = Append(configWatch, new)
    BY <1>3 DEF ConfigChanged
  <2>2. Latest(configWatch', configCache') = config'
    BY <2>1, LatestAppend DEF TypeInputs
  <2>3. QED
    BY <1>2, <1>3, <2>2 DEF ConfigChanged, CachesTrack
<1>4. CASE SecretChanged
  <2>1. PICK new \in Secrets : secret' = new /\ secretWatch' = Append(secretWatch, new)
    BY <1>4 DEF SecretChanged
  <2>2. Latest(secretWatch', secretCache') = secret'
    BY <2>1, LatestAppend DEF TypeInputs
  <2>3. QED
    BY <1>1, <1>4, <2>2 DEF SecretChanged, CachesTrack
<1>5. CASE DeliverConfig
  <2>1. Latest(configWatch', configCache') = config'
    BY <1>5, LatestTail DEF DeliverConfig, TypeInputs, CachesTrack
  <2>2. QED
    BY <1>2, <1>5, <2>1 DEF DeliverConfig, CachesTrack
<1>6. CASE DeliverSecret
  <2>1. Latest(secretWatch', secretCache') = secret'
    BY <1>6, LatestTail DEF DeliverSecret, TypeInputs, CachesTrack
  <2>2. QED
    BY <1>1, <1>6, <2>1 DEF DeliverSecret, CachesTrack
<1>7. CASE Crash
  BY <1>7 DEF Crash, CachesTrack, Latest
<1>8. Worker \/ DeliverWorkspace \/ CallFails \/ WorkspaceCreated \/ UNCHANGED vars
      \/ (\E a \in Workspaces : Resync(a) \/ NamespaceFreed(a)) => UNCHANGED inputs
  BY DEF Worker, Reconcile, ReconcileNamespace, NamespaceConflict, OperatorHarborCredentials,
         ReconcileHarbor, ReconcileHelmRepository, FinishPass, DeliverWorkspace, CallFails,
         WorkspaceCreated, Resync, NamespaceFreed, vars
<1>9. QED
  BY <1>1, <1>2, <1>3, <1>4, <1>5, <1>6, <1>7, <1>8 DEF Next, Informers, Environment, CachesTrack

(* Every step leaves a Workspace as the cached inputs want it, or a pass to come
   for it, or it has been left out. *)
LEMMA ServedStep ==
    ASSUME TypeOK, PassHasWorkspace, PassCurrent, Served, [Next]_vars
    PROVE  PassCurrent' /\ Served'
<1> DEFINE Kept == PassCurrent' /\ Served'
<1> USE NoneAssumption DEF inputs, objects
<1>0. /\ wsCache \subseteq Workspaces /\ (pc # "idle" => w \in Workspaces)
      /\ pull \in [Workspaces -> URLs \cup {None}] /\ queue \subseteq wsCache
      /\ annotation \in [Workspaces -> Projects \cup {None}]
      /\ helm \in [Workspaces -> [repo : Hosts, insecure : BOOLEAN] \cup {None}]
      /\ ready \in [Workspaces -> {"Unknown", "True", "Error", "Conflict"}]
  BY DEF TypeOK, PassHasWorkspace
<1>1. ASSUME UNCHANGED <<configCache, secretCache, annotation, pull, helm, ready, wsCache, pc, w, url>>,
             queue \subseteq queue', lost \subseteq lost'
      PROVE  Kept
  <2>1. Progress' = Progress /\ \A a \in wsCache : AsCached(a)' = AsCached(a)
    BY <1>1 DEF Progress, AsCached, Annotated, buildHelmRepositoryURL
  <2>2. QED
    BY <1>1, <2>1 DEF PassCurrent, Served
<1>2. ASSUME UNCHANGED <<wsCache, pc, w>>, wsCache \subseteq queue' \cup lost' PROVE Kept
  BY <1>2 DEF PassCurrent, Served, PassHasWorkspace
<1>3. ASSUME NEW a \in Workspaces, Reconcile(a) PROVE Kept
  <2>1. \A b \in wsCache : AsCached(b)' = AsCached(b)
    BY <1>3 DEF Reconcile, AsCached, Annotated, buildHelmRepositoryURL
  <2>2. Served'
    BY <1>3, <2>1 DEF Reconcile, Served
  <2>3. PassCurrent'
    BY <1>3 DEF Reconcile, PassCurrent, Progress
  <2>4. QED
    BY <2>2, <2>3
<1>4. ASSUME pc # "idle", pc' # "idle", Goto(pc'),
             UNCHANGED <<configCache, secretCache, wsCache, ready, lost>>,
             \A a \in Workspaces \ {w} : /\ annotation'[a] = annotation[a] /\ pull'[a] = pull[a]
                                         /\ helm'[a] = helm[a]
      PROVE  Served'
  <2>1. \A a \in wsCache \ {w} : AsCached(a)' = AsCached(a) /\ ready'[a] = ready[a]
    BY <1>0, <1>4 DEF AsCached, Annotated, buildHelmRepositoryURL
  <2>2. QED
    BY <1>4, <2>1 DEF Served, Goto
<1>5. CASE ReconcileNamespace
  <2>1. Served'
    BY <1>0, <1>4, <1>5 DEF ReconcileNamespace, Goto, Annotate
  <2>2. Annotated(w)'
    BY <1>0, <1>5 DEF ReconcileNamespace, Goto, Annotate, Annotated
  <2>3. QED
    BY <1>5, <2>1, <2>2 DEF ReconcileNamespace, Goto, PassCurrent, Progress
<1>5a. CASE NamespaceConflict
  <2>1. \A a \in wsCache \ {w} : AsCached(a)' = AsCached(a) /\ ready'[a] = ready[a]
    BY <1>0, <1>5a DEF NamespaceConflict, Report, AsCached, Annotated, buildHelmRepositoryURL
  <2>2. ready'[w] = "Conflict"
    BY <1>0, <1>5a DEF NamespaceConflict, Report
  <2>3. QED
    BY <1>5a, <2>1, <2>2 DEF NamespaceConflict, Report, PassCurrent, Served
<1>6. ASSUME NEW reason, Fail(reason), pc # "idle", UNCHANGED <<inputs, wsCache, annotation, pull, helm, lost>>
      PROVE  Kept
  <2>1. \A a \in wsCache \ {w} : AsCached(a)' = AsCached(a) /\ ready'[a] = ready[a]
    BY <1>0, <1>6 DEF Fail, Report, AsCached, Annotated, buildHelmRepositoryURL
  <2>2. QED
    BY <1>6, <2>1 DEF Fail, Report, PassCurrent, Served
<1>7. CASE OperatorHarborCredentials
  <2>1. CASE secretCache \in URLs /\ url' = secretCache /\ Goto("harbor") /\ UNCHANGED ready
    <3>1. Served'
      BY <1>4, <1>7, <2>1 DEF OperatorHarborCredentials, Goto
    <3>2. Annotated(w)' = Annotated(w)
      BY <1>7, <2>1 DEF OperatorHarborCredentials, Annotated, Goto
    <3>3. QED
      BY <1>7, <2>1, <3>1, <3>2 DEF OperatorHarborCredentials, Goto, PassCurrent, Progress
  <2>2. CASE Fail("Error")
    BY <1>6, <1>7, <2>2 DEF OperatorHarborCredentials
  <2>3. QED
    BY <1>7, <2>1, <2>2 DEF OperatorHarborCredentials
<1>8. CASE ReconcileHarbor
  <2>1. Served'
    BY <1>0, <1>4, <1>8 DEF ReconcileHarbor, Goto
  <2>2. Annotated(w)' = Annotated(w)
    BY <1>8 DEF ReconcileHarbor, Annotated, Goto
  <2>3. url # None /\ pull'[w] # None
    BY <1>0, <1>8 DEF ReconcileHarbor, TypeOK
  <2>4. QED
    BY <1>8, <2>1, <2>2, <2>3 DEF ReconcileHarbor, Goto, PassCurrent, Progress
<1>9. CASE ReconcileHelmRepository
  <2>1. Served'
    BY <1>0, <1>4, <1>9 DEF ReconcileHelmRepository, Goto
  <2>2. Annotated(w)' = Annotated(w)
    BY <1>9 DEF ReconcileHelmRepository, Annotated, Goto
  <2>3. helm'[w] = buildHelmRepositoryURL(url)
    BY <1>0, <1>9 DEF ReconcileHelmRepository
  <2>4. QED
    BY <1>9, <2>1, <2>2, <2>3
    DEF ReconcileHelmRepository, Goto, PassCurrent, Progress, buildHelmRepositoryURL
<1>10. CASE FinishPass
  <2>1. \A a \in wsCache \ {w} : AsCached(a)' = AsCached(a) /\ ready'[a] = ready[a]
    BY <1>0, <1>10 DEF FinishPass, Report, AsCached, Annotated, buildHelmRepositoryURL
  <2>2. url \in URLs /\ (w \in queue \cup lost \/ Progress)
    BY <1>10 DEF FinishPass, TypeOK, PassCurrent
  <2>3. ASSUME NEW a \in wsCache, a = w, Progress PROVE AsCached(a)'
    BY <1>0, <1>10, <2>2, <2>3
    DEF FinishPass, Report, Progress, AsCached, Annotated, buildHelmRepositoryURL
  <2>4. QED
    BY <1>10, <2>1, <2>2, <2>3 DEF FinishPass, Report, PassCurrent, Served
<1>11. CASE CallFails
  BY <1>6, <1>11 DEF CallFails
<1>12. CASE Crash
  BY <1>12 DEF Crash, PassCurrent, Served
<1>13. CASE DeliverWorkspace
  <2>1. PICK a \in ws \ wsCache : wsCache' = wsCache \cup {a} /\ queue' = queue \cup {a}
    BY <1>13 DEF DeliverWorkspace
  <2>2. Progress' = Progress /\ \A b \in wsCache : AsCached(b)' = AsCached(b)
    BY <1>13 DEF DeliverWorkspace, Progress, AsCached, Annotated, buildHelmRepositoryURL
  <2>3. QED
    BY <1>13, <2>1, <2>2 DEF DeliverWorkspace, PassCurrent, Served
<1>14. CASE DeliverConfig
  <2>1. CASE Passes(configCache, Head(configWatch))
    BY <1>2, <1>14, <2>1 DEF DeliverConfig, FanOut
  <2>2. CASE ~Passes(configCache, Head(configWatch))
    BY <1>1, <1>14, <2>2 DEF DeliverConfig, FanOut, Passes
  <2>3. QED
    BY <2>1, <2>2
<1>15. CASE DeliverSecret
  <2>1. CASE Passes(secretCache, Head(secretWatch))
    BY <1>2, <1>15, <2>1 DEF DeliverSecret, FanOut
  <2>2. CASE ~Passes(secretCache, Head(secretWatch))
    BY <1>1, <1>15, <2>2 DEF DeliverSecret, FanOut, Passes
  <2>3. QED
    BY <2>1, <2>2
<1>16. CASE WorkspaceCreated \/ ConfigChanged \/ SecretChanged
               \/ \E a \in Workspaces : Resync(a) \/ NamespaceFreed(a)
  BY <1>1, <1>16 DEF WorkspaceCreated, ConfigChanged, SecretChanged, Resync,
                      NamespaceFreed
<1>17. CASE UNCHANGED vars
  BY <1>1, <1>17 DEF vars
<1>18. QED
  BY <1>3, <1>5, <1>5a, <1>7, <1>8, <1>9, <1>10, <1>11, <1>12, <1>13, <1>14, <1>15, <1>16, <1>17
  DEF Next, Worker, Informers, Environment

(* At rest every Workspace that no failed fan-out has left out follows the
   ConfigMap and the Secret as they are or reports a namespace conflict, and without usable credentials there is
   no rest: for any changes, in particular those in the middle of a pass. *)
THEOREM CurrentAtRest == Spec => []SettledCurrent
<1>1. Init => InputsInv
  <2>1. Init => CachesTrack /\ PassCurrent /\ Served
    BY DEF Init, CachesTrack, Latest, PassCurrent, Served
  <2>2. QED
    BY <2>1, TypeInit DEF InputsInv
<1>2. InputsInv /\ [Next]_vars => InputsInv'
  BY TypeStep, TypeParts, CachesStep, ServedStep DEF InputsInv
<1>3. InputsInv => SettledCurrent
  <2>1. SUFFICES ASSUME InputsInv, Settled, NEW a \in ws \ lost
                 PROVE  (Current(a) /\ ready[a] = "True") \/ ready[a] = "Conflict"
    BY DEF SettledCurrent
  <2>2. configCache = config /\ secretCache = secret
    BY <2>1 DEF InputsInv, CachesTrack, Latest, Settled
  <2>3. AsCached(a) \/ ready[a] = "Conflict"
    BY <2>1 DEF InputsInv, Served, Settled
  <2>4. QED
    BY <2>2, <2>3 DEF AsCached, Annotated, Current
<1>4. QED
  BY <1>1, <1>2, <1>3, PTL DEF Spec
=============================================================================
