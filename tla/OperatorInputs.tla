--------------------------- MODULE OperatorInputs ---------------------------
(***************************************************************************)
(* The operator-wide inputs: the optional ConfigMap tenant-operator-config *)
(* with the Rancher project, and the Secret tenant-operator-secret with    *)
(* the registry's URL and credentials.  One worker serves several          *)
(* Workspaces; a change of either object queues all the Workspaces in the  *)
(* informer's cache.                                                       *)
(*                                                                         *)
(* A pass reads the ConfigMap for the namespace's annotation and, later,   *)
(* the Secret; the URL then goes into the image pull Secret, when robot    *)
(* credentials are at hand, and into the HelmRepository.  RobotCredentials *)
(* and WorkspaceController have the detail of these steps.  The Namespace  *)
(* may be somebody else's from the start, which the status reports and     *)
(* nothing retries; NamespaceOwnership has how one is lost later.  Events  *)
(* of the children, which only add passes, are left out but for the        *)
(* resync.                                                                 *)
(***************************************************************************)
EXTENDS Naturals, Sequences

CONSTANTS
    Workspaces,  \* names of Workspaces
    Projects,    \* ids of Rancher projects
    Hosts,       \* hosts in the registry's URL
    Registry,    \* the registry each host belongs to
    None,        \* no object, no value
    Incomplete,  \* a Secret that lacks a key
    Initial,     \* what the operator's Secret can be at first
    Budget       \* how often the environment does each thing

(***************************************************************************)
(* What the environment does: changes to the ConfigMap and to the Secret,  *)
(* calls of a pass that fail, lists of a fan-out that fail, crashes; "any" *)
(* bounds how many of these happen.                                        *)
(***************************************************************************)
Disruptions == {"config", "secret", "fail", "list", "crash", "any"}

(* The ConfigMap is absent, has no project or has one; the Secret is absent, lacks
   a key or has a URL. *)
URLs == [host : Hosts, tls : BOOLEAN]
Configs == {None, "empty"} \cup Projects
Secrets == {None, Incomplete} \cup URLs

ASSUME NoneAssumption ==
    None \notin Projects \cup URLs \cup {"empty", Incomplete} /\ Incomplete \notin URLs
ASSUME ProjectsAssumption == "empty" \notin Projects
ASSUME RegistryAssumption == DOMAIN Registry = Hosts
ASSUME InitialAssumption == Initial \subseteq Secrets
ASSUME BudgetAssumption == Budget \in [Disruptions -> Nat]

VARIABLES
    config,       \* API server: the ConfigMap
    configWatch,  \* ConfigMap events not yet delivered
    configCache,  \* informer: the ConfigMap
    secret,       \* API server: the operator's Secret
    secretWatch,  \* Secret events not yet delivered
    secretCache,  \* informer: the operator's Secret
    ws,           \* API server: the Workspaces there are
    wsCache,      \* informer: the Workspaces there are
    robots,       \* pairs of registry and Workspace: the robots there are
    namespace,    \* of every Workspace: whose its Namespace is
    annotation,   \* of every namespace: the Rancher project
    pull,         \* of every namespace: the URL in the image pull Secret
    helm,         \* of every namespace: the HelmRepository
    ready,        \* of every Workspace: the Ready condition
    queue,        \* Workspaces in the work queue
    lost,         \* Workspaces a failed fan-out has left out
    pc,           \* where the pass is
    w,            \* the Workspace of the pass
    url,          \* creds.URL
    budget        \* what the environment still does

inputs == <<config, configWatch, configCache, secret, secretWatch, secretCache>>
objects == <<robots, namespace, annotation, pull, helm>>
vars == <<inputs, ws, wsCache, objects, ready, queue, lost, pc, w, url, budget>>

(* What every variable holds. *)
TypeOK ==
    /\ config \in Configs /\ configCache \in Configs /\ configWatch \in Seq(Configs)
    /\ secret \in Secrets /\ secretCache \in Secrets /\ secretWatch \in Seq(Secrets)
    /\ ws \subseteq Workspaces /\ wsCache \subseteq ws /\ queue \subseteq wsCache
    /\ robots \subseteq {Registry[h] : h \in Hosts} \X Workspaces
    /\ namespace \in [Workspaces -> {"absent", "own", "foreign"}]
    /\ annotation \in [Workspaces -> Projects \cup {None}]
    /\ pull \in [Workspaces -> URLs \cup {None}]
    /\ helm \in [Workspaces -> [repo : Hosts, insecure : BOOLEAN] \cup {None}]
    /\ ready \in [Workspaces -> {"Unknown", "True", "Error", "Conflict"}]
    /\ lost \subseteq Workspaces
    /\ pc \in {"idle", "namespace", "secret", "harbor", "helm", "status"}
    /\ w \in wsCache \cup {None}
    /\ url \in URLs \cup {None} /\ (pc \in {"harbor", "helm", "status"} => url # None)
    /\ budget \in [Disruptions -> Nat]

Nothing == [a \in Workspaces |-> None]

(* An operator that has just started in a cluster without Workspaces. *)
Init ==
    /\ config \in {None, "empty"} /\ configCache = config /\ configWatch = <<>>
    /\ secret \in Initial /\ secretCache = secret /\ secretWatch = <<>>
    /\ ws = {} /\ wsCache = {} /\ robots = {}
    /\ namespace \in [Workspaces -> {"absent", "foreign"}]
    /\ annotation = Nothing /\ pull = Nothing /\ helm = Nothing
    /\ ready = [a \in Workspaces |-> "Unknown"]
    /\ queue = {} /\ lost = {} /\ pc = "idle" /\ w = None /\ url = None
    /\ budget = Budget

-----------------------------------------------------------------------------
Disrupt(kind) ==
    /\ budget[kind] > 0 /\ budget["any"] > 0
    /\ budget' = [budget EXCEPT ![kind] = @ - 1, !["any"] = @ - 1]

Goto(step) == pc' = step /\ UNCHANGED <<queue, w>>
Report(reason) ==
    /\ pc' = "idle" /\ w' = None /\ url' = None
    /\ ready' = [ready EXCEPT ![w] = reason]

(* The pass ends in an error, which the status shows unless that fails as well,
   and controller-runtime queues a retry. *)
Fail(reason) == Report(reason) /\ queue' = queue \cup {w}

-----------------------------------------------------------------------------
(***************************************************************************)
(* The reconcile pass.                                                     *)
(***************************************************************************)
Reconcile(a) ==
    /\ pc = "idle" /\ a \in queue
    /\ pc' = "namespace" /\ w' = a /\ queue' = queue \ {a} /\ lost' = lost \ {a}
    /\ UNCHANGED <<inputs, ws, wsCache, objects, ready, url, budget>>

(* ReconcileNamespace writes the project operatorConfigData returns, if any; an
   annotation that is there stays. *)
Annotate ==
    IF configCache \in Projects THEN [annotation EXCEPT ![w] = configCache] ELSE annotation

ReconcileNamespace ==
    /\ pc = "namespace" /\ namespace[w] # "foreign"
    /\ namespace' = [namespace EXCEPT ![w] = "own"]
    /\ annotation' = Annotate
    /\ Goto("secret")
    /\ UNCHANGED <<inputs, ws, wsCache, robots, pull, helm, ready, lost, url, budget>>

(* A Namespace of somebody else's is reported, and the pass is not retried. *)
NamespaceConflict ==
    /\ pc = "namespace" /\ namespace[w] = "foreign"
    /\ Report("Conflict")
    /\ UNCHANGED <<inputs, ws, wsCache, objects, queue, lost, budget>>

(* Mutant: a Secret short of a key is used as it is. *)
CredentialsUnchecked ==
    /\ pc = "secret"
    /\ \/ /\ secretCache # None
          /\ url' = IF secretCache \in URLs THEN secretCache ELSE None
          /\ Goto("harbor") /\ UNCHANGED ready
       \/ secretCache = None /\ Fail("Error")
    /\ UNCHANGED <<inputs, ws, wsCache, objects, lost, budget>>

(* Mutant: without credentials the pass skips Harbor and succeeds. *)
HarborSkipped ==
    /\ pc = "secret"
    /\ \/ secretCache \in URLs /\ url' = secretCache /\ Goto("harbor") /\ UNCHANGED ready
       \/ /\ secretCache \notin URLs
          /\ Report("True") /\ UNCHANGED queue
    /\ UNCHANGED <<inputs, ws, wsCache, objects, lost, budget>>

(* The credentials must be there and complete. *)
OperatorHarborCredentials ==
    /\ pc = "secret"
    /\ \/ secretCache \in URLs /\ url' = secretCache /\ Goto("harbor") /\ UNCHANGED ready
       \/ secretCache \notin URLs /\ Fail("Error")
    /\ UNCHANGED <<inputs, ws, wsCache, objects, lost, budget>>

(* ReconcileHarbor: robot credentials come from a new robot, or from a new secret
   for a robot whose image pull Secret is missing; only then is that Secret
   written. *)
Robot == <<Registry[url.host], w>>

ReconcileHarbor ==
    /\ pc = "harbor"
    /\ robots' = robots \cup {Robot}
    /\ pull' = IF Robot \notin robots \/ pull[w] = None THEN [pull EXCEPT ![w] = url] ELSE pull
    /\ Goto("helm")
    /\ UNCHANGED <<inputs, ws, wsCache, namespace, annotation, helm, ready, lost, url, budget>>

(* The HelmRepository points at the URL's host, insecurely without TLS. *)
buildHelmRepositoryURL(u) == [repo |-> u.host, insecure |-> ~u.tls]

ReconcileHelmRepository ==
    /\ pc = "helm"
    /\ helm' = [helm EXCEPT ![w] = buildHelmRepositoryURL(url)]
    /\ Goto("status")
    /\ UNCHANGED <<inputs, ws, wsCache, robots, namespace, annotation, pull, ready, lost, url, budget>>

(* The other children, and the status. *)
FinishPass ==
    /\ pc = "status"
    /\ Report("True")
    /\ UNCHANGED <<inputs, ws, wsCache, objects, queue, lost, budget>>

(* A call of the pass fails; a robot may be created all the same. *)
CallFails ==
    /\ pc # "idle" /\ Disrupt("fail")
    /\ Fail("Error") \/ Fail(ready[w])
    /\ IF pc = "harbor" THEN robots' \in {robots, robots \cup {Robot}} ELSE UNCHANGED robots
    /\ UNCHANGED <<inputs, ws, wsCache, namespace, annotation, pull, helm, lost>>

(* The operator restarts: it lists everything, and every Workspace is queued. *)
Crash ==
    /\ Disrupt("crash")
    /\ configCache' = config /\ configWatch' = <<>>
    /\ secretCache' = secret /\ secretWatch' = <<>>
    /\ wsCache' = ws /\ queue' = ws /\ lost' = {}
    /\ pc' = "idle" /\ w' = None /\ url' = None
    /\ UNCHANGED <<config, secret, ws, objects, ready>>

-----------------------------------------------------------------------------
(***************************************************************************)
(* The watches.                                                            *)
(***************************************************************************)

(* A new Workspace arrives in the cache and is queued. *)
DeliverWorkspace ==
    /\ \E a \in ws \ wsCache : wsCache' = wsCache \cup {a} /\ queue' = queue \cup {a}
    /\ UNCHANGED <<inputs, ws, objects, ready, lost, pc, w, url, budget>>

(* Mutant: only the creation of an input passes the filter. *)
OnlyCreates(old, new) == old = None

(* operatorInputPredicate: creations, deletions and changes of the data. *)
Passes(old, new) == old # new

(* allWorkspaceRequests: every Workspace in the cache, or none if the List fails. *)
FanOut(old, new) ==
    \/ /\ queue' = IF Passes(old, new) THEN queue \cup wsCache ELSE queue
       /\ UNCHANGED <<lost, budget>>
    \/ /\ Passes(old, new) /\ Disrupt("list")
       /\ lost' = lost \cup (wsCache \ queue) /\ UNCHANGED queue

DeliverConfig ==
    /\ configWatch # <<>>
    /\ configCache' = Head(configWatch) /\ configWatch' = Tail(configWatch)
    /\ FanOut(configCache, Head(configWatch))
    /\ UNCHANGED <<config, secret, secretWatch, secretCache, ws, wsCache, objects, ready, pc,
                   w, url>>

DeliverSecret ==
    /\ secretWatch # <<>>
    /\ secretCache' = Head(secretWatch) /\ secretWatch' = Tail(secretWatch)
    /\ FanOut(secretCache, Head(secretWatch))
    /\ UNCHANGED <<config, configWatch, configCache, secret, ws, wsCache, objects, ready, pc,
                   w, url>>

(* The informers replay the children of a Workspace, if it has any, every few
   hours. *)
Resync(a) ==
    /\ a \in wsCache \ queue /\ namespace[a] = "own" /\ queue' = queue \cup {a}
    /\ UNCHANGED <<inputs, ws, wsCache, objects, ready, lost, pc, w, url, budget>>

-----------------------------------------------------------------------------
(***************************************************************************)
(* The administrators.                                                     *)
(***************************************************************************)
WorkspaceCreated ==
    /\ \E a \in Workspaces \ ws : ws' = ws \cup {a}
    /\ UNCHANGED <<inputs, wsCache, objects, ready, queue, lost, pc, w, url, budget>>

(* Somebody deletes the Namespace that was in the way; no Workspace is told. *)
NamespaceFreed(a) ==
    /\ namespace[a] = "foreign" /\ namespace' = [namespace EXCEPT ![a] = "absent"]
    /\ UNCHANGED <<inputs, ws, wsCache, robots, annotation, pull, helm, ready, queue, lost, pc, w,
                   url, budget>>

ConfigChanged ==
    /\ Disrupt("config")
    /\ \E new \in Configs \ {config} : config' = new /\ configWatch' = Append(configWatch, new)
    /\ UNCHANGED <<configCache, secret, secretWatch, secretCache, ws, wsCache, objects, ready,
                   queue, lost, pc, w, url>>

SecretChanged ==
    /\ Disrupt("secret")
    /\ \E new \in Secrets \ {secret} : secret' = new /\ secretWatch' = Append(secretWatch, new)
    /\ UNCHANGED <<config, configWatch, configCache, secretCache, ws, wsCache, objects, ready,
                   queue, lost, pc, w, url>>

-----------------------------------------------------------------------------
Worker ==
    \/ \E a \in Workspaces : Reconcile(a)
    \/ ReconcileNamespace \/ NamespaceConflict \/ OperatorHarborCredentials
    \/ ReconcileHarbor \/ ReconcileHelmRepository \/ FinishPass

Informers == DeliverWorkspace \/ DeliverConfig \/ DeliverSecret

Environment ==
    \/ CallFails \/ Crash \/ WorkspaceCreated \/ ConfigChanged \/ SecretChanged
    \/ \E a \in Workspaces : Resync(a) \/ NamespaceFreed(a)

Next == Worker \/ Informers \/ Environment

Spec == Init /\ [][Next]_vars

(* The worker and the informers work, and the work queue, first in first out, lets
   no Workspace wait for ever behind others that are retried. *)
Fairness ==
    /\ WF_vars(Worker) /\ WF_vars(Informers)
    /\ \A a \in Workspaces : SF_vars(Reconcile(a))
FairSpec == Spec /\ Fairness

(* And, for what only it can repair, the resync comes round. *)
ResyncSpec == FairSpec /\ \A a \in Workspaces : WF_vars(Resync(a))

-----------------------------------------------------------------------------
(* Nothing is on its way to the operator, which has nothing to do. *)
Settled ==
    /\ pc = "idle" /\ queue = {}
    /\ wsCache = ws /\ configWatch = <<>> /\ secretWatch = <<>>

Current(a) ==
    /\ secret \in URLs /\ pull[a] # None /\ helm[a] = buildHelmRepositoryURL(secret)
    /\ config \in Projects => annotation[a] = config

(* At rest every Workspace has been through a pass with the inputs as they are,
   unless a fan-out failed or it reports that its Namespace is not its own, even
   if it was created, or in the middle of a pass, when they changed: the watches
   "fan a real change out across every Workspace".  Without usable credentials
   there is no rest. *)
SettledCurrent ==
    Settled => \A a \in ws \ lost : (Current(a) /\ ready[a] = "True") \/ ready[a] = "Conflict"

(* In the end every Workspace follows the inputs, or says that it cannot: "both a
   missing Secret and one short of a key are errors: reconcile reports Ready=False
   and retries, and the watch on the Secret picks the credentials up".  One in
   conflict says so until something queues it. *)
EventuallyCurrent ==
    <>[](\A a \in ws : \/ ready[a] = "Conflict"
                       \/ IF secret \in URLs THEN Current(a) /\ ready[a] = "True"
                          ELSE ready[a] = "Error")
=============================================================================
