# Verification of the tenant operator

The tenant operator turns a cluster-scoped `Workspace` into a namespace with
RBAC, quotas, network isolation, a Flux Helm source and a private Harbor
registry project. This directory holds TLA+ models of its reconcile logic, the
TLC runs that check them and TLAPS proofs about them. `PROJECT.json` lists the
components, runs, findings, hazards, theorems and, under `map`, the source lines
behind every definition.

## Inventory

| Component | State | Operations | What makes it correct |
|---|---|---|---|
| Reconcile loop (`internal/controller`) | work queue, informer caches, the Workspace's status | `Reconcile`, `reconcileResources`, `handleReconcileError`, `updateStatus`, watches and predicates | nothing is left undone when the queue is empty; the status is true |
| Registry credentials (`internal/workspace/harbor.go`, robots in `internal/harbor`) | Harbor robot, image pull Secret, default ServiceAccount | `EnsureRobot`, `RefreshRobotSecret`, `reconcileImagePullSecret`, `ensureImagePullSecret` | a published credential works; a lost one is replaced |
| Project members (`internal/harbor`) | members and roles of the Harbor project | `ReconcileProjectMembers` and its three calls | members and roles equal the spec, or the missing ones are reported |
| Child resources (`rbac`, `service_account`, `resource_constraints`, `network_isolation`, `helm_repository`) | one object per kind | create-or-update, delete when not wanted | they equal what the spec asks for, whoever else writes them; the RoleBindings give the listed rights and no others |
| Namespace ownership (`namespace.go`) | owner reference, identity labels | `ReconcileNamespace`, `ValidateNamespaceAvailable` | no foreign namespace is taken over; a restored one is adopted |
| Admission (`internal/webhook`, `authorization.go`) | none of its own (uncached reads) | `Default`, `ValidateCreate/Update/Delete` | one workspace per namespace; only admins of the old spec modify; labels follow members |
| Operator-wide inputs (`config.go`, credentials Secret) | a ConfigMap and a Secret | predicates, fan-out to all workspaces | a change reaches the annotation and the HelmRepository of every workspace (the host in the pull Secret stays behind, see Known limits) |
| API types, labels, start-up | declarations, constants, wiring | | |

How they interact. One worker takes workspace names from the queue and runs the
pass: namespace, Harbor (project, members, robot, Secret, default
ServiceAccount), Helm sources, RoleBindings, ServiceAccount, quota, limits,
network policy, status. The first error ends the pass. All Kubernetes reads go to
informer caches, all writes to the API server; events of owned objects and
generation changes of the Workspace put the name back in the queue. Harbor is
called over HTTP with a 30-second timeout and offers no events. Admission runs
in the same process but on requests of any client, the operator included.

What is hard: reads that are older than the operator's own writes; credentials
that are revealed once and lost by any failure before they are stored; Harbor
requests that are served after they timed out; passes that are cut short and
must be resumed by exactly one of retry, event or timer; other writers between a
read and a write; status patches computed against an old copy; requests that are
in admission at the same time; Workspaces that are deleted and created again
while garbage collection is under way; a fan-out over all Workspaces that fails;
a Harbor that nobody watches. `PROJECT.json` lists the hazards at their lines.

## Modules

Each module has one workspace's, or one component's, state in full and treats
the rest of the pass as a step that may fail. `MC...` modules give the constants
their values, `...Proofs` modules hold the theorems, `WatchLemmas` the facts about
a cache and its undelivered events that they share.

`RobotCredentials`: the registry credentials of one workspace.

- Harbor is `robot` (ids stand for the secret revealed at creation) with
  `lateCreates` and `lateDeletes`, the requests the client gave up on. A lost
  request is one that is never served, a lost answer one that is served at once.
- The Secret is the robot it was written from; `watch` is the sequence of its
  undelivered events, `cache` what the informer knows. Versions are not counted:
  a copy is `current` until the next write. The default ServiceAccount is
  `absent`, `bare` (Kubernetes made it) or `linked`.
- One action per call of the pass: `EnsureRobot`, `createRobot`,
  `imagePullSecretMissing`, `FindRobotToRefresh` and `deleteRobot` (the parts of
  `RefreshRobotSecret`), `GetSecret` and `reconcileImagePullSecret`,
  `GetServiceAccount` and `ensureImagePullSecret` (the two halves of each
  `CreateOrUpdate`). What precedes `EnsureRobot` (`Prepare`) and follows the
  ServiceAccount (`Finish`) is one step each, which can fail.

`PullCredential` is what that component promises to pods: credentials are
issued and revoked only while none are published, and only those honoured are
published. `RobotCredentials` implements it with the robot as what is honoured
and the Secret as what is published (`PromiseKept`).

`WorkspaceController`: the loop around one Workspace.

- `ws` is the Workspace: generation, namespace label, status. The status is a
  function over its fields, so that `Merge` can be the merge patch the operator
  sends: it changes the fields that differ from the copy the pass started from.
- `child` maps each kind to its content; `Wants[g]` is what generation `g` asks
  for. `DeleteChild`, `GetChild` and `PutChild` follow the one pattern of the
  child reconcilers (delete if not wanted, else `CreateOrUpdate`); their contents
  are opaque. Kinds in `Observed` (pull Secret, HelmRepository) get their status
  reference from a read, the others from the spec.
- The namespace is foreign or not, Harbor fails or reports missing members:
  only how these parts of the pass end matters here.
- `Retry`, `Return(after)`: the three results controller-runtime knows (error,
  RequeueAfter, nothing). `DeliverWorkspace` applies GenerationChangedPredicate,
  `DeliverChild` the owner mapping of `Owns`.

`NamespaceOwnership`: several Workspaces that want Namespaces.

- A create goes through `Default`, `ValidateNamespaceUniqueness`,
  `ValidateNamespaceAvailable` and the authorization in separate steps, because
  each is a read of its own; `MaxInFlight` creates may be there at once.
- A Workspace has a UID, the pair of its name and a count, because an owner
  reference is compared by UID (`IsOwned`) and an event finds its Workspace by
  name (`EnqueueRequestForOwner`). A Namespace has an owner, the name on its
  labels, and where it came from, which no action reads.
- `GetNamespace` and `ReconcileNamespace` are the two halves of `CreateOrUpdate`;
  the second one creates, adopts, updates, refuses or runs into a write conflict.
- External: deletion with the dependents or leaving them (mark, release, remove),
  the garbage collector, termination, restores from backup, other clients.

`ProjectMembers`: the members of one Harbor project.

- One action per call: `projectExists`, `ListMembers` (one page), then
  `WriteHarbor`, whose possible requests (`Writes`) are those the loops of
  `ReconcileProjectMembers` make at that point. `i` is the position of the loop in
  the list (`Ahead` are the entries it has not come to), `existing` the lookup table
  the loops strike members off; `known` says whose id of the listing is still
  valid, since members are changed and removed by id.
- Harbor may fail a call, serve it without an answer (`Unanswered`) or serve it
  after the client's timeout (`TimesOut`, `LateServed`). An account appears at a
  user's first sign-in; other administrators change members or drop the project.

`MemberSync` is the promise: one version of the list at a time and never an
older one, one member at a time and only towards that version, and no stop before
the newest version is reached. `ReachesGoal` states that `ProjectMembers`
implements it, liveness included.

`OperatorInputs`: the operator's ConfigMap and Secret, and several Workspaces
that share one worker. `Passes` is `operatorInputPredicate`, `FanOut` is
`allWorkspaceRequests`, whose List can fail and then queues nobody. The pass
reads the ConfigMap when it reconciles the Namespace and the Secret after that, so
that the inputs may change in between; what it makes of them are the annotation,
the host in the image pull Secret and the HelmRepository. A Namespace may be
somebody else's from the start (`NamespaceConflict` ends the pass without a retry)
and be deleted later, which no event announces (`NamespaceFreed`).

`WorkspaceAccess`: requests of users for one Workspace, from `Default` over
`AuthorizeCreation`/`AuthorizeModification` (the local answer, then the review by
the cluster authorizer) to the API server's store, retry or refusal, and the pass
that turns the stored list into RoleBindings. Requests of all users overlap. A
deletion is a request for the empty list. The Namespace is absent, the
Workspace's own or somebody else's; it can be deleted or taken over at any moment,
also between the steps of a pass (`NamespaceChanges`). A pass that starts on
somebody else's Namespace reports the conflict and is not retried
(`NamespaceConflict`); one that is past that check goes on writing.

Outside the repository, and modelled from how the code uses it: informer
caches that may be behind but deliver every event in order, optimistic locking,
the work queue (one worker, deduplication, first in first out, retry after an
error), the periodic resync of informers, garbage collection, Harbor's answers.
Leader election keeps one operator active.

## Runs

| Run | Shows |
|---|---|
| `robot_fresh` | with up-to-date reads a published credential stays valid, `PullCredential` is implemented, and the workspace ends up able to pull, for ever |
| `robot_lagging` | stale reads and a removed robot: Secret and link still get there and stay |
| `robot_stale_read` (violation) | a stale read of the Secret rotates live credentials |
| `controller_fresh` | nothing undone and nothing untrue at rest, Ready=True never early, pending members are picked up without an event |
| `controller_lagging` | stale reads lose no work of a labelled Workspace: at rest it is done, or the status says that it failed. A label backfill without webhooks does leave the work undone until the next event: `BackfilledOnly` is that exception |
| `controller_backfill_denied` (violation) | the operator's webhook refuses the operator's update |
| `ownership` | no Namespace is taken over, claims clash only if admissions overlapped, and every Workspace ends up with its Namespace or reports a rival |
| `ownership_orphan` (violation) | a Workspace that is being deleted adopts the Namespace its deletion released |
| `members` | at rest Harbor has the members of the newest list; `MemberSync` is implemented |
| `members_paged` (violation) | with more members than a page holds, some are never removed or re-roled |
| `inputs` | every change of the inputs reaches the annotation and the HelmRepository of every Workspace, after a failed fan-out at the next resync; without usable credentials, or on somebody else's Namespace, a Workspace says so instead |
| `access` | nobody changes a Workspace without being entitled by the version that is replaced, labels follow the members, and the RoleBindings end up exact, except from a binding that cannot be put right onwards, or while the status reports somebody else's Namespace |

The namespace conflict (`workspace_controller.go:192-199`) ends a pass and is not
retried. `controller_*`, `ownership*`, `inputs` and `access` contain it, and their
properties at rest excuse a Workspace whose status reports it. `robot_*` and
`members*` do not: what they and their theorems say of a Workspace at rest holds
while its Namespace is its own.

Bounds. A budget caps every disruption, so that a run ends in a system that is
left alone; `"any"` caps them in all.

- `robot_*`: one of each kind, two Harbor failures and two deletions of the
  Secret in `robot_fresh`, so that a late request meets a second timed-out pass and
  the credentials are published three times. `Robots` needs one id more than can
  be referred to at once (robot, Secret, pass, late deletes): four never block a
  create, and rotations are not bounded.
- `controller_*`: three generations that set, remove and set a quota again;
  `controller_lagging` has one failed call and one crash, which together leave an
  old error on the status in place of a conflict (Known limits).
- `ownership`: one of four stories (`MCStories`). Two names compete for one
  Namespace with any two disruptions, or one is deleted and its Namespace kept;
  or one name is created twice, with any two disruptions, or with its Namespace
  deleted, restored and stripped of its owner. The two names are created in one
  order only, since they are interchangeable. One Namespace is enough for a clash.
- `members`: two users and any two disruptions; the second list re-roles a member
  it names twice and drops another. `members_paged` has three users and pages of two.
- `inputs`: two Workspaces, each with its Namespace free or taken at first, two
  hosts with and without TLS, any two changes or failures.
- `access`: two users, five member lists (one of which the CRD refuses), and
  three requests, or two and one disruption, or one and three. The Namespace is
  free or taken at first.

`MaxLag` is how many events a cache may be behind when it is read: 0 is an
up-to-date cache, 1 is enough for every stale-read behaviour found. Queues of
events need no bound of their own. No run uses symmetry, since most check
liveness. Deadlock is not checked where the system may rightly stop: at rest on a
foreign namespace or after a backfill (`controller_*`, `inputs`), and with all
creates or requests used up (`ownership*`, `access`).

Fairness. The worker, the informers, the timers and the garbage collector are
weakly fair: controller-runtime keeps a worker running, watches deliver, delayed
requeues fire. With several Workspaces `Reconcile(a)` is strongly fair: the work
queue is first in, first out, so a Workspace that fails again and again does not
keep another one waiting for ever. `ResyncSpec` adds that controller-runtime
replays what its informers hold (SyncPeriod, about ten hours by default), which is all that
repairs a change by another Harbor administrator, a late Harbor write or a failed
fan-out. Harbor's late requests, users and other clients owe nothing.

What some properties leave room for, because the code does: `SettledReconciled`
and `SettledExplained` excuse a Workspace that has only got its label (below), the
second also one whose status names any failure, `UniqueClaims` creates
that were in admission at the same time, `SettledMembers` members that others or
a late write changed after the last listing, `SettledCurrent` Workspaces left out
by a failed List, `EventuallyExact` the role of a RoleBinding that refers to
another one, and the roles after it in the pass,
`EventuallyOwned` a conflict over a Namespace that once was somebody else's.

## Findings

1. `harbor.go:173`: the Secret is looked up in the cache, so a retry may take the
   Secret written a moment before for missing and delete its robot. It ends with
   a dead credential in the Secret, and no later pass notices.
2. `workspace_controller.go:124`: the label update is an update of the Workspace
   and is refused by the validating webhook, which `authorization.go:71` assumes
   cannot happen.
3. `workspace_controller.go:112`: the deletion timestamp is not looked at. A
   Workspace deleted with its dependents to be kept adopts its Namespace again
   before it goes, and garbage collection then deletes the Namespace.
4. `client.go:145`: members are listed without paging; one beyond the first page
   is neither removed nor re-roled, and the pass succeeds.

## Known limits

Behaviours of the code that the models contain and that no run keeps as a
property of its own:

- `harbor.go:187-190`: when somebody removes the robot, the next pass makes a new
  one; if the update of the existing Secret then fails, for instance with a write
  conflict, the new credentials are lost and no later pass repairs the Secret. "The
  loop converges" holds for a missing Secret only. `PublishedCredentialIsLive`
  and `LiveTheorem` therefore assume that nobody removes the robot.
- `workspace_controller.go:509`: the status is compared with the cached one. A
  retry that starts from the status before a failure leaves Ready=False behind
  until another event or the resync. `SettledTruthful` needs up-to-date reads.
- `workspace_controller.go:251`: the patch that reports a failure is made against
  the cached Workspace too. A pass that sees its namespace conflict reported
  already patches nothing, although the status has been overwritten with a passing
  error since; the conflict is not retried, so "ReconcileError" stays. The work is
  not lost, only misnamed: `SettledExplained` holds for every lag,
  `SettledReconciled` needs up-to-date reads. The attempt to prove the second for
  every lag brought this out; TLC has the trace for a lag of one event, one failed
  call and one crash.
- `workspace_controller.go:127`: without webhooks the label update succeeds but
  does not queue the workspace, since the generation does not change. The comment
  there says "The update requeues this workspace"; a Workspace without children
  waits for an edit of its spec or a restart.
- `authorization.go:140`: two creates in admission at once may both claim a
  Namespace. One of them ends up with it, the other with a conflict.
- `namespace.go:138`: a conflict is judged on the cached Namespace, so it may
  be reported for one that is gone already. A conflict is not retried, so the
  report stays until an event of the Workspace, or the resync, queues it again.
- `harbor.go:187`: a new HARBOR_URL for the same registry reaches the
  HelmRepository but not the image pull Secret, which names the old host.
- `harbor.go:43-45`: Harbor is not optional, although `README.md:22` of the
  repository says so: without credentials every pass fails before RoleBindings,
  quotas and network isolation.
- `client.go:169`: of two entries for one subject the first one counts, and the
  member may have the other role for a moment.
- `rbac.go:73`: the role of a RoleBinding cannot be updated; one created by
  somebody else for another role fails every pass from there on: the roles after
  it are never reconciled, the ones before it are (`EventuallyExact`).
- `workspace_controller.go:192-199`: when the Namespace that was in the way is
  deleted, nothing queues the Workspace in conflict; it waits for an edit, a change
  of the operator's inputs or a restart.

One behaviour of other clients is left out of `WorkspaceAccess`: a RoleBinding
that somebody creates, without an owner reference, under the operator's name for a
role nobody has. It raises no event the operator maps to the Workspace, so the
binding is deleted by the next pass, whenever that comes, and not before.

## Proofs

Every safety invariant and action property that a passing run checks is also
proved, for every value of the constants that satisfies the ASSUMEs of its module.
These say of what kind a constant is, that `None` is not a value it stands beside,
and that there is at least one child kind and one generation; the theorems below
name what they assume beyond that. Budgets and lags are any numbers: the bounds of
the runs are not bounds of the theorems.

The invariants share one idea. A property "at rest" says that work is not
forgotten, so its invariant says where unfinished work is remembered: in the queue,
in a timer, in a pass that has not come that far, or in an event on its way. The
last needs that a cache and its events agree with the API server (`Latest` in
`WatchLemmas`, one lemma for a write and one for a delivery): a cache that is
wrong has an event coming that will queue the Workspace.

`RobotCredentialsProofs`, for every set of robots:

- `TypeCorrect`: the type invariant. It is not inductive alone: a timed-out
  delete is remembered by id, so `TargetFound` adds that the pass has found one.
- `SettledTheorem`: `SettledHasSecret`. The invariant `SettledInv` says where the
  remaining work is: a missing Secret implies a queued workspace, a pending event
  or a pass that has not written the Secret yet (`SecretPending`), and likewise
  for the link (`LinkPending`). The step past `imagePullSecretMissing` needs
  `CacheTracks`.
- `LiveTheorem`: `PublishedCredentialIsLive`, assuming `MaxLag = 0` and
  `Budget["loss"] = 0`; the run `robot_stale_read` shows that the first assumption
  is needed. The invariant `LiveInv` adds that a refresh is under way only while
  there is no Secret, that the credentials in hand belong to the robot, and that
  no late delete names either.
- `PromiseTheorem`: `PromiseKept`, under the same assumptions. `LiveInv` makes
  every step that changes robot or Secret a step of `PullCredential`
  (`PromiseStep`), all others stutter.

`WorkspaceControllerProofs`, for every list of kinds, sequence of generations and
set of observed kinds:

- `TypeCorrect`.
- `ExplainedAtRest`: `SettledExplained`, for every lag. `LagInv`: while the
  Workspace is not queued again, the copy of the pass has the generation of the
  cache (`CopyCurrent`), and each child the pass has been through is as that
  generation wants it or has an event on its way (`PassInPlace`). So a pass that
  ends without a retry leaves nothing undone that no event announces
  (`IdleExplained`). That a failure is still named after a patch against a stale
  copy needs that neither labels nor reasons ever go away (`VersionsEarlier`), and
  that no success is on the status while the namespace is foreign
  (`NamespaceFirst`).
- `ReadyIsDone`, `ReconciledAtRest`: `ReadyMeansDone` and `SettledReconciled`,
  assuming `MaxLag = 0`. `FreshInv` adds that the copy has the status of the API
  server, so a patch writes what was computed (`CopyFresh`, `FreshWorkspace`), that
  Ready is never ahead of the spec (`ReadyBounded`), and that the children the pass
  has been through are in place if nobody interferes (`PassDone`). Known limits
  says why the second theorem fails for stale reads.
- `TruthfulAtRest`: `SettledTruthful`, assuming `MaxLag = 0` and that the webhooks
  run (`Deployments \subseteq {TRUE}`), as in the run: without them a Workspace
  may rest with nothing but its label.

`NamespaceOwnershipProofs`, for all names, Namespaces and stories, every lag and
every number of creates in admission:

- `TypeCorrect`.
- `NeverTakenOver`: `NoTakeOver`. A copy that is still `fresh` is what the API
  server has (`FreshIsStored`), so the operator decides on the Namespace as it is;
  what every other client does is rightful by itself (`OthersRightful`).
- `ClaimsAreUnique`: `UniqueClaims`. Creates in admission at once are recorded as
  overlapping (`InFlightOverlap`), and one that is past the check of uniqueness
  clashes only with such a one (`CheckedUnique`).
- `OwnedAtRest`: `SettledOwned`. `Attended` says that a Workspace is coming, in a
  pass, has reported a conflict, or is named as owner by the cached Namespace or an
  event about it (`Mentions`), so that whatever ends its ownership queues it.

`ProjectMembersProofs`, for all users and sequences of lists:

- `TypeCorrect`. The ids the pass or a late write holds belong to members, which
  is why a change by id never makes a member of somebody without an account.
- `ImplementsSync`: `ProjectMembers` implements `MemberSync!Spec`, for every page
  size. A member still in the lookup has no entry the loop has passed
  (`LookupAhead`), so the entry that re-roles it is the one that counts, and one
  the loops leave over should not be a member.
- `MembersAtRest`: `SettledMembers`, assuming that there are finitely many users
  and that all of them fit on one page. The run `members_paged` shows that this is
  needed. `PassHandles` says of every user how far the pass is with it.

`OperatorInputsProofs`, for all Workspaces, hosts and projects:

- `TypeCorrect`.
- `CurrentAtRest`: `SettledCurrent`, reported conflicts excused. What a pass has done so far is right for the
  cached inputs, or its Workspace is queued again or left out by a failed List
  (`PassCurrent`), since every delivered change fans out.

`WorkspaceAccessProofs`, for all users, member lists and privileged users:

- `TypeCorrect`.
- `LabelsTheorem`: `LabelsMirrorMembers`, and `NoEscalationTheorem`:
  `NoEscalation`. Both rest on `AdmissionInv`: a request that is past `Default` has
  the labels of the list it asks for; one that is approved without a review comes
  from somebody entitled by the list it was judged by; and the list a `current`
  request was judged by is the one that is stored. The last part is what the race
  is about: `Store` outdates all other requests, and `Retry` sends one back through
  both webhooks.
- `AccessAtRest`: `SettledAccess`. The bindings of the roles a pass has been
  through are right for the cached list, or the pass will be repeated
  (`PassCurrent`); between passes they are right for it, or a pass is to come, or a
  conflict is on the status (`IdleRight`). Whoever deletes or takes over an owned
  Namespace or binding queues the Workspace.

Only model-checked, since liveness under fairness is out of the prover's reach:
`EventuallyUsable`, `EventuallyPublished`, `EventuallyTruthful`, `EventuallyOwned`,
`EventuallyCurrent`, `EventuallyExact`, and the fairness in `ReachesGoal`. The
four runs that expect a violation are counterexamples and have nothing to prove.

## Plan

1. `RobotCredentials`: without the assumption that nobody removes the robot, prove
   what still holds of a published credential between two removals.
2. `WorkspaceController`: what a stale read can at most do to `ReadyMeansDone`.

## Not modelled

Start-up (`cmd/main.go`) is flags, TLS and wiring; what matters of it is a
parameter (one worker, webhooks on or off). Generated deep copies have no
behaviour of their own. Quotas, limits and network rules are copied from the spec
and are opaque values here. The CRD's remaining CEL and pattern rules are
evaluated by the API server. Random suffixes and the length of generated
namespace names, events, logs and the wording of messages are left out.
