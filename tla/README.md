# A TLA+ model of the OpenMetadata operator

The operator (`src/`) is a Kubernetes controller manager. It turns four kinds
of custom resources (CRs) into entities of an OpenMetadata server, keeps them
in line with the CRs' specs, and removes them when the CRs go. These modules
model what its reconciliations do to the two stores it works on, the Kubernetes
API and OpenMetadata, neither of which it can lock, and both of which change
under it.

## 1. The system

### Components

| Component | State it keeps | Operations | Correct when |
|---|---|---|---|
| One controller per kind (`internal/controller/*.go`) | none of its own; controller-runtime keeps the informer cache, the work queue and the delayed requeues | `Reconcile`: read the object from the cache; deleting → `HandleDeletion`; no finalizer → `EnsurePresent`; else `Handler.Reconcile` | no wake-up is lost; nothing is done for an object that is gone |
| Finalizer (`internal/finalizer`) | `metadata.finalizers` of the CR | `EnsurePresent`, `EnsureAbsent`, `IsPresent` | stored before the first write to OpenMetadata, released after the last |
| `ServiceHandler` | CR status (ID, observed generation, remote version, Ready) | `Reconcile`, `HandleDeletion`, `setConditionAndPersist` | "in sync" is true; every service it made is recorded or at least accounted for; cleanup finds what was made |
| `PipelineHandler` | the same, and `deployed` | the same, with a deployment and a re-read after the upsert | a failed deployment is repeated; the re-read takes nobody else's change for its own |
| `TestCaseHandler` | the same, and the test suite's ID | as for services, looked up by name | as for services |
| `EntityTagHandler` | the list of assignments in the status | search, `applyDiff`, `applyRename`, `HandleDeletion` | tags are where the search says, and no tag of the CR stays anywhere else |
| `omclient` | none | GET / PUT / POST / DELETE of entities, bulk tagging, paged search | 404 means absent; the search returns every match once |
| `secretresolver`, `auth`, `owner` | none | resolve `secretKeyRef`s, the connection's token, owner names | complete or an error |
| `service_registry`, `entitytag_index` | tables | service type → endpoint; entity type → search index | total on the types the CRD schema admits |
| `condition` | none | `SetReady` | - |
| `cmd/main.go` | none | registers the controllers, elects a leader | one worker per kind |

### How they interact

A watch event, an error, a delayed requeue or a restart puts the CR's name in
the queue. The worker takes it and reads the CR from the informer cache, which
may be behind the API server. It calls the finalizer or the handler. The handler
reads the connection, the token and the secrets, asks OpenMetadata for the
entity, decides, PUTs, and ends with one status update. Every write of the CR
is checked against the resourceVersion read (optimistic concurrency). No write
to OpenMetadata is: a PUT overwrites whatever is there by name, and a DELETE
goes by the ID the status records. The CR's status is the operator's only
memory.

### What is hard

* **Two stores, no transaction.** The PUT and the status write are separate;
  the second may be refused because a user edited or deleted the CR, the first
  may have had its effect although its answer was lost.
* **Stale reads.** The cache is behind the API server; the entity read for the
  comparison may change before the PUT.
* **Swallowed errors.** `setConditionAndPersist` drops the error of the status
  write; `EnsurePresent` returns without a requeue. What keeps a CR from being
  forgotten is an argument over watch events, queue and timer together.
* **Indirect comparison.** Content is never compared: an equal generation and
  an equal version have to mean "in sync".
* **The place of the entity is computed from the current spec**, not recorded.
* **Crashes** between any two of these steps.

`PROJECT.json` lists each hazard at its line with the properties that cover it.

## 2. The modules

| Module | Models |
|---|---|
| `ManagedResource` | what all four kinds share: the CR in the API server, users, the informer cache, queue and timer, crash and restart, the dispatch of `Reconcile`, finalizer and status write |
| `Custody` | the abstract specification: what a managed resource promises about the entities it stands for. `Service`, `Pipeline` and `TestCase` implement it (`INSTANCE Custody WITH`) |
| `Service` | EXTENDS `ManagedResource` with `ServiceHandler`, services at each location of OpenMetadata, other users of OpenMetadata and secrets; the properties |
| `SharedService` | composes two `Service`s of one name in two namespaces over one OpenMetadata and one worker |
| `Pipeline` | EXTENDS `ManagedResource` with `PipelineHandler`, pipelines by fully qualified name, their deployment to Airflow, other users; the properties |
| `TestCase` | EXTENDS `ManagedResource` with `TestCaseHandler`, test cases by fully qualified name, the lookup by the bare one, other users; the properties |
| `EntityTag` | EXTENDS `ManagedResource` with `EntityTagHandler`, entities and tags of OpenMetadata, the labels of the resource, ingestion and other users; the properties |
| `EntitySearch` | `SearchEntities` of the client: the loop over pages of an index that changes meanwhile |
| `SecretResolver` | the recursive walk over a connection config, its reads of secrets, their rotation; the reference definition it is checked against |
| `MCService`, `MCPipeline`, `MCTestCase`, `MCEntityTag`, `MCEntitySearch`, `MCSecretResolver` | the small instances |
| `ManagedResourceProofs`, `ServiceProofs`, `SharedServiceProofs`, `CustodyProofs`, `PipelineProofs`, `TestCaseProofs`, `EntityTagProofs`, `EntitySearchProofs` | the theorems (section 4) |

### `ManagedResource`

One CR, by name, through several incarnations (`uid`).

| Model | Code |
|---|---|
| `cr` | the object in the API server |
| `cached` | the informer's copy; `CacheSync` is a watch event and enqueues (`For(...)` without predicate, so status changes enqueue too) |
| `queued`, `timer` | the work queue; `Result.RequeueAfter`. An error result enqueues (backoff has no length here) |
| `pc`, `obj`, `st`, `res` | the reconciliation in flight: next call, object read, status in the making, result decided |
| `Dequeue` / `FirstStep` | `Reconcile` up to its first call |
| `EnsurePresent`, `EnsureAbsent` | `internal/finalizer` |
| `SetConditionAndPersist` | the status write that ends a reconciliation; on refusal nothing but the log knows |
| `Return` | what controller-runtime does with `(Result, error)` |
| `Crash` | the process dies between any two calls; the new one lists all objects |
| `prereqs` | what a reconciliation needs can be read: connection and token, the secrets of a service, the service of a pipeline |

Each action between `Dequeue` and `Return` is one call to a server with the
code around it, so that everything else can happen between any two calls.

**resourceVersion.** An update is accepted when the stored object *equals* the
one read. Two states of one CR with the same value are interchangeable for
everything modelled: uid tells incarnations apart and generation never
decreases. The real check refuses more: an update that changed only
`lastReconcileTime` also raises the resourceVersion. Such a refusal is in the
model as a failing call (`Refused` with `Fault`), and the watch event it causes
as an early firing of the timer that an in-sync reconciliation set.

**Left out.** Kubernetes raises the generation when a deletion timestamp is set:
no code compares the generation of a deleting object. Backoff lengths, the five
minutes of the timer, events, log lines, reasons and messages. The periodic
resync of the informer (10 hours by default) would only add wake-ups.
`CacheSync` brings the cache to the newest state: it may be behind by any time,
but of several changes it has not seen it skips those between.
A status write with effect whose answer is lost is an accepted write, its error
being dropped anyway; a finalizer write of that kind is an accepted write
followed by one more wake-up, which the watch event also brings. Foreign
finalizers are not modelled.

### `Service`

`remote[l]` is the service of this name at location `l`, where a location is an
OpenMetadata instance and a category's endpoint: `LocationOf` says which one a
spec names (`openMetadataConnectionRef`, `serviceType` through the registry).

| Action | Code (`service_handler.go`) |
|---|---|
| `Observe` | connection, token, secret resolution (74-118) |
| `Query` | `GetServiceByName`, the comparison, owner resolution (120-158) |
| `Upsert` | `UpsertService` and the status fields (160-198); applied, failed, or applied with the answer lost |
| `Persist` | the status write |
| `Delete` | `HandleDeletion` up to `EnsureAbsent` (203-242) |

`Delete` enters the release of the finalizer only after the DELETE succeeded or
was not needed. `BadOwners` are the specs with an owner that is neither a user
nor a team: the one permanent error the CRD schema lets through. (A type outside
the registry is refused by the schema's enum and a config that is no object by
its `type: object`, so those two branches are unreachable.) Content is the spec
together with the value its secret had when it was resolved.

**OpenMetadata** (external): a new entity gets a fresh ID and the first version;
a PUT or edit that changes the content raises the version; a PUT of what is
already there does not. Others can edit, delete and create the service.
A `GET` that fails and an owner lookup that fails (any error other than an
unsupported type) are one `Fault` of `Query`.

`lost` is a history variable: IDs of services whose first recording was refused
or cut off. It appears in no guard.

### `Custody`

What the finalizer package's comment (`finalizer.go:17-19`) and the README
("Automatic cleanup via finalizers") amount to, without cache, queue, calls or
failures. Four variables: the phase of the object (`none`, `bare`, `kept`,
`doomed`), the recorded ID, the IDs of the entities that exist, and how often
others interfered.

| Action | What it allows | Implemented by |
|---|---|---|
| `Want`, `Withdraw` | the user creates and deletes | `UserCreate`, `UserDelete` |
| `Keep` | the object gets the finalizer | `EnsurePresent` |
| `Make` | one new entity, for an object with the finalizer only | `Upsert` |
| `Record` | the record of a live object becomes an entity that is there | `Persist` |
| `Remove` | the recorded entity of a doomed object goes, no other | `Delete` |
| `Release` | a doomed object goes, when its entity is not there | `EnsureAbsent` |
| `Meddle` | one entity comes or goes through others | `Others` |

Everything else is a stutter. That `Persist` writes an ID that still exists, and
that `Delete` removes nothing else although it works on a stale copy of the
status, is what has to be shown. For `Service` it holds of specs that agree on
the location; pipelines and test cases are deleted by ID wherever they are, so
there it holds of all specs.

### `SharedService`

`A == INSTANCE Service WITH cr <- crA, ...` and `B` likewise: each has its own
object, cache entry, queue entry, timer and reconciliation; they share
`remote`, the IDs, the secret, the prerequisites and the budget of faults. Other
users of OpenMetadata are left to `Service`: each CR is the other's other user.
`MaxConcurrentReconciles` is not set, so there is one worker: `StartA` needs B
idle and the other way round. `Restart` restarts both. Either may have any of
`Specs`; the users of one give it those of `SpecsA`, of the other those of
`SpecsB`, which in the run are one each, so that content tells who wrote it. Two live resources of
different specs overwrite each other without end; `MaxVersion` stops the worker
while both are live and the service has that version, until one is deleted.

### `Pipeline`

`remote[f]` is the pipeline under the fully qualified name `f`; `FqnOf` says
which name a spec leads to (its service's and the CR's own). All specs name one
connection: what an edit of that does is in `Service`.

| Action | Code (`pipeline_handler.go`) |
|---|---|
| `Observe` | connection, token, service entity (119-168) |
| `Query` | `GetPipelineByFQN`, `DecidePipelineAction`, owners (170-204) |
| `Upsert` | the PUT and the status fields (206-232) |
| `DeployPipeline` | POST of the deployment, by the ID in the working status (234-242) |
| `Refetch` | the GET after it; its failure returns without a status write (244-264) |
| `Persist` | the status write |
| `Delete` | `HandleDeletion` up to `EnsureAbsent` (267-301) |

Two permanent errors are reachable: an owner of another type (`BadOwners`), and
a service of type `user` or `team` (`BadServices`), which the CRD's enum admits
(`ingestionpipeline_types.go:43`) and `entityTypeToPath` does not have.

**OpenMetadata and Airflow** (external): a PUT that changes a pipeline, or that
finds it deployed, makes a new version that is not deployed - the payload has no
`deployed` field - while Airflow keeps the old DAG (`dag`); a deployment makes a
new version, too (the comment at 244-246), and gives Airflow the present
content. Others can edit, delete and create pipelines. An edit leaves `deployed`
alone: this is the harder case, in which only the version betrays it.

`lost` (IDs that were never recorded, or whose record was overwritten when the
spec moved to another service) and `touched` are history variables; they appear
in no guard.

### `TestCase`

`remote[f]` is the test case under the fully qualified name `f`, which contains
the entity the spec's `entityLink` names.

| Action | Code (`testcase_handler.go`) |
|---|---|
| `Observe` | connection, token (56-76) |
| `Query` | `GetTestCaseByFQN`, the comparison, owners (78-114) |
| `Upsert` | the PUT and the status fields (116-164) |
| `Persist` | the status write (211-221) |
| `Delete` | `HandleDeletion` up to `EnsureAbsent` (167-202) |

The handler asks for the test case by the CR's name, where the endpoint takes a
fully qualified one. What OpenMetadata answers is outside this code: `byName`,
chosen in `Init`, says whether it finds anything, and every property is checked
for both answers.

### `EntityTag`

`catalog` says which entities (assets) are in OpenMetadata, `tags` which tags,
`labels` which of the two this resource brought together. A spec is a tag
(`TagOf`) and the set of assets its patterns match (`MatchOf`); patterns
themselves are opaque to the operator.

| Action | Code (`entitytag_handler.go`) |
|---|---|
| `Observe` | connection, token, ID of the tag (68-87) |
| `Search` | `SearchEntities` (89-96) |
| `SearchMisses` | the same, with an entity skipped because the index changed between two pages ("churn"): what `EntitySearch` says can happen |
| `BulkAdd` | the bulk add of `applyDiff` or `applyRename` (`ToAdd`) |
| `BulkRemove` | the bulk remove of either (`ToRemove`, `OldTag`), in a rename with the lookup of the old tag |
| `Persist` | the status write |
| `Delete` | `HandleDeletion` up to `EnsureAbsent` (177-209): lookup and bulk remove |

A bulk call may fail with *any part* of its effect. A bulk call that succeeds
labels every asset that is still there (external: an answer with status 200 is
taken for that, as the code does). An entity that is gone does not come back
under its ID. A tag that is deleted takes its labels along (`DropTag`), and may
be created again under its name, with no labels (`RestoreTag`): the status still
lists its assignments, so nothing is applied anew. A reconciliation in flight
goes on with the ID it looked up and sees the tag as gone, so a tag that one has
looked up comes back when that one has ended. A lookup and the bulk call after it
are one step where nothing but the existence of the tag could change between
them; the 404 this can lead to is in the model as a failing call. No type without
a search index passes the CRD schema, so there is no permanent error.

`lost` and `torn` are history variables; they appear in no guard. `lost`: labels
added without being recorded. `torn`: labels taken away, by others (alone or with their
tag) or by a removal whose outcome is not recorded.

### `EntitySearch`

`Init` chooses the patterns and, among `Listings`, the hits the index starts
with, in any order the constant names; `FetchPage` is one turn of the loop
of `SearchEntities` (`entitytag.go:60-80`), `FetchFails` its error return;
`Added`, `Dropped` and `Reindexed` change what the query matches, and where,
between two pages. `Selected` is the query string of `buildSearchQuery` by what
it means; the escaping of patterns is not modelled. `steady`, `initially`,
`inserted` and `removed` are history variables.

### `SecretResolver`

JSON values are scalars, maps and lists. `References` and `Resolved` are the
recursion of `Resolve` (`resolver.go:52-86`): which parts it takes for
references, and what it makes of the value, with `IsLiteral` and `IsReference`
for `extractValue` and `extractSecretKeyRef`. Each reference is read by a Get of
its own (`ReadSecret`, `Abort`), in any order, as Go iterates over a map;
`Change` makes, rotates and deletes secrets meanwhile. The reference definition
(`Parts`, `Literals`, `Promised`, `Expected`) knows no recursion over the result:
it takes the config apart into paths, and says by path which leaves the result
must have.

## 3. What is checked

The runs instantiate the `MC` modules. `CHECK_DEADLOCK FALSE` is set because the
system may rest: no CR, no change left within the bounds.

| Run | Properties | Shows |
|---|---|---|
| `service` | `TypeOK`, `FinalizerGuardsUpsert`, `NeverForgotten`, `EveryServiceAccountedFor`, `DriftDetectionSound`, `ReleaseAfterCleanup`, `ImplementsCustody`, `Converges`, `DeletionCompletes` | see below |
| `service_orphan` | `NoOrphan` (violated) | a service without a record survives the CR |
| `shared_service` | `EveryServiceAccountedFor`, `NoneTakesTheOthersForItsOwn`, `SurvivorConverges` | two CRs of one name in two namespaces: see below |
| `pipeline_safety` | `TypeOK`, `EveryPipelineAccountedFor`, `DriftDetectionSound`, `ImplementsCustody` | see below |
| `pipeline_liveness` | `EveryPipelineAccountedFor`, `NeverForgotten`, `Converges`, `DeletionCompletes` | failed, unanswered and unrecorded deployments are made up for, also between good and bad specs and after a move to another service |
| `pipeline_stuck` | `Converges` (violated) | others delete the pipeline between PUT and deployment, a crash leaves the next one unrecorded: the redeployment of the recorded ID, which is gone, repeats for ever |
| `testcase` | `TypeOK`, `EveryTestCaseAccountedFor`, `DriftDetectionSound`, `ImplementsCustody`, `Converges`, `DeletionCompletes` | all of it, whether or not the lookup by the bare name finds anything |
| `etag_safety` | `TypeOK`, `EveryLabelAccountedFor`, `RecordedIsLabelled`, `ReleaseAfterCleanup` | see below |
| `etag_liveness` | `Converges`, `DeletionCompletes` | the timer finds new and missed entities; failures and edits are made up for |
| `etag_reverted` | `TagsStayApplied` (violated) | a half-failed rename, reverted, leaves the wrong tag for good; no external operation is needed for it, and the run has none |
| `search` | `TypeOK`, `MissesOnlyWhatShifted`, `RepeatsOnlyWhatShifted`, `OffsetWithinHits`, `SearchEnds` | the paged search misses no more than went, repeats no more than came, and ends |
| `resolver` | `TypeOK`, `ResolvesAsDocumented`, `FailsForCause` | the recursion agrees with the definition by paths |

Of `Service`:

* `FinalizerGuardsUpsert`: however stale the cache, the CR for which the handler
  runs exists in that very incarnation and has the finalizer. It holds because a
  copy that shows a live, finalized CR cannot be outlived by it: only the same
  worker removes the finalizer.
* `NeverForgotten`: an idle controller has the name queued, a timer pending or a
  watch event coming, unless the spec has a permanent error.
* `EveryServiceAccountedFor`: a service the operator created is in the status,
  or about to be, or its recording failed (`lost`): only a failed status write
  makes an orphan. For specs that agree on the location: a DELETE is sent to the
  location of the current spec, and one to the wrong place counts as success.
* `ReleaseAfterCleanup`: the CR goes only when the recorded service is no longer
  at the location the CR's spec names at that moment.
* `ImplementsCustody`: every step is a step of `Custody`, or a stutter.
* `DriftDetectionSound`: in any copy of the CR, "in sync" means that OpenMetadata
  has the spec's content, whatever others did, *for the service the status
  records*, and with the secrets as they were at some time. The code compares
  neither the ID nor the resolved config: another service of the recorded version
  passes for in sync, and a rotated credential is pushed only with the next edit.
* `Converges` allows for the latter in the same way.

Of `SharedService`:

* `EveryServiceAccountedFor`: the deletion of one CR takes away the service of
  both; what the other then makes is recorded by it, or `lost`, never unknown to
  both.
* `NoneTakesTheOthersForItsOwn`: `DriftDetectionSound` for all six copies of the
  two CRs against one service that both write.
* `SurvivorConverges`: when one is gone for good the other ends up with its spec
  in OpenMetadata: only its timer tells it. The exception, `Mistaken`, is real
  (without it TLC refutes the property for the one that stays while the other is
  made twice): the first CR, created again, makes a service
  anew, is deleted before it could record it, and leaves a service of the other's
  recorded version with its own content, which the other takes for its own for
  good.

Of `Pipeline`:

* `EveryPipelineAccountedFor`: as for services, with one more place where the
  record may fail: the return without a status write after the re-read.
* `ImplementsCustody` is stronger than for `Service`: pipelines are deleted by ID
  at one endpoint, so the recorded one is gone *wherever* its name is, and the
  spec may move from one service to another.
* `NeverForgotten`: as for services (`Awake` in `ManagedResource`), also when the
  re-read fails and there is no status write whose watch event would bring the
  name back. Two permanent errors end the retries here, a reference to a service
  that is not there and a wrong owner.
* `DriftDetectionSound`: "in sync" in any copy of the CR means that OpenMetadata
  has the spec's content and that Airflow runs it - unless others edited between
  the upsert (or the comparison) and the re-read, whose version then passes for
  the operator's own. A pipeline put in its place by others can carry any
  version; `touched` says when that, or the window, was used.
* `Converges` holds without other users; with them it does not
  (`pipeline_stuck`), and a missing fairness is not to blame: the operator
  retries for ever.

Of `TestCase`:

* `EveryTestCaseAccountedFor`, `DriftDetectionSound`, `ImplementsCustody`: as for
  pipelines. An edit of the `entityLink` makes a second test case; the first,
  whose record is overwritten, is among the `lost`.
* `Converges`: if the lookup finds nothing, every reconciliation goes on to the
  PUT, which repairs edits by others unnoticed and keeps the recorded ID right.
  If it does find something, a test case of equal version but another ID keeps
  the old ID in the status.

Of `EntityTag`:

* `EveryLabelAccountedFor`: a label is in the status, about to be, or its
  recording failed. Renames, narrowed patterns and vanishing entities leave no
  label that a deletion would not find; only bulk calls that fail, status writes
  that are refused (also for a stale cache) and crashes do.
* `RecordedIsLabelled`: the status lists no label that is not there, unless
  others took it away, alone or with its tag, or the operator did and could not
  record that. The code
  decides what to add from the status alone, so such an entry is never repaired:
  `etag_reverted` takes it to a status that reports t1 on an entity that carries
  t2.
* `Converges` makes the same exception; `TagsStayApplied` does not.

Of `EntitySearch`: `MissesOnlyWhatShifted` counts: of the entities that match
throughout, no more are missing from the result than hits went meanwhile. An
entity that is missed loses its label in the next `applyDiff`, and gets it back
with the next search: that is the "churn" of `EntityTag`, under which `Converges`
is checked. `SearchEnds`: wherever hits come and go in front of the offset, and
whichever request fails, the loop ends once the index is left alone, so the one
worker gets its answer.

Of `SecretResolver`: `ResolvesAsDocumented` and `FailsForCause` compare the walk
with what the comment at `resolver.go:41-51` says: what is outside the two
patterns is kept, an outermost literal is unwrapped once and never looked into,
an outermost reference becomes a value that its key had during the walk.

The three violated properties are statements of the repository's own comments
and README; `PROJECT.json` "findings" quotes them.

### Bounds

| Bound | Value | Enough because |
|---|---|---|
| `Specs` | 3 in `service`, `testcase` and the `etag` runs, 4 in `pipeline_liveness`, else 2 or 1 | two good specs and a bad one; one that moves the entity to another name (1 where edits do not matter) |
| `Fqns` | 2 in `pipeline_liveness` and `testcase`, else 1 | the old place and the new one |
| `ByName` | both | either answer of OpenMetadata |
| `MaxUid` | 2 in `service` and `pipeline_safety`, 2 and 1 in `shared_service`, else 1 | a stale copy of the first incarnation while the second exists |
| `Assets` | 2, in `etag_liveness` one of them yet to be ingested | bulk calls that take effect in part |
| `MaxGen` | 3 in `pipeline_liveness`, `etag_safety`, `etag_reverted`, 1 in `shared_service`, else 2 | an edit during a reconciliation, and with 3 an A-B-A of specs |
| `MaxFaults` | 2 in the passing `pipeline` runs, else 1 | each failure and crash once, at every place; two for a failed deployment followed by a failed status write |
| `MaxExternal` | 1, 0 where others play no part | one change by others at any place; a second one of the same kind finds what the first left. A tag is created again at no cost |
| `ExternalOps` of the `etag` runs | all five in `etag_liveness`; entities and tags deleted and a missed entity in `etag_safety`; none in `etag_reverted` | for the account a single label taken away is what a deleted tag does to all of its labels; `ListedIsInForce` and `AllAccountedFor` hold with all of them |
| `MaxEvents` | 3 in `shared_service` | two creations and one more event: the first CR again, a failure, a crash, or lost prerequisites; deletions cost none |
| `MaxVersion` | 2 in `shared_service` | one made the service and the other has overwritten it, either way round |
| `Entities`, `PageSize` | 5 and 2 | no hit to two full pages and a rest: multiples of the page size and others |
| `MaxChanges` | 3 in `search`, 2 in `resolver` | a shift before, in and after a page; a secret deleted and made again, or two rotated |
| `Configs` | some 500 | literals, references and eight look-alikes, inside maps, lists, literals and each other |

`RequeueFires` of `Pipeline` has one bound in its guard: the five-minute timer
fires when no reconciliation is in flight and the cache has caught up. Without
it a reconciliation could start from a stale cache again and again, each time
deploy, and raise the version without limit. Errors, edits, failures and watch
events still start reconciliations from a stale cache.

### Fairness

`WF` of `CacheSync` (a watch delivers or reconnects and lists), of `TimerFires`,
of `Worker` (a worker that has a name takes it, and every call returns: the HTTP
client has a timeout, `client.go:30`), and of `PrereqsRestored` (the user who
took the connection or token away puts it back: without it a deletion may wait
for ever, which is what the code means to do). No fairness for users, others,
failures and crashes. These are bounded by the constants, so that "eventually
quiet" holds in every behaviour; the liveness properties say what happens then.
In `SharedService` the two starts of a reconciliation are strongly fair: the work
queue is first in, first out, so a queued name is not passed over for ever.
`FairSpec` of `EntitySearch` asks the same of the search alone: that it begins,
and that each request is answered or fails, by that timeout at the latest.

## 4. What is proved

TLAPS checks, for all values of the constants that satisfy the assumptions
(`BoundsAssumption`, `SpecsAssumption`, `NoneAssumption`, `SearchAssumption`, and
`SharedAssumption`, the first and third of these for either resource: bounds are
numbers, each spec has a place, `None` is none of the values it is mixed with, an
index lists an entity once):

| Theorem | In | States |
|---|---|---|
| `InductiveInvariant` | `ServiceProofs`, `SharedServiceProofs`, `PipelineProofs`, `TestCaseProofs`, `EntityTagProofs`, `EntitySearchProofs` | `Spec => []IInv` |
| `TypeCorrect` | the same, but `SharedServiceProofs` | `Spec => []TypeOK` |
| `FinalizerGuardsUpserts` | `ServiceProofs` | `Spec => []FinalizerGuardsUpsert` |
| `FinalizerGuardsHandler` | `PipelineProofs`, `TestCaseProofs`, `EntityTagProofs` | the same of each step of these handlers: `Spec => []FinalizerGuards(steps)` |
| `NoLostWakeUp` | `ServiceProofs`, `PipelineProofs` | `Spec => []NeverForgotten` |
| `NoLostWakeUp` | `TestCaseProofs`, `EntityTagProofs` | `Spec => []Awake(hopeless)`, where the hopeless specs are those with a wrong owner, or none |
| `CleanupBeforeRelease` | `ServiceProofs`, `EntityTagProofs` | `Spec => ReleaseAfterCleanup` |
| `CleanupBeforeRelease` | `PipelineProofs`, `TestCaseProofs` | the object goes only when no entity has the recorded ID, at whatever name |
| `DriftDetected` | `ServiceProofs`, `PipelineProofs`, `TestCaseProofs` | `Spec => []DriftDetectionSound` |
| `RecordIsAlwaysThere` | `CustodyProofs` | `Custody!Spec` implies that only a guarded object records anything, and that what a live one records exists while others keep their hands off |
| `ServiceIsCustody` | `ServiceProofs` | `Spec => ImplementsCustody`, if the specs name one location |
| `RecordedServiceIsThere` | `ServiceProofs` | the former two together: the statement of `RecordIsAlwaysThere` for `Service` |
| `EveryServiceAccounted` | `ServiceProofs` | `Spec => []EveryServiceAccountedFor`, if the specs name one location |
| `EveryServiceAccounted` | `SharedServiceProofs` | `Spec => []EveryServiceAccountedFor`, of the two resources together |
| `NoneTakesTheOthers` | `SharedServiceProofs` | `Spec => []NoneTakesTheOthersForItsOwn` |
| `EachIsServed` | `SharedServiceProofs` | `FinalizerGuardsUpsert` and `NeverForgotten` of either, beside the other |
| `PipelineIsCustody`, `TestCaseIsCustody` | `PipelineProofs`, `TestCaseProofs` | `Spec => ImplementsCustody`, for all specs |
| `RecordedPipelineIsThere`, `RecordedTestCaseIsThere` | `PipelineProofs`, `TestCaseProofs` | what a live resource records exists while others keep their hands off, at any name |
| `AllAccountedFor` | `PipelineProofs`, `TestCaseProofs`, `EntityTagProofs` | every pipeline, test case or label the operator made is recorded, about to be, or `lost` |
| `ListedIsInForce` | `EntityTagProofs` | `Spec => []RecordedIsLabelled` |
| `MissesAreBounded`, `RepeatsAreBounded`, `OffsetIsBounded` | `EntitySearchProofs` | the three safety properties of the `search` run, for an index, a page size and a number of changes of any size |

The three theorems of `ServiceProofs` about one location assume
`Locations = {here}`: with two locations they are false of the code, as said
above. `SharedService` is about one location by its construction. No other
theorem has a hypothesis beyond the assumptions of the constants.

**The argument.** None of the properties is inductive alone. `IInv` adds for
every kind:

* `LifecycleInv` (in `ManagedResource`): how the stored CR, its two copies and
  the step in flight relate. `Follows` says what a stale copy may be wrong
  about: it may be old, but a copy that is live and finalized is right that the
  CR exists. `StepFitsObject` gives each step the kind of object it needs. If
  nothing is queued, the reconciliation in flight works on what the cache holds:
  this is why the swallowed errors lose no wake-up.
* `WorkingStatus`: the status in the making is the one that was read, until the
  step before the status write fills it in (a pipeline's: until the upsert).

For the three kinds that record one ID, `IInv` adds:

* `IdsUpToLast`: no ID is known before it is handed out, so an entity created by
  others while the finalizer is being released cannot have the recorded ID.
* `RecordedIsGuarded` (for pipelines and test cases `BareRecordsNothing` and
  `ReleasedIsGone`): a CR without the finalizer records nothing; a CR whose
  finalizer is about to go has its recorded entity gone.

For labels it adds the same with sets (`BareListsNothing`, `ReleasedIsClean`),
that a status write lists every label in force that the status it replaces
listed (`WriteForgetsNothing`), that a status with entities names a tag
(`StatusesIn(Proper)`), that a label goes with its tag (`LabelsHaveTags`), and
the account of labels itself.

`ManagedResourceProofs` proves once, for any set of statuses and steps, what
the four kinds need of the lifecycle: each action keeps types and
`LifecycleInv`; the stored status changes by an accepted write only
(`StoredByStep`), the copies are old states of the object (`CopiesByStep`), a
status in a copy was once stored (`StatusesIn`), and the object's phase moves as
in `Custody` (`PhaseByStep`), the steps of a handler find the object guarded
(`GuardsHold`), and no wake-up is lost (`AwakeKept`). For kinds that record one ID it also proves the
facts about it listed below. The other modules add the handlers. TLC checked
each `IInv` on the instances before it was proved.

**Wake-ups.** `AwakeKept` shows for all kinds that users, the informer, the timer,
`Dequeue`, the writes and a restart keep an idle controller awake, and leaves to
a handler what its own steps do: go on, or end with an error or a requeue, or
end for good on a hopeless spec. `GivesUpOn` carries the last as far as the
status write: a result that asks for no further call is one for a live object
with such a spec. That the copy may be an old one, and the spec a good one by
now, does no harm: by `LifecycleInv` the name is then queued or the watch event
still to come, whether or not the write is accepted.

**The refinement.** Initial states map to the initial state. `StepSimulated` has
a lemma for each action that `Custody` can see. What they need beyond `IInv` is
three facts about stale copies (`CustodyInv`):

* `WritesWhatIsThere`: an ID about to be written is that of an entity which
  exists, or others interfered. It holds because between `Upsert` and `Persist`
  nothing of the operator's own can delete: there is one reconciliation at a
  time.
* `DoomedRecordIsFrozen`: once the deletion of a CR is requested, a status write
  based on an older revision is refused, so a copy that shows the deletion shows
  the recorded ID for good, and the ID sent with the DELETE is the recorded one.
* `GoneIsCleanedUp`: a stale copy of a CR that was deleted and has gone since
  records no entity that is still there, so acting on it once more does no harm;
  nobody can hand out its ID again.

For services the second says that the DELETE goes to the right place only if
there is one. Pipelines and test cases are deleted by ID, so the same three
facts carry their refinement for all specs, names and edits.

**The account.** That everything is accounted for is not inductive: a write in
flight that is refused takes the account away unless it moves into `lost`. For
services, `Account` says of each that is there that the controller `Knows` it,
and that a write in flight accounts for it only if it brings a new ID, and then
for no other (`AccountOf`). For
pipelines and test cases `Accounted` says the same with IDs: each one the
operator has there is `lost`, recorded, or in the write. A pipeline has one more
place where the record may fail, the return after the re-read. For labels the
account is a set: what is recorded, what the working status would record, and
what is `lost` cover them all at every step of a rename, and a partial bulk call
moves from one to the other (`AllAccountedFor`).

**Drift.** "In sync" compares numbers, the property speaks of content. For
services and test cases the bridge is that an ID and a version together have one
content: a version is raised with every change of content, and an ID is never
handed out twice, so whoever remembers the pair remembers the content
(`VersionsIdentify`, of every status: stored, cached, read or in the making). A
copy of the CR remembers it from the PUT. A rotated secret makes a service's
content one of several; `WantIsResolved` says which was pushed.

A pipeline has a re-read between the PUT and the status write, and the version
remembered is the re-read one. `DriftInv` is therefore about what is there, and
conditional on nobody else having used the window (`touched`). It says of every
status that covers its object's generation (`Right`):

* if the object is the stored one, the pipeline is the recorded one and either
  newer than the status, or as the spec says and, if deployed, so in Airflow; or
  it was cleaned up, which takes that every copy shows the deletion (`Doomed`);
* if the object is gone, there is no pipeline at its name; `CustodyInv` is why.

Of the window it says that before the deployment and before the re-read the
pipeline is what the reconciliation made of it (`InTheWindow`).

**Two resources.** In `SharedService` each resource sees more of others than
`Others` of `Service` allows: the other one creates, edits and deletes as the
operator. Of what it sees, the proofs for one resource need only what is in
`Aside`: versions rise with changes of content, an ID is handed out once, and
nothing comes while a reconciliation is in flight. `AsideKeepsInv` shows that
this keeps `SharedInv`: `CustodyInv`, the versions, and what was resolved.
`NextKeepsToTheRules` shows that every step of a `Service` is such a step for the
rest of the world. So `IInv` of `SharedServiceProofs` is `SharedInv` of both, kept
by the steps of either (`StepOfAKeepsInv`, `StepOfBKeepsInv`) because of
`OneAtATime`, the one worker, without which a DELETE could come between PUT and
status write of the other. The account is no sum of two: `OneKnows` says that the
service which is there is known to one of them. After a step of one, that one accounts
for it as it would alone (`AccountOf`), or it was there before, unknown to that
one and so known to the other, whose record the step leaves alone
(`StepOfAIsKnown`, `StepOfBIsKnown`).

**Labels.** `RecordedIsLabelled` needs `ClaimsInv`, which follows the claim
through a reconciliation: what was just added, and what a write in flight lists
for the stored CR, is in force, was taken away by others or by a removal
(`torn`), or belongs to an entity that is gone. `ListsWhatWasSeen` says
that only entities which have been there are listed, and those do not come back
once they are gone; `OneIncarnation` that nobody still works for an older CR of
the name once the newer one lists something.

**The paged search.** The properties speak of the result at the end, a change of
the index of hits that are not in it yet. The invariant divides the hits at the
next offset: of those before it no more are missing from the result than hits
went (`FewAreMissed`), of those behind it no more are in it already than hits
came (`FewAreRepeated`). A change of the index moves at most one hit across the
offset in each direction (`InsertParts`, `RemoveParts`, `MovePlaces`), and a
page only hands over from one side to the other (`WhatAPageHolds`).

**Only model-checked:**

* Liveness: it needs fairness and ENABLED, which the prover does not handle.
* `SecretResolver`: recursive operators over configs of any depth, which would
  need induction over data, out of the provers' reach here.

## 5. The plan

Done: all modules of section 2 and the theorems of section 4. What is left:

1. Two `EntityTag`s with overlapping patterns over one set of labels, composed as
   `SharedService` is: what one applies, the other may take away.

## 6. What is not modelled

* Two `EntityTag` resources whose patterns overlap, and labels that users put on
  an entity by hand: section 5.
* What an edit of `openMetadataConnectionRef` or of the service's type leaves
  behind at the old location: the properties about cleanup are stated for specs
  that agree on it, or speak of the location named now.
* Answers with status 200 to a bulk call that report failed rows, and limits of
  the search backend on offsets: nothing in this code says what they look like.
* Two branches of the service handler that no CR admitted by the schema reaches:
  an unknown service type and a config that is no object.
* Escaping of search patterns, URLs, headers, marshalling.
* Rates: backoff, the five minutes, and that an in-sync status write
  (`lastReconcileTime`) wakes its own controller.
* The wording of conditions and events; transition times.
* Generated deep copies, manifests, RBAC, flags, metrics and health probes.
* Leader election: with it one process acts, and `Crash` is the change of
  leader.
