# Cluster Inventory API: specifications and proofs

The Cluster Inventory API is a Kubernetes API (`ClusterProfile`,
`PlacementDecision`) with the Go libraries, plugins and tools around it. A
*cluster manager* writes one ClusterProfile per member cluster to a hub; a
*consumer* reads profiles from the hub and connects to the members; the
*conformance suite* observes a hub and judges the manager. This directory holds
TLA+ models of that code, TLC configurations for small instances, and proofs
checked by TLAPS.

Source paths below are relative to the root of the repository.

## 1. Inventory

| Component | Source | State it keeps | Operations |
| --- | --- | --- | --- |
| Consumer library | `pkg/access/config.go`, `conversion.go` | the provider configuration, shared by every call; a call's deep copies | `BuildConfigFromCP`, `NewFromFile`, `New` |
| API types and CRD | `apis/v1alpha1`, `apis/v1alpha2`, `config/crd/bases` | objects on the hub, one stored form for two versions | create, update, status update; schema validation and pruning |
| Conformance run | `conformance/suite.go`, `checks.go`, `catalog.go` | the report under construction, one snapshot, the goroutine and channel of a discovery call | `Run`, `awaitDiscovery`, the eleven checks, `summarize` |
| Report validation | `conformance/report.go` 94-197 | none | `ValidateReport` |
| Report files | `conformance/report.go` 199-411, `conformance/cmd/report` | a directory shared by processes | `WriteReports`, `ReadReport`, `GenerateMatrix` |
| Exec credential plugins | `pkg/credentialplugin/core.go`, `plugins/*` | the environment and standard output of a short-lived process | `Run`, `GetToken` |
| Seeder | `hack/conformance-seed` | objects on the hub | create or get, then update status |
| Informer factory (generated) | `client/informers/externalversions/factory.go` | started informers, a shutdown flag, a wait group | `Start`, `Shutdown`, `WaitForCacheSync`, `InformerFor` |
| Other generated code | `client/`, `zz_generated.*` | none of its own | typed clients, listers, deep copies |
| Examples, scripts | `examples/`, `hack/` | none | drive the parts above |

How they interact:

- The manager and the seeder call the API server; the CRD schema decides which
  writes are admitted. Everything downstream sees only admitted objects, unless
  it was handed a Go value directly.
- A consumer passes a ClusterProfile to `BuildConfigFromCP`. The answer is a
  `rest.Config` whose exec configuration client-go uses as the key of its
  authenticator cache, and whose `Proxy` callback client-go calls later.
- client-go starts the configured plugin for a `rest.Config` and passes cluster
  information through an environment variable; the plugin answers on stdout.
- `conformance.Run` makes three requests to a hub that others keep changing,
  under a context; `WriteReports` stores its report; `cmd/report` reads stored
  reports back and validates them again.

What is hard here, and to test: concurrent callers of one provider
configuration; Go's random map order; a reserved extension whose writer and
reader are specified in different places; a discovery client that ignores the
context; observations from different moments; early returns that must still
build a complete report; processes that share a report directory; two API
versions that share a stored object; reads and writes of a profile that are
separate calls; a plugin whose client gives up while a Secret is rotated; one
authenticator for many consumers; informers requested while the factory starts
or shuts down; cached objects that every consumer sees. `PROJECT.json` lists
each at its line.

What makes each component correct:

- *Consumer library*: an answer depends on the one status and the provider
  configuration it was built from, never on another call, on a map order or on a
  later publication; no profile that the hub admits ends the process.
- *Conformance run*: success only for an inventory that was listed and meets
  every requirement and claim; failure only on evidence; anything else never
  looks like acceptance; every report is complete; a run returns.
- *Report files*: a report is there completely or not at all.
- *Plugins*: either one credential that the Secret of the documented namespace
  held and exit 0, or none and a reason.
- *Consumers and plugins together*: the credential of a cluster goes to no other
  cluster.
- *Hub and seeder*: a profile of another manager is never taken over, a write on
  an old read undoes no report that both versions show, and exit 0 of the seeder
  means that it seeded everything.
- *Informer factory*: one informer per type, run once; every started informer
  has stopped when `Shutdown` returns; no call keeps another from returning.
- *Caches and copies*: what a consumer does to its deep copy shows nowhere else,
  and a cache comes to hold what the factory's options select.

## 2. Modules and plan

| Module | Models | Proofs | Runs |
| --- | --- | --- | --- |
| `AccessTypes`, `AccessPromise`, `AccessBuild` | consumers, managers, the CRD, the authenticator cache (section 3) | `AccessBuildProofs` | `access_*` |
| `SpokeAccess` | composes `AccessBuild` and `CredentialPlugin` with requests to the spokes (section 4) | `SpokeAccessProofs` | `spoke_access` |
| `CredentialPlugin` | one process of a plugin (section 5) | `CredentialPluginProofs` | `plugin_*` |
| `ConformanceChecks`, `ConformanceRun` | a run, a hub, a context, discovery goroutines (section 6) | `ConformanceRunProofs` | `conformance_*` |
| `ReportStore`, `ReportFiles` | writers and readers of one directory (section 7) | `ReportFilesProofs` | `report_files` |
| `ProfileLedger`, `InventoryHub` | the API server with two versions, seeders, agents (section 8) | `InventoryHubProofs` | `hub_race` |
| `InformerLifecycle`, `InformerFactory` | the generated factory under its mutex (section 9) | `InformerFactoryProofs` | `informer_factory` |
| `DeepCopies`, `ProfileCache` | the Go types, their copies, and the cache that consumers share (section 10) | `ProfileCacheProofs` | `profile_cache` |

`AccessPromise`, `ReportStore`, `ProfileLedger` and `InformerLifecycle` are
abstract specifications; the detailed module of the same row implements each,
as a property of its runs. The `MC*` modules hold the constants of the runs.

Every safety property, action property and refinement that a passing run checks
is a theorem (section 11). What is left of the plan is to replace the hypothesis
`CopiesAreDeep` (section 11) by a proof, which needs a form of the tables of
`DeepCopies` that the provers can compute with, and to relate a run of
`ConformanceRun` to an abstract verdict.

## 3. Access: from a profile to a rest.Config

`AccessTypes` holds the constants, the types and the pure functions of
`pkg/access/config.go`. Strings are members of small sets. Environment variable
names are natural numbers because the code orders them. The raw bytes of an
extension are reduced to what the decoders tell apart: a list of strings, an
object of strings, another object, no data.

`AccessBuild` runs any number of builders, the goroutines that call
`BuildConfigFromCP`, beside managers that publish statuses. Each action is a
stretch of code between two accesses to memory that another goroutine can reach:

| Action | Code |
| --- | --- |
| `Publish` | a manager's status update through v1alpha1 or v1alpha2; the API server admits or rejects it by the schema of that version |
| `SelectAccessor` | `config.go` 126-131 and 218-236 |
| `GetExecConfig`, with `DeepCopy` | 133-144 |
| `ProcessExtension` (`ProcessCLIArgs`, `ProcessEnvVars`) | one turn of the loop at 148-165 |
| `FinishBuild` | 167-205, with client-go's conversion of the extension list to a map |
| `UseConfig` | client-go makes or finds an authenticator for the answer |
| `Discard` | the caller drops the answer and may call again |

Exec configurations live in a heap: `Shared(i)` is the one that the provider
file gives provider `i`, `Work(b)` the copy of builder `b`, and a builder writes
through its pointer `execConfig[b]`. So the model says what happens if the copy
at line 144 is missing. `content` is a history variable: the status a call was
made on. `Source` tells whether profiles come through the API server (`"hub"`)
or are Go values that nothing has validated (`"memory"`), which is how the
library's own tests call it.

`AccessPromise` is the abstract specification: a call is pending, then answered
with a value that `Promised` relates to one status. `Promised` is declarative:
it says which entry may serve, which names an environment has and which side
wins, without loops, memory or order of evaluation. `AccessBuild` maps its
program counters, pointers and loops to it, and the refinement is the property
`KeepsPromise`. Three deliberate gaps in the promise are in the code: nothing is
said of an accessor with two extensions of one name (v1alpha2 excludes it,
v1alpha1 does not, and the two versions share stored objects);
a merge of an extension without data may panic (`MayPanic`); and of a variable
that the provider lists twice any of its values may stand, since nothing says
whether the first counts, as under Replace, or the last, as under
AppendIfNotExists. A fourth is in the model: the `Proxy` of an answer is the value
that its call captured. That the function still answers with it after the profile
has changed follows from the copy by value, and no step here could break it.

| Run | Instance | Shows |
| --- | --- | --- |
| `access_build` | two builders, twelve statuses and five providers that reach every branch, unvalidated; a panic ends the process, so deadlock is not an error | types, the refinement, and that no call shows in another call, in the shared configuration or in the cache |
| `access_publish` | well-formed argument extensions behind the schema | a finding, section 12 |
| `access_no_data` | an envs extension without data, unvalidated | a finding, section 12 |

Two builders are enough: they meet only in the shared provider configuration and
in the cache, and one of them can be at any point while the other takes a step.
Three environment names let an own, a sourced and a shared name meet, and allow
every relative order. Nothing tells the builders apart, so their symmetry is used.
`CallReturns` assumes weak fairness of each builder's own
steps: a goroutine that can run is scheduled. The loop needs nothing else, for
no step of a call blocks. `NeverPanics` is about profiles that come through the
API server. Both are checked by `spoke_access`, where calls run beside requests,
and `NeverPanics` is proved.

## 4. From a profile to an answered request

`SpokeAccess` extends `AccessBuild` with what a program does with the answer. The
consumers are external: any programs that use the library, in any order of
building and requesting. `examples/controller-example` is one of them, which
builds once, sends one request and ends, or ends at the first error. What a plugin makes of a
Secret comes from `CredentialPlugin` (`Plugin(key)`, an instance of it), and
`ExecInfo` is what client-go tells the plugin about the `rest.Config`.

| Action | Code |
| --- | --- |
| `SelectAccessor`, `Build` | `BuildConfigFromCP`, as in section 3 |
| `StartRequest`, `GetCreds` | client-go finds the authenticator for the configuration, and its credential if it holds one |
| `RunPlugin`, `PluginExits` | the plugin reads the Secret; later its answer reaches the authenticator, or it has failed |
| `Send`, `Refresh` | the request, and client-go's second run of the plugin after a 401, one plugin per authenticator at a time |
| `Drop` | the consumer, with no request under way, makes way for another build |
| `Publish`, `Rotate`, `WriteSecret` | the profile comes to describe another spoke; a spoke takes a new token only; its Secret follows |

| Run | Instance | Shows |
| --- | --- | --- |
| `spoke_access` | two consumers, a profile that describes one of two spokes or is refused, three tokens of one spoke, answers that fail or do not come; deadlock checked | no credential reaches another cluster, nobody panics, and a call of `BuildConfigFromCP` ends |

Only `BuildOn` is fair, the steps of a call that has been made: nobody has to build,
to send a request or to write a Secret. That a request comes to succeed after a
rotation is not claimed, since it is client-go that runs the plugin again after a
401 and the program that tries again; no code of the repository does. `ManagersDescribe` is the assumption under which `NoForeignCredential` can hold:
a status that the API server admits names in the plugin's configuration the
cluster whose server it gives; no code can make up for a manager that does not.
Two consumers share an authenticator or hold one
each, and the profile can change between any two of their steps. Two rotations of
one spoke suffice: beside the token that is taken there is an old one in the
Secret and an older one in an authenticator. The third content that managers try
to publish has variables without data, which the schema refuses and the merge
would panic on. client-go
is external code, modelled by what this repository needs of it.

## 5. Credential plugins

`CredentialPlugin` is one process, from `main` to its exit, of either plugin.
`NewDefault`, `Run` and `GetToken` follow `plugins/*/main.go` and
`credentialplugin.Run` with every early exit; `Write`, `WriteByte` and `Flush` are
the last lines of `Run`, on a pipe that the client may close (`GiveUp`), whereupon
a write or `Killed` ends the process. Meanwhile `ChangeSecret` replaces or deletes
one of the Secrets. `UserStatus` and `KubeconfigStatus` are
`extractCredentialsFromKubeconfig`; `inferNamespace` is the function of that name.

`Held` says what a Secret has to offer according to the plugins' documentation,
without the order in which the code tests things; `DocumentedNamespace` is the
namespace that the comment on `inferNamespace` and the README of
`kubeconfig-secretreader` (lines 22 and 93) name, and `BadStart` what nothing
promises an answer to. None of the three uses the functions that the process runs on.
The properties compare the answer with `Held` of what the documented namespace
contained between the start of `GetToken` and its end (`seen`, a history variable).
In one case the code reads another namespace (`Misread`): in a Pod whose kubeconfig
cannot be loaded, it reads `default`. `ExitZeroIsCredential` and
`FailureIsJustified` make this exception by name; `DocumentedSecretIsRead` does
not, and is violated.

| Run | Instance | Shows |
| --- | --- | --- |
| `plugin_race` | both plugins (and one without a name) in ten environments, with every defect of the request and the Secret in any namespace; and 387 Secrets: kubeconfigs with two contexts and every kind of user, and values that are none; two changes of any Secret | exit 0 comes with one whole credential, 1 and 2 with none and for a reason, up to `Misread` |
| `plugin_namespace` | the same | a finding, section 12 |

The Secret is read once, so that two changes suffice: one before the read, one
after it. A process ends, so deadlock is not checked. The code sets no timeout on
`GetToken`, so nothing is claimed about when a plugin ends.

## 6. Conformance: one run against a changing hub

`ConformanceChecks` holds the catalog of eleven checks, the summary, the checks
as functions of a snapshot, and the validation of options and reports. The
folds of `combine` become a maximum of a set by rank (`Combine`); a label that
is not there is `Absent`, which the code distinguishes from an empty one.
`options.named` and `options.metadata` stand for groups of string checks that
either all pass or not. `RunAssumption` says that an inventory has no two profiles
of one name, since it stands for namespaces with names, which the API server keeps unique.

`ConformanceRun` is one call of `Run`. `Start` covers everything before the
first request, with each early return; `StartCall`, `RestAnswer` and `Select`
are the two discovery requests for either kind of client; `CheckContext`,
`GetNamespace` and `List` follow the code; `Evaluate` runs the checks and
`Conclude` validates a submission and returns. `Observe` and `Send` are the
goroutine that `awaitDiscovery` starts. Meanwhile `ChangeHub` changes what the
hub serves (at most `MaxChanges` times) and `EndContext` ends the context. An
answer to a request is chosen from what the hub could say at that moment or an
error, and when the context and an answer are both ready `Select` may take either.

| Run | Instance | Shows |
| --- | --- | --- |
| `conformance_verdict` | nine inventories, thirteen option sets with a REST client and one with a custom one, all ways to serve the API, one change of the hub | the meaning of every result, that every report is valid, that the run returns and an abandoned goroutine ends |
| `conformance_unknown` | REST client, three inventories | a finding, section 12 |

One change of the hub is enough to make any two of the three observations
disagree: no property relates more than two. The inventories pair each
requirement with a profile that breaks it, and `{Good1, Other}` holds a member
ID twice under different managers. A run ends, so deadlock is not checked there.

Fairness: `Step` is weakly fair because each request takes the context and ends
with it at the latest; `EndContext` because `Run` sets a timeout; `Send`
because the goroutine is runnable once `observe` has returned. `Observe` is not
fair: the comment on `awaitDiscovery` allows a client that never answers.
Each subscript is a variable that the action always changes, so weak fairness
means what it means with all the variables.

## 7. Report files

`ReportFiles` is a directory with any number of processes that call
`WriteReports` once and processes that call `GenerateMatrix` once. A writer goes
through the system calls of `atomicWrite` one at a time (`CreateTemp`, `Write`,
`Chmod`, `Rename`, `DeferredRemove`), for one format after the other; each may
fail, and `Kill` may end the process between any two. A reader lists names
(`Walk`), then opens and reads one file at a time, as two steps, since a file may
be replaced in between, and writes the matrix in the end; the listing, each read
and the write may fail. `Turns` are the turns of the loop over the formats, which
`slices.Compact` has rid of a format that repeats the one before it; a file is
named by its writer and its turn. `before` and `found` are history variables.

`ReportStore` is the promise of the comment on `WriteReports`: a report file goes
from absent or one complete report to another in one step, and a call that
returns no error has replaced all that it was asked for.

| Run | Instance | Shows |
| --- | --- | --- |
| `report_files` | two writers and a reader, eight requests (one and two formats, a repeated one, none, an unknown one, both base names) | the refinement, no torn file, no litter, that a call alone replaces everything even after a killed one, and that a matrix misses no report and fails only for a bad one |

Two writers suffice because a file name is the only thing they share, and the
reader meets at most two reports per name. The run stops when everyone is done,
so deadlock is not checked; no property is about progress, so no fairness is
assumed.

Two things are taken as given. A killed process leaves what it wrote: the code
calls no `fsync`, and what a power failure leaves is not modelled. And
`os.CreateTemp` draws no name twice. The deferred `os.Remove` runs after a
successful rename too, when its name is free again, so a writer that drew the
same name just then would lose its file; the names are random 32-bit numbers.

## 8. The hub and its seeder

`InventoryHub` is a namespace of ClusterProfiles that the seeder's processes and
*agents* (managers, controllers, administrators, with a client of either
version) write through typed clients. Each call is one step of the API server:

| Action | Code |
| --- | --- |
| `Start`, `CreateNamespace` | `hack/conformance-seed/main.go` 67-98 |
| `CreateProfile`, `GetProfile` | 112-145: create, or get what exists and check its manager |
| `SeedProfile` | 147-177: facts and two conditions, `UpdateStatus` |
| `Finish`, `Die` | 100-109 and 61-64: the loop ends; a call fails, or a signal |
| `AgentCreate`, `AgentRead`, `AgentReports`, `AgentUpdates`, `AgentDeletes` | what others may do; an agent writes the copy it read, however old |

Of the server, the module has what the CRDs ask of it: one stored object for
both versions, v1alpha2 clients prune `credentialProviders`, the cluster manager
is immutable, v1alpha2 wants it to be a label value, and a write of an outdated
version is a conflict. `objectNamePrefix` maps, cuts and trims names character by
character, since what could be wrong is there.

`ProfileLedger` is the promise: a profile has one manager while it exists, and a
report changes what it is about and nothing else. It is about what both API
versions have: the credential providers of v1alpha1 are not in the ledger, since
a v1alpha2 client prunes them. The API permits that loss;
`OnlyV1alpha2LosesCredentials` bounds who can cause it. In the ledger a report is one
step; in the hub it is a read, a pause and a write.

| Run | Instance | Shows |
| --- | --- | --- |
| `hub_race` | two seeders whose names of different managers collide, one with every kind of flags, a v1alpha1 agent, two runs each | the refinement, what exit code 0 means, that an undisturbed run succeeds, also after one that died, and what loses credentials |

Names are cut at `Limit` = 2 (40 in the code) and label values at `LabelLimit` = 4
(63), `SuffixLen` = 2, so that a name of three characters is cut, trimmed and
collides with another. `MaxWrites` = 3 stops the agents, not the seeders, and
`MaxRuns` = 2 allows a run after a failed one. A run stops when its bounds are
used up, so deadlock is not checked; nothing is claimed about progress.

Taken as given: the server does not validate a manager that an update leaves
alone; whether an update through v1alpha2 prunes the status it carries over is
left open (both are allowed); the namespace is not deleted. A call whose answer
is lost is the call followed by `Die`.

## 9. The informer factory

`InformerFactory` is `sharedInformerFactory` with its mutex, used by several
goroutines. A method that holds the lock takes as many steps as it has visible
effects, one per turn of the loop in `Start`. A call waits for the lock at a place
of its own (`Call`, then `Acquire`). `Sync` and `RunReturns` are the
goroutines of started informers, whose `Run` is client-go's: it may sync, and
returns after its stop channel is closed.

| Action | Code (`factory.go`) |
| --- | --- |
| `Call`, `Acquire` | a method is called; its `f.lock.Lock()` returns |
| `ForResource`, `Lookup`, `NewInformer` | `generic.go` 53-70, and `InformerFor`, 180-199 |
| `Start`, `StartInformer`, `StartReturns` | 124-146 |
| `RunReturns` | 139-142 |
| `WaitForCacheSync`, `Synced`, `WaitReturns` | 157-176 |
| `Shutdown`, `Drained` | 148-155 |
| `Close` | the caller closes a stop channel |

| Run | Instance | Shows |
| --- | --- | --- |
| `informer_factory` | two users, two types, a stop channel each; one makes three calls and one five in any order, or both make the usual ones, with `Start` called twice and an unknown resource, or one waits for the informers before it closes its channel, as the factory's documentation does, beside one that never closes | types, one informer per type that runs once, the refinement of `InformerLifecycle`, true answers of `WaitForCacheSync`, and that calls return |

The users' programs are constants, so every order of the calls that matter is
enumerated: before and after `Start`, `Shutdown` and the closing of a channel. Two
users are enough to hold the lock and to want it. `CallsReturn` says that a call
returns unless it is held up for good (`HeldUp`): by an informer that does not sync
while the channel of the wait is open, or by one that `Shutdown` waits for and whose
own channel is open. It assumes weak fairness of a user inside of a call, waiting for
the lock included, and of an informer whose channel is closed. A mutex that is free
goes to one that waits: programs are finite, so nobody can be overtaken for ever.
No server has to answer and nobody has to make another call, not even the one that
closes a channel. A return without `Unlock` violates it, and so would a method that
waited with the lock held. Users stop, so deadlock is not checked.

## 10. Caches and deep copies

`DeepCopies` lists, for both API versions, the fields of the Go types that hold
references, and what each `DeepCopyInto` does with them; `Paths` and `Fresh` are
computed from these tables. `ProfileCache` puts such objects into the cache of an
informer: `List`, `Watch` and `WatchBreaks` are the reflector, whose list and watch
functions apply the factory's options (`NewFactory`, `ListFunc`, `WatchFunc`);
`Get` and `ListThroughClient` are the listers and the typed client; `CopyHeld` and
`WriteCopy` are a consumer that copies what it got and writes to the copy, in
place. A cell names a slice in memory by the decoding or copying that made it (a
*round*, which is new, and the object) and its path, so a copy that shares one is
seen. `CopiesAreDeep` says that the tables of `DeepCopies` leave nothing shared.

| Run | Instance | Shows |
| --- | --- | --- |
| `profile_cache` | all four kinds, and four lists of options for one of them; a consumer, two namespaces, one change, one break of the watch | no write to a copy shows in the cache; the cache holds what the options select, and in the end all of it |

Slices are distinguished by path and not by index, since a `DeepCopyInto` treats all
elements of a slice alike. `CacheConverges` assumes weak fairness of `List` and
`Watch`: the server and the connection to it work again in the end, which
`MaxBreaks` gives. One consumer is enough, since a write to a slice of its copy that
the cache or the object it holds shares is seen whoever else looks; one change is
enough to be listed, watched or lost with the watch. A quiet server has nothing to do, so deadlock is not checked.

## 11. Proofs

Every theorem holds for all values of the constants that satisfy the modules'
assumptions: any number of builders, writers, seeders, users and consumers, any
bounds, any inventories, Secrets and options.

| Module | Theorem | States | Inductive invariant |
| --- | --- | --- | --- |
| `AccessBuildProofs` | `SharedConfigNeverChanges` | `ProviderConfigUntouched` | `NoLeak` |
| | `HubNeverPanics` | `Source = "hub"` implies `NeverPanics` | `HubInv` |
| | `BuildTypes` | `TypeOK` | `TypeInv` |
| | `AccessorsShareAnAuthenticator` | `OneAuthenticatorPerAccessor` | `BuildInv` |
| | `BuildImplementsPromise` | `KeepsPromise`: refines `AccessPromise` | `KeepInv` |
| `SpokeAccessProofs` | `CredentialsStayHome` | `ManagersDescribe` implies `NoForeignCredential` | `SpokeInv` |
| | `ConsumersNeverPanic`, `ConsumersKeepPromise` | what holds of builders holds of consumers | `HubInv`, `BuildInv`, `KeepInv` |
| `CredentialPluginProofs` | `ExitZeroMeansCredential` | `ExitZeroIsCredential` | `PluginInv` |
| | `FailuresAreJustified` | `FailureIsJustified` | `PluginInv` |
| `ConformanceRunProofs` | `RunTypeCorrect` | `TypeOK` | `RunInv` |
| | `ExitAgreesWithReport` | `ExitMatchesResult` | `RunInv` |
| | `SuccessesAreSound` | `SuccessIsSound` | `VerdictInv` |
| | `FailuresAreObserved` | `FailureIsObserved` | `VerdictInv` |
| | `UnobservedRunsAreNotAccepted` | `UnobservedIsNeverAccepted` | `VerdictInv` |
| | `AcceptedSubmissionsAreComplete` | `AcceptedSubmission` | `VerdictInv` |
| | `EveryReportIsValid` | `ReportsAreValid` | `VerdictInv` |
| `ReportFilesProofs` | `ReportFilesTypes` | `TypeOK` | itself |
| | `ReportsAreNeverTorn` | `NeverTorn` | `FilesInv` |
| | `NoTemporaryFilesPileUp` | `NoLitter` | `FilesInv` |
| | `SuccessfulCallOwnsItsReports` | `SuccessReplacesAll` | `FilesInv`, `OwnReports` |
| | `DirectoryIsAStore` | `WritesAtomically`: refines `ReportStore` | `FilesInv` |
| | `MatrixFailsForAReason` | `MatrixErrorIsJustified` | `FilesInv`, `WalkInv` |
| | `MatrixHasEveryReportOnce` | `MatrixIsComplete` | `FilesInv`, `WalkInv` |
| `InventoryHubProofs` | `HubKeepsLedger` | `KeepsLedger`: refines `ProfileLedger` | `HubInv` |
| | `ExitZeroMeansSeeded` | `SuccessMeansSeeded` | `RunsInv` |
| | `UndisturbedRunsSucceed` | `UndisturbedRunSucceeds` | `RunsInv` |
| | `CredentialsAreLostOnlyToV1alpha2` | `OnlyV1alpha2LosesCredentials` | `CredentialInv` |
| `InformerFactoryProofs` | `FactoryTypes` | `TypeOK` | `WaitInv` |
| | `OneInformer`, `StartIsSafe` | `OneInformerPerType`, `RunsOnce` | `FactoryInv` |
| | `FactoryKeepsLifecycle` | `KeepsLifecycle`: refines `InformerLifecycle` | `FactoryInv` |
| | `SyncReportsAreTrue` | `SyncReportIsTrue` | `WaitInv` |
| | `LockIsNeverKept` | who holds the lock is in a critical section | `FactoryInv` |
| `ProfileCacheProofs` | `CacheIsSelected` | `OnlySelected` | `SelectedInv` |
| | `CopiesAreOnesOwn` | `CopiesAreDeep` implies `ReadOnlyObjectsUntouched` | `ApartInv` |

Assumptions are those the modules name (`AccessAssumption`, `SourceAssumption`,
`SpokeAssumption`, `PluginAssumption`, `RunAssumption`, `FilesAssumption`,
`HubAssumption`, `NoneAssumption`, `FactoryAssumption`, `CacheAssumption`). They type
the constants, say that `None` is none of the values it stands beside, and TLC
evaluates them in each run. Four theorems have a hypothesis besides:

- `Source = "hub"` (`HubNeverPanics`, `ConsumersNeverPanic`): profiles come through
  the API server. For Go values that nothing validated the panic is real (`access_no_data`).
- `ManagersDescribe` (`CredentialsStayHome`), explained in section 4, is evaluated by
  `spoke_access`.
- `CopiesAreDeep` (`CopiesAreOnesOwn`) is a statement about the tables of
  `DeepCopies`, without constants or variables. `Paths` and `Fresh` are recursive
  functions over these tables, which the provers do not compute; TLC does, in the
  runs of `MCAccessBuild`, where `SelectAccessor` relies on the same fact.

The arguments, and why each invariant is what it is:

- *`NoLeak`.* `ProviderConfigUntouched` alone is not inductive: a step writes
  through `execConfig[b]`. `NoLeak` adds that this pointer is `None` or the
  builder's own location, and `Work(b)` is never a `Shared(i)`.
- *`HubInv`* of `AccessBuildProofs`. That an extension has data is a fact about the
  published status, so it is carried from `status` through each builder's `accessor`:
  `AdmitsV1alpha1`, the weaker of the two schemas, holds of every status, hence
  of every accessor copied from it, and so the panic branch of `ProcessEnvVars` is
  never enabled.
- *`TypeInv`* adds to the types that a builder in the loop has an accessor that some
  provider serves and an index into its extensions; then every merge yields an exec
  configuration. This needs that sorting returns a list: `SortFunc` picks by rank, and
  the lemmas before it prove that each rank occurs exactly once (`RankIsOnto`, by a
  least counterexample), so the result has each entry once in increasing order.
- *`BuildInv`.* Two calls that run apart can be compared only through what
  both compute. `History(a, n, h)` says that `h` lists the exec configurations
  before the loop over the extensions of `a` and after each of its first `n` turns;
  a builder in the loop holds the last of some history of its accessor, and two
  histories of one accessor agree (`HistoriesAgree`). The order of a map iteration
  does not appear in `AfterExtension`, which is what a turn is proved to do
  (`IterationEffect`).
- *`KeepInv`* relates a call to the promise: an accessor is the one that the promise
  selects from `content[b]`, and after `n` extensions the arguments, the environment and
  the configuration are the promised ones as far as those extensions say
  (`Progress`). `Progress` is assumed only of accessors whose extensions have
  different names, like the promise itself. The lemmas `ProgressNext` and
  `PromiseStep` then show that the step which returns is the promise's `Answer`, and
  that every other step is a stutter.
- *`SpokeInv`.* An address and a plugin's configuration that belong together stay
  together: in what is published (`Described`), in a builder's accessor, in the key of an
  authenticator (`HomeKey`), and in the credential that the plugin answers, the
  authenticator stores and a request carries (`HomeCred`). `SpokeStepIsBuilders` shows
  that every step of `SpokeNext` is one of `AccessBuild` or leaves its variables alone,
  so the theorems about builders carry over.
- *`PluginInv`* says at each place of the process what is in the buffer and
  in the pipe, that the status in hand is one that a Secret seen since the start of
  `GetToken` held, and that an exit code of 1 or 2 has an excuse. `StatusIsHeld` is the
  lemma that the code's order of tests finds a credential exactly where the
  documentation's description `Held` has one, `NamespaceIsPromised` that the
  namespace it infers is the documented one but for `Misread`, and
  `RefusalIsBadStart` that `Run` refuses only what nothing promises.
- *`RunInv`* is `TypeOK /\ Agreement`, and `Agreement` is `ExitMatchesResult`
  with the fact that no error is recorded before the run returns. With the lemmas
  on `Combine` (it returns the highest rank, and success exactly when every part
  is success) an error excludes success on each early return, and the two ways
  out of `Conclude` agree with the result computed in `Evaluate`.
- *`VerdictInv`* says what a returned report is made of: either one error was
  recorded and no check ran (`Aborted`), or its tests are the checks of the snapshot
  (`Verified`) and a submission was accepted by `ValidReport`; in both cases its
  statistics and results are computed from its tests (`Summarised`), and the snapshot
  holds what was observed (`Observed`). Each of the five verdict theorems is then a
  statement about the checks of one snapshot.
- *`FilesInv`.* `NeverTorn` needs to know that what is renamed is complete, so
  `WriterInv` says that a writer between `file.Close` and the rename has written
  its current file, and which turns it has behind it; `TempsInv` says whose a
  temporary file is. In the refinement of `ReportStore` the rename is the step in which
  a report changes, and every other step stutters.
- *`OwnReports`* adds to it that writers which had stopped when a call began
  have stopped for good, so that what a call alone has renamed is still there.
- *`WalkInv`.* A report that a walk found is still to be visited, or open, or one
  row (`Accounts`), and a report once there is never absent again, so a file that was
  replaced between two steps of a reader still counts for its name.
- *`HubInv`* of `InventoryHubProofs` says of every copy that somebody has read
  (`Seen`): unless the profile has been written since, it agrees with the
  profile in all that both versions show. Resource versions only grow, so a copy
  that is of the latest version is still true, and the write that the server
  admits is the step of the ledger. `StoreIsNew` is the lemma that a new version
  is nobody's copy.
- *`RunsInv`* adds how far a run of the seeder has come (`Progress`), that what it
  seeded stays seeded while nobody interferes, and that nothing stands in the way of
  its next call (`NothingInTheWay`). No two turns share a name (`TurnNames`), and the
  server takes every name that `objectNamePrefix` makes (`NamesAreTaken`).
- *`CredentialInv`* adds that the copy of a v1alpha1 agent which is still of the
  latest version has the credentials that are stored.
- *`FactoryInv`* adds to types (`Typed`): who is between two steps of a critical
  section holds the lock (`Exclusive`); an informer that was handed out is the
  one filed under its type (`Filed`); the wait group counts the goroutines, and
  what was run is filed, marked as started and run once (`Counted`). `Exclusive` says both ways round that
  the holder of the lock is the one in a critical section, hence `LockIsNeverKept`:
  `WaitForCacheSync` and `Shutdown` wait without it. Without
  `Exclusive`, two callers could each file an informer; without `Counted`, `wg = 0`
  would not tell `Drained` that nothing runs.
- *`WaitInv`* adds that what was started before a wait has been visited or will be
  (`WaitsFor`), and what each answer given so far rests on (`Answers`).
- *`SelectedInv`.* The cache holds only what is selected because everything that is
  under way on the watch is selected, too.
- *`ApartInv`.* Every object in memory was decoded or copied as a whole in one round
  (`MemoryInv`), and the rounds of a consumer's copy are not among those of what
  anybody reads: a finite number of rounds is in use, so a new one exists
  (`NewRound`), and what a deep copy keeps is nothing.

Only model-checked: liveness (`CallReturns`, `RunReturns`, `GoroutineEnds`,
`CallsReturn`, `CacheConverges`), which is outside of what the
proof system supports, as it is about fairness and so about ENABLED; the hypothesis
`CopiesAreDeep`, see above; and the four expected violations of section 12, which
are counterexamples and not theorems.

## 12. Disagreements between code and documentation

- `access_publish`: the argument extension must be a YAML list for
  `processClusterProfileSourcedCLIArgData`, and the CRD admits only objects, so
  a profile on a hub can never carry arguments.
- `access_no_data`: with a merging policy, an envs extension without data makes
  line 280 (or 292) write to a nil map. The comment there promises that the
  provider's variables are added. Only unvalidated profiles can reach it.
- `conformance_unknown`: an inventory without managed profiles gives `unknown`
  outcomes although no environment or access error occurred, which is what
  `conformance/README.md` says `unknown` means.

- `plugin_namespace`: when `KUBECONFIG` cannot be loaded as one file,
  `inferNamespace` answers `default`, in a Pod too, although the client is made from
  the Pod's service account. The comment on it promises the namespace of the Pod as
  the fallback, and the README of `kubeconfig-secretreader` promises the in-cluster
  namespace file before `default`. The plugin fails while the documented namespace
  holds the credential.

Two more were met while modelling. The models follow the code there, and no run
is about them:

- The README of `kubeconfig-secretreader` (line 30) says that it rejects
  kubeconfigs that use extensions; the code looks at those of the top level, and
  not at those of a cluster, a context or a user.
- The program in the comment on `SharedInformerFactory` defers `cancel` before
  the wait, so the wait runs first. With `Shutdown`, the method that waits, it
  would never end. The program is among those of `informer_factory`, where
  `CallsReturn` names the open channel as what holds it up.

## 13. Not modelled

Reading and parsing of the provider file, of flags and of command lines; the
wording of messages, the HTML template and the rendering of the matrix; the
`validate` command, which reads one file after another: no property is about
them. The construction of clients, patches and the fake clientset; resync
periods and transforms, which the factory passes on to client-go; the kubelogin
stub and the development scripts, which only start the parts above. Of
`PlacementDecision`, which has types and no behaviour of its own, only caching and
copying. `BuildExecCredentialJSON`, which no plugin calls. Formats of properties,
versions and time stamps are data. What client-go, the API server and the file
system do is modelled from how this code uses them.
