# A TLA+ model of argocd-mcp-server

argocd-mcp-server is an MCP server through which an AI agent reads and operates
Argo CD: it translates tool calls into reads and JSON merge patches of Argo CD's
custom resources, on any number of Kubernetes clusters ("instances"). It keeps
almost no state of its own. What makes it hard is that it acts, concurrently and
without locks, on objects that other clients and Argo CD's application
controller change at the same time, over a network that loses replies, and that
it promises to be safe: read-only gates, guards, attribution, authentication, an
admission policy and gauges that say whether that policy is in force.

The modules here model those parts, TLC checks them on small instances, and
TLAPS proves the most important of the results for every instance. `PROJECT.json`
lists the runs, the source lines each definition stands for (`map`), the hazards
and the findings. To check one run, or the proofs, in this directory:

    tlc -config ops.cfg MCToolMetrics
    tlapm OperationToolsProofs.tla

## The system

| component | source | state | interacts with |
|---|---|---|---|
| domain layer | `internal/argocd` | none: projections, guards, patches | every tool |
| write tools | `internal/mcpserver/tools_write.go`, `params.go` | the locals of each call | API server (GET, PATCH), counters |
| `app_refresh` | same | locals and a deadline | API server, clock |
| `app_wait` | `tools_read.go` | locals and a deadline | API server, clock |
| read tools and listings | same | the locals of each call | API server, one LIST per namespace |
| instances | `internal/instances` | the registry, fixed at startup | clients of each cluster |
| write guard | `internal/argocd/guard.go`, chart | a policy in the cluster | every patch |
| probes | `main.go`, `instance.go` | two goroutines, two gauges | API servers, one after the other |
| agent authentication | `internal/auth` | verifiers, fixed at startup | token files, the OIDC provider, the SDK |
| configuration | `internal/config` | `Config`, loaded once | file, environment |
| metrics | `internal/metrics`, `instrument.go` | counters and gauges | everything above |
| life cycle | `main.go` | two listeners, signal context, grace period | everything above |

A mutating call goes through the authentication middleware, the read-only gates
(`assertWritable`), a GET, guards computed from that GET alone, and a PATCH
without a `resourceVersion`. The controller takes `.operation` off the
Application, reports in `status.operationState`, and removes the refresh
annotation. Nothing ties the PATCH to the object the guards judged.

What would be wrong, component by component:

* write tools: an operation that mixes two callers' requests; an answer or a
  counter that says something other than what happened; a write on a read-only
  instance; a guard whose advice does not help.
* `app_refresh` and `app_wait`: an answer about another refresh or another
  operation than the caller's; waits that end early, late or never.
* write guard: a patch that slips through because it is merged into something,
  or a tool that no longer works under it.
* probes: an unknown state reported as safe; one cluster hiding another.
* listings: an object left out, shown twice or counted for another's owner,
  because an answer is put together from LISTs of different moments.
* tool metrics: a label, read off the text of an answer, that tells another story
  than the counter the handler keeps.
* life cycle: a process that does not end when told to, an exit code that says
  something else than what happened, a metrics server that takes the tools along.
* authentication: someone served with a token that was rotated out, someone
  locked out who held a valid one, attempts counted twice or not at all.
* configuration: a combination that is accepted and then does something else
  than it says, or fails later.

## Modules

| module | what it is | main correspondence |
|---|---|---|
| `ArgoDomain` | constant operators: reading an Application, guards, `SyncPatch` | an Application's operation is a function from the paths of its leaves to values, so that a merge patch is a point-wise override |
| `GatedCall` | abstract: what a mutating tool promises | admitted calls, answers, effects |
| `OperationTools` | `app_sync`, `app_rollback`, `app_terminate_operation`, API server, controller, other clients | `AppSync`, `AppRollback`, `AppTerminateOperation` are the handlers up to their PATCH; `PatchSucceeded`, `PatchFailed` what follows it; `wire` and `patch` are the request on its way |
| `OperationToolsProofs` | theorems about `OperationTools` | |
| `ToolHelpers` | `clamp` | |
| `RefreshTool` | `app_refresh` with a clock | one action per select, sleep and answer of the loop |
| `WaitTool` | `app_wait` with a clock, on an Application that may become anything | `Decide` is the body of the loop |
| `FollowedSync` | `OperationTools` and `WaitTool` composed | `INSTANCE WaitTool` with the Application of `OperationTools`; `fate` is what became of each operation |
| `WriteGuard`, `GuardedTools` | the admission policy; `OperationTools` with patches passing through it | the policy judges the object after the merge |
| `ToolMetrics` | `GuardedTools` in the wrapper that counts calls by their answers | a text is the set of the words `classifyResult` looks for in it, among them those of the names and strategies it quotes; `toolCalls` is a bag of labels |
| `Probes` | `probeInstances`, `probeWriteGuards` and their gauges, until the signal | `ListApps`, `TryPatch` are the two requests of `CheckWriteGuard`; `Stop` is the signal, `Leave...` what becomes of a loop after it |
| `AgentAuth` | verifiers, rotation of token files, claims of JWTs, the middleware's verdict | one action per file read; `user` is the one string the code has, `StaticID` of a name or a claim; `Refusal` is 500 where OIDC's error ends the chain |
| `ServerConfig` | from the configuration to registry and verifiers | one action per phase of startup; `Kubeconfigs` is what the mounted files say, `CanBeBuilt` and `IssuerCanBeAsked` what building parses and `Validate` does not |
| `Lifecycle` | both HTTP servers, the signal, the shutdown | `main` is where `run` is; `Look`, `LookAgain` and `GiveUp` are the loop of `http.Server.Shutdown` |
| `Listings` | `apps_list`, `projects_list`, `appsets_list` while objects come and go | one action per LIST; `always` and `ever` remember what was there |
| `RefreshToolProofs`, `WaitToolProofs`, `ProbesProofs`, `AgentAuthProofs`, `ListingsProofs` | theorems about these modules | |
| `ProcessProofs` | theorems about `ServerConfig` and `Lifecycle` | the process from its configuration to its exit |
| `CompositionProofs` | theorems about `GuardedTools`, `ToolMetrics` and `FollowedSync` | what is put around `OperationTools` implements it |

Each `MC*` module gives the constants of its `.cfg` files their values. An
operator introduced by a comment "Fault:" is not part of the model: it is a
plausible slip in the definition that follows it, and with it in place TLC
finds one of the properties violated (`mutants` in `PROJECT.json`).

Assumptions shared by the modules:

* gates, GET and guards of a write are one step. What they compute depends on
  the object read alone, so only the distance between GET and PATCH matters,
  and that is unbounded;
* there is one Application per instance, standing for the one a call names; any
  other name is a GET that fails. Settings (spec and history) do not change
  during a behaviour;
* a patch may be applied, refused, or applied with the reply lost; a cancelled
  call may leave its patch on the wire;
* the controller and the other clients are external, modelled from how the
  source relies on them: `.operation` disappears when it is picked up
  (`types.go:119`, `e2e_write_test.go:143`), the annotation when it is reconciled
  (`gvr.go:17`). Writing `Terminating` to an Application nothing is executing on
  has no reader: the controller looks at the phase of what it executes;
* other clients come through the Argo CD API server, which serves them only on
  an idle Application, as `operation.go:145` says. That check and the write are
  one step: the races shown are this server's own;
* clocks count seconds, all that `reconciledAt` can tell. A PATCH takes any
  number. A poll is assumed to take less than one: its GET has no timeout of the
  client's (`tools_write.go:157`, `tools_read.go:263`), so the bounds on waiting
  are bounds on the loops' own sleeping, and hold while the API server answers
  quickly. Tick waits for polls that are due;
* refreshes that others ask for, by the CLI or the UI, are only the annotation
  that may be there when `RefreshTool` begins: one that came later could excuse a
  pending answer, or replace a hard refresh, as another call's does;
* strings are atoms: a URI is what it parses to, a JWT what it claims.

## Runs

Passing runs, with what they show:

| run | constants | shows |
|---|---|---|
| `ops` | 2 calls, 2 instances, 1 foreign operation, every combination of gates and guard | attribution survives merged patches; gates hold whichever instance is named, or none; the metric brackets the writes; under the guard no source override is this server's; labels of calls agree with the counters wherever no name or strategy they quote has one of the words; the tools implement `GatedCall` |
| `refresh` | 2 calls, waits of 2 and 3 seconds, clock to 4, fairness | a completed refresh saw a reconcile, pending is honest, a hard refresh is lost only to a normal one of another call; waits pass their deadline by a second at most and end; the metric counts patches; `app_refresh` implements `GatedCall` |
| `wait` | 1 waiter, all intervals around the clamps, fairness | deadlines are kept; waits end |
| `follow` | 2 calls, 1 follower, 1 foreign operation | "reached" is never about the time before the caller's operation; an operation is one request, whole, unless writes overlapped |
| `probes` | 2 instances, fairness of the loops | unknown is never safe, not even of a probe the signal cut short; lasting conditions are reported for good while the server runs |
| `auth` | 2 requests, 3 static tokens, 7 JWTs, one with the user name "static:ci" | who is served and who is turned away, be it with 401 or 500, while files rotate; a JWT with all that is required is served, in whichever claim its scopes are; attempts are counted under the label of their outcome |
| `server` | 2 tool calls, 1 scrape, with and without a metrics server, fairness of `run` and of time | the exit code says what happened; the process ends when it must, whatever hangs |
| `listings` | 2 namespaces, 2 Applications, 1 project, 1 ApplicationSet, 2 statuses | nothing that was there all along is left out, nothing is shown twice; counts lie between what was owned throughout and at some time |
| `config` | every kind of instance, kubeconfig and authentication with the overrides of the environment, texts that do and do not parse | what is accepted can be built, but for the texts only building parses, and means what it says |

`ops` runs `ToolMetrics`, which is `GuardedTools` with one more counter: where no
instance enforces the policy, its behaviours are those of `OperationTools`, so
the theorems below and the run are about the same tools.

`OperationIsOneRequest` is the strongest statement that is true: the guard
against operations in progress keeps requests apart only while they do not
overlap: two callers that read the same idle Application both have their patches
applied. What does hold then too is `AttributionConsistent`, because `SyncPatch`
always writes both the revision and the initiator. `HardOnlyLostToNormal` and `PendingIsHonest` name in
the same way the only excuse there is.

## What disagrees

Runs that find a violation; each checks one sentence of the repository, quoted
in `PROJECT.json`:

| run | what the trace shows |
|---|---|
| `follow_failure` | the failure of the previous operation is reported for the queued one |
| `guard_tools` | the policy denies `app_rollback`, which always names a source |
| `auth_either` | a valid static token, 403: OIDC's required scopes apply to it |

Met while modelling, without a run of their own (the modules have the behaviour):

* two callers read the same idle Application, neither is refused, and both
  patches are applied (`tools_write.go:101`), where `docs/architecture.md:120` has
  a sync refused while one is queued;
* a multi-source history entry has no `revision`, so that its rollback is always
  an error (`operation.go:52`), where `docs/architecture.md:111` says it is taken
  from the history;
* an operation may end while its termination is on the way; the phase then says
  `Terminating` with nothing left to terminate, and the advice of
  `operation.go:150` to wait does not help (`tools_write.go:254`);
* a queued operation is refused a second sync with the advice to call
  `app_terminate_operation`, which refuses too until the controller has started
  it (`operation.go:154`, `tools_write.go:246`);
* a reconcile between the GET and the PATCH of `app_refresh` counts as the one
  asked for (`tools_write.go:162`), and a normal refresh replaces a pending hard
  one, which is then "completed" (`operation.go:132`);
* `app_wait` says "timed out after" the caller's timeout up to a poll interval
  early, at once when the interval is the longer (`tools_read.go:278`);
* it goes on polling after an operation that succeeded on an Application that is
  OutOfSync, where `README.md:114` says it ends (`tools_read.go:273`);
* `amcp_write_guard_active` is documented for the credentials (`metrics.go:54`)
  and probed in the primary namespace only (`instance.go:135`);
* `classifyResult` labels by the words in an answer, and answers quote names: an
  error about an Application called "readonly-demo" counts as blocked
  (`instrument.go:52`, `docs/metrics.md:12`), and so does a call to an unknown
  instance where any instance has such a name, for the error lists them all, and a
  sync with a strategy called "readonly", which `SyncPatch` quotes
  (`operation.go:47`);
* `instanceLabel` is said to be the "resolved instance name" (`instrument.go:25`)
  and is what the caller wrote: every misspelling is a series of its own;
* the signal cancels the probe that is being made, and `amcp_instance_up` becomes 0
  for an instance that is reachable (`main.go:172`, `docs/metrics.md:15`);
* the metrics server is closed before the MCP server is drained: calls that end
  during the drain are counted where nobody can scrape them any more. A hanging
  scrape uses up the ten seconds both servers share, during which the MCP server
  goes on accepting calls, and is then cut off at once; the error of the first
  shutdown is discarded (`main.go:162`);
* `instances_list` has no timeout per instance, where the background probes have
  one: a silent API server holds up the answer about all (`tools_read.go:54`);
* `app_resources` says "everything is Synced and Healthy" of an Application that
  has no resources (`format.go:208`);
* an unauthenticated caller is said to be answered 401 (`README.md:64`,
  `docs/auth.md:95`), and is, without a token. A token that no verifier accepts is
  answered 500 once OIDC is enabled: the chain returns OIDC's error, which does not
  wrap the SDK's `ErrInvalidToken` (`auth.go:140`, `oidc.go:54`);
* a JWT whose user name is "static:ci" is attributed as the static token ci is:
  the user is one string (`static.go:60`, `oidc.go:73`);
* a kubeconfig may disable TLS verification, bring no CA or no token; no warning
  says so, for warnings are about the entry's own fields (`config.go:395`,
  `credentials.go:40`);
* outside of the explicit mode those warnings are given all the same, so that one
  says that `tokenFile` takes precedence where neither it nor `token` is used
  (`config.go:387`);
* `Validate` accepts a `certificateAuthorityData` that is not base64 or no
  certificate, a `server` that is no address and an issuer of which only the
  prefix is right; the server then fails to start (`credentials.go:56`,
  `instance.go:49`, `oidc.go:28`);
* it also takes a `certificateAuthorityData` of line breaks alone for a CA; decoding
  leaves nothing of it, and the client trusts the system's CAs (`config.go:309`,
  `credentials.go:56`);
* `scp` and the groups claim may be a string, which, unlike `scope`, is not split:
  a space-separated one grants nothing (`oidc.go:97`, `oidc.go:123`);
* an `AMCP_READ_ONLY` that does not parse is ignored silently (`config.go:216`),
  and `AMCP_AUTH_STATIC_TOKEN` enables the static method but not authentication
  (`config.go:226`).

### Bounds

Every bound is a constant: `MaxOther` (operations of other clients), `MaxTime`
(the clock), and the sets of calls, instances, arguments and settings. A merge
needs two writers: two calls, or a call and the other client, with the
controller between them. The arguments differ pairwise in author, revision,
strategy and source, so that a mixture shows, and include an invalid sync, a
history entry that is not there, an empty name and an unknown instance. Gates
need two instances, one of them the default. The clocks leave room for the
longest wait of the arguments; a call that would not
end before the clock does is not begun (`BeginWait`) or not taken up
(`Patched`). In `refresh` a wait of 2 seconds begins at 0 or 1 and ends on a poll;
one of 3, which begins at 0, has its last sleep end at 4, a second past its
deadline, where `WaitsBarelyLonger` is tight. `toolCalls` is a bag and as small as the calls are few. Two
namespaces and one ApplicationSet make two sets of the same name, one whose
count fails and one whose does not, and an object that goes before its namespace
is listed and one that comes after. Two tool calls and a scrape leave one call
served and one cut off at the exit, and a scrape that takes the time of both.
Symmetry is used for calls and requests, in runs of safety properties only: the
tools treat them alike.

Calls are finitely many and are made once, and the process ends, so most runs may
stop and say `CHECK_DEADLOCK FALSE`; `Probes` (clusters go on changing) and
`AgentAuth` (files go on being rotated) never stop, and are checked for deadlock.

### Fairness

Only what the code or Go's runtime provides. A handler goroutine that can go on
does (`WF` of its steps), a PATCH is answered, applied or lost (the client's
transport gives up in the end), `time.After` fires (`WF(Tick)`), tickers tick
and a probe ends with its timeout. The controller is never fair: refreshes and
waits end without it. Nor are clusters, administrators and rotations. In
`Lifecycle` only `run` itself and time are fair: no listener need come up, and no
request need end.

## Proofs

Each `...Proofs` module proves its theorems for all constants that satisfy the
named assumptions of the module it extends. The form is always the same: the
properties are conjoined with what they rest on, `IndInv`; one step per action
shows that it is kept; the temporal steps come last.

| module | theorems | what the properties alone lack |
|---|---|---|
| `OperationToolsProofs` | `TypeCorrect`, `AttributionHolds`, `ReadOnlyHolds`, `MetricBrackets`, `PromiseKept` | `CallInv`: a patch on its way comes from a call the gates let through and is an attributed operation; a refused call has none. `CountInv`: every call whose patch was sent is counted once, when it ends |
| `RefreshToolProofs` | `TypeCorrect`, `CompletedIsTrue`, `PendingIsTrue`, `HardIsKept`, `DeadlineKept`, `PatchesCounted`, `PromiseKept` | `WireInv`: how far a call is tells where its patch is; `SeenInv`: a timestamp that changed, or an annotation that is gone, is a reconcile since the call began, and one that is back is another call's; `HardInv`: where a hard refresh was applied and the annotation is normal, a normal one was applied too |
| `WaitToolProofs` | `TypeCorrect`, `DeadlineKept` | `SleepsInTime`: no sleep is begun that ends after the deadline |
| `ProbesProofs` | `TypeCorrect`, `SafeIsRejected` | `FoundInv`: what is found and not yet published is about the instance the loop is at |
| `AgentAuthProofs` | `TypeCorrect`, `ServedHeld`, `HolderPasses`, `GoodJwtPasses`, `AttemptsCounted` | `VerifyingInv`: who holds the token now lies between who held it all along and who did at some time, and nobody whose file has been read held it all along |
| `ProcessProofs` | `TypeCorrect`, `ExitIsExplained` | `AliveInv`: a drain was asked for, and what is in `errCh` is the MCP server's |
| | `FailureIsUnchecked`, `OneWayInHolds`, `WarningsAreTrue`, `NamespacesListedOnce`, `VerifiersHold` | `StartupInv`: from each phase on, what it has established: the environment counts, the configuration is valid, the registry is built from it, the verifiers are those enabled |
| `ListingsProofs` | `TypeCorrect`, `ListingsComplete`, `OwnedCounted` | `TodoInv`, `RowsInv`: the namespaces left are distinct; those listed have a row for what was there all along, those left have none. `OwnedInv`: the same of the counts. `TodoIsARest`: the namespaces left are the last of those to be searched, in order |
| `CompositionProofs` | `GuardedIsTools`, `MeteredIsGuarded`, `DeployedToolsKeep`, `OverridesAreOthers`, `LabelsAgree` | the refinement `GuardedSpec => Spec`, by which `CallInv` holds under the policy too; `SourceInv` is the property itself, said of the absent operation as well; `BagInv`: the wrapper's bag is one |
| | `FollowedIsTools`, `ReachedIsAfter`, `OneRequest` | `FateInv`: a call whose operation is queued has something queued on its instance, one that is running has something executing there, and only calls answered "ok" are followed. `WholeInv`: where writes have not overlapped, what is queued, executed or on the wire is each one request, and nothing is queued while a write is on the wire |

In `OperationToolsProofs` the assumptions are that each argument's tool is one of
the three, that the default instance is configured, and that other clients'
operations are operations and attributed. The lemmas about the domain come first:
what `SyncPatch` always emits, and that `MergePatch` of two attributed operations
carries revision and initiator of one of them, the second. `PromiseKept` is
`Spec => ImplementsPromise`, by the refinement mapping of `Promise`: a call's
effect is the arrival of its patch.

`GoodJwtPasses` is an action property and needs of the invariant only that a
request is verified by OIDC where OIDC is enabled: the scopes the middleware asks
for are then those the verifier has found.

`AttemptsCounted`, `MetricBrackets`, `PatchesCounted` and `OwnedCounted` are about
cardinalities and assume that the requests, the calls, or the Applications and
their sets are finitely many. In the first, each counter is as much as the
requests decided with the outcome of its label, and a step that counts gives
exactly one request its outcome. The next two need more than the property: a patch may be applied
after its call has ended with an error, when nothing is counted any more, so what
the counters add up to is the calls that ended, not the patches that were applied.

`CompositionProofs` rests on three refinements, `MeteredSpec => GuardedSpec`,
`GuardedSpec => Spec` and `FollowedSpec => Spec`: the policy takes steps away, the
wrapper and the followers only look on, so that what is proved of
`OperationTools` holds of all of them. `DeployedToolsKeep` says it of the
specification that `ops` checks.

The theorems about startup assume that what is read has the form of a
configuration or a kubeconfig's, and that the empty string is no DNS label (`nameRe` asks for a
character). `NamespacesListedOnce` is about lists of any length, where induction
is out of the provers' reach, for the library's induction theorems take operators
as parameters. What takes its place is `LeastNumber`, that a set of naturals has a
least element, from the well-foundedness of `<`: the least length for which what
`Namespaces` computes were wrong, or did not exist, would be neither zero nor one
more than another. What it proves is what `Listings` assumes of `Namespaces`
(`NamespacesAssumption`).

Every safety property the passing runs check is proved. Only model-checked is
liveness under fairness, for tlapm does not reason about `ENABLED`:
`EveryRefreshAnswered`, `EveryWaitEnds`, `MissingIsReported`,
`ReachabilityIsReported` and `EndsWhenItMust`. That the composition with
`FollowedSync` keeps the deadlines of `WaitTool` is not stated: its followers may
name an instance that is not there, for which `WaitTool` has no Application.

## Not modelled

* `app_get`, `app_resources` and `app_history` read one object once and show it;
  `instances_list` makes the requests of the probes, one instance after the other;
* rendering (`format.go`), logging, tool descriptions, build info, latencies and
  client-go's request metrics: no property is about them;
* `/healthz` and `/readyz`: they answer for themselves and change nothing;
* YAML parsing, base64, URLs, TLS, JWT signatures and HTTP: atoms of `ServerConfig`
  and `AgentAuth`, where `world`, `Certificates`, `Addresses`, `URIs`, `content`,
  `Claims` and `provider` stand for their outcomes;
* the fields of Applications, AppProjects and ApplicationSets that are shown and
  nothing more (`types.go`);
* chart and manifests: the RBAC tiers they grant are `patchable` in `Probes`.

## Plan

Order of importance; the first seven are done.

1. `ArgoDomain`, `OperationTools`, `GatedCall`: the write tools, their races and
   their promise; type, attribution, gates and promise proved.
2. `RefreshTool`, `WaitTool`, `FollowedSync`: the clocks and the composition.
3. `WriteGuard`, `GuardedTools`, `Probes`: the policy and what is said of it.
4. `AgentAuth`, `ServerConfig`: who may call, and startup.
5. `Lifecycle`: the shutdown against calls that last longer.
6. `Listings`: several namespaces, read at different moments.
7. `ToolMetrics`: the wrapper and its classification against what happened.
8. `HistoryTool`: `app_history` followed by `app_rollback` on a history that is
   cut or begun anew in between; `OperationTools` keeps it as it is.
9. Proofs left: that `FollowedSync` implements `WaitTool`, and an abstract
   specification of authentication that `AgentAuth` implements.
