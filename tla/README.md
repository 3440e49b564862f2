# nXCC in TLA+

Specifications of the core of an nXCC node (`src/node/`): how secrets are made
and shared between enclaves, how nodes attest each other, how work orders become
running workers, how events reach them, and how the VMs run them. Each module is
translated from the Rust source; the table `map` of `PROJECT.json` says which definition
stands for which lines.

TLC checks small instances. TLAPS proves for every instance all safety
properties of the secrets service, secret sharing, the scheduler, the runner, work orders,
the two VMs and attestation.

    tlc -workers 2 -config EnclaveSecrets_lives.cfg MC_EnclaveSecrets
    tlapm EnclaveSecretsProofs.tla

## The system

A node is a **daemon** and an **enclave**, two processes that talk gRPC, and
the **VMs** (workerd, zenroom) in which the enclave runs workers and policies.
Daemons talk to each other over gossip. The daemon is not trusted: it moves
sealed boxes and reports about, and the enclave decides by itself.

| part | source | state | operations | talks to |
|---|---|---|---|---|
| enclave secrets service | `enclave/src/secrets/`, `crypto.rs` | secret store, authorizations with expiry, one ephemeral keypair per process | put, generate, get, check, store/check authorization | called by its daemon; boxes reach other enclaves |
| daemon secrets service | `daemon/src/services/secrets.rs` | request counter, pending requests with one-shot responders, timeout tasks | get_secrets, incoming request, incoming response, two finalizers | own enclave (RPC), policies (via runner), gossip |
| peer-to-peer network | `daemon/src/network.rs` | swarm, one loop, channels | publish, receive, reply | daemon secrets service |
| work order orchestrator | `daemon/src/services/work_order_orchestrator.rs` | active work orders, HTTP mounts | submit | policies, secrets, enclave runner, scheduler, listeners, event queue |
| scheduler | `daemon/src/services/scheduler.rs` | heap of events, work orders tracked | add, remove, stop, fire | event channel to the forwarder |
| event pipeline | `daemon/src/main.rs` | bounded queue, batch | forward scheduled events, batch, deliver, shut down | enclave runner |
| daemon runner service | `daemon/src/services/runner.rs` | attached VMs | attach, run, execute policy, terminate | enclave runner |
| web3 listener, gateways | `daemon/src/web3/` | provider per chain, subscription | connect, retry, subscribe, filter | event queue |
| HTTP server, policy manager, configuration | `daemon/src/` | registries | routing, fetching, parsing | all daemon services |
| enclave runner | `enclave/src/runner/` | attached VMs, worker map, dead-worker map, event queue | attach, detach, run, terminate, execute, invoke, logs, deliver | VMs |
| attestation | `attestation/`, `enclave/src/attestation.rs` | none | make and verify reports, freshness by block hashes and Merkle proofs | secrets service |
| VM base, workerd, zenroom | `vm/` | log buffers, processes, workers | start, stop, invoke, stream logs | enclave runner |
| identity contract | `contracts/evm/` | tokens with policy URLs | mint, update, transfer | policy manager |
| SDK, CLI, infra, e2e, benchmarks, docs | | client side and tooling | | |

What is hard in it:

* **Concurrency.** Every service is called from many tasks. The enclave reads
  the clock before it waits and locks; the runner has three maps behind three
  locks; the orchestrator checks for duplicates long before it records.
* **Races for one thing.** A timeout and a response want the same request; two
  calls miss the same secret.
* **Unreliable messages.** Gossip is lost, late and reordered; a box may reach an
  enclave that has restarted with another key, or be replayed.
* **Crashes.** Nothing is persisted; a restart loses the store and all approvals.
* **Bounds.** The event queue holds up tasks, one of which keeps a lock meanwhile;
  log buffers, pipes, channels and retries have limits.
* **Processes.** A VM starts, kills and probes processes that exit, print and
  answer when they like, while other calls for the same worker go on.
* **Time.** Schedules are served by a task that may be late; approvals expire.

What makes each part correct:

* secrets service: a secret gets into an enclave only with the consent of its source,
  and of the receiver for what its daemon lists; one value per life; nothing is rolled
  back;
* daemon secrets service: every call is answered, once, and Ok means the secrets
  are there;
* scheduler: the heap is exactly the live schedules; never too often, never too
  early, never for a removed work order, and eventually where its policy asks for that;
* runner: the maps agree with each other, and with the VMs wherever these have answered;
  nobody waits for ever;
* orchestrator and pipeline: only authorized bundles start and policy workers end;
  launch comes first in the queue; events are neither repeated nor reordered, and lost
  only with a delivery that failed, until shutdown; submissions return;
* listeners: what reaches a stream is delivered once and in order, or skipped by a stream
  that lagged; they end at shutdown;
* VMs: a process that is up can be stopped, a stop means it has gone or is dying; success
  is the complete output; logs stay bounded and what a follower misses is known; starts
  and invocations return;
* attestation: what is accepted is bound to its user data and current, and its claims are
  those of its evidence; what is refused has a cause.

`PROJECT.json` lists 40 hazards with the lines at which they bite and the properties
that would catch them going wrong; what no property can cover is listed below.

## Modules

| module | models | notes |
|---|---|---|
| `SecretStore` | the data and pure operations of the secrets service | no variables; shared by the next two |
| `EnclaveSecrets` | secrets services of several enclaves with arbitrary daemons | fine-grained: each call is two steps |
| `SecretLedger` | what all enclaves together promise about secrets | abstract; implemented by `EnclaveSecrets` and by `SharingLedger` |
| `EnclaveSecretsProofs` | theorems about `EnclaveSecrets`, the refinement among them | TLAPS |
| `SecretSharing` | daemons that obtain secrets from each other over gossip, each with its enclave | one enclave RPC per step |
| `SharingLedger` | `SecretSharing` with a history of what was given out | states that it implements `SecretLedger` |
| `Scheduler` | the scheduler task | |
| `EnclaveRunner` | the runner, its locks and its event task | |
| `SecretSharingProofs`, `SchedulerProofs`, `EnclaveRunnerProofs`, `WorkOrdersProofs`, `WorkerdVmProofs`, `ZenroomVmProofs`, `AttestationProofs` | theorems about the modules they are named after | TLAPS |
| `PolicyManager` | what a fetch of a bundle or a policy comes to | no variables; used by `WorkOrders` |
| `Gateways` | choice and connection of gateways, the filter of logs | no variables; used by `WorkOrders` |
| `WorkOrders` | start of the node, submission with its policy checks, listeners, HTTP requests, queue, batches, shutdown | composes the daemon's parts |
| `LogBuffer` | the log buffer of a worker | no variables; used by `WorkerdVm` |
| `WorkerdVm` | the workerd VM and its log manager | |
| `ZenroomVm` | the Zenroom VM | |
| `Attestation` | generation and verification of attestations, freshness proofs | |
| `MC_*` | instances for TLC: functions and schedules given as definitions | |

Every module with variables has a type invariant `TypeOK`, which is a conjunct of one of
the invariants that the runs check (`Custody`, `OneOwner`,
`HeapMatchesLedger`, `WorkerMapConsistent`, `ActiveFirst`, `NoOrphan`, `NoStrayProcess`,
`AcceptedIsBound`).

Definitions named after a mutation (`ReplacesEqual`, `TakeEventBreaks`, ...)
stand before the definition they distort. They are not used by the
specifications: each shows that a property notices a plausible mistake.

### SecretStore and EnclaveSecrets

A key is an enclave and a *life* of it, because `new_with_keypair` runs once per
process. A secret value, 32 random bytes, is the key of the life that drew it and
a counter. A box is its plaintext with sender and recipient: only the recipient's
keypair opens it, and its additional data covers nothing but the two keys
(`crypto.rs:156`, `215`). The list of ids beside the box (`contained_secret_ids`) is
neither encrypted nor authenticated, so `PutBegin` takes any box with any list. An authorization table maps (key, secret, consumer) to an
expiry; 0 is a missing entry, which the code treats like an expired one.

`put_secrets`, `generate_secrets` and `get_secrets` read the clock, await, and
then lock. Each is `...Begin`, which records the time, and `...Commit`, which
does everything under the lock; anything may happen in between. Liveness of a
secret is judged at the recorded time, authorization at the current one, as in
the code. `GenerateCommit` generates any subset of the authorized ids that do not
exist: the ids come in the order of the request, and the first that exists, or a
failing random source, ends the call with the earlier ones kept. The values one
call draws share one counter; they belong to different secrets.

Daemons are arbitrary: any operation, any box ever produced, any report that can
exist. `consents` is a history of approvals, `unlisted` one of what came out of a box
whose list did not name it: the receiver checks its approvals for the list and stores what
decrypts. `minted` is the counter.
`put_secrets` takes a list of bundles; the daemon always passes one.

`SecretLedger` says the same without keys, policies, clocks, calls and processes:
one register per holder and secret, which is drawn once, adopted from what was
given out if that is newer, and forgotten with all others. At the start a holder may have
values of its own. The mapping from `EnclaveSecrets` is direct: registers are the stores, and
what was given out is the contents of all boxes. Begin actions, clocks and approvals are stutters.

### SecretSharing

`caller[c]` follows `get_secrets` through `check_local`, the policy run for the
node itself, publishing and waiting. `pending`, `timers` and `tasks` are the
pending map, sleeping timeout tasks and finalizers; the responder is wherever the
caller's name is. `handle_incoming_secret_batch_response` keeps the pending map
locked over its awaits, so it is one step. The request handler is two, and the
loop of the node (which awaits it) receives nothing meanwhile. The threshold is
1, as the code sets it. Policies are programs run elsewhere: any verdict. A
message can stay in an inbox for ever (loss) and inboxes are sets (reordering).
Every enclave call may fail.

A message leaves its inbox when it is received, so the state does not say what was given
out. `SharingLedger` adds the history `sent`: the contents of every response a step puts
into an inbox. With it the same mapping as above shows the daemons' protocol to be an
implementation of `SecretLedger`: `Generate` draws, `Put` adopts, `SendResponse` gives,
and everything else that callers, timeouts, finalizers and the network do is a stutter.

### Scheduler

`run()` waits for a command with a timeout, so an event fires only when no
command is queued (the poll order of `tokio::time::timeout`). `fire_ready_events`
takes every ready event out of the heap, counts it, and puts back what
`should_reschedule` keeps with a time computed from *now*. Any lateness is
possible. A schedule carries its lateness policy (`catch_up`, `max_lateness`) as it does
in the code, where no step looks at it. `Stop` is what the code does: a command without
effect. `ledger` is a history with one entry for each accepted schedule.

### EnclaveRunner

The holder of the write lock of `vms` and the event task's read lock of
`worker_map` last over awaits and are state; short critical sections are single
steps. `Receive` is the gRPC service; `run_worker` names any worker and any VM, also one
that runs elsewhere. `run`, `terminate` and `detach` go through
`locked` and `write`, where they need `worker_map` too. `execute_policy`,
`check_worker_status` and `invoke_http_worker` are `invoke`: find, lock, one RPC.
`running[v]` is what VM `v` really runs (external). A start or stop that brings no answer
(`NoAnswer`) may have happened or not. `Drop` is a handler that is dropped at an await,
with its lock, because the daemon's own caller went away. `lost` is a history of the pairs
of VM and worker of which the runner cannot know, or has overwritten what it knew: the
exceptions of `MapMatchesVms`.

### WorkOrders, PolicyManager and Gateways

`phase` is that of `main`: connecting to the enclave with a bounded number of
attempts, attaching VMs, up, shutdown, exited or failed. `submission[s]` goes
through `submit_work_order` stage by stage: the duplicate check, the bundle
(`FetchBundle`, by `FetchWorkerBundle`), for each identity a policy
(`Authorize`, by `GetPolicy`) whose worker is run, executed and terminated
(`check_policy_for_env`), the secrets, `run_worker`, activation, the launch event,
and the event sources. A source serves anything of `Served` or `Manifests`
at each fetch. `approved` is a history of what policies approved.

The queue is bounded; `Enqueue` waits for room, and fails when the receiver is
gone. The forwarder takes an event and holds the read lock of
`active_work_orders` until it is queued. A listener connects by the provider of
its gateway, or by new connections to its URLs; subscribes; takes logs, filters
and queues them; and waits before it tries again. Its subscription buffers `StreamSize`
logs and skips the oldest while the listener is elsewhere. `seen`, `delivered` and
`lagged` are histories of one listener. Its `select!` looks at the shutdown signal first, but not
while it waits for the queue or for a connection. `TakeQueued` and `SendBatch` are
the batch task: it sends when the batch is full or the queue empty, and drops the
batch on an error. A call that fails may have delivered any first part of it
(`Delivered`): `handed` is what was passed on, `received` what the enclave got and
`missed` the rest. `ClientGone` drops a submission, which the handler awaits itself
(`http_server.rs:321`), at any of its awaits. At shutdown the batch task sends its batch and
ends; `main` may return at any moment. `Exit` resets what is only in memory, which keeps what still counts: the
workers that run on in the enclave.

Secrets and the enclave are outcomes here; `SecretSharing` and `EnclaveRunner`
show how they come about.

### LogBuffer and WorkerdVm

A buffer is a record, its operations are functions. Lines are numbered as they are
pushed. `write_log` is `Push` under the locks and `Broadcast` after them, so two
readers of one process and a follower interleave in between.

An instance is one execution of `start_worker`; `workers` maps an id to its latest.
`boot[i]` is the position of the start: a check of the entry that the map has *now*
and of its own socket (`StartCheck`), the timeout, or 200 ms to settle. The timeout sets
`Error` and sends the kill, which may fail (`StartTimeout`), and then waits for the process
to die (`Die`, `StartKilled`); stops and probes come in between. A process is killed when the last
reference to its entry goes. `stop_worker` is three steps,
`probe_worker` up to three, `stream_worker_logs` reads the history, subscribes and
follows; a tail of 0 is the whole history, as in the code. A call may be dropped by its
caller. Three exceptions are part of the properties because the code has them: an instance
in `misprobed` was marked as failed by one failed connection although it lives, and is then
acknowledged as stopped without being killed; one in `unkilled` was given up by
`start_worker`, whose kill failed; and a probe that saw `Starting` may store `Running`
after a stop. The shard locks of the `DashMap`, which are held over one await
(`mod.rs:409`), are not modelled: the entry and the insert of another start can block a
thread of the runtime on each other, not change what either does.

### ZenroomVm

An invocation prepares secrets and configuration, spawns a process, writes its input,
and runs a select loop over exit, two readers and a timeout; then it selects output,
posts it to targets with retries, and writes log lines. Input and output are counted in
chunks. The input is written before the timeout runs and before anybody reads, so
`ReturnsOnceFed` begins after it. Writing, waiting, reading and killing may each fail
(`FailStep`, `Kills`); a process that could not be waited for or killed is `uncontrolled`.
A descendant of the process may hold its pipes (`ChildFork`, `held`), so that the readers
see no end after the process has gone. The process is not killed with a dropped future, so
`NoStrayProcess` is about calls that return.

### Attestation

`gen` and `ver` are the calls of `generate_attestation` and `verify_attestation`. A
generation picks the platform by priority, fetches the head of each required chain, one await
after the other and under one timeout for all, and binds key and blocks to a quote. A hash is what it
hashes; a quote is the record of the fields and lengths that the code looks at, of whether
it is genuine, and of whether dcap-qvl can read from it which collateral to ask for. A
verification takes evidence and user data, which may be of two generations, under any label,
asks the providers of that platform in order, and then fetches the *latest* blocks of the
same chains and compares Merkle roots. The providers are those the enclave registers
(`enclave/src/attestation.rs:31`): `TdxQvlProvider` and `NullAttestationProvider`; the mock
services and the quote parser of the library serve its tests and are left out. `QvlError` is
what becomes of an error: missing collateral and a quote that cannot be read are both
`Unsupported`, which passes on to the next provider, if any (`integration_tests.rs:330`
expects that), other errors are final. `current` is a history: the heads during the
verification. Ages of blocks are not compared, as in the code, which sets them to 0, and
neither is the TCB status that the library reports.

## Runs

| run | instance | shows |
|---|---|---|
| `enclave` | 2 enclaves, 1 secret, 1 restart each, 1 box with any list, 4 approvals, clocks 0..1 that drift apart, one call in flight | `Custody`, `OneMintPerLife`, `NoRollback`, `ImplementsLedger` with keys and boxes of earlier lives |
| `sharing` | 2 calls of one node for {1,2} and {2}, a peer that has both, approvals that expire, messages that may be lost, loops that may stop | `OneOwner`, `OkMeansAvailable`, `EveryCallAnswered`, `NodesImplementLedger` |
| `sharing_collision` | one call each on two nodes for the same secret, and a third node that has it | violation of `AcceptedBundlesAreOurs` |
| `scheduler_history` | 2 work orders, 4 schedules (endless, counted, with start, phase and end, too fast; of several lateness policies), 3 commands, times 0..4 | `HeapMatchesLedger`, `OccurrencesBounded`, `PeriodKept`, `DueEventFires` |
| `scheduler_end` | one schedule with an end time | violation of `EndHonoured` |
| `runner_locks` | 2 workers, one of them running, 2 VMs, one of them attached, any 3 RPCs, event task | `WorkerMapConsistent`, `MapMatchesVms`, `EveryCallReturns`, `EventsDrainOrHang` |
| `runner_deadlock` | 2 workers, starts and events | violation of `EventsDrain` |
| `orders_pipeline` | 2 orders: one with an identity, a schedule and an HTTP mount, one with a web3 listener; sources that serve two good bundles, one for a VM that is not there, and code that is no bundle; 4 policy manifests; 2 events, 1 end of a stream, 1 request; queue and batch of 2, streams of 1; clients that go | `LaunchFirst`, `EventsAccounted`, `ActiveFirst`, `AuthorizedStart`, `PolicyWorkersEnd`, `LogsAccounted`, `EverySubmissionReturns`, `QueuedIsHanded`, `ListenersStop` |
| `orders_twice` | 2 submissions of one order | violation of `LaunchedOnce` |
| `workerd` | 2 starts of one id, 2 other RPCs, tails of 0 and 1, histories of 2 lines, channels of 1; 6 starts, RPCs and log lines in all | `LogBounds`, `FollowedLines`, `NoOrphan`, `StopMeansGone`, `DownForGood`, `EveryStartReturns` |
| `zenroom` | 1 worker with any of 9 configurations, 1 invocation, pipes and output limits of 1 chunk, 2 chunks printed to each stream, 2 targets, 1 retry | `SuccessIsComplete`, `RequiredIsAcknowledged`, `NoStrayProcess`, `ReturnsOnceFed` |
| `attestation` | 2 generations by any of 6 nodes, 1 verification under any label, 3 chains with min_blocks 2, 1 move of a head | `AcceptedIsCurrent`, `AcceptedIsBound`, `ClaimsAreEarned`, `RefusedForCause`, `GenerationEnds` |

**Bounds.** They are constants used in guards (`MaxTime`, `MaxCalls`, `MaxBoxes`,
`MaxConsents`, `MaxRestarts`, `MaxCommands`, `MaxEvents`, `MaxDrops`, `MaxStarts`,
`MaxPrinted`, `MaxMoves`, `MaxGens`, `MaxVers`) or sets of calls. Two enclaves are a
sender and a receiver; one box and one restart are enough for a box that outlives its
key; four approvals are what a transfer between two enclaves that both generated
needs. In the `enclave` run one call is in flight at a time, beside clocks, approvals and
restarts that go on meanwhile; calls that overlap each other are covered by the
theorems, which have no such bound. Two calls are a race: one generates at its timeout, the
other receives the older value of the peer, which must not replace it. That a newer value
replaces an older one happens in the `enclave` run; between nodes it takes three calls
and is left to the theorem. Three RPCs are a holder, a
waiter and an event. Three commands are add, remove, re-add. A queue of two is
full with one event of each source waiting, and a stream of one lags with the second
log. Two starts of one id are an older loop
that watches a newer instance; a start, a stream and three lines are an eviction from a
history of two and a lag in a channel of one; all lines have one length, so that the limit
on bytes binds together with the one on lines, and the theorem covers any lengths. Two chunks exceed both a pipe and the
output limit of one. Three blocks give a Merkle tree with an odd level, and quotes have the least
length and one byte less. The largest run has 1.6 million states, and the longest take three
minutes. Clocks stop at a bound, so a run ends: where
nothing more can happen the system may stop, and deadlock is not checked.

**Symmetry** is used for enclaves and secrets in the `enclave` run, which
checks no liveness.

**Fairness.** Weak fairness of steps that the runtime takes by itself: tasks that are
ready are polled, timers expire, awaited RPCs and policy runs return, and tokio's
locks are fair. Nothing is assumed of the network, of callers, of policies or
of a shutdown. `DueEventFires` holds although commands are served first because the
number of commands is bounded: with an endless stream of them ticks would starve.
Calls to VMs have no timeout in the code; that they return is an assumption of
`EnclaveRunner`. In `WorkOrders` submissions, listeners, forwarder and batch task are fair;
events, requests, clients that go and shutdown are not. In `EnclaveRunner` a dropped call
is not. In `WorkerdVm` only the loop of `start_worker` is fair, which sleeps and looks
again, and the end of a process that was sent SIGKILL, which the kernel ends; processes
need not listen, answer or exit by themselves. In `ZenroomVm` the VM's own steps are fair;
failures, the process, its descendants and the caller are not; HTTP requests to targets
have a timeout. In `Attestation` only the timer and the platform's quote
are fair; gateways need not answer.

## What is proved

A theorem holds for every value of the constants that the named assumption of the module
admits. The bounds of a run are constants that occur in guards only: the proofs do not
use how large they are. Each proof has the same shape: an inductive invariant `IInv`
which implies the properties, a lemma for the initial states, one lemma per action or
group of actions, and one step per part of the invariant. TLC has checked every `IInv` on
the instance of the run.

| module | theorem | property |
|---|---|---|
| `EnclaveSecretsProofs` | `TypeCorrect`, `CustodyHolds`, `OneMintPerLifeHolds` | `TypeOK`, `Custody`, `OneMintPerLife` |
| | `NoRollbackHolds` | `NoRollback`, an action property |
| | `LedgerImplemented` | `ImplementsLedger`, a refinement |
| `SecretSharingProofs` | `RequestsOwned`, `OkIsAvailable` | `OneOwner`, `OkMeansAvailable` |
| | `SharingImplementsLedger` | `NodesImplementLedger`, a refinement |
| `SchedulerProofs` | `HeapExact`, `Bounded` | `HeapMatchesLedger`, `OccurrencesBounded` |
| | `InTime` | `PeriodKept`, an action property |
| `EnclaveRunnerProofs` | `MapsConsistent`, `MapMatches` | `WorkerMapConsistent`, `MapMatchesVms` |
| `WorkOrdersProofs` | `Authorized`, `PolicyWorkersStop` | `AuthorizedStart`, `PolicyWorkersEnd` |
| | `ActiveBefore`, `LaunchBefore`, `NoEventLost` | `ActiveFirst`, `LaunchFirst`, `EventsAccounted` |
| | `LogsInOrder` | `LogsAccounted` |
| `WorkerdVmProofs` | `ProcessesReachable`, `StopIsFinal` | `NoOrphan`, `StopMeansGone` |
| | `HistoryBounded`, `LinesFollowed` | `LogBounds`, `FollowedLines` |
| | `DownStaysDown` | `DownForGood`, an action property |
| `ZenroomVmProofs` | `SuccessComplete`, `Acknowledged`, `NoProcessLeft` | `SuccessIsComplete`, `RequiredIsAcknowledged`, `NoStrayProcess` |
| `AttestationProofs` | `BlocksAreHeads`, `BoundToUserData` | `AcceptedIsCurrent`, `AcceptedIsBound` |
| | `ClaimsHold`, `RefusalsHaveCause` | `ClaimsAreEarned`, `RefusedForCause` |
| | `MerkleRootInjective` | a fact about `MerkleRoot` |

### Secrets service

Assumptions: `AuthTTL` is a positive natural number, `MaxRestarts` a natural number,
and `Absent` is not a stored secret. The bounds appear only in guards and are
arbitrary.

None of the invariants is inductive alone. `IInv` adds to them:

* `CallsOK`: a put in flight carries a box that was really produced, a get in flight a
  key that was really issued;
* `BoxKeysIssued`: the sender of a box is a present or past life, so a new life has
  sent nothing yet;
* `AuthConsent`: an authorization in the table was consented to by this life of this
  enclave. It ties the table, which restarts empty, to the history;
* `BoxConsent`: what is in a box was consented to by its sender for its recipient;
* `SelfDominates`: what a running enclave has sent is not newer than what it stores, so
  a box that comes back to its sender changes nothing. Without it an enclave could
  get its secret from itself, without a second end, and `Custody` would not be inductive;
* `Minters`: a value names a life that has begun, and a running enclave still stores some
  value of every secret it ever drew.

`Custody` then follows for `PutCommit` from the three checks of a bundle: the
attested key is the sender's, so the authorization is about the sender; by
`AuthConsent` this enclave approved the sender for every id of the list, and what is not on
it goes into `unlisted`; by `BoxConsent` the sender approved, for all the contents, the key
that decrypts, which is our own. `OneMintPerLife` follows for
`GenerateCommit` because the id is absent under the lock, hence by `Minters` no
copy of a value of this life exists anywhere. The proof has one lemma per action and one
step per conjunct.

`LedgerImplemented` follows step by step under `IInv`: `PutCommit` is `Adopt`, because
what it merges is in a box and replaces only what is older; `GenerateCommit` is `Draw`,
because by `Minters` no copy carries a value of the counter it uses; `GetCommit` is
`Give`, `Restart` is `Forget`, and the other actions leave stores and boxes alone.

### Sharing

`SharingAssumption`: ids of secrets are ordered, every call has a node and a request that
is not empty. `OneOwner` alone says where the responder is; that nobody else has it needs

* `Ownership`: the number of a request that is pending or with a finalizer was given out, so
  a new number is in neither place; its timer still exists; and its list of secrets is what
  its caller was missing;
* `WaitingOwned`: a caller that waits is in one of the two places;
* `AllAvailable`: what a call needs and does not ask for is in the enclave. With
  `Ownership` it turns "everything asked for has arrived" into "everything needed is here";
* `Forever`: no secret of the store, of a message or of a finalizer has an expiry, because the
  nodes generate none that has. Without it a secret could be there at the check and gone
  at the answer.

`SharingImplementsLedger` needs a second invariant over the history, `LedgerInv`:

* the data of every copy, in a store or given out, is *spent*: it carries the number of a
  request that is no longer pending and of which no finalizer can still generate. So what
  a timeout generates is unlike every copy, although numbers are all that tells
  values of one enclave apart;
* the box of a response in an inbox, or with a finalizer that stores it, contains only what
  was given out.

The first needs that numbers only grow (`NumbersGrow`), which is shown once for each way a
step handles pending requests and tasks. The rest is one lemma per step: it is a step of
the ledger or leaves stores and history alone, and it keeps `LedgerInv`.

### Scheduler

`SchedulerAssumption`: schedules are records of the right fields. The heap and the
ledger are related by `EntriesRecorded` (an entry carries the schedule of its ledger entry,
and its work order is tracked, so that no ready event is dropped unfired) and
`NextInTime` (the next time respects start and period), from which `PeriodKept` follows for
one turn of `fire_ready_events`, which handles any number of events at once.

### Runner

`RunnerAssumption`: what runs at the start is in a VM of the set. The maps disagree while a
call is between the VM's answer and its write of `worker_map`. `LockOwner` (a call past
`vms.write()` is the one that the lock names), `Writers` and `LockedVm` say who can be there,
`Done` what it has done to its VM; `Agreement` says of every VM and worker that the map is
right, that the pair is in `lost`, or that a call is in flight between the two.
`MapMatchesVms` is the case that nobody holds the lock.

### Work orders

`WorkOrdersAssumption`: orders have kinds of events and lists of identities; capacities are
positive. `AllChecked` says what a submission has established at its stage: the bundle is
admitted by the pointer, the policies of all identities passed so far approved *this* bundle
in *this* submission, and a policy worker runs only between its start and its termination,
or is left by a submission that was dropped at an identity.
`ReadyFirst` says of everything that can produce an event (schedules, fired events, the
forwarder, listeners, mounts, requests) that its order is active and launched, from which
`LaunchLeads` follows for queues of any capacity. `BatchHasRoom` is needed because a
batch that is full is sent before another event is taken, `Places` because what the enclave
gets next must come after all it has got or missed.

`LogInv` is about one listener at a time. While the queue is received from, a log it
wants among those it has seen was delivered, is held, is in its stream or was skipped
(`Accounts`); the ids of what it delivered, holds and still has in its stream grow
(`InOrder`), because logs are numbered as they occur; and its stream is the end of what it
has seen, so that what was skipped has a bufferful behind it and is nowhere else (`Skips`).
Each step moves the listener, takes a log, queues the one it holds, or gives it one; the
other steps leave it alone.

### workerd VM and log buffers

`WorkerdAssumption` and `LimitsAssumption`: the limits are positive, lengths and tails are
natural numbers. For processes the invariant has `Entries` (an entry of the map belongs
to its id, and every id that was started has one), `Held` (a process that runs is referred
to, which is what `kill_on_drop` gives), `DownMeansGone` (what is marked as down has gone,
is dying, or was misjudged or could not be killed) and `Placed` (an RPC past its kill has an
instance whose process has gone). For logs, `BufferOK`: every line is sent at most
once, after it was pushed, and a line of a history was sent or is between the two halves
of `write_log`; `DeadOK` says the latter of the histories of stopped workers;
`StreamPlaced`: a line of the tail that was not open was sent before the streamer was
created, and what was delivered is what the streamer has passed, without what it skipped
(`Passed`). That `Push` keeps the
exact byte count needs sums over sequences of any length. They are proved with the least
index at which a claim would fail (`Least`), because the induction theorems of the library
are out of reach.

### Zenroom VM

`ZenroomAssumption`: sizes are natural numbers, `None` is no result. `Good` says what an
invocation has established by its position: what was printed is read or in the pipe as long
as no reader has given up (`StreamOK`); an exit or a timeout that was seen means that the
process is gone or `uncontrolled` (`Basic`); the targets before the current one have a result, and the ones
that acknowledged are the ones that succeeded (`Posted`); and what is logged as a success is
complete. `Begun` and `Configured` tie an invocation to the configuration of its worker.

### Attestation

`NodesAssumption` and `FreshnessAssumption`: nodes, configurations and required chains are of
the right types. `ProvidersAssumption`: every platform has a provider, and they are of the
kinds that are registered, in any number. The verifier compares
nothing but two Merkle roots, so `AcceptedIsCurrent` rests on `MerkleRootInjective`: lists of
one length with one root are the same list. (Lists of two lengths may share a root,
because the last hash of an odd level is doubled; the verifier fetches as many blocks as
the user data refers to.) It is proved up the levels of the tree: levels of one length
have levels above of one length, and two levels with the same level above are the same
(`NextLevelInjective`). The least level at which this would fail replaces the induction, as
for the sums of the log buffers.

`IInv` adds `GenFits` (the evidence of a generation is about its own user data and key) and
`VerFits`: a later provider is asked only after a fault or of evidence that none can verify
(`Unfit`); a verification past its provider has the label of its evidence, a genuine quote
if that is TDX, and claims that name both and the user data (`Verified`, `Bound`); what it has fetched were heads of the chains of the
references, in their order (`FetchedOK`); and a refusal has its cause (`Caused`). `Sees`
says that a verification under way has the present heads in its history, so that a fetch
returns one of them.

### Only model-checked

* Liveness: fairness and `ENABLED` are beyond the prover.
* The four findings, which are counterexamples.

## Disagreements with the documentation

Shown by runs (details in `findings` of `PROJECT.json`):

* `sharing_collision`: responses are matched by a per-node request number, so a
  response meant for another node is accepted and uses up the request;
* `scheduler_end`: a schedule can fire once more after its `end_at`;
* `runner_deadlock`: the event task and run/terminate/detach take two locks in
  opposite orders and can block each other, and then the whole runner, for ever.
  `EveryCallReturns` and `EventsDrainOrHang` show that this is the only way to hang;
* `orders_twice`: overlapping submissions of one order are both launched.

Without a run, because the properties that hold already name what the code does as their
exception. A line of the repository says otherwise:

* late ticks: `events.rs:53` ("Drop overdue ticks and schedule only the next on-time one", the
  default), `events.rs:69` and `event-triggers.md:141` describe `catch_up` and
  `max_lateness_ms`; the scheduler looks at neither, fires every tick however late, and merges
  missed ones even under `queue`. `DueEventFires` asks for a tick only where the policy does;
* the list of ids: "Check authorization for *each* secret contained in the box"
  (`enclave/src/secrets/mod.rs:204`) is done for a list that the daemon can change, not for what
  decrypts. `Custody` states both halves;
* "Hard timeout per invocation" (`zenroom/src/config.rs:36`): it covers neither the writing of
  the input, where a process that prints before it reads blocks the invocation for ever, nor a
  descendant that holds the pipes after the kill. `ReturnsOnceFed` leaves out both;
* "Number of historical log lines to include before streaming (0 for none)" (`vm.proto:267`,
  `enclave.proto:255`): 0 gives all lines;
* "Indicates if the worker was stopped successfully" (`vm.proto:128`): `stop_worker` says so of
  any worker marked as down, also while the kill of a start that timed out is pending or has
  failed, and of one that a probe misjudged. `StopMeansGone` names these.

No line of the repository promises otherwise:

* a launch event is first in the queue, but a request over HTTP does not pass through the
  queue and may reach the worker before the launch event;
* a batch whose delivery fails is logged and dropped (`main.rs:265` has a TODO), and logs that
  a stream skips while its listener waits are gone;
* a client that disconnects during its submission leaves a policy worker running, or, between
  activation and launch, an order that is active and never launched and whose resubmission is a
  duplicate and reported as success. The last also holds of an order whose schedule is refused;
* a worker that is run again in another VM goes on in the first; so does one whose start or
  stop was given up or not answered, without the enclave knowing;
* lines that are sent between the reading of a history (`workerd/src/vmm/mod.rs:697`) and the
  subscription (`724`) reach no follower;
* `Stop` does not stop the scheduler;
* two nodes that generate a secret in the same second keep different values for ever,
  because neither is newer;
* the second of two concurrent generations of one secret fails its caller although the
  secret is there;
* a log request while a worker moves to the dead-worker map finds it in neither;
* a gateway never replaces a provider whose connection is dead; a listener that starts
  after the shutdown signal never gets it, and ends with the process;
* a node that exits in the middle of a policy check leaves the policy worker running;
* a VM that does not answer keeps the enclave's lock of all VMs, because calls to it have
  no timeout;
* a bundle URL of less than 20 bytes panics in a log statement;
* one failed connect marks a live workerd worker as failed for good; a history longer than the
  response channel makes the log RPC hang;
* a Zenroom process outlives a caller that gives up, a wait that fails and a kill that fails;
  the log lines of an invocation that ends after its worker was stopped cannot be read;
* the verification of an attestation fetches without a timeout, compares neither ages nor the
  TCB status, and needs the referenced blocks to be still the heads.

## Not modelled

* Ciphers, TLS, quote signatures, parsing and formatting of messages, HTTP
  routing, configuration: formats and cryptography, present as what they guarantee.
* `get_secrets_for_local_worker`, `check_worker_status` and other pure reads.
* libp2p itself: discovery and the mesh are the inbox of each node.
* gRPC servers, clients and converters of daemon, enclave and VMs: no state.
* The identity contract, which the node only reads: every read may return anything.
* The mock services and the quote parser of the attestation library, which only its tests use.
* SDK, CLI, infrastructure, benchmarks: no part of a running node.

## Plan

1. Done: secrets (`SecretStore`, `EnclaveSecrets`, proofs), sharing, scheduler,
   runner, work orders with the start of the node, policies and listeners, log
   buffers, workerd and Zenroom VMs, attestation, and the ledger of secrets with its
   refinements.
2. Done: proofs of the safety properties of all modules, and of the two refinements of
   `SecretLedger`.
3. Left out: a VM as `EnclaveRunner` assumes it, implemented by `WorkerdVm`. It is no
   refinement as it stands: a worker that a probe misjudged is acknowledged as stopped and
   runs on, as does one whose kill failed, and a process may exit by itself. `NoOrphan` and
   `StopMeansGone`, which are proved, say how far the assumption holds, those cases excepted.
