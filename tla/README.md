# modal-rust: a TLA+ model of the facade, the SDK, the wrapper and the runner

This directory models modal-rust from the decorator above a handler to the result
that its caller reads. State machines cover the parts in which state is shared,
RPCs fail or processes die: the memoised RUN path of the facade, the DEPLOY path and
the calls of a deployed app, one invocation by the SDK, the uploads of sources and
volumes, the wait for an image, the Python wrapper with its runner child, the runner
itself, the build cache on a Modal Volume, the CLI's describe cache, and the Queue and
Dict handles. Operators cover what is a function of its input: the expansion of the
decorators, the source closure, the plan of requests with its dry run, the
configuration of a client, and the way of an error back to its caller. TLC checks all
of it on small instances; the theorems of the `*_proofs` modules hold for every value of
the constants: every safety property of the state machines, and two of the operators,
is proved.

Paths below are relative to `src/crates/`.

## The system

| Part | State it keeps | Operations | What is hard |
| --- | --- | --- | --- |
| Facade `App`, RUN path (`modal-rust/src/app.rs`, `function.rs`) | `RemoteHandle`: `Mutex<ModalClient>`, `Mutex<Published>`, map of `OnceCell` function ids | `remote`, `spawn`, `map`, `FunctionCall::get`, `deploy`, `call` | concurrent first calls, dropped futures, lock order |
| Provisioning (`control_plane.rs`, `remote.rs`, `deploy.rs`) | `Published`: tag to function id, the union that `AppPublish` sends | resources, precreate, create, publish, for RUN (one entrypoint) and DEPLOY (all) | `AppPublish` replaces the set; errors in the middle; names that collide |
| SDK operations (`modal-rust-sdk/src/ops`) | the poll's cursor, the collected outputs | FunctionMap, PutInputs, GetOutputs, queue, dict, images, mounts, volumes | every RPC is retried after a lost answer |
| SDK plumbing (`retry.rs`, `channel.rs`, `client.rs`, `auth.rs`, `config.rs`) | attempt counter and deadline | `retry_transient`, keepalive | which failures are transient |
| RUN and DEPLOY wrappers (`modal-rust/src/remote/wrapper.py`, `deploy/wrapper.py`) | `_SERVE`, `/tmp/in.json`, `_BUILT`, the volume | `handler`, `_run_serve`, `_run_one_shot`, snapshot prime, `_build` | child death, shared pipes, shared volume |
| Runner (`modal-rust-runtime/src/lib.rs`) | registry of handlers and primes | serve loop, one-shot, describe | exactly one line of answer per frame |
| Queue and Dict (`modal-rust/src/queue.rs`, `dict.rs` and their SDK ops) | a client shared by the clones of a handle | put, get, pop, put_if_absent, clear | destructive RPCs under retry, a lock held for a whole blocking get |
| Uploads and images (SDK `ops/local_dir.rs`, `blob.rs`, `volume.rs`, `image/`) | the tasks of a JoinSet, the blocks still missing, the cursor of a log | source mounts, volume puts, image builds | local files that change, answers that are lost, a task that fails beside others, a stream that breaks |
| Scope walk, runner generation, plan dump (`scope.rs`, `runner_gen.rs`, `dump.rs`, SDK `local_dir.rs`, `planning.rs`) | none that outlives a call | source closure, generated crates, recorded plans | ignore rules, agreement of dump and live plan |
| Command line (`modal-rust-cli`) | the describe cache and the runners in the target directory | run, deploy, describe, doctor | commands that share the directory, files written in place, edits under a command |
| Macros and registration (`modal-rust-macros`, `registration.rs`) | link-time inventory | compile-time expansion | two grammars for one value, class and method merged, duplicate names |
| Testkit (`modal-rust-testkit`) | in-memory server | answers RPCs | it is the reference for the server side here |

How they meet: `App::remote` resolves an entrypoint (memo, then provisioning
over the SDK client) and invokes it; the control plane starts a container,
whose wrapper builds or fetches the runner, keeps one `modal_runner --serve`
child and exchanges one line per call with it; the SDK polls the output. Queue
and Dict handles are independent of an `App` and own their client.

What makes each correct:

* RUN path: one create per key; a memoised id is never de-invoked; a call runs
  under its own entrypoint's configuration; nobody waits for good.
* DEPLOY path: an app is one whole deploy at any time; each of its functions can
  serve its entrypoint with the shared image; a call runs what its name stood for.
* Invocation: results in input order; nothing is awaited that was not queued;
  a bounded number of executions; an end by the deadline.
* Wrapper: the envelope returned is the envelope of this call; a second run
  only after a crash; nothing still running after the answer.
* Build cache: a runner is the whole binary of exactly its source; no failure
  of the cache fails the call.
* Queue and Dict: what the handle says happened did happen, and clones of a
  handle do not block one another for good.
* Uploads and images: a mount names only files that the server confirmed, a volume
  put that returns Ok was committed whole, nothing is replaced unasked; a build is
  reported as it ended, and no entry of its log is skipped, or printed twice if it
  has an id.
* Source closure: what is uploaded builds wherever the package builds here.
* Plans: an image has what its lines need; a dry run says what would be sent.
* Describe cache: a command goes on with the manifest of its own package at its own
  source.
* Runner: one line of answer per frame, in order, whatever a handler does; what the
  check of an input says is what the run would.
* Decorators and results: what compiles is what Modal is asked for, key by key; a
  remote call tells its caller what a local one would.
* Client: the identity it connects with is what the code's layers make it: none in a
  container, else both variables, or one profile with the variables that are set in place
  of its fields; two profiles are never joined.

## Modules

| Module | Models | Kind |
| --- | --- | --- |
| `RunService` | what the RUN path promises: an entrypoint becomes invokable once, and a call runs through an invokable one | abstract specification |
| `RunApp` | `app.rs` resolve/invoke/get, `remote.rs` `ensure_function` and tags, `control_plane.rs` RUN provisioning, the server's precreate/create/publish | detailed specification, refines `RunService` |
| `DeployService` | what an app name promises: it stands for one whole version, a deploy replaces it, a call is resolved in it | abstract specification |
| `Deploy` | `deploy.rs`, `control_plane.rs` DEPLOY provisioning and image layers, the baked adapters, inline secrets, `App::call` | detailed specification, refines `DeployService` |
| `ContainerService` | what a warm container promises: one input at a time, executed while its handler waits for it, answered by an execution of its own or raising | abstract specification |
| `ServeWrapper` | both wrappers' call path and snapshot prime, the runner's serve loop | detailed specification, refines `ContainerService` |
| `Invoke` | the invoke sequence, transport and retry | specification |
| `RunnerCache` | `_build`: runner cache and cargo archive on the volume | specification |
| `QueueOps` | Queue handle, its RPCs, the server's FIFO | specification |
| `DictOps` | Dict handle, its RPCs, one key of the server's map | specification |
| `VolumePut` | the two rounds of a volume upload and its block PUTs | specification |
| `MountUpload` | the concurrent upload of collected sources, blobs, probes, the mount | specification |
| `ImageJoin` | `image_get_or_create` and its reconnecting log stream | specification |
| `DescribeCache` | the CLI's ways to a manifest, its cache and pinned runners, the local check of an input | specification |
| `RunnerDispatch` | the runner's registry, command line, modes, calls and primes | specification |
| `Decorators` | the grammar and expansion of the macros, the registered configuration, the function it defines and its create request | operators |
| `SourceUpload` | closure, rewritten manifests, walk, stub, generated runner, shadow tree | operators |
| `BuildPlan` | RUN and DEPLOY configuration, image layers, the request sequence live and recorded | operators |
| `ClientSetup` | configuration, headers and greeting of a client; `doctor` | operators |
| `CallResults` | the typed calls of a `Function`, envelopes, errors and back | operators |
| `Objects` | a queue, a dict and the uploads into a volume side by side | composition |
| `CallPath` | the stations of a call side by side: describe cache, build cache, invocation, upload, image, runner, client, results | composition |
| `RunApp_proofs`, `Deploy_proofs`, `ServeWrapper_proofs`, `Objects_proofs` | theorems about the module each is named for | proofs |
| `Caches_proofs`, `Invoke_proofs`, `Answers_proofs` | the inductive invariants of `DescribeCache` and `RunnerCache`, of `Invoke`, and of `RunnerDispatch`; lemmas about `CallResults` and `ClientSetup` | proofs |
| `CallPath_proofs` | those of `MountUpload` and `ImageJoin`, and the theorems about `CallPath` | proofs |
| `MCSettings` | the settings, inputs and processes that `MCCallPath` goes through | instance |
| `MC*` | the instances that TLC checks | instances |

`Objects` and `CallPath` put parts side by side that share no state: `part` says
which one a behaviour is of, the parts share the variables whose names they share, and
the variables of the others are `None`. Each part is an `INSTANCE` of its module with
its own constants; the k-th steps of different parts share a fairness condition,
which is sound because no behaviour has steps of two parts. The modules of operators
have one state per input, in `setting`, so that every property is an invariant.

Operators named `Mutant` in their comment are plausible bugs of the definition
after them. The specifications do not use them: each is there to show that a
property notices the bug.

### RunApp

A task is one future. `pc` is the await point it is at. `cell` is the holder
of the `OnceCell` permit, `function_ids` the value of an initialised cell,
`client` and `pubLock` the holders of the two mutexes, `published` the union
kept in `Published`, `layout` the set of the last `AppPublish` on the server,
`precreated` and `defn` what the server knows of each id. `Call` fetches the
cell; `StartInit`, `LockClient`, `LockPublished`, `EnsureResources`,
`Precreate`, `Create`, `Publish` are the steps of the closure given to
`get_or_try_init`, `Create` including `Published::record`; `LockInvoke`,
`Invoke`, `PollReturns` the invocation; `Get` is `FunctionCall::get`. `Fail`
is an error or a drop at any await, `FailApplied` one whose RPC took effect,
`FailAfterRun` an invocation that ran and was then lost. The tag of an
entrypoint is the constant function `Tag`, because the properties only ask
which entrypoints share one. Client lock order is permit, client, published;
an invocation takes the client alone.

### Deploy

A deployer is one `deploy` in one process; `pc` is the RPC it is at. `disk` is
the version of the source tree, `plan` the version the process was compiled
from, `source` the one that was uploaded, `layer` what its image holds so far
(the runner in `target/`, FastAPI, the prime, the adapters of the baked
wrapper), `next` the entrypoint of the loop and `published` the union. On the
server, `layout` is the app's function set and `envOf` the inline secrets by
tag. `EnsureMounts`, `BuildBase`, `BuildDep`, `BuildTop` are the common part of
`provision`; `Precreate`, `EnsureSecrets`, `Create` one round of its loop, with
`build_function_spec` and `Published::record` in `Create`; `Publish` the one
publish after it and `Resolve` the `from_name` of `deploy_function`. `Fail` is an
error or a kill at any of them, `PublishLost` a publish whose answer is lost, so
that it is sent again. `Lookup` and `Invoke` are the two RPCs of `call_function`:
another deploy may come between them.

An image is a value (Modal names images by content), and a definition is reached
only through the function set of an `AppPublish`: this is what the code relies
on when it creates functions in a live app one by one. `Copied` says that cargo
rebuilds the runner when the real source is copied over the stub. A project
without decorators is a version whose only entrypoint is `handler`. Whether a
gpu, schedule, retries or method string parses is one bit; the range checks of
concurrency and autoscaling are written out.

### ServeWrapper

`setup` is drawn once, at the start, from the configurations an instance names:
the number of handler threads, whether the serve child is used, whether the
image primes, strictly or best effort, and what user code prints. `Alone` is one thread
and nothing printed.

A caller is one run of `handler`, or the import that primes. `SERVE` is the
module global, `proc` each caller's local copy, `stdin`/`stdout` the pipes of
each child, `infile` is `/tmp/in.json`. `Check`, `Popen`, `Bind` are
`_serve_child` split where another thread may run; `Write`, `Read`, `ReadEof`
are the exchange; `FallBack` and `OneShot` the fallback path; `Serve` one
round of `run_serve_with_io`, `Dies` a crash at any point, also after the
handler ran and before its line was written. What user code prints goes to the
same pipe, before the envelope.

### Invoke

The client is sequential. `FunctionMap` opens a call and may pipeline its
input, `FunctionPutInputs` is the fallback ("fix #3") or the fan-out of a map,
`FunctionGetOutputs` is one poll window, and `Lost` is `retry_transient`: the
same request again, or the error. A lost attempt may or may not have taken
effect. The server may drop the remaining outputs of a call it answered with
`clear_on_success` (`Expire`).

### RunnerCache

The volume is a map of names to inodes and of inodes to content. `Open`,
`Fill`, `Rename` are the publish of a runner or an archive, `PublishFails` and
`RenameFails` the exceptions they swallow, `Kill` the end of a container at
any point. `raced` records the sources that two containers were building at
once: a shared `.tmp` name is not safe for those (see below).

### QueueOps, DictOps

`client` is the holder of each handle's `Mutex<ModalClient>`: clones share a
handle. A call locks it, sends an RPC under the retry, and gives it back.
`took`, `got`, `log`, `did` and `undone` are history: what the server popped,
returned or inserted. Time is one bit: whether a get's deadline has passed.

### VolumePut, MountUpload, ImageJoin

An uploader of `VolumePut` hashes its files block by block (`Hash`), declares the
blocks (`VolumePutFiles2`, round 0), reads each missing block once more and PUTs it
(`PutBlock`, once per content), and declares them again with the answers (round 1).
`Edit` writes a local file under it; `written` is the history of committed
declarations. In `MountUpload` `Collect` is the deduplication by content and the
start of the first `Width` tasks, `Probe`, `BlobCreate`, `PutObject`, `PutFile` and
`Confirm` the steps of one task, `Join` and `JoinFailed` what the caller does with one
that ended, and `CreateMount` the last request. `Appear` is the server, which shows a
content to a probe some time after it received it. In `ImageJoin` `cursor` is
`last_entry_id` and `at` the place of the window in the server's stream; the window
delivers an entry, ends or breaks, and the next one resumes after `cursor`.

### DescribeCache

A command computes its key (`ComputeKey`), consults the cache (`Load`), and otherwise
reads the source, builds, and pins and describes the runner (`Read`, `Build`, `Unpin`,
`Link`, `Describe`) or has Modal do it (`Remote`), and stores the manifest in two steps
(`Truncate`, `Store`), because the file is written in place. `Entry` and `CheckInput`
are what a run does with the manifest before it sends the input. `uplift` is the path
`debug/modal_runner` that every package is linked to. Cargo's lock makes `Build`
atomic; nothing locks the rest. What a command executes is the pin, unless cargo reported
no artifact (`Build` then leaves for `"describe"` at once) or neither a link nor a copy
could be made (the last case of `Link`): then it is the shared path itself, and `bin` is
`"uplift"`. `Partial` is a runner of which only a part is there. A copy that fails may
leave one, and so may a copy that succeeds: two commands of one package may both have
removed the pin, one links it, and the other, whose link fails because the name is there
again, copies the file onto itself, which empties it.

`racy` records the commands that met one of four windows in which a step of another actor
misleads them:

1. an edit between the key and the read of the source;
2. another build between the build and the pin;
3. another build before the shared path is executed, for a command that has no pin;
4. another pin of the same package before the pin is executed.

Those are limits of the design, and `FreshManifest` says that they are the only ones.
Without the third in `Linking` TLC shows how one package's manifest is stored under
another's key. Cargo is taken to link a whole runner whenever it builds, and to use no
target directory that a `.cargo/config.toml` names.

### RunnerDispatch

`inv` is the inventory, `argv` and `stdin` what the process is started with. `Start*`
are the modes of `run_cli`; `ReadBlank`, `Malformed`, `Prime`, `Request`, `ReadFails`
and `EndOfInput` the rounds of the serve loop; `slot` the message that the panic hook
captured, `entered` the classes that are loaded. `Serve`, `RunHandler` and `CallBody`
give the answer to one call: JSON, name, shape, body, encoding, in the order of the code.

### Decorators, SourceUpload, BuildPlan, ClientSetup, CallResults

`Decorators` follows one item from its attribute: `Parse` is `parse_decorator_config`,
`Expand` the registrations that the macro emits or a `compile_error`, with `MergeOver`
for a class and its method, `FunctionConfig` what is registered, and
`BuildFunctionSpec` what the facade makes of it with the SDK's parsers, and
`CreateRequest` the message that is sent (`function/rpc.rs`): what is unset is zero,
empty or absent, the knobs of the autoscaler travel twice, and the formats are those
of ASGI behind a URL.
`DecoratorsReach` compares that with what was written, looked up without the macro
(`Asked`). In `SourceUpload` a workspace is its manifests and files: `Closure`, `Inline`,
`Walk`, `Collect` give the tree that is uploaded (`UploadTree`), `Stub` that of the
dependency layer, `Shadow` the copy that is built locally; `Builds` is what cargo needs,
external. In `BuildPlan` `RunInputs`, `DeployInputs` and `DumpInputs` are the inputs of
`provision`, `Provision` its requests on one of two planes, `Dockerfile` the lines of an
image. `ClientSetup` has `ReadConfig`, `Connect` and `Doctor` as functions of the
environment and the profile file. `CallResults` has `Local` and the `Remote` operations,
`Envelope` and `Reconstruct`.

## Runs

Every run finishes in about two minutes or less with two workers. Deadlock is not
checked: a system in which every call has returned and nobody calls is idle, and
stops; so does a setting that has been looked at.

| Run | Bounds | Shows |
| --- | --- | --- |
| `run_app` | 3 tasks, 2 entrypoints, 3 function ids; 187k states | `TypeOK`, `IInv`, `MemoisedInvokable`, `InvokedAsDeclared`, `CreatedOnce`, `ServiceSpec` (refinement), `EveryCallReturns` |
| `run_app_colliding` | same, both entrypoints on one tag | `EntrypointsCoexist` fails |
| `serve_wrapper` | 2 inputs and a describe in four setups: one thread with strict, and with best-effort prime; two threads, best-effort prime, blank lines printed; two threads without serve; 498k states | `TypeOK`, `OwnEnvelopeAlone`, `OneLiveChild`, `RerunOnlyAfterDeath`, `ServiceSpec` (refinement; the last four in the setups of one thread), `EveryInputAnswered` (in all) |
| `serve_wrapper_threads` | 2 inputs in 2 threads | `OwnEnvelope` fails |
| `serve_wrapper_prints` | 1 thread, a handler that prints | `OwnEnvelope` fails |
| `objects` | queue: a producer of two items, two consumers (one waits forever), a cleaner, on two handles; dict: 3 tasks, two on one handle; volume: two uploads of a tree of a file of two equal blocks and an empty one, one local edit; 2 tries each; 112k states | `TypeOK`, `BatchesWhole`, `WinnerStored`, `PutReports`, `NoOverwrite`, `BlockedGetFindsItem`, `CallsReturn` |
| `call_path` | the instances below; 400k states | `TypeOK`, `FreshManifest`, `ExactRunner`, `ResultsWhole`, `ReportsMatchServer`, `RunnerAnswers`, `CheckPredictsRun`, `ConnectsAsItself`, `DumpMatchesLive`, `ImagesBuild`, `UploadBuilds`, `DecoratorsReach`, `RemoteMirrorsLocal`, `CallsReturn` |
| `verify_manifest` | same | `VerifyCompares` fails |
| `stub_manifests` | same | `StubSharesManifests` fails |
| `dict_ops_lost` | the dict of `objects` alone | `CallReportsEffect` fails |
| `deploy` | 2 deployers, 1 caller, 2 entrypoints, 4 versions of the source; 130k states | `TypeOK`, `WholeDeploys`, `Servable`, `CallRunsItsOwn`, `DeployEnds`, `ServiceSpec` (refinement) |
| `deploy_env` | same | `EnvFollowsDeploy` fails |

The parts of `call_path`:

| Part | Instance | Properties |
| --- | --- | --- |
| `describe` | 2 commands, 2 packages of 2 versions, 1 edit; four pairs of commands over a clean and a built target directory | `FreshManifest` |
| `cache` | 2 containers of one source, racing or not | `ExactRunner`, `CallsReturn` |
| `invoke` | 2 inputs, 2 tries per RPC, four call shapes | `ResultsWhole`, `CallsReturn` |
| `mount` | no file; a path twice; four files of three contents, one a blob, on 2 tasks; 2 tries, 1 completion probe | `ReportsMatchServer`, `CallsReturn` |
| `join` | a log of up to 3 entries, with and without ids, 2 tries | `ReportsMatchServer`, `CallsReturn` |
| `run` | one-shot, check and web command lines over three inventories; serve loops over every pair of frames | `RunnerAnswers`, `CheckPredictsRun` |
| `client` | environments by profile files, and chains of manifests | `ConnectsAsItself` |
| `plan` | environments, configurations and entrypoints, with a closure that is there or not | `DumpMatchesLive`, `ImagesBuild` |
| `upload` | a workspace of up to six crates, with ignore files, own and generated runners, escaping and build-dependencies | `UploadBuilds` |
| `decorate` | 8,060 items, of which 2,607 compile: every pair of values above a handler or over class and method, and every shape of what they stand above | `DecoratorsReach` |
| `results` | handles with and without a client, single calls and fan-outs of up to two | `RemoteMirrorsLocal` |

Why the bounds are enough. Two entrypoints and three tasks give one
initialiser, one waiter on its cell and one interfering initialiser of the
other entrypoint; three ids let a failed create leave one behind. Two tries
give an attempt that is lost and one that is not, and each further try repeats
them. Two items or inputs are what an order needs. In the wrapper one input can
break the child, the next meets its remains, and the import comes before both.
The four versions of the deployed source have a
plain function beside an endpoint, a single server (so that a redeploy removes a
function), an option that is refused after a create that succeeded, and a source
that does not compile; two deployers give every order of two publishes.
Two containers are what a race on a name, or a crash and a successor, need. A
third input is there for `describe`, which never touches the child. Two uploads of
one tree are a race for an overwrite, and two equal blocks, of which an edit may change
one, are PUT once for both. Two commands of two packages share one uplifted path; the two machines describe
one version differently, so that a manifest taken from the wrong one shows. Three
contents on two tasks make one wait for another to be joined. Three log entries, one
without an id, make a window resume twice. Two values above an item are a pair of keys,
or one key twice; the widths of integers are scaled down, with values on both sides.

`TypeOK` is the only purely typing property of a module; the cursor, the
attempts and the deadline bounds in it are what the retry helper's loop has to
keep.

### Where the code and its documentation differ

* `run_app_colliding`: `sanitize_object_tag` is not injective, so entrypoints
  named `a b` and `a/b` share a Modal function, while `remote.rs:558-563` says
  each is a distinct function that coexists with the others. Rust identifiers
  are kept apart; only manual registry names can collide.
* `serve_wrapper_threads`: `max_concurrent_inputs` is accepted, and the wrapper
  exchanges lines with one child without a lock. `docs/PARITY.md:162` says
  "We run one input per container".
* `serve_wrapper_prints`: a handler that prints a line answers its caller with
  that line and shifts every later answer of the container by one, while the
  README (line 831) says user logs go to stderr so stdout stays machine-readable.
* `dict_ops_lost`: `put_if_absent` is retried after a lost answer and then
  reports `false` for the entry it inserted itself, and `pop` reports an absent
  key, while `dict.rs:173-175` and `retry.rs:15-18` promise otherwise.

* `deploy_env`: an inline `env` is a secret with a fixed name per app and tag,
  created only if missing, so a redeploy with another `env` runs with the values of
  the first, while the README (line 401) says they are injected and `deploy.rs:133`
  that re-deploys replace.
* `verify_manifest`: `--verify-manifest` first describes locally and stores the
  manifest under the key and in the directory in which the remote side then looks: it
  is read back, nothing is described on Modal, and the comparison is of a manifest with
  itself. `main.rs:84-85` and the README (line 255) say both are built.
* `stub_manifests`: the stub of the dependency layer has the manifest of a member only
  if dev-dependencies were stripped from it; the others come from a walk that the stub
  does not do, so cargo cannot load the workspace in that layer, while
  `scope.rs:351-352` says "the SAME manifests". `UploadBuilds` therefore asks of that
  layer only that it builds when the manifests are there.

Met while reading, without a run.

Deploys and plans:

* `README.md:406` shows a "PER-FUNCTION image just for THIS entrypoint", which deploy
  folds into the one shared image (the first declared wins, as `deploy.rs:239-264` says).
* The adapter attributes `web_x` and `web_server_x` are coarser than the tags (endpoints
  `a-b` and `a.b`, or an endpoint `server_x` beside a server `x`), and then two
  functions run one adapter.
* `DeployConfig::default` does not see the package that the macros detect
  (`deploy.rs:214-217`), which `README.md:940` describes for the facade as a whole.
* `dump_deploy_manifest` (`dump.rs:589`) does not add the FastAPI step of an endpoint,
  and takes the timeout of a project without decorators from the options, not the
  configuration; it folds the image of those options (`dump.rs:589`), which a deploy
  does not (`deploy.rs:384-388` folds those of the entrypoints only); it does not fail
  where scoping fails hard, and notes a stub mount when metadata is not available.
  `DumpMatchesLive` names these cases and leaves them out.
* A user volume collides with the cache only if its path is exactly `/cache`.

Sources:

* `Carried` and `RootFits` name the workspaces `UploadBuilds` speaks of. Outside them:
  build-dependencies by path are not followed (`scope.rs:763`), the root's own
  dev-dependencies are not stripped (`scope.rs:280-282`), a root that is a package
  outside the closure is uploaded without its sources (`scope.rs:256-282`), and a crate
  below `tests/`, or one whose manifest is ignored, is dropped by the walk
  (`local_dir.rs:79`, `505-512`). The stub of a facade that lives in the workspace has
  no `modal_runner!`.
* The key of the describe cache leaves out the manifest of a virtual workspace's root;
  a pinned runner that is older than the manifest may refuse an input that the current
  one would take (`programmatic.rs:666-672`).

Decorators:

* A class with `Retries(..)` and a method with `retries = 5`, or the other way round, is
  registered with both, and the struct form wins; `cls.rs:23` says that the method's
  value does. `OneRetriesForm` leaves them out.
* A `timeout` beyond 32 bits is truncated; a `Period` beyond 32 bits, a gpu count, and
  bounds that contradict one another compile and are refused when the function is made.
* `mut` parameters are accepted, while a comment of `emit.rs` says they are not.
* Behind a web server the formats are those of ASGI, as for every webhook
  (`function/rpc.rs:116-142`); the comment of `WebhookSpec::web_server_port`
  (`function/spec.rs:161-163`) says that they stay `[PICKLE, CBOR]`.

Client and doctor: `doctor` accepts blank token variables, looks at the default profile
path only, and does not read `panic = "abort"` when a comment follows. With exactly one of
the two token variables set, the identity is half that variable and half the chosen
profile (`config.rs:236-245`), which may be two accounts'. No document promises otherwise,
so `ConnectsAsItself` states it as it is, and says which profile the other half is of.

Describe cache: `programmatic.rs:462-464` says of the pin that "only that scoped path is
ever exec'd", so that "interleaved builds of OTHER packages can no longer swap the binary".
Lines 467-470 and 789-791 execute the shared path when there is no pin, and an interleaved
build swaps that one (window 3 of `DescribeCache`). And `std::fs::copy` at 789, tried when
the link failed because the name is taken, empties a runner that is linked there already.

The models show three more consequences of the retry that the code knows of or
leaves open, and no run is spent on them: an input may run more than once
(`ResultsWhole` says how often), a queue get whose answer was lost pops items
nobody receives (`BatchesWhole` is about the answered attempt only), and an
output may be cleared by a poll whose answer was lost (the call then ends at
its deadline, `CallsReturn`). Two containers of one source that build at once share the
`.tmp` name of the runner cache, so what `wrapper.py:162` says of a torn binary depends on
what the volume does (`ExactRunner` leaves those sources out). And a best-effort prime
that is refused leaves its child alive beside the next one: `OneLiveChild` counts the
others.

## Fairness

* `RunApp`: weak fairness of each future's own steps: the executor polls a
  future that can move. Failures and drops are not forced, and nobody has to
  call. Tokio's mutex is fair, but here each task makes one call, so weak
  fairness is enough.
* `ServeWrapper`: Python runs its threads, the child reads its pipe, and user
  code ends (Modal's function timeout sees to it). Crashes and new inputs are
  never forced.
* `Deploy`: weak fairness of a deploy's and a call's own steps; an RPC ends in an
  answer or an error. Nobody has to deploy, call, edit or fail.
* `Invoke`: every RPC attempt ends, because the channel's keepalive
  (`modal-rust-sdk/src/channel.rs`) turns a dead connection into a lost
  attempt; time passes. No container has to run anything and no output has to
  expire.
* `RunnerCache`: a container that is not killed runs its wrapper on.
* `VolumePut`, `MountUpload`: weak fairness of each uploader's or task's steps: the
  runtime polls every future, and every attempt ends. Nobody has to edit, and the
  server need never show a content to a probe.
* `ImageJoin`: weak fairness of the client's steps, since a silent window is ended by
  its own timeout, and time passes. The build need never end.
* `DescribeCache`, `RunnerDispatch`: safety only. A command runs programs that may
  take any time, and a runner waits for its input.
* `QueueOps`, `DictOps`: strong fairness of taking the client's lock, since
  tokio's mutex is first come, first served and calls repeat; weak fairness of
  the answer to an RPC and of a deadline passing. Nobody has to put, so a get
  without a timeout is promised an end only if the queue does not run dry, and
  the calls behind it on the same handle are promised nothing.

## Proofs

For any value of the constants, under the named assumptions below:

| Module | Theorem | States |
| --- | --- | --- |
| `RunApp_proofs` | `TypeCorrect` | `Spec => []TypeOK` |
| | `Inductive` | `Spec => []IInv`, if `InjectiveTag` |
| | `MemoStaysInvokable`, `CallsRunAsDeclared` | `[]MemoisedInvokable`, `[]InvokedAsDeclared`, likewise |
| | `CreateIsSingleFlight` | the action property `CreatedOnce`, likewise |
| | `ImplementsService` | `ServiceSpec`: `RunApp` implements `RunService`, likewise |
| `Deploy_proofs` | `TypeCorrect`, `OneWholeDeploy` | `[]TypeOK`, `[]WholeDeploys` |
| | `LiveIsServable` | `[]Servable`, if `DistinctLines` |
| | `CallsRunTheirOwn` | `[]CallRunsItsOwn`, if `DistinctLines` and `InjectiveTag` |
| | `ImplementsService` | `ServiceSpec`: `Deploy` implements `DeployService`, if `InjectiveTag` |
| `ServeWrapper_proofs` | `TypeCorrect` | `[]TypeOK`, of any container |
| | `OwnEnvelopes`, `OneChild`, `RerunsAfterDeath` | `[]OwnEnvelopeAlone`, `[]OneLiveChild`, `[]RerunOnlyAfterDeath` |
| | `ImplementsContainer` | `ServiceSpec`: `ServeWrapper` implements `ContainerService` |
| | `ReadersGetAnswers` | a caller that reads always has a line, a frame before a living child, or a dead child: the safety half of `EveryInputAnswered`, of any container |
| `Objects_proofs` | `TypeCorrect`, `QueueKeepsBatches`, `ElectedStays`, `PutReportsTruly` | `[]TypeOK`, `[]BatchesWhole`, `[]WinnerStored`, `[]PutReports` |
| | `ReplacedOnlyByForce` | the action property `NoOverwrite` |
| `CallPath_proofs` | `TypeCorrect` | `[]TypeOK`, of all parts |
| | `FreshManifests`, `ExactRunners` | `[]FreshManifest`, `[]ExactRunner` |
| | `WholeResults`, `ReportsTrue` | `[]ResultsWhole`, `[]ReportsMatchServer` |
| | `RunnerAnswersInOrder` | `[]RunnerAnswers` |
| | `ChecksPredictRuns` | `[]CheckPredictsRun`: what a check says is what the run does, what is described is what was declared, and a built command line is read back as it was meant |
| | `ClientsAreThemselves`, `RemoteIsLocal`, `DumpsMatch` | `[]ConnectsAsItself`, `[]RemoteMirrorsLocal`, `[]DumpMatchesLive` |

Assumptions. The `ASSUME`s of `RunApp`, `Deploy`, `ServeWrapper`, `Objects` and
`CallPath` say what a constant is: a map has its type, a bound is a natural number, a
command line, a manifest, and the entrypoints of a plan with their secrets and volumes
are sequences, no token of a command line is `None`, inputs and files are finite sets,
and a value that stands for "nothing" (`None`, `Stub`, `Boot`) is none of the others.
`PartsDiffer`
says that a part without states has a name of its own. Nothing bounds the number of
tasks, deployers, callers, items, files, frames or tries. What goes beyond types is not
decoration:

* `InjectiveTag`, a hypothesis of the theorems that need it: `sanitize_object_tag` keeps apart the names in use;
  `run_app_colliding` shows what happens without it.
* `DistinctLines`, likewise: no two adapter lines of one deploy define one attribute (see "Met
  while reading").
* In `QueueConstants`, that no item is put twice and that a task has one role, so that
  the copies of an item can be counted; in `DescribesAll`, that no function has the name
  of a web server.

The inductive invariants, and why the properties are not inductive themselves:

* `RunApp`, `IInv`. `MemoisedInvokable` speaks of the last publish; it survives the next
  one only if the union in `Published` holds every memoised id (`UnionInv`), which
  survives a `record` only if the recorded id was precreated under its own tag, which the
  initialiser remembers between `Precreate` and `Publish` (`TaskInv`), which holds because
  no other task is between these steps for the same entrypoint, that is because of the
  locks (`LockInv`). One lemma per part, with one step per action in each; `MemoStep` and
  `ServiceStep` go from the invariant to the action property and to the refinement.
* `Deploy`, `DeployInv`. What is live is all that one deploy has made (`Live`, `Whole`),
  because the union it published had recorded exactly the entrypoints it had passed, each
  from its own plan (`Recorded`, `FromPlan`), with an image whose layers are those of the
  source it uploaded (`Layered`, `Placed`). A caller keeps a definition that some deploy
  made from its plan, however often the layout is replaced (`Held`), and a plan is kept.
  The refinement reads the app's version off the layout.
* `ServeWrapper`, `AloneInv`. A line belongs to a call because a pipe holds one frame or
  one answer, whose caller is the one that reads there (`Pipes`); that needs the child in
  use to be the one of the global (`Bindings`), every other to be down or refused
  (`UpIsServe`), and one caller at a time in the handler (`Single`). `Runs` counts the
  runs of an input by the place of its call: a second one finds its first child dead.
  The refinement needs two more facts (`Said`): the line a call finds was written by an
  execution of its request (`Spoken`), so no call is answered unexecuted, and a describe
  never touches a child (`Sentinel`). `ServiceStep` has one step per action; a container
  of more threads promises nothing and maps to stutters.
* `ServeWrapper`, `Fed`, of any container. With several threads a caller may take the
  line of another, so no pipe is anybody's; what is invariant is a count, that at most as
  many callers read from a child that is up as its pipes hold frames and lines.
* Queue, `QueueInv`. It speaks of `stream`, what was popped followed by what is still
  queued: an append or a pop keeps the order in it, and an item has as many copies there
  as its put has had tries.
* Volume, `VolumeInv`. A put that returns Ok was committed because in the second round
  nothing is missing that it did not PUT itself (`Rounds`, `Faithful`). Dict: `DictInv` is
  `TypeOK` and `WinnerStored`.
* Describe cache, `DescribeInv`. What a command that nobody misled goes by at each step
  (source, snapshot, shared runner, pin, manifest in hand) is of its key (`OfKey`), and
  the cache holds under a key what one of the machines describes (`Cached`).
* Build cache, `CacheInv`. For a source that is not raced there is one writer
  (`OneWriter`), whose `.tmp` inode is neither the one of the final name nor one that is
  still to be created (`Apart`, `Created`), so a rename puts a whole file in place of a
  whole file, and the bytes under the name never change.
* Invocation, `InvokeInv`. The copies of an input, waiting or run, are at most what the
  attempts so far can have left (`Paid`, `Bounded`), which bounds the runs; `Called` and
  `Enqueued` say that a poll is of a call that has its inputs.
* Mount, `MountInv`: a task that is done has seen its content (`Confirmed`), and no
  content is dropped between queue, tasks and mount (`Covered`). Image, `JoinInv`: what
  was printed is a prefix, and nothing with an id lies after the cursor (`Printed`,
  `Resumed`).
* Runner, `RunnerInv`: the two properties with the check of an input, and that a process
  that has not started has said nothing. The operators that answer a call are opened up
  in lemmas of their own (`CallServed`, `PrimedAll`, `CheckedAsRun`, `DescribedAll`).
  The command line is read by a fold over its tokens: `TokensFold` and `TokensTaken` go
  through them one by one (the induction is the choice of a least counterexample,
  `LeastOf`, because induction theorems take an operator), and `CommandsParse` reads off
  what each builder's line gives, for any name and value.
* `CallPathInv` and `ObjectsInv` say that the part a behaviour is of keeps its invariant.
* The parts without states are proved as they stand: `ResultsMirror` from what one call
  tells on each side (`CallTravels`, `FailureTravels`) and from `SameFirstError`;
  `ClientIsItself` from where a profile comes from (`SelectedProfile`, `ProfileFrom`) and
  what is laid on top (`ConfiguredClient`); `AbortIsCaught` from the two choices of a
  manifest. `LeastOf` is what all of them need of the first of several. `PlansAgree`: the
  two paths of a deploy have the same inputs (`InputsSame`) and provision does the same
  with them on both planes (`DeployIsSame`); the plan of a dry call is that of the live
  one with one request ahead, which appending keeps (`LedOn`) and so does stopping at the
  first failure (`LedToFailure`). That what is appended are sequences, however many
  secrets, volumes and functions are flattened, is the induction of `Flattened` and
  `FlatSequence`.

Model-checked only, and why:

* Liveness, that is `EveryCallReturns`, `EveryInputAnswered`, `BlockedGetFindsItem`,
  `CallsReturn` and `DeployEnds`: the proof system does not reach fairness.
* `ImagesBuild`, `UploadBuilds` and `DecoratorsReach`: what nested
  folds, filters and closures over sequences compute, for every input, would each need an
  induction by hand like that of the command line. They are checked over the inputs of
  `MCSettings`.
* The properties that runs expect to fail.

## Not modelled

* How long the server may delay a request of a dropped future. `RunApp`
  applies it before the caller's task goes on; a publish applied later than a
  newer one would de-invoke a function.
* Codecs (CBOR, the pickle subset, JSON): conversions of data whose shapes the
  properties do not tell apart. The text of Dockerfiles, manifests, generated mains and
  plans, argument parsing by clap, the guesses of `workspace.rs`, and printing.
* TLS, timeouts and keepalive of the channel (their effect is a lost attempt), and the
  memo of the image builder version, which is one value per environment.
* `modal_runner!` and the generated call handles of the macros; the client mount, which
  is a lookup of a published name.
* Calls that only read (`len`, `contains`, `name`), `delete` of a queue, dict or
  volume, which ends the object, and the 5,000 item cap of a queue partition.
* Backoff delays: an attempt is followed by another or by the error.
* The testkit's recorder and responders, which are test plumbing, and the examples,
  which are users of the facade.

## Plan

Written: `RunService`, `RunApp`; `ContainerService`, `ServeWrapper`, `Invoke`, `RunnerCache`, `QueueOps`,
`DictOps`; `DeployService`, `Deploy`; `VolumePut`, `MountUpload`, `ImageJoin`;
`DescribeCache`, `RunnerDispatch`; `Decorators`, `SourceUpload`, `BuildPlan`,
`ClientSetup`, `CallResults`; the proofs of all state machines and of the last two.

Next:

1. Lemmas about the operators of `Decorators` and `BuildPlan` that are no folds:
   `MergeOver` keeps what the method wrote; which requests a dry run leaves out.
2. Models still open: a delayed publish of a dropped future, and the adapter names of a
   deploy as constants of their own beside the tags.
