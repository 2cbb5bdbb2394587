# Formal model of the VMClarity scanner-plugin protocol

This directory holds TLA+ models of the parts of this repository that have
runtime behaviour. It also holds TLC configurations that model-check them, and
TLAPS proofs of their main invariants. Source paths are relative to `src/`.

## 1. Inventory

### Components

| Component | Source | State it keeps | Operations |
|---|---|---|---|
| Control surface / dispatcher `_Server` | `plugins/sdk-python/plugin/server/server.py` | none of its own (reads the scanner) | `get_healthz`, `get_metadata`, `get_status`, `post_config`, `post_stop`, `register_routes`, `start` |
| Scanner contract `AbstractScanner` | `plugins/sdk-python/plugin/scanner/scanner.py` | none | abstract `get_metadata/get_status/set_status/start/stop`; `export_result` (open with truncation, then `json.dump`) |
| Example scanner `ExampleScanner` | `plugins/sdk-python/example/scanner.py` | `status` (a `Status` object, replaced whole) | `__init__` (READY), `set_status`, `start` (RUNNING → sleep → export → DONE/FAILED), `stop` (no-op) |
| Process bootstrap `Server.run`, `_ServerConfig` | `server.py`, `plugins/sdk/python/plugin/server/config.py` | listen address and log level, read once | run the Flask app; exit 0/1 |
| Model codec `Model` | `plugins/sdk-python/plugin/models/base_model.py` | none | `to_dict`, `to_json`, `from_dict` |
| GCP Deployment Manager templates | `installation/gcp/dm/vmclarity.py`, `components/*.py` | none (pure functions of the DM context) | `GenerateConfig` of each template; `GenerateInstallScript` |
| Packaging | `plugins/sdk-python/setup.py` | none | — |

### How they interact

A host sends HTTP requests to the plugin. Flask's development server is
threaded, so each request runs on its own thread. `post_config` reads
`scanner.get_status()`. If the state is READY, it starts a new `Thread` that
runs `scanner.start(config)` on a fresh event loop, and it answers 201 without
waiting. `post_stop` starts a thread that runs `scanner.stop`.

The scanner's `status` is the only shared state. The request threads read it
and the scan thread writes it, with no lock. Python replaces the reference
atomically, so a reader always sees one whole `Status`. The scan result leaves
the process only as a file: `export_result` writes the JSON to
`config.output_file`.

The Deployment Manager templates run at deploy time in Google's template
expander. They share no state with the plugin.

### What is hard

- **Check-then-act across threads.** In `post_config` (`server.py:99`) the
  READY check happens on the request thread. The move to RUNNING
  (`example/scanner.py:35`) happens later, on the scan thread. Everything the
  spec promises about a single job rests on these two steps being atomic, and
  they are not.
- **Fire-and-forget threads.** The 201 is sent before the scan starts. A scan
  that fails can report it only through `status`.
- **Partial I/O.** `open(..., 'w')` truncates the file before `json.dump`
  writes it. A failure between the two, or a second scan on the same path,
  leaves a truncated result.
- **Failure paths.** Every exit from `start` must write DONE or FAILED.
  Otherwise the host polls a RUNNING status forever.

### What makes each component correct (from spec.md)

- Dispatcher:
  - at most one configure is accepted per process;
  - a rejected configure changes nothing;
  - after a 201, status is never READY.
- Lifecycle:
  - RUNNING is entered only from READY;
  - DONE and FAILED are terminal;
  - every accepted scan ends in DONE or FAILED.
- Result: when DONE is observed, the output file holds a complete document.
- Control surface:
  - healthz returns 503 iff the state is NOTREADY;
  - metadata always carries the server's `API_VERSION`;
  - stop always returns 201.

## 2. Modules

### `PluginServer` (core; models `server.py`, `example/scanner.py`, `scanner.py`)

Variables:

- `status`: `ExampleScanner.status.state`. The message is fixed by the state in
  ExampleScanner, so it is not kept.
- `pending[c]`: the output file of a `post_config` on request context `c` that
  has passed its READY check and has not yet started its thread.
- `resp[c]`: the last response context `c` received.
- `scans`: the scan threads in spawn order, each as `[pc, file]`.
- `stops`: the number of live stop threads.
- `files`: each output path as `absent`, `partial` or `complete`.
- `cfgReqs`, `stopReqs`: request counters, capped by `MaxConfigRequests` and
  `MaxStopRequests`.

Actions, one per handler or thread step:

- `GetHealthz`, `GetMetadata`, `GetStatus`.
- `PostConfigMalformed`: `get_json` fails on a body that is not JSON, and Flask
  answers 400.
- `PostConfigCheck`: the READY check. It answers 409 when the state is not
  READY.
- `PostConfigSpawn`: `Thread(...).start()` and the 201.
- `PostStopMalformed`, `PostStop`.
- Scan-thread steps:
  - `ScanStart`: `set_status(RUNNING)`, then the `await asyncio.sleep`.
  - `ScanOpen`: `open(..., 'w')` either fails, which leads to FAILED, or
    truncates the file.
  - `ScanDump`: `json.dump` either writes the whole document or fails, which
    leads to FAILED.
  - `ScanDone`: `set_status(DONE)`.
- `StopRun`: `ExampleScanner.stop` returns at once.

`post_config` is split in two because code runs between the check
(`server.py:99`) and `Thread.start` (`server.py:112`). The split lets other
request contexts and threads interleave there.

`json.dump` of the small result buffers its output and writes it at close in a
single write at offset 0. So a dump that succeeds after another scan truncated
the file still leaves a complete document.

Fairness is weak fairness on every scan-thread step, on the spawn step of a
handler that has passed its check, and on stop threads. Python schedules
started threads, and `asyncio.sleep(5)` returns. Clients get no fairness: a
host may stop sending requests at any time.

### `DeploymentTemplates` (models `installation/gcp/dm`)

Each `GenerateConfig` is an operator from the deployment name (and the
properties its parent passes) to its resources:

- `VMClarityResources`, `ServerTemplate` and `Outputs`: `vmclarity.py`.
- `FirewallRules`, `Roles`, `CloudRouter` and `Server`: the component
  templates.
- `Reads` and `InstallScriptReads`: the keys each template reads with
  `context.properties[...]`.

A base resource is `[name, type, refs, needs]`:

- `refs` holds the `$(ref.NAME.FIELD)` strings it carries. Deployment Manager
  (DM) orders creation by these.
- `needs` holds what must exist for its API call to succeed without DM knowing
  it. This is the custom role that a binding in `roles.py` names by the string
  `projects/{project}/roles/{id}`.

Names are tuples `<<stem, suffix>>`, where the stem is the deployment name or
`Hash(d)` for `sha1(d)[:10]`. The suffixes are fixed literals, and none is a
suffix of another, so tuple equality is string equality.

`network.py`, `static-ip.py`, `service-account.py` and the `.schema` files are
not in this tree. Each of those templates is taken to create one resource named
`context.env["name"]`. The server schema's defaults (`serverDefaults`) are
chosen in `Init`.

Variables:

- `deployment`
- `serverDefaults`
- `phase`: expanding, creating, done or failed
- `created` and `failed`: sets of base resources

Actions:

- `ExpandTemplates`: a KeyError fails the deployment.
- `Create(x)`: enabled once every `$(ref)` target of `x` is created. It fails
  when something `x` needs is missing.
- `Finish`.

`Create` and `Finish` model Deployment Manager itself, which is not code
of this repository. So they have no map entry. What they act on, the
`refs` and `needs` of each resource, comes from the templates.

Deadlock checking is off in these runs, because a deployment really stops once
it is done or failed.

### `PluginLifecycle` (abstract; from spec.md sections 3, 4.2 and 6)

What one scan promises, with no threads or HTTP. `state` is the reported
`Status.state` and `output` the output file: `"absent"`, `"partial"`
(opened, truncated) or `"complete"`. The actions are `Start` (READY to
RUNNING), `Truncate` and `Persist` (only while RUNNING), `Succeed` (only with
a complete file) and `Fail`. DONE and FAILED have no way out. `Spec` has weak
fairness on `Succeed \/ Fail`, so a scan does not stay RUNNING for ever.
`DoneComplete` is the abstract form of spec 6: Done only with a complete
file. This module has no map entries: it is the spec's promise, not the code.

`PluginServer` implements it through `Lifecycle == INSTANCE PluginLifecycle
WITH state <- status, output <- ResultFile`. `ResultFile` is the file of the
first scan thread, or `"absent"` before one is spawned. The mapping has these
cases:
- `PostConfigSpawn` is a stutter;
- `ScanStart` is `Start`;
- `ScanOpen` with the file truncated is `Truncate`, and its FAILED outcomes are `Fail`;
- `ScanDump` is `Persist`, or `Fail` when the dump fails;
- `ScanDone` is `Succeed`;
- the request handlers and `StopRun` are stutters.

This holds only while one configure is accepted. With two, the check-then-act
race above gives a second `Start` from RUNNING. That is why the refinement run
bounds `MaxConfigRequests` to 1 and the theorem assumes it.

### `GenericScanner` (models `scanner.py`'s abstract `start` and `server.py:103-110`)

This module extends `PluginServer` with `ScanRaise(i)`: any live scan thread
may raise out of `scanner.start`. The abstract method promises nothing, and
`start_scanner` has `try/finally` with no `except`. The thread then ends in
pc `"raised"` without touching the status. `ExampleScanner` catches its own
exceptions, so this is the contract any other `AbstractScanner` gets.

### `ModelCodec` (models `models/base_model.py` and `_JSONProvider`)

`to_dict`, `to_json`, `from_dict` and `_JSONProvider.default` are recursive
operators over a schema. The schema is the constant `Schema`: for each class,
each attribute's JSON key (`attribute_map`) and its declared type
(`openapi_types`: scalar, model, list of models or dict of models). A Python
value is a record tagged with its kind, and `hasattr(x, "to_dict")` is
"kind = model".

`AttrValue` follows `to_dict`'s branches in the code's order:
- a list maps the element lambda;
- a model calls `to_dict()`;
- a dict maps the item lambda;
- anything else is kept.

`ToDict` deletes a None entry only when `include_none` is False. The nested
calls use the default, True. `from_dict` calls `util.deserialize_model`, which
is not in this tree. `FromDict` and `Deserialize` model its contract: each
`attribute_map` key that is present is read back at its declared type, and
each missing one is None.

The state is one exchange:
- `sent`, the model;
- `Encode` (`export_result` or `jsonify` through `default`), which fills `wire`;
- `Decode` (`post_config`'s `Config().from_dict`), which fills `received`.

`MCModelCodec` has two classes. `Leaf` has two scalars, one renamed. `Holder`
has a nested `Leaf`, a list and a dict of `Leaf`, and a scalar. Every value is
at most one model deep, every list has at most one element and every dict at
most one key. That gives 364 initial models, and every branch of `to_dict` is
taken. TLC's run stops after one exchange, hence `CHECK_DEADLOCK FALSE`.

## 3. Runs (`MCPluginServer` with the `.cfg` named)

| Run | Expect | Checks | What it shows |
|---|---|---|---|
| `server_safety` (`MCPluginServer.cfg`) | pass | `QuiescentTerminal`, `StatusReflectsScans`, `UnsharedResultIntact` | However scans race and whichever I/O step fails, once every scan thread has returned the status is DONE or FAILED. READY is reported exactly until some scan thread has run `set_status(RUNNING)`. So the stale READY of `accepted_not_ready` lasts only that long. A DONE or FAILED always has a thread that ended that way. A scan that finished `export_result` keeps its complete file unless another scan was given the same path. |
| `server_liveness` (`MCPluginServerLive.cfg`) | pass | `EventuallyTerminal` | An accepted configure always ends in DONE or FAILED for good. No path leaves RUNNING, and nothing ever sets READY again. |
| `config_accepted_once` | violation | `ConfigAcceptedOnce` | Two POST /config in a row, even from one client, are both accepted, and two scans run. |
| `accepted_not_ready` | violation | `AcceptedNotReady` | A status read after a 201 returns READY. |
| `done_result_intact` | violation | `DoneResultIntact` | Scan 1 writes f1 and stays in "done". Scan 2 truncates f1 and then fails. Scan 1 then sets DONE, and the host reads a truncated f1. |
| `lifecycle_refinement` (`MCPluginServerRefinement.cfg`) | pass | `ImplementsLifecycle`, `RetiresTerminal` | With one configure, the server and `ExampleScanner` implement `PluginLifecycle!Spec`, fairness included (3934 states). Every step that ends a scan thread writes DONE or FAILED in that same step. |
| `generic_scanner_raise` (`GenericScanner`) | violation | `QuiescentTerminal` | A scanner's `start` raises: the thread ends and the status stays READY (or RUNNING) for good. spec.md 4.2 and 7 say this is mapped to FAILED. |
| `codec_round_trip` (`MCModelCodec.cfg`) | pass | `RoundTrip` | `from_dict(to_json(m)) = m` for all 364 models. Top-level None attributes are dropped and restored as None, and renamed keys are read back. |
| `codec_no_null` (`MCModelCodec_JsonHasNoNull.cfg`) | violation | `JsonHasNoNull` | A `Holder` whose dict holds a `Leaf` with `note = None` is encoded with `"note": null`. `to_json`'s docstring says None attributes are left out. |
| `deploy_templates` (`MCDeploymentTemplates.cfg`) | pass | `NamesUnique`, `RefsResolve`, `InstallsDisjoint` | In every deployment of two, resource names are distinct, every `$(ref)` and the `ip` output resolve to a resource that offers the field, and the two installations share no project-wide name (the custom roles and the account carry the hash). |
| `deploy_expands_cleanly` | violation | `ExpandsCleanly` | `openclarity_install_script.py:38` reads `yaraRuleServerContainerImage`. `vmclarity.py` never forwards it, so expansion fails unless the (absent) server schema defaults it. |
| `deploy_creation_succeeds` | violation | `CreationSucceeds` | A role binding from `roles.py` is created right after the service account, before its custom role. |

Bounds:

- Two deployments in one project are enough for `InstallsDisjoint`. All seven
  templates and their 11 base resources are expanded in full, and every
  creation order DM may pick is explored (932 states).
- Two request contexts, two output paths, up to three configures and one stop.
  Two contexts and two configures are enough for every race above, and the
  third configure also covers a 409 after the race.
- The liveness run uses two configures and no symmetry reduction. TLC's
  symmetry reduction is unsound for liveness.
- The safety runs use symmetry over the request contexts and over the paths.
  Both are interchangeable model values.

The three violation runs above come from one root cause. The same race also lets a late second scan thread set RUNNING over DONE or FAILED (`example/scanner.py:35`); `PluginLifecycle` makes both terminal, and its refinement holds only with one configure. The READY check in
`post_config` and the move to RUNNING in `start` are on different threads,
with no lock between them. The spec (sections 3, 4.3, 5 and 6) promises what
an atomic check-and-set would give.

## 4. Proofs (`PluginServerProofs`)

- `TypeCorrect`: `Spec => []TypeOK`. The step lemma `TypeOKStep` has one case
  per action. It rests on `SetPCFacts`, which states what
  `[scans EXCEPT ![i].pc = p]` preserves. `TypeOK` is proved rather than
  checked by a run. The only ways to break it are changes the code cannot
  make, for example retiring a stop thread that was never started.
- `QuiescentTerminalHolds`: `Spec => []QuiescentTerminal`. The inductive
  invariant is `IInv == TypeOK /\ QuiescentTerminal`, and the argument has
  three parts:
  - the only step that writes RUNNING (`ScanStart`) leaves its own thread live;
  - every step that retires a thread writes DONE or FAILED;
  - spawning adds a live thread, and no other step writes the status.

  `TypeOK` is needed because the argument uses the shape of `scans`.
- `RetiresTerminalHolds`: `Spec => RetiresTerminal`, the action property
  behind `QuiescentTerminal`. A step that takes a thread from live to
  returned also sets the status to DONE or FAILED. The step lemma
  `RetireStep` proves `TypeOK /\ [Next]_vars => Retire`. Request handlers
  and spawns keep or extend `scans` (lemma `NoRetireWhenScansKept`). A scan
  step of thread `j` leaves every other thread's pc alone (`SetPCFacts`),
  and its own step retires it only in `ScanOpen`, `ScanDump` or `ScanDone`,
  which write FAILED or DONE. `GenericScanner`'s raise is exactly a step
  that breaks it.
- `StatusReflectsScansHolds`: `Spec => []StatusReflectsScans`, for any
  number of racing configures. The inductive invariant is
  `SInv == TypeOK /\ StatusReflectsScans`. Two lemmas cover the scan
  steps:
  - `ScanWritesStatus`: a step that writes the status moves its own thread
    past `start`, and to `ok` or `failed` when it writes DONE or FAILED.
    No step leaves those two pcs.
  - `ScanKeepsStatus`: a successful open or dump leaves the status alone.
    It moves a thread that has already started, so it cannot be the
    witness for DONE or FAILED.

  `SpawnKeepsStatus` covers a spawn: the thread it appends is at `start`.
- `UnsharedResultIntactHolds`: `Spec => []UnsharedResultIntact`, for any
  number of racing configures. Together with `TypeOK` the property is
  inductive as it stands. By `ScanStepScans` and `ScanStepFiles`, a scan
  step of thread `k` keeps every thread's path and writes only `k`'s
  file. A thread whose path is unshared therefore keeps its file. `k`
  reaches `done` only by writing `complete`, and `ok` only from `done`.
  Together with `done_result_intact`, this pins the lost result on a
  second scan opening the same path.

These theorems hold for every value of the constants. The only assumption is
`ConstantsAssumption`.

Only model-checked:

- the liveness property `EventuallyTerminal`, and the fairness part of
  `ImplementsLifecycle`, which TLAPS cannot prove;
- `RoundTrip`, because `ModelCodec` is built from RECURSIVE operators, and
  what they compute cannot be proved for every input;
- the violation runs.

## 4b. Refinement proof (`LifecycleRefinementProofs`)

`RefinesLifecycle`:
`ASSUME MaxConfigRequests = 1 PROVE Spec => Lifecycle!Init /\ [][Lifecycle!Next]_Lifecycle!vars`.
This is the safety part of the refinement; the fairness part is only
model-checked, by `lifecycle_refinement`. The inductive invariant `RInv` says:
- at most one configure has been accepted;
- there is at most one scan thread;
- a pending configure excludes any thread and any other pending configure;
- with no thread, the status is READY and every file is absent;
- with a thread, the status and its file match its pc (`PhaseOK`): `start`
  means READY and absent, `sleep` RUNNING, `dump` RUNNING and partial, `done`
  RUNNING and complete, `ok` DONE and complete, `failed` FAILED.

The invariant is needed because a step's image depends on the thread's pc,
which the mapping does not show. `RInvStep` proves it is preserved, with one
case per action. Each scan step is reduced to the lemma `ScanStepShape`. The
theorem then maps each step by its action and combines the pieces with PTL.
TLC checked `RInv` as an invariant before it was proved.

`DoneReportsResult`:
`ASSUME MaxConfigRequests = 1 PROVE Spec => []Lifecycle!DoneComplete`.
This is `status = DONE => ResultFile = "complete"`, obtained without
looking at the implementation again. `LifecycleKeepsDoneComplete` shows
that every abstract step keeps `DoneComplete`: only `Succeed` writes Done,
and it needs the complete file. PTL gives
`Lifecycle!Init /\ [][Lifecycle!Next]_Lifecycle!vars => []Lifecycle!DoneComplete`,
and `RefinesLifecycle` supplies the hypothesis. With one scan this is
`DoneResultIntact`, which `done_result_intact` violates with two
configures. So the truncated result needs the double-accept race of
`config_accepted_once`. `UnsharedResultIntactHolds` pins it further, on the
second scan's path.

## 4c. Deployment proofs (`DeploymentTemplatesProofs`)

`NamesUniqueHolds`, `RefsResolveHolds` and `InstallsDisjointHolds` prove
`Spec => []NamesUnique`, `Spec => []RefsResolve` and
`Spec => []InstallsDisjoint` for every deployment name. `deployment` never
changes, so each is a fact about the expansion of an arbitrary name,
lifted to `[]` by PTL. The argument has four parts:

- `ExpandTable` evaluates `Expand` on each of the seven templates to an
  explicit tuple `Expansion(d)`.
- `BaseTable` and `NameTable` give each of the 11 base resources the name
  `<<Stem(d, x), Suffix(x)>>`. The stem is `Hash(d)` for the custom roles
  and the service account, and `d` otherwise.
- `SuffixInjective`: the 11 suffixes are pairwise distinct. With the name
  table this gives `NamesUnique`, and with the list of the names each
  `$(ref)` and output carries it gives `RefsResolve`.
- For two names `d # e`, equal resource names would need equal suffixes,
  so the same resource, and then equal stems. That means `d = e` or
  `Hash(d) = Hash(e)`. The model's `Hash` is injective, so the real
  `sha1(d)[:10]` is *assumed* collision-free here (see section 5).

The named properties of the templates are records rather than TLC's
`:>`/`@@` functions, so the provers can expand them.

## 5. Not modelled

- `Server.run` and `_ServerConfig`: environment parsing and process exit.
- In `PluginServer`, request and response bodies are abstracted to the values
  the properties distinguish. The codec itself is `ModelCodec`.
- The generated model classes of `models/__init__.py`. `ModelCodec` takes any
  schema, and its TLC instance uses two classes that cover every branch of
  `to_dict`. Lists of lists, whose inner models `to_dict` leaves unconverted,
  occur in no schema here. `to_str` and `__repr__` are formatting.
- The number of threads `post_stop` and `post_config` start (`server.py:129`).
  Requests are bounded in the model, and thread exhaustion is outside TLC's
  reach.
- `setup.py`.
- In the GCP templates, the import of `vmclarity_install_script` in
  `vmclarity-server.py`, whose file here is `openclarity_install_script.py`.
  The DM config that would alias it is not in this tree.
- The hash truncation in the GCP templates. `Hash` is taken to be injective.
- Exceptions escaping `start` in `PluginServer`: the example catches every one that can occur. `GenericScanner` adds them.
- The status message, which is fixed by the state.

## 6. Plan

1. Done: `PluginServer`, its runs, and the proofs of `TypeOK` and
   `QuiescentTerminal`.
2. Done: `DeploymentTemplates` and its three runs. Still to do: a redeploy
   (update) step, in which deleted custom roles linger in a soft-deleted
   state.
3. Done: `PluginLifecycle`, which `PluginServer` refines with one configure
   (checked, and its safety part proved). Still to do: with two configures,
   a weaker abstract spec, "the status is the last write of some accepted
   job".
4. Done: `GenericScanner` (an exception out of `start`) and `ModelCodec`.
   Still to do: the status message, and the per-client "201 then status
   read" history property.
5. Done: proofs of the `DeploymentTemplates` invariants, of the action
   property `RetiresTerminal`, of DONE implying a complete result with one
   configure (through the refinement), and of `StatusReflectsScans`
   and `UnsharedResultIntact` for any number of configures. Still to do: the refinement step by step for a weaker
   abstract spec that admits two configures.
