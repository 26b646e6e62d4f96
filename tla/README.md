# Formal models of CacheSlide

TLA+ models of the control logic of `cacheslide_vllm`: the immutable page
store, the wait queue, the per-layer slot map and paged K/V arenas, the runtime
that populates, reuses and recovers cached prompt snapshots, each of its
prefills layer by layer with the rows that are corrected, the continued
pretraining that stops, crashes and resumes, the launchers that run all of it
in stages and keep the record, and the downloader of its assets. TLC checks them
on small instances; TLAPS proves the main invariants for every value of the constants.
`PROJECT.json` lists the components, the runs, the source lines behind every
definition, the hazards of the code and the theorems. Paths below are relative
to `src/src/cacheslide_vllm/` unless they say otherwise.

Run a configuration with `tlc -config PageStoreTiers.cfg MCPageStore.tla`,
check a proof module with `tlapm PageStoreProofs.tla`.

## 1. Inventory

CacheSlide keeps the K/V state of a prompt on disk and reuses it in later
requests whose prompt shares the fixed chunks but not their positions.
One vLLM engine process owns one runtime; the runtime is called from the model's
attention layers and from hooks around the engine's model runner.

| component | state | operations | talks to |
|---|---|---|---|
| **Immutable page store** `storage.py` | `_pages` (of each its `payload`, `path`, `pins`, `inflight`, `last_access`), `_cpu_bytes`, `_cpu_reserved`, `_disk_bytes`, `_disk_reserved`, `_loads`, `_spills`, the directory, its `.writer.lock` | put, read, pin, submit_load, submit_spill, evict, delete, close, `_restore_catalog` | a pool of two worker threads; the file system; the runtime |
| **Wait queue** `wait_queue.py` | `_jobs`, `_waits`, `_work`, `_closed` | on_wait, cancel, on_wake, begin_next, complete, forget, close | consumers holding tickets; one worker; a backend that pins |
| **Layer slot map** `slide.py` | `_map`, `_pins`, `_inflight`, `_writes`, `_pending_tokens`, `_vacated`, `_unused`, `_next_slot`, `_closed` | pin_slots, pinned_mapping, write_guard, promote_selected, allocate_decode, bind_decode, decode_write_guard, invalidate | readers and writers of device memory; callbacks of load futures |
| **Runtime** `runtime.py` | `requests` (a `RequestState` each: `plan`, `reuse`, `profiles`, `wca`, `kv_future`, `dense_kv`, `arenas`, `created_keys`, `write_cache`), `active` | run (`_preflight`, `_recover_population`, `_prefill`, `attention`, the fallback), release, close | the page store, profiles, WCA, paged arenas |
| **Paged native KV** `paged.py` | of each layer of a request: `slot_map` (a `LayerSlotMap`), `_canonical`, `_block_table`, `_side_key` and `_side_value`, `_baseline_ready`, `_loads`, `_promotions`, `_selected`, `_decoded` | write, write_prefill, promote_selected, write_selected_ready, update_selected, decode, gather, invalidate | slot map, native blocks of vLLM |
| **Runner adapter** `integration.py`, `worker.py` | request snapshots, the execution in progress, installed hooks | attach to runner V1 or V2, prepare, execute, remove | the engine's model runner, the runtime |
| **WCA** `wca.py`, `policy.py` | candidates, selected and removed tokens, the layer reached, the weights | initialize, update, fuse | one prefill of the runtime |
| **Request plan** `contracts.py`, `config.py` | none: parsed once, immutable | parse, indices, layout, keys | everybody |
| **CoPE and profiles** `position.py`, `profiles.py`, `attention.py` | traces, calibrated profiles | encode, calibrate, load | model, runtime |
| **Model** `model.py`, `plugin.py` | tensors | forward | runtime |
| **Continued pretraining** `training_pipeline.py`, `training.py`, `training_data.py` | checkpoint directories, sample cursor, the exported adapter, the report | run, save, resume, export, report | file system |
| **Staged launchers** `workflow.py`, `src/scripts/run_paper_pretraining.py` | the output directory, its record (`workflow.json`, `status.json`) and temporary, the stages' products | make the directory, save, run a stage, verify, compare, close the record | child processes, each other, whoever edits the inputs |
| **Command line** `cli.py`, `workflow_smoke.py`, `compat.py` | none | parse, call the above | everybody |
| **Asset downloader** `src/scripts/download_paper_assets.py` | the owner file, the resolved list, the lock, `.part` files and published files | claim, lock, resolve, fetch, verify, publish | the network; other runs on the same directory |
| **Reports** `reproduction_*.py`, `src/scripts/prepare_paper_data.py` | none | offline computations | files |

### What is hard here, and what makes each part correct

*Page store.* Every public call takes a mutex, but reads and writes of files by
workers do not, and `read` waits for its load outside the mutex. A call that has to
make room evicts victim by victim and may spill in between; a process can die
anywhere. Correct means: a page in the catalog always has a copy (`NoPageLost`); an
acknowledged spill survives any crash (`DurableKept`); a pin really keeps a page in
memory (`PinProtects`); the guard counts equal their holders (`GuardsExact`) and the
byte counters equal what is really there, so that the two budgets hold also with
loads in flight (`Accounting`); what the worker threads and calls carry agrees with
the catalog (`Consistent`); `close` and evicting calls end (`CallsEnd`). All that a
caller may rely on is the abstract `PageCatalog`: an immutable value can disappear
for three reasons, never change (`ImplementsCatalog`).

*Wait queue.* One owner thread, but tickets and work units live on in the hands of
others after they were superseded, cancelled, evicted or closed. Correct means: the
two indexes of demand agree (`DemandExact`); a job is running exactly while its unit
is out (`WorkExact`); limits hold (`Bounded`); nothing overtakes (`NoOvertaking`); a
wait keeps the job it found or made, with its place in the queue, whatever the other
consumers do (`WaitKept`); a unit runs once per admission (`RunOnce`); a queued job
is served (`QueuedServed`).

*Slot map.* Each call holds the mutex for two or three short sections and copies
device memory in between; a load future's callbacks release guards at a time of
their own, and the map may be retired at any point. Correct means: counts equal
holders (`CountsExact`); a pinned slot's bytes do not change
(`ReadersUndisturbed`); two writers never meet (`WritersApart`); a slot is
mapped, a hole or unused, never two of these (`SlotsApart`); a live map's slots
hold the records it says (`MappedIntact`); a retired map publishes nothing
(`RetiredFrozen`). `WritersApart` also says that no call writes
a block shared with other requests, or leaves it as a hole.

*Runtime.* A population is a long sequence of durable writes that may fail at
any of them; the process may die; cleaning up may fail too, and what is left is
found by the next request of the same identity. Correct means: a commit marker
stands only over a complete, durable population by one writer
(`CommittedComplete`); a committed snapshot never changes (`CommittedForEver`);
a population never collides with left-overs (`NoCollision`); a token is never
sampled from a mixture (`SampledFromOne`); a run ends after at most one retry
(`RunEnds`).

*One prefill, with request plan and WCA.* A reuse computes every row up to the
calibration layer and then only the active ones. Rows continue by their place
in the previous active set; others come back by their place among the fixed tokens from
pages that a prompt with other recomputed chunks stored under the same key; gates
remove and promote; weights are measured at one layer and used at a later one; the
next layer's page is loaded meanwhile; and any step may fail, whereupon all starts
again without reuse. Correct means: every row is that of its token and layer
(`RowsExact`); the one load that runs is the live request's, and is drained before
its pages go (`PrefetchOwned`); the selection is the budget's worth of the most
deviating tokens that no gate removed (`SelectionBest`); a row is fused with the
weight of the layer where it was last computed (`WeightsTimely`); an output is
complete, keeps nothing of a failed first attempt, and is computed wholly with or
wholly without profiles (`OutputSound`); a run ends (`PrefillEnds`). That every
invalid path of the strict position policy is answered (`PositionRecovered`) fails:
section 6.

*Paged native KV.* One request's rows of a layer live in its native slots and a
sidecar; baseline writes, promotions that complete later, fused updates with
their mirrors, and decodes into holes displace one another. Correct means:
gather finds the newest row of every token (`RowsCurrent`); after the first decode
earlier rows are only read (`AppendOnly`). In the order in which attention uses
an arena, the baseline write after the load has to be admitted
(`BaselineAdmitted`), which fails: section 6.

*Continued pretraining.* A run reads its inputs one after another from files that
may change meanwhile, trains, writes checkpoints and may end at any point; a
later run resumes from any checkpoint directory it finds. Correct means: what can
be resumed or mounted is what an uninterrupted run would have made
(`ResumeExact`); a report never claims more than is there (`ReportTruthful`). That an
adapter is all of one backbone (`SameBackbone`) fails: section 6.

*Serving.* The runner admits, preempts, replaces and finishes requests through
hooks, the metadata it carries may change in place, and an execution that failed
may be scheduled again. Correct means: attention sees each row of the request's
history once and only rows of this request (`HistoryExact`); between executions
adapter, runtime and runner agree on what is alive and how far it came
(`SidesAgree`).

*Staged launchers.* A run is hours of stages whose inputs are checked at one moment
and read at another; a second launcher may be started on the same output, a save may
fail, and either may be killed. Correct means: a record that says completed is true
of a whole run (`CompletedTruthful`), what a launcher leaves never claims more than
it did, however it ended and whichever save failed (`FinalRecord`), and nobody
writes another's record (`RecordOwned`).

*Asset downloader.* Files are gigabytes, bodies arrive short or wrong, a run is
killed and started again, a second run may share the directory, and the last step
of a file leaves two names for it. Correct means: what stands at a final name is
the official file and stays it, and no report covers a missing one
(`PublishedOfficial`); a run ends whatever the network does (`DownloadEnds`).

## 2. Modules

| module | models | extends / composes |
|---|---|---|
| `PageCatalog` | the abstract promise of a page store | |
| `PageStore` | `storage.py` in detail | instantiates `PageCatalog` under a refinement mapping |
| `WaitQueue` | `wait_queue.py` | |
| `SlotMap` | `slide.py` | |
| `PagedKV` | `paged.py` | extends `SlotMap`, whose actions its own actions take |
| `LayerReuse` | one layer's attention in `runtime.py` | extends `PagedKV`, as its caller |
| `Population` | snapshots in `runtime.py` | composed over `PageCatalog` (an instance, its actions are called) |
| `RequestPlan` | `contracts.py`: which plans `parse` accepts, fixed and mandatory tokens, layout and key | |
| `WCA` | `wca.py`: the selection of one request over the layers | |
| `Prefill` | one prefill in `runtime.py`: `_prefill`, `attention`, `_prefetch`, `_read`, `_put`, fallback, `release` | extends `RequestPlan` and `WCA`, whose operators its actions take |
| `Pretraining` | `run_pretraining`, with `TokenCorpus` and `save_adapter` | |
| `Serving` | `integration.py` with `run` and `attention` of `runtime.py` | |
| `StagedRun` | `workflow.py` and `scripts/run_paper_pretraining.py` | |
| `AssetDownload` | `scripts/download_paper_assets.py` | |
| `Offline` | nothing of its own: a behaviour of one or the other of the two offline programs | extends `AssetDownload`, instantiates `Pretraining` |
| `PageStoreProofs`, `WaitQueueProofs`, `PagedKVProofs`, `PopulationProofs`, `PrefillProofs`, `ServingProofs`, `StagedRunProofs`, `OfflineProofs` | theorems | extend their module and `TLAPS`; what a module extends is proved with it: `SlotMap` in `PagedKVProofs`, `RequestPlan` and `WCA` in `PrefillProofs`, `Pretraining` and `AssetDownload` in `OfflineProofs` |
| `MC...` | small instances | extend their module |

In every module a definition named `...Fault` is the one that follows it with a
plausible mistake in it. No specification uses one. Each property is checked to
be violated when some definition is replaced by its `...Fault`
(`PROJECT.json`, "mutants"), so no property holds just because of how the model
is built.

### PageStore

`catalog`, `resident`, `backed`, `pins`, `inflight`, `recency` are the fields of
`_Page` for each key; `cpuBytes`, `cpuReserved`, `diskBytes` the counters;
`loads`/`spills` the jobs in `_loads`/`_spills` and what their worker is about to
do; `files`, `corrupt`, `pending`, `lock` the directory. `client` are threads
inside `read` (pinned, waiting, holding the payload). A critical section is one
action, with one exception: `_make_cpu_space` is a loop whose iterations are
actions, because a worker's file read, damage to a file or a crash can fall
between two victims and a failing victim leaves the earlier ones evicted. `op` is
then the call that holds the mutex, and `Available` keeps all others out. A load is
three steps (the worker reads the file without the mutex, takes the mutex and
publishes or discards, the future resolves); a spill two. `Crash` drops
everything in memory, and may leave a `.pending` file and the lock file; a start
with a lock present is refused until the lock is removed by hand.
`durable` is a history variable: the value a finished spill acknowledged.
A *value* is a payload with its selected count, and `Bytes` counts cells, so
that sizes are cardinalities.

### PageCatalog and the refinement

`content` is the catalog of the running object, or the files while no process
runs; `safe` the acknowledged keys. The run `store_tiers` checks
`ImplementsCatalog`, that every step of the store is a put, an acknowledgement, a
delete, a restart, a repair or invisible. `Population` is built over
`PageCatalog` and not over `PageStore`, which is why the refinement matters: what
is shown of the runtime needs no more of the store than the catalog.

### WaitQueue

One action per operation that changes something (`OnWait`, `Cancel`, `OnWake`,
`BeginNext`, `Complete`, `Forget`, `CloseLease`, `Close`); a call that raises or
returns `None` changes nothing and is left out. `tickets` and `units` are what
consumers and the worker still have in hand, so that a late or repeated call
with an old one is possible. Dictionary order is `since`.

### SlotMap

`map`, `pins`, `inflight`, `writes`, `pendingTokens`, `vacated`, `unused`,
`nextSlot`, `closed` are the attributes of the same name. A *task* is a call in
progress (`write_guard`, `promote_selected` or `decode_write_guard`) at its
current critical section; a *reader* an open pin. `load` and `hooks` are the load
future and the callbacks registered on it: they run one by one after the load
ends, possibly after another call. `holds` is not in the code: it is the tokens
whose whole record a slot contains, so that properties can speak of bytes.

### PagedKV and LayerReuse

An arena extends `SlotMap`, with the block table as initial mapping and the
sidecar as the slots from `Floor` on: `Assumptions` says so, and that the table
gives each position a native slot of its own (`_canonical_slot`, and
the checks of `__init__`). It is a definition and not an `ASSUME`, so that what is proved of
`SlotMap` alone does not rest on it; the theorems about arenas name it. `length`, `baseline`,
`selected` are `len(_canonical)`, `_baseline_ready`, `_selected`; `loading`,
`loadFailed` and `broken` are what `_check_loads` and `_check_promotions` see.
`op` is the call that holds the arena's mutex: `write`, `write_selected_ready`,
`update_selected`, `decode` and `gather` keep it until their device work is done,
so that only completions of promotions, of the load and its callbacks, and
readers that pin slots of the map, come in between. `promote_selected` gives it
back while its copy runs. `latest` is not in the code: it is the tokens whose
newest row a slot holds. Each step that finishes a device write moves it.

`LayerReuse` adds `step`, how far `attention` has come, and restricts the callers
of the arena to that one: stage the selected rows while the load is pending,
take its result, write the baseline, fuse, gather. The device does not fail
there, so that what is left is the order of completions.

### Population

One `run` or `release` call is in progress at a time (the runtime is single
threaded); its every call to the store is one action, and between any two of
them the process may end (`Restart`). Any store call may fail: with one of the
errors the code catches (`Fallback`, once) or another (`Raise`). The pages of an
identity are numbered in the order in which they are written, the commit marker
last; a page's value is the number of the population that wrote it, so that a
mixture of two populations is visible.

### RequestPlan, WCA and Prefill

`RequestPlan` and `WCA` have no variables: they are the operators that `contracts.py`
and `wca.py` are. A plan is its chunks and tokens; digests are taken to be injective,
so a key is the tuple of what is hashed. `Initialized` and `Updated` give the
set of states that `initialize` and `update` may leave. A tensor enters them by
what it decides: `deviation` is each token's rank in the stable descending sort, a
gate's result the set of tokens it finds converged, a weight in `alpha` the layer
at which it was measured.

`Prefill` has one thread, the runtime's: `at` says how far `run` is (`recover`,
`enter`, then for each layer `gather`, `read`, `prefetch`, `fuse`, `finish`, then
`output`), and one action is what happens between two calls that can fail or wait.
`hidden` and `kv` are the tensors, each row standing for what it was computed for:
a token, in its chunk and after the reusable chunks before it (`TokenAt`), and the
number of layers it went through. `order` is `active`, `index` the layer, `future`
the prefetch with the state of its load, `loads` what the store's workers are
doing, `created` the keys to be deleted when the population fails, `fused` the
weights of the layer's correction. A failure is one of the five errors that `run`
answers, `CCPEPositionError` among them (`plain`), or another (`Errs`). `ran`
(where each token was last computed), `policies` (whether layers used
profiles) and `outcome` are not in the code: properties need them.
`Population` has what this module leaves out: clean-ups that fail.

### Pretraining

`at` is where the process is in `run_pretraining`: each access to a file is an
action, so that an edit or the end of the process can come between any two.
`model` is the tensors of the adapters and the optimizer, as the sequence of
updates that made them, each with its step, configuration, backbone and the rows
it was computed from; two models are equal in the program when these are equal, as training
is deterministic. `checkpoint` and `adapter` are the directories, with how far
each was written; `backbone` and `corpus` the current version of the files, and
`Edit` whoever replaces them. An exception anywhere ends the process as a kill
does (`Crash`); a refusal that depends on what was read has an action of its own.
The checkpoint that `Start` is given may be any directory of an earlier run,
unfinished ones included. `slipped` is not in the code: the runs that loaded a backbone, or indexed a
corpus, of another version than the one they hashed (sections 5 and 6),
and those that resume their checkpoints; `ResumeExact` is about all others, and
`SameBackbone` about every run. The validation corpus, which trains nothing, is left
out, and so are the digests within a checkpoint: its files are not edited.

### Serving

`v2` says which runner the adapter was attached to. `engine` is the scheduler's and
the native runner's view of a request, both external: its metadata, the tokens
known, the rows computed, whether the runner has it. `snapshots` is the adapter's
dictionary (`request_snapshots` or `snapshots`), `requests` the runtime's with
`decode_tokens` and the rows that each layer's arena holds, `context` the
`ContextVar`. One execution is in progress at a time; `at` is how far it came:
removals, admission, input preparation, `run`, the layers, sampling. Any of these
may fail, and `execute`'s `finally` clause is part of each way out (`Ends`). A
refused prefill may have released the request's state already (`PrefillRefused`). A
nested or concurrent `execute`, and `prepare_inputs` outside of an execution, raise
before they change anything and have no action. Input IDs are taken to be those of
the request, so the comparisons with the history are left out; that a scheduled
prefill is the whole history is not.

### StagedRun

One module for two programs, because both follow one protocol: refuse an output that
exists (`Check`), create it exclusively (`Make`), save the record for the first time
(`FirstSave`) through a temporary that is itself opened exclusively (`Save`), write
a receipt before and after each stage (`Begin`, `Ends`), stop at the first failure,
close the record (`Close`) and return (`Leave`). Between `mkdir` and the first save
`logs` is made and the paper launcher hashes its configuration, outside of the
`try`: a failure there is the first disjunct of `FirstSave`. After the last save of
a completed run `workflow` prints its result, and that may fail: `Leave` ends with
`ok` or `error`. `program` says which, and `plan` is the list of stages that its
arguments ask for. What the stages do to what they read is kept to versions: `files`
are the model, the trusted manifest it is compared with and the configuration;
`adapter`, `profiles`, `summary` and `result` what stages leave. `knows` are the
variables of the launcher that hold what it read (`verified` and `before` are the
two verifications of the model, `hash` and `steps` what it read of the
configuration), `memo` its manifest or state in memory, `record` the saved one with
its author, which the code does not store: it is there so that a property can say
whose record it is. A verification is one read of the model; training reads its
configuration first and the backbone last. `Edit` may come between any two steps.
Left out are the `--smoke` and `--install` plans, and what a stage's own process
keeps, which is `Pretraining`. A progress line that cannot be printed, or a log that
cannot be opened, is `Interrupted`.

Two things the model shows are worth knowing and are not violations of any text. An
error exit does not mean that the record says failed. There may be no record (a
failure between `mkdir` and the first save), a completed one (the result could not
be printed, `workflow.py:548`), or one that still says running: a save that fails
after it opened its temporary makes every later save of that run fail with
`FileExistsError`. `FinalRecord` names these cases and says that there is no other,
and that in each of them the record has no stage that the process did not end in the
same way (`Behind`). And the `config_sha256` in `status.json` is of the file as it
was when the directory was made, compared once before training: two edits in the
right places train with another configuration of the same length.

### AssetDownload

`process` is where each run of `main` is, `worker` where each of its threads in
`download` is; `owner`, `manifest`, `holder` are `.owner.json`,
`download_manifest.json` and who has the lock; `part` and `target` the two names
of each file and `linked` the files for which both are one (between `os.link` and
`unlink`), so that an append through the one changes the other. Bytes are how many
there are and whether all are the official ones; a file either declares its size
or only a limit. `json_new` is two steps, as a kill between them leaves a file that does not
parse: every later run refuses it, and somebody has to remove it by hand. The
network may answer with a body, with nothing for now, or with something that is refused,
and a body may be wrong or end short.

## 3. Runs and bounds

| run | instance | shows |
|---|---|---|
| `store_tiers` | 2 keys, 2 values of sizes 1 and 2, 1 reading thread, RAM 2, disk 4, fairness | guards, counters and budgets, pins, no loss, durability, refinement of the catalog; `close` and evicting calls end |
| `queue_order` | 3 keys, 3 consumers, room for 2 jobs and 2 waiters, 3 tickets, fairness | demand, work, order, waits; queued jobs are served |
| `slot_map` | 4 prompt tokens, two in one slot and one in a shared slot, one to decode, 1 sidecar slot, 1 reader, 2 calls | guards, readers and writers, partition of slots, intact records, retirement |
| `paged_arena` | 2 prompt tokens, 2 decode steps, sidecar of 1, 1 reader, 2 calls | gather reads the newest rows, decode only appends |
| `layer_reuse` | 3 prompt tokens, 1 selected, 1 mandatory | the first finding of section 6 |
| `population_serial` | 2 identities, requests one at a time, 2 layers, 3 populations, fairness | snapshots are complete, immutable, unmixed; a run ends |
| `prefill` | 3 layers, calibration at the first, 60 % corrected, a gate every 2nd layer, weights of the previous layer, 2 ranks of deviation, 1 crash, populations of two prompts and reuse by one whose recomputed chunk is longer, fairness | rows, loads, selection and weights are exact, outputs sound; a run ends |
| `prefill_position` | the same with 2 layers and 1 rank, no crash | the second finding of section 6 |
| `serving_paged` | 2 requests with one of 2 metadata, prompt of 2, up to 4 tokens in all, 2 layers, both runners | rows of the history exactly once, agreement of adapter, runtime and runner |
| `staged_run` | 2 launchers on one output, every plan of both programs, 2 model versions, 2 lengths, 3 edits | completed records are true, no ending leaves a record that claims too much, no record changes hands |
| `offline` | training: 4 updates of 2 rows from epochs of 3, a checkpoint after every second, one run may stop after 3, 2 configurations, 2 runs, 3 edits; downloading: 2 processes and 3 starts, a file of length 2 and an archive of unknown length, 2 selections, 2 attempts, fairness | resumed and exported models are those of an uninterrupted run, reports are true; published files are official, a download ends |
| `pretraining_backbone` | 2 updates, 1 row, 2 runs, 2 edits of the backbone | the third finding of section 6 |

`offline` is one run of two programs that share nothing: a behaviour is one of
`Pretraining` or one of `AssetDownload`, never both. Distinct states: 260,210
(`store_tiers`), 641,036 (`queue_order`), 232,218 (`slot_map`), 78,880
(`paged_arena`), 451,850 (`population_serial`), 105,502 (`prefill`), 576,465
(`serving_paged`), 1,430,904 (`staged_run`) and 450,634 (`offline`); the three
violations are found within 20,000.

The bounds are the smallest in which the interesting cases meet. The store has two
keys so that one is the victim of the other, and two values of different size and
selected count so that the order of victims matters; RAM for fewer pages than exist,
so that every load may evict; disk for fewer files than keys with their headers (a
header of one unit matters: a forgotten header breaks `Accounting`). One reading
thread competes with the workers, evictions and `close`; for several, `PinProtects`
and `GuardsExact` are theorems. The queue has one more key than it may hold, as many
consumers as keys and one more than may wait, and a ticket for each; a ticket of an
older generation is refused by one guard and is not exercised, since there is one
generation. The slot map has one sidecar slot, so that a promotion of two tokens can
run out half way, and two calls, which is the number the hazards need; the tokens
differ in how their slot is shared: with one another, with other requests, or not at
all, and only the last can leave a hole. The arena has two decode steps because the
first that takes a hole displaces an old row and the second must not lose it.
Requests of `population_serial` live one after the other, so one name stands for all
of them. Two layers give a population five pages, so that failures can fall before,
between and after layers; three populations allow a left-over of the first to meet
the clean-up of the second and the commit of the third. `prefill` has three layers
so that a gate at the second can promote a token whose weight is of the first and
which the third uses; 60 % of three reusable tokens is a budget of two, so that one
waits, and two ranks let ties and strict orders occur; the two prompts share a key
and differ in the length of what lies between the fixed tokens, so that an offset
taken in one prompt is wrong in the other; one of the two populated prompts has
another first chunk, hence another key, and one plan leaves a gap and is refused.
Counters that would grow for ever have a named bound: `MaxIssued` (tickets),
`MaxPopulations`, `MaxRuns`, `MaxEdits`, `MaxCrashes`, `MaxStarts` and `MaxTokens`
(a longer request is no longer scheduled); every other variable is finite by itself.
Readers, calls, requests and processes are permuted by symmetry where only safety is
checked, never in a run with a liveness property. An update takes two rows of epochs
of three, so that it can straddle an epoch and its shuffle; checkpoints come on the
period, after the last step of a stopped run (3) and (4) on both; three edits are
what it takes to change a corpus, put it back while it is indexed, and change it
again before it is read; a third run could only resume from checkpoints that are as
exact as those of the second. Two attempts of a download let the second resume what
the first left, and three starts a third run meet what two left. Deadlock is checked
everywhere but in `layer_reuse`, `pretraining_backbone`, `staged_run` and `offline`, where the attention of
one layer, the launchers, or the last run, end.

### Fairness

*Page store:* weak fairness of the worker (a queued job runs) and of the holder
of the mutex (a call inside `_make_cpu_space` goes on); the executor's threads
and the interpreter guarantee both. No client is assumed to call anything, and
damage and crashes need not happen.
*Wait queue:* weak fairness of `BeginNext` and of the worker's reports. Both are
external to `wait_queue.py`: its caller has to poll with a grant. No consumer is
assumed to do anything.
*Population:* weak fairness of the steps of the call in progress: a
single-threaded call runs on until it returns. Nothing is assumed of failures;
they may come at every step or never.
*Prefill:* weak fairness of the thread's next step, which is disabled while it waits for a
load, and of the workers that complete loads, each with success or failure.
*AssetDownload:* weak fairness of each process's next step: the network answers or
the request times out (the code sets a timeout on each), and attempts are counted.

## 4. Proofs

Every theorem is proved for all values of the constants. TLAPS checks all of it;
nothing is assumed but the constants' named assumptions, which TLC evaluates.

*PageStoreProofs.* `IInv == TypeOK /\ Consistent /\ GuardsExact /\ NoPageLost
/\ PinProtects /\ DurableKept`, and `Invariance: Spec => []IInv`; the theorems
`StoreTypeOK`, `StoreNoPageLost`, `StorePinProtects`, `StoreGuardsExact`,
`StoreDurableKept` and `StoreConsistent` follow. None of the parts is inductive
alone. `PinProtects` needs `GuardsExact` (a page is evictable when its count is
zero, so the count must be that of the readers), `GuardsExact` needs
`Consistent` (a load that ends finds the page it began with), and both need
`NoPageLost`, because a load publishes what it read from a file. Assumptions:
`FiniteAssumption` (keys and threads are finite, for cardinalities),
`SizeAssumption`, `BudgetAssumption`, `NoneAssumption`. One lemma per action;
facts on cardinalities are stated once (`FS_...` lemmas of the library under
them).

`StoreAccounting` (the byte counters are the sums of what is there and within the
budgets) has an invariant of its own, `CpuExact /\ DiskExact` over `IInv`. A sum of sizes is
the cardinality of the cells that the pages fill (`Bytes`, `Cells`), so what is needed of it are
facts on cardinalities (`BytesFewer` and those after it) and no induction over
data. A counter that goes down with a page that is not the one it went up with, or a
reservation that is not given back, would break it; `Consistent` says that they are the same.
`StoreImplementsCatalog` is the refinement: `InitImplements` maps the initial
states, `StepImplements` each action of the store to one of `PageCatalog` or to a stutter.
It needs `IInv`, since an eviction is a stutter because the page is durable, and
a load because what it publishes is what was stored.

*WaitQueueProofs.* `IInv == TypeOK /\ DemandExact /\ WorkExact /\ Bounded /\
NoOvertaking /\ SinceExact`, where `SinceExact` says that a job's `since` is set
exactly while it is retained, differs from every other's and is not in the
future: that keeps the order that `NoOvertaking` is about. From it
`QueueTypeOK`, `QueueDemandExact`, `QueueWorkExact`, `QueueBounded`,
`QueueNoOvertaking` and the action property `QueueRunOnce`; `QueueWaitKept` is inductive over
`IInv`. It needs `DemandExact`: a job is dropped when it has no waiters, and only the
agreement of the two indexes makes that mean that nobody waits for it.

*PagedKVProofs, the map.* `IInv == TypeOK /\ CountsExact /\ CallsOK /\ ArenaOK /\
OwnOK /\ HoldsOK`, for any tokens, slots, initial mapping, shared slots, readers and
calls. `CallsOK` is the shape of a call's own data, `ArenaOK` the partition of slots
that no call has reserved, `OwnOK` what a call that writes has to itself, `HoldsOK`
that what is read is not written and what is mapped holds its token or is being
written. The argument: a count is the number of its holders (`CountsExact`), so a
slot without guards is in no call and in no reader (`Unguarded`); hence a call that
starts to write has its slots to itself, and goes on having them until it has
published them or given them up, whatever the load's callbacks release meanwhile.
`WritersApart` needs `OwnOK`, which needs `CountsExact` and `ArenaOK`;
`MappedIntact` needs `HoldsOK`, which at the end of a promotion needs `OwnOK`.
`FreshBound`, over `InitialSegment`, shows that the slots that a promotion takes
from `_next_slot` are an interval. The theorems are `SlotTypeOK`, `SlotCountsExact`,
`SlotReadersUndisturbed`, `SlotWritersApart`, `SlotSlotsApart`, `SlotMappedIntact`
and the action property `SlotRetiredFrozen`: all properties of the run `slot_map`.
Assumptions: `SlotAssumption` (the table has native slots, shared ones among them),
`FiniteAssumption`, `NoneAssumption`.

*PagedKVProofs, the arena.* Here `Assumptions` is a hypothesis that each theorem
names: the block table is one-to-one into the native slots, and the map begins as
the prompt in its slots. Every step of an arena is a step of its map (`ArenaSteps`),
which is `ArenaImplementsMap`, so all of the above holds in it. Over `IInv`,
`ArenaInv == ArenaTypes /\ MapOK /\ PromotionsOK /\ OpOK /\ RowsOK`. `MapOK`: what
is mapped is the prompt and what was decoded, and before the first decode a token is
in its native slot or in the sidecar. With the one-to-one table, no two tokens share
a slot (`OneToOne`) and only a token itself is in its native slot (`NativeOwner`).
`PromotionsOK`: a promotion writes fresh slots of the sidecar, which nothing maps to
yet. `OpOK`: the one other call that writes, the holder of the mutex, writes slots
of its own tokens. So a row that is current stays so, or a call that is about to
write its token's newest row covers it (`RowsOK`). Once a row was decoded no
promotion is open (`PromotionsDone`), so no call moves or writes a row that is there
(`ArenaAppendOnly`). The theorems are `ArenaImplementsMap`, `ArenaTypesHold`,
`ArenaRowsCurrent` and `ArenaAppendOnly`, for any prompt, number of decode steps,
table, readers and calls.

*PrefillProofs.* `ChunksPartition`: the chunks of a plan that `parse` accepts cover
every token of its prompt, each once; it follows that each token is fixed or
mandatory (`FixedOrMandatory`). `SameKeySameRows`: two accepted plans with one cache
key keep the same rows, in the same order, however far apart their prompts place
them; that is what makes a shared page right for both. `InitializedBest` and
`UpdatedBest` state that whatever the deviations, budget and gate, `initialize`
establishes and `update` keeps the best selection. Over these, `IInv == Calling /\
Prefetching /\ Correcting` of `Prefill`: at which stage a run may be for which plan,
which layer's load is there at each stage, which selection of which layer at each
stage. `Prefetching` needs the stages (a layer's load is asked for after the one
before was taken), `Correcting` too (`update` demands consecutive layers). The
theorems are `PrefillConsistent`, `PrefillPrefetchOwned` and `PrefillSelectionBest`,
for any requests, layers, calibration layer, percentage and interval.

What the tensors hold rests on a second invariant over the first, `RInv ==
PagesExact /\ Modes /\ RowsHeld /\ Weighed /\ WeightsTimely /\ Policed /\
OutputSound`. `PagesExact` says that a stored page has the rows that every plan with
its key would store: whoever populates writes its own rows, and `SameKeySameRows`
makes them everybody's. `RowsHeld` says of each stage which rows `hidden` and `kv`
have; a reuse scatters pages into `kv`, so it needs `PagesExact` and `Modes`.
`Weighed` relates a weight in `alpha` to the layer that last computed its token,
which the gates' use of a weight (`WeightsTimely`) needs. `Policed` says which
policies the pass has used, so that an output that used the profiles for a part of
its layers is excluded (`OutputSound`). The theorems are `PrefillRowsInvariant`,
`PrefillRowsExact`, `PrefillWeightsTimely` and `PrefillOutputSound`. Assumptions:
`RequestAssumption` (plans have the shape that the parser's types give them; whether
it accepts them is part of the model), `LayersAssumption`, `FractionAssumption`,
`BoundAssumption`, `NoneAssumption`.

*ServingProofs.* `IInv == Base /\ Histories`. `Base == TypeOK /\ Called /\ Stepping /\
Running /\ Kept /\ Scoped` is about who knows what: each stage of an execution is of
the request and of the rows that were scheduled (`Called`, `Stepping`), the runtime has counted the rows
that it is about to have (`Running`), and adapter and runtime keep only requests that the
runner has, with one metadata, the decoded rows being as many as the runner has
computed, or one more after a step whose sampling failed (`Kept`). That one row is why a
replay or a retry has to be told from a continuation. `Histories`, over `Base`: with arenas each layer has
the rows of the first positions, of one request's metadata, in order, or none since a
failed write retired it; the layers that attended in the present step have them
up to its end. The theorems are `ServingInvariant`, `ServingTypeOK`,
`ServingSidesAgree` and `ServingHistoryExact`, for both runners and any requests, metadata, prompt, layers and
lengths. The last is about `Paged` (section 5 says what happens without arenas).

*PopulationProofs.* Under `MaxLive = 1`, `IInv == TypeOK /\ CommittedComplete /\
Consistent` is inductive. `Consistent` says what a stage of a call knows of the
store: during a population, all pages before the current one are durable and of
this population, and none after it exists (`Populating`); what a request may
still delete is not under a commit marker that is durable, or the marker goes
first (`OwnUncommitted`); a reuse reads a committed population (`Reusing`); one
call is about the one live request (`Serial`). It gives `PopulationTypeOK`,
`PopulationComplete`, `PopulationConsistent`, `PopulationNoCollision`,
`PopulationSampledFromOne` and `PopulationImmutable`. `MaxLive = 1` is what
`compat.py:118` demands of the engine (`max_num_seqs`) and what the class says of itself
(`runtime.py:57`); section 5 says what would happen without it.

*StagedRunProofs.* `IInv == TypeOK /\ Consistent /\ CompletedTruthful /\
FinalRecord` is inductive. `Consistent` has four parts: `Owned` (only the process
that made the directory is past the beginning, and the record is its own),
`Progress` (the stages before the present one are complete and no other has ended,
after the last one its product is there, a stage marked as running is being run), `Saved`
(there is no record before the first save and then always one, which claims nothing that its
process has not done, and all of it when that is about to return) and `Closed` (a
record that says completed belongs to a process that is done or about to return). `TypeOK` needs
`Progress`, because an index past the plan is no stage; `CompletedTruthful` needs
`Closed`, because nothing may change what a completed record is about; both need
`Owned`, because another process would. `FinalRecord` needs `Saved`: after any number of
failed saves the record is an older one, and has to be behind the memory that the
process ends with; a stage's receipt keeps it so because that stage had not ended before
(`BehindReceipt`, from `Progress`). The lemmas `MadeStep` and `ActiveStep` state what is left
to show of a step by the owner; one lemma per group of actions follows them. The
theorems are `StagedTypeOK`, `StagedConsistent`, `StagedCompletedTruthful`,
`StagedFinalRecord` and `StagedRecordOwned`, for any number of processes, contents,
lengths and edits.

*OfflineProofs, the downloader.* `IInv == TypeOK /\ Claiming /\ Holding /\ Publishing`.
`Claiming`: who may be where given the owner file, and whom the list is for;
`Holding`: only the process with the lock has threads; `Publishing`: what each thread
knows of its file. A thread writes only where it has found nothing at the final
name, and no other thread has that file, so the two names are never one file
while one is written. The theorems are `DownloadConsistent` and
`DownloadPublishedOfficial`, for any files, selections, processes, attempts and kills.

*OfflineProofs, the training.* `TrainingInv == TypeOK /\ Started /\ Trained /\ Kept /\
Reported /\ ReportTruthful` of `Pretraining`. The model in memory is the one that an uninterrupted training
has after as many updates as the progress in memory counts (`Trained`); a checkpoint is whole
only after both were written, of the same number of updates, so one that may be
resumed has them agree, and the identity read with it says that configuration and
corpus are those of the run that resumes, and that its updates are of the backbone which the
identity names, unless a run slipped (`Kept`, `Started`); an adapter is
whole before a report says so (`Reported`). `Cursor` is the arithmetic: the
positions of one update follow those of the update before, over the ends of epochs. The lemma `Either` takes a
behaviour of the two programs apart. The theorems are `TrainingConsistent`, `TrainingResumeExact` and
`TrainingReportTruthful`, for any configurations, corpora, numbers of rows, updates, runs and edits, and
any crashes. Assumption: `TrainingAssumption` (the numbers are positive).

`StoreTypeOK`, `StoreConsistent`, `QueueBounded`, `QueueRunOnce`, `SlotTypeOK`,
`ArenaImplementsMap`, `ArenaTypesHold`, `PopulationTypeOK`, `PopulationConsistent`,
`StagedTypeOK`, `StagedConsistent`, `ChunksPartition`, `SameKeySameRows`,
`PrefillConsistent`, `PrefillRowsInvariant`, `ServingTypeOK`, `ServingInvariant`,
`DownloadConsistent` and `TrainingConsistent` are left to the proofs: no run checks them.

Every invariant and action property of a passing run is also the property of a theorem. Only
model-checked are the liveness properties `CallsEnd`, `QueuedServed`, `RunEnds`, `PrefillEnds` and
`DownloadEnds`: liveness under fairness is out of the prover's reach, as is `ENABLED`. The
three properties that the code violates (section 6) are refuted by TLC's counterexamples.

## 5. Not modelled, and the plan

Left out of the modelled parts: statistics and logging, header encoding beyond
its length, failures of `fsync` of a directory handle while an earlier error is
handled, submission to an executor during interpreter shutdown,
`coalesce_slot_writes` (a pure function). In `Prefill`, the association of a
selection with the layer's attention result (numerical), the arena's failures
(`LayerReuse`) and failing clean-ups (`Population`). In `RequestPlan`, the profile
key and the types and limits of fields. In `AssetDownload`, path and ownership
checks, TLS and the requests that resolve a list: each is an outcome that a step
may have. `update_block_table` of `paged.py`, which refuses to move a token, so
that a token's slot in the table is a constant.

Three things are modelled and no property is stated about them. A kill between the
creation and the content of `.owner.json` or `download_manifest.json` leaves a
file that every later run refuses; `docs/open_assets.md:42` says that
re-running the same command resumes interrupted downloads, which is true once the
two files are whole. And `save_adapter` reads the backbone's manifest again after `run_pretraining`
compared it (`training_pipeline.py:503`, `artifacts.py:284`): a backbone replaced in between
gives an adapter that names another one. `ResumeExact` is about what the tensors are.
The third is an edit of the corpus that is taken back. `TokenCorpus` hashes the file, reads it
again for the index, and hashes it once more (`training_data.py:66-102`). If the corpus is
replaced between hash and index and put back before the second hash, the hashes agree and the
index is of the other version; when that version comes back, its rows pass the check of
`__getitem__` and are trained under the hash of the first. It takes three edits at three
moments; the docstring (`training_data.py:46-51`) claims that an edit cannot change an experiment silently.
`ResumeExact` is about the runs to which this did not happen (`slipped`). The same slip of the
backbone is the third finding of section 6.

`Population` is checked and proved with one live request at a time, which the class
(`runtime.py:57`) and the engine's configuration (`compat.py:118`) demand. With `MaxLive = 2`
`CommittedComplete` is false, by two live requests of one identity: the first fails, with pages
listed in `created_keys`; the second recovers what is there, populates and commits; the release of
the first then deletes the committed pages by key, whoever wrote them
(`runtime.py:132-142, 177-178`), and its list cannot contain the marker, which stays.

`Serving` is checked with arenas, which the engine always has. Without them (the
dense store of the tests) `HistoryExact` does not hold: a decode that fails
after its first layers leaves `decode_tokens` behind the rows that those layers
appended (`runtime.py:387-391, 493`), the retry passes the check of
`runtime.py:340`, and they append the row again. With arenas the retry is refused
(`paged.py:499`) until a replay rebuilds the request.

Order of the work; 1 to 13 are done.

1. `PageCatalog`, 2. `PageStore` with proofs, 3. `WaitQueue` with proofs,
4. `SlotMap`, 5. `Population` with proofs, 6. `PagedKV` and `LayerReuse`,
7. `Pretraining`, 8. `Serving`, 9. `StagedRun` with proofs, 10. `RequestPlan`, `WCA`
and `Prefill`, which composes them, with proofs, 11. `AssetDownload` with proofs,
12. `PagedKVProofs`, the map.
13. More proofs: the arena over its map, the rows of `Prefill`, `ServingProofs`, the
    training in `OfflineProofs`, `StoreAccounting` and `StoreImplementsCatalog`.
14. `update_block_table` as an action; the discrete checks of a contextual path.

Out of reach: tensor numerics (positions, attention, training steps), the
native model, formatting, argument parsing and offline reports. They have no
interleaving and their properties are about real numbers.

## 6. Disagreements between code and documentation

`layer_reuse`: when a reused layer's read is still pending, attention stages the
selected rows with `promote_selected(load_future=...)`, which keeps the original
slots in flight until a callback of the load gives them back
(`slide.py:306-315`). Attention then waits for the load's result
(`runtime.py:209`) and writes the baseline (`runtime.py:544`). A `Future` wakes
those who wait for its result before it runs its callbacks, so the write can find
its slots still in flight and raise a plain `RuntimeError` (`slide.py:220`), which
`run` does not answer with a full prefill (`runtime.py:348-354`): the request
fails. `docs/design.md:111` says of this branch that later baseline writes
populate the original slots. The window is short and the tests complete the
future within `result()`, where callbacks always come first.

`prefill_position`: `run` answers the first error of a prefill with one full
prefill, and clears the profiles only when that error is a `CCPEPositionError`
(`runtime.py:370-371`). After another of the five errors (a page that cannot be
read, a failed population) the second `_prefill` (`runtime.py:383`) still uses the
canonical profiles, and under `strict_contextual` it can reach a path that the first one
did not and find it invalid. That error is raised inside the handler, nothing catches
it, and the request fails. `docs/design.md:63` says that when any layer fails, the
runtime clears all layer profiles and recomputes every layer with plain CoPE.

`pretraining_backbone`: `run_pretraining` takes the backbone's manifest
(`training_pipeline.py:367`) and loads the backbone afterwards
(`training_pipeline.py:370`). A backbone that is replaced in between is trained on
under the hashes of the other one, which every checkpoint carries. The comparison at
the end of the run (`training_pipeline.py:503`) then refuses the export, but the
checkpoints stay. When the backbone is put back, a second run resumes from one of
them: `_load_checkpoint` compares the recorded identity only
(`training_pipeline.py:267-274`), which agrees, and the comparison at the end agrees
too. The adapter that is exported has updates of two backbones.
`docs/continued_pretraining.md:158-160` says that a run is resumed with the
identical backbone and that changed inputs fail closed. It takes two edits, one of
them within the seconds between two reads of one run.
