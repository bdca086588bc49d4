# A TLA+ verification of super-quant

super-quant prepares calibration corpora, quantizes large mixture-of-experts
models with external tools, serves them with three inference engines and
benchmarks the result. Its own logic is not in the tensor arithmetic, which
belongs to the libraries it calls. It is in the programs that build shared files
and directories, in the scripts that start and stop servers, and in the
arithmetic that decides what calibration data a model sees. Those parts are
modelled here: TLA+ modules translated from the source, TLC runs on small
instances, and TLAPS proofs for every instance.

Paths below are relative to the repository (`src/prepare_calibration.py` is the
package module, listed as `src/src/prepare_calibration.py` in `PROJECT.json`).

## The system

| Part | State | Operations | Talks to | Hard behaviour | Correct when | Here |
|---|---|---|---|---|---|---|
| Shared parent corpus (`src/prepare_calibration.py`) | the directory `corpus_dir`, staging and backup directories beside it | `build_corpus`, `_stage_and_publish`, `_publish_directory`, `load_corpus` | every `make calibrate*`; read by the packager | races without a lock, failed renames, signals, crashes | the name never bears a partial corpus, the last build survives, a load is one build | `CorpusStore`, `CorpusPublish` |
| Per-source extraction and cache (same file) | two files per entry, temporary files | `load_source`, `_load_source_cache`, `_write_source_cache`, the loop of `build_corpus` | Hugging Face datasets; all runs of a machine | two renames per entry, shared without a lock, damaged files, crash and repeat | what is served is one whole extraction | `SourceCache` |
| Server scripts (`scripts/serve_*.sh`, `stop_*.sh`) | a pid file per engine, processes, a port | serve: look, refuse or clean, spawn, record, wait; stop: look, signal, wait, kill | each other through pid files and the port | overlapping scripts, recycled numbers, servers that die, load slowly or ignore signals | no server is lost or started twice | `ServerScripts` |
| Dataset packing (`src/model_utils.py`) | candidates, selected units, rows | quotas, segments, units, selection with wrap-around, gate, packing | GPTQ, AWQ and KV-cache recipes | rounding, separators, paragraphs longer than a row, pools that run out | no token lost or repeated, rows fit, budgets met | `PackDataset` |
| Model-scoped calibration build (`src/prepare_calibration.py`) | `calibration_dir` with two files per domain, mixed files, coverage and a manifest | `build_calibration`, selection per domain, holdout, validation of an existing build | the parent corpus, the tokenizer, the quantizers | stale or half-written builds, holdout leakage, directories replaced under a reader | calibration and holdout share no text, and are of the corpus the manifest names | `CalibrationRecords`, `CalibrationBuild` |
| Release archive (`scripts/package_calibration_corpus.py`) | the tar file, a temporary file beside it | load, write beside, rename | the parent corpus | the corpus changes while it is packed, failures and crashes in the write | an archive is one corpus, whole | `CorpusPublish` |
| Environment releases (`scripts/setup_sglang_env.sh`, `setup_vllm_env.sh`) | release directories, a manifest, a symlink | build, validate, activate | the serve scripts call them | two builds, interrupted builds, the moment without a symlink, a link replaced beneath a server | what is activated was built whole, a running server keeps it | `EnvRelease` |
| SGLang benchmark harness (`scripts/11_bench_sglang.sh`, `bench_sglang_request.py`) | metrics files, two copies of the server's log, a marker file | the probes of the correctness phase, the flush of the cache tiers, the verdict | the SGLang server, the digest check | answers that vary, flushes that fail, a failure between stopping one server and starting the other | a probe passes only for what it showed | `HiCacheProbe`, in part |
| HiCache digest check (`scripts/hicache_digest_check.py`) | digest lines of the logs | pairing of digests, `omission_only`, replay rule, classification | the harness | what may be excused, and only then | no text but an omission is excused, and with exact digests | `HiCacheProbe` |
| Expert coverage gate (`src/model_utils.py`) | hooks, counts per layer, domain and expert, a report | measure, write the report, check against the minimums | the routers of the model | hooks on error paths, padding, gate after the report | counted exactly, unhooked once the measurement has begun | `QuantizeCheckpoint` |
| Quantization glue (`src/quantize_nvfp4.py`, `awq_prescale.py`, `model_utils.py`) | a recipe, a model in memory, a checkpoint | recipe validation, target checks, calibration, strip, save | the external quantizers | a check forgotten on one of two paths, leftovers of a temporary quantizer | nothing is saved past a failed gate | `QuantizeCheckpoint`, in part |
| Imatrix pipeline (`src/generate_imatrix.py`, `merge_imatrix.py`, `scripts/03_*`, `04_*`) | one matrix per text, a merged matrix, in the calibration directory | skip if present, accumulate, write in place, merge | the calibration build that replaces the directory | interrupted outputs skipped as if complete, texts replaced meanwhile | a matrix is of one text, the merge is the weighted blend | `ImatrixPipeline`, in part |
| Infernix tools (`scripts/infernix_placement.py`, `bench_infernix.py`, `bench_prefix_disk.py`) | server process, request log and its parser, phases, a plan | reserve plan, boots, placements, phases of requests, cleanup | the Infernix server and its log | signals at any moment, log lines after the answer, integer division of memory | servers are stopped, numbers go to their phase, a plan is the largest that fits | `InfernixTools`, in part |

Not modelled, with the reason:

- Tensor overrides and sensitivity analysis (`generate_hybrid_overrides.py`,
  `sensitivity_analysis.py`): a ranking of measured floating-point numbers in one
  sequential pass, no state to share.
- Reports, problem tables, agent corpus and agreement tools: formatting, static
  tables, or one process measuring a remote server.
- Download, conversion, benchmark and serve wrappers (`00_` to `02_`, `05_`,
  `06_`): straight-line calls of external tools. `slim_nvfp4.py` rewrites tensor
  files one after another.
- In the SGLang harness, the change from the normal to the digest server with its
  marker file and cleanup trap. The servers are those of `ServerScripts`; what the
  trap does when a command of it fails depends on the shell's rules for `errexit`
  within functions called from a trap, and a model would guess at those rather
  than translate the script. The timed phases only measure.
- In `bench_infernix.py`, the moves of the placement between two workloads and the
  shift run: they send commands and read numbers. In the imatrix pipeline,
  `04_quantize.sh`: the same skip-if-present rule around an external program.

## The modules

### CorpusStore and CorpusPublish: the shared corpus directory

`CorpusPublish` runs any number of invocations of `main()` (and of
`package_corpus`) against one directory. A step is one file system call and the
local computation up to the next. A *job* is the command line: build the corpus,
calibrate, or package, with or without `--force-corpus`, under a seed. `leg` says
which call of `main()` a run is in, because `build_corpus` is reached in two ways
(from `main`, and from `build_calibration` when the corpus is absent) and returns
to different places.

| Source | Actions |
|---|---|
| `main`, entry of `build_corpus`, `build_calibration`, `package_corpus` | `CheckBuild`, `CheckCalibrate`, `CheckPackage` |
| `build_corpus`, `_stage_and_publish` | `Extract(Fails)`, `WriteFile`, `WriteFails`, `CheckDestination` |
| `_publish_directory` | `MoveAside`, `MoveFails`, `InterruptBeforeTry`, `Install(Fails)`, `InterruptInTry`, `Restore*`, `Purge*`, `Fresh*` |
| `load_corpus` and its checks | `ReadManifest`, `ReadFile`, `LoadFails`, `Loaded` |
| `package_corpus` after the load | `WriteArchive(Fails)`, `InstallArchive(Fails)` |
| the death of a process | `Crash`: nothing is cleaned up |

A directory maps file names to *versions* (who extracted it, under which seed);
"size and SHA-256 match the manifest" is equality of versions. Any call may fail,
a signal may arrive between the rename and the `try` or inside it, and `rmtree`
removes one file at a time.

`CorpusStore` is the abstract specification: a register that holds a whole corpus
or nothing and never changes from one corpus to another in place; a load looks at
it once, and every file of the answer belongs to what it saw. `ImplementsStore`
is the refinement: the register is `dest`, the candidate of a load is the manifest
it read, the answer is what `load_corpus` returned. That it holds is not obvious,
because the domain files are opened by path, one by one, while the directory is
swapped beneath the reader. The order in which the files are read is left open. A
packager answers with the archive: `temp` are the temporary archive files, `archive`
the files in the one that is in place, taken from the load and not from the
directory. Its layout in bytes is left out.

### SourceCache: extraction and the per-source cache

Each run takes the sources in order: refuse a cap below the minimum, look up the
cache (records first, then manifest), else read rows until the cap or the end,
check the minimum, and write the entry (temporary file and rename, twice). A row
is good, empty or of the wrong schema; the extractors are reduced to that verdict.
Caps, minimums and the shuffle buffer come from the source or, where it has none,
from constants of the checkout the run was started from (`config`): they are
inputs of the extraction and not of the key. `Damage` cuts a cache file short at
any time, because the code never syncs it. `Extraction` is the reference
definition, independent of the loop: the good rows of the shortest prefix that
holds the cap.

### ServerScripts: serve and stop

Shells run scripts one after another. The action names follow the commands of the
scripts: `Serve{Look, Probe, Unlink, Port, Refuses, Spawn, Record, Wait, Curl,
Timeout, Drop}`, `Stop{Look, Probe, Identify, Term, Poll, Kill, Drop}`. The
differences between the engines are in the guards: only `serve_infernix.sh` looks
at the port, only `stop_vllm.sh` looks at `/proc/PID/cmdline`. The machine may let
a process end at any time, start other programs, and give them numbers that were
a server's. `upset` is history: the engines whose scripts have overlapped, or one
of whose scripts was killed between `nohup` and writing the pid file; `met` is
history too, the numbers given out since a stop script started.

`StopKill` only tells the process to die: the scripts remove the pid file and print
"stopped" right after `kill -9`, so a server may be dying ("killed", until `Exit`) with
its port and the GPU still held. `Serves` leaves such servers out, and the properties
promise no more than that: a stopped server has gone or is dying.

### PackDataset: from records to rows

`build_calibration_dataset` as a state machine: `AssignQuota` per domain,
`StartDomain` (any shuffle), `NextRecord` with the wrap-around, `Chat` or
`Paragraph`/`EndDocument`, `TakeUnit`, `Gate`, then `PackUnit` (units in any
order) and `LastRow`. A text is the sequence of its paragraphs' token counts, and
a unit records which tokens of which paragraph it holds, so that "no token lost"
can be said. `int(remaining * weight)` of two floats may come out one below a
whole number, and `Share` allows that.

Left out: the choice of `position_offsets` for the rows, and the `long_sequences`
branch, which no recipe reaches because `_validate_calibration` refuses the key as
unknown. The checks of `load_calibration_records` are assumptions here and
operators in `CalibrationRecords`. Shares are taken as exact, although the
validator lets their sum be off by `1e-6`.

### EnvRelease: the environments of the servers

One engine's release directories, the symbolic link the serve scripts look
through, and the checkout its source is in. `Serve` is `ensure_sglang` or
`ensure_vllm` (look through the link, call setup or not) and `Spawn` the start of
the server; `Setup`, `ReadRevision`, `Look`, `Wipe`, `Venv`, `Install`,
`Installed`, `Validate`, `WriteManifest`, `Unlink`, `Link` are the commands of a
setup script in their order; `Fails` and `NoDirectory` are its exits under
`set -e`, `Killed` a signal, `Checkout` somebody moving the source to another
revision. `rm -rf` removes a directory bit by bit and may be interrupted, an
installation has a state in its middle, a manifest can be cut short, and `ln -s` may
fail after the old link is gone. The two scripts differ in what they do before the
wipe (SGLang copies the source and resolves its dependencies, vLLM asks for the tag);
all of that is a pause that may fail.

A server is started by its path through the link and goes on using it: what it
imports or spawns later it finds there. `Check` is the look at the pid file at the
start of a setup, and nothing else keeps a setup from replacing the link. It sees a
server only once `Record` has written the pid file, and one that starts after it is
not seen at all. `Engine` says whose scripts run: `serve_sglang.sh` looks at the pid
file before it calls setup, `serve_vllm.sh` after it. How pid files and processes come
apart is left to `ServerScripts`; here the file names the live server written last.
(`setup_vllm_env.sh` looks at both engines' pid files; that it may also refuse for
SGLang's server is one of the failures of `Fails`.)

`contested` is history: releases that two scripts were building at a time. They
have no lock, and two builders of one release really can sign what one of them has
just emptied; the properties except those releases, and say that nothing else goes
wrong. `unseen` is history: the servers no check could have seen, because one was
started while a setup was past its check or was not named in the pid file when a
setup checked; `ServersKeepTheirEnvironment` excepts those, and they do lose their
environment in the model. `torn` is history too: no link has been made yet, or a
script was killed, or its `ln` failed, after it removed the link.

### CalibrationRecords and CalibrationBuild: the model-scoped calibration data

`CalibrationRecords` is the life of a record as pure operators: the four
extractors (`Extract`), the identity and the validation of the parent's records
(`Identified`, `ValidCorpusRecord`), what the target tokenizer makes of them
(`StripSpecialTokens`, `Segments`, `TargetRecords`), near duplicates
(`Deduplicate`), budgets (`TakeToTokenBudget`), and the reader of the quantizers
(`LoadableRecords`). A text is a sequence of symbols, each one token and one
character as in the fake tokenizer of the tests; three symbols matter by
themselves: a special token, the white space between units, and a Unicode line
separator. `Fingerprint` is the code's sketch: features at `Samples` places spread over
the text, of whose digests the `Sketch` smallest are kept. `Hash` gives a feature its
digest; two features with one digest are allowed.

`CalibrationBuild` is `build_calibration` around them. `Start` and `LoadCorpus`
take the parent by the promise of `CorpusStore`: one whole corpus, which
`Republish` may replace the moment after. `CheckExisting` is the check of an
existing build against the policy (`CheckBreaks`: a manifest that ends the program,
because only some exceptions are caught), `Adapt` the work up to the deduplication,
`SelectDomain` the two shuffles and two budgets of a domain, `Combine` the last
check and the staging, `MoveAway`, `MoveIn` and `MoveFails` the swap. `Damage`
spoils a file: what it leaves cannot be read, or, for a domain, is cut between two
records or overwritten by another valid one (`Strays`). `Kill` ends the builder anywhere. `ReaderStarts`, `ReadDomain` and
`WriteReport` are a quantizer, which opens the domains by path, works for hours,
and then leaves its coverage report in whatever directory has the name by then.
`Sound` is what `load_calibration_records` notices: it validates records, and compares
no hash, so a readable file nobody wrote is measured like any other.
One builder at a time: builders that race only race in the swap, and that race is
the one of `CorpusPublish`.

### QuantizeCheckpoint: from a recipe to a checkpoint

`quantize_nvfp4.py` and `awq_prescale.py` are one state machine with a `tool`: the
steps they share (`LoadRecipe`, `PackData`, `LoadModel`, `CheckMappings`,
`CheckTargets`) and those of one of them (`PackKvData`, `Strip`, `VerifyClean`) in
their order. `ValidRecipe` translates the validators of `model_utils.py`.
`RegisterHooks` to `EndMeasurement` are `measure_expert_coverage`: one forward pass
over one row is a step, in which the hook of every router adds to the counts or
raises. The hooks are registered before the `try` that removes them; `RegisterHooks`
may end the program in between, with the hooks in place ("hooked"). `WriteTemp`, `ReplaceReport` and their failures are the report file, which
is in place before the gate (`LayerFails`) raises. A model is what its modules and
routers do: which modules a pattern matches, which experts a router returns.

### ImatrixPipeline: importance matrices

`StartRun` decides which jobs a run skips; `BeginJob`, `Feed`, `OpenOutput` and
`CloseOutput` are one job: reset, chunks of the text, and an output file that is
emptied when it is opened. `ReadInput`, `OpenMerged` and `CloseMerged` are
`merge_imatrix.py`, with fractions for its floating-point means. `Publish` is a
calibration build that replaces the directory, outputs included; a run that is
writing goes on in the directory that is gone (`handle`). `KillScript` leaves whatever
is open half written. `pending` holds the places in `Jobs` that are still to do, the
smallest of them the current one (`Job`). Of a tensor one column is kept.

### InfernixTools: benchmarks and placement

`life` is the part that starts and stops servers: `Popen`, `Record` (the
assignment to `CURRENT`), `Ready`, `Stop`, `Stopping`, `Stopped`, `Finally`, with a
`Signal` between any two of them. `log` and `reading` are the workload: the server
(external) accepts, refuses, answers and logs in its own time (`Accept`, `Refuse`,
`Answer`, `LogDone`, `Exit`), clients give up (`TimeOut`), and `EndPhase` or
`EndAsk` attribute log lines to the phase by the highest number seen, as
`run_workload` and `Run.ask` do. `GetStatus`, `DryRun` and `Apply` are
`infernix_placement.py`, `ReservePlan` its arithmetic.

### HiCacheProbe: one probe of the correctness phase

`AskCold`, `Revisit`, `Flush`, `Restore`, `Hit` and `Replay` are the requests of
`correctness_bench` for one prompt, `Metrics` what `bench_sglang_request.py` makes
of an answer, `DigestCheck` and `OmissionOnly` the rules of
`hicache_digest_check.py`, `Judge` the verdict. Two ways to pass that a reader may not
expect are in the model: a checker that dies leaves no file, which the script only
warns of (`CheckDigests`), and an answer that lacks a marker is reported for that
alone, however little of it came from the cache (`Metrics`). What the server answers and logs is
external and free within the small sets of the instance.

## The runs

| Run | Instance | What it shows |
|---|---|---|
| `corpus_publish` | 2 runs, 2 domains, 2 seeds, every job; no corpus, a whole one or a cut one at the start | the five safety properties, the archive included, `GapCloses`, and the refinement of `CorpusStore` |
| `source_cache` | 2 runs, 2 sources, 2 seeds, 4 checkouts, an earlier entry or none | answers are whole extractions, no temporary file is unaccounted for, finished entries stay |
| `calibration_build` | 2 parents of 13 rows in all four schemas, 2 domains, 3 command lines, 2 shuffles | the manifest signs only a build of what it names, the holdout is unseen as far as the fingerprints tell, a build is current only if whole, a shortage is real, the report is of its build |
| `calibration_loadable` | the same | violated: a published build that no quantizer can load |
| `pack_dataset` | 2 domains, 5 records, 32 recipes, all shuffles | no token lost, rows fit, budgets met, reuse comes last, the selection ends |
| `quantize_checkpoint` | 14 recipes, 7 models, both programs; 2 routers, 3 experts, padded rows | nothing is saved past a failed gate, the measurement is exact and unhooked once begun, the report agrees with the gate |
| `imatrix_pipeline` | 2 domains and their mixture, 3 builds, 4 runs | matrices are of one text, at most one is stale, the merge is the blend |
| `server_scripts` | 2 shells, 2 process numbers, 2 engines | no server is orphaned or doubled unless scripts overlap; `stop_vllm.sh` spares other programs; a stopped server is gone or dying |
| `server_ready` | the same, SGLang and vLLM on one port | violated: "SGLang Ready" while another engine answers |
| `env_release` | 2 shells, 2 revisions, vLLM's scripts, a plain directory or nothing at the start | signed releases are whole, the linked one stays so, a server keeps the environment it was started through if a check could see it, the link is missing only between `rm` and `ln` or where they were not both done |
| `infernix_tools` | 2 boots, 2 sessions, 2 phases of 2 requests, 75 reports with 9 reserves | no server is left behind, phases get their requests, plans are the largest |
| `hicache_probe` | 6 answers, cached or not, a checker that may die, 3 cold and 7 warm logs, alone or in a batch, with or without digests | a verdict is earned, and an omission that may be excused is |

Why the bounds are enough for what they are asked:

- Two publishers are the least that can race, and each of them passes through
  every part of the swap while the other is anywhere. Two domains are the least
  for which a load can mix two builds, two seeds for a corpus of the wrong
  policy. Safety for any number of runs is proved.
- Two runs of the cache share keys (equal seeds) or not, and agree on the defaults
  or not. The two sources differ in whether they bring settings of their own; the
  rows include an empty one before a good one, a good one beyond the cap, a wrong
  one before and after the cap, and too few for the minimum.
- An SGLang server is served the way vLLM's is (no look at the port) and stopped
  the way Infernix's is (no look at the process), so vLLM and Infernix together
  take every path. With `Polls = 1` a waiting loop is entered, repeated and given
  up. Two process numbers let a number be recycled while another server lives.
  Shells and numbers are symmetric, and the run states safety only.
- The records hold a paragraph that fills two rows and a bit, one that is cut,
  chats that fit rows of 5 tokens and not of 4, and a domain with chats only. The
  budgets reach from the least allowed to one that no number of laps meets, the
  minimum ratio from three quarters to exactly one.
- Two shells are the least that can meet in a release or at the link, and two
  revisions are the least for which an activation replaces one release by another
  while a server runs from the first. Shells and revisions are symmetric. vLLM's
  order is run, the one with the later look at the pid file. Safety for any number
  of both, and either engine, is proved.
- The rows of the two parents were chosen one by one: a document of two segments
  of which another becomes a copy once its special token is gone, an overlong
  unit, chats with empty messages, system messages to merge, rows without text.
  The command lines have budgets that fit and budgets that do not, forced and
  not; the two shuffles disagree on what is last, and so on what is held out. With
  three samples and a sketch of two, the documents are compared by all their
  features and the conversations by some. A domain's file may be overwritten by one
  record of its own, and one file of a directory is damaged at a time.
- The recipes are a sound one and one for each rule that can be broken; so are the
  models. The two routers differ, so that a count given to the wrong layer shows,
  and the rows are padded to different lengths.
- Three builds let a run be overtaken twice. Four runs of the imatrix script are
  an interrupted one, one that skips what the first left, a forced one and one
  after it; `MaxRuns` bounds them, and with `Polls` it is the only bound that is
  not the code's. One text is
  shorter than a chunk and one longer than the limit, two modules share a tensor
  name and an expert is reached from one domain only.
- The reports reach around every boundary of the plan: reserves larger than what
  there is, a pool larger than all slots, divisions with and without remainder, no
  experts, and frames or records of no size.
  Two phases of two requests are the least in which a late line can be counted
  for the wrong phase. All three properties are proved for any instance.
- Three markers are the least with an omission, a swap, a repetition, a
  repetition that hides an omission, and a foreign one. The logs have one defect
  at a time, so that no defect hides another.

Runs with `CHECK_DEADLOCK FALSE` are of programs that end.

### Fairness

`CorpusPublish` assumes weak fairness of each process that has started: the
operating system runs it, and a file system call returns, with success or
failure. No fairness is assumed of crashes and failures, or of anybody starting a
program. `PackDataset` assumes that a program that can take a step takes one. All
other modules state safety only: what their programs wait for (a server, a
network, another process) may never come, and the code bounds the wait where it
has a bound.

## What is proved

`CorpusPublish_proofs`, for any sets of runs, domains, seeds and jobs and any
directories in place at the start:

- `TypeCorrect`, `DestinationAlwaysWhole`, `NewestAlwaysSurvives`,
  `AbsenceIsHeld`, `LoadsAlwaysSnapshots`, `SuccessIsClean`: the safety
  properties of `corpus_publish`.
- `Refinement`: the code implements `CorpusStore`.

The assumptions are those of the module: names are distinct (`NamesAssumption`),
jobs are well typed (`JobAssumption`), and no inherited corpus is an empty
directory, which `rename(2)` would replace (`InheritedAssumption`).

The properties speak of the destination; what keeps them true is what each run
holds between two calls. The inductive invariant says so: `StageShape` (a stage
holds only the run's own files and is whole once it is to be renamed),
`BackupShape` (a run holds an untouched corpus exactly while it swaps, and none
when it has returned), `LoadShape` (everything read agrees with the manifest
read), `PackShape` (a packager that writes has loaded all domains of one version)
and `LegShape` (which call a run is in). The proof that a step preserves it
has one lemma per part and one step per action. For the refinement, `Install`,
`FreshInstall` and `Restore` make the register appear, `MoveAside` makes it
vanish, `ReadManifest` and the end of a load (`Loaded`, or `InstallArchive` of a
packager) are `Open` and `Close`; all other steps stutter.

`PackDataset_proofs`, for any records, pools and recipes:

- `TypeCorrect`: among other things the cursor stays within the candidates and
  no domain takes more than two laps.
- `RowsAlwaysFit`: a row is short because units are, and a unit because the open
  segment is. `AllShort` says it for every place a unit passes through, `Reading`
  keeps the cursor on a record, `QuotasDone` gives every domain its quota.
- `BudgetAlwaysMet`: the last quota is what the others leave, and it is positive
  although each of the others may have been rounded down or up by one.
  `QuotasShape` bounds what has been spent after every quota, multiplied out so
  that no division is left; `Filling` says that a domain is short of its quota
  whenever a unit is added to it, so that it overshoots by one unit at most.
- `TextAlwaysKept`, from two invariants: `Cut` (what the units and the open segment
  hold, put one behind the other, is the text up to the paragraph at hand, token
  after token, and each is as long as what it holds) and `Kept` (what is chosen, in
  the row and in the rows is what the domains reported, and a finished row has one
  separator between two units). `ChunksCut` is the arithmetic of a paragraph that
  fits no row.
- `ReuseAlwaysLast`, from `Fair`: no part of a candidate has been selected more often
  than the cursor came by it (`NotAhead`), and none that can be packed has its first
  part selected less often (`NotBehind`).

The assumptions are `RecordsAssumption` (what `load_calibration_records` refuses)
and `RecipesAssumption` (what `_validate_calibration` demands).

`EnvRelease_proofs`, for any sets of shells and revisions: `TypeCorrect`,
`ManifestAlwaysMeansBuilt`, `ActivatedAlwaysBuilt`, `ServersAlwaysKeepTheirEnvironment`
and `AbsentAlwaysHeld`, the last four of which are the properties of `env_release`. A finished release
stays as it is because only its builder writes to it, and what is being built is
not finished: `OneBuilder` (outside `contested`, a release has at most one builder),
`BuildShape` (it is not finished, and whole once the manifest is to be written)
and `ActivateShape` (a script on its way to the link has a finished release).
`WriteStep` is the heart of the proof: every step of a builder is an assignment to
its own release that satisfies `Writes`. For the servers, `ServerShape` is what holds
while a check could see one: the pid file names it, or the script that started it
is about to record it, nobody is past its check, and the link still names the
environment the server was started through. The assumption is that names are
distinct.

`SourceCache_proofs`, for any runs, sources, seeds, defaults and data sets:
`TempsAlwaysAccounted`, `AnswersAlwaysExtractions` and `FinishedEntriesAlwaysStay`, the
properties of `source_cache`. The first is inductive once every run is at one of its
steps and temporary files are of the two kinds (`Shape`). The others follow from
`AInv`: an entry in place that has its manifest is a whole extraction by one of the
checkouts that ever ran (`Entries`), a run that extracts has kept the good ones of
the rows it has read and is below its cap (`Counted`), what it is about to write is
the extraction (`Works`), and what it has loaded or written is what it answers with
(`Answered`). That the good rows of a prefix are counted as they are read is an
induction over the rows.

`ServerScripts_proofs`, for any shells, process numbers, ports, jobs and numbers of
polls: `TypeCorrect`, `NoServerLost`, `NeverTwo`, `StopsOnlyItsServer` and
`StoppedIsGoneOrDying`, the last four of which are the properties of `server_scripts`. They are about what the
pid file says between two scripts, and hold because of what a script knows within:
`Turns` (scripts of an engine that is not `upset` take turns), `Knowledge` (at each
command the servers of the engine are at most the one the pid file or the script
names, and none once the script has passed the checks), `Rest` (between scripts
the pid file names the server, if there is one) and `Approved` (what
`stop_vllm.sh` is about to signal is the server it looked at, or came later). The
assumptions are those of the module on jobs, polls and `None`.

`ClientTools_proofs`, for `InfernixTools` with any boots, sessions, phases, reports
and reserves:

- `ServersAlwaysStopped`, from `Owned`: a server that lives is recorded in
  `CURRENT`, or about to be, or was missed by a signal in between.
- `PlanAlwaysLargest`: the state holds the report the plan was made from, and the
  rest is arithmetic (`LargestThatFits`, on integer division, and `PlanFits`).
- `PhasesAlwaysGetTheirRequests`, from `Followed`: what was read of the log is
  what had been started (`Parts`), and as long as nothing was given up the numbers
  a phase is to get are the ones accepted since the last look (`Matches`); the disk
  benchmark is one request behind at most (`OneByOne`).

The assumption is `InfernixAssumption`: what the server reports are numbers.

The same module, for `HiCacheProbe` with any markers, answers and logs:
`VerdictAlwaysEarned` and `OmissionAlwaysExcused`, the properties of `hicache_probe`.
The heart is `OmissionIsLeavingOut`: the loop of `omission_only` accepts an answer
exactly when `LeavesOut` says that it leaves markers out and keeps the order of the
others. `Tracks` is what the loop knows after every marker: where the furthest one
seen stands, and, as long as it has accepted, all that was reported. `CheckShows` is
the same for the digests, and `PInv` says which files are there at each stage, that
they hold answers, and that the digests checked are those of the two logs. The
assumption is `ProbeAssumption`: expected markers are distinct, a log is finite, and
`Absent` is no measurement.

`Quantization_proofs`, for every recipe, model and set of rows:
`SavedAlwaysPassedItsGates`, `MeasurementAlwaysExact` and `ReportAlwaysExplains`, the
properties of `quantize_checkpoint`. The invariant `QInv` says which gates lie behind
each place in the program (`Gates`), where in the records a measurement is and that
hooks are set there and nowhere else (`Place`), and that a report in place is the
verdict on what was routed (`Outcome`). The counts are exact because the last row
adds what is picked in it (`RowSumStep`), and the gate agrees with the report because
a sum over domains is one over their places in the list (`SumReindexed`).

The same module, for `ImatrixPipeline` with any domains, weights, texts, modules,
chunk length and token limit: `MatricesAlwaysOfOneText`, `AlwaysAtMostOneStale` and
`MergedAlwaysTheBlend`, the properties of `imatrix_pipeline`. Three things are shown of
its operators. The chunks cut a text without gap or overlap and the limit takes the
first of them up to a multiple of the chunk length (`ChunksAre`, `LimitedIs`); an
accumulator that stands at a place of a text stands at the end of the next chunk after
it (`AccumulateIs`); and a fraction added up summand by summand has the weighted sum
over the common denominator above the line (`ShareMore`, `BlendIs`). The invariant
`ImInv` says how far the current text is fed (`Feeding`), that a text of an older build
is only at hand when nothing that lies in the directory is stale (`Read`: the
publication that replaced the text took the files with it, and the output closed next
is then the one that goes stale), and that what `merge_imatrix.py` has read are
statistics of its domains (`MatricesOk`). The assumption is `ImatrixAssumption`: there
is a domain, weights and the chunk length are positive, and a module has a value, or
none, for every token of the texts.

`CalibrationBuild_proofs`, for any parents, command lines, domains, shuffles and
tokenizer tables: `PublishedAlwaysABuild`, `HoldoutAlwaysUnseen`, `CurrentAlwaysWhole`,
`ShortageAlwaysReal`, `FailuresAlwaysOfTheInput` and `ReportAlwaysOfItsBuild`, all
properties of `calibration_build`. One half of the module is about the operators of
`CalibrationRecords`: what their folds compute, that every extraction, segment and
adapted record is a record again, that what `Deduplicate` keeps is pairwise
dissimilar and that what it drops is similar to something kept, that records which say
the same are similar and that a sketch with room for all features holds them
(`SameKeyIsSimilar`, `SmallIsWhole`), and that a selection takes distinct records of its domain and stops within its budget or at the end of
the pool. The other half is `CalInv`: `GoodBuild` (what a builder holds at each of
its steps), `GoodDirectory` (a manifest signs only a whole build; of the directory in
place and of the one moved away) and `GoodReader` (a reader no builder has overtaken
has read the build that is in place, in every domain whose file still is the one the
manifest signs). The assumptions are `RecordAssumption` and
`BuildAssumption`: the tables are functions of the right types, a shuffle is a
permutation, and the marks for what is missing or spoilt are not contents.

Folds, which the community modules define by a `CHOOSE` of the function that iterates
them, are reasoned about in one way throughout: the function is shown to exist, the
chosen one to agree with it, and its values to satisfy a recursion, by induction on a
set of naturals that has no smallest counterexample. The induction theorems of the
library need an operator as a parameter, this argument does not.

Model-checked only:

- the liveness properties `GapCloses` and `Terminates`, out of the prover's reach.

## Disagreements between the code and its documents

Two runs end in a violation; `PROJECT.json` quotes the lines.

1. `calibration_loadable`: a published calibration build may hold a record that
   `load_calibration_records` refuses, in two ways: a Unicode line separator, at
   which the reader cuts the file and the loader of the parent does not, and a
   message that was nothing but special tokens, which is left in its
   conversation with empty content.
2. `server_ready`: `serve_sglang.sh` and `serve_vllm.sh` report ready when
   anything answers on the port, and the engines share a port by default.

Met while modelling, without a run of their own; the models follow the code:

- `build_corpus` decides whether a corpus is present before the extraction
  (`src/prepare_calibration.py:978`); another build may publish meanwhile, and the
  unforced build then replaces it, although the docstring promises to leave a
  current corpus alone.
- The docstring of `_corpus_cache_context` promises that an entry is invalidated
  exactly when the extraction inputs change; the `DEFAULT_*` constants are such
  inputs and not in the key. `AnswersAreExtractions` therefore speaks of some
  checkout's defaults.
- The README says that `make recalibrate-corpus` reloads the pinned datasets; the
  flag does not reach `load_source`, which takes them from the cache.
- A comment in `build_calibration_dataset` says a second wrap fails the gate; the
  loop uses the first record a third time and looks at the token ratio only.
- The header of `bench_infernix.py` says the server is always killed; a signal
  between the start of the process and `CURRENT` leaves it (`missed`).
- A comment in `11_bench_sglang.sh` says that the pages of the probes must produce
  paired keys, and a message that the pairing is complete; the check is content
  with one pair.

## What the models leave out

- Hash collisions, but for the digests of a fingerprint, and edits by hand, but for
  the files `Damage` replaces.
- Near duplicates that the sketches of two longer texts miss: `HoldoutIsUnseen` does
  not promise their absence, because the code does not.
- Power loss under the corpus directory: a rename that succeeded stays. The cache
  has `Damage` instead.
- The contents of records, prompts, logs and messages.
- The integers of `PackDataset` are Python's and do not overflow.
- The stop scripts wait up to 60 (Infernix) or 360 seconds and the serve scripts
  for minutes; `Polls` stands for the number of iterations, and no property
  depends on it.
- Both environments install the engine in editable mode from its checkout:
  `EnvRelease` tracks the directory and its manifest, not what a later checkout
  does to the source a server has imported. A `ln -s` that finds a new link in
  its way puts its own link inside the release, which is harmless and not tracked.
- A tokenizer that merges symbols across the joints of a text: every symbol is a
  token in `CalibrationRecords`.
- Two runs of the imatrix script at a time, which nothing in it provides for.
- The arithmetic of floating-point numbers: shares, means and ratios are fractions.

## What is left to do

The choice of position offsets in `PackDataset`.
