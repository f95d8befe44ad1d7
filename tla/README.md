# A verification project for SCoIM's recorded model runs

SCoIM turns a short request into a small piece of piano music. It does so in
stages, and most stages put typed questions to a language model. A model call is
slow, costs money, may fail, and cannot be repeated without changing the result;
so the core of the program is *record keeping*: every step of every exchange is
saved below a run directory before the next one is taken, a run that stopped is
resumed from its records, a call is never repeated when its end is unknown, and
what was published is never changed. Around this core stand pure algorithms that
turn what a model answered into a score and a performance.

This directory holds TLA+ models of both, TLC configurations that check them on
small instances, and TLAPS proofs of what matters most for every value of the
constants.

Contents

1. The system: inventory
2. The modules and how they correspond to the code
3. What is abstracted, and what is not
4. The runs: questions, bounds, results
5. Fairness
6. What is proved
7. Where code and documentation disagree
8. What is only model-checked, and what is not modelled
9. Plan

Paths below are relative to `src/src/scoim/` unless they begin with `llm/`, which
stands for `src/src/llm_musical_composer/`.

---

## 1. The system: inventory

```
  cli.py
    |                       public v2 realization
    v                       (v2_public_realization.py, v2_public_run.py)
  realize_v2 ---> public-run.json, composition bundle, trial bundle
    |
    |-- phase 2   script_0_3_compilation.py   script -> segments, graph
    |-- phase 3   phase3_realization.py       key, overall plan, harmony
    |-- score     score_realization.py        one operation per work group
    |-- phase 7   phase7_realization.py       performance, MIDI, audio
    |                     |
    |                     v
    |            finite_model_operation.py    at most two calls per question
    |                     |            \
    |                     v             v
    |            llm/run_state.RunStore    flow_proposal._call_runner -> codex runner
    v
  storage.py, document_operations.py          flow documents, approvals
  flow_proposal.py, script_compilation.py     drafts by one or two calls
  staged_realization.py, realization_run.py   v1: stages, event log, reviews
  realization_workspace.py                    v1: what was made from what

  llm/pilot_loop.py                           candidates, repair, revision
  llm/staged_pipeline_generation.py           plan, score, performance
  llm/supported_normal_generation_run.py ---> llm/whole_score_staged_generation_run.py
```

All interaction is by plain calls within one process and by files. There are no
threads and no messages; concurrency comes from a *second process* on the same
directory (nothing locks a v2 run), from the model's own process, which outlives
the process that started it, and from reviewers; the failures that matter are a
*stop* between any two file operations and every way a model call can end.

| component | state it keeps | what is hard | what makes it correct |
|---|---|---|---|
| finite model operation (`finite_model_operation.py`) | attempt directories, one repair record, one accepted record | a stop at any write; a call whose end is unknown; two processes | asked at most twice, the second time only about a delivered invalid answer; a saved valid answer is never lost or asked for again |
| run store (`llm/run_state.py`) | the files of a run directory, `run-state.json` | test-then-replace writes; counting before renaming; the call limit | records are never rewritten; numbers are never shared |
| phase 2 (`script_0_3_compilation.py`, `script_0_4_compilation.py`) | two operations, outputs, summary, step | outputs, summary and step are separate writes | the bundle only over a whole run |
| phase 3 (`phase3_realization.py`) | run-spec with the drawn key, 1 + units operations, a state that is rewritten, an immutable summary | an immutable summary also for failures; a random draw | a complete summary stands for a whole phase in one key |
| score (`score_realization.py`) | one operation per work group, groups, overwritten progress, outputs published by one rename | a failure is only progress | published outputs are whole and final |
| phase 7 (`phase7_realization.py`, `phase7_state.py`) | operations, outputs, summary | a rendering failure is immutable | what is complete can be loaded; a failure repeats |
| older phases (`phase4_` to `phase6_realization.py`) | as phase 3; phase 6 one renamed directory | a complete phase writes its state anew | what says it is complete is whole |
| public v2 run (`v2_public_realization.py`, `v2_public_run.py`) | `public-run.json`, one directory per phase, two bundles | directory put in place by rename; every phase reused or resumed | resumes at the first unfinished stage; never mixes requests |
| bundles (`v2_composition_bundle.py`, `phase8_bundle.py`, `composition_bundle.py`, `trial_bundle.py`) | directories renamed into place | compared with every file of the run | whole, and never replaced |
| flow documents (`storage.py`, `document_operations.py`) | revisioned documents, approvals | test-then-replace on revisions | an approved document never changes |
| drafts (`flow_proposal.py`, `proposal.py`, `script_compilation.py`) | a directory of one run | never resumed; the second answer replaces parts of the first | a draft is what was answered |
| v1 run (`realization_run.py`, `staged_realization.py`) | event log of request, response, diff, review; stages below one another | events saved one at a time; a review checked before the lock | the workspace is a function of the log |
| v1 workspace (`realization_workspace.py`, `realization_operations.py`) | a value per key, and what was read to make it | changes reach further than one step | nothing stays that rests on what was replaced |
| structure and planning (`validation.py`, `projection.py`, `score_work_plan.py`, `solo_piano_performance.py`) | none | trees edited by patches, comparisons that form graphs | accepted exactly when sound; nothing before what it is compared with |
| placement, timing, rendering (`score_timing.py`, `score_rendering.py`, `terminal_boundary.py`, `score_group_pitch_placement.py`, `llm/performance_pipeline.py`, `llm/piano_texture_register_placement.py`) | none | restrikes, pedals, rounding; searches with a budget | an accepted score can be played or is refused; a placement satisfies its constraints |
| codex runner (`llm/pilot_loop.py`) | attempt, stream, recovery record, lock | an orphaned model process writes on | a step is asked once, and its outcome is backed |
| model loops (`llm/pilot_loop.py`, `llm/staged_pipeline_generation.py`) | a ledger of steps | a replay must decide alike | what is published passed every check |
| whole-score run (`llm/whole_score_staged_generation_run.py`, `llm/supported_normal_generation_run.py`) | manifests over a ledger and promoted files | no lock; the manifest follows the files | a settled manifest says what happened |
| command line (`cli.py`), other experiments in `llm/` | none of their own | - | - |

`PROJECT.json` lists the components with their status, and under `hazards`
each place in the code where one of these difficulties bites.

## 2. The modules and how they correspond to the code

```
  BoundedModelCall <---implements--- FiniteModelOperation       (one operation)
                                          | moves only through
  RecordedPhase                     OperationStages
     ^   ^                                ^ EXTENDS
     |   '----- implement ----------  OperationSequence
     |                                    ^ EXTENDS
     |          Phase2Run   Phase3Run   ScoreRun   Phase7Run   LayerRun
     '--assumed of each phase by--  PublicRun

  StageRun   <---implements--- RealizationRun;  used by StagedRealization
  StepLedger <---implements--- StagedPipeline,  WholeScoreRun <-- SupportedRun
  RecoveredCall <-- the calls of PilotRun, StagedPipeline, WholeScoreRun
  DocumentStorage, TwoCallRun, RenamedBundle    (documents, drafts, results)
  RealizationWorkspace, RealizationOperations,  (v1 workspace and schedule, in
  PerformanceSchedule                            MCStagedRealization beside the run
                                                 and the chain)
  TextureBatches                                (batches, used by WholeScoreRun)
  ScriptStructure, ScoreWorkPlan,
  ScoreRendering, TexturePlacement              (pure algorithms, in MCAlgorithms)
```

Four modules are *abstract specifications*: `BoundedModelCall` (what an operation
promises its caller), `RecordedPhase` (what a phase promises the public run: it
ends for good at most once, and an invocation that reports the end reports the
saved one), `StageRun` (what a v1 stage promises the chain) and `StepLedger` (what
a run promises about its recorded steps). The detailed modules are shown to
implement them (`KeepsPromise`, `KeepPhasePromises`, `KeepStagePromises`,
`KeepsLedgerPromise`), and the composing modules are built on them.

The `MC...` modules put components beside each other for TLC: a behaviour is one
of one of them, chosen in its first state, and the variables of the others rest.
Each also names the conjunctions that the configurations check.

### FiniteModelOperation, BoundedModelCall

One operation of one run directory and a set `Proc` of processes that may execute
it. Saved records survive a stop; the memory of a process does not.

| variable | code |
|---|---|
| `attempts` | `attempts/<operation>/attempt-NNN/`: `prompt` (`prompt.txt`), `report` (`runner.json`), `staged` (`response.staged.json`), `terminal` (`terminal.json`), `validation` (`validation.json`) |
| `ticket` | `repairs/<operation>.json`; its value is the response it asks to repair |
| `accepted` | `events/<operation>/accepted.json`: attempt number, response, whether repaired |
| `pc`, `cur`, `run`, `repairing`, `source` | where a process is, its attempt, what its runner returned, and whether and what it repairs |

| action | code |
|---|---|
| `Start`, `Crash` | a call of `execute_finite_model_operation`; the process ends at any point |
| `ReadAccepted` | `read_accepted_model_operation` and the checks of every link of the record |
| `InspectAttempts` | `_latest_unaccepted_attempt` and the branches on what it finds |
| `CheckLimit`, `NumberAttempt`, `PlaceAttempt`, `AttemptTaken` | `RunStore.reserve_attempt`: the calls of the run are compared with the limit, the attempts of the operation are counted, and a finished directory is renamed to the number after them; other processes may act between any two of these |
| `CallRunner` | `_call_runner` returns any state, bytes and kind of issue |
| `StageResponse`, `FinalizeAttempt` | `runner.json` and the staged response, then `finalize_attempt` |
| `CheckValidation`, `WriteValidation`, `CheckTicket`, `WriteTicket`, `CheckAccepted`, `WriteAccepted` | immutable records, each a test and then a write, because `_write_immutable_bytes` tests for the file and only then replaces it |

`BoundedModelCall` is the promise without processes, files or verdicts: a question
is asked, once more only when it was answered and the answer was no good; a lost
or pending reply is never asked again; the result is a valid last reply.

### OperationStages, OperationSequence and the phases

The phases see of an operation only how often the model was asked and what the
last attempt's records say. `OperationStages` defines those stages and the moves
between them; `StagesFollowMoves`, checked on `FiniteModelOperation`, shows that
the detailed operation moves only so, and that an invocation ending on a dead
stage reports the failure that `SavedFailure` or `LiveFailure` names. The two
differ: an answer whose content the runner itself rejects is saved as a *failed*
attempt; the invocation that saw it goes on to repair it, one that finds it on
disk gives up.

`OperationSequence` is the loop the phases share: pick the next operation, call,
judge, accept, then `save` or `fail`, with the optional budget
`max_new_operations`. What each phase saves around it:

| phase | operations | saved after each | after the last | a failure is |
|---|---|---|---|---|
| `Phase2Run` | structure, relations | the index of the structure only | ledger, script, summary, step, bundle | published for good; an unready runner is not |
| `Phase3Run` | overall plan, one harmony per unit | outputs and state, after a harmony | ledger, state, summary, step | published for good; an unready runner too |
| `ScoreRun` | one per work group | the group and progress | the output directory, by one rename | progress, overwritten |
| `Phase7Run` | one per unit | nothing | four outputs, summary, step | published for good; an unready runner and a failed rendering too |
| `LayerRun` (phases 4, 5) | one per placement, some compared with earlier ones | output and state | preview, ledger, state, summary, step | published for good |

- `Phase2Run` is `compile_script_with_contracts` and the bundle `_compile_flow`
  makes: the request is checked first, readiness asked before anything is saved,
  then the directory and, in a second step, `run-spec.json` are made.
- `Phase3Run`: the run-spec with the drawn key comes first. `state` is the only
  record ever rewritten; a complete summary makes the caller skip the phase.
- `ScoreRun` has the caller's check of saved records in front (`Gate`); an
  invocation that finds outputs loads them. `sound` says whether the accepted
  groups make a score, chosen once since assembling is deterministic.
- `Phase7Run`: the outcome of building and rendering is a function of the accepted
  choices; `verdict` chooses it once. `load_complete_phase7_run` (`Load`, `Reuse`)
  rebuilds the performance and compares it with the outputs.
- `LayerRun`: whoever invokes a complete phase has it go through all operations
  again, writing its state anew from running to complete.

### PublicRun, RenamedBundle

`PublicRun` is `_realize`: the output root put in place by a rename
(`EnsureRoot`), the composition bundle, the phases, which are reused or resumed, and
the trial bundle that copies all their files and is compared with them ever after
(`CheckTrial`). Any number of processes may work in a root. A phase is
`RecordedPhase` here, except for what others see of it: phase 3's state, records
whose check fails (`doubt`) and temporary files that stops leave (`litter`).

`RenamedBundle` is every result that is built in a temporary directory and renamed
into place: proposals, composition bundles, phase 6, trials, final bundles and
replays of both. They differ in what they need, in whether an existing result is
returned or refused, and in what they check before and after the rename; a
directory that is not empty is never replaced by `os.replace`.

### Documents and drafts

`DocumentStorage` is a file with a revisioned document, and editors that read it,
patch or approve it in memory and save it: what is stored is checked first
(`AgreesWithStored`) and replaced in a second step. `TwoCallRun` is `propose_flow` and
the first `compile_script`: a directory tested once and never resumed, a first
answer, and a second that replaces single values of it or all of it.

### V1: workspace, run, stages

`RealizationWorkspace` keeps a value per key and for each what was read to make
it. `apply_checked_diff` is two kinds of step: the diff is written, and then what
was made from changed values is removed, and what was made from that, until nothing
is left to remove (`Invalidate`, `Finish`). `RealizationOperations` derives, from a
script's materials, transitions and directions, the keys each real operation reads
and writes. `RealizationRun` is the event log: requests, responses, checked diffs
and reviews, advanced and reviewed by processes whose looks and locks are separate
steps. `StagedRealization` makes stage after stage in child directories and
rebuilds its own state from them.

### The model loops

`RecoveredCall` is `CodexExecRunner`: the program that is asked is a process of its
own and may write its stream and its answer while a later invocation reads them; a
later invocation recovers what was finished and gives the rest up. `PilotRun`
composes candidates, repairs each once, revises the best and publishes the better;
every invocation replays it all from the records and judges each source anew, which
may fail for want of storage where it did not before (`wanting`). `StagedPipeline` generates plan,
score and performance with quality gates. `WholeScoreRun` is
`execute_prepared_whole_score_live_run` with its four stages, its batches, the
prepared prefix, evaluation and promotion; `SupportedRun` wraps it with the plan
run and a manifest of its own.

### The algorithms

| module | algorithm | checked against |
|---|---|---|
| `ScriptStructure` | normalisation of a list of sections, the tree check, spans, derivations, the order of mapped leaves | the definition of an ordered tree and of its performance order |
| `ScoreWorkPlan` | which placements are composed by one operation, and in which order | a closure of "waits for" |
| `PerformanceSchedule` | waves of performance directions, and whether comparisons can be met | dependencies settled before use; the fewest waves; circles |
| `TextureBatches` | accompaniment cut into batches, prepared prefixes | all ways of cutting |
| `ScoreRendering` | allocation of units; notes to key strikes; harmony, phrase and older pedal; the shared ending | plays or is refused, pedal windows, no strike lost |
| `TexturePlacement` | the searches for pitches and registers, and the fallbacks around them | all placements, by definition |

A behaviour of these modules builds up an input step by step; the properties
compare the algorithm with the definition in every state.

## 3. What is abstracted, and what is not

*Kept*: every file that is written, in the order it is written, whether the write
may overwrite, every early return, every refusal that an invocation can meet in
records this program has written, and a stop between any two of them.

*Left out*: exceptions that take more than that. A file that somebody else has
altered; a failing read or write of the storage, except where the code handles it as an
outcome of its own (the model call, the storage of a pilot's source).

*Abstracted*

- A response is a model value. A prompt is `Original` or the response it quotes;
  hashes are identified with what they hash. A repair prompt is a deterministic
  function of the invalid response, so this loses nothing the code compares.
- `Valid` is the set of responses that decode, match the schema and pass the
  content check. The three checks produce different issue texts and the same
  verdict. A response that does not decode (`junk`) is *completed* and invalid,
  as in the code.
- The runner's states `timeout` and `interrupted` are one, since every branch
  treats them alike. Issues are: none, all `MODEL_OUTPUT_INVALID`, or other.
- The attempt directory is one atomic step because the code builds it under a
  temporary name and renames it. `runner.json` and `response.staged.json` are
  written one after the other before `terminal.json`; no reader distinguishes
  a directory that has only the first, since without a terminal record an attempt
  counts as unfinished, so they are one step.
- A summary holds, besides its failure, the number of calls of each operation,
  where the code saves their sum; a count never decreases, so two summaries of one
  run differ in one exactly when they differ in the other.
- Phase 2: the responses of accepted operations are read and checked once more
  before the script is assembled; the check is the one that accepted them, so it
  cannot fail and is left out. A request that is not valid in itself is not
  modelled.
- Phase 7: the run-spec and the input snapshots are the same bytes in every
  invocation and are left out.
- Phase 3: the two plan files of operation 1 are one output; the summary's count
  of repairs, a function of the operations, is left out; specification and input
  snapshots are one step, since they are written before anything reads them and
  differ between invocations only in the key. An overall plan that cannot be
  represented in the phase's state is reported like an invalid answer.
- Score: evaluation of a group against its predecessors is part of the verdict on
  its response; the files of one output directory are one step because they are
  invisible before the rename.
- `run-state.json` is rewritten after each record from the records themselves and
  decides nothing in the phases, so they leave it out. Where writing it matters it is
  modelled: `PublicRun` has the temporary file of its atomic write (`litter`).
- Public run: an output root is its identity, the phases as `RecordedPhase`, and
  what `_require_request_lineage` compares. What a bundle's files must contain is a
  verdict; which files there are is not.
- Documents: a document is an identity, a revision, a text and an approval; a patch
  replaces the text. Drafts: an answer is a few parts, each of which may be good.
- V1 workspace: the hash of a value *is* the value; a value is one of two, and what
  is recorded as read is what an operation reads of keys, as
  `RealizationOperations` derives it. The content of a diff is free.
- V1 stages: an answer is good, awkward (it can be applied but leads to an issue
  later) or bad; a diff is what an accepted answer makes.
- Codex runner: the child is a process of its own, whose stream and last message
  are records it may write until it has ended or has been killed. Time is a
  nondeterministic timeout.
  A torn line of the stream is one that does not parse; one torn inside a
  character, which `read_jsonl_events` does not even decode, is not told from it.
- Model loops: a candidate, a plan or a score is a small value whose verdicts are
  chosen once. The pilot loop's candidates have three grades, of which the worst is
  the one with something to revise; the code's order by extreme materials, axes inside
  and worst distance has more, and may find something to revise in one that is
  ranked better. The materials of the whole-score run are weights.
- Supported run: what the preparation of the whole-score run tests of the plan is one
  verdict, which may differ from one invocation to the next; whatever is raised in the
  `try` of `execute_supported_piece_plan` after the plan was recorded ends in the
  failed manifest.
- `ScriptStructure` has sections with a parent and an order, and edits of both;
  `ScoreWorkPlan` placements with their spans, materials and relations;
  `PerformanceSchedule` directions and who they are compared with.
- `ScoreRendering` works in milliseconds per score unit: a time curve enters as
  the milliseconds that a unit takes, rounded as the code rounds; note texts are
  pitch, beginning and end. Velocities, the MusicXML and the MIDI file are left out.
- `TexturePlacement` has up to three events of one accompaniment beside a melody,
  a harmony of one chord and two allowed ranges; scores of equally good placements
  are compared as the code compares them.
- Musical data otherwise, prompts' wording, schemas, and logging are left out.

Bounds are constants, named where they are declared: `Limit` is the run store's
`max_calls` and `N` the number of operations of a phase; `MaxCrash` and `MaxStops`
count the stops of runs whose liveness is checked; `MaxRev` and `MaxRevision` the
revisions of documents and workspaces; `MaxWanting` for how many sources of a pilot
loop storage is ever wanting, and `Candidates` and `Batches` how many candidates and
batches there are; `MaxPrepares` how often a whole-score run is
prepared; the algorithms' inputs are bounded by `MaxSections`, `MaxEdits`,
`MaxPlacements`, `MaxRelations`, `MaxDirections`, `MaxMaterials`, `MaxWeight`,
`MaxCeiling`, `MaxLeaves`, `MaxNotes`, `MaxUnits`, `MaxEvents` and `MaxJoint`. No other counter
grows, and no configuration has a state constraint.

## 4. The runs: questions, bounds, results

The names are those of `PROJECT.json`, which lists each run's properties. Several
components share a run when a behaviour of one says nothing about the others; a
behaviour is then one of one of them. `staged` and `workspace` are runs of one module,
whose constant `Running` names the parts that are run.

| run | question | instance | result |
|---|---|---|---|
| `operation` | Does one operation keep its promise through any number of invocations and stops? | one process; answers `good`, `fine` (valid), `bad` (invalid), `junk` (undecodable); `Limit` 3 | holds, 2,072 states |
| `operation_shared` | What survives when two processes work in one run directory? | two processes; `good`, `fine`, `bad`; `Limit` 3 | holds, 7,375,601 |
| `phases` | Does what says it is complete stand for a whole phase, however the run was interrupted, and is accepted work published? | phase 2, phase 3, score run, phases 4 and 5; two operations, two keys | holds, 191,145 |
| `public` | Is nothing in an output root mixed or replaced, and do complete phases lead to an answer? | phase 7 with two operations; the public run with two processes and a flow and a composition request, or with one | holds, 74,703 |
| `staged` | Is every workspace rebuilt from what was accepted, and does each stage begin where the one before ended? | one stage of three operations, of which the third is reviewed and does not read the second, with two processes that both review, or of which one reviews and one stop happens; the chain of three stages of two operations, one of six reviewed; answers good, awkward, bad | holds, 218,561 |
| `workspace` | Is exactly what was built on a changed value dropped, and does following the changes end? Are performances compared with settled ones only? | the real keys of a script of two placements, two values each, one author in the workspaces that earlier stages leave or two meeting in one, two revisions; up to three directions on a plan of five nodes | holds, 103,209 |
| `documents` | Does what is approved, drafted or in place stay? | two editors, two files, two documents, two texts, two revisions; two processes drafting; two making results of each kind with three temporary names; symmetry | holds, 565,590 |
| `algorithms` | Do the algorithms agree with their definitions? | lists of up to four sections; three leaves, four placements, two relations; 12 units to share among up to five materials; two leaves with two notes in all; textures of three events; symmetry of materials | holds, 96,095 |
| `calls` | Is a model asked once for a step, is every end backed, does every run settle? | one call with two processes and two requests; the pilot loop with two candidates, storage wanting for one source; the pipeline with two batches and two stops | holds, 176,939 |
| `whole` | Do manifests say what the records say, once and in the end? Is a score cut into as few batches as there can be, and is just a number of them accepted as prepared? | materials of weights 2, 1, 3, ceiling 3, call limits 2 and 6, prefixes of none and one batch, two stops; scores of up to five materials under ceilings of 1 to 3 | holds, 71,892 |
| `public_litter` | Is a published trial taken up again? | one process, one request, two temporary names | violated, see section 7 |
| `unplaceable_texture` | Is a texture refused only when it has no placement? | textures of three events | violated, see section 7 |

*Why the bounds are enough.* An operation reaches at most two attempts with one
process, so `Limit = 3` lets a third attempt happen if a guard were wrong; with two
processes the limit is really reached, and a fourth attempt is placed past it. Two valid answers are
needed to see one replaced by another, one invalid and one undecodable answer for
the two ways to be poor. Two processes are what a race between test and write needs.
In the phases, two operations are the least with an order, a first that is treated
differently (phase 3) and a last; the budget ranges over 1..2 and none, so that a run
pauses before, after and never; two keys are what a second draw needs to differ. Two
requests are what an output root can confuse. The workspace has a chain of
values long enough that what is dropped makes more be dropped. A run of three
operations has one that is checked, one that is computed and one that is reviewed,
and the last does not read the one before it;
three stages have a first, a last and one with a review. Three sections are the least with a parent, a child and a
sibling, and the fourth makes a level of its own; three directions wait for each
other in a circle that no two of them see; three weights under a ceiling of
three fill a batch exactly, too far and not at all; two candidates are the least of
which one is the better, and one source whose storage is wanting is a candidate's or
the revision's; an accompaniment of three
events is the shortest whose search forgets something (section 7), a budget of five
is used up by some textures and not by others. Invocations and stops are unbounded
except where a bound is named.

*Deadlock* is checked wherever an invocation can always be started. It is not in
`documents` and `algorithms`, where revisions or inputs end; where the bound on the
diffs of a workspace or on the directions is reached, `BoundIsReached` says that this is
the only end there is.

*What is checked.* Properties are conjunctions; their parts are stated beside the
component, with the comment that names the code they are about.

- One operation: `RecordsAgree` (asked at most twice, no stop leaves records that a
  later invocation contradicts, an invocation reports what is on disk),
  `RecordsMoveForward` (records are not rewritten, no call while an earlier one has
  no known end, and `StagesFollowMoves`), the refinement `KeepsPromise`, and
  `AnswersAreRecovered`. Shared by processes, only `DirectoryHolds` remains: two
  processes can ask four times where three is the limit, since both may pass the
  check before either places its attempt, and can meet a conflict; but attempts stay
  exclusive, what is accepted stays linked to a completed, valid attempt, and each
  further process passes the limit by no more than one call (`LimitIsNearlyKept`).
- Phases: `CompleteIsWhole`, `InvocationFits`, `ScoreIsBacked`, `ResultsAreWhole`,
  `AcceptedWorkIsPublished`, `PhaseIsWhole`, and that each phase implements
  `RecordedPhase` (`KeepPhasePromises`, and `KeepsPhasePromise` for phase 7). A part of
  `PhaseIsWhole` is `FailureRepeats`: because the summary is immutable, an
  invocation that meets a failure under other circumstances than the first ends in a
  conflict, and the property says which those are: a runner that was not ready, or
  the invocation that saw the call fail itself.
- Public run: `RequestsStayApart`, `PublishedIsFinal`, `AcceptedRunsEnd`.
- Documents, drafts, results: `DocumentsFit`, `EditsAreKept`, `BundlesHold`,
  `ResultsStay`.
- V1: `NothingIsStale` and `KeepsWhatHolds` are the two halves of "exactly what was
  built on a changed value"; `RunIsBacked`, `ChainHolds`, `KeepStagePromises`,
  `AdvancedRunsEnd`; `WavesSettle` of the schedule of performance operations.
- Model loops: `CallIsBacked`, `LoopsHold`, `EndedRunsStay`, `VerdictsAreBacked`,
  `SettledStays` (with the refinement of `StepLedger`), `RunsSettle`; `BatchesFit` of
  the batches that a whole-score run asks for.
- Algorithms: `ScriptIsInOrder`, `WorkIsPlanned`, `RenderingIsSound`,
  `AccompanimentIsPlaced`.

For each property there is a *faulty variant* of a definition it depends on, kept in the
module next to the definition and marked `faulty`: a dropped guard, an off-by-one,
a lost write, a swapped order. With the variant in its place TLC finds the property
violated, which shows that the property says something about that line.

## 5. Fairness

A process that is not stopped takes its next step: weak fairness of `Advance` or
`Work`, per process where there are several. The programs are sequential and do not
wait, except for a model call, which the runner ends at its timeout; so the return of
a call is a step like the others. No result of a runner and no readiness is assumed
to come about, and nothing makes anyone start an invocation, except where the
run is named here:

| run | weak fairness of | and |
|---|---|---|
| `operation`, `phases`, `public` | the steps of an invocation that is not stopped | in `public`, of the one process where it is alone |
| `staged` | the steps of both processes, and invoking again by the one that advances | a bounded number of stops; no review is assumed |
| `workspace` | removing what is stale, and finishing: one call of `apply_checked_diff` | |
| `calls` | the steps and the timeout of each process, of the pilot and of the pipeline | strong fairness of invoking the pipeline to publish |
| `whole` | preparing, executing and the steps of both manifests' runs | a bounded number of stops |

`InvocationEnds` and its like therefore say that an invocation *that is not stopped*
ends, finishes accepted work or accepts a saved answer. For the wrappers that
exist to be invoked until they are done the liveness is stated under the assumption
that somebody invokes them: a staged run until it waits for a review or is complete, a
whole-score run until its manifest is settled. The strong fairness of the pipeline is
that of a user who, again and again, asks it to publish rather than to stop earlier:
in between, invocations with a nearer target may enable and disable that one.

## 6. What is proved

By TLAPS, for every value of the constants.

| module | theorem | statement |
|---|---|---|
| `FiniteModelOperationProofs` | `TypeCorrect`, `AcceptedLinked`, `AttemptExclusive`, `LimitNearlyKept` | `TypeOK`, `AcceptedIsLinked`, `AttemptIsExclusive`, `LimitIsNearlyKept`, for any number of processes |
| | `DirectoryHoldsTogether` | `Spec => []DirectoryHolds`, the property of `operation_shared` |
| | `RecordsAgreeAlone` | for one process, `Spec => []RecordsAgree`, a property of `operation` |
| | `RecordsMoveForwardAlone` | for one process, `Spec => RecordsMoveForward`, a property of `operation`; `StagesFollowMoves` is a part |
| | `PromiseKept` | for one process, `Spec => KeepsPromise`: it implements `BoundedModelCall` |
| `RecordedPhasesProofs` | `TypeCorrect`, `CompleteWhole`, `ReportsSaved`, `ResumesInKey`, `InOrder` | the invariants of phase 3; `CompleteIsWhole` is a property of `phases` |
| | `InvocationsFit` | `Spec => []InvocationFits`, a property of `phases` |
| | `NeverRewritten`, `NoCallAfterFailure` | `RecordsNeverRewritten`, `NoCallAfterFailedCall` of phase 3 |
| | `PromiseKept` | `Spec => KeepsPhasePromise`: phase 3 implements `RecordedPhase` |
| | `ScoreTypeCorrect`, `ScoreOutputsWhole`, `ScoreProgressBacked`, `ScoreInOrder` | the invariants of a score run |
| | `ScoreFinal`, `ScoreNoCallAfterFailure` | `PublishedIsFinal`, `NoCallAfterFailedCall` of a score run |
| | `ScorePromiseKept` | `Score!Spec => Score!KeepsPhasePromise`: the score run implements `RecordedPhase` |
| | `ScoreBacked`, `ResultsWhole` | `PhasesSpec => []ScoreIsBacked`, `PhasesSpec => []ResultsAreWhole` (compilation and older phases), properties of `phases` |
| | `PromisesKept` | `PhasesSpec => KeepPhasePromises`: compilation, phase 3, score run and older phases implement `RecordedPhase` |
| | `Phase3StaysWhole` | `CompleteIsWhole` and `InvocationFits` under `PhasesSpec`, the specification of the run |
| `PublicRealizationProofs` | `TypeCorrect`, `CompleteWhole`, `ReportsSaved`, `NeverRewritten` | the invariants of phase 7, and `RecordsNeverRewritten` |
| | `PhaseWhole` | `Spec => []PhaseIsWhole`, a property of `public`, with `FailureRepeats` |
| | `PromiseKept` | `Spec => KeepsPhasePromise`: phase 7 implements `RecordedPhase` |
| | `RequestsApart` | `RealizationSpec => []RequestsStayApart`, a property of `public` |
| | `PublishedStays` | `RealizationSpec => PublishedIsFinal`, a property of `public` |
| | `Phase7StaysWhole`, `Phase7KeepsPromise` | `PhaseIsWhole` and `KeepsPhasePromise` under `RealizationSpec`, the specification of the run |
| `DocumentStorageProofs` | `EditsKept` | `~ Overlap /\ WorkSpec => EditsAreKept`, a property of `documents` |
| | `DocumentsAgree`, `ResultsHold` | `WorkSpec => []DocumentsFit`, `WorkSpec => []BundlesHold`, properties of `documents` |
| | `ResultsAreLeft` | `WorkSpec => ResultsStay`, a property of `documents` |
| `StagedRealizationProofs` | `RecordsRestOnEachOther` | `Spec => []RunIsBacked`, a property of `staged`: the records of one workspace run |
| | `ChainRests` | `Spec => []ChainHolds`, a property of `staged`: the chain of stages |
| | `StagePromisesKept` | `Spec => KeepStagePromises`: the run implements `StageRun`, and the chain implements it with the operations of all stages |
| | `NothingStays` | `Spec => []NothingIsStale`, a property of `workspace` |
| | `HoldsStay` | `Spec => KeepsWhatHolds`, a property of `workspace` |
| | `WavesAreSettled` | `Spec => []WavesSettle`, a property of `workspace`: the schedule of performance operations |
| `ModelCallsProofs` | `CallBacked` | `RunsSpec => []CallIsBacked`, a property of `calls` |
| | `LoopsAreSound` | `RunsSpec => []LoopsHold`, a property of `calls` |
| | `EndedStay` | `RunsSpec => EndedRunsStay`, a property of `calls`, with the refinement of `StepLedger` by the pipeline |
| `SupportedRunProofs` | `VerdictsBacked` | `RunSpec => []VerdictsAreBacked`, a property of `whole` |
| | `LedgerPromiseKept` | `RunSpec => KeepsLedgerPromise`: the whole-score run implements `StepLedger` |
| | `SettledRunsStay` | `RunSpec => SettledStays`, a property of `whole`: what is settled stays, with that refinement |
| | `ScoreIsBatched` | `RunSpec => []BatchesFit`, a property of `whole`: the batches of a score |

So every safety property, action property and refinement that the runs check is proved,
except those of the other pure algorithms (section 8); the liveness properties are not.

**One operation**, for every set of processes, responses and valid responses and
for every call limit (`ResponseAssumption`: the markers for absent and final states
differ from responses; `LimitAssumption`: the limit is positive; `ProcAssumption`: the
processes are finitely many).

*The argument.* `AcceptedIsLinked` speaks of `accepted` and one attempt only, but
what makes it true is what a process that is about to write the accepted record
knows. It took its knowledge from records it read or wrote earlier, and another
process may have written since. The inductive invariant `IInv` therefore adds

- for each attempt, how its records depend on each other (`AttemptOK`): a
  completed call has a staged response, and a verdict "valid" only stands on a
  completed call with a valid one;
- for each process, what its position implies about the records of the attempt
  it works on (`PositionOK`): in `call`, `stage` and `finalize` no terminal is
  saved yet; after a verdict the verdict is saved; before `write_accepted` the
  attempt is intact;
- that no two processes are inside one attempt (`AttemptIsExclusive`), without
  which the attempt a process is staging could be finished by another.

A record only ever gains settled facts (lemmas `Settled` and `StillLinked`), so
what one process knows is not disturbed by the steps of others. Steps that touch
memory only are proved together (`MemoryStep`), those that write into an attempt
directory together (`AttemptStep`).

The limit is checked before the attempt is placed, so it is not an invariant. What is
one (`Budget`): the attempts, together with the processes that have passed the check and have not
placed theirs (`Passed`), are fewer than limit and processes together. A process that
passes the check finds fewer attempts than the limit and is not among those that
passed already; one that places its attempt leaves them.

*One process at a time* (`Alone`: no two processes, and a limit above one, as every
caller's `max_calls` is two per operation; and `AcceptanceAssumption`: the marker of an
absent record is not an accepted record). Two processes can ask three times, so
`RecordsAgree` cannot be proved of them. Its invariant `AInv` adds to `IInv`
what the whole directory looks like (`ChainOK`: at most two attempts, the second about the
answer of the first, which was rejected and which the repair record names; verdicts say
what the answer deserves; the accepted attempt is the last), what the process may rely on at each step
(`Knows`: what it works on is the last attempt; whether it repairs is whether there are
two; before an attempt is placed the chain still has room for it), and how the
records stand behind each outcome (`Ended`). A process that finds its directory taken
then is a contradiction (`AttemptTakenAlone`).
The steps that save are proved by what they change in the last attempt
(`RecordsBytes`, `RecordsEnd`, `RecordsVerdict`), which also gives `StagesFollowMoves`: each
is one of the moves of `OperationStages`, or none.

*Refinement.* `PromiseKept` maps the attempts to the questions and replies of
`BoundedModelCall`. Placing an attempt is `Ask`, saving its end is `Answer`, writing the
accepted record is `Take`, and every other step is a stutter; that the second question is only asked after a poor
answer, and that the result is a valid last reply, is what `AInv` is needed for.

**The phases**, for every number of operations (`SizeAssumption`: there is at least
one; `NoneAssumption`, `KeyAssumption`, `AbsentAssumption`, `VerdictAssumption`: the
marker of an absent record is none of the values a record can have, and there is a
key to draw; `LayerAbsentAssumption` says so of the older phases). `OperationSequenceProofs`
holds the lemmas; the modules about the phases extend it, and take it as an instance
for each phase whose variables have other names.

*The argument.* The loop over the operations is proved once. Its invariant `SInv`
says that operations are begun in order, that a stage's call count agrees with its
last record (`StageOK`), and what each place of the loop knows of the operation
under way (`PlaceOK`: everything before it is accepted; in `save` it is accepted
itself; in `fail` a reason is at hand). The lemmas `InitKeeps`, `BeginKeeps`,
`StopKeeps`, `LeaveKeeps`, `EnterKeeps`, `SaveKeeps`, `ProceedKeeps` and
`OperateKeeps` say that each way a phase moves keeps it; `AcceptedStays` and
`CallsAreAllowed` give the action properties.

A phase adds what its files tell. For the score run, `FilesOK` (which saved groups,
progress and outputs can stand together) and `StepOK` (what an invocation knows
where it is). For phases 3 and 7, `SummaryOK`: a complete summary is written by an
invocation that is about to end, so no other step runs over one; `KeyOK` of phase 3
ties every record to the key that was drawn first. `CompleteIsWhole` cannot be
inductive alone: that the summary stands for a whole phase follows from what an
invocation knew on its way to `publish` (`StepOK`), through steps that may each
have been the last before a stop. Steps among the operations and steps at the ends
of an invocation are proved apart (`WorkStep`, `EdgeStep`).

`FailureRepeats` relates an invocation to the summary that another one left. Its
strengthening says that a published failure which the records determine
(`Settled`) stays the one they determine: it is that of the first operation that is dead,
or the verdict of the rendering of choices that are all accepted, and no
invocation is inside a call any more (`SettledOK`); and that a failure at hand comes from
the records, from a call that this invocation made while none was published, or from a
runner that was not ready (`ReasonOK`).

For the compilation, `CInv` says that outputs, summary, step and bundle come in
this order, that the calls a summary counts are those the records count, and that a
published failure means an operation is dead and nobody is inside a call any more
(`SummaryOK2`); so a second summary can only differ over a dead operation
(`ConflictMeansDead`). For the older phases, `LInv` has to survive that a complete
layer is gone through again: what a complete summary stands for stays as it is, while the state
goes back to running (`SummaryOKL`). They report failures that no operation has; the
lemmas of the loop are used with such a failure replaced by some one of an operation
(`ReasonL`), which changes nothing the loop looks at.

*Refinement.* `PromiseKept` in each module, and `PromisesKept` for compilation and older phases
too, say that the phase implements `RecordedPhase`. The ending is read from the summary (of the score run, from its
outputs), what is told from `pc`. `Start`, and `Reuse` where there is one, map to
`Begin`; every other step, also a stop, maps to `Work` or to a stutter, since a summary
that is there is left alone (`Written`). That an end which is told is the one that is
saved is where the invariant is needed (`TellsWhatEnded`, from `ReportsWhatIsSaved`); for
the score run it takes one fact more, that "complete" is only reached over outputs
(`CompletionSaved`).

**The public run**, for any processes, requests and flows (`AbsentFileAssumption`: the
marker of what is absent is no request, trial, file or state; `FirstAssumption`: the process
that is invoked alone is one of them).

*The argument.* `PInv` says of each process what it learned on its way and no step of
another can take back (`KnowsRoot`: past the root, the root is the request's; past a phase,
that phase is complete; past the bundle, the bundle is there), and that nothing is saved
before there is a root. A process gets past the root only with the request the root
belongs to, so what it writes is of that request, whoever else is at work: the invariant
keeps `NeverMixesRequests` and `ResumesInOrder`, and `SuccessIsATrial` follows. Every step only
adds to what is published (`Grows`), which is `PublishedIsFinal`. That a complete phase 3 can be loaded is true of one process only
(`LoadsAlone`): two can take a complete state back (section 7). What `PublicRun`
assumes of a phase, `RecordedPhase`, is what the other theorems prove of phases 2, 3 and
7, the score run and the older phases.

**Documents, drafts and results**, for any editors, processes, files, documents,
texts, answers and temporary names (`RevAssumption`, `OverlapAssumption`, `AbsentAssumption`,
`AbsentResultAssumption`, `AbsentAnswerAssumption`: as before, the marker of what is absent
is none of the things that can be there).

*The argument.* The three parts share processes but no state, so each has its invariant
and a lemma that the steps of the others leave it alone.
For documents, `DInv` says that whatever a process holds is valid and was made from what it
read by one edit or by an approval. `EInv`, where reads and writes do not overlap, adds
that only one process is between check and write, that what another process has read is still
what the file descends from, and that whoever writes replaces nothing, its own result, or the very draft it
read (`FileOK`); with that, no edit is lost.
For results, `BInv` says that each temporary directory belongs to the process at work in it or
was left by a stop, that what a process thinks is in its directory is there (`WorkOK`), and that
what a result was made from is in place (`Descends`); a rename then only puts something
whole where nothing was. For drafts, `RInv` says which answers a process must have at
each place (`AnswersOK`, `StepOK`), that an attempt is waited for by one process (`CallsApart`), and
that the draft is the repaired answer of a process that is past the last point where it
could record a failure (`DraftOK`, `Past`); hence a final record that says completed names
the draft (`FinalOK`).

**V1: the run of a stage and the chain**, for any processes, answers, numbers of
operations and stages, and whichever operations are asked of a model, checked or
reviewed, whatever each uses of those before it (`SizeAssumption`, `OperationAssumption`,
`UsesAssumption`, `NoneAssumption`). A reviewed operation need not use anything of the last
ones before it. A replacement may then have been prepared before those were applied,
pass the checker of its operation, which looks at what it reads, and be recorded,
although `apply_checked_diff`, which compares the base revision, refuses it (section
7). So `ReplacementHolds` does not say that every accepted replacement applies. It
says that one was made by the checker's rules on a workspace that did stand, and that if
this is no longer the workspace before its operation, the run has ended there:
it is failed, and nothing is built on the refused diff.

*The argument for the run.* `RunInv` says of the records that they rest on each other
(`RecordsRest`): a diff on the operations before it, all of which apply, and on the saved
answer; a review on a diff, and its replacement, if there is one, on the values of the
first operations, among which is all it uses (`Accepted`); an answer on the last attempt, all attempts before which ended in a bad
answer (`AskedRight`). Two processes read these at one time and write at another, the
first without the lock: so it says of each process what it knows of them where it stands
(`OnItsWay`, `HasAsked`, `HasBuilt`, `HasJudged`), which stays true because records are
only added (`Grows`): the operations applied before operation i stay so
(`AllApplyStays`), a replacement in hand still rests on the first of them
(`AcceptedStays`), and what a process would write, if another has written it
first, is equal or refused. Whoever holds the lock is alone with the attempts
(`MindStays`). How many operations have been completed is unique (`CompletedIs`, by
well-founded induction on the naturals).

*Refinement of `StageRun`.* The workspace is the sequence of what the completed
operations write. A saved diff that is not reviewed, and the review of one that is, make
it longer by one or end the run; every other step is a stutter, since the number of
completed operations changes only there.

*The chain.* `StagesInv` says that a stage which has been begun stands on complete ones,
that a whole stage has as its source what those before it end with, and which stage a
process is at; what a stage starts from is the concatenation of what the others wrote
(`After`, the community modules' `FlattenSeq`, of which the lemmas before `AfterNext` derive what the
proofs use). While stage s runs, it is the whole that runs (`WholeIs`): everything before
is complete and everything after it empty, so a step of the run of one stage (`Runs`) maps to the
same step of `StageRun` with `S * K` operations (`RunsMaps`).

**V1: the workspace**, for all keys and operations such that what an operation writes and
reads belongs to keys, and what is read is written in an earlier stage
(`ReadsAssumption`, `WritesAssumption`, `PositionAssumption`), `Missing` is no value and
nobody is no author (`AuthorAssumption`), and the workspace that is given is itself not stale
(`InitialAssumption`).

*The argument.* While a diff is being applied there *are* stale values. The inductive
invariant `WrittenInv` says of each read hash of a value that was not written: what it names is
there, or it names the value itself, or it is still pending (`LoopHolds`). So a value of which
nothing is pending is current, and `Finish`, which runs when nothing is pending at all,
leaves nothing stale. A step of `Invalidate` keeps this, because what rests
on the changed value goes, and what goes becomes pending. That the written values are
not removed by their own diff needs the stages: a removed key lies downstream of
a written one (`Downstream`), and nothing that an operation read does.

That nothing is dropped without need (`HoldsStay`) follows from a second invariant
(`RemovedInv`): what is pending names values that are not there any more, and each key
not written has its value still, or lost it and had been made from one that is not there.

**V1: the schedule of performances**, for every plan whose nodes come after their parents
(`ParentAssumption`) and any number of directions, `None` being no node (`NoneAssumption`).

*The argument.* The loop of `performance_operation_schedule_for_nodes` is a recursive
function of the round (`Round`), which exists (`RoundsExist`) and so keeps an invariant
along its rounds (`RoundHolds`, `NextRound`): what is available is all that does not
remain; each wave had everything it needed before it; and *whatever remains needs something
of the last wave*. The last clause is what makes the waves few: a node of the next wave was not
ready for the last one, so it waits for something of that. A round that settles nothing
leaves everything as it is, and each other makes more available (`Progresses`); hence after as
many rounds as there are nodes none is ready, and what remains waits for itself: a circle.

For the comparisons, the ranking is built as the check goes along (`SeenHolds`). An edge is
accepted when no path leads from its upper end to its lower: there is a set with the
one and without the other that no edge leaves. Everything in it is moved above everything
else (`RankedWith`), and the ranks are closed up again, as the number of sections
that are ranked no higher (`Compressed`).

The four share one specification and no variables; `StepIs` says that a step of it is a
step of one and leaves the others as they are.

**The calls and the loops**, for any processes and requests, any number of candidates
and of batches (`RequestAssumption`, `RecordAssumption`, `StepAssumption`: the marker of
what is absent is no request and none of the values a record or an answer can have;
`CandidatesAssumption`, `BatchesAssumption`: there is at least one candidate and one
batch). One of the three is at work in a behaviour, and the others rest (`AnyRunMoves`).

*The call.* The invariant `CInv` says that whoever is at work holds the lock
(`LockOK`), so all records but those of the child are written by one process at a
time; which records of an attempt exclude each other (`EndOK`: the canonical answer only
stands over an unambiguous end of the turn and a good last message); what the process at work
knows of the attempt (`Knows`); and what callers were told, which must hold
ever after (`Told`). The child writes beside all of them and without the lock. What
saves the invariant is that it only adds: a stream that is complete stays so,
and a good last message is not taken back (`ChildKeeps`).

*The pilot loop.* There are two invariants, since some things hold whatever is wanting.
`PInv` says what the records say of each other (`RecordsFit`), what is published and what
is in place (`PublishedFits`), and what a replay knows where it stands (`ReplayKnows`). The best
candidate is unique (`BestIsUnique`; that `Selected` is one takes well-founded induction
over grade and number, `SelectedIsBest`), so a replay that judges alike selects
alike. `DInv` adds, while storage was never wanting, that each judgement is decided by
the answers (`Decided`), which never change: so a replay writes what is already
recorded and never ends in a conflict. If storage *was* wanting, a replay may end in a
conflict, but no later than at the record of the evaluation, before it publishes;
only the judgement of the revision comes after that record, which is why
`PublishedIsFinal` leaves out a revision for which storage was wanting (section 7).

*The pipeline.* `GInv` says that when anything is recorded of a stage, all stages
before it are completed (`StagesOK`), grades are what the answers
deserve (`QualityOK`), and an invocation that is past admission has come to a stage
whose predecessors are completed, in a run that has not been refused
(`InvocationKnows`). An interrupted attempt hides a failure from the status that admits
an invocation; that a refused run is seen as failed (`RefusedIsSeen`) needs
that nothing is asked after a refusal (`NothingAfter`). For the
refinement the records are laid out as a ledger: each stage has one place or, if it is
graded, two (`LedgerHas`, `Places`); recording one changes the ledger at one place
(`LedgerMoves`) that the stages before it reach (`LedgerReaches`), and what a later
invocation records again is a stutter.

**The whole-score run and the supported run**, for any number of batches the materials
are cut into, with and without transition materials, whatever prefix is prepared, any
call limits and any number of stops (`SizeAssumption`: the limits are numbers and the
materials have numbers of events; `NoneAssumption`: the marker of what is absent is nothing that can be
there). `OnceAssumption` says that one invocation is at work at a time and that a run prepared
in part is prepared once, because the properties are false otherwise: no lock is taken and
preparing a settled run reopens it (section 7).

*The argument.* `RunInv` is about the inner run (`WholeInv`) and the outer one
(`OuterInv`). Of the records of the inner run it says that a step which was begun came
through all before it (`Came`): those are recorded as completed with answers that
may be, and no gate between them was closed; and that a record carries the place of its
call among the calls (`Ordinal`). Of the invocation it says that it only stands at a step it came
to (`MindHolds`), which lets the number of calls so far be that place when the record
is written (`FirstNumber`). Final files are there only for a piece that suits
(`DiskHolds`), which is settled last, so that a verdict that was
written has all that it rests on (`ManifestHolds`). After a stop with two calls or more
made, the first record is number 1, and a replay, which begins with as many calls as were
made, counts another: it never gets past that step (`SpentHolds`), and a run so stopped spends no more.

Steps that save nothing are proved together (`Moves`, `SavedSame`), those of the attempt
under way (`AttemptMoves`) and those that record a step (`Recorded`, then `Advances` or
`Fails`) as well. The order of the steps, which leaves out transitions where there are none, is
written down once (`OrderIs`).

Of the outer run, `OuterHolds` says how far the inner one can be at each place of it: before
it is handed over it has at most a prepared manifest, over a recorded plan, and has made no
call; the report is written over a settled manifest. The outer manifest can be settled in
two ways, which `ReportAgrees` tells apart by what it repeats: the inner verdict
(`Carried`), which stays true because nothing changes a settled run; or nothing, since the
plan was lost or the preparation refused it (`GivenUp`), which stays true because nothing
starts such a run any more (`IsPreparedOnce`).

*Refinement.* The records in the order of the steps are the ledger of `StepLedger`, and the
manifest is its verdict. Each record that is written is one the steps before it reach, which is
`Came`; settling is `Close`, preparing and everything else a stutter.

*The batches*, for scores of any number of materials, of whatever sizes up to whatever
ceiling (`ScoreAssumption`: the bounds are numbers, and the ceiling is not zero). A score
grows by one material at a time, and `ScoreHolds` describes what the loop has then made.
It speaks of places between materials instead of batches (`CutsAt`): each batch is the
part of the score between two neighbouring places, the first of them before the first
material and the last after the last; each fits; and with the material that
follows, each but the last would not. One turn of the loop (`AddedMaterial`) moves the last
place or adds one. From this the four parts follow. The parts put together are
the score. A way of cutting that fits has a cut inside every batch or at its end, except the
last, so that there is an injection from the batches to its cuts (`FewestCalls`). A further
material leaves all places but the last alone. And going through the batches with a prefix
(`Taken`) has a loop invariant of its own (`Taking`): the prefix covers all batches met so
far, or it ends inside one and is refused, or it ended with an earlier one and nothing
more is taken.

## 7. Where code and documentation disagree

Two of these are runs that TLC finds violated, each with a `findings` entry.

- `public_litter`: the trial bundle is compared with every file below the run
  directories, temporary ones too. The score run saves `run-state.json` again in every
  invocation, also in one that only takes up a published trial; a stop inside that
  atomic write leaves a file that makes every later check differ.
- `unplaceable_texture`: the search over textures remembers a failed state by its
  onset, the previous pitches and the notes that still sound, but the check at the
  end covers what has ended, too. It then says that no complete assignment exists when
  one does.

The others showed themselves while the models were written; the properties are
stated so as to hold beside them, and the comments there say how.

- *One operation.* `max_calls` limits the calls of a run, but is compared with their
  number before the attempt is placed: two processes can both pass and exceed it by one.
  `_write_immutable_bytes` tests and then replaces: two processes that
  both accepted can both find the record absent, and the response that the first
  invocation returned is no longer the accepted one. And when the runner rejects the
  content of an answer, the repair record is saved before the second call; a stop in
  between leaves a record that promises a repair, which the failed terminal
  that the next invocation reads first prevents.
- *Phases.* The compilation's run directory is made before its `run-spec.json`; a stop in
  between leaves a directory that every later invocation of the same request refuses.
  One failed readiness check of phase 3 is published as the immutable summary; a
  later invocation with a ready runner accepts every operation and saves every
  output, then fails on the summary. A stop between the terminal and the
  validation record of a completed call makes the public caller refuse the run, although
  the operation itself would judge the saved answer without another call.
- *Public run.* Two invocations of the same request in phase 3 write one
  `phase3-state.json`; the slower one can take a complete state back.
- *Documents.* Two editors with the same expected revision, whose reading and
  replacing overlap, both succeed, and one edit is lost (`Overlap`).
- *V1.* `replace_pending_review_with_response` reads the workspace and then the pending
  diff, both without the lock. If an operation is applied in between that the pending
  one does not read, the replacement is built on an older revision, passes the
  "regular checker" of its docstring (`realization_operations.py:522`) and is recorded for
  good; `apply_checked_diff` refuses it, and every rebuild of the run from then on is
  failed. In the run `staged` this happens to a reviewer that looks when the first operation is
  applied, while another process applies the second, a computed one, and puts the third up for
  review; `ReplacementHolds` says that the run then ends there, and cannot say that the
  replacement applies. The directory of a stage is initialised in several writes, and a
  stop between them leaves one that is refused.
- *Pilot loop.* A replay judges the revision anew. If storage is wanting at that moment,
  the revision is rejected as invalid, and `_publish_final` writes the selected candidate
  over the revision that was published; only then does the record of the publication, which
  has other hashes, end the replay in a conflict. The record then names what is no longer there.
- *Pipeline.* The quality file is written before the step that names it; a stop in
  between leaves a file that no step accounts for.
- *Whole-score run.* Records carry the number of calls made so far, which a replay counts
  anew: a run that was stopped after its second call was reserved contradicts its first
  record when it is invoked again, and settles as failed. Preparing a settled run overwrites its manifest; two executions of one
  prepared run settle it twice.
- *Script.* `script_compilation.py:276` sorts the leaves by an order that counts among
  siblings only, and calls the result the order of performance.
- *Rendering.* The older pedal of a part held for at most 200 ms is lifted at the
  millisecond in which it is put down; the lift is sorted first, and the pedal stays
  down until the next lift. The search over pitches of several voices gives up a branch
  whose note is too short, before a later restrike would have shortened it anyway.
- *Textures.* An onset is called unplaceable when no assignment of its notes is valid
  beside those that sound, also when another choice of the note that is held would
  have left room.

## 8. What is only model-checked, and what is not modelled

Only model-checked:

- *liveness under fairness*, which the prover has no rules for: `AnswersAreRecovered`,
  `AcceptedWorkIsPublished`, `AcceptedRunsEnd`, `ApplyingEnds`, `AdvancedRunsEnd` and
  `RunsSettle`;
- *the algorithms* of `algorithms`: their modules define `RECURSIVE` operators, or stand
  beside modules that do, about which the SMT prover can say nothing; TLC compares
  them with their definitions on all inputs within the bounds. The schedule of
  performance operations and the batches of a score, whose algorithms are loops, are
  written without them, and proved.

What is proved of one operation beyond `DirectoryHolds` is proved of one process at a
time, because it is false of two (section 7). The theorems about the phases speak of the
phases as modelled on `OperationStages`; that an operation moves through those
stages is `StagesFollowMoves`, a part of `RecordsMoveForwardAlone`. That `PublicRun` may
use `RecordedPhase` in place of the phases is read off the two modules, and not a
theorem about their composition.

Not modelled:

- musical content: the contracts of single answers, field formats, the comparison of
  candidates. They are pure functions of an answer with dozens of independent
  conditions each, enter the models as verdicts, and have the unit tests they need;
- MusicXML and MIDI files, time curves and velocities: pure conversion;
- `cli.py`: parsing of arguments and printing; `realization_record.py`: a report;
- of `llm/`, the research runs besides the pilot loop, the staged pipeline and the
  whole-score run (`long_form_generation.py`, `recurrence_quality.py`,
  `staged_material_pilot.py`, `observed_structure_candidates.py` and others, most of
  which measure or compare finished scores), and `place_piano_texture_v2`, which
  `v3` to `v8` replace.

## 9. Plan

What is left:

1. The remaining research runs of `llm/`, where they keep records of their own.
2. The algorithms on sequences, should a prover for induction over data be at hand: the
   definitions they are compared with are stated, and TLC has found no disagreement but
   the one of section 7.
3. A composition theorem: `PublicRun` with each phase in place of its `RecordedPhase`.
