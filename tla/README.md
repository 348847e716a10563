# Verification of modbus-skills

TLA+ specifications of `modbus-skills`, TLC runs over small instances of them,
and TLAPS proofs of what matters most for every instance. Paths are relative to
the repository; `runtime/` abbreviates
`plugins/modbus-skills/runtime/modbus_skills/`.

## 1. The system and its parts

modbus-skills turns a manufacturer's register map (spreadsheet, PDF, JSON) into
a machine-readable Modbus map, lets an engineer review it and select points of
it, plans the reads, and generates the tools that perform them: pollers for
several programs and a Node-RED flow that writes a capture. The parts marked *S*
keep state across calls, messages or processes; that is where steps interleave,
processes die and answers arrive late. The others are passes over documents. What
makes them hard is that every document is a file somebody may edit or correct
before the next pass, and that a record may contradict itself in ways nobody
tried.

| component | code | state | operations | interaction | status |
|---|---|---|---|---|---|
| Compile case *S* | `runtime/compiler.py`, `compiler_contracts.py`, `selection_resume.py`, `decision_packets.py` | a directory: `case.json`, `compile-result.json`, up to a dozen artifacts | compile, rerun, resume, inspect | separate processes on one directory, no lock; calls user map, link, planner, exporters | modelled |
| User map and selection | `runtime/user_map.py`, end of `source_intake.py` | files: candidate, selection, bundle | intake, suggest, bind a template, bundle | inside a case, or one by one | partly |
| Device link | `runtime/map_linking.py`, `unit_id_scope.py` | files: binding, linked map | validate, link | after the bundle | partly |
| Read planner | `runtime/read_plan.py` | local: block being built, requests, held points | `compile_read_plan` | its plan drives the flow and the packs | modelled |
| Node-RED flow *S* | `runtime/node_red.py` (the JavaScript it generates) | flow context, one watchdog timer | start, cancel, read, answer, retry, record, drain | messages between nodes, Modbus client | modelled |
| Node-RED campaign harness *S* | `runtime/node_red_runtime.py`, `scripts/run_node_red_live_campaign.py` | deployed flow, the capture's mtime, deadline | preflight, deploy, rounds, restore, report | HTTP to Node-RED, polls a file the flow writes | modelled |
| Map-matrix program *S* | `scripts/pstack/map_matrix/` | `program.json`, receipts | init, claim, finish, requeue, status | workers, an advisory lock, the scripts that start them | modelled |
| Native launcher *S* | `runtime/gavinying_launcher.py` | output directory: owner, lock, stage, result | one polling pass | child process, signals, other launchers | modelled |
| Address resolution | `runtime/address.py` | none | resolve, format, parse | called for every record | modelled |
| Review decisions | `runtime/decisions.py` | a line of map files | apply a record | records are files | modelled |
| Map workflows and validation | `runtime/map_workflows.py`, `validation.py` | points made so far, holds | normalise, lint, validate, review evidence | parser before it, reviewer after it | partly |
| Tool packs and exporters | `runtime/exporters.py`, `tool_pack.py`, `node_red.py`, `modpoll.py`, `modscan.py`, `custom_format.py`, `pymodbus_fallback.py` | the plan file | preflight, targets, pack | between planner and clients | partly |
| Source intake and PDF extraction | `runtime/source_intake.py`, `parsers.py`, `pdf_*.py` | rows so far, pages, deadline | three readers, chunks, reconciliation | external `pdftotext`, worker process | partly |
| Capture analysis and byte order | `runtime/analysis.py`, `byte_order.py` | none | completeness of a capture | called by the harness | partly |
| Command line | `runtime/cli.py` | none | dispatch | runs the above | partly |
| Session adapter *S* | `scripts/skill_usability/` | RPC process, pending messages | start, turn, continue, interrupt | an agent | no |
| Build, validation and acceptance scripts | `scripts/` | none | one-pass batches | files | no |

What makes each of them correct, and what is hard about it:

* **Compile case.** Whatever replies, reruns and deaths it goes through, the
  files `case.json` indexes belong together; a paused case can be answered,
  once; a superseded reply changes nothing. Hard: every artifact is replaced on
  its own, the commit is two more replaces, the case hash is compared once at
  the start, and nothing excludes a second process.
* **User map and device link.** A linked map says of each point only what was
  said of that very point; a hold goes on into the user map as it is, and on the
  device a hold of its code stands on its points. Hard: candidate and binding are
  files written for a map that may have been corrected since, ids come back with
  other rows, and holds pass through four artifacts with keys of their own.
* **Read planner.** It asks devices only for what a point or declared evidence
  allows, within the limit, and loses no point. Hard: boundary offsets,
  overlapping and nested points, gaps cut by unsafe intervals.
* **Node-RED flow.** One request in flight, bounded retries, one complete
  capture for every start. Hard: a failed read is reported twice, the watchdog
  races the answer, and every step is triggered by the end of the step before.
* **Campaign harness.** A passed report is earned: every round has its own
  complete capture and the flow of before is back. Hard: a round that times out
  leaves a run behind it, hands press the flow's buttons, the restore may fail.
* **Map-matrix program.** Each map is worked on by one worker and ends; "clear"
  means that all are perfect. Hard: workers that die, late finishes, a
  half-written program file, two notions of perfect.
* **Native launcher.** Values shown as current come from a completed pass of the
  setup that owns the directory. Hard: signals between any two statements, a
  child that outlives its launcher, a stage that cannot be removed.
* **Address resolution and normalisation.** A confirmed point is read at the
  register its source means, and nothing is made up. Hard: three conventions
  and their ends, access stated in four places, defaults.
* **Review decisions.** A map file accounts for itself, a hold leaves only when
  it is answered, an approved map is safe. Hard: stale records, partly answered
  holds, corrections that move points onto each other.
* **Exports.** A pack reads only what plan and map justify, and shows it as the
  map means it. Hard: plan and map are files edited after the plan was made; the
  gate derives the evidence with code of its own; a client's idea of a block.
* **PDF extraction.** No row is dropped in silence and complete coverage is
  claimed only when earned; section 3 names where the code falls short of both.
  Hard: three readers that fail at different points, pairwise reconciliation,
  chunks and a deadline.

## 2. Modules

| module | role |
|---|---|
| `CaseLifecycle` | abstract: one checkpoint that moves by atomic transitions |
| `CompileCase` | the files of a case root and the processes that write them; implements `CaseLifecycle` |
| `ReadPlanRun` | abstract: blocks dealt with in plan order, one publication per run |
| `NodeRedFlow` | the generated nodes over their message queue; implements `ReadPlanRun` |
| `CaptureAnalysis` | what `analyze_capture` says of a capture, as operators |
| `NodeRedCampaign` | the harness beside the flow: extends `NodeRedFlow`, instantiates `CaptureAnalysis` |
| `OutputRecord` | abstract: what a reader of `result.json` is promised |
| `NativeLauncher` | launchers on one output directory; implements `OutputRecord` |
| `MapMatrixProgram` | `program.json`, its lock, the workers and the scripts that start them |
| `PointValidation` | the validator, as operators |
| `ReviewDecisions` | files made by applying records of decisions; extends `PointValidation` |
| `AddressResolution` | conventions and references, as operators; extends `PointValidation` |
| `MapNormalization` | records become points; extends `AddressResolution` |
| `EvidenceReview` | lint and evidence review of that map; extends `MapNormalization` |
| `ReadPlanner` | `compile_read_plan`, one action per branch of its loop |
| `ExportTargets` | what each client refuses and shows; extends `ReadPlanner` |
| `ExportGate` | planner, edits, gate and pack; extends `ExportTargets` |
| `RowReconciliation` | how the readings of one document meet, as operators |
| `PdfExtraction` | one extraction, in one pass or in chunks; extends `RowReconciliation` |
| `UserMap` | intake, selection, bundle and link |
| `MC...` | instances for TLC |
| `...Proofs` | `CompileCaseProofs`, `PlanProofs`, `MapMatrixProofs`, `NativeLauncherProofs`, `NodeRedProofs`, `MapProofs`, `UserMapProofs`, `PdfProofs` |

Definitions marked "Mutant" or "Faulty variant" are altered copies of the
definition that follows them, each the kind of slip the code could have. No
specification uses them. Put in the place of the original, each makes one
property of its module fail: it shows that the property depends on the code.

### CompileCase

| specification | code |
|---|---|
| `caseFile` | `case.json`: state, request, artifact index, receipts, packet, recorded result |
| `resultFile` | `compile-result.json` |
| `disk` | every other artifact, by its provenance |
| `litter` | a directory or temporary file left by a death before the first artifact |
| `phase`, `job` | per process, how far it is with which transition |
| `told`, `seen`, `mishaps` | history: answers given, cases read, interruptions and exceptions |
| `Start`, `StartRefused`, `Rerun` | `compile_user_map` |
| `Replay`, `Resume`, `ResumeRejected` | `_resume_case` |
| `Advance`, `Outcome`, `Stored`, `Transition` | `_advance`: what is stored and which early return is taken |
| `StoreArtifact` | one `_store_json` or `_store_bytes` |
| `WriteResult`, `WriteCase` | the two writes of `_commit` |
| `Raise` | an exception that leaves `_advance` after it has written |
| `Interrupt` | the process dies, or a write fails, between two replaces |

An artifact is deterministic in its inputs, so its provenance (request,
selection, binding) stands for its bytes and its hash. The reads an invocation
makes before its first write are one step; each write is a step of its own. A
request records only what the control flow looks at. A reply can be built from
any `case.json` ever visible, so old and duplicated replies are among the inputs.

### NodeRedFlow and NodeRedCampaign

The context variables carry the names they have in the generated JavaScript.
`inbox` is Node-RED's queue of deliveries: messages are delivered one at a time
in the order sent, and each action handles the head of the queue as one node
does: `ReadErrorLane`, `ResponseGate`, `Derive`, `TerminalGate`, `Handoff`,
`WriteCapture` and `Record` (the capture node), `Continue`, and `Sequence` (the
sequencer: `StartPlan`, `StartRefused`, `Cancel`, `Retry`, `Advance`).
`Trigger`, `Answer` and `WatchdogFires` are the world outside and append to the
queue at any moment. `wire` holds the reads no client has answered and `watch`
the one watchdog timer; `file` is the last capture. A request's number and run
are history: the flow compares block and attempt only. One sample stands for all
points of a block. A malformed answer of any kind is "short"; "odd" is a complete
answer with a value that cannot be decoded, which `Derive` publishes as a failed
sample and does not retry (`runtime/node_red.py:1207-1210`).

`Polling = FALSE` is a harness that triggers again only when the capture of its
run is on disk. `Polling = TRUE` is the five-second poll and the buttons.

In the campaign, `phase` is where `run_campaign` is, `fresh` whether the capture
file's mtime differs from `previous_mtime`, `taken` the captures read so far and
`issues` what their analysis found. `Refuse`, `OriginalUnreadable`, `Deploy`,
`StartRound`, `TakeCapture` are the way through the rounds; `Raise` is any of the
exceptions on it, `Restore` the end of the last round; both put the original flow
back (`Redeploy`), or fail to. All actions of the flow go on beside it. A capture is judged by `CaptureAnalysis`, from the document
the flow writes.

### ReadPlanner

`Reject` and `Group` are the validation and the sort before the loop; `Open`,
`Join` and `Split` the ways the loop takes a point; `Finish` the flush after it.
`current` is the block being built, `requests` the finished ones. A scope stands
for route, unit, area and function code, numbered in sort order; `readable` for
the checks of access, address resolution and function code. Islands of one
scope may share an id, as the code allows: such points share a group, and the
planner then bridges no gap between two islands.

### MapMatrixProgram

| specification | code |
|---|---|
| `program` | `program.json`: status and worker of each map; `Unreadable` before init and after a death inside `save` |
| `receipt` | `artifacts/.../<map>/receipt.json`: none, perfect (`_receipt_perfect`) or not |
| `lock`, `copy` | who holds `program.lock`, and the program it loaded under it |
| `pc`, `map`, `again`, `verdict` | where a worker is in `run_one_worker.sh`, and its shell variables |
| `Load`, `Claim`, `QueueEmpty`, `Finish` | `claim` and `finish`: lock and load are one step, save and unlock another |
| `RunRefused`, `RunStarts`, `RunEnds`, `Improve` | `run_worker.py` and `run_improve.sh` as a worker sees them |
| `Die` | a worker is killed, with the command it runs |
| `driver` | which script runs: `run_pool.sh`, or `run_until_clear.sh` with its improve-free pools |
| `Arm`, `PoolEnds`, `Check`, `ImproveNext`, `Requeue`, `Stop` | the script: init, `wait`, `is-clear` and `list-imperfect`, the sequential improvements, the next round, the end |

The pipeline is nondeterministic: a run of a map may end with any receipt or
none. A worker's program is read and saved in two steps although the lock makes
them one: the lock is there to be checked, and a death can come in between.

### NativeLauncher

`pc` is where each launcher is in `main` and the functions it calls, one value per
statement that touches the directory or the child. `made`, `owner`, `lock`,
`shown` are the directory, its owner file, the lock and `result.json`; the stage
and the temporary document are each made exclusively. `LauncherStep` is one
statement; `ChildExports` and `ChildExits` the native process; `Interrupt` a
signal that arrives between two statements and unwinds through the `finally`
blocks (`Escape`, `Guard`, ...); `WriteFails` a full disk; `Kill` a `SIGKILL`. A
child that its launcher forgot stays and may still write (`loose`).

### Maps: PointValidation, AddressResolution, MapNormalization, EvidenceReview, ReviewDecisions

A finding is its code, the points it names and the field it is about. A field of
a record is `None` if empty, `Placeholder` if it writes a dash, `Invalid` if the
code has no reading for it. `NormalizeRecord` is one turn of the loop of
`normalize_map`, with one operator per field (`AreaOf`, `TypeOf`, `SpanOf`,
`OrderOf`, `ScaleOf`, `AccessOf`, `FunctionOf`, `IdOf`) and one for what keeps it
open (`...Holds`); `Collate` is the pass over pairs after it. `Lint` and
`DecisionGroups` are `lint_map` and `review_parse_evidence`. A record may write its
address in three fields of its own and an address object in three forms, of which
the code takes one (`Strongest`).

In `ReviewDecisions` no file ever changes: `files` is the list of those there
are, and `ApplyReview` applies any record written against any of them to any
other. A file's hash is its content.

### ExportTargets and ExportGate

A case is a map and planning options; its plan is made by the actions of
`ReadPlanner`. `EditPlan` and `ReviseMap` are anyone with an editor, and
an editor who recomputes hashes is among them. `Preflight` is the gate of
`exporters.py`, `TargetFindings` what each client's module refuses on its own,
`Shown` the values a client displays of a block by the files it is given, and
`BuildPack` `tool_pack.py`. The files of gavinying and proconX do not say how wide
a value is; the client takes the width of its type (`ClientWidth`).

### RowReconciliation and PdfExtraction

A row carries the mark of its reader, page and line, and the marks of the rows
merged into it. What it says is an address, a claim in a material field and an
`other` claim that nothing compares (scale, byte order, unit, range; the type in
the text against the format in a grid). `Layout`, `Coordinate`, `Grid`, `GridAlone` and `Recover` are the
readers in their order and with their failures; `ChunkLayout`, `ChunkCoordinate`,
`ChunkGrid` the same within a chunk, `ChunkStops` the deadline. What a reader
answers is any of a set of answers: the text heuristics are outside the model,
their orchestration is inside it. The layout reader keeps two kinds of rejection
from pages nobody asked for (`Anywhere`), and a coordinate reader that fails on a
page has by then added what it rejected before (`Broken`).

### UserMap

`Intake` makes the vendor map of a source or of its correction, `Suggest` writes
a candidate for the map in view, `Bind` a device binding for it, `Select` and
`SelectTemplate` make the bundle, `Link` the map of one device. A digest of a
value is the value itself. A hold is what it says (`What`: code, field, message with
severity, whether it blocks) and the points it is on; `_group_holds` goes by all of
the first and `_hold_key` by the code and the points. The details a hold carries
besides are left out.

## 3. What the runs check

| run | instance | question |
|---|---|---|
| `compile_case` | one process, deaths anywhere, two points, thirteen requests (one for each way through the compiler), four bindings | lineage of the index, inspection of clean cases, no superseded commit, answers equal what was committed, refinement of `CaseLifecycle` |
| `node_red_flow` | three blocks, no retry and one retry, two starts, reads good, not decodable, malformed or failed, a watchdog free to run out at any moment | one read at a time, published attempts, every started plan drains, refinement of `ReadPlanRun` |
| `node_red_campaign` | two blocks on two units, two rounds, three triggers in all, one of them by hand; answers that are good, failed, late or lost; a restore that fails | a capture is of one run, a passed report is earned, rounds have runs of their own |
| `map_matrix` | both scripts, three maps, two workers, two rounds, one improvement per round, one death anywhere | one worker per map, what a pool leaves, the verdict clear, the script ends |
| `read_planner` | 33 306 inputs: three points of any width, or four narrow ones, in eight offsets; every shape of island set and unsafe set | safety, authority, completeness, and optimality against all ways of sharing the points out |
| `native_launcher` | two launchers of one setup or of two, one signal or full disk in any statement, one outright kill | exclusion, origin of current values, end of every launcher, refinement of `OutputRecord` |
| `review_decisions` | two drafts of three points, ten decisions, two per record, two reviews, records against any file | a file accounts for itself, holds leave only when answered, approved maps are safe |
| `map_normalization` | some 24 600 sources: all combinations of claims within a group of fields, pairs of records, parser holds, three sets of defaults | one register, denials hold, nothing invented, nothing waved through |
| `export_gate` | maps of words in eight offsets with islands and unsafe intervals, pairs of every kind of value; one edit or revision; three selections of clients | reads are justified, values shown as meant, the planner's plans accepted |
| `pdf_extraction` | four documents of three pages, three page ranges, four rows that each reader finds, misreads (in a material field or another), rejects or misses; chunks of two pages | what may be dropped, records agree where they are compared, complete is earned |
| `user_map` | seven sources, three templates, two corrections, bindings with and without holds | linked maps mean what was said, complete bundles are clean, what becomes of each hold |
| `user_map_doubles` | the same | fails: a sentence of the documentation, see below |

The bounds are small but reach the cases that matter.

* `compile_case`: a case passes through at most a decision and then a binding;
  both occur, with deaths before and after every write. A second point lets a
  decision include one and exclude another. The run has one process because the
  refinement and `SupersededRejected` need it; what two processes can do is
  covered by the theorems, which hold for any number.
* `node_red_flow`, `node_red_campaign`: two starts show whether anything of one
  run reaches the next, three blocks whether the queue survives a retry in the
  middle; a retry limit of one is the code's largest. `MaxTriggers` bounds all
  starts and cancels, `MaxPresses` those by hand. The campaign's run leaves out
  values that cannot be decoded, with which it takes longer than a run should; they
  occur in `node_red_flow`, and the theorems hold for them in the campaign too. The contract asks for three
  rounds (`Rounds`, 2 in the run): a third round follows the second as the second
  the first.
* `read_planner`: four points cover a joined pair on both sides of a gap, eight
  offsets (`LastOffset`, 65535 in the code) a block that ends at the last one;
  `Limit` is 4 registers or 2 bits.
* `map_matrix`: two rounds (`MaxRounds`, 20 in the code) are enough for a map to
  pass, to be requeued and to pass late; three maps for one to be passed, one
  failed and one abandoned at once. `ImproveCap` is 26 in the code, `MaxDeaths` 1.
* `native_launcher`: `MaxFaults` and `MaxKills` are 1 each, which already lets a
  kill of one launcher meet a signal to the other at every pair of statements.
* `review_decisions`: a third file is enough for a record to be stale in both
  directions; `MaxDecisions` 2 lets one answer a hold in part and another move a
  point; the points sit at 65535 and next to each other.
* `map_normalization`: fields that are judged together are combined in full, others
  are held at a complete record; addresses are those at the ends of the conventions.
* `export_gate`: `MaxChanges` 1. `ProtocolLimit` 5 exceeds `Limit` 4, so that a
  widened request is told from a long one.
* `pdf_extraction`: `Span` 2 makes a document of three pages one whole and one
  short chunk, and a range of two pages one that ends on the boundary;
  `ScanPages`, `MaxGridPages`, `MaxRecords` can each be exceeded.
* `user_map`: `MaxRevisions` 2 is a map, its correction, and a second one that
  may be the first again.

Runs whose system may stop (a final case, a drained flow, a finished pass) do not
check for deadlock.

### What the code does not promise

`user_map_doubles` checks the sentence of `skills/compile-user-map/SKILL.md:26`
that an offline-complete bundle's selected points have no blocking holds. It
fails: `_disambiguate_oem_point_ids` renames the second of two points of one
logical id after the holds of both rows were attached to that id
(`runtime/source_intake.py:639`), so a selection of the renamed point leaves
them in the annex. `CompleteIsClean` is therefore stated for rows that share
their label with no other.

Seen while modelling, and reflected in how the properties are worded:

* Compile case. A resume that dies after `selection.json` was replaced in place
  leaves `case.json` pointing at bytes that no longer exist
  (`runtime/compiler.py:353`), and a binding that passes its validator may be
  refused after artifacts were replaced (`:460`); `CleanCaseInspects` is stated
  until a process dies or raises between two writes. A selection that disposes of
  no point offers all of them in a packet no reply of which is accepted (`:606`).
  Two processes may answer one checkpoint, and the later commit drops the
  earlier receipt (`:257`). After a death between the two writes of a commit a
  rerun returns a result that was not committed (`:172`); `CleanAnswersCommitted`
  says that this needs a death.
* Node-RED flow. The refusal of a tick during a run reaches the capture node,
  which counts it as a failed read and asks for the next one
  (`runtime/node_red.py:1112-1113`); "one request in flight" (`:105-106`) is
  therefore checked and proved for triggers that wait (`Polling = FALSE`). The
  terminal gate drops the watchdog's message (`:1307`), so a read that neither
  answers nor fails stops the plan; `Drains` assumes a client that ends each read.
  A late answer after a cancel is taken for the new run's if both ask for the
  same block. `max_in_flight` and `queue_depth` of a capture are literals, and the
  harness's check of them says nothing.
* Campaign. A plan started by hand during a campaign can yield one capture that
  counts for two rounds, since ids of captures are not compared; `RoundsAreOwn` is
  stated for campaigns with no start by hand. Two presses, a cancel and a start,
  make a late answer of the cancelled run a sample of the next one, beside the
  answer of that run: that each block has one sample, of the run of its round, is
  what `PassedIsEarned` claims of campaigns in which nobody presses
  (`triggers = Rounds`). The rest of it, and `CaptureOfOneRun`, hold with presses.
  The harness counts the first of the samples with one id, and the id says whether
  the read failed and not whether its value was decoded: with presses, a second
  sample of a block and attempt may be undecoded in a passed campaign (`Counted`).
* Review. A hold on an overlap stays when the points were moved apart
  (`runtime/decisions.py:437`): an approved map is safe, but a safe one is not
  always approved. A blocking source hold whose points match no normalised point
  is dropped by the evidence review; `NothingWavedThrough` names that exception.
  A string without a word span has no finding (`runtime/validation.py:170`), so a
  review approves a map whose string ends nobody knows where. `ApprovedIsSafe`
  claims of such a point (`Unmeasured`) only where it starts and how it is read: not
  that it ends inside the address space, nor that it overlaps no other.
* Normalisation. Of an address object only the strongest form is read, an offset
  before a display address before a raw one (`runtime/map_workflows.py:937-957`). The
  others are compared with nothing, so a point is confirmed although its source
  writes another register beside the one taken; `OneRegister` excepts these forms
  (`PassedOver`) and no others. Default word spans and scales are not recorded as
  assumptions (`:1101,1324`); `NothingInvented` lists the fields that are.
* Exports. Points that share registers beyond the limit are split over requests
  that overlap, which the gate refuses (`runtime/exporters.py:521`); two islands
  of one id are one to the planner and two to the gate. `PlannedIsAccepted` sets
  both aside. A gavinying row has an offset and a type (`runtime/modpoll.py:873-884`), a
  proconX command a type and, for bit areas, always that of bits (`:577-611`); neither
  has a width, and no preflight compares the map's with the type's. A point of two
  words whose type has one is read as one register there. The validator has a
  finding on such a point (`point.datatype-span-mismatch`), but the gate does not ask
  it again. `ShownAsMeant` excepts these two clients for points that do not fit
  their type (`Fits`).
* PDF. When the coordinate reader fails, what the layout reader listed gives way to
  the records of the grid, if there are any: rows the grid does not have are gone,
  without a hold, and coverage may be claimed complete. If the layout had only
  rejections, they give way to whatever the grid answers
  (`runtime/pdf_extraction.py:2464-2489`). `Replaced` is exactly these two cases, and
  `NothingDropped` and `CompleteIsEarned` except them; where the grid has no record the
  rows are kept, and that is checked. After a text reader failed, the pages of the
  rows that are left count as all register pages there are (`:2388-2393`), so
  `CompleteIsEarned` claims nothing of pages then (`holds # {"text"}`).
  Readers are compared in nine fields (`_MATERIAL_FIELDS`, `:53-55`, `:1610`). A
  disagreement in scale, byte order, bit order, unit or range is settled in silence,
  and so is one between the type in the text and the format in a grid, of which the
  latter is taken in the end (`runtime/pdf_table_extraction.py:1033-1035`, not modelled).
  `RecordsAgree` is about the nine. A table that continues at the start of a chunk is
  not found there (`runtime/pdf_extraction.py:1032`).
* Device link. `_hold_key` (`runtime/map_linking.py:204-214`) knows a hold by its code
  and its points. Of two that differ in field, message or whether they block, one is
  dropped, and which one depends on where they stand: a hold that blocks may be
  lost to one that does not. `NothingLost` claims for the linked map what is left: a
  hold of that code on these points, in the place that is right for them.
* Native launcher. A child that its launcher forgot between `Popen` and the `try`
  may write into the stage of the next pass. `Earned` accepts its values beside those
  of the pass's own child (`loose` are the children let go like that), and no
  others.
* Map matrix. `status` reads `program.json` without the lock
  (`scripts/pstack/map_matrix/program_ctl.py:98`), improvers share one working
  tree (`run_improve.sh:32`), and an improvement after a recorded failure may
  leave a perfect receipt behind it. None of this feeds back into the program.

### Fairness

The flow assumes three weak fairness conditions. Node-RED's event loop keeps
delivering queued messages (`WF(Deliver)`). The Modbus client ends each read by
an answer or by its own timeout, which it reports as a failure (`WF(Answer)`). A
timer that is armed runs out (`WF(WatchdogFires)`). No trigger is fair: nobody
must press start. `MapMatrixProgram` assumes that the script and each living
worker keep going (`WF(Drive)`, `WF(Work(w))`): the external tools a pipeline
calls have timeouts (`run_worker.py:222-253`), and a `flock` that waits is
granted, since every holder saves and leaves or dies. That the agent
`run_improve.sh` calls ends is an assumption: it has no timeout. `NativeLauncher`
assumes that each started launcher keeps executing (`WF(LauncherStep(r))`); its
child need not end, the launcher's deadline ends it. Deaths, signals and full
disks are never fair. All other modules have safety properties only: nothing
obliges anyone to call the compiler, apply a review or build a pack, and the
planner and the readers are loops over finite lists.

## 4. What is proved

All proofs hold for every value of the constants that satisfies the named
assumptions of the modules, which TLC evaluates on the runs. But for
`ReaderAssumption` and `GridAssumption` of `PdfExtraction`, a contract of its readers
that is discussed below, these are typing facts: requests, bindings, drafts and decisions have the fields their validators
establish, the sources are finite lists, the maps a plan is made for are maps
(`IsMap` of `ExportGate`: fields of their types, one point per id, final points
with a layout that fits them), limits are positive and no scope's limit is above the
protocol's, the buttons are start and cancel, ids are distinct, `None`, `Invalid`
and `Placeholder` are none of the values they are told apart from.

**CompileCaseProofs**, for any number of requests, bindings and processes, with
deaths. `TypeCorrect`, `LineageAlways`, `ReadyAlways`, `AnsweredOnceAlways` give
`TypeOK`, `IndexLineage`, `CheckpointReady`, `CheckpointAnsweredOnce`. None is
inductive: the next index is computed long before it is written, from a case that
may no longer be on disk. `IInv` therefore says of every case that matters (on
disk, read by a caller, about to be committed) that it is `Sound`: typed, of one
lineage, ready for its reply, answered at most once per checkpoint; `JobSound`
ties a transition in progress to the case it started from. With one process at a
time (`Alone`) three more hold: `InputsIntactAlone`, `SupersededRejectedAlone`
and `LifecycleAlone`, the refinement of `CaseLifecycle`. They rest on `AloneInv`,
which adds that the case a transition started from is still the one on disk.
`CleanCaseInspectsAlone` and `CleanAnswersCommittedAlone` say what the caller of one
process at a time relies on: until an invocation dies or raises between two writes,
a case at rest passes its own inspection and every rerun, replay and commit answers
with the committed result. Their invariant `CleanInv` follows a transition write by
write: until then, what the case root does not agree on yet is what the process at
work has still to write.

**PlanProofs**, for any map, limits, islands and unsafe intervals:
`TypeCorrect`, `WithinLimitAlways`, `NeverUnsafeAlways`, `AuthorisedAlways`,
`PlannedOnceAlways`. `IInv` says that every block is `Sound` by itself, that the
points still to come lie at or after the start of the block of their group
(`TodoAhead`, from the sort order), that blocks and remaining points are disjoint
(`Divided`) and together complete (`Complete`). `JoinSound` is the heart: the
registers a join adds are those of the point, those of a gap of no register, or
those between two ends of one island that `_gap_is_safe` has passed.

`FewestRequestsAlways`: no other way to share the planned points out needs fewer
requests. The planner is greedy, and `FewInv` says what that leaves behind: the
blocks are in plan order, and each was opened by a point that the block before
could not take, for its quantity or for a gap (`Barred`). `OpenersApart`: a request
that read two such points would reach over what barred the later one. So a plan
with fewer requests than there are openers would have two of them in one request
(`FS_PigeonHole`).

The same module goes on to the gate and the packs, for any number of edits of the
map and the plan, any edits and any selection of clients. `ReadsAreJustifiedAlways`:
the gate does not trust the plan, it tests it, and what it tests suffices. It looks
at each gap between two neighbouring points of a request, the property speaks of
each register; a register no point covers lies in the gap between the last point
before it and the first one after it, which exist because the request starts and
ends with points. `ShownAsMeantAlways`: a point the pack's plan reads is a final
point of the map, its words are inside the request, and each client decodes them as
the map says or refuses the whole plan, the two command-line clients if its width is
that of its type; the proof goes client by client. Both rest on
`GateInv`: map, plan and pack keep their form through edits, and the pack keeps the
plan it was built from. `PlannedIsAcceptedAlways`: the gate, which judges without
knowing how a plan came to be, has no finding on a plan as the planner made it of a
map that leaves nothing open. `AsMade` says that a plan without changes was made of
the map and arguments there are, on top of `FewInv` and `AllSnug` (a request ends
with one of its points and bridges exactly the gaps between them). The hard finding
is `BLOCK_COVERS_UNREFERENCED_POINT` (`NoStranger`): a point of another request
within this one lies in a gap between two of its points, so in the island that
bridges the gap, so in their group, so between them in plan order, where the planner
would have taken it. The traces of a request are made by a recursive function;
`TracesAre` says what they are by a smallest set of points that would have others.

**MapMatrixProofs**, for any maps, workers, deaths and budgets: `TypeCorrect`,
`OwnedAlways`, `PassedIsPerfectAlways`, `OnlyDeathLeavesWorkAlways`,
`ClearIsPerfectAlways`, `ListsAgreeAlways` and the action property
`PerfectIsKeptAlways`. `IInv` has a part for workers (critical section and lock,
copy and program, verdict and receipt), one for maps (what each status says of
receipt and worker) and one for the script (when it acts, all workers are gone).
None of the properties is inductive without the others.

**NativeLauncherProofs**, for any number of launchers, setups, signals and
deaths: `LauncherExclusion`, `LauncherEarned`, `LauncherReceipts` and
`LauncherImplementsRecord`, the refinement of `OutputRecord`. `LockInv` says from
where a launcher stands whether it knows of its lock, `OwnerInv` that only
launchers of the owning setup come past the check, `ShownInv` that the document
belongs to the last run that announced itself; a last part says who may write into
the stage: the child of the launcher that holds the directory, or one that its
launcher forgot.

**NodeRedProofs**, for any plan, retry limit and fate of each read.
`CaptureOfOneRunAlways`, `ProbeReadsOnceAlways`, `CompletedHasSampleAlways` hold
whatever the triggers do. `OneInFlightAlways`, `PublishedAttemptsAlways` and
`FlowImplementsRun` assume `Polling = FALSE`. The first is far from inductive: a
failed read sends two messages, the watchdog a third, and each node that handles one
may order the next read. `Quiet` says what travels: while a read is out nothing else
that counts moves; otherwise what moves are the messages of the two outputs of one
read, in the order they were sent, and the capture the trigger waits for is not yet
on disk. On it rests `Course`, the invariant of the samples: the blocks before the
one in work are settled, those after it untouched, and the attempts at each are
numbered 0, 1, ... one after the other, each but the last failed, given up only at
the limit. `PublishedAttempts` says the same of the capture on disk, and with
`Course` each step of the flow is a step of `ReadPlanRun` or leaves it unchanged:
that is `FlowImplementsRun`.

The campaign is proved in the same module, for any number of rounds, with presses by
hand, polling triggers and reads that never answer. `RoundsAreOwnAlways` rests on
`InStep`: as long as only the harness starts plans, a run is asked for only when the
capture of the run before is on disk, so the next capture is that of the next run.
`PassedIsEarnedAlways` rests on `Judged`: the rounds before this one have captures
of the flow, and what their analysis found stays found. Behind it are lemmas on the
harness's own test. `analyze_capture` counts only the first of the samples it takes
for one and the same; `NoIssues` shows what a capture without an issue is: drained, with a
sample of each block, none of a failed read, and of those of one block and attempt
the first decoded. `CleanSingle` shows that with no presses no two samples are of one block.

**MapProofs**, for every source. Addresses: `ResolvedInRange` (what resolves is a
protocol offset, what does not has a finding), `ReferenceRoundTrip` (a formatted
reference reads back as its offset, across the step from five to six digits),
`ReferenceOfOneArea`, `ReferencesDistinct`. The map made of the source's records:
`OneRegisterAlways` (every address the source writes for a confirmed point denotes
the point's register, but for the weaker forms inside an address object), `DenialsHoldAlways` (a point some claim of its
record keeps from being read is not confirmed), `NothingInventedAlways` (each field is
the record's, or listed as an assumption). `IInv` says that
points and holds are those of the records read so far, and what the comparison of
all points adds at the end. `NothingWavedThroughAlways` is about the evidence review:
a reviewer is asked about every point that an open hold or the validator names.

In the same module the review, for any drafts, decisions, evidence and number of
reviews: `ApprovedIsSafeAlways` and `HoldsAnsweredAlways`. A map is approved only when
nothing is found in it; the lemmas about the validator say what that means for its
registers, of all points but a string whose length nobody gave. The heart is that the sweep over neighbours finds some pair of
overlapping points whenever any two overlap. `AccountableAlways`: the trail of
records in a map file, each made against those before it, gives the file from the
draft, so the file can be audited without the reviewer.

**UserMapProofs**, for any sources, candidates, bindings and corrections:
`LinkedMeansWhatWasSaidAlways`, from the lineage of the three digests `Link`
compares. `CompleteIsCleanAlways`: a bundle is called offline-complete only if its
source was covered, for a PDF its selected points were confirmed, and nothing blocks
a row whose label no other has.
`NothingLostAlways` follows each hold
of the source: into the user map as it is, in the group of those that say the same
or, if it touches no selected point, in the annex; and, with the holds of the binding,
to the device, where one of its code and its points stands for it. The proof is that
deduplication picks a hold of each key and that the places agree on all of a key.

**PdfProofs**, for any documents, page ranges, limits and answers of the readers:
`NothingDroppedAlways`, `RecordsAgreeAlways` and `CompleteIsEarnedAlways`. It assumes of
the readers what `ReaderAssumption` says: each lists places of its own, each once,
as a row or as a rejection (`parse_layout_rows` and `parse_bbox_rows` make one of them
of a line, and a rejection found later replaces the row). `IInv` says for each phase
where what has been seen is kept: in the layout rows, then in what the text readers
agreed on, then in the totals, and always in the rejections; `Replaced`, the case in which it is nowhere, is settled by
what the grid answered (`GridAssumption`: a row of the grid has a code exactly when it
is quarantined). Its second part is `Faithful`: a record says nothing else in a
material field than each row that went into it, which is why no
later reader can be merged against an earlier one. Its third is the coverage: in one
pass the pages found include all that show registers; in chunks all pages before
the present one are done, so a chunk shorter than the span (`LastCovers`) ends the
document. Below it are lemmas about the reconciliation. `Matching` and `At` are
recursive functions; `Iterated` gives their values, by the least-number principle
of `Least` and `UpTo`. `MatchingFacts`: each row on the right is matched or left over,
and none is matched to two. `ReconciledFacts`: the marks that go in come out, in a
record or aside, and a record is a row or the merging of two without conflict.

Invariants that are proved and not among the runs' properties: `TypeOK` of the
modules with proofs, `CheckpointReady`, `CheckpointAnsweredOnce`, `InputsIntact`,
`WithinLimit`, `PassedIsPerfect`, `PerfectIsKept`, `ListsAgree`, `ReceiptTrue`,
`ProbeReadsOnce`, `CompletedHasSample`.

Only model-checked. `Drains` and both `Ends` are liveness: outside the proof system.
`ReadPlanRun` states no fairness, so `ImplementsRun` is about safety alone and is
proved (`FlowImplementsRun`). The other properties of the passing runs are
theorems, some of them under the condition named with them (`Polling = FALSE`, one
process at a time).

## 5. What is not modelled, and why

* How readers find tables in pages (`parsers.py`, `pdf_table_extraction.py`,
  `pdf_layout*`, `worksheet_annotations.py`): heuristics over strings and page
  geometry. The model takes what they answer from a set.
* Rendered text: reports, generated pollers and flows, the layout of the flow
  file, comparison, remapping and diagnosis of maps. What a generated client reads
  and shows is modelled.
* Statistics over samples and the ranking of byte orders: floating point without
  control. The comparison of a campaign with an oracle is a choice.
* The custom format and the pymodbus fallback of the exporters.
* Bytes and JSON encoding of artifacts; hash collisions; `fsync` and the loss of
  writes by the machine. A replace is atomic and durable.
* A campaign harness that is killed, and Node-RED that restarts with a flow half
  way; more than one watchdog (the generated node resets one timer for all topics).
* The map-matrix script killed and started again while workers of the killed one
  still run; branches, merges and reports of the improvers.
* The session adapter (`scripts/skill_usability/`): a test harness whose other
  side is an interactive agent, with a protocol that is in no source of the
  repository.
* Build, validation and acceptance scripts: one-pass batches over files.

## 6. Plan

1. `ExportTargets`: the custom format and the pymodbus fallback.
2. `MapNormalization`: comparison and remapping of two maps.
3. Proofs: of the matching of rows, which row of several a reading is paired with;
   of the flow, which properties are left when triggers poll.
