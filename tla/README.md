# A verification of DeepSeek Orcana

DeepSeek Orcana is a coding agent for the terminal, written in TypeScript. It
sends a task to a language model, runs the tools the model calls on the user's
project and decides when the task is done. This directory holds TLA+ modules of
it, the TLC configurations that check them on small instances and proofs,
checked by TLAPS, of what matters most. Paths below are relative to `src/src/`
of the repository unless they begin with `docs/`.

Contents: [1 System](#1-the-system), [2 Modules](#2-modules-and-the-code),
[3 Runs](#3-runs-bounds-and-what-they-show), [4 Fairness](#4-fairness),
[5 Proofs](#5-what-is-proved), [6 Findings](#6-where-the-documentation-and-the-code-part),
[7 Left out](#7-what-is-not-modelled), [8 Plan](#8-plan).

## 1 The system

One Node or Bun process, one thread. What runs at the same time are
asynchronous functions that give way at an `await`, file operations in the
thread pool, child processes (shell, language server, MCP servers), timers, and
other programs, a second Orcana among them, that use the same files.

| Component | State it keeps | Operations | Correct when |
|---|---|---|---|
| Write layer (`agent/patch-transaction.ts`, `tools/transaction.ts`, `tools/file.ts`) | registry of open transactions, staged files, snapshot journal on disk | create, stage, verify, commit by rename, roll back; the write tools | no lost update, whole commits, rollbacks without residue, journal before write |
| Master plan (`agent/master-plan.ts`, task tool in `runtime/bootstrap.ts`, `agent/mode-contract.ts`) | nodes with status, dependencies and tracker; the current node; the mode | create, activate, add, remove, skip, mark done, node transition, sync of the mode | one active node, dependencies kept, a way on while undelivered, delivery only of a settled plan |
| Planning gate, validator, packets (`agent/planning-gate.ts`, `plan-validator.ts`, `task-packet.ts`) | count of rejections | accept or reject a text, read packets, validate, revise | what is accepted can be worked on, cycles are found |
| Agent loop (`agent/loop.ts`, `agent/round/*`) | round, tracker, last type check, last verifications, obligations, counters, modified files | ask the model, run tools, ripple report, batch type check, track, stops | runs end, answers rest on evidence about the present code |
| Gates, ledger, judge (`agent/gates/*`, `completion-*.ts`, `evidence-ledger.ts`, `flash-judge.ts`, `verification/*`) | block counts, ledger, breaker of the judge | gates in a chain, truth gate, judge, overflow | what one gate saw holds when the answer is given; claims are earned |
| State machine, contracts, routing, telemetry (`agent/state-machine.ts`, `contracts.ts`, `router.ts`, `gates/telemetry.ts`) | state of the run, thinking budget, counts in a file | transition, check, escalate, load and save counts | blocking states still have a way on, trouble is noticed, counts add up |
| Intake (`agent/intent.ts`, `clarification.ts`, `flash-triage.ts`, `research-router.ts`, `context/context-map.ts`) | history, marker of a clarification, map of the project | route, clarify, map, block | answers are heard, a risky run understands what it writes |
| Tool round (`agent/permission*.ts`, `tool-risk.ts`, `tool-execution/policy.ts`) | rate counts, answered calls, mode | preview, allow or refuse, run alone or in parallel, time out | writes alone and by right; every round ends |
| Hooks (`hooks/*`, `agent/journal.ts`) | files read, failures per tool, rules | chain before and after a call, prompts, stop | a refusal has a reason, an answer told as good breaks no rule |
| Shell and sandbox (`tools/shell.ts`, `sandbox/*`) | active sandbox, the one job and its handles, processes, blocked files | check, spawn, time out, dispose | processes in the job end with the run, unless a run was left |
| Ripple engine (`ripple/*`) | program, file list, obligations | compare an edit, find callers, refuse with guidance, merge, resolve | callers of a changed signature are revisited; who obeys a refusal gets on |
| Transcript, epochs, digest, staged files (`agent/context-epoch.ts`, `provider/transcript-manager.ts`, `memory/compactor.ts`, `context/staged.ts`) | the messages, epoch state, three tiers and an anchor, copies of files | sanitise, roll over, truncate, fold, save, resume | every call is answered in the next message; turns stay in order; copies are current |
| Memory (`memory/*`) | knowledge file and full text table, records of reasoning, cold memory | learn, find, prune, rewrite, recall, age | nothing is lost before its time, the best is recalled |
| Sessions (`session/*`, `agent/rewind.ts`, `ui/cli.ts`) | a file or database per session, checkpoints, rewind points | save, load, migrate, resume, /clear, rewind, search | a crash loses no saved message, two back ends answer alike |
| Providers (`provider/*`) | stream under way, attempts | stream, retry, fall back, assemble calls | one whole answer per request, every request settles |
| Models and configuration (`provider/registry.ts`, `multi.ts`, `config/*`, `runtime/bootstrap.ts`) | providers, models, keys, layers | load, merge, choose, build a request | what was chosen is used, what is sent fits who gets it |
| LSP and MCP (`lsp/*`, `tools/mcp.ts`, `mcp/bridge.ts`) | process, buffer, pending requests, slot | start, send, receive, restart, shut down | one server, answers to whom they belong, all calls settle |
| Terminal (`tui/*`) | queue, runs, feed of tools, draft, scroll offset, dialog | submit, cancel, pair events, paste, scroll, ask | no prompt lost, input arrives as meant, results at their calls |

How they interact. A front end takes a prompt, the intake decides what becomes
of it, and the loop calls the provider and then the tools through policy and
hooks. A write tool asks the ripple engine for a preview, opens a transaction in
the write layer and returns a report in the result's metadata; the loop merges
it into the obligations. The tracker of a node is an object shared by loop and
plan, and the task tool edits the plan behind the loop's back. The gates read
the loop's memory and the ledger. The plan, the sandbox, the hooks' state and
the thresholds of the checkpoints are globals of the process and outlive a run;
the knowledge base, the sessions, the telemetry and the configuration are files
that outlive the process.

What is hard here: tool calls that overlap because one has timed out and goes
on; other programs that write between a read, a snapshot and a rename; a crash
between any two system calls of a save; evidence that is older than the code it
is read for; counters that some paths reset and others do not; answers that
carry no identity, so that a late one is taken for another; caches that nobody
refreshes; streams cut anywhere. `PROJECT.json` lists forty hazards at their
lines with the properties that cover them.

## 2 Modules and the code

`PROJECT.json` maps every definition to its lines of source. Each module has its
own variables, so those of one run are explored side by side: the MC module
takes one of them at a time with the others at rest (section 3).

| Module | Models | Explored by |
|---|---|---|
| `PatchTransaction`, `PatchLifecycle` | the write layer, one action per system call; what it promises (abstract) | its own runs |
| `MasterPlan` | the plan, the task tool, the transition, the mode | `MCMasterPlan` |
| `PlanReview` | texts, packets, validator, revision | `MCMasterPlan` |
| `Testimony` | evidence, ledger, judge, truth gate | `MCMasterPlan` |
| `Depth` | state machine, contracts, thinking depth, telemetry | `MCMasterPlan` |
| `AgentLoop` | one run: rounds, gates, judge, tools, stops | `MCAgentLoop` |
| `LineSession` | the line interface's session files, start, migration, rewind | `MCSessions` |
| `SessionStore` | one store on two back ends, and the search | `MCSessions` |
| `Transcript` | messages, epochs, context budget, checkpoints of the loop | `MCSessions` |
| `Compactor` | the digest of a long conversation | `MCSessions` |
| `Knowledge`, `Thoughts` | knowledge base; records of reasoning and cold memory | `MCSessions` |
| `StagedContext` | the copies shown as Active Files | `MCSessions` |
| `LspClient`, `McpBridge` | child processes and their requests | `MCServices` |
| `ProviderStream` | a request to a provider with its retries | `MCServices` |
| `ModelSetup`, `Registry` | choice of model; layers of configuration, request | `MCServices` |
| `ToolOffer` | which tools a request shows | `MCServices` |
| `Workbench` | prompts, runs and messages of the terminal | `MCWorkbench` |
| `ToolFeed`, `Composer`, `MouseFilter`, `Screen` | tool entries, draft, wheel, list and dialogs | `MCWorkbench` |
| `Ripple`, `Guidance` | the engine; the text of its refusals | `MCGates` |
| `ToolGate` | a round of tool calls | `MCGates` |
| `ContextMap`, `Intake` | map of the project; from a prompt to a run | `MCGates` |
| `HookChain`, `Shell` | hooks around a call; commands and sandbox | `MCGates` |
| `FileState` | what was read of a file, and whether it is still so | `MCGates` |
| `*Proofs` | theorems and proofs (section 5) | |

### PatchTransaction

A call is a process with a program counter `pc`. The tools run on one thread:
`thread` names the call inside a synchronous stretch (`createTransaction` to
the end of staging, the commit loop, the restore loop), and no other call moves
while it is held. Between the stretches are the `await`s: the reads, the
`verify` callback, the completion request of edit_fim. Another program
(`ForeignWrite`) and the thread pool (the read of an edit, `FimOpen`,
`FimWrite`) are not bound by `thread`.

The loops of the code are sets of files still to do (`todo`), taken in any
order, with the file between two system calls in `cur`: a rename is a hash
check and then a rename, a restore is an `open` that truncates (content `Torn`)
and then a write. Every system call has a failing action guarded by `Fault`,
with the `catch` that the code has at that place: a commit that throws restores
the snapshots, a restore that throws ends there and the transaction is marked
`rolled_back` all the same (`RestoreSwallows`; `halted` remembers it). `Crash`
ends every call and empties the registry; the disk, the staged files and the
journal stay, and nothing on restart looks at them.

The content of a file is its author: the call that wrote it, another program,
`Original`, `Torn` or `Absent`. A hash is the content it was taken from. That
keeps exactly what the properties tell apart, whose change is on disk, and
assumes that the 16 hexadecimal digits of SHA-256 the code compares do not
collide. As in the code the hash check lets a file pass that is gone.

`PatchLifecycle` is the state diagram of the PR-4.1 comment with what each
state means for the files: content is installed only by a verified
transaction, and a rolled back one leaves nothing unless its undo halted.
`PatchTransaction!ImplementsLifecycle` is its `Spec` under the mapping
`Plain <- {Original, Foreign, Torn, Absent}`, the variables mapped by name.

### MasterPlan, PlanReview, Testimony, Depth

`MasterPlan`: `nodes` is a function from numbers to nodes: numbers are used
again after the largest is removed, as in `addNode`, and the tag of a node is
its identity as an object. `held` is the node whose tracker the loop's gates
read and `mode` the mode contract, both kept apart from the plan as in the
code. `MoveOn` is `removeNode` and `skipNode` moving the current node on;
`SyncMode` is how the mode follows the plan when it is activated and at a
transition; a call of the task tool leaves the mode as it is. `NodeTransition`
is the loop's transition, through `markNodeDone`, `buildNodeReviewGate` and
`activateNode`, with its two tests of a complete plan.

`PlanReview`: a text passes `Refuse` or `Accept` (planning gate, forced pass
after three rejections), its lines become nodes with packets and trackers, and
`Revise` replaces what the model's reply changes. The validator's depth-first
search is written with its path beside the colours instead of the call stack:
`Enter`, `Through` and `Leave` are what `dfs` does to them, `WalkOn` the next of
these, and `CheckCycles` as many of them as there is work (`Ahead`).
`CyclesAreFound` compares what it finds with the definition of a cycle. A line is
what the parser asks of it: item, joining word, files, hints.

`Testimony`: rounds run commands (`RunCommand`) and write (`EditFiles`);
`results`, `evidence`, `proofs` and `compiles` are what the loop remembers of
them, `seen` and `fresh` what really happened. An answer is a set of claims and
of promised criteria; a reply of the judge carries what it says and what it
means, so that reading it by a substring is a step that can go wrong. The truth
gate, the breaker and the confidence (in tenths of logarithms, as integers) are
operators over these.

`Depth`: the transition table, the two kinds of contracts, the choice of a
thinking budget from prompt, failures and errors in a row, and the counts that
one run loads, adds to and writes back, with a crash in the write.

### AgentLoop

`pc` follows a round. A text reply goes `gates`, `external`, `judge`,
`evidence` and then to the next node or the delivery; a reply with tool calls
goes `tools`, `ripple`, `overflow`, `settle`, `track`, `decide`, `finish`. Both
kinds of reply can go back to `open`: every `continue` of the code is a
`NextRound`, every `break` or `return` a `Stop`, and `turn` holds the variables
of one iteration.

What the gates read is what the loop remembers: `typecheck` (lastTypecheck),
`verified`, `ledger`, `owed`, `tracker`, `wrote`, `erred`, `counts`. Beside it
the module keeps the truth: `broken`, whether the project fails to compile, and
`trust`, whether the loop saw every write and no pass it was told of was false.
A write may leave the project compiling or not; the type check of the compiler
reads `broken`, the cached diagnostics of a language server answer anything, a
shell command that names the compiler and ends with 0 counts as a pass whatever
it has done. `broken` is the truth that `DeliveredCompiles` holds the memory to.

Abstractions. A run's setting (intent, checker, whether the triage wants a plan,
whether the user approved one) is fixed at the start and taken from a set of
combinations. The model's replies, the tools' verdicts, the judge and the plan
judge are free choices. Trackers require both kinds of verification, a type
check and a test, and a scope with files. Test proofs come from verification
tools, the type check also from the last batch check. Obligations are kept as
the set of callers that a report names. `options.planText` is left out because
no caller gives it, the errors of the plan validator because the loop does not
read them.

### What a session keeps

`LineSession`: `db`, `json` and `bak` are the files of each session, one field
for each format; the migration and every save are split at their system calls,
and `Crash` may cut the file that is being written. `sqlite` says whether the
process runs on Bun. `saved` remembers what `save` was given, which is what the
properties compare the files with.

`SessionStore` gives both back ends of one store the same calls: `database` has
messages, rounds and checkpoints, `jsonFile` only the messages, `loaded` what
the Node process has in memory. `apart` names why they may differ from then on
(a crash, a restart, rounds that did not rise); until then `PagesAgree` (pages and
search) and `EntriesAgree` (rounds and checkpoints) hold them to "Same public API". A search word is its tokens with a relation for
prefixes and one for substrings.

`Transcript`: a message is author, calls made, calls answered and size, in
hundredths of the context window, so that the thresholds of the epochs and of
the budget gate, which the code computes as shares of it, are numbers of units. What
a run takes of the history it is given is bounded by a number of messages and by one
of tokens, whatever the window (`HistoryMessages`, `HistoryBudget`); the hook's context
and that of the session's start may each add a message (`Injected`). `pc` follows a round
through budget gate, rollover, sanitising, request and results.

`Compactor`: three tiers and the anchor M0 over the turns of a conversation, its
file by way of a temporary one, and `talk`, which tells the conversations apart
when /clear replaces the digest.

`Knowledge`: the lines of the file, a copy per process, and the shared table;
append, rewrite (two system calls) and prune with a kill at any point. A line is
an entry, a torn one, or a torn one without its end; what `filter` keeps of a list
is `Chosen` by the places that are kept. `Thoughts`:
the records with their similarity to a request as numbers, the rating by the
cheap model as a free choice, and the merge into the cold memory by day.

`StagedContext`: a file has a version and names that lead to it; a copy is a name
with the version it was taken of. `Read`, `WriteFiles` and `FailToWrite` are the
loop's calls, with rollbacks, other programs and resumed sessions between.

### What the program talks to

`LspClient`: a process is the number of its start; `live` are those that run,
known to the client or not. `pending` and `clocks` are entries of the map and
timers, `waiting` the callers. `buffer` says whether half a message of the old
process stands in front of what the next one writes. trackFile has no caller at
present; the model lets it be called, as the exported client does.

`McpBridge`: one slot per server holds whoever waits for the next line, whoever
the line is for. `bootstrapMCP` goes through the servers with a timeout on the
connection and none on the list of tools.

`ProviderStream`: a request goes through attempts; what the provider throws is
one of the classes of `classifyProviderError`, what it sends are texts, calls and
pieces of arguments, as true deltas or as snapshots, and the stream may end
cleanly, cut or garbled. `MayAskAgain` is the loop's own retry above the
provider's.

`ModelSetup` and `Registry`: a model's id belongs to the provider that registered
it last; a configuration is a function from paths to values, a deep merge an
override of functions. `CreateRuntime`, `ConfigureModel` and `Restart` are what
the program does with it, `Call` makes a request out of purpose, thinking and
token limit.

`ToolOffer`: a round's request lists tools. `ActiveTools` is the chain of gates in
front of it (disclosure by key words, the read-only and the planning round,
readiness, ripple), each a function from the pair `ctx.tools`, `ctx.activeTools` to the
next, with the short way of a cache-stable run beside it; `Sliced` is the cut at
the provider's limit, `ChangedSection` what the cache tracker says of two
requests in a row. From the third round on the code no longer looks at the
number, so `offerRound` stops there.

### The terminal

`Workbench`: prompts are queued, scheduled (a timer of 0 ms) or started; runs are
numbered; the effects of React that start, cancel and finish them are actions. A
change of the effort is announced and then starts the prompt of the command line again.
`ToolFeed` pairs results with entries by name, as the adapter does, and keeps the
truth in the name of the result. `Composer`: a draft is characters, `#` with a
number stands for a paste. `MouseFilter`: the stream is cut anywhere between two
reads; a key is any sequence of characters, those of a sequence among them. The
terminal reports in the SGR form alone, as the program asks it to. The filter also
takes out the forms of old terminals (`[M` and three characters) and of urxvt, and what it
takes for them was typed. The characters that can stand for a button, a column and a
row are constants (`OrphanButtons`, `WheelButtons`, `Columns`, `Rows`). A click is a report
that does not scroll and is left out.

`Screen`: when the messages change (`RowsChange`), rows come or go above the row at the
top of the view and from it on, and that row stays or goes: the text of a turn grows,
is trimmed and is replaced above the messages on its tools, and old messages are
dropped. A panel changes the height; and the dialogs are the steps from a provider
to a request.

### Tools, ripple and intake

`Ripple`: a file is its declarations (kind, header, asynchronous or not, fields)
and the names it uses. What a report says is computed from two versions of a
file, the program as it was built and the file list as it was read, both with
their age. Callers are found by the type checker or by text, and by ast-grep besides
where it is installed (`AstGrep`). They are counted as lines; the text search stops at
fifty of them, which changes nothing, since more than ten already have the edit refused.
`pending` are the obligations, `asked` and `followed` remember what a caller is owed.
`Guidance` is the text of a refusal as data: which lines it names, what it says to do
with each and which tests it requires, from the four places where tests of a file may
lie (`FindTestFiles`; the test directories and the extensions are merged); the model
obeys, so that what is wrong afterwards is the text's fault.

`ToolGate`: `PreRound`, the preview of a batch, the parallel round, then one call
after the other: `StartCall` goes through the rulings in the code's order (closed
gates, permission rules, risk, rate), `GiveUpCall` is the timeout, after which
the tool goes on and ends late.

`ContextMap` computes what the map of a project shows for a request and the
readiness with its threshold; `Intake` is the head of agentLoop: routing, triage
with its timeout and fallback, clarification, answer, marker in the history.

`HookChain`: handlers before, the tool, handlers after, with a failing handler
anywhere; a text is the set of marks the rules look for. A command (`CommandTools`) may
make and delete any file; the write guard does not ask what it touches. `Shell`: a
command is named by what the patterns find in it; processes, children and exit codes
are state, and a run can end under a command that still runs. Every run opens the one
job there is, by its name, and holds a handle to it (`handles`). The system kills what is
in the job when the last handle is closed, so a run that was left (`left`: at a
clarification, or cancelled) keeps the processes of later runs alive. The system may
refuse to take a process in, and nobody looks at its answer (`taken`).

`FileState`: a fingerprint is the content it was taken of, and a tool takes it after
its `await`, when the file may already hold something else (`inHand` is what the tool
saw). `Checked` is `checkFresh` on one record, `ValidateFreshness` the gate. The tools
fill the ledger; the gate is exported and tested, and no tool asks it yet. It is
modelled as the exported function, because the ledger is written for it.

## 3 Runs, bounds and what they show

| Run | Shows |
|---|---|
| `PatchSafety` | `NoLostUpdate`: two overlapping calls that read the same version do not both succeed. `CommitIsWhole`: a commit swaps its files in together. `NoResidue`, `RollbackRestores`: a rollback leaves nothing of the call, neither on disk nor in a later snapshot, and brings back what the snapshot recorded. `ImplementsLifecycle`: the refinement |
| `PatchRecovery` | `WriteAhead`: what is on disk can be undone from the journal at any moment. `EveryCallReturns`: liveness |
| `PlanEdits` | `ActiveIsCurrent`, `OrderRespected`, `WorkableMode`, `DeliveredIsComplete`, `DoneIsFinal`, `HandsOver` of the plan; `ReviewsAreSound`, which conjoins `PlansAreSound` (accepted plans are clean, cycles are found, packets can be worked on), `VerdictsAreEarned` (claims were seen, checks passed, the judge is heard, failed tests hold) and `RunIsWatched` (a blocking state has a way on, trouble is noticed, counts add up over restarts) |
| `LoopRounds` | `DeliveredCompiles`, `FinishesClean`, `StuckIsBounded`, `BuildsOnPlan`, `Advances` |
| `Sessions` | `SavedStays` (nothing is dropped by migrations and crashes, batches are whole, the back ends give the same pages), `AnswersAdjacent` and `CompactedBeforeBlock` of the transcript, `KnowledgeKept`, `TiersFollow` of the digest, `ConversationKept` (a resumed session is a saved one, a rewind keeps what was earlier, the cold memory ages rightly, the best is recalled, what is shown of a file is what the program knows, the back ends have the same rounds and checkpoints) |
| `Services` | `OneServerInStep`, `AnswerIsWhole` (a batch is handed over whole and said once), `ChoiceHolds` (the chosen model is used now and after a restart), `RequestsFit` (a request fits who gets it, offers the tools its round may have, and no file of the configuration is lost), and `CallsSettle`: liveness of the language server's callers and of a provider's round |
| `Workbenches` | `PromptsKept`, `InputIsMeant` (drafts with pastes; every report of the wheel is taken out and no key that does not look like one), `ShownInPlace` (results at their calls; the reader's row while rows come below it or go above it), `RequestsComplete`, and `ComesToRest`: liveness of the queue |
| `Gates` | `BreaksAreCovered`, `CallersAreServed`, `WritesAlone`, `WritesByRight` (rules, risk, answers, hooks, processes in the job and answers to commands, edits authorised by what was read), and `RoundsEnd`: liveness of a tool round |
| `PatchRejectClobbers`, `ClearKeepsAnchor`, `McpStartup`, `DeltasLost` | violated: section 6 |

How the instances are put together. `MCSessions`, `MCMasterPlan` and
`MCWorkbench` have a variable `part` that names the module which moves;
`MCServices` and `MCGates` start each module with the others in a resting state
from which they have no step. Nothing is lost by that, as these modules share no
variable; a property of one module holds trivially in the parts of the others
and is exercised in its own. All runs are exhaustive; the longest takes four
minutes.

Why the bounds are enough.

*Write layer*: a lost update needs two calls, and a third call is the rollback
that meets what the other two left; two files are the least with a partial
commit; one failure reaches every `catch`, and a second failure in the undo of a
first is what `halted` excuses. In `PatchRecovery` one file suffices because the
journal is written once for all files of a call.

*Plan*: the third node is the first one that a removal can move the plan on to
past a node that waits; the fourth is the one that takes a used number again.
A revision gives the validator one or two new nodes behind those that are
closed, which wait for themselves, for each other, for a closed one or for none
that is there. Five rounds of testimony hold a write, two checks, a judge that is
asked twice and one more answer. The state machine gets four rounds, so that the
limit on errors in a row and the contracts of the last round are reached, in two
runs, the second of which reads the counts the first wrote.

*Loop*: one round each for plan, write, verification and answer, so the run
reaches the end of a node and the last round's exemptions; two calls put a
write before or after a verification, and a rollback after a write, in one
round. The limits of the code (5 blocks, 3 judgements from round 3, 3 rejected
plans) are constants, lowered to 2, 1 from round 1 and 1 so that four rounds
reach them; the theorems hold for every value.

*Sessions*: three ids and two starts let a migration, a save under a new id and
a resume meet; a crash may come in any of them. Two processes share the
knowledge file; two lines are the least in which a torn line spoils its
successor, and a third (`MaxLines`) is explored only for processes that follow
one another, without a table and with one answer (`ThreeLinesAlone`), where a
rewrite can drop a line between two others. The transcript's three rounds of two
calls pass every threshold, with messages of 6 and 28 hundredths of the window.
A history of three messages and forty hundredths lets either limit cut it. The
digest has tiers of one turn, so five turns fill all of them and an anchor.
Recall is explored with up to four records (one more than is shown) on two days,
ageing with up to two rounds per run on one request (`OnlyReasons`), so that
an entry lives through its time. The store has one of its three tables filled
at a time (`OneTable`), since no call touches two. The staged copies are of two files
under three spellings, with three versions and room for two.

*Services*: four starts are a first one, two reconnects and one more that is not
allowed; five requests leave an answer of the old server in the buffer beside a
request to the new one. Two MCP servers of which one fails are enough for order
and for a late answer; two calls share one slot. One retry and two pieces of two
calls show every place where a stream can be cut. Three providers of which one
is a relay and two models that both may offer are what the precedence of
registrations needs; three edits reach each layer. Six tools, one of each category
that can be triggered and two of the base, with five as too few and five as the
most a request may carry, meet both limits.

*Terminal*: three prompts are one that runs, one scheduled and one queued; four
calls of two tools overlap in both orders; three pastes and a history of one
draft reach every way a placeholder is brought back; two turns of the wheel are
two reports that a read can cut apart, and five keys make up bodies of the old form
that are plausible and ones that are not (`[M#M#`, `[M##M`); two heights and two steps, of
rows and of the reader, move the list both ways.

*Gates*: three files are a declaration and two callers, one new; three rounds
are an edit, a follow-up and a verification; the limits on affected files are
lowered so that two callers pass them. A refusal sees up to three of five lines
that use the symbol, or all of them (`MCCallerLists`). The eight answers of the
model pair calls that may run together with calls that may not. Three prompts
are a request, its clarification's answer and the next request. Two runs with two
commands let a command of the first run live into the second. The ledger keeps its
records file by file, so one file is enough; of its three contents one is large
enough to be answered by an analysis, and two others tell a change from a return.

`CHECK_DEADLOCK FALSE` everywhere but in `LoopRounds`: a run of calls stops when
all have returned, a plan when it is delivered, an interface when its user stops,
and the bounds end every part. `AgentLoop` has `Ended` as an explicit stutter
instead, and its run checks deadlock.

Each property of a passing run has a mutant in `PROJECT.json`: a plausible bug in
a mapped definition (a dropped hash check, a restore loop that stops early, a
batch check that is skipped, ...) under which the same run fails. A conjoined
property has one for each module that takes part in it, and often more.

## 4 Fairness

`PatchTransaction!FairSpec` has weak fairness of the steps of every call that
has started: the event loop resumes it, system calls return, and the verify
callbacks of `tools/file.ts` resolve at once. Nothing is owed to a new call, to
another program or to a crash. `EveryCallReturns` needs it: a call blocked by
`thread` is not enabled, so it depends on the holder's loop ending, failures
included.

`AgentLoop!Spec` has `WF_vars(Next)`: the generator runs while its consumer
reads it (`ui/cli.ts` and `tui/main.tsx` both do, to the end). That every run
ends is shown by the action property `Advances`, a rank argument: every step goes
to a later round, to a later stage of the same round or to a later call of the
same stage, and rounds, stages and calls are bounded. It is stronger than
termination on the small instance, needs no fairness, and is a theorem.

The services owe what the platform owes and nothing of what the other side may
refuse. `LspFairness`: timers fire (15 seconds per request, 500 ms of a
shutdown); no answer is owed, and still `LspCallsSettle` holds.
`StreamFairness`: the idle timer of a stream fires; neither bytes nor an end are
owed. `McpFairness`: the connection's timer, the answers of a server that runs
and the reading of what it wrote; even with those `StartupEnds` fails, because a
server may die.
`WorkbenchFairness`: timers of 0 ms fire and a run of the agent ends
(`LoopRounds` shows that it does). `ToolGateFairness`: the loop goes on and a
tool's timer fires; no tool owes a result.

`MasterPlan!Spec` and the specifications of the other modules have none: their
steps are what a model and a user choose to do, and they have safety properties
only.

## 5 What is proved

All theorems are for every value of the constants under the assumptions that the
modules name: bounds are natural numbers, the names of special values are none of
the ordinary ones, settings and tables have the right form. Those that carry an
argument are listed with it. Of the forty statements that passing runs check,
thirty-six have a theorem, all but the four liveness properties (see the end of
this section); `PROJECT.json` says which.

**PatchTransactionProofs.** `TypeCorrect`; `JournalBeforeWrite` (`WriteAhead`) and
`RolledBackLeavesNothing` (`NoResidue`). `WriteAhead` is not inductive: it says
nothing of the calls that are about to write. `JournalInv` adds, per call, what its
place in the code implies (`Loops`, `Journaled`), that content found on disk *or in
a snapshot* has a journaled author (`Authored`, since a restore can bring content
back), and that a file that is torn, or was torn when somebody took a snapshot of
it, has a journaled snapshot that is whole (`TornCovered`). It needs no bound on
crashes or failures. `NoResidue` needs `Exclusion` (a stretch excludes
the others) and `Contained`: the content of a call that has not committed is
only on disk, inside its own commit or restore loop and in files that the loop
still has to undo; no snapshot holds it, because a snapshot is taken in
another stretch. Both together are `ResidueInv`.

`CommitsWhole`, `RollbacksRestore` and `NoVersionBuried` are action properties over
`StepInv`, which adds to `ResidueInv` what every stage of the transaction implies
for its status (`Stages`) and how far each loop has come (`Alone`): a file that is
about to be renamed over holds what the call read, or is gone (`BasedOf`), and the
files behind the loop hold the call's content, or what the snapshot recorded. That
last part needs that nobody else writes (`Undisturbed`: no other program has, and
edit_fim is not used, whose writes run on the thread pool), which the three
properties say themselves.

`LifecycleImplemented` is the refinement, `ImplementsLifecycle`, without edit_fim
(which never enters a transaction): each action is mapped to an edge of the diagram,
an undo, a write of another program, or a stutter (`LifeStep`), over `LifeInv`: what a
call has on disk or in a snapshot, it has since it was verified (`Visible`). `VisibleIsChecked` then carries the promise of the abstract specification
over to the write layer.

**PatchLifecycle.** `VisibleEdits`: in the abstract specification no file
ever shows an edit that was not verified or that was cleanly rolled back.

**MasterPlanProofs.** `TypeCorrect`, `OneActiveNode`, `OrderKept`, `ToolsStayOpen`,
`DeliveryComplete` from one inductive invariant (`Inv`), `DoneStays`,
`TransitionHandsOver` as action properties over it. The crux is that numbers are
used again: a new node may take the number a dependency was written for.
`OrderRespected` only speaks of smaller numbers, and a new node has the largest,
which is what makes it inductive. The lemmas (`ActivationSound` and those on the
first pending node) are about `activateNode` and the search, apart from who calls
them; the search for the least pending node is a choice of a minimum, so no
recursion is involved.

The other theorems of the module are about `Testimony`, `Depth` and `PlanReview`, which
together give `ReviewsSound` (`ReviewsAreSound`). `AnswersAreEarned` (`VerdictsAreEarned`)
from `Earned`: what passed into the ledger or the tracker was seen, whichever way
it took, and the reasons to ask the judge never go away again, so it is passed over
only when it has spoken as often as it may. `FailedTestsRetry` is the arithmetic: the
score of a failed test outweighs all the others together. `RunsAreWatched`
(`RunIsWatched`) from `Watched`: a run that is not over is in a state that may be
blocked, the thinking of a round is the one decided, and the file holds what was
counted (`Counting`, with the lemmas on sums of counts).

`CyclesFound` says that the validator's depth-first search is right on every list of
nodes: it reports a cycle exactly if some nodes of the list wait for one another in
a ring. `Searching` is what holds between two steps of the search: the gray nodes are
those of the path; each node of the path is a dependency of the one before it; the
dependencies that were gone through are black or the next node of the path; and, as
long as nothing is found, every set of black nodes has one that waits for none of
them. An edge to a gray node closes a ring along the path; at the end all nodes are
black, so that without such an edge there is no ring. The work that is left (`Ahead`) becomes less with every step, so `CheckCycles`
takes enough of them. `ReviewsSound` then needs `Reviewed`: the plan at work is a list
whose report says of cycles what is true, and a plan made from a text has none
(`NumberedPasses`, `PlansFromText`); a revision keeps that (`ReviewedKept`).

The induction in it is written out. The library's induction theorems take an operator,
which the provers cannot instantiate; `LeastExists` (a set of naturals that is not
empty has a least member) turns each induction into a least counterexample, and
`RecursionExists` gives the recursive function that counts the steps its equation.

**AgentLoopProofs.** `TypeCorrect` with the counters of gates and judge at most
their limits; `StuckEnds` from `Counters` (a row of rounds with obligations is
counted in full by the gate's counter, which stays below its limit while the run
goes on); `PlanBeforeWrite` from `PlanFirst` (a tracker that waits for its plan has
written nothing); `DeliveryCompiles` from `Compiles`: outside the stretch between
a write and the batch check of its round (`Fresh`), a type check that is not
failed means the project compiles; `FinishedIsClean` from `Gated`: what the
gates saw holds until the answer, through the judge's call; `StepsAdvance`, the
rank argument.

**SessionProofs.** Each theorem is about `MCSessions!Spec`; a step of it is a step
of one module or leaves that module alone.

`CallsAreAnswered` (`AnswersAdjacent`) from `TranscriptInv`: between rounds the raw
history is closed (every message that calls is followed by one that answers all of
its calls), within a round it is closed but for its last message. The lemmas are on
closed sequences: joining two, cutting off a beginning in front of a message
without answers (`RetainedIsAnEnd`, the rollover), dropping the calls of an aborted
stream. Sums of sizes do not matter to it, so no induction is needed.

`ArchivesFirst` (`CompactedBeforeBlock`) is about those sums: the budget gate never
stops a run whose epoch could still have been rolled over. Between rounds nothing is
pending (`NothingIsPending`), what a rollover retains is short (`RetainedIsShort`), and a
size is a number (`SizeIsANumber`, by a least counterexample as above). It rests on
`SystemAssumption`: the gate counts the system prompt and the epochs do not, so the
prompt and the threshold of the rollover together must be at most the 60 hundredths
of the window at which the gate begins to act. With a longer system prompt the
property fails, and TLC shows it.

`TiersHold` (`TiersFollow`) from `CompactorInv`: the tiers are the last turns in
order *in memory and in every file* (`InTiers`), since a resumed session takes its
digest from a file. `LastComesIn`, `FirstLeaves`, `GistComesIn` and `GistLeaves` say
what one turn does to a tier.

`KnowledgeStays` (`KnowledgeKept`) from `KnowledgeInv`. The property is about the file
alone. It is kept because the copy of the process that is there covers everything
that was learned (it is what the file is written anew from), because the temporary
file that is renamed is that copy (`OneKeepsAll`), and because an entry is covered
by one that says the same and *lives at least as long* (`Outlives`): a fact that is
learned again becomes younger in memory and not in the file, and pruning by age
would otherwise break the argument. `PlacesAreCounted` is the lemma on `Chosen`:
each place that is kept has its number.

`WhatWasSavedStays` (`SavedStays`) from three invariants. `LineInv` says per place in
a save or migration what the files still hold (`AtWork`), that a file is retired once
(`RetiredOnce`) and that numbers not given out have no files; its lemmas are one per
system call, `SavedMessagesStay` its part of the theorem. `StoreInv` numbers the
batches, so that a new one meets no row that is there; `PagesInv` says that file and
memory of the Node process equal the table until a crash. The paging of both back
ends is then the same window of the same list (`SamePages`).

`WhatWasSaidIsFound` (`ConversationKept`) has six parts, each with its invariant.
Sorting is written by ranks (the place of a row is the number of rows in front of
it) and not as a recursion, so that `RanksCount` and `RankIsTaken`, two lemmas on
strict orders of a finite set, say all that is needed of it.

- `RewindKeepsEarlier` from `AloneInv`: in a process that began with an empty history
  the prompts up to a message, with those given before the start, are at most its
  number (`Counted`). Cancelled plans leave gaps in the numbers, earlier rewinds
  take away the end of the history, and both keep the bound; the message cut at is
  the first with more prompts than rounds to keep (`TruncatedIs`, `EarlierIsKept`).
- `ResumeFindsSaved` from `ResumeInv`: the rows of every file of an id were saved in
  it, an old file has rows, and an id in which something was saved and whose old
  file is gone has a database *with* rows. Between the two steps of a migration or
  a save this needs `InHand`: what is about to be retired has reached the database.
- `ShownIsKnown` from `StageInv`: a copy of a name that nobody touched behind the
  program's back is that of the file (`CopiesKnown`), through refused writes,
  rollbacks, other spellings and restarts.
- `EntriesAgree` from `EntriesInv`: as long as one program had the session, the
  checkpoints of the database rise in number and in the order of their saving, and
  memory holds the same ones in one order (`InOneOrder`); sorted they are equal and
  the latest of one is the first of the other.
- `BestIsRecalled` from `ThoughtsInv`: whatever stands before a record in the ranking is
  like the request at least as much, so the first three are the best. `ColdMemoryAges`
  needs no invariant: it is what a merge of insights drops (`MergeAges`).

**ServicesProofs.** `LspServers` (`OneServerInStep`) from `LspInv`: at most one
process lives, and none while a reconnect timer runs; what the client waits for
was asked of the process it knows; an answer to "open" on the wire comes from a
server that has opened the file. Without the last two parts the property is not
inductive: a late answer could mark a file as open that only an old server has
opened. `LspTypes` and `McpTypes` are the type invariants.

`AnswersAreWhole` (`AnswerIsWhole`) from `StreamInv`: a request is asked again only
while nothing was handed on (`phase = "sleeping" => ~unsafe`), so the texts of all
attempts but one are empty; with snapshots the arguments kept of a call are those
last sent. `ChoicesHold` (`ChoiceHolds`) from `SetupInv`: the file, as long as nobody
spoilt it, holds what was picked, and every model has at most one owner, which
offers it. `EveryRequestFits` (`RequestsFit`) from `RegistryInv`: whatever layers of
configuration are written, the effective one has models and limits for each
purpose, because a layer overrides a leaf and never takes one away, and from `OfferInv`:
in a cache-stable run the list of tools is the same one from its first request on.

**WorkbenchProofs.** `PromptsAreKept` from `Placed`: what was submitted is in one place
(queue, timer or started), the queue without repetition, and the places together
are what was typed. It assumes that prompts and answers to a clarification can be
told apart. `RequestsAreComplete` from `DialogInv`: what is chosen is listed, and what
is listed as configured has its provider. `ShownStaysInPlace` from `FeedInv` (entries
and calls of a batch are in step, name by name, while every call is answered) and
`ScrollInv`, where the offset from the end and the reader's row are two views of one
position: rows that go above it change its number and leave the offset, rows that come
below it change the offset and leave its number, and any other change is one that
`shaken` excuses.

`WrittenAsMeant` (`InputIsMeant`) from `ComposerInv` and `MouseInv`, for any texts, keys and
reads. `ComposerInv` says of the draft, of the draft that was set aside and of every
draft in the history (`Drafted`) that it expands to what was meant unless a
placeholder was broken, that its placeholders have numbers that were given out
(`Known`), and that no block has one that was not (`IdsBelow`): so a block that is added
changes nothing of what the others mean (`KnownExpands`). `PasteExpands` is the step that is
hard: the code finds the place of a pasted text by what the draft has in common
with the one before, which may be another place than the cursor's, and the text that
is put aside may be another than the one that was pasted (`PartedBy`); what the two
make up is the same. That `Expand` is computed from left to right and by pieces
alike needs that the function `FlattenSeq` recurses to exists (`FlattenUnfolds`), by the
least step without one. The theorem takes over one bound of the model: a draft gets at
most nine pastes (`MaxPastes \in 0..9`), so that the number of a placeholder is a single
digit; the code has no such limit, and numbers of two digits are not covered.

`MouseInv` relates what was handed on (`given`), what is held back, and what is still in
the stream to what was typed and turned (`Flows`). `Left` takes every sequence with its
escape character out of a stream; what is typed is always the keys that were
handed on, followed by what is `Left` of the rest, and the steps that scrolled and
the sequences in the rest are the steps of the wheel. A sequence without its escape
character may only stand at the front, behind an escape character that was handed
on (`EndsTorn`). `FlowRead` shows that a read keeps this, by where it ends: between
sequences (`ReadWhole`, where `NoneArises` says that what is held back and what comes make
up no new sequence: it would stand in what the user typed), in a sequence (`ReadMiddle`)
or before the end of one that has lost its escape character (`ReadFront`). `FilterIs` says
that the regular expressions of the filter take out what `Left` does, and `CutFront` that
what is held back of a sequence is all of it that was read, but perhaps its escape
character. The theorem is about keys of any characters, with pastes and keys that
contain those of a placeholder or of a sequence, unless what the user typed looks like
one of the forms (`LooksLikeMouse`). The code takes it that nobody types a body
(stdin-filter.ts:44); for the three characters of the old form that is a guess about
the terminal's size.

**GateProofs.** `BreaksCovered` (`BreaksAreCovered`) and `CallersOwed` from
`RippleInv`, which says what reports are made of and that whatever is owed comes
from an earlier round; `WritesRunAlone` (`WritesAlone`) and `RunsRightly` (`RunsByRight`) from
`RoundInv`, which ties the fate of every call of a batch to its place, says that a
parallel round is made of calls that read, that a call the preview allowed has
passed the rules, and that the write guard knows no file as read whose content
the model has not or will not be given in this round; `RippleTypes`, `ToolGateTypes`.

`CallersServed` (`CallersAreServed`) and `WritesRightly` (`WritesByRight`) are about
`MCGates!Spec`, over all eight modules of the run. They add `GuideInv` (what was
named is what the refusal lists, and a first test place that is found is a test of
the target: `FoundAt`, `FoundBefore`), `IntakeInv` (every run knows the prompt it was opened
with, and an open clarification is the last thing in the history), `HookInv` (what is
in hand between two handlers is what the last one left, and only tools that edit
have written) and `ShellInv` (runs and processes are numbered as they start; whoever
holds the job open is the run that goes on or one that was left, and with nobody
nothing in it lives; a command without an answer is in hand or of a run that was left) and `LedgerInv` (`LedgerKnows`: a record's baseline is the
content last noted, and a record that is fresh in full was noted whole, unless it
lapsed). `NoRules` among the rule sets (`RestAssumption`) is
the project without rules in which the other modules rest.

*Only model-checked.* Liveness under fairness (`EveryCallReturns`, `CallsSettle`,
`ComesToRest`, `RoundsEnd`) is beyond the prover. Every safety property that a run
checks has a theorem.

## 6 Where the documentation and the code part

Four runs are expected to fail, each on what a comment or a description in the
code promises.

1. `PatchRejectClobbers`. A refused commit restores the snapshots of *all* files
   of the transaction, also of those it never renamed. The refusal that protects
   another program's change (`agent/patch-transaction.ts:11`) then overwrites it
   with the older snapshot.
2. `ClearKeepsAnchor`. /clear replaces the digest and keeps the anchor M0 of the
   conversation that was cleared; it stands in front of every later prompt
   (`ui/commands/definitions.ts:77`).
3. `McpStartup`. An MCP server that dies between its answers to initialize and to
   tools/list keeps the program from starting (`mcp/bridge.ts:92`), against
   "Failed connections are logged but don't block startup" (`mcp/bridge.ts:42`).
4. `DeltasLost`. A true delta that repeats the characters before it is taken for a
   repetition and dropped, and the tool runs with other arguments than were sent
   (`provider/openai.ts:398`).

The modules state more such promises as definitions that do not hold; each was
refuted by TLC on the instance of its module, none is part of a run. The comment
on each quotes the promise.

| Module | Stated, not holding |
|---|---|
| `PatchTransaction` | `FimGuarded`: edit_fim writes what it computed from a read before a network request, with no base hash |
| `MasterPlan` | `VerifiedMeansGated`: after the task tool moved the plan on, the gates pass on the old node's tracker and the new node is marked as verified (`agent/loop.ts:496`) |
| `PlanReview` | `ErrorsBlock`: errors of the validator are only shown |
| `Testimony` | `TestsWereRun`, `TypesWereChecked`, `ClaimsAreFresh`: what counts as evidence for a claim is wider than the claim; `TruthPasses`: without a tracker true claims are held against the answer; `ReadAsMeant`: "not satisfied" with a blank reads as satisfied |
| `Depth` | `WishIsGranted`: request_deeper_thinking has no effect on the next round; `FatalEnds`: a fatal contract holds the final answer and does not end the run; `RepairIsLeft`: no transition leaves the state REPAIR in the way a round asks for it |
| `AgentLoop` | `ApprovedPlanIsKept`: nobody passes the approved plan back (`agent/loop-types.ts:49`); `VerifiedStopIsVerified`: the stop is decided before the type check of its round |
| `LineSession`, `SessionStore` | `ResumedAsSaved` and `CorruptIsTold`: a torn file is an empty session that the next write replaces; `RewindRestoresFiles`: a point names no files; `LastPointIsLoaded`: rounds start again in every process; `SearchFindsAll`: the search over sessions loses the last word of a query that is no full text query |
| `Transcript` | `ResultsHaveCalls`: truncation may leave a result without its call |
| `Knowledge`, `Thoughts` | `NotServedAgain`: dropped entries stay in the full text table; `AgedIsDegraded`: aged entries are dropped, not degraded; `InsightsOutliveRun`: both front ends give the next run a memory without them |
| `StagedContext` | `ShownIsOnDisk`, `WrittenIsShown`: a second read does not refresh a copy; among equals the first that were loaded stay |
| `LspClient` | `ShutdownIsFinal`: the exit that shutdown causes may start the server again (`lsp/client.ts:143`) |
| `Registry` | `KeyForSession`: the check at start asks for the default provider's key, not for that of the model's |
| `Workbench`, `ToolFeed`, `Composer`, `MouseFilter`, `Screen` | `OneAgent`: a prompt can start while the loop of a cancelled run goes on; `PairingIsFifo`: after a refusal results stand one entry too early; `PastesSurvive`: typing at a placeholder loses the paste; `NoStrayEscape`: an escape character at the end of a read is handed on; `ViewSurvivesPanels`: a panel that opens and closes moves the reader, and so do rows that come above the reader's (the text of a turn grows above the messages on its tools) or go below it (a long live output is trimmed, the final text replaces it): `shaken` in `ViewStands` |
| `Ripple`, `Guidance` | `CallersAreCurrent`: the program is built once and the file list is five seconds old; `CascadeIsAccepted`: no edit that removes an exported symbol is accepted, whatever it takes along; `CallersAreNamed`: up to ten callers are accepted and six are named; `CallsAreAwaited`: a line that matches another pattern first is not told to await |
| `Intake` | `PromptsStandAlone`: the marker of an answered clarification joins every later prompt to it; `BlockedUntilUnderstood`: the block is computed once and never lifted |
| `HookChain`, `Shell` | `VetoIsExplained`: the journal's report is dropped; `StopIsTold`: two ways out of a run dispatch no Stop; `DisposedIsDead`: a sandboxed process "will be killed when cleanup() is called" (`sandbox/sandbox.ts:110`), which nobody calls; dispose only closes a handle, and a run that was left keeps the job open; `BlockedIsUntouched`: a command that timed out goes on writing; `GoodIsZero`: a command ended by a signal has exit code 0 |

`Knowledge!Findable` (what a process knows it also finds) holds and is in no run: it
follows from one step of the store. Also met, without a definition: `docs/ripple-engine.md:279` says that the
pre-round gate blocks write tools, the gate only warns (`agent/gates/pre-round.ts:97`);
tool errors are never forgotten within a run (`agent/loop.ts:1307`);
`compactHistoricalToolResults` compares a count of assistant messages with one of
all messages and never compacts; the chain lets a planning round of a run that is
not ready, or that ripple stops, see the reading tools again after the plan gate
took all away ("Plan-only round: no tools at all", `agent/gates/pre-round.ts:47`); "truncated baseline cannot authorize
edits" (`file-state/freshness-gate.ts:40`) does not hold of a record that was found
stale or deleted in between and whose file came back, because the record forgets
that it was of an analysis (the last clause of `EditsAreInformed` says so); after three calls of the judge a run may finish
over its last refusal (`JudgeIsHeard` says so in its second disjunct); the file
fallback keeps the older of two checkpoints with one round number; session limits
are cut in directory order before they are sorted; a piece of a tool call that comes
under the index of another call replaces it, and the earlier call is lost without a
word (`provider/openai.ts:302`; `ReplacesCall`); /clear on Bun opens a database of the
empty id, and as long as that is the newest session, "last" resumes nothing (`blank` of
`LineSession`); `[M` and three characters that could be a button, a column and a row is
taken out of what the user types, in one read or over several. The test that keeps
`[Maybe]` (`tests/tui/stdin-filter.test.ts:465`) passes because `b` would be a row beyond the
edge of a terminal with fewer than 64 rows (`isPlausibleDec1000MouseBody`).

## 7 What is not modelled

`PROJECT.json` lists every component with what is left out of it. In short:

*Code the program does not use.* `evolution/`, `agent/monitor.ts`,
`structured-output.ts`, `rule-capsule.ts`, `replay-harness.ts`, `meta-agent.ts`,
`gate-layer.ts`, `evaluator/plan-judge.ts`, `memory/context-memory-os.ts`,
`memory/distillation-gate.ts`, `sandbox/capability.ts`, `sandbox/fim-guard.ts`,
`runtime/controller.ts` and `event-bus.ts` are imported by tests
only, or by nothing. Within modelled files the
same holds of `markNodeBlocked`, `blockTask`, `autoUnblockByRipple`,
`appendDeltaMemory`, `forkStableContext` and `saveMCPConfig`. `revisePlan` is
modelled although only tests call it, because the validator is written for it, and
the gate of `file-state/`, because the ledger is.

*Text.* Prompts, formatting, redaction, rendering, colours and layout; parsing of
TypeScript and of compiler output, whose result is a file's declarations, a mark
or a verdict; matching of words, which is a table of the instance; the reading of a
typed line as a command or a prompt (`runtime/control-plane.ts`), whose outcome is the
action that is taken. Clicks of the mouse. The job object of another Orcana, which goes by
the same name.

*Wrappers.* Search, git, web and code graph tools: one call in, one text out.
`ToolGate` sees them as calls that may fail or hang.

*Across modules.* Modules of one MC module share no variables. Where they meet in
the code, one of them is a free choice of the other: the loop's tool calls end in
any way that `ToolGate` and `PatchTransaction` allow, obligations in `AgentLoop`
name any callers, and the diagnostics of `LspClient`'s server may say anything.
A verification that passes where it should fail is outside what the loop can know;
`trust` says so in the property.

## 8 Plan

The core came first, in the order of what it can damage: the files of the user,
the plan that directs the writes, the loop that decides they are done. Then what a
session keeps, what the program talks to, what the gates let through, and the
terminal. What is left, in order:

1. The composition of `ToolGate` with `Ripple` and `PatchTransaction` (a write
   call from its preview to its rename with obligations), and of `Workbench` with
   the outcomes of `AgentLoop`, as refinements of the free choices by which they
   know each other.
2. Several files in one ledger with a gate that a tool asks, once one does.
