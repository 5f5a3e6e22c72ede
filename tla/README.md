# Formal models of vage

TLA+ models of the parts of `vage` where an error would be hard to see in a
test: durable human-in-the-loop interrupts, the DAG executor and its admission
control, the ReAct loop with its checkpoints, budget and session memory, what
goes into its prompts, its guards and tools, the stores of a session with their
index and hooks, workflows and combined agents, evaluation, MCP calls, and the
asynchronous task store of the HTTP service. TLC checks every module on a small
instance. All safety properties but four are also proved with TLAPS, for every value of
the constants, from interrupts and the DAG executor to the files of a session, tools,
guards, workflows and evaluation; section 4 says which four are not, and why.

`PROJECT.json` holds the machine-readable side: which lines each definition
translates, every run with its properties, a mutant of the code for each
property, the hazards the properties are aimed at, and the findings.

    tlc -workers 2 -config <X>.cfg <MCModule>      # a run
    tlapm <Component>Proofs.tla                    # the proofs about it

## 1. The system

vage is a Go library for agents that call models and tools. What its packages
keep, do and share:

| Component (`src/`) | State | Operations | Hard behaviour |
|---|---|---|---|
| `interrupt` | record: pending calls, decisions, audit of who decided, status, lease (owner, expiry) | Create, SubmitDecisions, AcquireLease, ReleaseLease, Complete, Delete, Get, List | two submitters, two resumers, expired leases, several processes on the same files, crash in the middle of a write |
| `agent/taskagent` interrupt | the request being resumed, the lease it holds, the policy fingerprint | suspend, ResumeInterrupt: submit, look up successor, lease, compare policy, execute or supersede | state read before the lease and used under it, crash between two writes, lease expiry under a running batch |
| `agent/taskagent` loop | message list, iteration, token tracker, next message key | Run, RunStream, Resume, ResumeInterrupt; turn, gate, tool batch, checkpoint, finalisation | resume after a crash at any point, nested suspensions, runs of the same session that interleave |
| `checkpoint` | sequence of checkpoints per session, counter, listeners | Save, Load, LoadLatest, List, Delete | file layout, sequence numbers |
| `orchestrate` executor | status, pending count, running goroutines, completion channel, checkpoints | schedule, run with retries, settle, abort and drain, compensate, recover, replay | completion races, teardown that waits for exactly the right goroutines, partial failure |
| `orchestrate` backpressure, resources | limit, active count, wait queue; per tag a semaphore and a token bucket | acquire, release, adapt; take and give back per tag | cancellation racing a hand-over, limit lowered while full, deadlock over several tags |
| `orchestrate` loop, conditional, spawn, aggregation, priorities; `agent/routeragent`, `workflowagent` | iteration, responses so far, spawned children | run a sequence, a loop, a branch, a route, children | bounds, a child that fails or is suspended among others, duplicate child IDs |
| `workflow` | typed fields with a version, pending nodes, batch results | validate the graph, run a batch under a limit, merge | concurrent writes of one field, a failed or cancelled node in a batch |
| `service` | map of tasks with status and cancel functions, agents | submit, poll, cancel, stream | cancellation racing start and result, eviction from a full store, clients that leave a stream |
| `hook`, `session` hooks, `vector/archivehook` | sync hooks, async hooks with queues, event log, archive | Dispatch, Start, Stop, consume | full queue, stop or rollback racing dispatch, a session that does not exist yet |
| `memory` | entries per tier under scoped keys | list, store, clear, promote, archive, expire; compress | one flat store for all scopes, partial promotion |
| `context` | the sources of a prompt, the report of a build | collect, compress, trim, report | budgets in three places, failing sources |
| `session`, `workspace`, `checkpoint` files | meta, events and state of a session, metrics, files | create, append, update, delete | stores that share a directory, a lock dropped while others wait for it, crash in an append |
| `session/tree` | tree of nodes with pinned and promoted flags, cursor, promotions in flight | CreateTree, AddNode, UpdateNode, DeleteNode, SetCursor, DeleteTree, PromoteNode, background triggers | a promotion plans, calls a model without the lock, and commits to a tree that has changed |
| `session/tree/vectorhook`, `vector` | documents by node, dimension of the collection | index, remove, search | background work that overtakes later writes |
| `guard` | chain, text as rewritten so far | check messages and tool results | order of guards, refusal after a rewrite |
| `tool` registry, `skill`, run parameters | registered tools, active skills, frozen tool set | register, activate, freeze, offer | changes between freezing and use |
| `tool` edit, read, write, todo, agenttool, askuser | file texts, read tracker, path locks; todo lists; child sessions | read, edit, write; apply, clear; mint, run | tool calls of one batch that run concurrently |
| `mcp`, `security/credscrub` | client session, scan rules | connect, call, close; scan, redact | overlapping hits, cut texts |
| `eval` | verdict, report of a batch | evaluate, run a batch | cases that finish in any order, cancellation |
| `schema`, `prompt`, `sessionview` | data, templates | render, view | none of their own |

How they interact. A **task agent** loads the **session memory** through the
**context** builder, runs model turns and tool batches, saves a **checkpoint**
after each batch, and stores its messages in memory when it ends. A tool call
that needs approval ends the run with an **interrupt** record; a host collects
decisions and calls ResumeInterrupt, possibly in another process, possibly
several times at once. The **DAG executor** runs agents as nodes; each node
goroutine passes the **backpressure** controller (or semaphore) and then the
**resource** limits of its tags, posts its completion on a channel, and the
event loop settles it. The **service** wraps an agent's run in a task that
clients poll and cancel. **Guards** look at the input, each tool result and the
answer of a run. **Hooks** follow its events into the session's log, its metrics
and the vector archive; the decorator of the **session tree** keeps a vector index,
and the tree's view goes back into prompts.

## 2. Modules

| Module | Code | State and actions |
|---|---|---|
| `InterruptLogic` | `interrupt/logic.go`, `interrupt/record.go` | pure transitions on one record: `ApplyDecisions`, `AcquireLeaseOn`, `ReleaseLeaseOn`, `CompleteOn`, `NewRecord` |
| `InterruptStore` | `interrupt/mapstore.go` (and the contract in `store.go`) | `store`, the clock `now`, and history: `granted` (until when each owner was told it may work) and `credits` (how often a decision was acknowledged as committed). One action per method, atomic as under the store's mutex |
| `…Proofs` | | lemmas and theorems about the module they are named after or about the parts of a run (`PersistenceProofs`, `ToolCallProofs`, `AgentProofs`, `OrchestrationProofs`, `HostProofs`); section 4 |
| `InterruptFileStore` | `interrupt/filestore.go`, `filelock_*.go` | each call as the steps of the code: mutex, file lock, second look at the context, read, apply, open, encode, rename, unlock; `Cancel`, `Crash` of a process, I/O errors. Refines `InterruptStore` |
| `InterruptResume` | `agent/taskagent/interrupt.go` | extends `InterruptStore`: attempts of ResumeInterrupt with a program counter between any two store calls, policy changes, failing store calls, crash, clock |
| `DagExecutor` | `orchestrate/dag.go`, `compensate.go`, `checkpoint.go`, `priority.go` | node status, pending counts, goroutines, completion channel, phase of the loop, checkpoints; `Restart` runs again from the checkpoints |
| `Backpressure` | `orchestrate/backpressure.go` | limit, active count, FIFO queue of waiters |
| `NodeAdmission` | `orchestrate/resource.go`, the admission part of `dag.go` | extends `Backpressure`: semaphores and token buckets of the tags a node goroutine passes once it holds a global slot |
| `ReactLoop` | `agent/taskagent` run loop, `checkpoint.go`, `budget.go`, suspension and resumption in `interrupt.go`; promotion in `memory/manager.go` | runs on one session: context (entry, messages, iteration, tokens), latest checkpoint, interrupt records, session memory |
| `ServiceTasks` | `service/task.go`, async part of `service/handler.go` | task store, with the order of last updates, and one goroutine per task |
| `StreamRelay` | stream part of `service/handler.go`, `agent.RunToStream` | context, producer, stream, forwarding goroutine with its channel, handler, what the client was sent |
| `SessionTree` | `session/tree`: `mapstore.go`, `promotion.go`, `triggers.go`, the write failures of `filestore.go` | nodes with parent, children and flags, root, cursor; what each goroutine does (looking for a promotion, about to promote, waiting for the promoter), parents in flight |
| `TreePrompt` | `context/sources_tree.go`, the filtered view of `session/tree` | extends `SessionTree`, no state of its own: path, children and folded nodes as a prompt shows them |
| `SessionFiles` | the file stores of `session`, `session/tree`, `checkpoint`, `workspace`, `context/build_report_sink.go` | directories and files of one session, the lock map of each store; calls in steps (lock, read, write temporary, rename, append), `Crash`, I/O errors, deletion by another store |
| `TreeIndex` | `session/tree/vectorhook`, `vector/mapstore.go` | summary of each node, document of each node, the collection's dimension; embedding work under way, synchronous and in the background |
| `Hooks` | `hook/manager.go`, `session/hook.go`, `session/metrics_hook.go`, `vector/archivehook` | events being dispatched, channels, consumers, the log, the archive and the metrics they write; registration, Start with rollback, Stop |
| `MemoryTiers` | `memory`: `base.go`, `keys.go`, `mapstore.go`, `manager.go`, `session.go`, `longterm.go` | one map from physical keys to entries; operations of each tier of each agent and session, bulk moves in single steps |
| `Compression`, `ContextBuild` | the compressors and the budget in `memory`; `context/builder.go` and its sources | one step from any short history, budget and answer of the summariser to the result; one step per built prompt from any contents and failures of the sources |
| `Guards` | `guard`, `agent/taskagent/guards.go` | a text of marked words on its way through a chain, and what its caller does with the outcome |
| `ToolScope` | `agent/taskagent/params.go`, `skill_inject.go`, `skill`, `tool/registry.go` | registered tools, skills and activations; a run that resolves its parameters, freezes its tools, prepares, suspends and resumes while the host changes them |
| `FileTools` | `tool/edit`, `read`, `write`, `toolkit` locks, tracker and atomic writes | text of each file, path locks, read tracker; calls in steps |
| `SessionTools` | `tool/todo`, `tool/agenttool`, `tool/askuser` | todo list and version of a session, events on their way, child sessions and the calls that made them |
| `McpCalls` | `mcp/client`, `mcp/server`, `security/credscrub` | the client's session and one call: scan, send, scan, handle, scan, deliver, scan |
| `Workflow` | `workflow` | every graph of a few nodes, its writes, the committed state and version, the batch under way |
| `Combinators` | `orchestrate/loop.go`, `conditional.go`, `spawn.go`, `aggregator.go`, `topo.go`, `priority.go`; `routeragent`, `workflowagent` | the runs made so far with their outcomes, children and their results; priorities as functions of a graph |
| `Evaluation` | `eval` | the verdict on a case, over all short lists of tool calls; a batch with its goroutines, cancellation and report |
| `MC…` | | constants of the runs. `MCSession`, `MCToolCalls`, `MCAgent`, `MCOrchestration`, `MCPersistence` and `MCHost` put several parts into one run: the parts share no state, so one of them moves in a behaviour while the others stand still (variable `part`), and nothing of what any of them can do is lost |

Operators named `<Definition>_<Change>` before a definition are the mutated
forms listed under `mutants`: what the code would be with a plausible bug.
They are used by no specification.

### Abstractions

* **Interrupt.** A verdict, an owner, a call is a model value. A record's `rev`
  counts writes (the code's `UpdatedAt`), capped by `MaxRevision`. `Get`/`List`
  are reads. Record versions and their upgrade are data only.
* **File store.** The file lock belongs to the process and vanishes with it, as
  `flock` does. A reader of a half-written file would see `Partial`; the temporary
  file is written in two steps so that such a state exists. A cancelled queueing call
  is the only one that looks at its context again.
* **Resume.** Each store call of an attempt is atomic (that is what the file
  store refines), or fails: with an I/O error, or because its context is cancelled
  (`CallFails`). An attempt whose failing call was the one to end its lease is recorded in
  `unended`. A host deleting a record under an attempt is left out.
  The model turn after the batch is one step, `Loop`; `ReactLoop` has its detail.
* **DAG.** A runner succeeds, fails, suspends or notices cancellation; results are
  not modelled. Saving a checkpoint may fail silently, as in the code. Recovery runs
  in the event loop. Dynamic spawn and aggregation are in `Combinators`; the timeline is
  left out.
* **Admission.** The plain semaphore is the backpressure controller with
  min = max, which has the same entry and exit conditions. Latency only chooses
  whether the limit rises, falls or stays. Time is the refill of a bucket by one
  token; a token is `Unit` parts.
* **ReAct loop.** Run and RunStream share one entry; each request has its own limits
  (`RunParams`), Resume from a checkpoint those of the agent (`AgentParams`). A message is a
  kind and a cost. Of the session's history only what matters to the pairing is kept: tool
  calls an earlier run left unanswered go before the request as one item, `open` (`History`).
  Only the latest checkpoint is kept, which is the one Resume loads. Promotion stores any
  subset of its messages in one step (the code stops at the first failing write, in map
  order). Decisions and superseding are in `InterruptResume`, guards in `Guards`, the
  resolution of run parameters in `ToolScope`; parallelism inside a tool batch and events are
  left out. A middleware that answers instead of the model is `ShortCircuit`.
* **Service.** An agent's run returns a result or an error, sooner or later. No two
  updates of tasks happen at the same instant of the clock: `order` is the order of
  `UpdatedAt`, in which an update moves its task to the end.
* **Session tree.** A node's text is the number of its rewrites, a summary the set of
  texts it was made from; `changed` remembers the children updated since a promotion's
  snapshot. The decider is the application's and may ask for a promotion at
  any time. Operations are atomic as under `MapTreeStore`'s mutex. A promotion has three
  steps (trigger, plan, commit or failure) and anything may happen between them.

* **Session files.** The content of a file is the set of calls whose writes it holds; a
  temporary file that was not renamed is nothing, since the next write truncates it. A
  behaviour takes its calls from one store, together with the session's own Delete or, for
  metrics and reports, its Create (`OpSets`): stores meet in the directory they share and nowhere else. A store that
  forgets a lock others wait for is recorded in `forgotten`, one whose files a failed Create of
  the session store removed with the directory in `wiped`.
* **Index.** A summary is a version number, an embedding its dimension. Work of one node
  that overlaps other work of it, failed, or came from a background promotion is recorded in
  `outOfOrder`.
* **Hooks.** One synchronous hook (metrics) and two asynchronous ones (the session's log,
  the archive) stand for all: their filters differ. A fault is a failing append or
  archive, at most `MaxFaults` of them.
* **Memory.** A key and an ID are short sequences of characters, one of which is the
  separator, because the property is about the conversion between them; `EncodeScopeID` is
  any injection into texts without the separator, as base64url is. Only the entry shown,
  its age and its tier matter.
* **Compression, context.** A message is a role, a length and a place in the history; the
  estimate is the code's (length over four, rounded up, plus a constant). A summariser
  returns a text of any given length or fails.
* **Guards.** A text is a sequence of words that are plain, personal, refused, or hits of
  low or high severity; a pattern either matches a word or does not.
* **Tool scope, tools.** Names only. A handler's work is one step. An edit replaces
  whole words; a write tool call writes its own name.
* **MCP.** A text is a sequence of letters in which a rule's match is a run of secret
  letters, or one after a key word within `KeyWindow`. The server hands over the arguments as
  scanned or, to an agent called without `input`, as they came (`raw`); the text of a handler's
  error goes back unscanned. The transport is external: a call
  arrives once or fails.
* **Workflow, combinators.** A runner responds, fails, suspends or, under a spawn, returns nil
  without an error; messages are the numbers of the runs they come from. A workflow node
  writes any set of fields.
* **Evaluation.** Scores are fractions of small numbers (of a part of a composite: none, half or
  full, whether it passes or not); text comparison is a free choice.
  A concurrent batch writes one slot per case; once every goroutine is done, the slots are
  read one per step, as the loop after `wg.Wait` does.

## 3. Runs

| Run | Module / cfg | Shows |
|---|---|---|
| `interrupt_store` | MCSession / Session | *Records:* a record becomes ready only when every flagged call is decided and stays decided; at no time do two owners both have the right to work; a decision is acknowledged as committed to exactly one submitter and never changes; the status moves only along the documented edges. *Files:* every store of the session directory keeps what it acknowledged, over crashes, failed writes and each other's deletions, unless it forgot its lock or a failed Create of the session store took its directory; checkpoints are numbered in order; the event log loses at most what a cut append spoils. *Index:* a document is that of the node as it is. *Tools:* the todo event with the highest version carries the list; each sub-agent has a session of its own that leads up to the host's. *Memory:* no call reaches into another scope |
| `interrupt_file_store` | MCPersistence / Persistence | *Records:* with two processes, crashes and I/O errors, every change of a file is one step of the atomic store; a call cancelled in the queue writes nothing; mutex and file lock are always held by a live call that will give them up. *Hooks:* what an asynchronous hook accepted is handled once and in order; stopping loses nothing; metrics count every event once |
| `interrupt_resume` | MCToolCalls / ToolCalls | *Resume:* only approved calls and their siblings run; a record with a successor sends every later attempt there; there is one successor at most, over crashes; an attempt that returned holds no lease, unless the call that was to end it failed. *File tools:* an edit is exactly its replacement in the text it meets, unless a write came between. *MCP:* what passes a scan is the text with non-overlapping hits replaced, and nothing else lost or left whole; what reaches the other side unscanned is the raw arguments of a call without `input` and the text of an error |
| `interrupt_resume_superseded` | MCInterruptResume / InterruptResumeSuperseded | violation: see Findings |
| `dag` | MCDagExecutor / DagExecutor | On a diamond, for all four error strategies, with and without priority queue: dependencies settle first; the pending counter is exactly the number of unsettled nodes; every launched node posts one completion, and teardown waits for exactly those; compensation is in reverse order; every execution terminates |
| `dag_resume` | MCDagExecutor / DagExecutorResume | On two roots and a sink: two executions, the second from the checkpoints of the first, which may have crashed: nothing checkpointed is run again |
| `dag_rollback` | MCDagExecutor / DagExecutorRollback | violation: see Findings |
| `node_admission` | MCOrchestration / Orchestration | *Admission:* each slot is held, on its way to a waiter, or lost to one waiter that left a done context, and is given out once; tag semaphores count exactly what live goroutines hold; nobody enters above the limit; every node is admitted or leaves. *Workflow:* a graph is accepted exactly if it is acyclic and connected; what is committed is whole layers of it. *Combinators:* results are built on responses alone, and a part of a spawn is missing only if a child returned nil; a graph is accepted exactly if it can be executed, and then sorted so; a priority is the longest path through a node. *Evaluation:* verdicts say what they should of the tool calls, reports account for every case |
| `react_loop` | MCAgent / Agent | *Loop:* message lists keep every model turn of the run with the answer to its tool calls, over crashes and suspensions, and tool calls without an answer come from the history only; no chain of suspensions gains model turns beyond the limits of the request, and none of Resumes beyond those of the agent; both halves of a suspended run write to different keys. *Context:* compressors keep order, budgets and whole turns; a prompt fits its window and drops no more than needed. *Guards:* what is used was seen by every guard as it is. *Scope:* a frozen run offers nothing outside its scope |
| `react_memory` | MCReactLoop / ReactLoopMemory | violation: see Findings |
| `host` | MCHost / Host | *Tasks:* eviction keeps within capacity and drops no work in progress; a task reports what its run did; a result is final; every task settles. *Streams:* a client that stays is sent every event in order, and the error if there was one; whoever leaves first, handler and forwarder end. *Session tree:* it stays a tree with a valid cursor and within its size; a promotion hides a child only if the summary it writes was made from that child, in its present text unless it changed after the snapshot, never a pinned one, and writes nothing if nothing is hidden; a parent is in flight exactly while one background promotion works on it; a view is a part of the tree |
| `service_cancel` | MCServiceTasks / ServiceTasksCancel | violation: see Findings |

A property named `…Sound`, `…Kept`, `GraphsAccepted` or `CountersExact` in the cfgs is the
conjunction of the properties defined above it; each of its parts is a statement of its own.

### Bounds, and why they are enough

* `interrupt_store`: one record, two calls, two verdicts, three owners, TTL 0
  and 2, clock to 4, 7 writes, batches of up to two. Two calls let a batch be partly
  refused; three owners let a lease be taken over twice; TTL 0 is the lease
  that has expired when granted. Records do not interact. The proofs remove all
  these bounds.
* `interrupt_file_store`: two processes, two goroutines in the first and one in
  the second (so that the mutex and the file lock both have a competitor), four calls,
  one record.
* `interrupt_resume`: two attempts on up to three records (a record, its
  successor, and the successor's), two policies, a batch of a flagged call and a
  sibling, clock to 2 (one expiry with a successor lease).
* `dag`: a diamond of four nodes has a fork, a join and two nodes that race; one
  is optional, conditional and an exit node, one has a failing mapper. Limit 0 (none)
  and 1; no checkpoint store, since there is one execution. `dag_resume` has one, two
  roots and a join, two executions and one retry.
* `node_admission`: three nodes and three tags taken in overlapping pairs, which is
  the smallest cycle in which a lock order could matter; four backpressure
  configurations including all-default.
* Session files: three calls, the least with a reader and two writers, on a session that
  exists or not; limits of one note and one report, so that both are reached. Index: three
  pieces of work on two nodes. Tools: three calls, two child names (the minter may repeat
  one). Memory: two scopes whose raw IDs run together once the separator is not encoded,
  two keys, two entries.
* File tools: three calls on one file with up to two matches. MCP: every text of up to
  four letters, a scan limit of three, two client sessions.
* Hooks: two events, an `agent_end` with any other or two `llm_call_end`, channels of one, one
  fault.
* Workflow: every graph of three nodes, limits 0 and 1, one field. Combinators: up to three
  runs or children, two child IDs (so that one repeats), all graphs of four nodes for
  priorities, all of three, with cycles and unknown dependencies, for validation. Evaluation:
  all lists of up to three tool calls; three cases, two at a time.
* Context: histories of up to three messages, short and long, windows below, at and above
  what they need. Guards: chains of two over every text of two words. Scope: two tools, two
  skills, two changes by the host.
* `react_loop`: three entries on a session; the agent allows two iterations and a budget of
  three tokens, a request these or one iteration without a budget (so that a Resume has the
  higher limit), with turns that cost two: the second one overruns the budget.
* `host`: three requests on a store for two: eviction is needed. Streams of up to four events
  through buffers of one, so that both goroutines can be blocked at once. Two callers and two
  background promotions on a tree of up to three nodes (two siblings or a chain, so that a
  promotion can lose, gain or find changed children), one rewrite of a node.

Symmetry is used only in runs without liveness properties, on sets of model values that
the modules and the constants treat alike.

### Deadlock

Every system here may stop: all attempts have ended, all tasks are settled, the
execution has returned or the bounds on time and writes are used up. The cfgs say
`CHECK_DEADLOCK FALSE` for that reason; stopping too early is what
`Terminates`, `EveryNodeAdmitted`, `TasksSettle` and `LocksHeldByCallers` exclude (the
latter three as parts of `NodesAdmitted`, `RequestsFinish` and `CallersSound`).

### Fairness

* `DagExecutor`: weak fairness of the event loop and of each node goroutine's
  step. Both are goroutines the Go scheduler runs; a runner is assumed to
  return, which the code needs too (it has no timeout of its own).
* `NodeAdmission`: weak fairness of each goroutine's steps and of the refill
  (time passes), strong fairness of `Advance`, the taking of a slot or token: a
  channel send or `select` that is possible again and again is not passed
  over for ever, since Go queues blocked senders first in first out; for the token
  bucket this assumes that a goroutine that polls is not always overtaken.
  In `MCOrchestration` it leaves only the behaviours of the admission part: the other
  parts are checked by invariants, which do not depend on it.
* `StreamRelay`: weak fairness of the forwarder, of the handler's select and of the agent's
  return. `RunStream` is a library type: its `ForEach` is taken to deliver what was sent
  before it reports the end.
* `ServiceTasks`: weak fairness of the task's goroutine; the agent's run
  returns.
* File store: no fairness. `LocksHeldByCallers` states the safety part of "nobody waits
  for ever": whoever waits, waits for a live call that is past its own waiting.

## 4. Proofs

Eight modules hold the theorems. All are for every value of the constants, that is for any
number of callers, attempts, nodes, records or requests and any limits; the bounds of the
runs (clock, writes, calls, updates) are constants too and may be any natural numbers.
Each follows the same plan: an inductive invariant, one lemma per action, a lemma that puts
the actions together, and a temporal step (PTL). Each inductive invariant was first checked
by TLC on the instance of its run; only the types of a file's contents (`FilesTypeOK`) and of
memory keys (`MemTypeOK`) are, in part, sets TLC cannot evaluate.

A run puts parts that share no variable side by side; a theorem is about the specification of
one part (`FilesSpec`, `GuardsSpec`, …), which is what the run's behaviours of that part are.

| Module | Theorem | What it shows |
|---|---|---|
| `InterruptStoreProofs` | `StoreTypeCorrect`, `StoreDecidedBeforeReady`, `StoreLeaseShape`, `StoreOneLiveHolder`, `StoreGrantHonoured`, `StoreCreditedOnce` | the invariants of the store |
| | `StoreDecisionsWriteOnce`, `StoreStatusMoves` | its action properties |
| `PersistenceProofs` | `FileIInvHolds`, `FileTypeCorrect`, `CallersAreSound` | calls through mutex and file lock neither write when they must not nor leave a lock behind |
| | `DirectoryImplementsStore` | the directory of files refines `InterruptStore` |
| | `IndexFollowsTree` | the vector index (`IndexFollows`) |
| | `AcceptedEventsHandled` | hooks, their stores and Stop (`AcceptedHandled`) |
| | `AcknowledgedWritesKept` | the file stores of a session (`FilesKept`) |
| `ToolCallProofs` | `ResumeIInvHolds`, `ResumeKeepsStore` | racing attempts are steps of the atomic store, so its invariants hold under them |
| | `ApprovedOnly`, `SuccessorsSound`, `ReturnedWithoutLease` | the three invariants of resumption in `interrupt_resume`; a lease stays behind only if Complete or ReleaseLease failed |
| | `EditsApplyExactly` | the file tools (`EditsApply`, an action property) |
| | `ListsConvergeChildrenOwned` | todo lists and child sessions (`SessionToolsSound`) |
| `DagExecutorProofs` | `DagIInvHolds`, `DagTypeCorrect`, `DependenciesAreFirst`, `CountersAreExact`, `CheckpointedNotRerun`, `RollsBackInOrder` | the safety properties of `dag` and `dag_resume`, for every acyclic graph |
| `OrchestrationProofs` | `AdmissionIInvHolds`, `SlotsAreExact`, `NobodyEntersOverLimit` | slot accounting of controller and tags; the safety part of `NodesAdmitted` |
| | `WorkflowCommitsLayers` | the batches of the workflow engine (`WorkflowSound`), whatever the graph |
| | `ResultsBuiltOnResponses` | the agents that combine agents (`BuiltOnResponses`) |
| | `ReportsAreExact` | verdicts and batch reports (`EvaluationSound`) |
| `AgentProofs` | `ReactIInvHolds`, `CallsAnswered`, `TurnsBounded`, `HalvesApart` | the properties of the loop in `react_loop` |
| | `FrozenScopeHolds` | the tools of a run (`ScopeKept`) |
| | `TiersStayApart` | the scopes of memory (`SiblingsIntact`, an action property) |
| | `GuardChainsHold` | the chains of guards (`GuardsHold`) |
| `HostProofs` | `HostIInvHolds`, `RequestsAreAnswered`, `TreeIsSound`, `FoldsAreSound`, `TaskResultsFinal` | the safety properties of `host` but `ViewSound` |

`InterruptLogicProofs` has the lemmas about the pure transitions on one record that the
three interrupt modules share.

*Assumptions* are the named ASSUMEs of the modules, which TLC evaluates in the runs:
sentinels are outside their sets, limits and bounds are naturals, and

* `DagAssumption`: what `ValidateDAG` checks (known, acyclic dependencies) and what
  `topologicalSort` returns (each node once, after its dependencies);
* `AdmissionAssumption`: the tags of a node are sorted, as `resourceManager.acquire` sorts
  them first;
* `ReactAssumption`: every request and the agent allow at least one iteration and no negative
  budget, as the validation of run parameters requires (`params.go:213`);
* `FileStoreAssumption`: the bound on calls is within the bound on revisions, so that no
  write of a caller is cut off by the abstract store's bound;
* `TreeAssumption`: `MaxNodes` is not zero (it is 1024 in the code);
* `FilesAssumption`: there are finitely many calls and names, names of notes and scratch slots
  are in directories of their own, and the limits on notes and reports are not zero (the first
  is a constant, 200; the report sink replaces zero by its default);
* `ScopeAssumption`: the default iteration limit is not zero, as for `ReactAssumption`;
* `GuardsAssumption`, `EvalAssumption`: the scan limit, the budget and the threshold are not zero
  (the constructors replace or refuse zero: `tool_result.go:159`, `cost.go:52`,
  `latency.go:37`), and a concurrent batch has a semaphore (`batch.go:55`);
* `MemoryAssumption`: agent, session and key are texts; nothing is assumed of their characters;
* `CombAssumption`, `WfAssumption`, `SessionToolsAssumption`, `IndexAssumption`: numbers are
  natural, dimensions not zero, and child sessions have names of their own.

### Inductive invariants, and why they are needed

* **Store** (`IInv`). `OneLiveHolder` is not inductive alone: nothing in it says that a
  right to work appears in the record, so that a later AcquireLease would be seen to respect
  it. `GrantHonoured` says that (an owner with a live grant owns a live lease on the record),
  and `LeaseShape` ties owner and expiry to the status. `CreditedOnce` needs that a decision
  counted as committed is in the record, and `FreshIds` that an identifier never used has no
  grants or credits left over. The hard lemma about the logic is `MergedFacts`, what a batch
  with repeated entries commits: the first entry for a call decides, and it exists because
  `<` is well founded on the naturals (`FirstEntryInBatch`).
* **File store** (`FileIInv`). A rename is a step of the atomic store because of two facts
  that hold across the steps of a call: the file lock is the caller's own from `flock` to
  `unflock` (`FileLocked`), so what it read is still there (`ReadCurrent`); and what it is
  about to rename is one transition of that record, computed at a time that is not in the
  future (`PreparedBy`). A lease is computed when the caller applies its change and becomes
  visible when it renames; the abstract store allows the clock to have moved on in between.
  `FreshCreates` keeps two Creates apart, `RevisionsPaid` keeps a revision within the bound of
  the abstract store.
* **Resume** (`ResumeIInv`). Every step of an attempt is an operation of the store or leaves it
  alone (`Grows`), so `IInv` carries over. `ApprovedCallsOnly` rests on `SnapDecided`: the
  copy taken with the lease has every verdict, and verdicts never change. The hard part is
  that a second successor takes an attempt that overran its lease: the look-up for a
  successor stays true under a live lease (`LookedUp`), and each attempt that created one
  after its lease ended is counted once (`OverdueDone`, `FiniteHistory`).
* **DAG** (`DagIInv`). That a node is not released early rests on what its in-degree counts:
  the dependencies whose settling was not propagated yet (`Waits`). That the drain reads
  exactly the completions to come rests on whose completions the channel holds (`Channel`,
  `Counted`), that a checkpointed node does not run again on its having no goroutine
  (`Restored`). The counters are typed as integers first (`LooseTypes`) and bounded by what
  they count (`Bounds`). The nodes a rollback still has to compensate are the set `undo`, in
  the order of `TopoOrder`; `NextToUndo` takes the last of them.
* **Admission** (`AdmissionIInv`). The tag semaphores count goroutines by their place in their
  list of tags (`Progress`, `Semaphores`). The global count is that of goroutines that hold a
  slot, were sent one and still wait, or left with one in their channel (`SlotsAccounted`),
  which needs that nobody is queued twice or both queued and signalled (`Queue`), also while a
  cancelled waiter leaves.
* **ReAct loop** (`ReactIInv`). A message list passes from a run to a checkpoint or an
  interrupt record and on to another run. What has to hold of it depends on the place the run
  is at (`LoopOK`: every call answered, or the last one open) and has to survive in what was
  saved (`RecordOK`, `CheckpointOK`). The budget needs the tokens a list stands for, which
  each message carries as the history field `spent`. `HalvesDisjoint` rests on `Offsets`: the
  first half of a suspended run stores its request below every key its second half will use.
  That limits hold needs that a suspension keeps those of its request (`ParamsKept`,
  `Limited`), and that the history holds open calls only of a run that a limit stopped,
  `CallsStopped`.
* **Host** (`HostIInv`), one invariant for each of three parts that share no variable. *Tasks*
  (`TasksIInv`): the order of updates lists every stored task once, and a cancelled task was
  reported as cancelled; so an eviction frees a place and takes nothing that is still at work.
  *Stream* (`RelayIInv`): what was written, what is in the channel, what the forwarder holds
  and what is left of the stream are one run of consecutive events (`InOrder`), with an error
  at most at its end (`ErrorQueued`, `ErrorWritten`). *Tree* (`TreeIInv`): ids are minted in
  order, so a new node is in nobody's list of children; lists have no repetitions, so removing
  one entry removes the child (`Skeleton`); each background promotion holds the reservation of
  its parent alone (`Reservations`); and the text a promoter was given covers its plan
  (`PlanCovered`), which is what makes a late commit sound; it is of the present text of every
  child that was not updated since (`TextsRead`).

* **Index** (`IndexIInv`). A node nothing overtook waits for one piece of work at most, which
  fits what the node has become, and has the right document if it waits for none
  (`NodeInOrder`). "Waits" has to cover the removal of a whole tree too, from the moment it is
  about to list the documents.
* **Hooks** (`HooksIInv`). What was accepted is, in order, what is handled, at work and queued
  (`ChannelInOrder`). The log is the handled prefix without what a failure touched, in order
  (`LogFollows`); the archive is a set (`DocumentsFollow`). That Stop loses nothing rests on
  when a started hook may be without consumer: channel closed and empty (`Draining`).
* **Files** (`FilesIInv`). What a call read still holds when it writes: the acknowledged
  changes are in what it will put in place, its sequence number is above every checkpoint,
  there is room for its note (`WritesPending`). That follows from mutual exclusion as long as
  the store has not forgotten a mutex (`MutexesExclude`), which each part of `StoresSafe` is
  therefore conditioned on, as on the store not being wiped. That a failed Create takes
  nothing of the session store itself is a second invariant (`OwnUnharmed`): while a session
  is being made, the store has acknowledged nothing of it. The log is one line per
  acknowledged event and maybe a last one without an end (`LogSafe`).
* **File tools** (`ToolsIInv`). A call about to rename holds the lock of its path, and unless a
  write overtook it its new text is the edit of the text that is there (`EditReady`).
* **Session tools** (`SessionToolsIInv`). `TodoConverges` needs what is between the update of
  a list and its event (`ListInOrder`): no event and no call under way has a later version than
  the list, no version is held twice, and one of them holds the last.
* **Scope** (`ScopeIInv`). A frozen filter lies within every layer it was made from, and
  nothing is offered outside it (`RunScoped`).
* **Memory.** `SiblingsIntact` is an action property; it needs only types (`MemTypeOK`). The
  argument is about keys: encoded identifiers contain no separator, so the prefix of no tier
  is a prefix of another tier's (`EncodeScopeID` is injective), and each operation changes
  live entries only below the prefix of its own tier (`Confined`).
* **Guards** (`GuardsIInv`). `ChainClean` says of the text on its way what `GuardsHold` says of
  the text at the end, and has to be kept by guards that come later: no
  rewrite brings back a word that an earlier guard removed (`NothingBack`).
* **Workflow** (`WfIInv`). `WorkflowSound` itself is nearly inductive. It needs that the
  counters of `execute` are exact, so that a batch is all nodes that wait for nothing
  (`WfCounted`). The layering is a witness that each commit extends by the version it makes.
  Nothing here needs the graph to be acyclic: a cycle is never reached.
* **Combinators** (`CombIInv`). What has run at each place of a run (`CombProgress`), and that
  what the collected children returned, a response or nil, is kept under their own ID
  (`Gathering`). That the messages of a spawn are in the order of IDs rests on what sorting a
  finite set of numbers is (`Sorted`).
* **Evaluation** (`EvalIInv`). Verdicts follow from three lemmas about recursive functions:
  the greedy scan finds an order-preserving occurrence if there is one (`FoundOccurs`,
  `OccursFound`), and a weighted mean of scores is full only if each weighted score is
  (`CompositeSound`). For a batch: the counters agree with the results read so far (`Tally`),
  which are those of the written slots below the read position, in order (`Ordered`); every
  case started is waiting, evaluating or written (`Started`).

Induction over a number is used where a function is defined by its first value and a step: by
the least number at which a claim would fail (`LeastNumber`, `Steps`, `Recursion` in
`OrchestrationProofs`).

### What stays with TLC

* Liveness: `Terminates`, `NodesAdmitted`, `RequestsFinish` (the prover has no
  rule for fairness or ENABLED). The safety parts of the last two are theorems.
* `ContextSound`: `Compression` and `ContextBuild` have RECURSIVE operators and folds over
  message lists, and what they return is known only by induction over these lists.
* `GraphsAccepted` (`GraphsValidated`, `PriorityIsLongestPath`, `WorkflowGraphs`): what
  depth-first search, Kahn's algorithm and the longest-path recursion compute on a graph.
  Their recursion is over sets and queues, for which the induction theorems cannot be used.
* `ScrubExact`, about what folds over sorted hits make of a text, and `ViewSound`, about the
  recursive functions that walk the tree: induction over data again.

The instances of the last three are exhaustive up to their bounds: every graph, history,
text or tree of the given size.

## 5. Findings

Each has a run that shows the behaviour as a trace.

1. `interrupt_resume_superseded` — ResumeInterrupt looks for a successor before it
   takes the lease and not again under it on the execute path. A record superseded in
   between is executed with its old decisions, which
   `agent/taskagent/interrupt.go:465-467` excludes.
2. `dag_rollback` — `drainDoneCh` throws away the completions it reads: a
   node that succeeds while the execution is torn down is never compensated.
3. `react_memory` — message keys are offsets counted at the start of a run, so a
   run that happens while another one of the session is suspended writes under
   the keys the suspended one will use.
4. `service_cancel` — `handleAsync` marks a task running without looking at
   its status: a cancelled task becomes running again and may end completed.

Met while modelling, without a run of their own:

* Complete on a completed record returns `ErrLeaseNotOwned`, where
  `interrupt/store.go:122-123` describes it as idempotent.
* A failing Complete is logged, a failing ReleaseLease dropped (`taskagent/interrupt.go:846`,
  `870`, `882-890`): the record stays Resuming until the lease runs out. A cancelled resume
  always ends so, because both calls use its context. `ReturnedHoldsNoLease` excepts an
  attempt whose own ending call failed, and no other.
* A waiter that was sent a slot and takes `ctx.Done` does not give it back
  (`backpressure.go:91-101`): `active` counts it for good. The context is the execution's, so
  that nothing is left to wait for the slot. `SlotsAccounted` names these slots `Lost`.
* Replay runs nodes that have no checkpoint (`orchestrate.go:82` and rule OR-8).
* Forward recovery calls a runner outside the concurrency limits
  (`orchestrate/dag.go:322`).
* A release wakes one waiter even when the limit was just raised
  (`backpressure.go:75`, `114`); a configuration with only `min` set above the
  default `max` yields an empty range (`backpressure.go:29`, `47`).
* A rate below one per second never yields a whole token (`resource.go:39`, `45`).
* A compensated node keeps its checkpoint, so that a second execution restores it,
  and may compensate it again (`compensate.go:64`, rule OR-6).
* Resume from a checkpoint starts the token budget at zero (`taskagent/checkpoint.go:180`). It
  also resolves the parameters anew from the agent's defaults (`checkpoint.go:174`): a run
  whose request allowed fewer turns gets more after it. `agent-core-design.md:37` restores the
  resolved parameters and the consumed budget, but for interrupts only. `NoGiftedTurns`
  therefore holds a run to its request up to the first Resume, and to the agent's iteration
  limit after it.
* After a crash and Resume the user's request is never stored in session memory
  (`taskagent/checkpoint.go:187-191`).
* A run stopped by its budget or iteration limit stores an assistant message whose tool calls
  have no answer (`taskagent/loop.go:187-191`, `415-423`, `514`), and the next run of the session
  sends it to the model (`task.go:575-609`). `agent-core-design.md:41` says "so no dangling tool
  call is stored", of suspensions. `TurnsPaired` speaks of the run's own calls, and says that
  only a run that a limit stopped leaves such calls in memory.
* A failed listing of the session makes the run count from zero and later overwrite the
  oldest messages (`context/sources_session.go:86`).
* Promotion in map order may store a later message without an earlier one
  (`memory/manager.go:160-165`).
* `session/tree/store.go:100` says that "children that have changed during the gap are
  silently skipped from folding". `applyPromotion` skips those that were pinned, promoted
  or deleted; a child whose text changed is hidden behind a summary of its old text, and
  a summary the user wrote in the gap is overwritten (`promotion.go:72-92`). `FoldsSound` asks for
  the present text of every hidden child but those.
* `MapTreeStore.AddNode` and `CreateTree` copy the stored node for their result after
  they have released the lock (`mapstore.go:226`).
* The file stores remove the session's lock from the map while calls wait for it, so two
  writers may follow and one acknowledged write is lost (`session/tree/filestore.go:483`);
  the type comments promise serialised writes (`checkpoint/filestore.go:56`,
  `session/filestore.go:61`). `WritesKept` excepts a store from that moment on. A tree or
  metrics write that read before a Delete makes the directory again.
* A batch that runs longer than its lease is executed a second time by the attempt that
  takes over (`taskagent/interrupt.go:844`): leases are not renewed.
* A Create that fails after Mkdir removes the directory (`session/filestore.go:139-155`), and
  with it what other stores put there and acknowledged. `FilesKept` excepts the stores this
  happened to (`wiped`), and says that it never happens to the session store itself.
  WriteArtifact of "x" destroys an artifact named "x.tmp"; an append cut off by a crash makes
  ListEvents fail for good.
* Dispatch to an asynchronous hook that was stopped or rolled back sends on a closed
  channel and panics (`hook/manager.go:102`).
* Background index work that ends after DeleteNode brings the document back, overlapping
  updates may leave the older text, and background promotions bypass the index
  (`session/tree/vectorhook/store.go:66`).
* The tree_update tool reads a node and writes it whole, so a promotion in between is
  undone (`tool/sessiontree/update.go`); two tree_add calls without a tree race, and the
  loser is told that the tree exists.
* Archived entries of two sessions with the same key overwrite each other; the
  time-to-live of a promoted entry starts again. Session and store tier over one map store
  take different mutexes.
* Children of a spawn with the same ID: one response is lost without a word
  (`orchestrate/spawn.go:133`). A child that returns nil without an error is missing from the
  result without a word (`spawn.go:143`, `aggregator.go:66`); a parent that does panics with its
  first child (`spawn.go:118`). `SpawnDepthLimit` zero is "no nesting" in its comment
  (`spawn.go:38`) and no limit in the code (`spawn.go:56`).
* A composite evaluation scores the weighted mean but passes by the verdicts of its parts
  (`eval/composite.go:143-149`): a pass may score low, and a failure in full where the failing
  part has no weight or a full score.
* The compressors that leave the summary to a summariser may drop messages that would still
  fit; `CompressionSound` claims the greatest fit only for those that cut
  (`Compression.tla` names them).
* `context/source.go` says the rest of the budget is "doled out to optional sources in
  declaration order"; the trim takes messages from the head of that order away. The trim
  and `TokenBudgetCompressor` may separate a tool call from its result. Vector recall
  always embeds the intent "react-iter" (`taskagent/task.go:596`).
* A write tool call takes no path lock: an edit may undo it, and two create-only writes may
  both succeed.
* `ToolResultInjectionConfig` says zero disables escalation; the constructor makes it
  "high" (`guard/tool_result.go`). When an output guard refuses, Run keeps the original
  answer, without the rewrites of the guards before. Only the first text part of a tool
  result is scanned.
* A frozen tool set limits what is offered, not what is executed. Resume from a checkpoint
  ignores the request's scope, and a run that suspends after it is resumed with no tools.
  Skill instructions come from a later look at the skills than the tools do
  (`taskagent/loop.go:78` says "the same snapshot").
* Todo events may arrive out of order, and Clear lets versions start again. A repeated ID in
  one update yields two items with it.
* A sequential evaluation counts a composite result with an error text as failed, a
  concurrent one as an error. One missing expected tool call uses up the calls after it.
* RedactText replaces the first of two overlapping hits and leaves the tail of the other. An
  MCP agent call without an "input" key passes its arguments as they were before redaction
  (`mcp/server/server.go:145-146`), and the error text of a handler or an agent goes back to
  the client unscanned (`154-158`, `194-200`). `doc/constitution.md:33` and rule GRD-5 of
  `guard.md` ask that every string across that boundary be redacted before it is logged or
  streamed. `Client.Connect` does not close a session it replaces.
* A session directory made by the metrics, tree or checkpoint store makes
  `FileSessionStore.Create` report that the session exists (`session/filestore.go:119`).
* A resumed batch that ends with a return-direct tool writes no final checkpoint
  (`taskagent/interrupt.go:854-862`, `checkpoint.go:45-46`).

## 6. Not modelled

Shell, web and search tools and the HTTP clients of vector services: external
processes and I/O that keep no state. The memory, tree and workspace tools: wrappers that
decode arguments and call one operation of a modelled store. Numeric or text code
without protocol state (vector distance, text comparison of scorers, prompt templates, skill
loading, the patterns of guards and credential rules, path and command checks), data types
(`schema`), read-only views (`sessionview`), the look-ups of the service, map stores that are a map under one mutex, examples and vendored
code.

## 7. Plan

1. *(done)* interrupts: logic, store, file store, resume; proofs about the store.
2. *(done)* DAG executor, admission; ReAct loop; asynchronous tasks; session tree.
3. *(done)* stores of a session, index, hooks; memory, compression, context; guards, tool
   scope, file and session tools, MCP; workflow, combined agents, evaluation.
4. *(done)* proofs: the refinement by the file store; resume; DAG executor; admission; ReAct
   loop; tasks, streams and the session tree.
5. *(done)* proofs about tool scope, session and file tools, hooks, index, files, memory, guards,
   workflow, combinators and evaluation.
6. Left: the parts of `RequestsFinish` and `NodesAdmitted` that are liveness, should the prover
   learn fairness; `ViewSound` and `GraphsAccepted`, should it learn structural induction.
   The rest of the service's handlers and the loaders of `skill` are sequential and would
   add a model of look-ups.
