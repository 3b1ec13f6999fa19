# A verification development for eino-examples

This directory holds TLA+ models of the programs in this repository that keep
state and share it between goroutines, requests or runs; the TLC configurations
that check them on small instances; and theorems about them with proofs that
TLAPS checks. Paths below are relative to the repository.

The repository is a collection of examples for the eino framework. The framework
itself (`adk`, `compose`, `schema`) is a library: where an example depends on what
it does, the model states the assumption and marks it external.

## Inventory

| Part | State | Operations | Interacts with | What is hard | What must hold |
|---|---|---|---|---|---|
| Batch node, `compose/batch/batch` | per call: work list, result channel, semaphore, wait group, outputs; across calls: the saved `NodeInterruptState` | `Invoke`, resume | the inner graph, once for each input; compose's checkpoint | goroutines, a mix of outcomes, several interrupts of one batch | the limit; nothing finished runs again; nothing finished is lost; one right verdict |
| Chat server, `quickstart/chatwitheino/server` | per session: turn state (loop and three channels), pending interrupt, history, checkpoint | /chat, /approve, /abort, DELETE, GenInput, GenResume, OnAgentEvents, cleanup | TurnLoop by Push, Stop, Wait and callbacks; callbacks and handlers by channels | every request races every other one and the loop; preemption; timeouts | a result goes to its own turn; one live loop; history in order; an approval resumes its interrupt; nobody waits for ever |
| Task manager, `quickstart/eino_assistant/pkg/tool/task` | tasks cached under a lock; `tasks.jsonl`, `.tmp`, `.bak` | add, update, delete, list, load | the agent's tool calls and the web API share one storage | failing file operations, kills, pointers that leave the lock | what was answered survives; cache and file agree; answers are stable |
| Session store, `quickstart/chatwitheino/mem` | sessions in a cache and in files | Append, GetOrCreate, List, Delete | the chat server | memory before disk, partial lines, deletion in use | what was appended survives a restart, one message for each fault apart; a deleted session stays deleted |
| Conversation memory, `quickstart/eino_assistant/pkg/mem`, `cmd/einoagent/agent` | conversations in a cache for each `SimpleMemory`, and in files | RunAgent, history, delete | handlers that build a memory of their own on the same files | answers saved by goroutines; two caches of one file; a line written by two calls | cache and file agree; question and answer stay together; a deletion holds; an answer knows what was saved before |
| Stream rendering, `quickstart/chatwitheino/{a2ui,msgops,helpers}`, `static/index.html` | the component counter and tree, the accumulated answer | one step for each agent event | the chat server's handlers, the browser page | retries, broken connections, continuation after an interrupt | the client's tree is the one a resume rebuilds; the turn's messages are kept whatever becomes of the connection |
| Approval tools and graph tool, `adk/common/tool`, `chatwitheino/agent.go` | the state stored with an interrupt | call, interrupt, resume | adk's resume | several interrupts, one target; an interrupt within an approved tool | only the approved call runs, with the arguments agreed to, once; the other questions stay |
| Research team, `flow/agent/deer-go/biz/eino` | one shared state: plan, iteration, next node | coordinator, investigator, planner, human, team, researcher, coder, reporter | compose's checkpoint for the human's feedback; requests of one thread share it | routing by shared state, loops, feedback that outlives its plan | every step is done, by an agent of its kind; one acceptance begins one plan; plans are bounded; an end |
| Plan-execute agent, `flow/agent/multiagent/plan_execute` | the graph's message list; the printer's map, wait group and channel | three models, tools, printing of every stream | compose's runner; callbacks hand each stream to a goroutine | streams still read while the next model is called; a map read without its lock | a model is given all that was said, in a form its provider takes; all is printed before the end |
| Manus, `flow/agent/manus`; booking agent, `compose/graph/react_with_interrupt` | the message list, a checkpoint, the user's last input | model, tools, the user's answer, resume | compose's interrupts, checkpoints and state modifiers; the console | what the user says goes into a state that was saved before | the same, through interrupts; the tools run what the user has agreed to |
| Ralph loop, `adk/agent/ralph-loop` | turn counter | run a turn, verify, stop | an adk agent | the limits | stops within its limit, complete only if verified |
| Graceful exit, `adk/cancel/graceful-exit` | one run, one signal, one checkpoint | run, cancel, resume | adk's cancel | the race is inside adk | - |
| ReAct; human-in-the-loop, adk, compose and component examples; devops; the other quickstarts | none, or one message list in one run | one call | the framework | - | - |

`PROJECT.json` lists these parts with the reason for each that is not modelled.

## The models

### BatchContract, BatchNode

`BatchContract` says what a batch call promises whatever its scheduling: it takes
tasks up to the limit, each settles once, it returns when all have settled and
never otherwise, refuses when the inner graph does not compile, and a resume takes
the interrupted ones again. `BatchNode` is `Node.invoke` step by step: the first call and the resume
(`FirstInvoke`, `ResumeInvoke`), compilation, the task run on the calling
goroutine before any other starts (`OnCaller`), the launches, the semaphore
(`Acquire`), the end of a task (`Finish`), the collection of results in whatever
order the channel has them (`Collect`) and the three ways of returning (`Return`).
A task waits for room in the result channel (`ChannelHasRoom`); the wait group is read
off the tasks, as those launched and not ended. What an inner task answers is any of success, interrupt and error. The limit 0 is
the sequential mode of the code. Its refinement mapping is the `Contract` instance
in the module, and `ImplementsContract` is a property of the run.

### SessionContract, ChatServer, MCChatServer

One session id. `req` holds the handlers, each at a program counter named for what
it does next; `ts` the turn states in the map, `chan` the bridges (the iterator
handed over, the result handed back, `handlerDone`), `loop` the TurnLoops, `sess`
the sessions, `ckpt` the checkpoint store with its tombstones. Everything a request
can create is named by it, so that there is nothing to count: its loop, its item,
its turn, its interrupt. A deletion makes way for a new session and a new turn state:
both are named by the deletion before them.

Each critical section of `server.go` is one action, and what lies between two of
them is where others interleave. `ChatSupersede`, `ChatPush` and
`ChatReplaceDead` are the three parts of `handleChat` under the turn state's lock;
`Receive`, `Bail` and `TimeOut` the three ends of its wait; `ApproveRead` and
`ApproveClear` are two sections because the code takes the session's lock twice.
`TurnSnapshot`, `TurnSend` and `TurnResult`/`TurnCancelled` are OnAgentEvents.

What TurnLoop does is external, taken from its use here, the tests and
`docs/ch11_turnloop.md`:

- Push on an open loop succeeds until the loop is told to stop; with preemption it
  cancels the turn in progress, if there is one, and nothing otherwise;
- the context of OnAgentEvents is done when its turn is preempted or the loop is
  stopped at once; an error of a cancelled turn does not end the loop;
- a loop saves a checkpoint when it exits with an interrupted turn, deletes the one
  it has resumed when it exits without, and leaves it when GenResume fails;
- DELETE does not touch the checkpoint (the server never asks for it).

Two constants say what the environment does. `Timeouts`: may the 60 s wait of the
handlers run out? `Pace`: `"any"`, requests at any moment; `"streaming"`, a client
leaves alone a request that has not begun to answer, and may interrupt one that has;
`"calm"`, it also lets the loop come to rest before it asks or approves.

`SessionContract` is what a session promises a calm client, in six variables and five
actions: a question is asked once, when nothing is going on and nothing pending, and its
own answer follows it at once; an interrupt that waits for approval is decided about once,
and its resumption is the next thing that happens. The mapping is the `Contract` instance
at the end of `ChatServer`: the turn is that of the loop that runs one, an interrupt is
granted from `ApproveClear` until the approval's loop resumes it, and history and pending
interrupt are the session's. Handlers, bridges, the checkpoint store, and loops that start
and wind down are its stutters.

### TaskContract, TaskStorage, MCTaskStorage

The storage's cache maps ids to objects, because its entries are pointers: an
answer shares them after the lock is gone. A writer is in `lock` from its change of
the cache to its last file operation, and each file operation is one action with
its failure (`Fail`): `AddAppend`; `WriteTmp`, `Backup`, `Swap` and `Unbak` of
`syncToDisk`. `Crash` kills the process at any pc in `CrashAt`, and `Restart` is
`NewStorage`: it reads `tasks.jsonl` and looks at no other file. `Fails` names the
operations that may fail, `"restore"` being the rename back of the backup. A task's
title stands for all its text fields, which Update treats alike. A write is whole
or does not happen; the two stores of lines, below, have writes in part.

`TaskContract` says what the manager promises of its tasks without cache, lock or files:
changes of one task at a time, a deletion that is final, an answer after which the other
values may no longer come back, and a restart after a crash that finds of every task the
value last answered or one that was under way or had failed since. In the `Contract`
instance the tasks are the cache's contents, `safe` is the history variable `may`, and
`open` the task of the writer at work.

### ConversationMemory, MCConversationMemory

One conversation: files and cache entries of different ids have nothing in common.
`conv` is the agent's cached conversation (`None` when it has none), `file` the
`.jsonl` with its lines and whether the last one is still `open`, `stage` where each
chat is. `Start` is RunAgent up to the stream; `RecvError` and `StreamEnd` are its
goroutine's loop, an error of Recv making the answer one that cannot be joined
(`Nil`, written as `null`, read back as `Zero`); `AppendMessage` is
`Conversation.Append` with its write, whole, cut short or without effect, or with a file
that cannot be opened, and `EndLine` the second write of `save`, which may fail as well;
`save` drops these errors (`Fault`). Nobody else holds the lock between the two, but a
kill may fall there. A line that holds no message, because two were joined behind a line
that was not ended, or it has a part of one or nothing, is `Garbled`. `Load` stops at the
first such line and at the first over-long one (`TooLong`: more than the scanner's
64 KiB), and its caller drops that error too. The history handlers make a memory of their own: `HandleHistory` reads
the file, `HandleDeleteHistory` removes it, and neither knows the agent's cache.
`apart`, `deleted`, `owed`, `owes` and `overlapped` only record what has happened.

### DeerTeam, MCDeerTeam

`state` is the graph's `model.State` of each run, `node` its `Goto`, `checkpoint` the
thread's saved state. One action is one router (`Coordinator`, `Investigator`,
`Planner`, `Human`, `ResearchTeam`, `Research`, `Code`, `Reporter`) with the message
loader before it, or a request: `Arrive` resumes the thread's checkpoint, with
the feedback put into it by `Modified`, or starts anew; `StartConsole` is a run of the
console. What the planner's model answers is any of `Answers`, parsed or not, and
`from` and `begun` record where a run has come from and how many plans it has begun.
`Todo` are the steps the team dispatches for (unfinished and of a known type), while
an agent takes the first unfinished step (`Taken`): the difference is what
`RightAgent` is about.

### ResumableTools, MCResumableTools

One run of an agent whose tools ask the user. `call` holds each tool call: where it is,
its arguments, and the state and the info its interrupt carries. `Approval`, `Review`,
`FollowUp` and `GraphTool` are the tools' `InvokableRun`s, each path a disjunct; a
graph tool under an approval is `Inner`. `Graph` starts the inner graph or goes on from
its nested checkpoint, as `graphToolInterruptState` tells it; the inner graph is that of
the nested-interrupt example (validate, ask if the amount is risky, execute).
`UserDecides` is `ResumeWithParams` with one target, after which all calls that have
not returned are executed again; `StoredArgs` is what `GetInterruptState[string]` finds,
which is nothing when the interrupt was the graph's: an approvable graph tool whose
graph has asked, while another call of the answer is the resume's target, asks for the
approval it already has again, of no arguments, and the graph's checkpoint is lost
(`approval_wrapper.go:63-90`). So the two layers are not independent, as
`graphtool/README.md:130-135` has it; `QuestionsStay` states what the code does, this case
(`GraphForgotten`) included, and without the case TLC finds it violated. `DecisionLayer` is
the type of the decision a client sends: with `Counting` it is the count of the
nested-interrupt example (`4_nested_interrupt/main.go:251-261`), the one client with two
types to choose from, and without it what the question asks for, on which that client
agrees while the call is interrupted first by the wrapper and then by its graph. `did` and `said` record what was
executed and what the user decided. The approval middleware of chatwitheino's
`agent.go` is the same code as the approval wrapper.

### SessionStore, Streamer, ChatSession, MCChatSession

`SessionStore` is chatwitheino's `mem/store.go` for one session: the objects (an
object lives on in the hands of a turn after its session was deleted), the cache, and
the file with lines that are whole, junk, joined or too long; `Readable` is what a load
makes of it. A write may fail and leave a part of its line, `MaxFaults` times.

`Streamer` is `a2ui/streamer.go`: the loop over the agent's events, with the messages
it keeps, the cards it writes, retries of the model inside a stream, interrupts, errors,
and a connection that breaks, after which the loop goes on for the history's sake; and
the page that makes a tree of the cards. Events and chunks are drawn one at a time.

`ChatSession` composes the two by the server's handlers (`Chat`, `Approve`, `Render`,
`Abort`, `Delete`) and the turn: `SaveQuestion`, `HandOver`, `Stream`, `Result`,
`SaveMessage`, `EndTurn`. `late` is a turn that was saving when its session was
deleted. Here one browser asks one thing at a time; what requests do to each other
and to the loop is ChatServer's subject. `handleApprove` continues the tree from the
counter the interrupted turn left, and drops the messages of its result.

### GraphRun, PlanExecute, ConsoleAgents, GraphAgents, MCGraphAgents

`GraphRun` is what three programs see of compose's runner (external): nodes that run
one after another, a bound on the nodes of one call, an error that ends it. `msgs` is
the messages in the graph's local state, `input` the next node's, and `said` records
what was said by anyone, in order.

`PlanExecute` is `plan_execute/compose.go`, with the state handler in `CallModel`, the
conversions `convertMessagesForDeepSeek` and `convertMessagesForArk`, and the branches;
and the printer of its `main.go`. A model's callback prints a banner (`Banner`) and
starts a goroutine for its copy of the stream (`StartReader`); the goroutine's steps are
`Recv`, `Mark`, `Lock`, `Write`, `SendChunk`, and it may be reading when the graph is
nodes ahead. The unbuffered channel is `console`, of which `printStream` takes one
value at a time; tools that run side by side send to it as well (`ToolStep`). The map
`agentReasoning` is read without the mutex: beside a write the program may be ended
by Go's runtime (`"crashed"`).

`ConsoleAgents` is manus and the booking agent, which stop before a node and save a
checkpoint, ask the user (`ManusAsks`, `BookingAsks`), and call the graph again, with a
state modifier that puts the answer into the state it finds (`Resume`, `Modified`).
`GraphAgents` composes the two: a behaviour is of one of the programs.

## What the runs check

| Run | Instance | Shows |
|---|---|---|
| `BatchNode` | 4 inputs, limit 2, 3 calls | the limit is kept (`ConcurrencyBound`); an interrupt's state splits what its call ran (`SavedStateSplits`); outputs after one resume are complete (`OutputsAfterOneResume`); the contract is implemented, which has in it that no finished task runs again and that errors win over interrupts and interrupts over success (`ImplementsContract`); every call returns (`InvokeReturns`) |
| `BatchNode_lost` | 2 inputs, 3 calls | a disagreement: results restored by a resume that is interrupted again are in no saved state, and the batch ends with zero values for them |
| `ChatServer_any` | 2 questions, an approval, timeouts, any pace | no channel is closed twice (`NoDoubleClose`); no dead loop stays the session's loop (`DeadLoopForgotten`); a turn that is preempted or stopped ends, its handler streaming or gone (`PreemptedTurnsEnd`) |
| `ChatServer_streaming` | 3 questions, an abort, a deletion | results reach their own turns, one live loop, history in order, every request ends though no timeout helps (`RequestsFinish`) |
| `ChatServer_calm` | 2 questions, 2 approvals, an abort | what is offered for approval and what is checkpointed agree (`PendingMatchesCheckpoint`), and the session's contract is implemented (`KeepsContract`): one turn at a time, each question answered before the next, each interrupt decided about once and resumed next |
| `ChatServer_approve_twice` | a question, 2 approvals | a disagreement: two approvals of one interrupt are accepted |
| `TaskStorage` | 2 additions, an update, a deletion, a list, one crash, every failure but `"restore"` | the contract of the tasks is implemented (`KeepsContract`), which has in it that what was answered survives; cache and file agree; answers show nothing that was deleted before, and stay as they were |
| `ConversationMemory` | 3 chats, one with an over-long answer, a window of 3, a failed write, 2 kills | the file is read as the agent's memory, up to an over-long message, unless something named has parted them (`MemoryOnDisk`), and never more than it (`FileWithinMemory`); what is deleted stays off the disk; an answer is given what was saved before its question (`FinishedAreSeen`); a question asked alone is followed by its answer (`TurnsAreAdjacent`) |
| `DeerTeam` | 2 requests of a thread, a console run, a limit of 2 plans, a restart | one acceptance begins one plan; plans are bounded by the limit and the edits; a step was worked on by its own agent; a plan the team reports has all its results; every run ends |
| `ResumableTools` | a call of each kind, 2 arguments, one of them risky | nothing is executed that was not agreed to, nor with other arguments (`RunsAsAgreed`), no step twice (`StepsOnce`); a resume aimed at another call executes nothing of an interrupted one and leaves its question as it is, but for an approval whose inner graph has asked (`QuestionsStay`); a user who answers comes to the end |
| `GraphAgents` | streams of up to 2 chunks, 2 tool calls in a message, 7, 6 and 4 nodes in a call, 2 answers of the user | a model is given all that was said, once and in order, through interrupts and state modifiers (`ConversationKept`), with a result behind every call and no call or tool's message for the models that take none (`ContextIsAccepted`); all streams are printed when the program ends (`AllShownAtEnd`); it ends (`ProgramEnds`) |
| `ChatSession` | 2 questions, an approval, a deletion, a kill, a failed file operation, 4 events | the page's tree stays whole (`TreeIsWhole`); a question's turn is saved whole (`TurnsAreSaved`); a failed write costs one message (`FaultsCostOne`); file and session agree (`FileWithinSession`); a deleted session stays deleted |

**Bounds.** Four inputs on two slots make goroutines wait for a slot while others
end in every order, and three calls are the fewest in which a state saved by a
resumed call is resumed. In the chat server a third question is what a loop replaced
by the second can meet; one abort and one deletion each race all of them. In the task
manager two tasks tell the one written from the one that must be left alone; one
update and one deletion meet on the same task; one crash separates what is in memory
from what is on disk, and a second would start from the same states a restart
reaches. In the conversation memory three chats are two that overlap and one that
comes after them, the window is smaller than what they save, and the second kill falls
on what was saved behind the first one's broken line; the over-long answer may come
before, between or after the others', and the one write that fails at any of them. In the research team the
second request of the thread meets the checkpoint of the first; plans have up to two
steps, with a step of neither type before one that is known, and the limit of two
is reached by the team's own loop and by edits. Of the resumable tools there is one of
each kind, so that each is asked about beside each other one, with two arguments, one
below the inner graph's threshold and one above. In the chat session the second
question finds what the first one's turn, its approval or its failure has left; four
events and chunks, over all turns, let a tool call and its result, a retry or a stream
that ends in an interrupt meet a broken connection, and leave some for the next turn.
Of the graph agents, seven nodes take the plan-execute agent through its reviser and back
to the executor, or twice to the tools, with two calls that print side by side, and past
its limit; two answers are a query and an empty one after it, or two bookings.
`MaxInvocations`, `MaxCrashes`, `MaxRestarts`, `MaxFaults`, `MaxObjects`, `MaxEvents`,
`MaxQuestions`, `MaxApprovals`, `MaxDeletes`, `MaxKills`, `MaxToolCalls` and `MaxAsks`
are the bounds, and all of them bound actions of the environment. `MaxSteps` is the
programs' own limit on nodes (100, 20 and the framework's), made small.

**Deadlock** is not checked where the environment may stop: all runs, since clients
may stop sending. That nobody waits for ever is checked by the liveness properties
(`InvokeReturns`, `RequestsFinish`, `PreemptedTurnsEnd`, `DeadLoopForgotten`, `DeerTeam`'s and
`ResumableTools`' ends of a run, `ProgramEnds`).

**Fairness.** Weak fairness of the steps of goroutines that are running: Go's
scheduler runs every one that can go on, and a select that stays ready is taken. In
the batch node an inner task ends. In the chat server each handler and each loop is
fair; arrivals, and what a client does next, are not, nor is a timeout needed. In
the research team each run's next agent step is fair, for compose runs the graph's
nodes to the end; the run ends because plans and steps are finite, not because the
models are asked to be kind. In the resumable tools the agent's steps are fair, and the
user answers what he is asked. In the graph agents every
goroutine that can go on does, graph, readers, tools and the one that prints, and the
user answers; a model or a tool need not fail. The stores, the task manager and the chat session are
checked for safety only: their steps wait for nothing but one lock.

**Outside these environments** some properties do not hold, which the runs above do
not hide:

- with `Pace` `"any"`, `ReplyToOwnTurn` fails: OnAgentEvents reads the session's channels
  when its turn begins (`server.go:656`), after which they may belong to a newer
  request, whose handler then streams the older turn, against the comment at 130-131;
- so does `OneLiveLoop`: a handler that finds a dead loop
  replaces it after another has (`server.go:337`). And a turn whose handler has timed
  out, or has streamed another turn instead, is waited on by nobody and ends only when a
  later request preempts or stops it (`server.go:673-677`), which is what
  `PreemptedTurnsEnd` says;
- an approval sent before its loop has exited finds no checkpoint yet
  (`server.go:688`, 572-574), so `ApprovalResumes` needs `"calm"`;
- with approvals at `Pace` `"streaming"`, `HistoryInOrder` fails, and so does
  `ReplyToOwnTurn`: handleApprove stops the session's loop and does not wait for it
  (`server.go:470`), so that a result already in its channel is persisted after the next
  question, against the comment at 615-617. With `Timeouts` TRUE, `ReplyToOwnTurn` fails
  for calm clients too;
- if answers end in interrupts or errors, a question may wait for a turn that GenResume
  or an ended loop never starts; it is the 60 s timeout that answers it;
- a turn's result and its cancellation may come together, and the select at
  `server.go:675` may take either: taking the cancellation drops an answer that was
  streamed to its end, against the comment at 363-365;
- a kill between the two renames of `syncToDisk`, or a second rename that fails with
  the rename back failing too (`"restore"` in `Fails`), leaves the task manager without
  a file: `NewStorage` looks at no backup, and every task is lost;
- in the research team a plan with enough context and unfinished steps, or an answer of
  the planner that cannot be parsed, goes straight to the reporter, which follows the
  nil result of a step (`reporter.go:52`): the run is `"panicked"`. The thread's
  checkpoint is never removed, so that a later question of the thread resumes the old
  plan; a restart forgets it, and feedback then starts a new run; feedback is not tied
  to a plan, so that an acceptance may be of a plan that another request's edit has made
  meanwhile;
- with `Counting` TRUE, `RunsAsAgreed` fails: the nested-interrupt example types a
  decision by counting interrupts (`4_nested_interrupt/main.go:250-263`), and a "no" of
  the inner type that reaches an outer approval lets the wrapper run the tool
  (`approval_wrapper.go:84-92`);
- what the agent does after an approval is not in the session's history: handleApprove
  drops its messages (`server.go:533`), against the comment at 679-681; an abort drops
  the turn's messages too;
- a line of more than 64 KiB ends the scan of `loadSession` with an error
  (`store.go:265`), and a failed write of the header leaves a file that no load takes:
  either session can be opened no more after a restart until it is deleted
  (`GetOrCreateFails`);
- a DELETE leaves the session's checkpoint (`server.go:231`), which a later session with
  that id finds;
- the printer of plan-execute keeps one phase for an agent, not for a call
  (`main.go:134`): the goroutines of two calls of one agent, both still reading, change it
  for each other, and the chunks of a call may stand under another agent's banner;
- a DELETE that cannot remove the file leaves the session, while its stopped turn goes
  on saving.

## What is proved

Proofs are for every value of the constants that the named assumptions of the
modules allow: any number of inputs, of requests of each kind, of crashes, of events. A
theorem that needs more of the environment than its module assumes says so in its
statement.

| Theorem | States |
|---|---|
| `BatchNode_proofs!TypeCorrect` | `Spec => []TypeOK` |
| `BatchNode_proofs!ConcurrencyBounded` | `Spec => []ConcurrencyBound` |
| `BatchNode_proofs!SavedStateIsASplit` | `Spec => []SavedStateSplits` |
| `BatchNode_proofs!OutputsComeBack` | `Spec => []OutputsAfterOneResume` |
| `BatchNode_proofs!NodeKeepsContract` | `Spec => ImplementsContract` (the refinement of `BatchContract`) |
| `ChatServer_proofs!TypeCorrect` | `Spec => []TypeOK` |
| `ChatServer_proofs!ClosedOnce` | `Spec => []NoDoubleClose` |
| `ChatServer_proofs!OneLoopAtATime` | `Pace # "any" => (Spec => []OneLiveLoop)` |
| `ChatServer_proofs!OwnReplies` | `PatientQuestions => (Spec => []ReplyToOwnTurn)` |
| `ChatServer_proofs!AnswersFollowQuestions` | `PatientQuestions => (Spec => []HistoryInOrder)` |
| `ChatServer_proofs!ApprovalsResume` | `CalmClients => (Spec => []ApprovalResumes)` |
| `ChatServer_proofs!OffersMatchCheckpoints` | `CalmClients => (Spec => []PendingMatchesCheckpoint)` |
| `ChatServer_proofs!OwnRepliesCalm` | `CalmClients => (Spec => []ReplyToOwnTurn)` |
| `ChatServer_proofs!AnswersFollowQuestionsCalm` | `CalmClients => (Spec => []HistoryInOrder)` |
| `ChatServer_proofs!SessionKeepsContract` | `CalmClients => (Spec => KeepsContract)` (the refinement of `SessionContract`) |
| `TaskStorage_proofs!TypeCorrect` | `Spec => []TypeOK` |
| `TaskStorage_proofs!CacheIsOnDisk` | `Spec => []CacheOnDisk` |
| `TaskStorage_proofs!WhatWasAckedSurvives` | `RenamesHold => (Spec => []AckedSurvives)` |
| `TaskStorage_proofs!ListsAreSnapshots` | `Spec => []AnswersAreSnapshots` |
| `TaskStorage_proofs!ManagerKeepsContract` | `RenamesHold => (Spec => KeepsContract)` (the refinement of `TaskContract`) |
| `ConversationMemory_proofs!TypeCorrect` | `Spec => []TypeOK` |
| `ConversationMemory_proofs!MemoryIsOnDisk` | `Spec => []MemoryOnDisk` |
| `ConversationMemory_proofs!DeletedIsGone` | `Spec => []DeletedStaysOffDisk` |
| `ConversationMemory_proofs!FinishedAreGiven` | `Spec => []FinishedAreSeen` |
| `ConversationMemory_proofs!FileIsWithinMemory` | `Spec => []FileWithinMemory` |
| `ConversationMemory_proofs!TurnsStayTogether` | `Spec => []TurnsAreAdjacent` |
| `DeerTeam_proofs!TypeCorrect` | `Spec => []TypeOK` |
| `DeerTeam_proofs!AcceptsOnce` | `Spec => []OneAcceptOnePlan` |
| `DeerTeam_proofs!PlanningEnds` | `Spec => []PlansAreBounded` |
| `DeerTeam_proofs!AskedBefore` | `Spec => []CheckpointAsks` |
| `DeerTeam_proofs!StepsAreFound` | `Spec => []NoStepFound` |
| `DeerTeam_proofs!AgentsMatch` | `Spec => []RightAgent` |
| `DeerTeam_proofs!ReportsAreWhole` | `Spec => []TeamReportsAll` |
| `ResumableTools_proofs!TypeCorrect` | `Spec => []TypeOK` |
| `ResumableTools_proofs!ExecutedAsAgreed` | `Careful /\ Spec => []RunsAsAgreed` |
| `ResumableTools_proofs!ExecutedOnce` | `Careful /\ Spec => []StepsOnce` |
| `ResumableTools_proofs!OtherQuestionsStay` | `Careful /\ Spec => QuestionsStay` |
| `ChatSession_proofs!TypeCorrect` | `Spec => []TypeOK` |
| `ChatSession_proofs!PageIsWhole` | `Spec => []TreeIsWhole` |
| `ChatSession_proofs!FilesComeFromSessions` | `Spec => DeletedStaysDeleted` |
| `ChatSession_proofs!FaultsAreBounded` | `Spec => []FaultsCostOne` |
| `ChatSession_proofs!FileFollowsSession` | `Spec => []FileWithinSession` |
| `ChatSession_proofs!TurnsSaveTheirRuns` | `Spec => TurnsAreSaved` |
| `GraphAgents_proofs!ConversationIsKept` | `Spec => []ConversationKept` |
| `GraphAgents_proofs!AllIsShown` | `Spec => []AllShownAtEnd` |
| `GraphAgents_proofs!ContextsAreAccepted` | `Spec => []ContextIsAccepted` |

*The batch node.* The limit is about running tasks, but what an action tests is
the set of taken slots. The invariant `SlotInv` ties them: running goroutines
hold a slot each, and the task on the calling goroutine, which holds none, runs only
while no goroutine does. Everything else is from `CallInv`, which follows a call through
its phases: the work list names no task twice and the launches pass it in order; a task
has an outcome exactly when it is done; the channel holds one result for each done task
that was not received, and the two lists and the error are what was received, sorted by
outcome. `SavedStateSplits` and `OutputsAfterOneResume` are read off it, the latter with
`OutputsKept`: up to the second call, each output outside the work list was restored from
the call before, which had them all; from the third on this is false, and that is the
disagreement of `BatchNode_lost`. For the refinement, `CallInv` shows that each step of the
node is a step of the contract or leaves its state alone: the launches and the channel are
the contract's stutters, and what `Return` decides on is what the contract sees.

*The chat server.* `TypeOK` is not inductive: an action sends the loop or the bridge
of a handler somewhere only because of where the handler is. `HandlerShape` and
`LoopShape` say which fields are set at which program counter. For `ClosedOnce`,
`BridgeInv` adds that a turn state's bridge is never closed, that no two turn states
have the same one, and that a bridge a handler has still to make (`Unmade`) is
nobody's: the one place that closes a bridge also takes it out of the turn state.

What the other theorems say is false for clients that send what they like when they like,
and the hypotheses are where it starts to hold. For `OneLiveLoop` it is enough that a
browser waits for the answer (`Pace # "any"`; approvals, timeouts, aborts and deletions
stay): `OneLoopInv` says that one handler at most is between its arrival and its stream,
so that what it has read of the turn state still holds, and that a live loop is the
session's or an abort has it. `PatientQuestions` is the streaming run's setting, without
timeouts and approvals. There `ReplyInv` follows an item: a loop has one at most that it
has not sent, whose handler waits with its bridge still in the turn state, so that the
bridge OnAgentEvents reads is that handler's. `SessionInv` says that two loops never work
on one session, through deletions that make way for a new one while an old loop winds
down; with it the question of the turn in progress is the last message (`HistoryInv`),
which the answer then follows. `CalmClients` is the calm run's setting, for the approvals:
no deletion, since one leaves the checkpoint behind; no timeout, since a handler that gave
up would let an abort in before Run has loaded the checkpoint; requests when nothing is
going on, aborts at any time. One loop at most is not gone then, and what it is doing says
which of the two, the interrupt the session offers and the checkpoint, is ahead of the
other, and what the next loop to start will find (`Offer`). With it `ReplyInv` holds
through resumed turns too, and the history is in order though an approval does not wait
for the loop it stops: that loop has nothing left to persist, and a resumed turn persists
nothing (`CalmHistory`). For the refinement, the contract's turn is that of the one active
loop (`TurnOf`), and a grant belongs to the approval that is on its way or to the one
loop that has not resumed yet (`ActiveGrants`). `AskedOnce` is what "asked once" needs: a
question in the history has been pushed by its handler and is in no queue any more. Each
handler step then leaves turn and grant alone but for `ApproveClear`, which is `Decide`,
and each loop step but for the four that are the contract's other actions.

*The task manager.* `LockInv` says who is in the critical section and with what;
`ObjectInv` that the cache points to objects of requests that have begun, so that an
update's copy is fresh; `SyncInv` what a writer has in `.tmp` and in the
file at each step; `DiskInv` that the file is the cache unless dirty, unless a writer is at
work and but for failed additions. `MayInv` is the survival argument: the cache
and the file are both among what may be found, except between the two renames, where
the backup is. `RenamesHold` is the assumption under which no process is
killed there and a failed rename is undone. `ListInv` is about answers that are encoded
after the lock was left: an object that was made is changed by a deletion's mark and by
nothing else, for an update makes an object of its own; and a task whose deletion was
answered before the list was asked for is not in what the list reads, whatever crashed in
between. That is `EndedInv`: a task whose deletion has ever been answered (`ended`, which
no restart resets) is absent or marked as deleted in the cache and in the file, and in the
backup while the file is away; it needs no `RenamesHold`, for a lost file brings nothing back.
The refinement reads the contract's variables off these invariants: a request changes one
task when it enters the lock, its answer narrows `may` to that task's value, its failure
leaves `may` as wide as it was, and a restart finds a value in `may` by `MayInv`.

*The conversation memory.* `Cached` says that a chat being answered or saved has a
conversation. `DiskInv` has the file's lines equal to the memory's messages, which gives
`MemoryOnDisk` as far as lines can be read (`LoadReadsTo`), and what makes it last: the
file's last line is open only while a chat is about to end it, so no message joins
another unless a kill, a failed write or a deletion came between. `DueInv` is the argument for
deletions: what is on the disk, or was deleted, has been written by its chat, each chat
writes a message once, and so what is still to be written was never deleted. `Held` says
that the memory holds what is owed to later chats, with the question and the answer of
a chat that is on its way to be owed. `FileWithinMemory` is inductive over placements: the
readable lines have places in the memory, in their order (`Placed`), and a line is written
behind the message that memory has just got, so that it is placed at the end.
`AdjacentInv` is for turns: a chat that nobody chatted beside is alone at work; a message
is on the disk once at most; and between its two saves its question is the last one, in
memory and among the lines, which a restart that loads the lines keeps. A write that is
cut short leaves the same lines as one that joins another (`AppendWrites`, `EndWrites`),
and the empty line that ends nothing is not behind a question (`AskedInv`).

*The research team.* `PlanInv` counts plans against the limit and the edits among the
plan's messages: a run at the planner has one to spare, which is what an edit adds and
the team's check leaves. It also says that feedback is used up wherever the run is not
at the human node, and that a run with an acceptance still to come has begun no plan.
`StepInv` says of a dispatched agent that the first step to do is of its type, and of
every step with a result that its own agent worked on it or that one of an unknown type
comes before it.

*The resumable tools.* A call that has not returned is at one of four places, and
`Facts` says for each what its interrupt's state holds, what the user was shown and what
has been executed: not begun; at the wrapper's question, which stores and shows the
model's arguments; at the inner graph's, of which the wrapper's were agreed to and
only the validation executed; or, after that, at the wrapper's question once more,
`Forgotten`, which stores and shows nothing: an approval of it finds arguments that no
graph can decode, so that nothing is executed unasked or twice. `TargetInv` ties the
decision a resume carries to the question its call has asked. `Careful`, decisions typed
by the question that was shown, is the assumption of the three theorems; without it
they do not hold (see *Outside these environments*).

*The chat session.* `PageInv` follows the card counter through the places it is kept in
(the stream, the session between an interrupt and its approval, the page): while a stream
runs the list is the counter's, the page has it as long as the connection holds, and a
page that offers an approval shows the cards the approval will count from. The messages
are numbers in the order in which the models made them. `FreshInv` says that what a turn
has still to save is new, rises, and comes after what a stopped turn still saves; from it
`LinesInv` has the lines of the file rise, the stopped turn's apart, and stay among the
session's messages. `FaultInv` counts: what was acknowledged and is not readable, with the
line a failed write has left open, is no more than the failed writes; the line that joins
an open one is the one it costs. `SavedInv` adds up a question's turn, the session's
messages and what is left to save, to the messages before it and those of the run. The
proofs reason about recursive functions by an induction principle for subsets of the
naturals (`Induction`), which is the library's well-foundedness with a set in the place
of a predicate.

*The graph agents.* `ConversationKept` is about the nodes where a model or the tools run;
`RunningInv` is what the nodes between hand on. At a node whose input is not in the local
state yet, the state and the input together are all that was said; at one that runs tools
or asks the user, the input is in the state already; and before the human node what was
said is the state with the user's query, if there is one. `AskingInv` says that while
the user is asked the checkpoint is all that was said, and `AnsweredInv` that it is so
again with the answer the state modifier will add, which is what makes the resumed node
find it.

`AllShownAtEnd` needs the printer's goroutines one by one. Every text chunk that a
goroutine has gone past in its stream is printed, in its order, or is the one value that
`printStream` has received and still holds (`Follows`). The wait group counts the
goroutines that still read, and `Exit` waits for it: when the program has ended nobody
reads, nothing is held, and what the goroutines have gone past is the whole of their
streams. `ContextIsAccepted` follows from what is said rather than from what one model
is given: in all that was said every call is followed by its results, except the last
message's while its tools are due (`AnswersInv`). The conversion for the executor leaves
out messages that have no text and no calls; where it puts the others is increasing and
skips nothing it keeps, so that a call and its results stay beside each other. The
conversion for the DeepSeek models leaves neither calls nor tools' messages.

*Model-checked only:* the liveness properties (`InvokeReturns`, `DeadLoopForgotten`,
`RequestsFinish`, `PreemptedTurnsEnd`, `RunsEnd`, `RunEnds`, `ProgramEnds`), which are out of
TLAPS's reach, as is ENABLED. A module's types that are proved are not among the
properties of its run; nor are `CheckpointAsks`, `NoStepFound`, `ApprovalResumes` and
`AckedSurvives`, which are proved too; the last follows from the contract that is
checked.

## Not modelled

Prompts, models and tools of the examples; HTTP, SSE and file formats; validation of
requests that changes no state; the search, order and limit of a task list; keepalives,
uploads and rendering in the chat server. The examples that configure the framework
and call it once have no state of their own.

Of the parts in the inventory: the Ralph loop is one loop with a
counter, whose steps are the framework's; graceful exit races a signal with a run, but
the race is inside adk; the ReAct examples and the todo agent keep one message
list in one call; the knowledge index and devops tools are pure functions of their
input. The streamable graph tool differs from the invokable one in how its output is
passed on. In the session store, listing and titles only read.

## Plan

1. The chat server's theorems for calm clients with deletions, where TLC finds
   `ReplyToOwnTurn`, `HistoryInOrder` and `ApprovalResumes` to hold; with timeouts, or
   approvals at another pace, they do not (above).
2. The Ralph loop's limits and verification, if its rules grow beyond a counter.
