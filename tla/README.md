# Collaborative Context Engine: a TLA+ verification project

The Collaborative Context Engine (CCE) is a TypeScript monolith over
PostgreSQL. A team talks in *conversations*; what was said is evidence. Model
extraction and agents turn evidence into *ContextDeltas*, immutable proposals
over the commit a conversation was branched from. A *merge request* puts each
proposed change to human review against the project's HEAD, and finalizing a
fully reviewed request appends a *ContextCommit* to a linear history and moves
HEAD and the table of current items with it.

These modules model the program from the row lock to the browser tab, for one
project, as its requests interleave: three-way merge with review, finalization
and membership; the agent runs and extractions that propose Deltas; chat,
messages, uploads and imports, which are the evidence; the packs models are
shown; a request to a model provider; the HTTP server and the web client. TLC
checks them on small instances, and TLAPS proves the properties of the core for
every value of the constants.

## 1. Inventory

| Component | State it keeps | Operations | Talks to |
|---|---|---|---|
| Three-way merge (`packages/context-engine`) | none | `createThreeWayMergePlan`, scope and JSON comparison | called by MergeService |
| Merge review (`application/merge-service.ts`) | merge requests, review rows, finalizations | `create`, `resolve`, `finalize` | three-way merge, context and merge repositories |
| History (`database/repositories.ts`, `0001_initial.sql`) | commits, item versions, current items, `projects.head` and `version` | `insertCommit`, `applyProjectionChanges`, `advanceHead`, `getSnapshot` | written by `finalize`, read by all |
| Projects and members (`project-service.ts`, `authorization.ts`) | projects, members | `create`, `update`, `addMember`, `changeMemberRole` | every service reads the role first |
| Extraction (`extraction-service.ts`) | model runs, Deltas | `extract` with a structured-output retry | conversations, model provider, context repository |
| Agents (`packages/agents`) | agent runs, Deltas | `start`, `resume`, `cancel`, `reconcile` | model provider, run and context repositories |
| Chat (`chat-service.ts`) | messages, model runs | `chat` (stream), failure and disconnect handling | conversations, context packs, model provider |
| Conversations (`conversation-service.ts`) | conversations, branches, messages | `create`, `update`, `appendUserMessage` | projects |
| Import (`conversation-import-service.ts`, `packages/conversation-import`) | previews, imports | preview, submit, `confirm`, continuation, parsing of exports | conversations, staged uploads |
| Attachments (`attachment-service.ts`, `packages/storage`) | files, attachment rows, staged uploads | `upload`, `uploadForImport`, download | conversations, file system |
| Context packs (`context-builder.ts`, `context-router.ts`) | none | `buildContextPack`, `routeContext` | chat, extraction, agents |
| Model provider (`packages/model-provider`) | one request's state | `stream`, `generate` | chat, extraction, agents |
| HTTP server (`apps/api`) | requests under way | routing, bodies, responses, aborts, shutdown | every service |
| Web front ends (`apps/vue`, `apps/web`) | session, route, requests in flight | sign in and out, load, act, chat, upload | HTTP server |
| MCP server, runtime wiring | none of their own | parse, authenticate, call | every service |
| Migrations (`database/migrations.ts`) | migration table | `runMigrations` | database |

What is hard about it. Every behaviour of the server comes from concurrent
requests, each a sequence of READ COMMITTED transactions. Some lock the project
row first (`resolve`, `finalize`, role changes, archiving, uploads, imports) and
serialize; others check membership and archival without a lock and write
afterwards (`create`, the Delta insert, conversations); messages lock their
conversation and then share the project's lock, in the opposite order of uploads.
Plans are computed twice, when a request is created and when it is finalized, and
the second is paired with review rows stored by the first. Bases are stale as a
rule. Clients whose answer was lost try again. Streams, agent runs, uploads and
imports span several transactions, with a crash, a disconnect or a rival possible
between any two. A request to a provider may be ended by its deadline, its caller,
its consumer or the other side, in any order; and in the browser a view or a
session may be replaced while its requests are in flight.

What makes each component correct, in brief: the *merge* never calls clean what
drops others' work; *review* is what is committed, over the HEAD it was made for;
*history* is one chain, each Delta applied once, its projection equal to its
replay; *members* always include an owner and only owners commit high-risk
context; *runs and streams* end once, with their message or Delta; *imports* are
not repeated or forked; *attachment* rows always have their bytes; *packs* tell
HEAD; *provider requests* leave nothing behind and end; *responses* that end are
whole; a *tab* has one identity. `PROJECT.json` lists the hazards one by one, at
the lines where they bite, with the property that covers each.

## 2. Modules

### Merge, review and history

`ThreeWayMerge` is the pure algorithm as operators. A topic is a (kind, key)
pair, since the code compares them together; a kind matters only as high-risk
or expandable. A value is an object over `Fields`, an array or a scalar. A
scope keeps labels, validity interval and tags. `items.find` is modelled as it
behaves: snapshots are sorted by lineage id, so it returns the smallest.
The classification (C0 to C4), the verdict and what accepting the entry
would write are kept; reasons, provenance and confidence are not.

`ContextMerge` is one project. Its variables are tables:

| Variable | Table |
|---|---|
| `role`, `archived`, `head`, `version` | `project_members`, `projects` |
| `commits` | `context_commits` with changes and item versions |
| `projection` | `current_context_items` |
| `deltas` | `context_deltas` |
| `requests`, `finalizations` | `merge_requests` + `merge_conflicts`, `merge_finalizations` |
| `admitted`, `drafted` | none: what a transaction without a lock has read and checked |

One action is one transaction:

| Action | Code |
|---|---|
| `AdmitDelta`, `InsertDelta` | last transaction of `extract`, and `recordOutcome` of agents: checks, then insert |
| `ReadForRequest`, `InsertRequest` | `MergeService.create`: checks, snapshots and plan, then insert |
| `Resolve` | `MergeService.resolve` |
| `FinalizeWithCommit`, `FinalizeWithoutChanges` | `MergeService.finalize`, both outcomes |
| `ChangeMemberRole`, `AddMember`, `ArchiveProject` | `ProjectService` |
| `Init` | `ProjectService.create` |

A refused call changes nothing and has no action. A retry of `finalize` writes
nothing either; what it answers is `RetryAccepted`. A crash or a rollback is
the second half of a split transaction that never happens; transactions that
lock the project are atomic. Proposed changes come from models that have seen
the items of HEAD, so a Delta may target any known version, or none that
exists; extraction and agents stamp them authoritative (`Propose`).

`ContextHistory` is the promise to readers: a log of Deltas that only grows and
applies each Delta once, and a consistent set of items each entry moves forward
by exactly one version per changed lineage. `ContextMerge` implements it
(`ImplementsHistory`, with the log read off the commits and the items off
HEAD's snapshot).

`Membership` is the part that every service asks first: roles, what each permits,
changes of roles and archiving. `ContextMerge`, `AgentRun`, `ChatStream`,
`Extraction` and `Intake` extend it, so that roles change under everything they
do. `Null` names null.

### Agents and extraction

`AgentRun` is the workflow of agents. A call of `ScopedAgentService` is a chain
of transactions and model calls that holds nothing in between, so each link is
a step, and each transaction two: what it has checked, then what it writes.

| Variable | Stands for |
|---|---|
| `runs` | `agent_runs`: phase, version, proposal (by its risk), approval, who cancelled |
| `deltas`, `audit` | the `context_deltas` and `audit_events` of runs |
| `calls` | what a call has in memory: the row it last saw, the row it wants to write, whether it found a Delta |

| Action | Code |
|---|---|
| `Start`, `InsertAgentRun` | `start` up to the inserted run |
| `SelectSpecialty`, `Execute` | the model and tool calls of `ContextDeltaWorkflow.start` |
| `Ask`, `Load` | `resume`, `cancel`, `reconcile` up to the row they read |
| `Admit`, `UpdateAgentRun` | the repository wrapper that authorizes, and `transition` with its version check |
| `RecordOutcome`, `Publish` | `recordOutcome`: checks, then Delta and audit event |
| `Lose` | the answer, a refusal, a client that gives up, or the death of the process |

`resume` and `cancel` ask for `project:read` and go on with the role they have read: a
caller whose role decides nothing (stage `look`) is still answered what was decided
before, and the workflow refuses the rest by that role before the wrapper asks again.

`AgentOutcome` is the promise to who waits for proposals, and `AgentRun`
implements it (`KeepsPromise`): a run ends once and for good, and only what
completed is published, once.

`Extraction` is `ExtractionService.extract`: four transactions with the model
call and its one structured-output retry between them.

| Variable | Stands for |
|---|---|
| `conversation`, `messages` | the status of the conversation, the delivery state of its messages |
| `modelRuns`, `deltas`, `audited` | the rows an extraction leaves |
| `extractions` | what each call has in memory: who asked, the messages read, the attempt, what the model cited |

| Action | Code |
|---|---|
| `Extract` | the reading transaction, with the selection of messages |
| `InsertModelRun`, `InsertModelRunFails` | the second transaction; a COMMIT may be applied and its answer lost |
| `ModelAnswersMalformed`, `ModelFails`, `ModelProposes` | the generating loop and the checks of what came back |
| `PersistDelta`, `PersistDeltaFails` | the third, which asks for permission again |
| `FailModelRun`, `FailModelRunFails`, `ProcessDies` | the catch clause, and no catch clause |
| `AppendMessage`, `FinalizeMessage`, `ArchiveConversation` | what chat and its members do meanwhile |

`ProposalRecord` is the promise: an extraction's record is opened, and closed
once, with a proposal or without one. Model run, Delta and audit event together
are that record (`ImplementsProposalRecord`); a state in which they disagree maps
to a value the promise does not have.

### Chat and the server that carries it

`ChatStream` is chat in one conversation. `ChatService.chat` is an async
generator that the HTTP route drives; what it awaits is one transaction or one
event of the provider, and it may be returned at any event it yields. A
transaction that locks the conversation is two steps, taking the lock with what
it then reads, and inserting; that these may be seen as two is what makes the
lock mean something in the model.

| Variable | Stands for |
|---|---|
| `conversation` | `conversations.status`; the branch is open exactly while it is active |
| `messages` | rows of `messages`, by sequence number |
| `modelRuns` | `model_runs.status` of each reply |
| `locked` | whose transaction holds the conversation row |
| `calls` | each call's place in the generator and its local variables |
| `server` | serving, stopping or with its pool closed |

| Action | Code |
|---|---|
| `Chat`, `LockToAppend`, `AppendUserMessage` | `appendUserMessage` |
| `BeginReply`, `LockToReply`, `OpenReply`, `ReplayReply` | context pack and the pending transaction of `chat` |
| `ConsumeModelEvent`, `StreamFails`, `StreamEnds` | the loop over `provider.stream` |
| `CompleteReply`, `CompleteUnacknowledged` | the completing transaction |
| `FinishFailedStream`, `DatabaseFails` | the catch and finally clauses |
| `Disconnect`, `Refuse` | how the route returns the generator, and errors before the reply is opened |
| `ArchiveConversation` | `ConversationService.update` |
| `Shutdown`, `ClosePool`, `Restart` | `http-server.ts` and `main.ts`, and a process that dies |

`Transcript` is the promise to readers of a conversation: a log that only grows,
in which what a member sent is recorded once however often it is sent, is
answered at most once, and an answer ends once. `ChatStream` implements it
(`KeepsTranscript`).

`HttpServer` is the standalone server: the routes with their methods, the bounded
body, the response that is written while its handler still makes it, and what
ends each early. `requests` holds what `serve` knows of each request: its stage,
the handler's body (open, done, failed, cancelled), what was made and sent of it,
the connection, whether its signal has aborted and whether its timer runs.

| Action | Code |
|---|---|
| `Accept`, `RefuseStopping` | `handle`, the router, and the answer of a server that stops |
| `RefuseUnread`, `ReadPiece`, `ReadAll`, `ReadBreaks` | `readBoundedRequestText` and the checks before it |
| `Handle`, `HandlerThrows` | the handler, by the status its error is mapped to |
| `Respond`, `Make`, `Forward`, `Finish`, `Break` | `sendResponse`, its pipeline, and `serve`'s catch and finally |
| `PeerCloses`, `Timeout`, `ShutdownServer`, `Stop` | the abort controller of a request, `shutdown` |

A body that exceeds its limit without having declared its length is cancelled,
which may end the connection before the 413 is written (`request.ts:75-78`):
`ReadPiece` has both outcomes.

### Evidence: messages, files, imports

`Intake` is what writes evidence besides chat: `appendUserMessage`, archiving,
`upload`, `uploadForImport`, previews, submissions and `confirm`. Here the row
locks are state, because calls take them in different orders.

| Variable | Stands for |
|---|---|
| `conversations`, `messages`, `attachments`, `uploads`, `previews`, `imports` | the tables of those names |
| `objects` | files in the attachment storage |
| `projectLock`, `rowLock` | who holds the project row FOR UPDATE, and each conversation row |
| `calls` | kind, stage and arguments of each call |

| Action | Code |
|---|---|
| `AppendUserMessage`, `ArchiveConversation`, `LockTarget`, `LockToArchive`, `CommitMessage`, `CommitArchive` | `ConversationService` |
| `BeginUpload`, `BeginStage`, `StoreBytes`, `StoreBytesFails` | authorization and the file, before the transaction |
| `LockProjectToUpload`, `CommitUpload`, `CommitStage` | the transactions of `AttachmentService` |
| `PreviewProviderSubmission`, `SubmitProviderPreview`, `Confirm` | the entry points of imports |
| `LockProjectToImport`, `CommitImport` | `persist`: what it reads under the project's lock, and what it writes |
| `ExpireUpload`, `ExpirePreview` | time |
| `DeadlockDetected` | PostgreSQL ends a circle of waits; `PostgresUnitOfWork` rolls back and releases |

The audit event of a message references the project, so it waits while somebody
holds the project row FOR UPDATE (`ShareProject`): that closes the circle with an
upload, which holds the project row and waits for the conversation. Neither order
is hidden; the question is whether everybody is answered.

An import that has passed its checks is committed even if the project is archived
between them and `lockById`, which looks at neither
(`conversation-import-service.ts:264-267`); confirming a file again with another
selection answers with the earlier import, as ADR 0007 decides. Both are in the
model, and `BoundUnderAuthority` is stated for uploads where the code promises
it.

`ExportedPath` is how one conversation of an export becomes evidence:
`parseConversation` (nodes, warnings, limit) and `selectCurrentPath` (the walk
from the current message to a root, refused when it comes back to itself). An
export whose current node has no message, or only shadowed ones, gives an empty
path without a warning, and the error for a cycle is raised outside `parse`'s
wrapper, so it is answered as unexpected; both follow the code. It shares
`Selection` with `ContextPack`: `Filtered` is `Array.prototype.filter`.

### What models see and say

`ContextPack` is `buildContextPack`: the items of HEAD sorted into sections, the
newest messages that fit a budget, and `routeContext`, which withholds sections
by route. `routeContext` is exported and tested, and no service calls it.

`ModelProvider` is one request of `QwenVllmModelProvider`. Its state is the
request, its `RequestDeadline` (timer, listener, what fired), the reader of the
response body, the locals of `readSseData` and of `stream`, and what the consumer
heard. Bytes are counted in parts, and an event may be cut anywhere between reads.

| Action | Code |
|---|---|
| `Refuse`, `SendRequest` | `validateRequest`; the deadline and the fetch |
| `Accept`, `AcceptUnusable`, `Reject`, `ReadErrorDetails` | the response by status and content type, error bodies and their codes |
| `ReadBody`, `EndBody` | `generate`: the bounded body and its checks |
| `Read`, `EndOfStream`, `NoBoundary`, `Frame` | `readSseData` |
| `CheckIdentity`, `ReadText`, `ReadUsage`, `Resume`, `Return` | the loop of `stream` between its yields |
| `TimerFires`, `CallerAborts`, `AbortLands`, `ConnectionLost` | what may end it, at any await |
| `Close` | the catch and finally clauses |

`ModelStream` is the promise to whoever iterates: one start, then text and usage,
then one finish, and only a finished stream ends without an error
(`ImplementsModelStream`). It is what `ConsumeModelEvent` of `ChatStream` takes
for granted.

### The web client

`Client` is one browser tab of the Vue front end: `Session`, the router with its
guards, the views that are mounted, and the requests in flight. A request remembers
which part of the page asked, whose cookie it carries, whether who asked is still
mounted and whether its generation is still the current one; the cookie itself is
the browser's, and changes as soon as the headers of an answer arrive.

The pages of a project are views in a view. `ProjectView` has a resource and an
action of its own (rename, archive), mounts its child once the project is loaded
and stays mounted from one page of the project to another; inside it,
`ConversationView` has two resources, and `MergeView` one beside that of its
`MergeReview`. A page therefore has up to three *parts* (`Parts`): the project, the
page, and a detail of it. Each has its own load and its own entry in `shown`, and
`MayStay` says which of them outlive a navigation: `ProjectView` within its project,
`MergeView` from one review to another, everything where one already is, and nothing
on the way to another project. So a PATCH of the project may be in flight beside a
chat, an upload or a review's action, and across a change of page.

An action may wait for a load it has asked for (`MergeReview` after each of its
requests, a chat that broke off); while that load is under way its `useAction` is
busy (`Awaited`). `Report` is every way to the error page besides a failed bootstrap
and a failed sign-out: an error nobody caught, a component that could not be loaded.

| Action | Code |
|---|---|
| `Go`, `Bootstrap`, `Guard`, `Arrive`, `RefreshPage`, `Report` | `router.ts`, `App.vue`, `main.ts` and the browser |
| `Login`, `Logout`, their ends and failures | `data/session.ts`, `LoginView`, `App.vue` |
| `Create`, `UpdateProject`, `CreateConversation`, `Update`, `ExtractDelta`, `RunAgent`, `ResumeAgent`, `Review`, `Chat`, `Refresh`, `Resolve`, `Finalize` | what views do through their `useAction` |
| `Upload`, `CancelUpload`, `RetryLoad` | `AttachmentUpload`, `useResource` |
| `Hear`, `Unauthorized`, `LoadEnds`, `LoadFails`, `ActEnds`, `FinalizeEnds`, `ReviewReloads`, `ChatEnds`, `ChatFails`, `UploadEnds`, `Fails` | `ApiClient` and what answers do |

The page `conversations` stands for a page of a project with one resource (also
context and history), `merge` for one with a review open. Only the answers that
change the cookie have headers that arrive before their body. What a role may see
or press is left out, which allows more actions than the views do.

Two things about the client that the model shows and no document rules out: a
reload after an upload replaces what a chat has shown so far
(`ConversationView.vue:44-51,95`), and two tabs share one cookie, so a sign-in in
one is noticed by the other only at its next answer. `OneIdentity` is about one
tab.

### Checking and proving

`MCContextMerge`, `MCAgentRun` and `MCChatStream` give the constants of the runs
of one module. `MCModelCalls` (provider, extraction, pack, client), `MCIntake`
(intake, export) and `MCServer` (chat, server) hold several modules that share
no variable: a variable `subject` says in the first state which of them the
behaviour is about, and the others stay as they are. So one run asks a group of
related questions, the states of the modules add up, and properties of one
subject hold trivially in the behaviours of the others.

`ContextMergeProofs`, `AgentRunProofs`, `ChatStreamProofs`, `ModelCallsProofs` (of
`Extraction` and `ModelProvider`), `IntakeProofs`, `ClientProofs`,
`HttpServerProofs` and `SelectionProofs` (of `ContextPack` and `ExportedPath`) hold
the theorems.

Definitions whose comment begins with "Mutant" are altered forms of the
definition below them, with a plausible bug. Nothing uses them; putting one in
the place of its definition makes the property `PROJECT.json` names for it fail.

## 3. Runs

| Run | Question | Properties | Instance |
|---|---|---|---|
| `review` | Is there always an owner, is high-risk context committed by owners, is the plan at finalize the one reviewed, do retries replay and requests only move forward, while roles change? | `TypeOK` `HasOwner` `PlanStaysReviewed` `FinalizationsReplay` `HighRiskByOwner` `RequestsMoveForward` | 2 users, 2 Deltas of one decision, 2 requests, 2 keys |
| `history` | Is history linear, each Delta applied once, concurrent work kept, a slot held by one authoritative item, the abstract log implemented? | `LinearHistory` `DeltaAppliedOnce` `OneAuthoritativePerSlot` `CleanKeepsConcurrentWork` `ImplementsHistory` | 2 Deltas of facts that grow, contradict and overlap; 3 requests, 2 commits |
| `stale` | Does the projection equal the replay, and does every commit replace the parent's current version? | `ProjectionIsHead` `LineagesNeverFork` | 3 Deltas, 3 requests, 3 commits |
| `batch` | Does a commit hold what was decided, with two changes per Delta meeting in one lineage or slot, and with edits? | `CommittedAsReviewed` | 2 Deltas of 2 changes, edits |
| `races` | Is what completed, and nothing else, published and audited once, and does execution end when nothing disturbs it? | `TypeOK` `PublicationAuditedOnce` `CompletionAnsweredIsStored` `KeepsPromise` `ExecutionEnds` | 1 run, 2 calls at a time, 2 users |
| `chat` | Are appends and replies serialized, do reply and model run end together, is what a client was sent stored, is the transcript kept? Are responses whole, and does shutdown end? | `TypeOK` `LockedReadsHold` `AnswersAreStored` `KeepsTranscript` `RepliesEnd`; `ResponsesAreWhole` `ServerStops` | 2 calls, 2 users, 2 message ids; 2 connections |
| `model` | Does a provider request leave nothing behind, end, and tell its consumer the truth? Is an extraction one record of what was read? Has a tab one identity and one view? Does a pack tell HEAD? | `ProviderTypeOK` `NothingLeftBehind` `RequestEnds` `ImplementsModelStream`; `CitesWhatWasRead` `ImplementsProposalRecord`; `OneIdentity` `RequestsBelongToTheView`; `PackTellsHead` | see below |
| `intake` | Is evidence whole and bound under authority, are imports made once and in one line, is every call answered? Is what an export gives the current path? | `EvidenceIsWhole` `BoundUnderAuthority` `ImportsNeverRepeatOrFork` `CallsEnd`; `EvidenceIsTheCurrentPath` | 2 new calls beside a staged file, a preview and an import |
| `equal`, `archived`, `audit`, `shutdown` | Four statements of the repository that the program does not keep | `EqualValueIsDuplicate`, `ArchivedProjectIsReadOnly`, `CancellationsAudited`, `ShutdownEndsReplies` | see below |

Every property is stated in words above its definition.

**Bounds.** `CommitIds`, `DeltaIds`, `RequestIds`, `ChangeIds` and `Lineages`
bound how many of each are ever created; `MaxUnderWay` bounds how many Deltas
and unfinished requests exist at once. Two commits after genesis are enough for
a stale base, a stale evaluation, a retry after HEAD moved and a superseded
version; the third of `stale` adds a version that is twice replaced and one that
is deprecated and brought back by an accepted conflict. Two requests for one
Delta are the shortest route to applying it twice, and the third of `history`
lets a rival of another Delta come between. Two lineages and two changes per
Delta are what it takes to meet in one slot. Values are objects over two
fields, so that an expansion, a contradiction and a subset all occur. Edits
under review are exercised by `batch`; `review` is about who may do what when,
and has none. Arrays and scalars take part only as values that are never expanded
and are left empty in the runs. Validity intervals and tags are not varied.

In `AgentRun`, `Calls` bounds the calls under way at one time: an ended call
frees its place, so two places give any number of calls of which two interleave,
which is what a race on a version needs. Runs of different ids share nothing
but the members. In `ChatStream`, `Calls` bounds the calls ever made: two are a
first attempt and its retry, or two rivals. Two message ids tell a retry from a
new message. One content is enough, since it is only compared along with its
author, and two users vary the author; `InOrder` names calls, members and message
ids in the order of their use.

In `model`, `EventLimit`, `StreamLimit`, `BodyLimit` and `ContentLimit` are 2 to
6 parts, so that each limit is met, passed by one and straddled by an event;
`Reads` has whole events, halves, and reads that end one and begin another. One
extraction, two members and at most three messages of which two are shown
(`Window`) let a message be too old, still streaming, or appended after the read.
`Client` has two people and no other bound: each part of a page has one load and
each `useAction` one action, which keeps it finite. `Packs` are all orders of three out of seven items that differ in
kind, key, authority and lifecycle, one pack of every kind, one too many, and all
conversations of up to three messages with budgets around their lengths.

In `intake` (`Asked`), a member has staged a file and previewed the next part of a
conversation that was imported before, with that file. A second preview may be a
rival next part with no file, or another submission of the same file: the two
next parts share nothing but the import they continue, so only the look for an
existing continuation under the project's lock keeps them from forking it. Two
more calls of any kind run against each other, the file expires, the preview expires, the member is demoted
or the project archived. Two calls and the project's lock are what a circle of
waits needs. Exports are all graphs over three entries with and without messages,
with an id of their own or another's, and any parent, known or not: four names
(`ExternalIds`), one of which only a fourth entry, one too many, ever has.

In the server's part of `chat` (`Quiet`), one request for any route or none meets every
order of reading, answering, breaking and aborting; a second, a chat whose model
says nothing, is what may hold up a shutdown. A request body of one piece over
its limit and one piece of a response are enough for a body cut anywhere.

**Symmetry** is used on ids that are only compared (Deltas, requests, changes,
commits other than genesis, keys), and in no run that checks liveness. Lineages
are numbers, because their order decides what `find` returns, and are not
symmetric.

**Deadlock** in TLC's sense is not checked: every id may be used up or the
project archived, and then nothing more happens. Calls that wait for each other's
row locks are `CallsEnd`'s subject.

**Fairness.** For review and finalization none is assumed and no liveness is
claimed: each step is a person's or a client's choice. Elsewhere fairness is weak
and is assumed of what a program does by itself, never of what a person does:

* `Watched` (`races`): an awaited query returns, and a model call ends, since the
  provider has a deadline (`RequestDeadline`). `ExecutionEnds` speaks of what
  happens while `calm`, that is until a process dies, a client gives up or a role
  changes, because nothing takes up a run whose worker is gone.
* `Progress` (`chat`): the same for a call of `chat`; a call whose process died,
  or that lost the database on both attempts to end its reply, is the exception
  `RepliesEnd` states.
* `ProviderFairness` (`model`): the timer fires, the code between awaits runs, an
  error body arrives or is cut off, and a consumer asks for one event after
  another. Nothing is assumed of the network: that `RequestEnds` holds is the
  deadline's doing.
* `IntakeFairness`: statements end, and PostgreSQL looks for deadlocks.
* `ServerFairness`: a handler answers at last (what it waits for has deadlines,
  and looks at the signal) and a destroyed connection ends its read. A slow body
  is not hurried and no deadline counted on: that `ServerStops` holds is the
  doing of the aborts.

**What the code does not keep.** `equal`: an addition equal to the value in
force is a conflict or an expansion when an alternative of the same slot sorts
before it. `archived`: a Delta or a merge request whose checks passed before the
project was archived is inserted after it. `audit`: a cancellation is committed
before its audit event, which may never come. `shutdown`: the server closes its
pool without waiting for the clean-up of an aborted stream, so the reply may be
left streaming. `PROJECT.json` quotes the statements.

## 4. Proofs

All theorems hold for every value of the constants, from assumptions that say
little more than that null is none of the values it stands beside:
`MemberAssumption`, `NoneAssumption`, `RunAssumption`, `NothingAssumption`,
`ChatAssumption`, `ExtractionAssumption`, `ProviderAssumption`, `IntakeAssumption`,
`ClientAssumption`, `ServerAssumption`, `PackAssumption` and `ExportAssumption`.
Beyond that: limits and bounds are
numbers; lineages are positive and genesis is a commit id (`IdAssumption`);
proposals and edits are made of topics, scopes and values (`ProposalAssumption`),
and no topic is both high-risk and expandable (`TopicAssumption`); what a
provider sends is made of the events and parts the model has
(`ProviderAssumption`); a client has a key and something to say
(`IntakeAssumption`); handlers fail with what `mapError` knows
(`ServerAssumption`); the items a pack is built from have ids of their own, as the
primary key of item versions gives them, and a completed message has content, as
`messageSchema` demands (`PackAssumption`); and an export has entries with names,
and with the five roles, but any graph (`ExportAssumption`).

* `ContextMergeProofs`: `TypeCorrect` (`Spec => []TypeOK`). `TypeOK` is inductive;
  it includes referential integrity (a request's Delta, base and evaluated HEAD
  exist), which is what lets a stored id be dereferenced. The work is in the plan:
  each entry's current version is an item version or null and a reviewable entry
  has a proposal unless it deprecates (`PlanEntryOK`), and materializing such an
  entry gives a well-formed commit change (`MaterializeChangeOK`). `NatMin` and
  `FirstOfMember` show that the smallest lineage exists, by well-foundedness.
  `ProjectKeepsOwner`: demoting an owner requires another one.
  `RequestsFollowTheirTable` needs that a request id is drafted or inserted,
  never both (`DraftsAreNew`): an insert does not overwrite a request.
* Also there: `HistoryIsLinear`, `DeltasApplyOnce`. They are inductive
  only together and with `Numbered` (genesis is version 0 without a parent, no
  version exceeds the project's): the new version number is unused because none
  exceeds the old one; the new chain is everything because the old one was
  (`ChainGrows`, by removing the new commit from any set closed under parents);
  and the Delta is new because its changes would all be duplicates if HEAD's
  chain, which is the whole history, had applied it.
* And: `ProjectionFollowsHead`, `NoLineageForks`,
  `SlotsStaySingle` and the refinement `HistoryIsKept`. `SnapshotInv` adds that
  versions belong to commits, that HEAD's snapshot has one version per lineage
  (`OneVersionPerLineage`) and that numbers have no gaps. A commit leaves the
  snapshots of older commits alone (`OldSnapshots`) and its own is its parent's
  with the batch applied (`NewSnapshot`), which is what the projection does too;
  a batch that is accepted leaves each slot single (`BatchSucceeds`). With that,
  a finalization maps to one step of `ContextHistory`, and everything else to a
  stutter.
* And, about review: `ReviewedPlanIsFinal`. The invariant speaks of drafts too,
  and of every status: if a request was evaluated at HEAD, its review rows are the
  plan over HEAD. The plan depends on Deltas and history only, Deltas are never
  rewritten, resolving writes resolutions only, and a commit leaves no request
  evaluated at HEAD. From it `HighRiskNeedsOwner` (the topics a commit touches are
  among those `resolutionIncludesHighRisk` looks at, `TopicsAuthorized`),
  `CleanIsSafe`, and, with `Offered` (drafts are new and undecided, an edit is
  rebuilt from its row) and `Decided` (finalizations are the closed requests and
  each commit has one), `ReviewIsCommitted` and `RetriesReplay`.
* `AgentRunProofs`: what a call has seen is past: its row's version is not above
  the stored one, a row of the same version is the stored row, and a terminal row
  seen is the stored row. With it the version check of `updateAgentRun` is all
  that is needed for `RunsFollowTheirTable`, `OnlyCompletedIsPublished` and, with
  the primary key of Deltas, `PublicationIsAuditedOnce`; a call that answered saw
  its Delta stored (`CompletionIsStored`). `RunsKeepPromise` maps every step to a
  step of `AgentOutcome` or a stutter.
* `ChatStreamProofs`: `ChatInv` says who holds the lock (`LockHolder`), what the
  stored rows say of what each call remembers (`Sound`: its message is its own,
  its reply answers that message, and still streams until the call has tried to
  end it) and that two calls never write one reply (`OneWriter`). A step of one
  call changes no row that another looks up unless it holds the lock, and ends no
  reply of another; `CallStep` proves that once, and each action is an instance.
  `ChatTypeCorrect`, `ChatLockedReadsHold` and `ChatAnswersAreStored` follow, and
  `ChatKeepsTranscript` maps every step to a step of `Transcript` or a stutter:
  the unique indexes that `AppendUserMessage` and `OpenReply` meet are what makes
  them steps of `Say` and `Begin`.
* `ModelCallsProofs`, of extractions: what a call has read was whole and stays so
  (`ReadWhole`), since messages are only added and a completed one is never
  written again (`MessagesGrow`); a call that asks the model has a run that is running
  (`RunIsOpen`), and Delta and audit event are there for the runs that completed
  (`OneRecord`). So `DeltasCiteWhatWasRead`, for which the greatest sequence read
  must exist (`GreatestIsOfIt`, again by well-foundedness), and `RecordsAreKept`:
  only a run that is running is ended, so one record moves at a time.
* `ModelCallsProofs`, of the provider: `ProviderInv` says what there is at each
  stage. A request that is closed has its timer cleared or fired, no listener and
  no open reader (`CleanedUp`); only `stream` has events (`ForItsKind`,
  `EventAtHand`); how a request ends is decided when it begins to close and said
  when it has (`EndsOnce`); and nothing follows the finish that was told
  (`ToldInOrder`). `RequestsLeaveNothingBehind` and `StreamsKeepTheirPromise`, which
  maps every step to a step of `ModelStream` or a stutter, follow.
  `RequestsHaveTheirShape` needs that `bufferBytes`, a running total, is what the
  buffer holds: `Bytes` is additive (`BytesOfBoth`, `BytesOfRest`), which is proved
  by the least prefix that would be a counterexample.
* `IntakeProofs`: calls of several services write the same tables under
  row locks. `CallOK` says of each call where it can be (`Shaped`), which locks it
  holds there (`Holds`), that what it has read under them is still so (`Knows`), and
  that its file is stored (`HasStored`). `CallKept` shows once that a step of another
  call cannot disturb that, since it would need a lock that is held. `MessagesOnce`,
  `UploadsWhole`, `AttachmentsWhole` and `ImportsInOrder` hold of what is committed;
  the hardest step is the commit of an import, which adds conversations, messages
  and attachments at once (`CommitImportStep`). From them `EvidenceStaysWhole` and
  `ImportsOnceInLine`: the project row is what makes "no such import" and "no
  continuation yet" true at the insert. `BindingIsAuthorized` is an action property:
  authority is asked again under the lock, after the file was stored.
* `ClientProofs`: what may still arrive decides both theorems. A request in flight
  is `Timely`: a bootstrap only before anybody is known, a login only while nobody
  is signed in and nothing private is shown, a logout only while the view says so,
  what a part of the view asked only while that part is mounted. `IdentityIsOne`
  and `RequestsBelong` follow; that what two requests take is never the same (`Alone`, by `Slots`:
  the session, the load of a part, ProjectView's action, the page's action) is part of
  the invariant. A navigation is the step with the most cases, since some parts stay.
* `HttpServerProofs`: `ResponsesStayWhole`. `Overlap` looks at all 36 routes and shows,
  for every path, that a second match can only be `imports/[]`, after one of the four
  routes that name one segment more (`ImportsNameMore`); so the first match is the
  intended one (`FirstRouteIsIntended`) though the router compares no specificity.
  `Sound` relates the stage, the body, what was sent and the connection of one
  request; every action changes one request and keeps it sound, and the shutdown
  aborts each one.

* `SelectionProofs`, of packs: `PacksTellHead`. Nothing interleaves here; the steps are
  few and the work is in what an algorithm computes from one input, for every
  input. Recursion is written as recursive functions, and the induction the
  library offers only for operators is done with sets for predicates and functions
  for steps: `Least` (by well-foundedness), `Upwards` from it, and `CourseExists`
  (a recursion has a course of values, which is what the `CHOOSE` in a recursive
  function needs). With those: `FilteredIsTaken` (what is filtered is taken in
  order, all of it, from increasing places), `SortedLists` (the sorted sequence
  exists and lists each item once, since `compareItems` is a strict total order on
  items of distinct ids: `PrecedesIsOrder`), `TotalIsSum`, and `RecentAreTold`: the
  loop of `selectRecentMessages` stops at the most messages that fit, because fewer
  fit whenever more do (`FewerFit`), and cuts one only when it is alone. `PackInv`
  says that a pack is what its input gives, but for what its route withholds.
* `SelectionProofs`, of exports: `EvidenceIsLineage`. The property speaks of the file:
  entries, the one that counts for a name, and ancestors as the least set closed
  under parents. The code speaks of nodes, a map by id and a loop. `NamesAreIds`
  and `ByIdCounts` relate the two readings, the last of several entries with one
  name included. `WalkGoesUp` gives the walk as a function on all numbers;
  `AncestorsAreMet` and `MetAreAncestors` show that what it meets later is an
  ancestor and every ancestor is met. If as many steps as there are names, and one,
  all stay inside, two of them meet one name (the pigeonhole of `CyclicLoops`) and
  the lineage loops; if one leaves, nothing met before can come back (`NoWayBack`),
  so a conversation is refused as malformed exactly when its lineage loops.
  `ExportInv` says that
  what was parsed is what the file gives, and that its evidence was taken from it
  once.

So every safety and action property and every refinement the passing runs check
is proved. Liveness (`ExecutionEnds`, `RepliesEnd`, `RequestEnds`, `CallsEnd`,
`ServerStops`) and ENABLED are outside what the prover handles and are only
model-checked: the runs show them on their instances. The modules here declare no
RECURSIVE operator. Some definitions are written so that the provers can read
them: filtering and summing as recursive functions (`Selection`), ancestors as
the intersection of closed sets and not as a transitive closure, which is a
function of two arguments.

## 5. Plan

Done: every component but migrations has a module; every hazard listed but the
three whose note says why has a property. Next, in this order:

1. `ThreeWayMerge` on its own: disjoint clean changes commute, the reference
   rules of `docs/merge-semantics.md`; and which ready requests can never be
   finalized.
2. `ChatStream` composed with `ModelStream` in place of `ConsumeModelEvent`'s free
   choice, and with `HttpServer` in place of `Disconnect`.
3. Arrays, scalars, validity intervals and tags in the instances of `ContextMerge`.
4. The React workbench, as a second client over the same requests.

## 6. Not modelled

Migrations: one transaction under an advisory lock, before anything is served, so
nothing interleaves with it, and what a migration contains is SQL. The MCP server
and the wiring of services: they keep no state and make calls the models allow in
any order. The React workbench: one component that makes the calls `Client` makes,
without aborting them. `semantic-classifier.ts`: nothing but its tests calls it.

Within the modules: several projects (tables are partitioned by project and no
operation spans two); creating and renaming conversations, renaming projects;
reads for display, and the inspection and download of files; audit events other
than those of agent runs and extractions; wording, hashes, size limits in bytes,
JSON depth, provenance, confidence and the kind-by-kind value schemas: no property
here tells them apart. In `create` the checks and the reading of HEAD are one
step; they are separate statements, but what is inserted depends on immutable rows
and the HEAD read, and the checks are as stale at the insert in either reading. In
`Intake` one message stands for those of a submission, and expired staged rows are
not pruned. In `ChatStream` one content stands for all, and the provider's events
are chosen freely.
