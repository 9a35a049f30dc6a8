# Verification of the customer-demand agent

TLA+ specifications, TLC configurations and TLAPS proofs for the Go service under `src/internal` and the part of the
web client that takes part in its protocols. Paths without a prefix are relative to `src/internal`.
`PROJECT.json` is the machine-readable index: it maps every definition to the lines it models, and lists the runs, the
mutants (one plausible bug per property, which the property must detect), the hazards and the theorems.

    tlasany M.tla                          parse a module
    tlc -workers 2 -config X.cfg MCM.tla   check a run
    tlapm M.tla                            check the proofs of a module

## 1. The system

A multi-tenant web service. A user writes a message into a session; the server starts a *Run* (a goroutine that drives
an LLM agent with tools), answers 202 at once and streams the Run's events to whoever subscribes. The agent reads and
writes a wiki of reviewed knowledge; what it writes becomes visible to agents only after a human approves it.

| Component | Source | State it keeps | Operations | Hard behaviour |
|---|---|---|---|---|
| Run registry and event fan-out | `channel/http/runs.go` | `runs`, `buffer`, `lastSeq`, `subs` under one mutex; a channel per subscriber | Start, emit, Subscribe, unsubscribe, ReplayAfter, Cancel, CancelTenantUser, CancelUser, DropSession, DropTenant | sends outside the mutex, removal by key, panics, resets while a Run executes |
| Session stream | `channel/http/analyze.go`, `frontend/src/pages/Conversation.tsx` | the handler's cursor, the tab's cursor | stream, reconnect, reload, truncate, delete | replay/live/tail hand-over, overflow, check-then-act |
| Agent turn | `agent/{agent,submit}.go` | the turn's budgets, gates, messages, accepted analysis | the model loop, tools, analysis_submit, ask_user, checkpoint | budgets, batches, forced finals, order of submission and question, cancellation, crash |
| Short-term memory | `memory/shortterm/manager.go` | checkpoint chain of each branch, current document | create checkpoint, restore, compact | compaction in memory and on disk, restore after restart |
| History | `history/store.go` | SQLite: sessions, messages, branches, checkpoints | append, branch, truncate, list, search, own, delete | first-message races, numbering, branching |
| Reviewed knowledge | `memory/longterm/*.go`, `memory/tools/*.go`, `review/review.go` | Markdown files and their index | ensure, observe, upsert, delete, archive, approve, reject, load | file and index written in two steps, pending against verified, pointers used after the unlock |
| Identity, membership, login sessions | `identity/{service,store,middleware}.go` | SQLite: users, tenants, members, auth sessions | register, log in, switch tenant, roles, disable, delete | last owner, last administrator, status read outside the lock, revocation races |
| Tenant runtimes | `tenancy/runtime.go`, `cmd/agent/main.go` | a directory and a cached runtime per tenant | provision, migrate, ForTenant, close | crash before the rename, a shared staging directory, close under a Run |
| Background tasks | `taskbg/*.go` | a queue of 64 and a history of 100 | submit, run, list | blocking submit, panics, stale reads |
| Model access | `model/*.go`, `llm/*.go` | registry of providers, routes | chat, stream | retries, fallback, partial streams |
| JiYing channel | `channel/jiying/*.go` | websocket connection, pending requests, current turn, acknowledged cursor | deliver, request, handle event, acknowledge, reconnect | back-pressure, redelivery, late answers |
| Leads tools | `leads/*.go` | token bucket | wait, fetch | waiting, cancellation |
| Rate limits, cookies, CSRF, passwords | `auth/*.go` | a window per key | allow, verify | the boundary of a window |
| Configuration | `config/config.go` | a JSON file | load, update, save | atomic replacement |

Interactions. An HTTP handler resolves the caller's scope (identity), then the tenant's runtime (tenancy), then calls
the registry: `messageCore` starts a Run whose function appends the user's message to the history and executes the
turn; the turn emits events through the registry, calls the model and the tools, which act on the wiki, and hands its
checkpoint to the history through a callback. The stream handler shares nothing with the Run but the registry's
buffer, channels and the Run's `done` channel. Truncate and delete first ask the registry whether the session is busy
and then change the history and drop the session's events. Administration handlers change identity and then cancel
Runs. Consolidation tasks write the wiki from a worker of their own.

What makes each part correct: one writer per session and gapless buffers (registry); a view that is shown every
event once and in order unless a known mishap occurred (stream); recommendations that rest on pages read, budgets,
at most one analysis, checkpoint and end in agreement (turn); conversations that only grow, and a memory that agrees
with them (history and short-term memory); agents that see approved knowledge only, and approved knowledge that is
never lost (wiki); an owner and an administrator at all times, and no work under revoked rights (identity); complete
tenants or none (tenancy); at-least-once handling that makes progress (JiYing); tasks that end (tasks); no retry
after the first byte (model access).

## 2. Modules

| Module | Models | Composes / implements |
|---|---|---|
| `TenantIds` | the names the next modules share | |
| `Selection` | what a filter, in SQL or in a loop, returns of a sequence | |
| `RunManager` | `channel/http/runs.go` | |
| `RunManagerProofs` | theorems about `RunManager` | extends it |
| `SessionStream` | the stream handler, the tab's subscription, truncate and delete | extends `RunManager`; implements `LossyFeed` |
| `SessionStreamProofs` | theorems about `SessionStream`, the refinement included | extends it and `RunManagerProofs` |
| `StalledClients` | clients that stay connected and stop reading; the fairness of Runs and handlers | extends `SessionStream` |
| `LossyFeed` | abstract: a reader is shown a log strictly forward | |
| `TenantLifecycle` | provisioning, migration, the cache of runtimes, the tenant's status | |
| `RequestFlow` | posting a message, deleting, cancelling, and the changes of rights that cancel Runs | extends `RunManager` and `TenantLifecycle` |
| `RequestFlowProofs` | theorems about `RequestFlow` and `TenantLifecycle` | extends `RequestFlow` and `RunManagerProofs` |
| `Membership` | accounts, tenants, memberships, login sessions | |
| `MembershipProofs` | theorems about `Membership` | extends it |
| `AgentTurn` | one turn: `runStreaming`, the tools' gates, `Message`, the end of `executeTurn` | implements `TurnContract` |
| `TurnContract` | abstract: accept once, save what was accepted, then finish | |
| `SessionHistory` | messages, checkpoints, branches; the chains in memory; restarts | |
| `SessionHistoryProofs` | theorems about `SessionHistory` | extends it |
| `WikiReview` | one page of reviewed knowledge: files, index, revisions, review | |
| `WikiReviewProofs` | theorems about `WikiReview` | extends it |
| `ModelAccess` | calls over a route with retries and fallback, and the change of models and routes | |
| `TitleTasks` | background tasks, the title task, the user's rename | extends `ModelAccess` |
| `AgentProofs` | theorems about `AgentTurn`, the refinement included, and about `TitleTasks` and `ModelAccess` | extends `AgentTurn` and `TitleTasks` |
| `JiyingChannel` | the JiYing adapter and what it expects of its platform | implements `OrderedInbox` |
| `OrderedInbox` | abstract: events answered in order, forgotten once settled | |
| `JiyingProofs` | theorems about `JiyingChannel`, the refinement included | extends it |
| `MC...` | values for the constants of the instance TLC checks, and symmetry | extend the module they name |

**RunManager.** `active`, `buffer`, `lastSeq` and `subs` are the four maps; every critical section of the mutex is
one action. The steps of a Run's goroutine (`pc`: body, panicked, returned, unregistered, over) follow the order of
its deferred calls: recover and emit the error, delete the registration, close `done`. `emit` is a critical section
(`Publish`) followed by one `Offer` per subscriber of its snapshot, outside the mutex, in any order, so that
subscribe, unsubscribe, drop and cancel fall between them. An event is its Run and its ordinal; Runs and channels
are one-time tokens. `Run.status` is left out: nothing reads it.

**SessionStream** adds the handler (`phase`: replay, live, tail, leaving), the tab (`cursor`, `attached`) and the two
edits, each a check (`EditCheck`) and a drop (`EditDrop`) with anything in between. A write to the tab's current
connection is shown at once and one to a connection it left is lost; that covers every prefix the network may deliver.
`log`, `got`, `owed` and `mishap` record what was published, shown and owed, and which of the four known losses (full
channel, trimmed buffer, an edit between Runs, an edit under a Run or an open stream) a tab suffered.
**StalledClients** adds clients that stay connected and read no more. The server sets no `WriteTimeout`
(`cmd/agent/main.go:152`), so such a client's handler stays in its write (`Held`) until the client leaves; it takes
no step meanwhile and gets no fairness.

**TenantLifecycle.** A job is one call of `Provision` or `MigrateLegacy` with the status update of its caller; each
file operation is an action and may fail, two jobs may share a tenant's staging directory, and a restart may come
between any two steps. A directory is the set of the parts it holds. A history is a handle `<<tenant, n>>`, so a
cached handle that was closed differs from the one opened later. The code's behaviours that look odd are kept: a
crash leaves a tenant in "provisioning", from which nothing but an administrator's status change takes it; of the
legacy tenant's migration the first attempt writes "failed" when it fails (`migrate`), while a later one
(`remigrate`, of a row that is there from an earlier start) leaves the status as it was, "provisioning" included; an
administrator may enable a tenant that has no directory; `ensureLegacyTenant` makes the legacy tenant active again
at every start, disabled or deleted as it may be (`cmd/agent/main.go:219`; `identity/service.go:1231` calls deleted
final).

**RequestFlow** runs the requests of the HTTP handlers over both. An action is one access to the identity store, the
runtimes, the history or the registry, each of which has a lock of its own; what the identity service checks before
it writes is in `Membership`, and a change is its write here, followed by the cancellations of the handler
(`members.go`, `admin_users.go`). `late`, `crossing`, `lost` and `revived` record the windows the code leaves open:
a request authenticated before a change may start its Run after the cancellations; a Run may start between a
deletion's busy check and its write; a tenant enabled again while the handler that disabled it is still closing.
Abstractions: `EnsureSessionScoped` and the comparison after it are one step; the mutexes of two `Store`s on one
database file count as one; the messages a turn appends are one write; a login session is the right it gives; a
password reset, whose cancellations are those of disabling, is not an action of its own; neither is a change of
platform administration, which cancels nothing.

**Membership.** A request is a goroutine with a label and what it has read; its actions are the statements that
write, or the reads before them. The steps of the four operations that hold `Store.mu` from their check to their
last write are the labels in `Locked`. Passwords are version numbers and a login session remembers the version it
was opened with (a field only the properties read). Reads that no statement of the same request separates are
merged; of several open memberships a login may take any, where the code takes the earliest. Three windows are in
the code and in the model: a login verifies before the revocations of a reset and issues after them
(`service.go:408`, recorded in `crossed`); an owner may be disabled between `AdminCreateTenant`'s check and commit
(`:1134`), so `LastOwnerStays` speaks of tenants that have a safe owner; a status is written unconditionally after a
read that may be old (`:1254`), so `DeletedIsFinal` speaks of tenants with no such write under way.

**AgentTurn.** The model may answer anything: text, nothing, or a batch of up to one call more than is allowed,
tools it was not offered included. A batch is known by its length when it is validated and by each call when it is
executed. Tools are grouped by what the loop does with them (locators, page reads, multi-page reads, submissions,
noted answers, questions, others). Page reads may fail; a cached read is reused. A lookup that finds no page, or one
the agent may not see, is an answer without an error and counts as read in the code; the ghost `unseen` keeps such
products apart from `opened`, those whose page was returned. `Base` is the product base the gate looks into, hidden
pages included. The end of the turn is four steps that a crash may separate: the chain in memory, the checkpoint in
the history, whose write may fail unnoticed, the `done` event, the messages. Abstractions: a product name that
`readProduct` confuses with another is a pair of the constant `Alike`; a page of another type counts as a read that
returns no product; `history_search` is one of the others and always executes, although the code may reuse its
result; prompts, traces and texts are left out.

**SessionHistory.** `messages` and `checkpoints` are the tables in the order of their ids; `memory` is the chain of
each branch in use. A turn is its message, the lazy restore, then either a failure or the chain, the checkpoint row
and the answer, with compaction by memory's rule (`Compact`) and by the table's (`CompactRows`), which are two
programs in the code. A fork copies rows as `BranchAfter` does, and is separate from the busy check before it. A
branch is named by the number of the edited message and by the second, which may be that of the last fork.
Abstractions: one session; the system prompt's row (written like the answer, just before it), documents, noted
answers and `PrevID` are left out; initial and reanalysis checkpoints are alike; copies of equally numbered rows of
different branches are ordered by id; writes of the history do not fail, that of the checkpoint (`AgentTurn` covers
it) included.

**WikiReview.** One page (the look-up of links to other pages in `renderFull` is outside) of the reviewed types, in
the directories of the tenants and of the platform's baseline. `disk` holds the active files and the revision files,
`past` the superseded copies, `entry` and `revision` the index. The store unlocks around its file operations, so an
operation is the steps between (`op`), and several actors and a restart may interleave with it. A page is a status
and a set of notes; every write brings a new note, so equal notes mean the same `*Entry`, which is how a pointer
used after the unlock is modelled. Files are replaced by rename and are never seen half. `disturbed` records what
the promises about the human's version except: two calls at once, a failed write, a call that writes over what it
once read (observation, consolidation), and a tenant's edit of the baseline's page.

**ModelAccess.** A call takes the route once and looks each model up when its turn comes; a change of the
configuration is written to the file and then made in the registry, which is emptied and filled model by model, so a
call during it may find a model missing. A stream that was heard may not be retried. A model of the file or of the
registry is listed, enabled and has a key or not; one that is asked for comes with its key or the mask, at its
endpoint or moved. At a start the registry gets the enabled models only (`Known`), so that it may differ from the
file until the next change of the models; `shelved` are those, `unkeyed` the models that nobody gave a key. A mask
stored in place of a key counts as no key (the code would call the vendor with it, and be refused). `overlapped`
records two changes at once, whose last file and last registry may differ; the instance has one change. A change of
the models alone may leave a route that names a model no longer there, as in the code. A failure is retryable or
not, as the vendors' clients decide.
**TitleTasks** adds the queue, the worker, a panicking task and the title: the number of the turn it was made from,
or the user's. Consolidations and lints are tasks that end well or badly. A crash (tasks are not stored) and the
list's limit of 100 are left out, and so is the first-line title that `messageCore` gives a session, which may race
with the title task of an earlier turn.

**JiyingChannel.** The platform numbers events, keeps them until they are acknowledged and sends the rest again
after a reconnection. One connection and one reader carry events and responses, so an event that finds the queue
full keeps the responses behind it from being read. The worker is one process; a turn of the agent is another, and
outlives its connection. Requests may be lost, refused or time out, and be answered late. Each event is a
conversation of its own. One that does not parse ends the connection unacknowledged (`TakeMalformed`). The read
deadline of 90 seconds, which pings do not put off, ends the reader of a quiet connection (`Quiet`): between two
events as often as it likes, during one as a mishap; requests then still reach the platform (`deaf`), but nobody reads
what it answers. The WebSocket handshake and the mapping of option ids are left out. `main.go` does not
start this adapter, so the platform's side is taken from how the adapter and its tests use it.

## 3. Runs

Every passing run was chosen so that each guard, each early return and each limit is reached; every action of every
module fires in some run, and for every property of every run one mutated definition makes TLC find a violation.

| Run | Question | Instance |
|---|---|---|
| `run_manager` | Do registry, buffers and channels stay consistent under every interleaving? | 2 sessions of 2 tenants, 2 Runs, 1 subscriber, buffer 2, channel 2, 2 events per Run |
| `session_stream` | Does a tab that reconnects and reloads, across Runs and edits, lose or repeat an event? | 1 session, Runs and edits 2 together, 2 connections, buffer 2, channel 1 |
| `session_stream_liveness` | Do Runs and streams end although clients stop reading and stay, and Runs panic? | `StalledClients`: 2 Runs and 1 edit, 1 connection that may stall at any write |
| `requests` | Do revocation, deletion and closing meet `Start` safely in every order? | 1 tenant, 1 session, 2 users, 2 customers, 2 overlapping requests, 2 Runs, 1 job, 1 restart, 2 status changes |
| `tenants` | Is a tenant's directory whole or absent? | 2 tenants, 2 jobs at once and 4 in all, 2 restarts, 2 status changes |
| `legacy_data` | *violation*: may an interrupted migration be tried again? | 1 tenant, 2 jobs |
| `membership` | Do an owner, an administrator and honest login sessions remain? | 2 users, 2 tenants, 2 login sessions, 2 requests at once and 5 in all, 1 new password |
| `agent_turn` | Evidence, budgets, freeze, contract and end of a turn | 2 products (both in the base), 2 iterations, 3 calls per round, 4 per turn, 1 locator, 2 page reads |
| `session_history` | Do conversations only grow, and does memory follow them? | 3 turns, 2 forks, compaction at 2, any number of restarts |
| `wiki_review` | Is the agent shown only approved text, and does the human's version survive? | 2 actors, all operations, 1 human and 2 agent texts, 2 revisions, 1 second, 1 failed write, restarts |
| `title_tasks` | Fallback, one answer per call, keys, titles and the end of tasks | 2 models, one of which may be off at the start, 1 retry, 1 change of the configuration (one model unmoved, one moved, no keys given), queue 1, 2 turns, 2 tasks, 2 commands (changes, cancellations, renames) |
| `jiying` | Are users answered in order and before the acknowledgement, and is everything acknowledged in the end? | 2 events of 4 kinds, queue 1, 1 mishap, 2 turns at once, any number of quiet spells between events |

Why these bounds are enough. *Sequences and capacities*: the code compares numbers with a cursor and lengths with a
capacity, and only the relation matters; a capacity of one or two with one event more reaches "full", "trimmed" and
"trimmed past the cursor". *Runs*: two on one session show a hand-over, and one channel fed by two Runs.
*Connections*: a tab has one current connection; a second shows the old one finishing beside it. *Requests*: every
window named in the hazards is between two steps of one request and one other request; two overlapping requests show
each, and in `membership` the five in all prepare the state (a second user, its promotion, a login) in which two
compete. *Turn*: the limits (15 iterations, 8 and 24 calls, 3 locators, 5 page reads) are compared only with
counters; each is at least one below another in the instance so that every order in which they bind occurs, and the
proofs cover all values. *History*: two forks give a fork of a branch, a second fork of the main line and two forks
of one message in one second; a limit of two lets the third turn compact. An instance of four turns and two forks
with one restart (1.8 million states) gave the same result. *Wiki*: a second revision is enough to replace a pending
one, two agent texts to tell them apart; the instance has one tenant and no page of the baseline, the proofs cover
any. *JiYing*: one mishap (`MaxMishaps` counts breaks, crashes, refusals, late answers, repeats and turns longer
than the read deadline) shows each fault by itself, at every step; the queue of one is full with the second event.

Bounds that are not in the code, by name: `MaxEmits`, `MaxEdits`, `Budget`, `Reloading`, and the numbers of tokens
(`Runs`, `Chans`, `Requests`, `Jobs`); `MaxCalls`, `MaxGrants`, `MaxPassword`; `MaxJobs`, `MaxCrashes`,
`MaxSwitches`; `MaxTurns`, `MaxForks`, `MaxTasks`, `MaxCommands`; `MaxEvents`, `MaxMishaps`; `Ops`, `MaxRevs`,
`MaxSec`, `MaxFailures` and the notes. Deadlock checking is off where the tokens run out and the system may stop.

Properties, by hazard:

* `RegistryNamesTheWriter`: at most one Run executes per session and the registry names it, although the goroutine
  deletes by key. `BufferIsLatest`: the buffer is the contiguous run of the latest numbers. `ChannelAscends`: no
  channel carries a number twice or out of order, across `DropSession` and several Runs. `SessionsStayApart`: no
  event crosses sessions.
* `CompleteUnlessMishap`: a stream the server ended while the tab read it left nothing out, unless one of the four
  mishaps was recorded. `ShowsForward`: the view implements `LossyFeed`. `RunsEnd`: every Run ends, whatever its
  readers do. `StreamsClose`: a stream ends or is held by its own client.
* `RunsKeepTheirRights`: a Run that was not cancelled works with the rights its user still has, except a late one.
  `DeletedStaysQuiet`, `OnlyToldRunsLose`, `NoHistoryLeaks`: deleting and closing against Start, but for the recorded
  windows. `CustomerStaysBound`: a session keeps its customer, but for two first messages that race.
* `ProvisionedIsWhole`, `ActiveIsProvisioned`: a directory is whole or absent whatever fails or crashes, and active
  tenants have one. `LegacyDataArrives`: section 4.
* `LastOwnerStays`, `PlatformAdminRemains`: concurrent disabling, demoting and removing. `SessionsKnowThePassword`,
  `OneSession`: revocation against issue. `DeletedIsFinal`.
* `EvidenceBacked`: what is recommended is in the base and was shown, or looked up and found to have no page to show
  (section 4); a blocked or failed lookup is never evidence. `WithinBudget`, `NoToolOnceCommitted`. `KeepsContract`
  (the refinement): a turn that ends well is remembered exactly; its stored checkpoint is that or, where the write
  failed, none. `TurnEnds`.
* `ConversationsOnlyGrow`: what a branch shows is only added to, at its end. `MainMemoryIsDisk`: both compactions
  agree on the main line. `AnalysisFollowsPath`, `NoForeignTurns`: on the main line and on the branches off it the
  agent thinks with the last analysis of what the user sees, and with no turn of another conversation.
* `AgentSeesOnlyApproved` under every interleaving; `KnowledgeSurvives` and `RestartIsNeutral` as long as
  nothing listed under `disturbed` happened.
* `OneVoice`: what a reader hears is of one attempt. `FallsBackToAll`: a call fails only when every model of its
  route was tried, or it was cancelled, heard, or disturbed by a change. `ConfigurationHolds`: between changes the
  router is the file's route and the registry its models, but for those off at the start, and a key is lost only by
  moving a model without one or by listing one without a key that the registry did not have. `TitlesMoveForward`,
  `TasksEnd`.
* `AnswersInOrder`: the channel implements `OrderedInbox`; no user is told anything before all earlier events are
  settled, and nothing is forgotten before. That implies `AckedWasAnswered`, which is proved and has no run of its
  own. `OneTurnPerConnection`. `EventsConfirmed`: an event with no malformed one at or before it is acknowledged in
  the end, if what waits fits and from some time on no turn is longer than the read deadline.

The type invariants (`TypeOK`, `StreamTypeOK`, `FlowTypeOK`, ...) stand in the modules. They are proved for every
specification, and are no property of a run.

Fairness. `StallFairSpec` (`StalledClients`) assumes that a Run's function returns (`Agent.Message` runs under a
timeout of five minutes and observes the Run's context) and that the steps after it, which never block, are taken;
that a handler whose next step is enabled takes it, unless its client holds it (a write to a client that reads
succeeds, to one that is gone fails, and to one that stays and does not read takes for ever); and that `select`
takes the closed `done` channel in the end (Go chooses evenly among ready cases). Nothing is assumed of tabs, of
subscribers that do not read, of new requests or of panics. `FairSpec` of `AgentTurn` assumes only that a model or
tool call returns, since each has a timeout; nothing is assumed of what it returns. `TaskFairSpec` assumes that the
worker, the Run and the calls they make go on (a model call has a timeout, and the worker recovers from a panic),
and that of those blocked on the queue some one is let in when there is room, which Go's channels grant.
`JiyingFairSpec` assumes that the platform sends and serves, the reader reads, requests end or time out and turns
end; nothing of events, receipts and questions, which need not come, nor of quiet spells between events, nor of
breaks, crashes and long turns, which are bounded. The other modules state no liveness.

## 4. Disagreements between code and comments

One is shown by a run that is expected to be violated (the lines are quoted in `PROJECT.json`):

**The old data may be left behind** (`legacy_data`). When the migration of a single-tenant installation fails at
start, the server listens all the same and the tenant is marked failed. Resuming it, or enabling it as an
administrator, calls `Provision`, which makes an empty directory; every later start takes that directory for the
migrated one. The comment (`cmd/agent/main.go:212`) says that an interrupted migration can safely be tried again.
After a crash in mid-migration, a later attempt that fails leaves the tenant in "provisioning", which nobody can
resume (`:214`).

Met while modelling; the passing runs state what holds *outside* these:

* a slow reader loses events: the stream's tail starts at the last event *written*, so an event dropped because the
  channel was full is made up for only if nothing was written after it (`channel/http/analyze.go:296`; the comment
  there says none is lost). The mishap "full channel" of `CompleteUnlessMishap`;
* the last submission does not override the earlier ones: the tool's description (`agent/submit.go:35`) and the
  comments at `agent/agent.go:224` and `:673` say so, while the code refuses every submission after an accepted one
  (`:662`). `KeepsContract` states what the code does;
* a recommendation need not rest on a page that was read: the comments (`agent/submit.go:99`, `agent/agent.go:226`)
  and the tool's description (`:750`, after a successful read) ask for it, while `memory_get` answers a missing,
  pending or archived page with suggestions and no error (`memory/tools/tools.go:152`), which marks the product as
  read (`agent/agent.go:708`, `:805`); the gate's other check finds hidden pages as well. `EvidenceBacked` states what
  is left;
* pending entries are not "downweighted" for the agent, as `memory/longterm/types.go:123` has it, but hidden
  (`memory/longterm/retriever.go:254`);
* an observation overwrites a verified page: `execObserve` submits a copy that carries the active file's path, and
  `SubmitRevision` derives a revision path only when there is none (`memory/tools/tools.go:562`);
* a tenant's edit of a page that only the baseline has is written into the platform's directory, because the entry
  keeps the path it was read from (`channel/http/memory.go:304`), although `memory/longterm/composite.go:297` says
  that writes fall only on the tenant's layer; `disturbed` records it;
* a second fork mixes conversations: `BranchAfter` copies whatever is numbered below the edited message, of every
  branch (`history/store.go:1209`, `:1193`). `AnalysisFollowsPath` and `NoForeignTurns` speak of the main line and
  of branches off it;
* JiYing: with more than seventeen unacknowledged events (queue and hands) the reader blocks on the queue, the
  worker's request times out, and the reconnection replays the same backlog: without its antecedent
  `EventsConfirmed` fails. A turn that outlives its connection asks its question in the turn that is current
  (`channel/jiying/adapter.go:444`, `:449`), though `:67` says there is at most one; and the option mapping is
  deleted before the message it belongs to succeeded.

Weaknesses that contradict no comment, or that lie outside the models, for a later look:

* wiki: `memory_ensure` checks and writes in separate critical sections, so an approval in between is undone, as by
  a consolidation; a delete whose write fails leaves a verified page hidden in memory, and the next ensure replaces
  it; archive names have a resolution of one second (`retriever.go:478`); of two revision files left by a crash the
  older comes back when the newer is decided (`:460`); a decision names the entry and not the version that was read
  (`channel/http/review.go:78`).
* turn: an analysis that passed the gate is lost when the final round fails, is empty twice or asks for a tool
  (`agent/agent.go:406`); a read is reused after a write of the same entry (`:439`); the calls behind an accepted
  submission in the same batch still run (`:472`).
* memory: followups are compacted with the answers they carry (`memory/shortterm/manager.go:124`); after a restart the
  document is known only when the last checkpoint carries it (`:287`); a failed `AppendCheckpoint` is ignored
  (`tenancy/runtime.go:301`).
* model access: a model that is off at the start is not in the registry (`cmd/agent/main.go:189`), so that the next
  change of the models, for which the console sends no key it was not given anew, stores it without one
  (`channel/http/config.go:121`), and the model cannot be called until somebody gives the key again. A request that
  sends the mask instead has the mask stored as the key.
* JiYing: an event that does not parse is sent again at every reconnection and keeps all later ones waiting
  (`channel/jiying/adapter.go:345`, `:567`); a turn longer than the read deadline of 90 seconds (`:197`; a ping does
  not put it off, `ws.go:357`) is answered on a connection nobody reads, cannot be confirmed, and is made anew on
  the next. `EventsConfirmed` excepts both.
* streams: a client that stays connected and reads nothing keeps its handler, its subscription and its connection for
  as long as it likes (no `WriteTimeout`, `cmd/agent/main.go:152`); it delays no Run.
* elsewhere: the windows named under `RequestFlow`, `Membership` and `TenantLifecycle`; the fixed window admits
  twice its limit around a boundary (`auth/ratelimit.go:44`).

## 5. Proofs

Everything in this section holds for all values of the constants that satisfy the named assumptions.

**RunManagerProofs**, from `TenantOfType`, `CapsArePositive`, `MaxEmitsType`, `NoRunIsNoRun`, `NoKeyIsNoKey` (the last
two only say that "no entry" is not an entry).

* `TypeCorrect`: `TypeOK` with `Placed`, which says that a Run past `unborn` has a key.
* `OneWriterPerSession`. `RegistryNamesTheWriter` is inductive together with `Fanning` (a Run with offers left is
  executing its body or its recover, so it still owns its entry).
* `BufferHasNoGap`. Appending one event and trimming keeps the newest `EventCap` (`TrimAppend`), and their numbers
  stay contiguous (`TrimKeepsNumbering`); every other action leaves buffer and counter alone or clears both.
* `ChannelsAscend`. Not inductive alone: `ChannelInv` adds that an event a Run still has to offer is newer than all
  that the channels of its session hold, and that there is one offerer per session, which follows from
  `OneWriterPerSession`. `DropSession` restarts the counter, but also removes the subscribers, so an old channel is
  fed at most the one event of a snapshot taken before.
* `SessionsApart`. `ApartInv` adds that a Run's last event is its own.

**SessionStreamProofs**, from the registry's assumptions, `TabKeyType`, `MaxEditsType`, `NoConnIsNoConn` and
`TailCoversChannel`, a buffer larger than the channel (500 and 64 in the code). The last one cannot be weakened: with
both of one size a full channel and the one event a Run still has to offer exceed the buffer, the tail of the stream
does not reach back to the cursor, and TLC shows `CompleteUnlessMishap` violated for sizes of one. Every step of the
stream is a step of the registry or none (`StreamUsesTheRegistry`), so that what `RunManagerProofs` proves holds here;
the replay is the end of the buffer, numbered without a gap (`Replay`, on top of `PickedEnd`).

*Forward* (`TabsReadForward`, that is `ShowsForward`). A truncate or a delete restarts a session's counter, so a
number says where an event stands in the log only together with the restart it was counted from: the event numbered q
is at `Base` + q, and `Base` only grows. The invariant `StreamInv` says that the entries of a log differ and that the
buffer holds the latest (`LogInv`), that a tab's cursor is what its connection has written (`Wired`), that all a
connection carries -- the replay it owes, its channel and the events being offered to it -- is counted from one
restart, the last one as long as it is subscribed, and comes after all its tab was shown (`EpochInv`), and that a view
ascends and ends at or before its cursor (`ForwardInv`). A handler's write is then a step of `LossyFeed`, and every
other step one of its steps or a stutter.

*Complete* (`NothingLeftOut`, that is `CompleteUnlessMishap`). `CompleteInv` follows what an undisturbed connection
has still to show: what it was opened for and what its Run published lies between the last restart and `Due`, the
position it reaches before it turns to its channel (`OwedInv`, `EndedInv`); its replay goes on where the cursor
stands, without a gap (`OwesInv`); and the session's counter is the cursor plus the replay, the channel and the one
event being offered (`CarriedInv`). So a tail that starts at the last event written is whole. `SeenInv` says that an
undisturbed tab was shown all its cursor has passed, and `YoungRuns` that the Run a tab may follow began after the
last restart.

**AgentTurn**, in the first part of `AgentProofs`, from `AlikeType` (a product is alike to itself), `BaseType`,
`LimitsAreNat` and `NoneIsNothing`. The inductive invariant `IInv` is `TypeOK`, `Spending` (executed and pending
calls are within those counted, and the counters within the limits), `Counting` (the two iterations beyond the limit
are those of the forced final and of the retried empty answer), `Evidence` (what counts as read was returned, or
found to have no page to show) and `Ending` (what each step of the end may find saved). One lemma, `CallHasEffect`,
bounds what any of the eight kinds of call changes; each part is preserved by one lemma. From it: `TypeCorrect`,
`RecommendationsHaveEvidence`, `BudgetsHold`, `CommittedTurnsRunNoTool` (an action property) and `KeepsItsContract`:
`AgentTurn` implements `TurnContract`, every step being one of the contract's or a stutter.

**MembershipProofs**, from `UsersAreFinite` (the counts of owners and administrators need it), `SetupIsKnown`,
`BoundsAreNumbers` and `NothingIsNew`; the numbers of tenants, login sessions and requests in flight are arbitrary.
The inductive invariant `Inv` is the types, with what each label says of its call (`Fits`: a request that will write
a status holds "active" or "disabled", and so on); `MuIsHeld`, which says that the labels inside a critical section
and the holder of `Store.mu` go together; and `AdminSafe`: some active administrator is not about to be disabled or
demoted by a request that has passed its check. `PlatformAdminRemains` alone is not inductive: between a check and
its write the count it rests on must not change. The 32 actions outside the critical sections are `Good` (well
typed, of one request, and harmless to deleted tenants) and `Calm` (they take nobody's standing and no part in the
mutex), by the one lemma `PlainMove`. The ten inside are treated by `CheckMove`, where the count of more than one
yields somebody who stays (`AnotherOne`), and `WriteMove`, where whoever was not threatened stays what he was and
nobody is threatened afterwards. From these: `TypeCorrect`, `CriticalSections`, `AdministratorRemains`,
`OwnerRemains` (the action property `LastOwnerStays`) and `DeletedStaysDeleted` (`DeletedIsFinal`).

The login sessions have an invariant of their own, `CredInv`, because no mutex keeps the requests about one user's
credentials apart. For a user nobody overlapped on, `Honest` says: there is one such request at most (`Single`); a
login holds the present password, also after its rehash, and finds no session open when it issues one; the session
of a change has the new password (`Holds`). Two facts about everybody support it: `Known`, no request and no session
belongs to an account that does not exist, so that a registration starts from nothing; and `Tokens`, the token of a
request is of the user it acts for. Every step but the issuing of a session is an instance of one lemma, `CredKept`:
sessions end or keep what they know, and passwords change only in the hands of the request itself. From it:
`OldPasswordsOpenNothing` (`SessionsKnowThePassword`) and `LoginsReplaceEachOther` (`OneSession`).

**TenantLifecycle**, in the first part of `RequestFlowProofs`, from `LifeBoundsType`. The inductive invariant
`LifeInv` is the types; `Staged`: a busy job has a tenant, whose staging directory holds what the job's step needs
(`Needed`) unless another job shared it, and whose directory exists once the job is done; `Alone`: two busy jobs of
one tenant are recorded as crossed; and the two properties. All file operations are instances of one lemma,
`JobMoves`, and the starts of jobs of another, `Beginnings`. From it: `LifeTypesCorrect`, `DirectoriesAreWhole`
(`ProvisionedIsWhole`) and `ActiveTenantsAreProvisioned` (`ActiveIsProvisioned`), for `LifeSpec`, that is, for the
tenants' life without the requests of `RequestFlow`.

**RequestFlowProofs**, from the assumptions of `RunManager` and `TenantLifecycle`, `MaxCallsType` and `NobodyIsNew`.
The proofs of the parts are used as they stand: every step of `RequestFlow` is, for the registry, a step of
`RunManager` or none (`RegistryStep`), and for the directories one of `TenantLifecycle` or none (`LifeStep`), so
that both invariants hold here too (`FlowKeepsTheParts`, `FlowTypesCorrect`). What the requests add is one invariant
for each promise, proved side by side over `FlowInv`, the types:

* `RightsInv`, for `RightsAreKept` (`RunsKeepTheirRights`). The property is not inductive, because rights are read
  long before a Run starts: also a message on its way that was not marked stale holds rights its user has, or that
  somebody has yet to cancel. `Concerns` names the changes that are between their write and their cancellation.
* `QuietInv`, for `DeletedSessionsAreQuiet` (`DeletedStaysQuiet`). A deleted session has a row, so that no message
  makes it anew; a message that found the row before the deletion is marked; and a Run registered while a deletion
  is past its busy check is recorded as crossing.
* `ToldInv`, for `ToldRunsLose` (`OnlyToldRunsLose`), in three parts: whoever closes a tenant's history finds the
  tenant out of service, unless it was enabled again (`OutOfService`); once the history may be shut, every Run of
  the tenant was told and every message on its way is stale (`ShutMeansTold`); so an untold Run's handle is open
  (`WritersKnow`).
* `HandlesInv`, for `HistoriesAreAccountedFor` (`NoHistoryLeaks`): a handle taken out of the cache is one that was
  opened, and is not the cached one.
* `CustomerIsBoundOnce` (`CustomerStaysBound`) is an action property that follows from the types and the steps alone.

Most steps disturb none of these; each invariant has a lemma for the quiet steps and one for every step that is not.

**WikiReviewProofs**, from `BoundsAreNat` (a new revision's file is one of the numbered ones) and `BaseIsNoTenant`.
`AgentSeesOnlyApproved` speaks of what memory shows now; it is kept only because nothing that may be shown later is
unapproved either. The inductive invariant `Gate` says that every version that is verified, be it on disk, in memory
or in the hands of an operation in flight, is made of approved text (`Clean`), with the types and what an
operation's step implies (`Fits`). Each of the seven calls and fifteen steps has a lemma, on top of one lemma for
each thing they do: a file written or removed, an entry replaced, a status written through a pointer. That the
revision found at a start is one of those on disk needs a largest element of a bounded set (`Largest`, from the
well-foundedness of the naturals). From it: `WikiTypesCorrect` and `OnlyApprovedIsShown`.

What holds of an undisturbed store is `Rest`: at most one operation is in flight (`Alone`), the baseline in memory
is its file, and each tenant's active file is what its human trusts (`Kept`), a revision has a file of its own
(`Apart`), and the active file is what memory shows (`InMemory`), unless the one operation is between the steps that
change them (`Midway`), of which `InOrder` says what each has left on disk and holds in its hands. `SafeInv` is
`WikiInv` with `Rest` as long as nothing disturbed the store. It must speak of both tenants and baseline, because
what an operation holds may be the file of either. From it: `ApprovedKnowledgeSurvives` (`KnowledgeSurvives`) and
`RestartChangesNothing` (`RestartIsNeutral`).

**TitleTasks** and **ModelAccess**, in the second part of `AgentProofs`, from `ModelsFinite`, `AccessNumbers`,
`CallersApart`, `ChangesType`, `CallersNamed` and `TaskNumbers`. The theorems about `ModelAccess` are stated for
`TaskSpec`, whose steps are the calls' and changes' own with the callers that tasks and turns give them. `AccessInv`
is the types with `CallInv` and `ConfigInv`. `Voice` (a call not yet asked was not heard, and at most one request
emits) gives `OneVoiceIsHeard`; `Tries` (the route's models are tried or still ahead, as long as no change disturbed
the call) gives `CallsFallBack`; `Underway` says, of a change that overlapped no other, how much of the list stands
in the file, in the registry and in the router at each of its steps, and gives `ConfigurationIsKept`. That the
registry is filled to the end and not stopped half-way is where the models have to be finitely many. `TitleInv`
orders the titles to come: the queue holds title tasks in the order of their turns, none older than the title shown
or than the one the worker is making, and the one that waits for the queue is the last turn's. From it:
`TitlesAdvance` (`TitlesMoveForward`).

**JiyingProofs**, from `QueueCapType`, `BoundsType` and `NamesApart`; the platform's events, the turns, breaks,
crashes, refusals and late answers are arbitrary. `ChannelInv` follows an event from the platform to the agent and
back. `OrderInv` says that events come in order: what precedes an event in the worker's hands, in the queue or on
the wire is done, in the hands or before it. So a worker that takes an event may conclude that all before it are
done (`DoneInv`), and its acknowledgement, which covers them all, is due: `AcknowledgedIsAnswered`
(`AckedWasAnswered`). What an answer tells the adapter is in `FlightInv` (a caller has one request on its way at
most, and it is the one the caller waits for) and `AnswerInv` (a good response to an answer or a question means that
the platform saw it), which need `TurnInv` (the turn a question goes into keeps its event meanwhile). `BegunInv` (an
event a turn was begun for is acknowledged, or in the worker's hands) gives the action property `OneTurnEach`
(`OneTurnPerConnection`).

`RepliesInOrder` (`AnswersInOrder`): the channel implements `OrderedInbox`, where the events are those of the
platform, forgotten is what it need not send again, and told is what was answered or asked, or what the turn had
nothing to say to. One request on its way tells one user at most (`InboxStep` gives the step it maps to, or a
stutter), but it may have been sent long ago, on a connection given up since. So the theorem needs one invariant
more, `ToldInOrder`: all events before the one a request on its way tells about are done. It holds because a request
is made of the event in the worker's hands (`FromTheHands`), and what is done stays done (`NothingIsTakenBack`). An
acknowledgement is mapped by `DoneInv`: it covers earlier events, and those are done.

**SessionHistoryProofs**, from `LimitIsNat`; the numbers of turns, forks and restarts are arbitrary. None of the
properties is inductive, because what a restart will bring back is decided long before it. `HistoryInv` is `TypeOK`
with nine parts:

* of the tables: `NumbersAscend` (in a branch the numbers ascend with the ids, whichever of the three counters gave
  them) and `SoFar` (nothing is of a turn that has not begun);
* of the turn: `UnderWay` (it is of its branch only, and not analysed before its checkpoint is saved);
* of what a fork cuts: `ForkPoints` (a branch of the main line is named by a question of the main line),
  `MainLineInOrder` (there the turns ascend with the questions) and `CheckpointsPlaced` (a checkpoint's `last_seq`
  lies between its own question and the next). Together they say that `last_seq < fork_seq` picks the checkpoints of
  the turns before the edited one;
* of the table and the conversation: `TableFollowsPath` (what a branch would list is of its turns, and lists all their
  analyses);
* of the memory: `MemoryFollowsPath` (a chain holds turns of its branch only and, once restored, all analyses, the
  one being saved included) and `MemoryFollowsTable` (the main line's chain is `Listed(Main)`, and, between memory
  and table, that with the new checkpoint, compacted).

Two arguments carry the weight. *The two compactions agree* (`MainSave`): to drop the oldest followups of a chain,
as `chain.go` does, and to delete the oldest followup rows of a branch and list the rest, as the table does, is the
same selection. That rests on what `Picked` does, proved once for all who filter: where an element goes (`PickedAt`,
`RankOfRank`), that to pick twice is to pick once (`PickedTwice`), and what one more element adds (`PickedAppend`).
*What is shown depends on the order of ids alone* (`SortedIsPicked`): as the numbers of a branch ascend with the
ids, sorting by number is picking by branch, and more messages only lengthen it (`ShownGrows`). From these:
`HistoryTypesCorrect`, `MainLineIsOnDisk` (`MainMemoryIsDisk`), `AnalysisIsFollowed` (`AnalysisFollowsPath`),
`NoTurnIsForeign` (`NoForeignTurns`) and the action property `ConversationsGrow` (`ConversationsOnlyGrow`).

**Only model-checked**: the liveness properties (`RunsEnd`, `StreamsClose`, `TurnEnds`, `TasksEnd`,
`EventsConfirmed`), which need fairness and ENABLED and are out of the prover's reach. Every safety and action
property of the passing runs is a theorem. No module the proofs use declares a recursive operator: a filter is
`Picked`, which says where each element comes from, and a sorted table is given by the place of each row.

## 6. What is not modelled

`PROJECT.json` lists every component with its status and reason. Because it keeps no state or only formats: prompt
assembly, tool schemas, ranking, the vendors' LLM formats, domain types, routing, console and log handlers, the
audit log, rendering in the web client, HTML slides, documents and scripts. Because it is sequential code behind one
lock that a unit test covers: the leads tools' token bucket, rate limiting, password hashing, CSRF and cookies, and
the details of the configuration file. A stub: the DingTalk channel. What is left out of a modelled component is
named in section 2 and in the component's note.

## 7. What may follow

The order of the modules put the behaviour every message depends on first: `RunManager`, `SessionStream`,
`WikiReview`, `AgentTurn`, `SessionHistory`, then `Membership`, `TenantLifecycle`, `RequestFlow`, `ModelAccess`,
`TitleTasks` and `JiyingChannel`. What would add most now:

| Next | What it needs |
|---|---|
| a page of the baseline in the wiki's instance, and two tenants | fewer states per call; with one call at a time it has 150 000 |
| the reader of the review page | the version that was read, next to the decision (`channel/http/review.go:78`) |
