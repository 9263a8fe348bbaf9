# my-concierge: models, checks and proofs

TLA+ specifications of the services of this repository that hold state: the
queue between `assistant-api` and `assistant-worker`, the worker's handling of a
job, its settings and conversation memory, the operator's settings page,
`gateway-web` with its sockets and history files, the browser page, and the whole
way of a message through all of them. TLC checks them on small instances; TLAPS
proves all safety invariants, action properties and refinements that the passing
runs check, for every value of the constants (two of them under a hypothesis
about conversation files, see 6). Liveness is model-checked only.
`PROJECT.json` lists the components, the runs, which lines every definition
models (`map`), the hazards and the findings.

Contents: 1 inventory, 2 modules and the code, 3 runs, 4 fairness, 5 findings,
6 proofs, 7 what is not modelled, 8 plan.

## 1. Inventory

```
browser --socket.io--> gateway-web --POST /conversation--> assistant-api --enqueue--> queue
   ^                       ^                                                            |
   |                       |                                                     reserveNext
   +--assistant.message----+<----POST /response, /thinking---- assistant-worker <-------+
                           |                                      |        |
                  history file per session         conversation file,   LLM provider
                                                   worker.json           (xAI, DeepSeek, Ollama)
                                                        ^
                               settings page -- GET, PUT /config, provider status
```

All services are single-threaded Node processes (NestJS). Concurrency is the
interleaving of async handlers at their awaits, and of several processes over
shared Redis lists and shared directories. Nothing takes a lock.

| Component | State | Operations | What is hard | What makes it correct |
|---|---|---|---|---|
| Queue contract (`queue-adapter.ts`, `queue-consumer.ts`) | which jobs wait, who holds one | enqueue, reserveNext, markDone, markFailed, depth | many producers and consumers, deaths between any two calls | a job is in one place; what is accepted is not forgotten; failed jobs are tried again and do not block others |
| Redis queue | one Redis list, payloads in the memory of workers | RPUSH, BRPOP, LPUSH, LLEN | the pop is the only acknowledgement | the same |
| File queue | a directory of `.json` and `.json.processing` files | writeFile, readdir, rename, readFile, rm | no call is atomic with the next; listings go stale; `writeFile` shows a file before it is full | one holder per file, accepted files stay until `markDone` |
| `assistant-api` | none but its handlers | `POST /conversation/:direction/:chat/:contact` | the enqueue succeeds and the later queue-depth call does not | 202 only for a job that is queued |
| `assistant-worker` processor | `processing` flag, poll timer, thinking timers | `processOnce`, `handleMessage`, thinking loop | overlapping ticks, failures after the reply, unhandled rejections, crashes | one job at a time, no timer left behind, answered before remembered and before done |
| Callback delivery | none | `sendResponse`, `sendThinking` | lost requests and lost answers | a repeat has a cause |
| Worker conversation memory | one JSON file per conversation | `read`, `appendExchange` | read-modify-write and truncating `writeFile`, two processes | the last exchanges, in order, none lost, context kept |
| Worker configuration | `worker.json` | `read`, `write`, `PUT /config`, default on first read | read four times by one job, saved in between, truncated while read | always in range; one provider never gets the model of another |
| LLM providers, prompt, runtime context, provider status | none (files they read) | `generateReply`, `getStatus`, `buildPrompt` | choice in one read, use in another; failure of any await | the request fits its provider; the prompt shows current memory |
| `gateway-web` registry | map session → socket, gauge | connection, disconnect, count | a reconnect overtakes the disconnect of the old socket; several tabs; restarts | callbacks reach the newest socket |
| `gateway-web` messages | one history file per session | `chat.message`, `POST /response`, `DELETE /conversation` | concurrent read-modify-write of one file | stored before forwarded or shown; no reply in the wrong session |
| Browser page (`public/app.js`) | connection, replies shown, spinner and its timer, clear button | load, emit, receive reply, receive thinking, timeout, clear | messages typed while offline; a thinking event after the reply; a reply between click and answer of a clear; reload in the middle of anything | only replies of the own browser session, each to a stored message; the spinner ends |
| Settings page (script in `root.controller.ts`) | the form and the settings and statuses it last received | load, change provider, change model, save, refresh the status card | answers of slow calls overtaken by the operator's next edits, and by another operator's save | a page at rest shows what is saved; a save keeps what the operator chose |
| Prompt template | the prompt files | substitution of messages and memory into the template | `$` patterns of `replaceAll`, empty and missing files | the request holds the message as it was typed |
| Metrics, status pages, OpenAPI, bootstrap | counters | - | - | two gauges mirror state |
| memory queue, gateway-telegram, gateway-email, scheduler, swagger | test double / documented only | - | - | - |

## 2. The modules and the code

| Module | Models | Its variables |
|---|---|---|
| `JobLifecycle` | the promise of `QueueAdapter`/`QueueConsumer`: new → queued → held by one worker → done, queued again, or lost | `status`, `holder` |
| `RedisQueue` | `redis-queue.adapter.ts`, `redis-queue-consumer.service.ts`, `acceptConversation` | `list` (left end first), `hold[w]` (popped payloads), `request[j]` (the API handler), `fate`, `retried` (history variables) |
| `FileQueue` | `file-queue.adapter.ts`, `file-queue-consumer.service.ts`, `acceptConversation` | `place`/`content` of each file, `step`/`target` of each worker, `request`, and the history variables `done`, `read` |
| `AssistantWorker` | `assistant-worker-processor.service.ts`, `callback-delivery.service.ts`, the file access of the conversation and config services, SIGTERM | `stage` (queue's view of a job), `processing`, `stopping` (SIGTERM received), `pc`/`job`/`base` of each call of `processOnce`, `timers`, `thinking`, `answers`, `messages`/`file`, `config`, `saver` (the process that is writing `worker.json`) |
| `WorkerConfig` | `assistant-worker-config.service.ts`: normalisation of the settings, the model catalog, the defaults of the environment | none: operators |
| `WorkerSettings` (extends `WorkerConfig`) | reads and saves of the settings, provider choice, reply acceptance, provider status, prompt inputs, `normalizeState`/`appendExchange` | `file`/`config` (worker.json), `pc`/`want` of each handler, `prompt`, `request`, `status`, `messages`, `context`, `window`, `torn` (a write of the conversation has failed), and `log` (history) |
| `SessionRegistry` | `session-registry.service.ts`, `handleConnection`, `handleDisconnect` | `sessions` (the map), `session`/`link` of each socket, `newest` (history), `gauge` |
| `GatewayWeb` (extends `SessionRegistry`) | `gateway-web.gateway.ts`, `callback.controller.ts`, `chat-page.controller.ts`, `gateway-web-runtime.service.ts`, `assistant-api-client.service.ts` | `pc`/`about`/`home`/`base` of each handler, `history`/`file` per session, `queued`, `stored`, `shown`, `interrupted` |
| `SettingsPage` (extends `WorkerConfig`) | the script of the settings page, `PUT /config`, the status view | the form, the settings and statuses the page has received, its calls under way, the saved settings and whether a failed write has left them `torn` |
| `PromptTemplate` | the assembly of a request from prompt file and messages | `prompt`, `messages`: one initial state for each input |
| `BrowserPage` | `public/app.js` | `conn`, `shown`, `thinkingMessage`, its timer, `clearing` per page |
| `Chat` | the promise of the whole system: a message is said, kept, then answered, or refused or lost for good, or denied with an error and answered all the same; pages show only answers of their own session | `phase`, `origin`, `home`, `seen` |
| `ChatSystem` (extends `SessionRegistry`, `BrowserPage`; uses `JobLifecycle`) | the composition page → gateway → API → queue → worker → callbacks → page | those of the three, and `post`/`author`/`carrier` of each message, `posting` (POSTs assistant-api has not handled yet), `history`, `task`, `timers`, `thinking`, `responses` |
| `MC...` | TLC instances of the above | |
| `...Proofs` | the theorems about the above | |

Conventions:

- **An await is a step boundary.** `pc` (or `step`, `request`) names the await a
  handler is suspended in; an action is what runs until the next one. One Redis
  command, and one filesystem call, is one step. `writeFile` is two: it opens
  and truncates the file, then writes through its descriptor from the start.
- **A file is what its reader makes of it**: `whole` parses, `empty` (truncated,
  not yet written) does not, `damaged` is the shorter of two overlapping writes
  followed by the tail of the longer one; when two writes overlapped, either
  length may be the longer, so both outcomes are possible. A damaged file is
  taken as unparseable.
- **Data** is reduced to what the properties tell apart: a payload is its job, a
  message is the job or post it came with and its role, a file name of the file
  queue is its rank in the sort order.
- **A crash** forgets what is in the memory of the process (calls, timers, the
  registry) and leaves files and lists. Where nobody handles a rejection (the
  thinking callback, `markFailed`, `syncQueueDepth`), Node ends the process, and
  the action is the crash.
- **`AssistantWorker` sees the queue as `JobLifecycle` does**: `stage` moves
  new → queued → held → done, queued or lost. Any queued job may be reserved,
  which covers both adapters' orders. The abstract `lost` is split in `dropped`
  (an error that is not the job's) and `crashed`. `JobLifecycle` is thus the seam
  between the modules: both queues and the worker implement it, each from its
  side, and `ChatSystem` uses it in the place of all three.
- **A save of `worker.json` is a write of one of the worker's own processes**
  (it serves the settings page): in `AssistantWorker` it takes two steps, and a
  process that dies in between leaves the file torn until the next save. There
  one save follows the other, as one operator makes them; `SettingsPage` and
  `WorkerSettings` have saves that overlap.
- **`WorkerSettings` and `AssistantWorker` model the same `handleMessage`** from
  two sides. The first keeps every read of `worker.json` apart, with the values
  read, and runs the attempts of one conversation one after the other; the
  second keeps processes, timers, callbacks and torn files, and reduces the
  settings to whether they parse.
- **`ChatSystem` composes at a coarser grain.** `SessionRegistry` and
  `BrowserPage` are used as they are and the queue as `JobLifecycle`, which both
  adapters are shown to implement. The gateway's handlers are there without the
  race for the history file (`GatewayWeb` has it), the worker without its files
  (`AssistantWorker` has them). What is emitted to an open socket reaches the
  page in the same step: an event under way on a connection that breaks is one
  emitted after the break, which reaches nobody.
- **A POST to `assistant-api` and its answer are separate steps of `ChatSystem`.**
  Once the handler of `chat.message` has sent it, the POST is in `posting` until
  `assistant-api` queues the job (`ApiAccepts`) or fails before that
  (`ApiFails`). The handler gets its 202 only for a queued job (`PostAnswered`),
  but may get an error, or no answer, at any time (`PostFails`): nothing was
  queued, `refreshQueueDepth` failed behind the enqueue, or the answer was lost.
  The gateway may also die while it waits. So a browser can be told
  `assistant.error` of a message that is answered later; `Chat` has this as the
  phase `denied`, the one between an error and what becomes of the message.
- **A write may fail** before its truncation or behind it, wherever files are
  modelled; what it has truncated does not parse until it is written again.
- Operators called "Mutant of X" are not part of a specification: each is X with
  a plausible mistake, and shows that a property notices it.

Two abstractions a reader should know of. `request` in `RequestFitsProvider`
calls ollama's model fitting whatever it is, because Ollama runs any model that
was pulled. And `ConfigAssumption` takes it that `XAI_MODEL` and
`DEEPSEEK_MODEL`, if set, name models of the catalog: the code does not check.

## 3. Runs

All runs but `settings_page` set `CHECK_DEADLOCK FALSE`: requests, posts, saves
and attempts are finite sets in an instance, so that a behaviour in which all of
them have been answered ends legitimately. What must not get stuck is stated as
a liveness property instead (for the gateway's handlers in `chat`). The settings
page always has something the operator can do.

| Run | Instance | States | What it shows |
|---|---|---|---|
| `redis_queue` | 3 jobs, 2 workers, API and worker crashes without bound | 58,492 | types; a job is in one place; a 202 agrees with the list; retried jobs stay behind fresh ones; once pushes end every queued job is popped some day even if all fail always; refines `JobLifecycle` |
| `file_queue` | 2 requests, 2 workers, crashes between any two calls | 5,912 | one holder per file; accepted files stay on disk; only whole, open jobs are processed; the race for the first file ends; refines `JobLifecycle` |
| `file_torn` | 1 request, 1 worker, no crash | violation | `KeptUntilRead` |
| `worker` | 1 worker, 2 pending ticks, 2 jobs of one chat, 2 faults, 2 saves, SIGTERM at any time, window 3 | 252,984 | the flag; answered before remembered and done; causes of repeats; a save loses no exchange; every queued job settles; refines `JobLifecycle` |
| `worker_save` | 1 worker, no fault, 1 save, fairness | violation | `QueuedIsAnswered` |
| `worker_timer` | 1 worker, 1 fault, no save | violation | `ThinkingWhileWorking` |
| `gateway` | 2 sessions, 2 sockets, 2 posts, 1 callback, 1 clear, restarts, failing reads and writes | 652,899 up to symmetry | stored before forwarded or shown; where empty files come from; replies and histories stay in their session; entries are live; the newest socket is registered |
| `gateway_race` | 1 session, 2 posts, 1 callback, no failure | violation | `ReplyIsPersisted` |
| `settings` | 4 bodies, 2 saves, 1 status view, 3 attempts, failing writes | 4,870,157 up to symmetry | types and ranges; a request, and a status page, fits its provider; memory and prompt |
| `settings_page` | 2 saves, 2 refreshes, 2 submits, 1 save of another operator, failing writes | 1,790,297 up to symmetry | a page at rest shows what `worker.json` holds, or that a save has failed; what the form had selected is what a save writes |
| `chat` | 2 sessions, 2 sockets, 2 pages, 1 message, 1 worker, 1 fault, 1 clear | 363,536 | refines `Chat`; a message sent concludes; spinners cease |
| `template_dollar` | messages of up to 3 characters out of `$`, `&`, `` ` ``, `'` and a letter, two prompt files and the default | violation | `RequestIsExact` |

Why the bounds are enough:

- Two workers are enough for every race of the queues, whose properties compare
  two holders or a holder and the queue; three jobs let a retried job, a fresh
  one and one being pushed be in the Redis list at once. The file queue has many
  more steps per job, and its races (same listing, finished and requeued in
  between) need one file and another behind it.
- `MaxTicks = 2`: two pending calls of `processOnce` are what the flag must keep
  apart; a third would be refused by the same flag. `MaxFaults = 2` allows a
  failure and then another in the retry; one save can fall between any two
  awaits, and a second one repairs a `worker.json` that a restart has torn.
  `MemoryWindow = 3` is the default of the code, is odd (cuts an
  exchange in half) and is exceeded by two exchanges.
- `QueuedIsReserved` has arrivals that end as its hypothesis (`ArrivalsEnd`),
  which the instance meets by itself: each of the three requests pushes once.
  It is a hypothesis the queue needs. RPUSH and BRPOP work on one end of the
  list, a stack: while new jobs keep coming faster than workers take them, an
  old job, or a retried one, is not taken. No document promises an order.
- `gateway` has two of everything that could be mixed up, and two posts, a
  callback and a clear for the races on one file. `MaxMessages = 2` makes the
  cut happen;
  `gateway_race` has 5, so that a reply cannot be lost to the cut.
- Two sockets for two sessions: one session can have an old tab, a new one and a
  late disconnect, or each session one. Three sockets (3,275,395 states, too slow
  for a routine run) gave the same result, and the theorems have any number.
- `chat`: the two pages may be tabs of one browser or of two (`home` is chosen
  initially; page `p1` has session `s1`, because sessions are only compared and
  the other half of the states is the same with the names swapped), so a reply
  can reach the wrong tab, the wrong session or a page that has reloaded. With
  one message, one worker and one fault each hop can fail, and be retried, in
  every order against reconnects, reloads and a clear; races of several jobs are
  those of the component runs.
- `settings_page`: two calls of each kind under way at once are what an answer
  can be overtaken by.
- Three attempts against windows 1 to 5: the window is exceeded, shrinks and
  grows. The four bodies cover out-of-range numbers on both sides, another
  provider's model, a pulled Ollama model, and absent fields.

Symmetry is used only in runs without liveness properties, over sets whose
members no constant distinguishes.

Every property of a passing run has a mutant in `PROJECT.json`: a definition of
the model with a bug of the kind this code could have (a peek for a pop, a
`RPUSH` for the `LPUSH`, a missing `response.ok`, a flag not reset, an
unconditional unregister ...), under which TLC finds that property violated.

## 4. Fairness

Liveness is checked under `FairSpec` of the modules, weak fairness of:

- the poll timer (`setInterval`, every 500 ms, for the life of a process) and
  each await of a running call: Redis, the filesystem and `fetch` settle, one way
  or the other. `WF_vars(ProcessOnce(r))` is for the call, not for any outcome;
- handlers of the API, for the same reason;
- the second half of a `writeFile` that has begun (`ConfigSaved`);
- in `ChatSystem`, each hop of a message that has left the page (`Gateway`,
  `Api`), a polling worker (`Reserve`), the awaits of its job (`Worker`),
  callbacks in flight (`Callback`, `Thinking`), and the page's spinner timeout
  (`EndSpinner`).

A worker that got SIGTERM owes only its end (`Exit`). Users, connections and
reloads owe nothing, so a message typed offline may wait for ever.

Nothing is assumed of how a job ends: in the queue modules a job may fail every
time. Incoming requests, saves, thinking ticks, faults and crashes owe nothing.
In `AssistantWorker` faults are bounded by `MaxFaults`, so `QueuedSettles` says
that retries end once failures end. `FileQueue` has unbounded crashes, and its
fairness adds that some day no worker dies inside its calls any more: otherwise a
worker that dies in each readdir would be a counterexample about nothing.

## 5. Findings

Five runs end with a counterexample to something the documentation says.

- `file_torn`: `docs/services/queue.md:10` "Keep jobs until a worker reads them".
  `FileQueueAdapter.enqueue` creates the file under its final name and fills it
  afterwards. A worker that polls in between renames and reads an empty file;
  `JSON.parse` fails, the error names no job, and the file, complete by now,
  stays as `.json.processing` for ever, though the client was answered 202.
- `worker_save`: `docs/services/assistant-worker.md:512` "One queued job should
  produce one final callback answer in V1". `handleMessage` reads `worker.json`
  outside its `try`; a job that starts while the settings page is saving gets a
  parse error and is neither done nor queued again. No call has failed.
- `worker_timer`: `docs/services/assistant-worker.md:284` "While the LLM request
  is still running, send `thinking` callbacks every configured `N` seconds" (also
  `:481`, `docs/contracts/callback-api.md:20` and
  `docs/contracts/conversation-api.md:102`). `handleMessage` starts the timer and
  then reads the conversation outside its `try`. If that read fails the job is
  dropped and nothing stops the timer: the page is told for the life of the
  process that the assistant is thinking, though no LLM was ever asked. The
  theorem `TimersAreStopped` says that this is the only way to leave a timer, and
  `SpinnersCease` excuses it by name (`Leaked`).
- `gateway_race`: `docs/contracts/callback-api.md:26`, final callbacks should be
  persisted. Two `appendMessage` calls of one session that both read before
  either writes keep one entry.
- `template_dollar`: `docs/contracts/assistant-worker-system-prompt.md:146`. The
  message is put into the template as the replacement string of `replaceAll`,
  where `$&`, `` $` ``, `$'` and `$$` are patterns: a message that holds one of
  them reaches the LLM as something else than was typed.

A sixth has no run of its own. `docs/operations/scaling.md:10` says that
"`assistant-worker` may run in more than one instance", and
`docs/services/assistant-worker.md:217` that a job ends with "append the new user
message and assistant reply to `messages`". With `Workers = {w1, w2}`, window 4,
no fault and no save in `MCAssistantWorker.cfg`, TLC violates `DoneIsRemembered`
in 22 states: two instances with jobs of one chat both read the file in
`appendExchange` before either writes, both jobs are done, one exchange is
forgotten.

## 6. Proofs

TLAPS proves, for all values of the constants (jobs, workers, sessions, sockets,
saves, views, bodies, and so on) that satisfy the named assumption of the module:

| Module | Theorems | Assumption |
|---|---|---|
| `RedisQueueProofs` | `TypeCorrect`, `InvariantHolds`, `ReservationIsExclusive`, `RequestsAreAccounted`, `FreshComesFirst`, `RedisImplementsLifecycle` | `NoJobAssumption`: the marker is no job, no worker has the name of the abstract "no worker" |
| `FileQueueProofs` | `InvariantHolds`, `FilesTypeCorrect`, `ReservationIsExclusive`, `AcceptedIsKept`, `HeldIsWholeAndOpen`, `FileQueueImplementsLifecycle` | `FileQueueAssumption`: a natural number of requests, and the same about worker names |
| `AssistantWorkerProofs` | `InvariantHolds`, `WorkerTypeCorrect`, `OneJobAtATime`, `TimersAreStopped`, `AnsweredFirst`, `WorkerImplementsLifecycle`, `RepeatsHaveCauseUnshared`, `AnswersHaveCause`, `MemoryExtendsFile`, `OneAnswerUntilFault`, `UnsharedMemoryIsComplete` | `WorkerAssumption`: each job has a conversation, a window of 1 to 20, natural numbers as bounds, markers are no jobs or workers; `AnswersHaveCause`, `MemoryExtendsFile`, `OneAnswerUntilFault`: `FilesUnshared` |
| `SessionRegistryProofs` | `RegistryIsCorrect`, `NewestStaysRegistered`, `EntriesAreLive`, `GaugeIsExact` | `RegistryAssumption`: markers are no sessions or sockets, finitely many sessions (for the gauge) |
| `GatewayWebProofs` | `GatewayImplementsRegistry`, `GatewayInvariantHolds`, `GatewayTypeCorrect`, `NothingIsForwardedUnstored`, `RepliesStayInSession`, `HistoriesAreGenuine`, `EmptyFilesAreExplained`, `TurnsKeepHistory`, `TurnsKeepReplies` | `GatewayAssumption` (bounds are numbers, kinds of handlers are disjoint, markers), `RegistryAssumption` |
| `WorkerSettingsProofs` | `RequestsFit`, `MemoryInvariantHolds`, `SettingsTypeCorrect`, `MemoryStaysRecent`, `PromptStaysCurrent` | `ConfigAssumption` and `SettingsAssumption`: numbers are integers or absent, the environment's models fit their providers |
| `SettingsPageProofs` | `PageInvariantHolds`, `PageTypeCorrect`, `ChoicesAreKept`, `PageTellsTheTruth` | `ConfigAssumption`, `PageAssumption`: what `worker.json` holds at first has been normalised |
| `ChatSystemProofs` | `ChatInvariantHolds`, `ChatTypeCorrect`, `SystemImplementsRegistry`, `SystemImplementsChat`, `HeldJobsGoOn`, `SystemImplementsQueue`, `SpinnersHaveTimers` | `ChatAssumption` (bounds, markers), `RegistryAssumption` |

How the arguments go:

- **Redis.** `IInv == TypeOK /\ ExclusiveReservation /\ RequestsAccounted /\
  FreshBeforeRetried`, none of which is inductive alone: that a pushed job is not
  already in the list needs `RequestsAccounted` (a job not yet pushed is
  nowhere), which needs `ExclusiveReservation` to know that a job leaves its one
  place only for another. `FreshBeforeRetried` needs that a job just pushed was
  never retried, again from `RequestsAccounted`. Lemmas say what append, prepend
  and pop do to membership in the list.
- **File queue.** The four checked facts need `BusyHasTarget` (a worker that is
  not idle has a job) and `FilesAgree` (how the request, the place, the content
  and `done` of one file go together). The rename is the point of decision: its
  guard says the file is in the inbox, `ExclusiveReservation` says whoever holds
  a file has it under `.processing`, so the winner is alone.
- **Worker.** `OneJobPerWorker` needs `FlagIsSet` (a call under way has set the
  flag of its process). `OnlyDropsLeaveTimers` (a timer runs for a job its
  process works on, or for one that was dropped) and `AnswersFirst` need
  `HeldByOne` (a call between reservation and acknowledgement has a job, the
  queue counts it as held, no other call has it). A lemma sorts the twenty steps
  of `processOnce` into those that keep the job, those that release it and the
  reservation, so that only the steps that touch a timer, an answer or a file
  are looked at one by one. `AnswersFirst` follows an exchange from the callback
  through `base` to the file: whatever two processes write over each other was
  answered.
- **Repeats.** `answers[j] <= 1 + faults + saves` is not inductive: it forgets
  which cause belongs to which answer. `RepeatsCovered` says what a job is owed
  at each await: one that waits, or is before its callback, has as many causes
  as answers; past the callback it may have one answer more. The steps that
  requeue an answered job must then be a fault, or a read that failed, and a
  failed read needs a cause not used yet. For `worker.json` that is the save (or
  the fault) that left it torn; for the conversation file there is none, so
  `FilesStay` has to show that a call past its first read finds the file whole
  unless it is itself writing it. That is true while no two calls are at work on
  one file (`OneCallPerFile`), and false otherwise: two processes that take jobs
  of one chat tear each other's writes, and a repeat then has no cause of its
  own. `RepeatsHaveCauseUnshared` has this as a hypothesis on the behaviour;
  `AnswersHaveCause` and `MemoryExtendsFile` derive it from `FilesUnshared`, a
  condition on the constants that `docker-compose.yaml` meets, which runs one
  worker container, and that sharding by chat would meet too; a deployment with
  several instances, which `docs/operations/scaling.md` allows, does not.
  `UnsharedMemoryIsComplete` says under `OneCallPerFile` that the exchange of a
  done job is in its file until the file is full: overlapping calls are the only
  cause of the lost exchange described in 5. `OneAnswerUntilFault`
  adds `Calm` (nothing torn, nobody stopping, nothing lost before the first fault
  or save): it is the part of `docs/services/assistant-worker.md:512` that holds,
  and `worker_save` is how the rest fails.
- **Registry.** `RegistryInv` needs `NewestHasConnected` (the newest socket of a
  session belongs to it) so that the disconnect of an older socket is known to
  leave the newest one's entry.
- **Gateway.** Every step is one of the registry or leaves it alone
  (`GatewayImplementsRegistry`), so the registry's invariant may be used in the
  gateway's proof. On top of it `HandlersKnow` says what each await already knows
  (whose session, which message, that it was stored), `SocketsKnow` that a socket
  was sent only replies of its session, and `AllGenuine` that histories and the
  copies handlers hold of them contain only what arrived for that session: a
  copy that overwrites a newer one drops entries, and adds none.
- **Turns.** `gateway_race` shows what overlapping handlers lose. The converse
  is proved: if from read to write the handlers of one session took turns
  (`OneStores`), then `FileIsAsRead` is an invariant, through failing writes and
  restarts; no file is damaged, every write extends what the file holds
  (`TurnsKeepHistory`), and without clears, and while the file is not full
  (`HasRoom`), no stored reply goes (`TurnsKeepReplies`). Nothing in
  `gateway-web` makes them take turns: the theorems say what a queue per session
  around `appendMessage` would buy.
- **Settings.** `SettingsInv` says what each await already knows: past the second
  read the request names a provider, past the third a model that fits it. That
  survives any save in between because `ModelName` takes the saved model only if
  the settings still name that provider; the lemmas show that normalisation and
  the environment yield a fitting model.
- **Memory.** `MemoryInv` writes "the end of all exchanges" pointwise (`EndOf`):
  the i-th entry from the right of the one is that of the other. Windows are at
  most 20, so that the second cut, to 20, keeps what the first one left, and an
  end of an end is an end.
- **Settings page.** `ChoicesFit`: a choice is fitting in the form, on the page,
  in a request, in the file and in the answer, and so is each option offered. A
  fitting choice is a fixed point of the normalisation. `PageTellsTheTruth` needs
  `KnowsInv`: of an undisturbed page, each call under way carries what it must.
  A save that is written has the settings of the file, one that failed behind the
  truncation says so, a refresh that has read
  the provider, then the model, has read those of the file, and when no save is
  under way the page shows the file. Undisturbed calls do not overlap, so
  a save meets no refresh that has read older settings.
- **Refinement of `JobLifecycle`.** Under the invariant every step of
  `RedisQueue`, `FileQueue` and `AssistantWorker` is one step of `JobLifecycle` or
  leaves its variables alone: `RPUSH` and creating the file are Enqueue, `BRPOP`
  and the successful rename are Reserve, `markDone`, `markFailed` and drop or
  crash are Complete, Requeue and Lose; calls that only read, and answers of the
  API, are stutters. The proofs establish which job and worker the mapping
  changes, step by step. In the file queue the mapping depends on the invariant
  that a held file is never in the inbox; in the worker, `OneJobPerWorker` gives
  the guard of Reserve, and that a process that ends loses one job at most.
- **Refinement of `Chat`.** `ChatInv` relates pages and sockets (`SocketsAgree`:
  a connected page has an open socket of its own, of its session), messages and
  jobs (`JobsAgree`: a message is a job, or its POST is under way, only after its
  handler has posted it and never both; what got its 202 is a job, and only jobs
  are answered; a job may well be one whose POST has failed), and what is shown
  and answered
  (`RepliesAreOwn`). With `JobsAgree` the phase of a message becomes a table, and
  each step one of three kinds: one message moves on, one is said, or some are
  lost. That an emit reaches only pages of its session takes `SocketsAgree`
  together with `EntryIsLive` of the registry.
- **The seam of the composition.** `WorkersGoOn` says that a worker is busy
  exactly while it holds a job, and one only, and that it waits for the answer
  to a callback only while that callback is under way. With it every step of
  `ChatSystem` is one of `JobLifecycle` on the queue's variables
  (`SystemImplementsQueue`), and no job is held by a worker that does nothing
  about it (`HeldJobsGoOn`). `SpinnersHaveTimers`, that a page which shows a
  spinner has its timeout running, is why `SpinnersCease` holds under fairness.

Model-checked only: liveness (`QueuedIsReserved`, `FirstIsReserved`,
`QueuedSettles`, `MessagesConclude`, `SpinnersCease`), which the
prover does not reach. TLAPS cannot reason about ENABLED, and so not about weak
fairness; the safety facts these properties rest on (`HeldJobsGoOn`,
`SpinnersHaveTimers`, the type and step invariants) are proved.

`RepeatsHaveCause` and `SavesExtendFile` are not theorems of the specification
alone: with two processes on one chat both are false, since nothing locks a
conversation file (see 5). The run `worker` has one process, where they
hold.

## 7. Not modelled

- The wire formats of the LLM APIs: a provider returns a text or fails, and
  `IsReply` says which texts are accepted. The wording of prompts, the files of
  the memory directory (no prompt contains them), the wording of a status.
- The two numbers of a configuration on the settings page, layout and escaping.
- Metrics, OpenAPI documents, the HTML of the pages, process start.
- Restarts of Redis itself, and a connection to it that breaks after a worker's
  `BRPOP` or `LPUSH` was executed and before its answer. (For the `RPUSH` of the
  API that case is the error after the push.)
- `MemoryQueueAdapter`, which no worker can read (different process), and the
  services that exist as documents only.
- A damaged file that parses by accident.
- In `ChatSystem`: reply and history file are one step, and messages of one
  session are independent; `GatewayWeb` has the race.

## 8. Plan

1. Lemmas for liveness that need no ENABLED: measures that every step of a job
   but a fault decreases, in `AssistantWorker` and `ChatSystem`.
2. Larger instances of `ChatSystem` (two messages, two workers), once the state
   space allows it, or with the thinking callbacks left out.
3. Several Redis connections of one worker, with a break between a command and
   its answer.
