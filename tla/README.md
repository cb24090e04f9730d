# Models and proofs for the freelance-project notifier

This directory holds TLA+ modules that describe how the program finds projects
("jobs"), matches them to users and delivers them to Telegram, TLC
configurations that check the modules on small instances, and theorems that
TLAPS checks for every value of the constants. Paths are relative to the
repository's root (`src/` in `PROJECT.json`).

Contents: [the system](#the-system), [what is hard](#what-is-hard-about-it),
[modules](#modules), [runs](#runs), [proofs](#proofs),
[findings](#where-code-and-documents-disagree),
[what is left out](#what-is-left-out), [plan](#plan).

To check: `tlc -workers 2 -config <cfg> <MC module>.tla`,
`tlapm <module>Proofs.tla`. `PROJECT.json` says which definition stands for
which lines, which properties each run checks, and for each property a plausible
mistake in the code ("mutant") that the run would have caught.

## The system

A pipeline of processes that share one Postgres and one Redis:

    crawler --> Postgres jobs + pending_job_embeds --> ai-process
    ai consumer   <-- ai-process:  embed, match, rerank --> pending_ac_jobs
    ac consumer:  pending_ac_jobs --> ac-batch --> top 5 --> match-notify
    notifier      <-- match-notify: rows of `notifications`, Telegram
    API --> users + pending_user_embeds --> user-embed --> user-rematch --> match-notify
    Telegram --> bot (inbox in Redis) --> API; crawler --> browser service

| Component | Code | State | Operations | Correct when |
|---|---|---|---|---|
| Notification delivery | `backend/internal/usecase/{send_notification,daily_digest}.go`, `adapter/postgres/notification_repository.go`, `adapter/redis/match_notify_consumer.go`, `cmd/notifier` | rows of `notifications`, the Redis lists of match-notify, locals of the main loop and of two crons | pop, ExecuteBatch, ack/nack/requeue, recover; digest and accumulation: reclaim, select, recover missed, claim, send | no job is delivered twice, the daily cap holds, nothing is stranded, what waits goes out |
| Telegram client | `adapter/telegram/notifier.go` | circuit breaker, attempt of each Send | Send with retries, beforeRequest, markSuccess / Permanent / TransientFailure | one probe while half-open, recovery after an outage |
| Reliable queues | `ai_service/adapter/redis/*queue.py`, `usecase/consumer_loop.py`, `cmd/*consumer/main.py` | list, `:processing`, `:dlq`, in-flight deques | pop + stamp, ack, nack, reclaim_stuck, nack_all_inflight, signals | no message disappears before its work is done, a restart takes nothing from live replicas |
| Actor-critic batches | `adapter/postgres/pending_jobs_repository.py`, `usecase/process_ac_batch.py`, `cmd/ac_consumer/main.py` | `pending_ac_jobs` with leases | upsert, claim, enqueue, release, mark processed, cleanup | every match is ranked once, none is wiped while its batch is old |
| Job processing | `usecase/process_job.py`, `rerank_policy.py` | embeddings, matches | embed, match, filter, rerank | the final ranking respects thresholds and feedback |
| Outbox | `adapter/postgres/dispatch_repository.go`, `usecase/dispatch_pending_embeds.go` | `pending_*_embeds` with leases | stage, claim, enqueue, delete / release | what is staged is enqueued, also when it is staged again meanwhile |
| Profile embedding, rematch | `usecase/process_user_embed.py`, `process_user_rematch.py` | user vectors | embed, enqueue rematch, match | the last profile wins |
| Crawler | `usecase/crawl_projects.go`, `expire_jobs.go`, `cmd/crawler` | `jobs` | list, save, expire, requeue orphans | an expired job is not sent, an orphan is embedded in the end |
| Redis leases | `adapter/redis/security.go` | leader lock, nonces, rate counters | Acquire, Release, Allow, consume nonce | at most one leader, a nonce is good once |
| API | `internal/api` | none of its own | authentication, profile, feedback | staging is in the profile's transaction |
| Fetching | `adapter/http/fetcher.go`, `internal/proxy/pool.go` | per-host breakers, proxies | Next, RecordFailure, unban | locks are balanced, a banned proxy is not used |
| Browser service | `browser-service/{browser_pool,main}.py` | pool of browsers, render queue, Playwright driver | render, acquire, release, mark_unhealthy, health check, recover | counts are exact, every browser comes back |
| Telegram bot, intake | `telegram-bot/main.py` | update states, payloads, inbox and processing lists per shard, polling offset | enqueue, claim, ack, requeue, recover, poll | an update taken is handled, in order, once unless something fails |
| Telegram bot, dialogues | `telegram-bot/main.py` | conversation state (Redis and cache), batch session, user data at the API | commands, texts, buttons | a text answers the last question, a card collects the votes of one handler each time it is shown, only the edited filter changes |
| LLM adapters | `adapter/gemini/*.py`, `adapter/actor/fallback_actor.py`, `util/{circuit_breaker,llm_cache}.py` | breaker, cache | explain_batch, classify | the breaker recovers, only whole answers are used |
| Extractors, reminders, telemetry | see `PROJECT.json` | | | |

Interactions. Processes never call each other: they meet in Postgres tables and
Redis lists. Within the notifier, the main loop and three cron goroutines
share the `notifications` table and one Telegram client, and so one breaker.
Within an ai consumer, the main loop and the thread that forces the exit share
the in-flight deques. Replicas of a consumer share the three lists of a queue.

## What is hard about it

No statement of the delivery code is in a transaction with another (but for the
claim): a crash or an error may fall between any two, and a message is then
delivered again to whatever they left behind. The main loop takes no claim on a
row before it sends; the crons do. Status `dispatched` is set before Telegram is
called, so that a crash errs on the side of silence; the way back depends on
error paths being complete. The queues are at-least-once with hand-made claims,
retries and reclaiming, each made of several Redis commands. The breaker
interacts with a retry loop that asks it before every attempt. The rows of
`pending_ac_jobs` and the outbox are held by leases that end by themselves, and
their messages carry ids, so that a consumer reads something newer than what was
announced. The bot writes a user's state to a cache, to Redis and to the API, one
after the other, and Telegram repeats updates. The browser pool gives up control
at every await. `PROJECT.json`
lists these hazards by line, and for each the properties that would notice.

## Modules

| Module | Stands for | Extends / used by |
|---|---|---|
| `NotificationDelivery` | table, main loop, digest and accumulation crons, what crawler and user change meanwhile | `MCNotificationDelivery`, `NotificationDeliveryProofs` |
| `TelegramBreaker` | breaker and retry loop of `Notifier.Send` | `MCTelegramBreaker`, `NotificationDeliveryProofs` |
| `ReliableQueue` | the four Redis queues of ai-service and their consumer loop | `MCReliableQueue`, `ReliableQueueProofs` |
| `AtLeastOnce` | abstract: what an intake of items promises | implemented by `UpdateIntake` |
| `UpdateIntake` | the bot's two transports, from the update to its handler | `MCUpdateIntake`, `UpdateIntakeProofs` |
| `BotDialog` | what the bot does with one user's updates | `MCBotDialog`, `BotDialogProofs` |
| `MatchPipeline` | job consumer, `pending_ac_jobs`, its scheduler, ac consumer | `MCMatchPipeline`, `MatchPipelineProofs` |
| `ProfilePipeline` | profile update, user outbox, embed and rematch consumers | `MCProfilePipeline`, `ProfilePipelineProofs` |
| `BrowserPool` | pool of browsers and render requests | `MCBrowserPool`, `BrowserPoolProofs` |
| `GeminiAdapters` | explain_batch and classify with breaker and cache | `MCGeminiAdapters`, `GeminiAdaptersProofs` |

The queues between the components appear in `MatchPipeline` and
`ProfilePipeline` as what `ReliableQueue` shows of them: a message waits, is held,
comes back after a failure or a restart, or ends in the DLQ.

Every `MC` module only names model values and gives the function-valued
constants their values.

### NotificationDelivery

One user: rows of two users share no state. Each SQL statement is an
action, and `loc[p]` holds what process `p` (the main loop `"batch"`, or a cron)
remembers between two of them: a label `pc`, the message in hand, the items the
current loop has yet to visit (`todo`), those chosen for delivery (`picked`),
the room left under the cap. `row[j]` is the status column, `today` the rows
whose `sent_at` is in the current UTC day, `oldClaims` those whose `claimed_at`
is older than the claim TTL. `inbox` and `retries` are the lists of match-notify.
`delivered[j]` counts, up to 2, how often `j` has reached the chat; it is what
the user sees, no code reads it.

The actions of the main loop follow `ExecuteBatch`: `LoadBatch` (user and jobs),
`Ensure` per item with `DropStaleItem`, `EnsureDone`, `CountBatch` and
`MissItem`, `Dispatch` per item, `SendOk` / `SendError`, `FailItem` or
`SentItem`, then `Ack`, `Nack` or `Requeue` as `cmd/notifier` decides. `BatchError`,
`DispatchError` and `GiveBackError` are the error returns. A cron runs
`CronStart` (reclaim of old claims), `CronSelect`, `CronCount`, `CronReadMissed`,
`CronDropMissed`, `CronConvert`, `CronClaim` (the one statement with
`FOR UPDATE SKIP LOCKED`), `CronJobs`, `CronPurge`, and then the delivery
actions it shares with the main loop. `EnvStep` is the rest of the world: a
crash of the notifier (locals vanish, `Recover` moves the processing list back),
midnight, jobs that age, expire (`JobExpires` of the crawler, then
`CancelPending`, which deletes pending rows) and are listed again, a user who
pauses or changes plan.

Decisions:
- There is one notifier process, as deployed. Two at once would recover each
  other's processing lists; that is listed as a hazard.
- `EnsurePending` is an INSERT and, on conflict, a SELECT and an UPDATE; here it
  is one action. The main loop is one goroutine, so only a cron or the crawler
  could come between, and the result is one of the rows they leave.
- Users and jobs that the code reads in consecutive statements are read in
  one action (`LoadBatch`); the user row is never deleted.
- Which rows are picked first is by score in the code; here it is any subset of
  the size the code computes. The order of the queue is open as well.
- A cron does not overlap itself (`cmd/notifier`): the digest's lock lasts 15
  minutes and its context 5; the accumulation's lock and context both last 9
  minutes, with nothing to spare, but its next run begins 10 minutes after the
  last one did. For the same reason `ClaimAges` fires only for a claim that no
  running cron holds.
- `Faults` selects which of these happen: `"db"` (a statement fails), `"redis"`,
  `"ambiguous"` (Telegram took the message but the answer was lost), `"crash"`.
- Ending the process during a Retry-After wait is a `Crash`.

### TelegramBreaker

The breaker's methods hold its mutex, so each is one step: `Admit` / `Refuses`
(beforeRequest), `MarkSuccess`, `MarkPermanentFailure`, `MarkTransientFailure`,
`Open`. `call[s]` is where sender `s` is in its Send: before a request, in it, or
waiting for the next attempt. `cooling` abstracts the clock: `CoolDown` is the
moment `openedUntil` passes. `healed` is set once Telegram answers every request.
The context of a cron (`Cancellable`) may end wherever its Send is (`CtxEnds`):
`beforeRequest` does not look at it, a request in flight fails (`RequestFails`,
also when healed), and `waitForRetry` then returns its error, with which Send
leaves without a word to the breaker (`Cancelled`). So does a Send that the
breaker refuses (`CircuitOpen`); both are `Leave`. `probes` and `orphaned` are
history: the senders admitted since the breaker became half-open, and that the
recorded probe left its Send unmarked.

### ReliableQueue

The three lists are bags of payloads `[msg, tries, claim]`. A worker's `proc[w]`
holds its place in the loop, the payload last popped, `_inflight_by_job_id` (in
order), what the running execution covers, the stop event, and what the loops
of `reclaim_stuck` and `nack_all_inflight` have yet to move. `Pop` (BRPOPLPUSH)
and `Stamp` (the MULTI block that replaces the payload by one with the time)
are two steps, as are reading the processing list (`Start`) and each of the
moves (`Reclaim`), whose LREM may find nothing while its RPUSH goes ahead. `Ack`
and `Nack` take the *oldest* payload under the key of what was worked on, as
`_peek_inflight` does. A failing Redis command either did nothing
(`ReclaimError`, `StampError`, `SettleError`) or did its work and lost the
answer (the `Occurs("redis")` branches). `NackAll` begins the shutdown either in
the main thread or, whatever that is doing, in the forced exit.

`KeyIsWork` tells the queues apart: in ai-process, user-embed and user-rematch
the message is the id, and an execution does all that has been asked for under
it; in ac-batch the message carries the list of jobs, and the key is the user.
Claims are numbered in the order of time, `aged` is the claim that has just
become older than the reclaim threshold.

### AtLeastOnce and UpdateIntake

`AtLeastOnce` states what an intake promises, whatever carries the items: an item
taken is *owed* until served; as long as there is no *trouble* it is served once
and never lost; each trouble may lose what is owed or have one item served once
more. `UpdateIntake` implements it (`ImplementsAtLeastOnce`): owed are the updates
that arrived, not handled and not lost; trouble is the number of faults.

`transport` is `BOT_MODE`. With `"webhook"`, `post[p]` is how far a POST has
come in `enqueue_webhook_update` (GET of the state, payload, LPUSH, state), and
`worker[s]` where the shard's thread is: recovery of its processing list at the
start, `Claim` (BRPOPLPUSH), `TakePayload`, `Handle`, then ack or requeue command
by command. With `"polling"`, `poll` is the loop over the fetched updates with
its offset, and `local` the in-process copy of the update states, used when
Redis fails. `Crash` ends the process at any of these points. `handled`,
`arrival`, `lost`, `left`, `again`, `astray` are history: what the handlers saw,
the rank in which an update reached Redis, those whose payload or list entry is
gone, those an error left in the processing list, those that two POSTs put there,
and those of both kinds that a restart takes back out of their turn.

### BotDialog

A handler is a *plan*: the sequence of API calls and state writes that its
branches lead to, given the conversation state it read. `Plans` has one operator
per handler (`CommandPlan`, `TextPlan`, `Onboarding`, `FiltersPlan`, `VotePlan`,
`CardPlan`, ...); the actions execute the head of the plan. A call fails, or takes
effect and reports failure; a crash drops the plan and has the update delivered
again, as `UpdateIntake` would. `_http_post` takes the empty answer 204
of an accepted POST for a network error: a vote is posted up to
`API_RETRY_ATTEMPTS` times (`PostVote`, `Again`, with the attempts left in the
plan) and then reported as failed, and so are votes from old buttons and the
request for Pro (`Collected`), whose repetition changes nothing the properties
speak of. `LongEnough` is the length check of the text that
`_build_onboarding_profile_text` puts together, from the category and from the
lines of experience and rate, which old buttons add in any order.
`conv` and `cache` are the two copies of the conversation state; `api` is what the backend holds. `part` splits the
buttons into groups that share state only through the conversation, which every
group can replace; each behaviour is one user who uses one group and the common
commands. `asked`, `walk`, `owed`, `shown`, `posted`, `slip` are history
variables for the properties; `slip` is set when Redis did not take a write,
where the code itself logs and goes on.

### MatchPipeline

One user. `jc` is the job consumer between the statements of
`ProcessJobUseCase.execute`; `rows[j]` is the row of `pending_ac_jobs` (waiting,
done; lease; score), `older[j]` the rows created before it; `ac` is the ac consumer
with the batch it holds, `acQ` and `stuck` the queue and the processing list of
ac-batch. `Schedule` claims rows in one statement and `EnqueueBatch` pushes the
batch in another. `Lapse(j)` ends a lease; `MaxEarly` bounds how often one ends
while its batch is still alive. A score is a level; the tag bonus of the batch
score only makes the choice among equals open (`Firsts`), and the rerank policy
(threshold, top k, fallback to the best) is `Selections`. `credit[j]` counts the
reasons to announce a job minus its announcements.

### ProfilePipeline

One user. `SaveProfile` is the API's transaction (profile and outbox row);
`disp` is the dispatch loop between `Claim`, `Enqueue`, `Delete` and `Release`;
`ec` and `rc` are the embed and the rematch consumer between their statements.
A text is what the parsers can tell of it: its stack, minimum budget, experience,
kind. `Guesses[t]` is what the language model may make of it (`ModelParses` adds
what `GeminiProfileParser` does to it), and the local parser is the fallback. It
may find nothing in a text; then a model that fails leaves only the vector to save.
`Filled` is the upsert that fills empty filters, `Allows` the preference filter.

### BrowserPool

Everything runs on one event loop, so an action is what happens between two
awaits at which another coroutine can come in. `pool[i]` is the instance with id
`i`; `task[w]` is the recreation a worker runs: a render that awaits it, or a
background task (`Slot`). `rlock` is the recovery lock, `check` the pass of the
health loop. A reference that outlives its instance remembers whether the
browser it names was replaced (`at`). A request whose browser has left the pool
also remembers whether the health pass has yet to come to it (`due`): a failed
render marks the instance, and the pass skips what is marked already
(`Reported`). A rebuild stops the driver, which ends the browsers outside the
pool too. `short` records that a rebuild of the
pool failed half-way, the one case in which ids are forgotten.

### GeminiAdapters

One consumer is sequential, so `call` is the call in progress. Answers are told
apart by what the parsers make of them; `KeyOf` maps a request to its cache key,
and several requests may share one. `ending` remembers how the last call that
the breaker admitted ended.

## Runs

| Run | Shows | Distinct states |
|---|---|---|
| `batch` | main loop alone; statements and Redis fail, crashes anywhere; two messages share a job, cap 1: `AtMostOnce`, `WithinDailyCap`, `FailedHasRetry`, `SentIsFinal` | 350,648 |
| `settle` | main loop with fairness, user pauses, jobs expire: `NoneStranded`, `MessagesSettle` | 366,040 |
| `backlog` | both crons over several days on a user whose plan changes, crashing and failing, rows waiting from before, some of expired jobs: `AtMostOnce`, `ClaimsEnd`, `PendingGoesOut`, `ProMissedComesBack` | 100,692 |
| `batch_vs_accumulation` | violates `AtMostOnce` | |
| `breaker` | three goroutines, three attempts, two of whose contexts may end anywhere: `OneProbe`, `RecoversUnlessOrphaned` | 321,348 |
| `queue` | two replicas, two messages, two faults of any kind: `NothingLost`, `FreshClaimStays` | 3,682,655 |
| `intake` | two updates, either transport, three POSTs, two faults, a handler that raises: `ConfirmedWasHandled`, `HandledInOrder`, `ArrivedIsHandled`, `ImplementsAtLeastOnce` | 563,291 |
| `bot` | two cards, any buttons and texts, one fault: `VotesWithinAttempts`, `MovedOnMeansPosted`, `TextAnswersLastQuestion`, `SavedProfileWasChosen`, `OnlyItsFilterChanges` | 2,555,540 |
| `browser` | a pool of two, one render and one background recreation at a time, two faults: `CountsRight`, `NeverForgotten`, `ComesBack` | 202,811 |
| `matching` | two jobs, each matched up to twice, a lease that ends early, one fault: `ProcessedWasRanked`, `AnnouncedOnce`, `MatchesAreRanked` | 238,010 |
| `profile` | two saves, three texts, two listings, three filters, one fault: `ChoiceSurvivesParse`, `OffersAreWanted`, `ProfileIsMatched` | 270,138 |
| `llm` | three requests, two under one key, threshold 2: `ProbeIsSettled`, `AnswerFits` | 20,883 |

A type invariant is checked in `batch`, `breaker`, `queue`, `browser`, `matching`
and `profile`; there it also carries relations (a row's job has an embedding, a
staged row exists while the dispatcher holds it, no request passes its last
attempt). Deadlock checking is off where the system may stop: no message left,
no row waiting, or a bound reached; `browser` and `llm` check for deadlock.

Bounds. Two jobs and a cap of one make the cap bite and leave a row behind; two
messages that share a job meet each other's rows. `MaxRetries = 1` lets a
message fail, be retried, and reach the DLQ. In the breaker three senders are the
three goroutines of the notifier, three attempts the default; `Threshold = 2`
makes failures of two senders add up. In the queue `MaxNacks = 1` reaches the
DLQ, `MaxClaims` and `MaxFaults` bound a behaviour: two faults are enough for
one to undo what another began (an ack that fails, then a crash). In the intake
two updates of one user can overtake each other, three POSTs allow a repeated
one, and shards share nothing but a crash. In the bot two cards and three
showings let a vote move on, come back and be cast again; one fault of any kind
at any call. States after a `slip` are not continued (`Unslipped`): all five
properties excuse them for good. In the pool two browsers let one serve while the other is rebuilt;
two renders with one retry and one fault (362,811 states) violate nothing either,
and its safety is proved for any number. In `matching` a batch of two, of which one is sent, leaves one behind,
and `MaxOffers = 2` lets a match return under an older lease. In `profile` two
saves are one profile overtaking another, and of three texts one says
nothing to the local parser. In `llm` two requests share a key and
a third does not; `Threshold = 2` separates the first failure from the last.

Fairness. `BatchStep \/ DeliverStep("batch")` is weakly fair: the main loop is
never idle while there is work, every call in it has a timeout. Each cron is
weakly fair and is started again by its ticker. Days pass and claims grow old by
the clock. Nothing is assumed of what Send answers. In the breaker a Send that has begun ends or
retries (its requests and waits have timeouts) and there is always something to
send. In the intake the worker threads and the polling loop go on, and a claim
that nobody renews runs out (strongly fair: its TTL runs whatever
else happens). In the bot a handler that has begun goes on. In the pool every
coroutine that can go on does, each await ends (page operations have timeouts),
timers fire, the health loop never ends; with few background slots that each
id gets its turn takes strong fairness, while asyncio has no such limit. In
`matching` and `profile` the consumers loop, the scheduler is due again every
interval and leases end; nobody promises an offer, a restart or a fault. Nothing
is assumed about faults, except that they are bounded where `MaxFaults` says so.

Scope of some properties. `MessagesSettle` is checked without a failing Redis: a
message whose ack fails stays in the processing list until the next start, by
design. It also says nothing if Send goes on refusing for an open circuit
(`Refused`), for that requeues the message without counting a retry, and a wedged
breaker (item 3 below) does it for ever. `FailedHasRetry` is checked without a user who pauses and without
expiry, which acknowledge a message whose rows are `failed`. `WithinDailyCap`
is checked (and proved) for the main loop; main loop and cron at once read the
count before each other's update (see below). `PendingGoesOut` and `ProMissedComesBack` assume `Calm`: from
some point on no cron run breaks off, deletions succeed and the plan stays.
`RecoversUnlessOrphaned` is what the code gives of "the breaker recovers": no
order of answers, stragglers and cooldowns keeps it from closing, save a probe
whose sender left without telling it (item 3).
`VotesWithinAttempts` is what it gives of "one vote per card shown" (item 8).
`HandledInOrder` excepts, for the webhook, an update that an error left in the
processing list, and one that was put there twice and so left (see below).
`ArrivedIsHandled` excepts updates that an error of Redis left in the processing
list and those of a worker it ended, which wait for a restart.
`TextAnswersLastQuestion`, `SavedProfileWasChosen`, `OnlyItsFilterChanges` and
`VotesWithinAttempts` are stated up to a failing Redis (`slip`).
`ProcessedWasRanked` excepts the match that falls between a batch's read and its
mark, `ProfileIsMatched` a stage that `Delete` took with an older one; both
are described below.

## Proofs

Each proof module assumes the named assumption on the constants of the module it
extends, and covers any number of jobs, messages, users' texts, senders,
attempts, replicas, browsers, renders and requests. A further hypothesis stands in
the theorem's ASSUME; without it the statement is false, and the text says why.

`NotificationDeliveryProofs`
- `TypeCorrect`: `Spec => []TypeOK`. `TypeOK` is not inductive: that `Nack`
  keeps the retry count within `MaxRetries + 1` needs to know that the message in
  hand is in the processing list with a count that has not passed the limit, and
  is not yet in the DLQ. `HandInv` says so; `TypeOK /\ HandInv` is inductive
  (`BatchType`, `BatchHand`, `CronType`, `DeliverType`, `EnvType`, `TypeStep`).
- `BatchDeliversOnce`: with the main loop alone (`Crons = {}`), no lost answers
  and no job that is expired or expires, `Spec => []AtMostOnce`, through any
  failures, crashes, retries
  and any messages. The inductive invariant `DeliveryInv` has three parts:
  `StageInv` (at each stage of a batch, which statuses the picked rows have),
  `ChatInv` (a job that has reached the chat has a row that no later message may
  send), `NothingExpired`. The three hypotheses are what the findings below are
  about: with a cron (`batch_vs_accumulation`) or with expiry the statement is
  false, and a lost answer leaves a row `failed` although it was delivered.
- `CronsDeliverOnce`: with the crons alone (`Messages = {}`) and no lost answers,
  `Spec => []AtMostOnce`, whatever the plan, the pause, the jobs and the clock do,
  whatever statement fails and wherever the process dies. Here expiry does no harm:
  nobody inserts a row again. `CronInv`: what each run knows of the rows it has
  claimed, stage by stage (`ClaimInv`), no two runs hold a row (`Apart`), and a
  delivered job has a row nobody would claim (`Spent`). The step that matters is
  `OthersKept`: a row one run holds is changed by another only by deleting it,
  because a claim is taken from `pending` alone and given up for lost only when no
  living run holds it. `OneRunEnough` reduces each action to the run that takes it.
- `SentStays`: with the main loop alone, `Spec => SentIsFinal`, through failures,
  crashes, expiry, pauses and midnights. `HoldInv`: what ExecuteBatch holds to
  delete or to mark failed is not `sent` until it marks it so. A cron that sends
  the same row between the batch's statements breaks this, as in finding 1.
- `CapHolds`: with the main loop alone, `Spec => []WithinDailyCap`. `CapInv` says
  that from `CountBatch` on, the counted rows *together with* those picked are
  within the cap, so that `Dispatch` may go row by row; before the count the room
  is the plan's. Two actors would each count before the other's update.
- `NoRowStranded`: with the main loop alone, no failing statement and no crash,
  `Spec => []NoneStranded`. `StrandInv` locates a dispatched row: picked, and not
  among those still to dispatch or already marked. A failing `MarkFailed` or a
  crash strands a row by design; crons reclaim their own rows later.
- `FailedIsRetried`: with any crons, faults and crashes, `Spec => []FailedHasRetry`,
  if no job expires and the user does not pause (both acknowledge a message
  whose rows are `failed`). `RetryInv` follows the message in hand through
  `InHand`: its ensured rows are not failed, and once it made one failed it will
  not be acknowledged.

In the same module, for the client through which the notifier sends (its
definitions are named `BreakerInit`, `BreakerNext`, `BreakerSpec`... so that one
module can extend both):
- `BreakerTypeCorrect`: the failure count stays below the threshold, for any
  threshold.
- `HalfOpenProbesOnce`: `BreakerSpec => []OneProbe` for any number of goroutines.
  `OneProbe` is not inductive, since a state with the flag clear would admit
  another; `ProbeInv` adds that a half-open breaker has its flag set and exactly
  one probe.

`ReliableQueueProofs`
- `TypeCorrect`: `TypeInv` adds to the types that every payload that is queued, in
  processing or known to a worker is one of those that can have been written
  (`Seen`), and what each stage of a worker has in hand (`Worker`, `Sound`).
- `FreshClaimKept`: `Spec => []FreshClaimStays`. The property speaks of one worker;
  `FreshInv` says why the others cannot disturb it: a fresh claim's number is on
  no queued payload and known to nobody else (`Sole`).
- `NoMessageLost`: `Spec => []NothingLost`, provided that a key is its work or that
  Redis commands do not fail. An ack takes the oldest payload in flight under the
  key, which need not be the one worked on; `Covers` says that the execution has
  nevertheless done the work of each payload in flight under its key. In ac-batch
  with a failing Redis it has not (finding 4).

`UpdateIntakeProofs`
- `ConfirmedOnlyHandled`: `Spec => []ConfirmedWasHandled`. With polling the
  invariant is `PollInv`: what the loop has passed was handled (`Passed`: below the
  confirmed offset, below the next one, before the batch's position, and wherever
  a key says done), each repetition was paid for by a fault (`Paid`), and the
  inbox workers are not started (`Quiet`).
- `PollingInOrder`: with polling `HandledInOrder` holds without its excuses.
- `PollingIsAtLeastOnce`: with polling every step is a step of `AtLeastOnce` under
  the refinement mapping, or a stutter; `Paid` is what makes a repeated handling a
  trouble's worth. `Polling` (`transport = "polling"`) is a choice in `Init` that
  no step changes.

`MatchPipelineProofs`
- `TypeCorrect`: `TypeInv` carries what a batch rests on: a row lives as long as a
  batch names it, so that what the batch reads of it is a score, and `Put` keeps
  the order of the rows strict and total (`PutOrders`, `CleanupOrders`).
- `ProcessedAfterRanking`: `Spec => []ProcessedWasRanked`. Inductive with
  `MarkInv`: between the announcement and the mark, each row the mark will find
  waiting was weighed or came in between.
- `AnnouncedForAReason`: `Spec => []AnnouncedOnce`. `credit[j] >= 0` is proved by
  an account (`CreditInv`): the credit of a job covers one announcement for each copy
  of it in the queue and in the processing list, one for the batch in hand
  until it has announced, and one for its row if that is free to be claimed. Each
  step moves a unit from one place to another or has a reason to add one; the
  lemmas `CopiesAppend`, `CopiesTail`, `CopiesFront` count the copies. `AckInv`
  (a marked batch leaves no row leased) closes the account.

`ProfilePipelineProofs`
- `TypeCorrect`: `Asked` and `Embedded` say that whoever asks for an embedding has
  a profile to ask it for, and whoever asks for a rematch has an embedding.
- `ParseFillsOnlyTheEmpty`, `OnlyWantedOffered`: `ChoiceSurvivesParse` and
  `OffersAreWanted` are inductive together with the types: the upsert fills empty
  fields only, and the filter was applied to what the user chose.

`BotDialogProofs` (any number of cards and of faults)
What a handler has left to do is a sequence of effects, so each invariant speaks
of every suffix of every plan. `PlanInv` is below all five theorems: what is left
of a plan fits the update it was made for (`Rest`, with `VoteRest` for a vote and
`ObRest` for the questionnaire), and the two copies of the conversation state, the
backend's profile and its filters have their types.
- `VotesWithinShows`: `Spec => []VotesWithinAttempts`, with the retries as they
  are. `VoteInv` says that the card the session points at has the attempts of one
  handler to spare, and that a plan which has moved the session on has as many to
  spare as it may still post (`Spare`, `Voting`).
- `NoVoteLost`: `Spec => []MovedOnMeansPosted`, with `OwedInv`: until the first
  fault a vote is owed only while the plan that owes it is being carried out.
- `NoStaleQuestion`: `Spec => TextAnswersLastQuestion`. `CopyInv`: Redis and the
  cache each hold what the bot last asked, or nothing.
- `PickedIsSaved`: `Spec => SavedProfileWasChosen`. `WalkInv`: while a category is
  picked, Redis holds it, the cache holds it or nothing, and so does every plan of
  the questionnaire that is under way (`Chosen`).
- `OtherFiltersStay`: `Spec => OnlyItsFilterChanges`. `FilterInv`: what a toggle or
  a submission is about to PUT is the filters *as they are now*, but for the one it
  is about (`Toggling`, `Submitting`). It holds because one update is handled at a
  time.

A write that Redis did not take (`slip`) ends the guarantees of the bot, as the
properties say; `MovedOnMeansPosted` ends with the first fault of any kind.

`BrowserPoolProofs`
- `TypeCorrect`: `Spec => []TypeOK`, inductive as it stands.
- `NoIdForgotten`: `Spec => []NeverForgotten`. Not inductive: that a failing
  recreation leaves somebody who will try again depends on who holds the
  recovery lock and where its rebuild is. `WorkInv` says that a recovery past its
  first step holds the lock, that until its new driver runs the old one is
  stopped, and that a request with a recreation waits for it; `Covered` is the
  property in the form that is preserved (it forgets recreations that will end
  without a browser). `TypeOK`, `WorkInv` and `Covered` together are inductive.
- `CountsExact`: `Spec => []CountsRight`. `CountInv` adds that a request
  whose page failed, which release will count down a second time, holds an
  unhealthy browser if it holds any, whose count no longer matters.

`GeminiAdaptersProofs`
- `ProbeSettled`: `Spec => []ProbeIsSettled`, and `AnswersFit`:
  `Spec => []AnswerFits`. The inductive invariant is `TypeOK`, `CountInv` (a
  closed breaker has counted fewer failures than the threshold) and `KeysInv` (what
  is stored under a key came from a request with that key).

Only model-checked:
- everything under fairness (`MessagesSettle`, `ClaimsEnd`, `PendingGoesOut`,
  `ProMissedComesBack`, `RecoversUnlessOrphaned`, `ArrivedIsHandled`, `MatchesAreRanked`,
  `ProfileIsMatched`, `ComesBack`), which the prover does not cover;
- `HandledInOrder` and `ImplementsAtLeastOnce` of the webhook, whose inboxes are
  lists that commands take elements out of by value (`SelectSeq`): what that
  leaves of an order is an induction over the list.

## Where code and documents disagree

1. Run `batch_vs_accumulation`: DOCS.md:947 says a project is never sent twice to
   one user. ExecuteBatch inserts a row as `pending` and sends it without a claim;
   the accumulation cron may claim and send the same row. `MarkDispatched` does
   not report that it changed no row.
2. The plan document of 2026-04-09 moves rows to `missed` and back later; a free
   user whose remaining rows are all `missed` is never selected
   (`notification_repository.go:412`). `ProMissedComesBack` is stated of Pro users.
3. DOCS.md:234 promises a breaker with cooldown. A half-open
   probe whose first attempt is to be retried is refused by its own in-flight flag
   (`notifier.go:208`), which nothing clears afterwards; every later Send is
   refused until a restart. A probe whose context ends leaves the same flag
   behind (`notifier.go:218-229`). `orphaned` marks both; without that exception
   TLC refutes `RecoversUnlessOrphaned`, also when no context ever ends.
4. DOCS.md:525 calls all queues reliable. ack and nack of ac-batch take the
   oldest payload of the *user* (`ac_batch_queue.py:84`): after a nack that
   failed, the ack of the next batch removes the failed one, whose jobs were never
   ranked. The run `queue` is of the queues whose key is the work.
5. DOCS.md:539 says each consumer puts stuck messages back when it starts; one
   that is started within 300 s skips its own (`queue.py:138`), and nothing looks
   at them until a later start.
6. `circuit_breaker.py:10` says that a breaker allows a recovery probe later. A cache hit during the
   recovery probe (`classifier.py:62-70`, `actor.py:157-165`), or an exception
   that leaves classify, records no outcome: the probe stays in flight and every
   later request is refused until a restart. `ProbeIsSettled` says that these
   two are the only ways.
7. `llm_cache.py:3-5` says different prompts miss. The keys are the first 200
   characters of the text (`classifier.py:63`), and the user id with the
   *sorted* job ids (`actor.py:156`): explanations made for another order of the
   jobs, or for an older profile, are attached to this one. `AnswerFits` can
   only promise the same key.
8. DOCS.md:575 has the feedback endpoint answer 204, and
   `tests/test_api_helpers.py:480` lets `_http_post` report that. The backend's 204
   is empty (`handlers.go:806`), `json.loads` of it raises inside the try
   (`telegram-bot/main.py:946`), and the POST is repeated as after a network error:
   each accepted vote is posted four times and reported as failed. Every post
   writes an event (`handlers.go:796`) into the conversion that README.md:200
   shows. The request for Pro is confirmed to nobody for the same reason
   (`main.py:1204`), though `tests/test_polling.py:808` expects it. With `shown[i]`
   for `Attempts * shown[i]` TLC refutes `VotesWithinAttempts` without any fault.

Met while modelling, each in a model as the code has it:
- `get_user_preferences` returns nothing after a failed GET, and a submission
  then replaces all the other filters by empty ones (`main.py:2836`, `2874`).
- The second report of a browser closes its healthy successor, used or not
  (`browser_pool.py:141`); another one follows (`ComesBack`). Recovery installs a
  new list over instances that were created meanwhile, which go on running
  outside the pool, and a launch that fails after the new driver started leaves
  the pool short of the ids that nobody reported (`short`). All browsers of one age
  reach the TTL together. `active` is counted down twice for a failed render;
  the clamp makes that harmless (`CountsRight`).
- A profile staged between the dispatch loop's claim and its delete loses its
  stage (`dispatch_repository.go:221`). What the parse filled in stays when the
  profile it came from is replaced (`user_repository.py:144`). A rematch searches
  with the embedding of the older text and filters by the newer one. When the
  delete fails, the release of the refused ones is skipped.
- A repeated POST puts an update on its list twice, and the requeue after an error
  removes both copies (`LREM 0`, `telegram-bot/main.py:637`) and pushes one: if
  a later update of the same user was left in the processing list meanwhile and
  the process dies, the restart puts that one back first and they are handled in
  the wrong order. It takes four faults; `HandledInOrder` excepts it (`astray`).
- A match between a batch's read and its `mark_processed` is wiped unread. A
  batch that is delivered again after its mark is announced again, since
  `get_with_scores` does not look at `processed_at`. The early returns of
  `ProcessACBatch.execute` are not reached.
- A cached JSON array makes classify raise TypeError until it expires; a blank
  explanation is cached for a day and refused each time.

Met while reading and not given a run:
- DOCS.md:953 moves what exceeds the cap to `missed`; the count is read before
  the update, so a batch and a cron together may exceed it.
- DOCS.md:957 says a pending row that exceeds the cap is deleted; the code marks
  it missed.
- DOCS.md:231 describes a limit of one message per five minutes; nothing checks
  one.
- The documents give Pro users a digest only; ExecuteBatch sends to them at once.
- A pending row that expiry deletes between `EnsurePending` and `MarkDispatched`
  is sent without a row, and again when the listing returns.
- A `newCircuitOpenError` of a later attempt requeues without counting a retry
  although requests were made.
- An answer that was requested before the breaker opened may close or reopen it
  when it is half-open.
- The pinned hosts of the browser service are kept per host: the first of two
  renders of one host to end removes the pin of the other (`browser-service/main.py:192`).
- `proxy/pool.go:128-136` (LeastUsed) re-points `least` to `pr` and then unlocks
  `least` and `pr`: one mutex twice, the old one never.

## What is left out

Within the modelled parts: `SendNotification.Execute` (one candidate; the
consumer takes the batch path), the nudge after the cap, product events, texts
and buttons' wording, metrics; in the queue the discarding of malformed
payloads, which no producer writes; in matching the formulas of the scores
(a score is an open choice, as is what feedback drops); in the bot `/debug_match`, HTTP
signing; in the browser service URL validation and the pinned proxy; of the LLM
adapters the actor's select, the critic, `ActorCriticLoop` and
`FallbackClassifier`, which no entry point wires.

Not modelled: extractors and the crawl (sequential parsing), telemetry,
configuration, training scripts and deployment (no behaviour over time), the
reference-counted Postgres pools of ai-service (each consumer creates its
repositories once and never closes one). The
job side of the outbox repeats the user side, which is modelled. What is
not modelled *yet* is in the plan.

## Plan

Done: delivery, breaker, queues, intake with its refinement, dialogues, matching,
profile, browsers, LLM adapters; theorems about all of them.
Next, in this order:

1. A theorem for the webhook: `ConfirmedWasHandled` is proved of both transports,
   the abstract intake of polling alone.
2. `RedisLease`: leader lock, nonce store, rate limiter, the cron runner of
   `cmd/notifier` with its contexts; at most one leader while leases last.
   Theorem: mutual exclusion under the TTL assumption.
3. The job side of the outbox with the crawl as its producer and orphan requeue.
4. `ProxyPool`: selection under the two levels of mutexes; lock balance.
5. The API's order of checks (rate limit, signature, nonce); the pinned hosts of
   the browser service as a counter per host.
