# Recipe Normalizer: a verification project

TLA+ models of the recipe-normalizer backend (`src/recipe_normalizer/`), the
TLC configurations that check them on small instances, and TLAPS proofs of their
main properties for every instance. Paths below are relative to the repository's
root unless they name a file of this directory.

## 1. The system

A user submits a url, a text, a pdf or an image. The API stores a **job** row;
a **worker** process claims it, acquires content, asks an LLM to normalize it and
commits draft **recipes**, which the user then **reviews**. Reviewed recipes live in
**cookbooks**, can be shared, scaled, converted and discussed with an assistant. One
PostgreSQL database holds all the state; API processes, and any number of
workers, meet only in its rows. There is no broker, and no lock outside the database
except one `threading.Lock` in the rate limiter.

| Component | State | Operations | Hard part | What makes it correct |
|---|---|---|---|---|
| Job queue (`ingestion/queue.py`) | `jobs` rows: status, attempts, `locked_by`, `locked_at`, `next_attempt_at`, artifacts, produced ids, cost | claim, complete (2), fail, release stale | claims outlived by their worker; `SKIP LOCKED` | one claim per job; attempts bounded; settled jobs stay settled |
| Worker (`worker.py`) | pid token, open session, LLM client of the attempt | poll, claim, process, record a crash | death or a lost commit answer at any point; two sessions on one job; row lock against unique index | no half results, no lost jobs, a bounded bill |
| Draft persistence (`extraction/persist.py`) | recipe rows, fingerprint index | savepoint, duplicate check, insert drafts | failure after some drafts | all drafts of a result or none; once per job |
| Review and retry (`ingestion/service.py`) | job row, recipe rows | accept, reject, accept all, retry | overlapping handlers that write back what they loaded | done iff every draft is decided |
| Submission (`ingestion/service.py`) | jobs, recipes by fingerprint | submit url, text, file; transform | check, then insert | one live job or recipe per source |
| Cookbooks (`cookbook/service.py`) | cookbooks, members, placements | create, delete, add, remove, save, copy, leave | counts taken before locks; rescue on deletion | every recipe stays in a cookbook; its owner gets it when its last one goes |
| Recipes (`cookbook/service.py`) | recipes, groups, lines | create, update, verify, delete, search | fields replaced as a whole | what is shown is what was saved |
| Scaling, conversion (`cookbook/scaling.py`, `catalog/conversion.py`, `units.py`) | none | scale, convert, format | thresholds and rounding | the amount shown is the amount meant |
| Catalog (`catalog/service.py`) | ingredients, aliases, merge pointers; the corpus of a save | match, create unreviewed, merge, rename, load the seed | chains of merges; a corpus read once per save | chains end at a live ingredient; no line or alias on a merged one; no twins |
| Sharing (`sharing/service.py`) | copies, public links | share, link, revoke | look, then mint | a shared copy has a home of its recipient's |
| Assistant (`ai/service.py`) | conversations, messages | chat turn, cookbook question, transformation | the cap is counted before a slow call | the cap holds; an exchange is whole or absent |
| LLM client (`llm/`) | total of the client, usage rows | structured, chat, tool loop; posts and retries | retries inside repairs inside rounds; results translated | the bill stays below cap and one call; every operation ends; what is posted is well formed |
| URL tiers (`extraction/url_plugin.py`, `browser.py`) | artifacts | static page, readable text, browser loop | which failure escalates; signals raised through the loop of tools | acquisition ends; a failure keeps the page |
| Users, sessions (`users/service.py`) | users, sessions | login, logout, expire, purge | expiry between check and use | no expired session authenticates |
| Rate limiter (`ratelimit.py`) | time stamps per key | check | the clock read before the lock | never more than the limit in a window, no refusal below it |
| File store (`filestore.py`) | files | save, open | written in place | what is read is what was saved |
| Recipe list (`cookbook/service.py`) | none | filter, order, page | rows that come and go between pages | nothing shown twice or missed that stood still |
| Migrations (`alembic/versions/`) | the schema's revision | upgrade, downgrade | an application that writes in between | nobody loses sight of a recipe that one shared cookbook held; constraints hold |
| Database sessions (`db.py`) | one transaction per request | commit, rollback | commit after the answer is built | all of a request or nothing |
| Web client (`web/`), shell (`main.py`, `config.py`), deployment | none of their own | - | - | - |

**How they interact.** `submit_*` and `retry_job` write `queued` rows that only the
worker's polling notices. The worker imports the queue, the extractors,
persistence and the LLM client; the client counts cost and asks nobody. Persisting
calls the catalog (which may call the LLM again) and the cookbook service. The
review handlers call `verify_recipe`, `delete_recipe` and `are_verified` of the cookbook
service, which know nothing of jobs. Deleting a recipe never updates a job.

**Where the difficulty is.** A worker claims in one transaction and processes in
another that lasts minutes; meanwhile its lock may go stale and another worker
may own the job. API handlers run at READ COMMITTED, read without locks and write
by primary key. `PROJECT.json` lists each hazard at its line, with the
properties that cover it or the reason why none does.

## 2. The modules

| Module | Models | Size of its world |
|---|---|---|
| `JobLifecycle` | what any job promises its user: the abstract specification | status, attempts and drafts of each job |
| `JobQueue` | queue, worker, draft persistence, the cost cap, `retry_job` | jobs, recipe counts, worker processes, retry handlers |
| `MCJobQueue` | `JobQueue` for TLC: symmetry | |
| `ReviewGate` | `accept_draft`, `reject_draft`, `accept_all_high_confidence`, `_maybe_complete`, `delete_recipe` | a user's jobs, their drafts, open transactions |
| `MCReviewGate` | `ReviewGate` for TLC: symmetry | |
| `Boards` | cookbooks, members, placements, visibility; creation, copy, save, share, removal and deletion as they touch placements | users, cookbooks, recipes, open requests |
| `MCBoards` | `Boards` for TLC: symmetry, and a view without `added_by` | |
| `DefaultCookbook` | `ensure_default_cookbook`, statement by statement | the default cookbooks of one user, requests |
| `Submission` | `submit_url`, `submit_text`, `submit_file`, `LocalFileStore`, persistence as it meets jobs of the same source | requests, their jobs, files, recipes |
| `Catalog` | matching, creation, merging, renaming, seed | ingredients, aliases, lines, open saves |
| `MCCatalog` | `Catalog` for TLC: similarities, seed | |
| `Conversations` | what the assistant promises about conversations: an abstract specification | conversations, their messages, the turns that succeeded |
| `Assistant` | chat turns, cookbook questions, transformations | recipes, conversations, messages, requests |
| `LlmClient` | `LLMClient` and the OpenRouter adapter | one client: its bill, its operation, its messages |
| `UrlTiers` | `UrlExtractor.acquire`, the browser's loop | one acquisition |
| `RateLimiter` | `SlidingWindowLimiter.check` | one key, threads, the clock |
| `RecipeList` | `list_recipes` by pages | recipes, a reader |
| `Quantities` | conversion, storage, scaling, formats | one ingredient line |
| `Migrations` | three revisions, up and down, and the application between them | the tables they move |
| `MCServices` | the ten modules above for TLC | |
| `Absent` | None | |
| `JobQueueProofs`, `ReviewGateProofs`, `BoardsProofs`, `CatalogProofs` | the theorems about the module of that name; the first about `JobLifecycle` too | any |
| `RowsProofs` | the theorems about `DefaultCookbook`, `Submission`, `RecipeList` and `Migrations` | any |
| `ServicesProofs` | the theorems about `LlmClient`, `UrlTiers`, `RateLimiter`, `Quantities` and `Assistant`, and about `Conversations` | any |
| `MCServicesProofs` | the theorems about the run of the ten services: each is on its own, all types hold | any |
| `Induction` | induction over numbers, and functions by recursion, in a form the provers can use | |

`MCServices` puts services that share no rows into one run. The first state says which of them
runs (`part`); the others keep their first state. So the state graphs add up instead of
multiplying, each behaviour is one of each service's own specification (theorem `EachOnItsOwn`), and the first states
of the others do not multiply either: only the part that runs has more than one.

### JobQueue

*State.* `job[j]` is the row, with time made relative: `stale` says that `locked_at` is
before the release cutoff, `next` whether `next_attempt_at` is null, past or to come.
`recipes[j]` counts committed recipes that came from the job. `wk[w]` is a worker process
with its open session: program counter, token, the columns it loaded (`arts`, `cost`),
what it spent, whether it holds the row lock (`locked`), and the drafts it flushed and did not
commit (`staged`). `req[r]` is a retry handler between its SELECT and its UPDATE, with the
column values it loaded.

*Steps.* One action is one transaction, or a stretch of work between two statements
whose order another transaction can observe:

| Code | Action |
|---|---|
| `submit_*`, insert | `Submit` |
| `retry_job`: load and check; assignments and commit | `RetryRead`; `RetryWrite` |
| `run_worker`: start; death, restart, ten errors in a row | `Start`; `Die` |
| `_claim_one`: `release_stale`, commit; `claim_next`, commit | `ReleaseStale`; `ClaimNext` |
| `_process_one`: `session.get` | `Load` |
| `_acquire`: retained text, text plugin, other plugins | `AcquireRetained`, `AcquireText`, `AcquireSource` |
| `process_job`: flush of `acquired_meta` | `Flush` |
| `normalize`, and its three ways out | `Normalize` |
| `persist_drafts` in its savepoint | `Persist` |
| outcome function, `_cas_guard`, commit or rollback | `Finish` |
| any exception, and rollback | `Raise` |
| `_fail_in_fresh_session` | `RecordCrash` |
| time | `LockAges`, `BackoffElapses` |

Failures are part of the steps: `ClaimNext` and `Finish` may commit and still raise (the
answer is lost); `RecordCrash` may itself be swallowed; `Die` is possible at every
point; `Raise` is possible at every point of a session, and keeps the attempt's cost exactly
where `JobProcessingError` carries it.

*Locks.* `claim_next` and `release_stale` skip locked rows. The flush of `acquired_meta` is
an UPDATE: it waits for the row's lock, and its session keeps the lock to its end. A draft
flushed with the fingerprint makes another session's insert wait. Hence two sessions
of one job can wait for each other; the database ends one of them (`LockVictim`).

*Abstractions.* Money is counted in units of the cap. Each job has a
fingerprint of its own. Drafts are counted: the first carries the fingerprint. A fresh token is
any token no live process and no row carries; `Token` must outnumber workers and jobs
together for a worker always to find one. The branch for a missing extractor cannot be
reached (`input_type` is an enum with a plugin for each value; `transform` jobs are
inserted finished and never queued). `Die` stands for SIGTERM too.

### JobLifecycle

What the queue promises of each job. It begins only with an attempt left;
an abandoned attempt is counted; drafts appear in one step, with the request to review them
and only once; only the user restarts a job, and only one that failed or was no recipe.
`JobQueue` implements it with `drafts <- recipes`: recipes in the database at
any moment, not what a row says of them.

### ReviewGate

The jobs of a user that have just reached `needs_review` (`Of[d]` is the job of draft `d`), and the
handlers that decide their drafts. A handler is a READ COMMITTED transaction: `tx[r]` holds the job rows as it
loaded them, its uncommitted writes and its position. `accept_all` is one transaction over all the
jobs it found confident: `NextJob` takes any of those left, the query having no `ORDER BY`, `NextDraft` its drafts in
the order of its list, and `Finish` sets it to done and goes on with the locks it has. Each statement is an
action: it sees what is committed plus the handler's own writes, an UPDATE waits for
row locks, and all is applied at `Commit` or dropped at `Fail`. Two details of
the ORM matter and are modelled: an UPDATE whose row has gone fails the request, while a
DELETE of it does not; and a column equal to its loaded value is not written (`accept_all`
sets `done` on a job loaded as under review, `_maybe_complete` does nothing on one loaded as
done).

### Boards

*State.* `board[c]` is a cookbook's row: its owner, its visibility, and whether it has a
`public_token`. `role` is `cookbook_members`, `owner[r]` a recipe's owner, and `placed` the
`cookbook_recipes` table with `added_by`. A deleted row says `Gone`. `tx[q]` is an open request:
what it has checked, and for a deletion the homes it has inserted and not committed.

*Steps.* The handlers check and count, then write, and nothing locks what they counted. A
handler with one write is two actions, one for all its reads, one for its write and commit:

| Code | Actions |
|---|---|
| `create_cookbook`; `list_cookbooks`, which makes the default cookbook | `CreateCookbook`; `ListCookbooks` |
| `invite_cookbook_member`, `set_cookbook_member_role`; `remove_cookbook_member`, `leave_cookbook` | `SetMember`; `DropMember` |
| `delete_recipe` | `DeleteRecipe` |
| `create_recipe`, `copy_recipe`, the assistant's and the worker's creations | `CheckCreate`, `PlaceNew` |
| `add_recipe_to_cookbook`: any recipe the caller can read | `CheckAdd`, `PlaceReference` |
| `save_recipe_to_cookbook`: the caller's own recipe; somebody else's | `CheckSave`, `PlaceReference`; `CheckSave`, `PlaceNew` |
| `share_recipe` | `CheckShare`, `PlaceNew` |
| `remove_recipe_from_cookbook` | `CheckRemove`, `Remove` |
| `delete_cookbook`: scan, one rescue per recipe, DELETE | `CheckDelete`, `Rescue`, `Delete` |
| `update_cookbook` with a visibility | `CheckShow`, `Show` |
| any error, and rollback | `Fail` |

`Show` writes only the columns that differ from what was loaded, as the ORM does. The foreign
keys of an uncommitted placement keep its recipe from being deleted, and another insert of
the same placement waits for it.

*Abstractions.* The default cookbook of user `u` is called `u`: the partial unique index and
`ON CONFLICT DO NOTHING` of `ensure_default_cookbook` make it the only one, and it cannot be
deleted. Ids are not used again. The several reads of one handler are one step. `Shared` and
`Granted` bound the visibilities and the roles. Names, descriptions and covers are left out, and
so are accounts coming and going (the code deletes no user).

### DefaultCookbook

`visit[v]` is where a request stands in `ensure_default_cookbook` and the row it was given;
`default` are the rows of the index, committed or not. `Look` is the first SELECT,
`InsertDefault` the INSERT that skips a conflict, and waits for it to be decided, `Reselect` the
second SELECT, `CommitVisit` and `AbortVisit` the end of the request. A code path
that the source calls impossible is a place (`unreachable`), and the proofs show it is.

### Submission

`post[p]` is a request: the place it has reached and what it submits. `job[p]` is the job it
committed, `blob` the files, `recipe` the jobs whose recipe exists. `FindRecipe`
and `FindJob` are the two checks of a submission; `SaveFile`, `OpenFile`, `CloseFile` are
`LocalFileStore.save`, which looks, truncates and writes in place, and `TearFile` its death in
between; `CommitJob` and `AbortPost` end the request. `CheckSource` and `InsertRecipe` are the
two halves of `create_recipe` in a worker, with the unique index between them; `Review`,
`RetryFailed` and `DeleteAccepted` are the user's. A fingerprint stands for normalisation:
two spellings of a url have one.

### Catalog

`food[i]` is a row of `canonical_ingredients`: name, merge pointer, and the save that has created and
not committed it. `alias` and `lines` are the two tables that point at it. `save[s]` is an open
save: names to resolve, links so far, and the corpus of names, read once (`FuzzyCorpus`).
`LinkExact` is `match`, `LinkFuzzy` the similarity search with the language model's choice among
the uncertain (`Uncertain`: nothing scores 90, or the best of what does has a chain without an end, the others not
being tried), `LinkCreated` is `create_unreviewed` with `FuzzyCorpus.add`. `Merge` is the whole of
`merge`: pointer, aliases, name, and the hook of the cookbook service that repoints lines.
`Target` follows `merged_into_id`. It is written without recursion, as the live
row that is in every set closed under the pointers, which makes "every chain ends" an inductive
invariant. A recipe committed across a merge is marked `raced`: the merge repoints the lines it
sees, and those are not there yet.

### Assistant

`log` holds the messages of all conversations, each with the turn that appended it and its place
among the turn's own; `turn[t]` is a request: feature, phase, conversation, recipe. A request reads and checks (`AskChat`, `AskCookbook`,
`AskTransform`), waits for the model (`Answer`, `Unanswered`), and writes
(`OpenConversation`, `AppendQuestion`, `LockConversation`, `AppendAnswer`, `SaveDraft`). `append_message`
changes the conversation too, so the first of two holds its row to the end, and a second turn
counts only when the first has committed. `CommitTurn` and `RollBack` end a request; recipes
change hands or go meanwhile (`ChangeAccess`, `DeleteTopic`).

### Conversations

What the assistant promises, however its requests overlap or fail: a question and its answer appear in one
step, once, and only while the conversation has room for both; messages go only with their
conversation. `Assistant` implements it with what is committed of `talk` and `log`, and the turns
that committed.

### LlmClient

`op` is the operation under way: kind, place (`check` before a call, `post` in it), round and
post. `CheckCostCap` precedes every call. `Answered` charges, records, and then either ends
the operation, repairs an answer that does not validate (`Repair`), or runs tools (`RunTools`; an answer that
says `tool_calls` and has none is a round with an empty turn).
`NoAnswer` and `Rejected` are the adapter's retries and its other errors. `charged` is what the
provider counts. `Wire` is the translation of `turns` into the other API's messages, tool results
and images in their order; `OfTypes` is the loop over the blocks of a turn, which keeps those of some types.

### UrlTiers

`stage` is the tier, `kept` the artifacts of the acquisition, `loop` the browser's loop: calls,
tools of the last answer still to run, time over. `signal` is the control exception a tool has
raised. `Redirect`, `Fetch`, `Tier1`, `Tier2`, `OpenPage` are the stretches between two waits;
`AskModel` is one round of the loop, `RunTool` one tool. Every way out states the artifacts
on the error, as the code does.

### RateLimiter, RecipeList, Quantities

`ReadClock` and `Check` are the two halves of a call, before and under the lock; `passed` is a
history that nobody stores, of when calls really passed. `FetchPage` takes the rows after the
offset in the code's order, created_at and then id, and stops after a short page; `walk`
remembers what stood still while the reader walked. `WriteLine` converts and stores one line, `ScaleLine`
scales and formats it, in fixed point with `Scale` parts to the one: where a float can
fall on either side of a boundary, both results are possible.

### Migrations

One action per direction of each revision that moves data, with its statements applied in
order, and the application between them: `Register`, `WriteRecipe`, `Collect`, `File`. The tables are
those the migrations read and write. An upgrade that fails leaves nothing behind, since
DDL is transactional in PostgreSQL; the model has no such step.

## 3. What the runs check

| Run | Instance | Shows |
|---|---|---|
| `one_job` | 1 job, 2 workers, 3 tokens, 3 attempts, cap 2, calls up to 2, 1 retry | `OneOwner`, `DraftsListed`, `LockedWhileRunning`, `AttemptLeft`, `RecordedCostWithinCap`, `FlushedClaimIsSafe`, `ImplementsLifecycle` |
| `two_jobs` | a url and a text job, 1 worker, 2 attempts, 1 retry, fairness | `JobSettles`: no starvation by an older job |
| `two_retries` | 1 job, 2 workers, 2 overlapping retries | `DraftsCreatedOnce` and `TypeOK` survive overlapping retries |
| `liveness` | 1 job, 2 workers, fairness | `JobSettles`, through deaths, lost claims and deadlocks |
| `review_concurrent` | 2 jobs of 2 and 1 drafts, 2 handlers, direct deletion | `TypeOK`, `DoneMeansResolved`, `NoLockCycle` |
| `review_sequential` | the same jobs, 1 handler at a time | `ReviewCompletes`, `ListedExist` |
| `boards_sequential` | 2 users and their defaults, 1 more cookbook, 2 recipes, 1 open request beside direct steps | `TypeOK` (with the foreign keys), `Placed`, `RescuedToOwner`, `LinkMatchesVisibility` |
| `services` | ten services, one at a time (below) | the properties of the next table |
| `requeued`, `accept_race`, `unplaced`, `merged_target` | minimal | section 5 |

What `services` shows, with the values of `MCServices.cfg`:

| Service | Instance | Properties |
|---|---|---|
| Catalog | 3 names of which 2 match, 3 rows, a save of up to 2 lines, merges, a seed entry with an alias | `AliasesOnLive`; `LinesOnLive` for what was not saved across a merge; `NoTwins` within one save, though its corpus is old; merges into live rows only |
| Assistant | 2 overlapping turns, 1 conversation, 1 recipe, room for 3 messages | `WholeExchanges`, `ImplementsConversations` (with the cap on messages) |
| LLM client | cap 3, calls of 0 to 2, 2 retries, 3 rounds, up to 2 tool calls each | `CapHolds`, `ToolCallsAnswered`, `OperationsEnd` |
| URL tiers | 2 redirects, 3 rounds of up to 2 tools | `FailureKeepsPage`, `SignalEndsLoop`, `AcquisitionEnds` |
| Migrations | 2 users, 1 recipe, 2 shared cookbooks, 1 collection, 4 ids | `AccessKept`, `ConstraintsHold` |
| Rate limiter | 2 threads, 2 events in a window of 3, a stall of 1 tick | `LimitHolds` |
| Default cookbook | 3 overlapping requests | `OneDefaultGiven` |
| Submission | 3 posts of a url in two spellings or a file | `SourceOnce`, `FilesReadBack` |
| Recipe list | 3 recipes, 2 times, 2 grounds, pages of 2 | `WalkComplete` |
| Quantities | 152 quantities, 4 kinds of unit, 8 kinds of ingredient, 4 factors | `AmountKept` |

*Bounds and why they are enough.* Two workers: everything about a claim concerns a
stale owner and the current one; a third worker adds another stale one. One job in the
detailed run: rows interact only through the order of claims and the common release,
which `two_jobs` covers. Three attempts is the code's own number; two in the other runs already
has a middle and a last attempt. `Cap = 2` with calls of 0 to 2 lets the total stop below, at and
above the cap; runs not about money take `Cap = 1` and free calls, so `CostCapExceeded`
is out of their reach. One draft suffices where drafts are counted (all of a result, or none);
`ReviewGate` uses three, two of them of one job, so that two handlers can work on two drafts and a third stay open; two
jobs are what `accept_all` takes in one order or the other, and `accept_race` needs one only.
Money, attempts, drafts and retries are bounded by `Cap`, `MaxCall`, `MaxAttempts`, `MaxDrafts`,
`MaxRetries`, and nothing else is. Two users, of whom one owns a cookbook and the other contributes
to it, and two recipes, so that a deletion has homes to give to both, are what the
rescue is about; each user's default is a second cookbook for either. `BoardsView` takes
states that differ in the `added_by` of placements only as one: the code writes that column and never reads it. `JobQueue` checks deadlock in every run. `ReviewGate` may
stop: when every draft is gone and the job cannot be reviewed, no request has anything to do.

*Bounds of the services.* Three rows are a chain of two merges, and two rows under one name with one
to merge them into. Two turns of a conversation with room for three are one that fits and one
that must not; with a cap of 3 a conversation is full after one exchange and one odd message is
left over. Two retries, rounds and tools have a first, a middle and a last. A window of 3 ticks
and 2 events has calls in, at and after its edge; the horizon of 7 is two windows and one tick. Two shared
cookbooks are what contests a recipe, two users who loses it; that the owner
of another recipe of the same cookbook is let in takes two recipes, and is left to the theorem; 4 ids are a default for each
and two more, and a migration that finds too few is not taken. Three posts are the two
of a race and the retry of one. Pages of 2 out of 3 recipes have a full and a short page.
The quantities are tiny amounts in steps of 0.0005 up to 0.015, where the formats change their decimals,
hundredths up to 1.2, which fall inside and outside the tolerance of each glyph, thirds, and one part
less than four thirds. `MaxStall` and `Horizon`, `MaxTools`, `Book`, `Ingredient` and `MaxLines` are bounds of the
model; the others are the code's own numbers made small.

One branch is out of reach of `services`: `LinkCreated` on a row that exists, which takes a chain without end.
The run `merged_target` takes it.

*Fairness.* Strong for `ReleaseStale` and `ClaimNext`: a worker that is restarted again
and again still gets to poll now and then; weak fairness would let a crash in front of each
poll stop the system, and an orchestrator that restarts in a loop is assumed to let
a process live longer than one poll. Weak for the steps of a session: each fetch,
browser run and LLM call has a time limit. Weak for `Start` (the container is
restarted), for time, and for `LockVictim` (PostgreSQL's `deadlock_timeout`). No fairness for
`Submit`, `RetryRead`, `RetryWrite`, `Die` or `Raise`. In `LlmClient` and `UrlTiers`, weak for the steps of
an operation that has begun (`LlmFairness`, `UrlFairness`): posts, fetches and browser actions all
have timeouts; none for beginning one, and none for `TimeIsUp`, so the loop ends by its rounds even if
its clock never does. Nothing else is claimed to happen eventually.

## 4. What is proved

TLAPS checks the following for any sets of jobs, workers, tokens, requests, users, cookbooks, recipes, ingredients,
threads, turns and rows, and any values of the bounds, from the named assumptions of the modules alone: that None is
none of the values it stands beside, that numbers are numbers and scale factors, densities and weights positive fractions, that similarity is symmetric, that a call list is a sequence,
and that the tables a migration reads are finite. All properties that the runs check as invariants
or about steps, and both refinements, are theorems.

* **`JobQueueProofs`**, the queue: `TypeCorrect`, `ClaimsExclusive`, `CostBounded`, `CreatedOnce`,
  `FlushedClaimKept`. The inductive invariant `Inv` adds to the types what the program counter says
  about a worker (`Shape`), that live tokens differ (`TokensDiffer`; `OneOwner` follows,
  since a row names one token), and that uncommitted drafts are the job's first and one
  session's only (`StagedFirst`; it carries the fingerprint argument, since the insert waits
  for the index and then finds the duplicate). Every step inside a session is reduced by
  `SessionEffect` to a few shapes, so invariants need no case for each
  extractor. `CostInv` needs more than the recorded cost: while a worker owns its
  job, the cost it loaded is the cost of the row, for no one else may add to it.
* **`JobQueueProofs`**, the lifecycle: `AttemptsBounded`, `LocksMatchStatus`, `NoOrphanDrafts` and
  `Implementation` (each step of the queue is a step of `JobLifecycle` or a stutter), under
  `OneRequest`: at most one retry request at a time. The assumption is necessary
  (run `requeued`). `LifeInv` relates each row to what the open request has read of it.
* **`ReviewGateProofs`**, for any number of overlapping handlers: `TypeCorrect`, `ReviewSound` (`DoneMeansResolved`) and
  `NoDeadlock` (`NoLockCycle`). For the second the idea is that a handler's list may be old, and may even be written
  back over a newer one, but whatever it misses is a draft that is gone: existing drafts are in every list (`Reliable`, `Inv`).
  For the third, `LockInv` says in what order a handler takes its locks: the drafts of a job as the job lists them, then the
  job, and only an `accept_all` with a job finished (`Sweeps`) goes on to drafts of another. So in a circle without two sweeps of
  different jobs there is a part that stays on one job: its job's lock, if one of them holds it, is held by who waits for nobody, so
  all wait for drafts of that job; who holds the draft that another waits for waits for a larger one; so the handler that waits for
  the least draft (`LeastNumber`) holds nothing that another waits for (`NoDescent`, `NoCircle`). `ReviewEnds` (`ReviewCompletes`) and `ListRight` (`ListedExist`) under `OneRequest` and without direct deletion:
  `SoloInv` says what the one open handler has done so far, as the row it loaded still stands.
  Both assumptions are necessary (`accept_race`, and the end of section 5). Both theorems also ask for one draft
  of each job at least (`NoneEmpty`): a job that yields none stays under review for good, as section 5 says.
* **`BoardsProofs`**: `TypeCorrect` for any number of overlapping requests.
  `Inv` says of each open request what its kind means for its fields (`Shape`), and that a home being
  given is the default of the recipe's owner (`Own`). `NeverUnplaced` (`Placed`), `RescuesRight`
  (`RescuedToOwner`) and `LinksMatch` (`LinkMatchesVisibility`) under `OneRequest`:
  what a request has read still holds when it writes (`Current`: another home of the recipe
  it removes, a home at its owner's for every recipe that only
  the cookbook it deletes holds, the row it loaded). The
  assumption is necessary for `Placed` (run `unplaced`).
* **`CatalogProofs`**: for any number of open saves, as long as merges are into live ingredients, which `merge` does not ask for:
  `TwinsNever` (`NoTwins`), where what a save created is always in what it knows (`Known`), and live until it ends (`Pending`);
  `AliasesLive`, `LinesLive` and `NamesFound` (`NamesResolve`). The assumption is necessary for the last (run `merged_target`)
  and for the first (section 5). The heart is `ChainsEnd`: each row is in a chain with a live row,
  kept by `ChainsMerged` because a merge only lengthens chains that ended in its source.
* **`RowsProofs`**: `GivenOnce` (`OneDefaultGiven`) for any number of requests: there is
  at most one row, committed or not (`OneRow`), and whoever was given it keeps seeing it (`Served`).
  `OneRecipe` (`SourceOnce`) and `FilesThere` (`FilesReadBack`): recipes come from jobs,
  whose source no longer changes (`Brought`, `Sourced`), so the index is enough; a file that is not whole belongs to the
  request that truncated it last, which is writing it or died over it (`Torn`).
  `WalksComplete` (`WalkComplete`): the place of a recipe in the list is the number of recipes
  before it, which is where the order being total comes in. `WalkInv` says that what was listed all along is met, or has its place
  at the offset or after it, unless something went; and that what is met has its place before
  the offset, unless something came.
* **`ServicesProofs`**, the LLM client: `CapKept` (`CapHolds`): the client has counted
  what it was charged and posts below the cap only (`Counted`). `CallsAnswered` (`ToolCallsAnswered`) goes through the translation:
  `TurnsMatched` is the invariant of the turns (an assistant's is followed by results that match its calls
  in number and name, and there are results nowhere else); `Filtering` and `Flattening` describe the loops of the translation
  step by step; `WireInOrder` follows the list of messages turn by turn, which is in order (`AllAnswered`) after each turn of the
  user and has one message to be answered (`Owed`) after each of the assistant. `OperationsBounded`: each step of an operation ends it or brings it nearer to its last call.
* **`ServicesProofs`**, the rest: `PageKept` (`FailureKeepsPage`) and `SignalsEnd` (`SignalEndsLoop`): `UrlInv` says what
  is kept at each place of an acquisition. `AcquisitionsBounded`: each of its steps goes to a later place, or stays
  and uses up a redirect, a round or a tool. `LimitKept` (`LimitHolds`): the deque holds the last calls that passed, each stamped at most a
  stall before it passed, and whatever has left it is out of the window (`LimiterInv`), though threads
  may take the lock in another order than they read the clock. `RoomKept` (`WithinCap`, the cap as an invariant; TLC checks it as a part of `ImplementsConversations`) and
  `ExchangesWhole` (`WholeExchanges`): the rows of a turn are those of its phase (`Exchanges`); who has appended holds the lock of its
  conversation, and is the only one (`OneHolder`); a conversation of the turn's own is
  seen by nobody else (`Private`); so the second count is still true at the commit (`Fits`).
* **`ServicesProofs`**, the assistant's promise: `ExchangesAtomic` (`ImplementsConversations`). What everybody
  sees of the detailed state, that is the conversations and messages whose writer has committed and the turns that have,
  moves as `Conversations` says. One lemma for each kind of step says how it is seen: `CommitSeen` (an exchange, or
  nothing), `CreateSeen`, `DeleteSeen`, and `Unseen` for the long middle of a turn, where everything written is private to
  it. That an exchange finds room, and its turn commits once, comes from the invariant of `RoomKept` at both ends of the step.
* **`ServicesProofs`**, quantities: `QuantitiesClose` (`ShownClose`), for any lines, units, ingredients and factors, and any
  fineness of the parts: what is shown is what was written times the factor, within what storing and showing round away, and
  an amount is shown exactly when one is known. The arithmetic is in a few lemmas: cutting a product keeps the order, and enlarges a
  distance by the factor and one part at most (`TimesOrder`, `TimesMoves`); rounding moves by half a step at most, and
  never to 0 what is more than half a step (`NearestClose`); so each format is close (`FormatClose`, `AmountClose`). `QuantityInv`
  adds how far the stored line is from the written one (`Stored`), so the two roundings add up. `LinesShown`: no stored line is without a
  result in the formats, so none of this holds because scaling is stuck. `AmountsKept` (`AmountKept`, whose other half is
  `ShownPositive`) is under `Readable`: what is written is more than half of 0.0001, and the parts of the model resolve 0.0001
  times the smallest factor. The first is necessary, the column having four decimals (section 5); the second is about the model, which
  cuts products where the code has floats. The values of the run satisfy both.
* **`MCServicesProofs`**: `EachOnItsOwn`: a behaviour of the run of ten services is one of the specification of each of them, fairness
  included, since a step belongs to one (`OneMoves`). So every theorem about a service holds of the run, and `ServicesTyped`
  (`ServicesTypeOK`) puts the types of the ten together.
* **`RowsProofs`**, the migrations: `ConstraintsKept` (`ConstraintsHold`) and `OnlyContestedLost` (`AccessKept`), for any tables, up and down in any
  order. `Readers` are those who can read a recipe under each revision, at the first its owner and the members of every shared cookbook
  that holds it; the upgrade keeps them all but `Losers`, and lets nobody in but `Gainers`. `MigrationInv` is what each revision may rely on; the sweep of recipes that are in no cookbook, and one new id for
  each new row (`IdsExist`), are what the constraints need.

Three techniques recur. The library's induction theorems take a predicate, which these provers cannot instantiate;
`Induction` derives from well-founded sets a form that takes a set in its place (`LeastNumber`, `Numbers`), and from it that functions
by recursion exist (`Recursion`). Under `OneRequest`, an invariant says that what the open
request has read is still so. And steps that only move a program counter are dealt with by one lemma
(`LockStep`, `SoloStep`, `MovesOn`, `SessionEffect`).

Only model-checked: `JobSettles`, `OperationsEnd`, `AcquisitionEnds`, since liveness is beyond this prover
(of the last two, that nothing goes in circles is proved; that the next step is always possible and is taken is TLC's part).

## 5. Where the code and its documentation differ

| Run | The text | The code |
|---|---|---|
| `requeued` | "Only allowed when status is failed or not_a_recipe" (`retry_job`) | of two overlapping requests, the later one requeues a job that has reached review; its drafts then belong to no listed result |
| `accept_race` | "If all remaining produced recipes are now verified, transitions job" (`accept_draft`) | two overlapping accepts of the last drafts both find the other open |
| `unplaced` | "every recipe is in at least one at all times" (`cookbook/models.py`) | a recipe created in a cookbook between the scan of its deletion and the DELETE is left in none |
| `merged_target` | "Return the best matching live ingredient for *name*, or create an unreviewed one" (`match_or_create`) | `merge` refuses a merged source, not a merged target: a into b, then b into a leaves a cycle, and both names lead to a merged row |

Without a run of their own, but behaviours of the models as they stand:

* `ReviewGate`: `accept_all_high_confidence` keeps the row lock of a job it has finished while it goes on to the next, and its
  query has no `ORDER BY`. Two overlapping calls that meet two jobs in different orders wait for each other; PostgreSQL
  ends one of them, which loses all it accepted (`Fail`). It is the one circle that `NoLockCycle` allows.
* `unplaced` without cookbook deletion: two overlapping removals each count two placements,
  and together take both.
* `Boards` with two requests and both shared visibilities: two overlapping changes of visibility each write only what
  differs from the row they loaded, so a cookbook can end public without a token; a later change
  to private, overlapping another, can leave it private with one. `main.py` says "A private
  cookbook never has a public_token set", and checks the visibility again all the same.
* `Boards`: `add_recipe_to_cookbook` places any recipe its caller can read, also somebody else's, in the caller's name
  (`tests/cookbook/test_recipe_placements.py`, "Read access is enough on the recipe side"). No endpoint gets there: `save_recipe_to_cookbook`
  calls it for own recipes only and copies the others. The model has both. So `added_by` says nothing of whose recipe it is, and
  `RescuedToOwner` is about the owner.
* Two requests in `review_sequential`: two overlapping rejects, where the second list written restores
  the draft that the first removed (`ListedExist`).
* `JobQueue`: `_acquire` says "a retry NEVER re-scrapes"; only text jobs retain `raw_text_ref`, all others acquire again.
  The spend of a lost claim or a dead worker is not recorded, so `README.md`'s "The job-level
  LLM spend is bounded" holds for what is recorded (`RecordedCostWithinCap`), not for what was paid.
* `JobQueue`: a result without one valid line puts a job with no drafts under review, for good
  (`Persist` flushes none, `NeedsReview` lists none).

* `Submission`: overlapping submissions, or a retry beside a submission, make two active jobs of one
  source; only the unique index keeps the recipes single. A torn file is taken for the upload
  by every later submission of the same content.
* `Catalog`: a save across a merge keeps its link to the merged row (`raced`). Two saves that create one name: the
  second fails. Two saves that create close names at the same time make twins; `NoTwins` is about
  one save. Overlapping merges of two administrators, which the model takes one at a time, can do what
  `merged_target` does. A cycle of merges made between two lines of one save can make a twin even of what that save knows: `match_or_create`
  follows the chain of the best match only, and creates the name if that has no end, though another close one may be live.
* `Assistant`: overlapping turns of one conversation interleave its transcript (question, answer, question, answer in the order of
  commits, each answer given without the other). Usage rows go with a rollback, though `llm/models.py` says "One row per LLM API
  call". An outage of the provider (`OpenRouterError`) is no `LLMError`, so the chat's mapping to 502 does not see it.
* `LlmClient`: an answer that finishes with `tool_calls` and has none makes `tool_loop` append a turn without content and spend
  another round. A call whose answer is lost may be charged by the provider; nobody counts it, and `charged` does not either.
* `UrlTiers`: without Playwright a failure of tier 2 carries no artifacts, nor do errors of the model
  or the cap, in spite of "even if every tier fails" in `url_plugin.py`. `FailureKeepsPage` is about the rest. The same
  `OpenRouterError` passes the fallback that keeps tier 1 alive when its cheap call fails.
* `RateLimiter`: since the clock is read before the lock, both bounds of `LimitHolds` hold up to `MaxStall` only.
* `Quantities`: formats are not monotone: 0.14 is shown as 1/8, 0.145 as 0.1. A quantity below half of 0.0001 passes `gt=0`
  in `cookbook/schemas.py`, is stored as 0 in `Numeric(12, 4)`, and is shown as 0, in spite of "a positive quantity must never
  collapse to "0"" in `cookbook/scaling.py`, which speaks of formatting only. Stored amounts are not
  computed again when an ingredient is merged or its density edited.
* `Migrations`: a downgrade right after the last upgrade cannot tell a recipe's home from the collections it was
  in, all being placed at one time. The pivot gives a recipe that several shared cookbooks hold to the
  oldest and drops the other links, so the members of the younger ones cannot read it any more
  (`tests/test_cookbooks_migration.py`: "Bakers silently loses it", and Carol, a member of Bakers only, with it). They are the `Losers` of `AccessKept`, which
  asks that nobody else loses a recipe. `Gainers` are the owners of other recipes that the same cookbook
  got, who read all of it from then on, as the docstring of `_build_member_rows` says.
* Sharing: two overlapping `create_public_link` make two links, each live until it is revoked.

With `DirectDelete = TRUE` and one request, `ReviewCompletes` fails too: a last draft deleted through
its own endpoint leaves the job under review with nothing to review.

## 6. What is not modelled

Modelled in part: what components leave out is in `PROJECT.json`, component by component.

* Public links: a look, an insert, a revocation, with nothing promised about overlap.
* Users and sessions: a session is written at login and read with its expiry in one
  statement; the purge deletes only what no request accepts any more. Accounts are not deleted.
* Content of recipes: groups, lines and fields are replaced as a whole in one transaction; what they
  hold is data. Of `update_recipe` there is what it does to links (`Catalog`) and lists (`RecipeList`).
* Text extraction and prompting (`pdf_plugin.py`, `image_plugin.py`, `normalize.py`, `schema.py`): data, no control. Parsing
  of HTML and JSON-LD, address checks, settings, error formats: no state.
* The migrations that only add tables or columns; the web client, which shows what the API returns.

Worth doing next: `JobQueue` and `ReviewGate` composed on one job row, where a retry
would meet an accept; public links.
