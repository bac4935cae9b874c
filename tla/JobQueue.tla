------------------------------ MODULE JobQueue ------------------------------
(***************************************************************************)
(* The extraction queue: rows of the jobs table (ingestion/queue.py), the  *)
(* worker processes that claim and process them (worker.py) and the user's *)
(* retry request (ingestion/service.py, retry_job).                        *)
(*                                                                         *)
(* One step is one database transaction, or one stretch of work between    *)
(* two database statements whose order other transactions can observe.  A  *)
(* worker claims in one committed transaction and processes in a second,   *)
(* long one, so what it read at load time may be stale when it finishes:   *)
(* the lock of a running job ages, another worker's release_stale requeues *)
(* the job, and it is claimed again while the first worker still runs.     *)
(*                                                                         *)
(* Abstractions.  Time is relative: a lock is older than the release       *)
(* cutoff or not, a next_attempt_at is null, past or future.  Money is     *)
(* counted in abstract units.  Every job has a source_fingerprint of its   *)
(* own (submission deduplicates), and drafts are counted, not named: the   *)
(* first carries the fingerprint.  Reviewing drafts is not in this module. *)
(***************************************************************************)
EXTENDS Naturals, FiniteSets

CONSTANTS
  Job,          \* job ids, in the order of created_at
  TextJob,      \* the jobs whose input_type is text
  Worker,       \* slots for worker processes
  Token,        \* worker ids (fencing tokens, _make_worker_id)
  Request,      \* concurrent retry requests
  Nil,          \* SQL NULL
  MaxAttempts,  \* MAX_ATTEMPTS
  Cap,          \* settings.job_cost_cap_usd
  MaxCall,      \* the most one LLM call costs
  MaxDrafts,    \* bound: recipes one extraction yields
  MaxRetries    \* bound: retry requests served

ASSUME JobQueueAssumption ==
  /\ Job \subseteq Nat \ {0}
  /\ TextJob \subseteq Job
  /\ Nil \notin Token \cup Job
  /\ MaxAttempts \in Nat \ {0}
  /\ Cap \in Nat \ {0}
  /\ MaxCall \in Nat
  /\ MaxDrafts \in Nat
  /\ MaxRetries \in Nat

VARIABLES
  job,      \* the jobs table
  recipes,  \* per job, how many committed recipe rows came from it
  wk,       \* the worker processes, each with its open session
  req,      \* the retry handlers between their SELECT and their UPDATE
  retried   \* retry requests served so far

vars == <<job, recipes, wk, req, retried>>

Status == {"absent", "queued", "running", "needs_review", "failed", "not_a_recipe"}
Settled == {"needs_review", "failed", "not_a_recipe"}
Artifact == {"raw_text_ref", "acquired_meta"}
Outcome == {"review", "not_a_recipe", "retry", "terminal"}
MaxCost == Cap - 1 + MaxCall   \* the last call starts below the cap

\* Worker program counter.  "polled": release_stale committed; "claimed": claim
\* committed, session not open yet; "decide": outcome known, transition and
\* commit pending; "crashed": session rolled back, failure not recorded yet.
InSession == {"acquire", "flush", "normalize", "persist", "decide"}
PC == {"down", "idle", "polled", "claimed", "crashed"} \cup InSession

JobRow ==
  [status: Status, attempts: Nat,
   by: Token \cup {Nil},                     \* locked_by
   stale: BOOLEAN,                           \* locked_at < cutoff
   next: {"null", "future", "past"},         \* next_attempt_at
   arts: SUBSET Artifact, ids: 0..MaxDrafts, cost: Nat]

WorkerState ==
  [pc: PC, tok: Token \cup {Nil}, job: Job \cup {Nil},
   arts: SUBSET Artifact, cost: Nat,         \* the row as loaded
   spent: Nat,                               \* _attempt_cost()
   locked: BOOLEAN,                          \* this session updated the jobs row
   found: 0..MaxDrafts,                      \* recipes in the normalized result
   staged: 0..MaxDrafts,                     \* drafts flushed, not committed
   outcome: Outcome \cup {Nil}]

RequestState ==
  [job: Job \cup {Nil}, attempts: Nat, next: {"null", "future", "past"}]

TypeOK ==
  /\ job \in [Job -> JobRow]
  /\ recipes \in [Job -> 0..MaxDrafts]
  /\ wk \in [Worker -> WorkerState]
  /\ req \in [Request -> RequestState]
  /\ retried \in 0..MaxRetries

NewRow == [status |-> "absent", attempts |-> 0, by |-> Nil, stale |-> FALSE,
           next |-> "null", arts |-> {}, ids |-> 0, cost |-> 0]
Resting(pc, tok) ==
  [pc |-> pc, tok |-> tok, job |-> Nil, arts |-> {}, cost |-> 0, spent |-> 0,
   locked |-> FALSE, found |-> 0, staged |-> 0, outcome |-> Nil]
NoRequest == [job |-> Nil, attempts |-> 0, next |-> "null"]

Init ==
  /\ job = [j \in Job |-> NewRow]
  /\ recipes = [j \in Job |-> 0]
  /\ wk = [w \in Worker |-> Resting("down", Nil)]
  /\ req = [r \in Request |-> NoRequest]
  /\ retried = 0

-----------------------------------------------------------------------------
(* Row-level operations of ingestion/queue.py.                             *)

\* The row lock a session keeps from the acquired_meta UPDATE to its end.
RowLockedBy(v, j) == wk[v].job = j /\ wk[v].locked
RowLocked(j) == \E v \in Worker : RowLockedBy(v, j)
LockedByOther(w) == \E v \in Worker \ {w} : RowLockedBy(v, wk[w].job)

\* _cas_guard: still running, and still locked by this process.
Owns(w) ==
  /\ wk[w].job # Nil
  /\ job[wk[w].job].status = "running"
  /\ job[wk[w].job].by = wk[w].tok

KeepToken(row) == [row EXCEPT !.stale = FALSE]   \* mutant of ClearLock
ClearLock(row) == [row EXCEPT !.by = Nil, !.stale = FALSE]

Claimed(row, t) == [row EXCEPT !.status = "running", !.by = t, !.stale = FALSE]

NeedsReview(row, ids, arts, cost) ==
  [ClearLock(row) EXCEPT !.status = "needs_review", !.ids = ids,
                         !.arts = @ \cup arts, !.cost = @ + cost]

NotARecipe(row, arts, cost) ==
  [ClearLock(row) EXCEPT !.status = "not_a_recipe", !.arts = @ \cup arts, !.cost = @ + cost]

\* Mutant of Failed: one attempt too many.
FailedLate(row, arts, cost, retryable) ==
  [ClearLock(row) EXCEPT !.attempts = @ + 1, !.arts = @ \cup arts, !.cost = @ + cost,
     !.status = IF retryable /\ row.attempts < MaxAttempts THEN "queued" ELSE "failed",
     !.next = IF retryable /\ row.attempts < MaxAttempts THEN "future" ELSE "null"]
Failed(row, arts, cost, retryable) ==
  LET counted == [ClearLock(row) EXCEPT !.attempts = @ + 1, !.arts = @ \cup arts,
                                        !.cost = @ + cost]
  IN IF retryable /\ counted.attempts < MaxAttempts
     THEN [counted EXCEPT !.status = "queued", !.next = "future"]
     ELSE [counted EXCEPT !.status = "failed", !.next = "null"]

ReleasedUncounted(row) == [ClearLock(row) EXCEPT !.status = "queued"]  \* mutant of Released
\* release_stale leaves next_attempt_at as it is, in both cases.
Released(row) ==
  LET counted == [ClearLock(row) EXCEPT !.attempts = @ + 1]
  IN [counted EXCEPT !.status = IF counted.attempts < MaxAttempts THEN "queued" ELSE "failed"]

\* Both queries skip rows another session has locked (SKIP LOCKED).  Two mutants of
\* Releasable: locked rows are not skipped; a job on its last attempt is left alone.
ReleasableLocked(j) == job[j].status = "running" /\ job[j].stale
ReleasableWithAttempts(j) ==
  job[j].status = "running" /\ job[j].stale /\ ~RowLocked(j) /\ job[j].attempts + 1 < MaxAttempts
Releasable(j) == job[j].status = "running" /\ job[j].stale /\ ~RowLocked(j)
Claimable(j) == job[j].status = "queued" /\ job[j].next # "future" /\ ~RowLocked(j)

-----------------------------------------------------------------------------
(* The users: submit, and retry in the two statements of its handler.      *)

Submit(j) ==
  /\ job[j].status = "absent"
  /\ \A i \in Job : i < j => job[i].status # "absent"
  /\ job' = [job EXCEPT ![j].status = "queued"]
  /\ UNCHANGED <<recipes, wk, req, retried>>

RetryRead(r, j) ==
  /\ req[r] = NoRequest
  /\ retried < MaxRetries
  /\ job[j].status \in {"failed", "not_a_recipe"}
  /\ req' = [req EXCEPT ![r] = [job |-> j, attempts |-> job[j].attempts, next |-> job[j].next]]
  /\ retried' = retried + 1
  /\ UNCHANGED <<job, recipes, wk>>

\* The ORM updates the columns whose new value differs from the loaded one, by
\* primary key and whatever the row says by now; locked_by is not among them.
Requeued(row, seen) ==
  [row EXCEPT !.status = "queued",
              !.attempts = IF seen.attempts # 0 THEN 0 ELSE @,
              !.next = IF seen.next # "null" THEN "null" ELSE @]
RetryWrite(r) ==
  LET j == req[r].job IN
  /\ j # Nil
  /\ ~RowLocked(j)
  /\ job' = [job EXCEPT ![j] = Requeued(@, req[r])]
  /\ req' = [req EXCEPT ![r] = NoRequest]
  /\ UNCHANGED <<recipes, wk, retried>>

-----------------------------------------------------------------------------
(* The worker loop: run_worker, _claim_one.                                *)

\* What worker w turns into.
Become(w, state) == wk' = [wk EXCEPT ![w] = state]

\* A fresh uuid in the token: no live process and no row carries it.
ReusedPid(t) == \A j \in Job : job[j].by # t   \* mutant of Fresh: a token without uuid
Fresh(t) == /\ \A v \in Worker : wk[v].tok # t
            /\ \A j \in Job : job[j].by # t

Start(w) ==
  /\ wk[w].pc = "down"
  /\ \E t \in Token : Fresh(t) /\ Become(w, Resting("idle", t))
  /\ UNCHANGED <<job, recipes, req, retried>>

\* A kill, an out-of-memory death, a restart or a SIGTERM between two jobs: the
\* database rolls the open session back and forgets its locks.
Die(w) ==
  /\ wk[w].pc # "down"
  /\ Become(w, Resting("down", Nil))
  /\ UNCHANGED <<job, recipes, req, retried>>

ReleaseStale(w) ==
  /\ wk[w].pc = "idle"
  /\ job' = [j \in Job |-> IF Releasable(j) THEN Released(job[j]) ELSE job[j]]
  /\ Become(w, [wk[w] EXCEPT !.pc = "polled"])
  /\ UNCHANGED <<recipes, req, retried>>

\* The oldest due job.  The commit of the claim may succeed and still raise (the
\* connection drops before the answer): the loop then forgets the job.
ClaimNext(w) ==
  /\ wk[w].pc = "polled"
  /\ \/ /\ \E j \in Job :
             /\ Claimable(j)
             /\ \A i \in Job : Claimable(i) => j <= i
             /\ job' = [job EXCEPT ![j] = Claimed(@, wk[w].tok)]
             /\ \/ Become(w, [wk[w] EXCEPT !.pc = "claimed", !.job = j])
                \/ Become(w, [wk[w] EXCEPT !.pc = "idle"])
     \/ /\ \A j \in Job : ~Claimable(j)
        /\ Become(w, [wk[w] EXCEPT !.pc = "idle"])
        /\ UNCHANGED job
  /\ UNCHANGED <<recipes, req, retried>>

-----------------------------------------------------------------------------
(* Processing one job: _process_one, process_job.                          *)

\* session.get: the row as it is now, whoever holds the claim.
Load(w) ==
  LET row == job[wk[w].job] IN
  /\ wk[w].pc = "claimed"
  /\ Become(w, [wk[w] EXCEPT !.pc = "acquire", !.arts = row.arts, !.cost = row.cost])
  /\ UNCHANGED <<job, recipes, req, retried>>

\* The client is seeded with the loaded cost and checks the cap before every
\* call, so these are the totals any number of further calls can add.
AttemptTotal(w) == wk[w].spent   \* mutant of Total: the client is not seeded
Total(w) == wk[w].cost + wk[w].spent
Spend(w) == IF Total(w) < Cap THEN 0..(MaxCost - Total(w)) ELSE {0}

\* The outcome is known, after calls for c.
Decide(w, c, outcome) ==
  Become(w, [wk[w] EXCEPT !.pc = "decide", !.spent = @ + c, !.outcome = outcome])

\* Mutant of CostCapExceeded: no savepoint, the drafts flushed so far stay.
NoSavepoint(w, c) ==
  /\ Total(w) + c >= Cap
  /\ Become(w, [wk[w] EXCEPT !.pc = "decide", !.spent = @ + c, !.outcome = "terminal",
                             !.staged = wk[w].found])
\* CostCapExceeded: a further call is wanted and the total has reached the cap.
CostCapExceeded(w, c) == Total(w) + c >= Cap /\ Decide(w, c, "terminal")

\* Retained raw text is reloaded, without extractor, call or new meta.
AcquireRetained(w) ==
  /\ wk[w].pc = "acquire"
  /\ "raw_text_ref" \in wk[w].arts
  /\ Become(w, [wk[w] EXCEPT !.pc = "normalize"])
  /\ UNCHANGED <<job, recipes, req, retried>>

\* The text extractor makes no call and returns no meta.
AcquireText(w) ==
  /\ wk[w].pc = "acquire"
  /\ wk[w].job \in TextJob
  /\ "raw_text_ref" \notin wk[w].arts
  /\ Become(w, [wk[w] EXCEPT !.pc = "normalize", !.arts = @ \cup {"raw_text_ref"}])
  /\ UNCHANGED <<job, recipes, req, retried>>

\* The url, pdf and image extractors.  TierFailed: another attempt may do better.
AcquireSource(w) ==
  LET then == IF "acquired_meta" \in wk[w].arts THEN "normalize" ELSE "flush" IN
  /\ wk[w].pc = "acquire"
  /\ wk[w].job \notin TextJob
  /\ \E c \in Spend(w) : \/ Become(w, [wk[w] EXCEPT !.spent = @ + c, !.pc = then])
                         \/ Decide(w, c, "retry")
                         \/ CostCapExceeded(w, c)
  /\ UNCHANGED <<job, recipes, req, retried>>

\* Meta the loaded row did not have is written to it at once: an UPDATE that waits
\* for the row's lock and keeps it until the session ends.
Flush(w) ==
  /\ wk[w].pc = "flush"
  /\ ~LockedByOther(w)
  /\ Become(w, [wk[w] EXCEPT !.pc = "normalize", !.locked = TRUE,
                             !.arts = @ \cup {"acquired_meta"}])
  /\ UNCHANGED <<job, recipes, req, retried>>

\* A prebuilt result (url, tier 1) and empty content need no call, any other does; a
\* text is never empty.  No recipe of a positive result need have a valid line.
Normalize(w) ==
  LET result == wk[w].job \in TextJob => Total(w) < Cap IN
  /\ wk[w].pc = "normalize"
  /\ \E c \in Spend(w) :
       \/ /\ result
          /\ \E n \in 0..MaxDrafts :
               Become(w, [wk[w] EXCEPT !.pc = "persist", !.spent = @ + c, !.found = n])
       \/ result /\ Decide(w, c, "not_a_recipe")
       \/ CostCapExceeded(w, c)
  /\ UNCHANGED <<job, recipes, req, retried>>

\* Another session's uncommitted draft with the same (owner, fingerprint): the
\* insert into the unique index waits until that session ends.
IndexBusy(w) == \E v \in Worker \ {w} : wk[v].job = wk[w].job /\ wk[v].staged > 0

NoFingerprint(w) == FALSE   \* mutant of Duplicate: no draft carries the fingerprint
Duplicate(w) == wk[w].found > 0 /\ recipes[wk[w].job] > 0

\* persist_drafts in its savepoint: every draft of the result, or a duplicate, or
\* the cap reached while matching ingredients and nothing left behind.
Persist(w) ==
  /\ wk[w].pc = "persist"
  /\ \/ Duplicate(w) /\ Decide(w, 0, "terminal")
     \/ wk[w].found = 0 /\ Decide(w, 0, "review")
     \/ /\ wk[w].found > 0 /\ ~Duplicate(w) /\ ~IndexBusy(w)
        /\ \E c \in Spend(w) :
             \/ Become(w, [wk[w] EXCEPT !.pc = "decide", !.spent = @ + c, !.outcome = "review",
                                        !.staged = wk[w].found])
             \/ CostCapExceeded(w, c)
  /\ UNCHANGED <<job, recipes, req, retried>>

\* What the row becomes when the transition is applied.  Every successful exit
\* merges the acquired artifacts; the failing ones keep only what was flushed.
Flushed(w) == IF wk[w].locked THEN {"acquired_meta"} ELSE {}
Acquired(w) == wk[w].arts \cap ({"raw_text_ref"} \cup Flushed(w))
Transition(w, row) ==
  CASE wk[w].outcome = "review" -> NeedsReview(row, wk[w].staged, Acquired(w), wk[w].spent)
    [] wk[w].outcome = "not_a_recipe" -> NotARecipe(row, Acquired(w), wk[w].spent)
    [] wk[w].outcome = "retry" -> Failed(row, Flushed(w), wk[w].spent, TRUE)
    [] wk[w].outcome = "terminal" -> Failed(row, Flushed(w), wk[w].spent, FALSE)

Crashed(w, cost) ==
  [Resting("crashed", wk[w].tok) EXCEPT !.job = wk[w].job, !.spent = cost]

\* The compare-and-set under FOR UPDATE, then commit, or roll everything back if
\* the claim was lost.  The commit may succeed and still raise: the crash is then
\* recorded (or not) like any other, without the attempt's cost.
Finish(w) ==
  LET j == wk[w].job IN
  /\ wk[w].pc = "decide"
  /\ ~LockedByOther(w)
  /\ \/ /\ Owns(w)
        /\ job' = [job EXCEPT ![j] = Transition(w, @)]
        /\ recipes' = [recipes EXCEPT ![j] = @ + wk[w].staged]
        /\ \/ Become(w, Resting("idle", wk[w].tok))
           \/ Become(w, Crashed(w, 0))
     \/ /\ ~Owns(w)
        /\ Become(w, Resting("idle", wk[w].tok))
        /\ UNCHANGED <<job, recipes>>
  /\ UNCHANGED <<req, retried>>

\* Anything unexpected: a bug, a dropped connection, a unique violation, a
\* deadlock the database broke.  The session is rolled back; JobProcessingError
\* carries the attempt's cost, an error of load or commit does not.
Raise(w) ==
  /\ wk[w].pc \in InSession \cup {"claimed"}
  /\ \E cost \in IF wk[w].pc \in {"acquire", "flush", "normalize", "persist"}
                 THEN {wk[w].spent + c : c \in Spend(w)}
                 ELSE {0, wk[w].spent} :
       Become(w, Crashed(w, cost))
  /\ UNCHANGED <<job, recipes, req, retried>>

\* Mutant of RecordCrash: the crash of a lost claim is recorded too.
RecordCrashUnfenced(w) ==
  LET j == wk[w].job IN
  /\ wk[w].pc = "crashed" /\ ~LockedByOther(w)
  /\ Become(w, Resting("idle", wk[w].tok))
  /\ job' = [job EXCEPT ![j] = Failed(@, {}, wk[w].spent, job[j].attempts + 1 < MaxAttempts)]
  /\ UNCHANGED <<recipes, req, retried>>

\* _fail_in_fresh_session: guarded like the rest, and if it raises too the error
\* is swallowed and the job stays running until its lock is stale.
RecordCrash(w) ==
  LET j == wk[w].job IN
  /\ wk[w].pc = "crashed"
  /\ ~LockedByOther(w)
  /\ Become(w, Resting("idle", wk[w].tok))
  /\ \/ /\ Owns(w)
        /\ job' = [job EXCEPT ![j] = Failed(@, {}, wk[w].spent, TRUE)]
     \/ UNCHANGED job
  /\ UNCHANGED <<recipes, req, retried>>

-----------------------------------------------------------------------------
(* Time.                                                                   *)

LockAges(j) ==
  /\ job[j].status = "running" /\ ~job[j].stale
  /\ job' = [job EXCEPT ![j].stale = TRUE]
  /\ UNCHANGED <<recipes, wk, req, retried>>

BackoffElapses(j) ==
  /\ job[j].next = "future"
  /\ job' = [job EXCEPT ![j].next = "past"]
  /\ UNCHANGED <<recipes, wk, req, retried>>

-----------------------------------------------------------------------------
Process(w) ==
  \/ Load(w) \/ AcquireRetained(w) \/ AcquireText(w) \/ AcquireSource(w) \/ Flush(w)
  \/ Normalize(w) \/ Persist(w) \/ Finish(w) \/ RecordCrash(w)

Next ==
  \/ \E j \in Job : Submit(j) \/ LockAges(j) \/ BackoffElapses(j)
  \/ \E r \in Request : RetryWrite(r) \/ \E j \in Job : RetryRead(r, j)
  \/ \E w \in Worker : Start(w) \/ Die(w) \/ ReleaseStale(w) \/ ClaimNext(w)
                       \/ Process(w) \/ Raise(w)

Spec == Init /\ [][Next]_vars

\* Two sessions, each waiting for what the other holds: the database ends one.
WaitsFor(v, u) ==
  /\ v # u /\ wk[v].job = wk[u].job
  /\ \/ wk[u].locked /\ wk[v].pc \in {"flush", "decide", "crashed"}
     \/ wk[u].staged > 0 /\ wk[v].pc = "persist" /\ wk[v].found > 0
LockVictim(w) == (\E v \in Worker : WaitsFor(w, v) /\ WaitsFor(v, w)) /\ Raise(w)

\* Every wait of a worker ends: fetches, browser runs and LLM calls have time
\* limits, the database detects deadlocks, clocks advance.  The orchestrator
\* restarts dead workers, and does not kill every one of them before it polls.
Fairness ==
  /\ \A j \in Job : WF_vars(LockAges(j)) /\ WF_vars(BackoffElapses(j))
  /\ \A w \in Worker : /\ WF_vars(Start(w))
                       /\ SF_vars(ReleaseStale(w)) /\ SF_vars(ClaimNext(w))
                       /\ WF_vars(Process(w)) /\ WF_vars(LockVictim(w))

FairSpec == Spec /\ Fairness

-----------------------------------------------------------------------------
(* Properties.                                                             *)

\* No two processes hold the claim of the same job: however often stale locks are
\* released and jobs claimed again, at most one running process passes _cas_guard.
OneOwner ==
  \A v, w \in Worker : v # w /\ wk[v].job = wk[w].job => ~(Owns(v) /\ Owns(w))

\* Every committed draft is listed by its job and every listed draft exists:
\* neither a lost claim, nor a crash, nor a half-persisted result leaves recipes
\* behind that no job refers to (process_job, persist_drafts, queue._cas_guard).
DraftsListed == \A j \in Job : recipes[j] = job[j].ids

\* A row carries a worker's token exactly while it is running, through every
\* transition of queue.py and through a retry request under way.
LockedWhileRunning == \A j \in Job : job[j].status = "running" <=> job[j].by # Nil

\* A job waiting or being worked on has an attempt left, so it cannot kill its
\* workers for ever (release_stale counts, fail counts, retry_job resets).
AttemptLeft ==
  \A j \in Job : job[j].status \in {"queued", "running"} => job[j].attempts < MaxAttempts

\* The recorded cost stays within the cap plus the call that crossed it, summed
\* over all attempts and retries of the job (make_llm_for_job seeds the client
\* with the recorded cost, every outcome adds only its own attempt's share).
RecordedCostWithinCap == \A j \in Job : job[j].cost <= MaxCost

\* A session that has flushed its acquired meta while it owned the job keeps the
\* claim to its end: its row lock hides the job from every release_stale.
FlushedClaimIsSafe ==
  [][\A w \in Worker : Owns(w) /\ wk[w].locked /\ wk'[w].locked => Owns(w)']_vars

\* Drafts of a job are created once: whatever is retried, requeued or processed
\* twice at a time, the committed fingerprint stops the second set.
DraftsCreatedOnce == [][\A j \in Job : recipes[j] > 0 => recipes'[j] = recipes[j]]_vars

\* The queue with its workers implements the lifecycle every user was promised.
Lifecycle == INSTANCE JobLifecycle WITH
  status <- [j \in Job |-> job[j].status],
  attempts <- [j \in Job |-> job[j].attempts],
  drafts <- recipes
ImplementsLifecycle == Lifecycle!Life

\* A submitted job eventually rests: workers may die, lose claims, deadlock or
\* fail to record their failures, but not for ever on the same job.
JobSettles ==
  \A j \in Job : job[j].status \in {"queued", "running"} ~> job[j].status \in Settled

\* retry_job is "only allowed when status is failed or not_a_recipe": a job under
\* review never goes back to the queue.
ReviewNotRequeued ==
  [][\A j \in Job : job[j].status = "needs_review" => job'[j].status # "queued"]_vars

=============================================================================
