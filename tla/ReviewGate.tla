----------------------------- MODULE ReviewGate -----------------------------
(***************************************************************************)
(* The review of the drafts of a user's jobs (ingestion/service.py):       *)
(* accept_draft, reject_draft, accept_all_high_confidence and              *)
(* _maybe_complete, as the user's request handlers run them at the same    *)
(* time.                                                                   *)
(*                                                                         *)
(* A handler is one READ COMMITTED transaction.  It works on the job rows  *)
(* it loaded first (accept_all on several), its other statements each see  *)
(* what is committed by then plus its own writes, and a row it wrote stays *)
(* locked until it ends.  One action is one statement, so the handlers     *)
(* interleave where the database lets them.                                *)
(***************************************************************************)
EXTENDS Naturals, FiniteSets

CONSTANTS
  Job,           \* the user's jobs
  Draft,         \* the recipes they produced, numbered as the jobs list them
  Of,            \* the job a draft came from
  Request,       \* concurrent requests
  Nil,           \* no value
  DirectDelete   \* whether DELETE /recipes/{id} is also used on drafts

ASSUME ReviewAssumption ==
  /\ Draft \subseteq Nat /\ Nil \notin Draft /\ Nil \notin Job
  /\ Of \in [Draft -> Job]
  /\ DirectDelete \in BOOLEAN

VARIABLES
  status,     \* the job rows: status,
  listed,     \*   the drafts in their jobs' produced_recipe_ids,
  confident,  \*   the jobs whose extraction_meta.confidence >= threshold
  exists,     \* the recipe rows of the drafts,
  verified,   \*   and which of them is_verified
  tx          \* the open transactions of the handlers

vars == <<status, listed, confident, exists, verified, tx>>

Kind == {"accept", "reject", "accept_all"}
Status == {"needs_review", "done"}

Handler ==
  [pc: {"closed", "job", "recipe", "update", "relist", "check", "commit"},
   kind: Kind \cup {Nil},
   job: Job \cup {Nil}, jobs: SUBSET Job,       \* the job at hand, accept_all's others to go
   draft: Draft \cup {Nil}, todo: SUBSET Draft, \* the same for the job's drafts
   status: Status, listed: SUBSET Draft,        \* the job as loaded; the jobs' lists as loaded
   verifies: SUBSET Draft, deletes: SUBSET Draft,  \* uncommitted writes: recipes,
   relists: BOOLEAN, finishes: SUBSET Job]         \*   the job's list, jobs set to done

Closed == [pc |-> "closed", kind |-> Nil, job |-> Nil, jobs |-> {}, draft |-> Nil,
           todo |-> {}, status |-> "needs_review", listed |-> {}, verifies |-> {},
           deletes |-> {}, relists |-> FALSE, finishes |-> {}]

TypeOK ==
  /\ status \in [Job -> Status]
  /\ listed \subseteq Draft /\ exists \subseteq Draft /\ verified \subseteq exists
  /\ confident \subseteq Job
  /\ tx \in [Request -> Handler]

\* complete_needs_review has just been committed for each job.
Init ==
  /\ status = [j \in Job |-> "needs_review"] /\ listed = Draft
  /\ confident \in SUBSET Job
  /\ exists = Draft /\ verified = {}
  /\ tx = [r \in Request |-> Closed]

-----------------------------------------------------------------------------
RecipeLockedBy(r, d) == d \in tx[r].verifies \cup tx[r].deletes
JobLockedBy(r, j) == j \in tx[r].finishes \/ (tx[r].relists /\ tx[r].job = j)
RecipeBusy(r, d) == \E q \in Request \ {r} : RecipeLockedBy(q, d)
JobBusy(r) == \E q \in Request \ {r} : JobLockedBy(q, tx[r].job)

\* The drafts among ds that jobs js list.
From(ds, js) == {d \in ds : Of[d] \in js}

Goto(r, pc) == tx' = [tx EXCEPT ![r].pc = pc]
Abort(r) == tx' = [tx EXCEPT ![r] = Closed]
Tables == <<status, listed, confident, exists, verified>>

\* get_job, and the 404 for a recipe that is not a draft of this job.
Begin(r, kind, d) ==
  /\ tx[r].pc = "closed"
  /\ kind \in {"accept", "reject"} /\ d \in listed
  /\ tx' = [tx EXCEPT ![r] = [Closed EXCEPT !.pc = "recipe", !.kind = kind, !.job = Of[d],
                !.draft = d, !.status = status[Of[d]], !.listed = From(listed, {Of[d]})]]
  /\ UNCHANGED Tables

\* The query for all of the user's needs_review jobs, and the confidence test.
BeginAll(r) ==
  LET jobs == {j \in confident : status[j] = "needs_review"} IN
  /\ tx[r].pc = "closed" /\ jobs # {}
  /\ tx' = [tx EXCEPT ![r] = [Closed EXCEPT !.pc = "job", !.kind = "accept_all",
                                !.jobs = jobs, !.listed = From(listed, jobs)]]
  /\ UNCHANGED Tables

\* accept_all's outer loop: the query has no ORDER BY, so any job may come next.
NextJob(r) ==
  /\ tx[r].pc = "job"
  /\ \/ \E j \in tx[r].jobs :
          tx' = [tx EXCEPT ![r].pc = "recipe", ![r].job = j, ![r].jobs = @ \ {j},
                           ![r].todo = From(tx[r].listed, {j})]
     \/ tx[r].jobs = {} /\ Goto(r, "commit")
  /\ UNCHANGED Tables

\* Mutant of NextDraft: drafts in any order.
NextDraftUnordered(r) ==
  /\ tx[r].pc = "recipe" /\ tx[r].kind = "accept_all" /\ tx[r].draft = Nil
  /\ \/ \E d \in tx[r].todo : tx' = [tx EXCEPT ![r].draft = d, ![r].todo = @ \ {d}]
     \/ tx[r].todo = {} /\ Goto(r, "check")
  /\ UNCHANGED Tables

\* Its inner loop: the next draft in list order, or the job at last.
NextDraft(r) ==
  /\ tx[r].pc = "recipe" /\ tx[r].kind = "accept_all" /\ tx[r].draft = Nil
  /\ \/ \E d \in tx[r].todo :
          /\ \A e \in tx[r].todo : d <= e
          /\ tx' = [tx EXCEPT ![r].draft = d, ![r].todo = @ \ {d}]
     \/ tx[r].todo = {} /\ Goto(r, "check")
  /\ UNCHANGED Tables

\* Where a handler continues when its draft needs no UPDATE (any more).
Continue(r) ==
  IF tx[r].kind = "accept_all" THEN [tx[r] EXCEPT !.draft = Nil, !.pc = "recipe"]
                               ELSE [tx[r] EXCEPT !.pc = "check"]

\* The SELECT of verify_recipe or delete_recipe: 404 for a missing recipe, which
\* only accept_all survives; the ORM writes nothing if it is already verified.
FindRecipe(r) ==
  LET d == tx[r].draft IN
  /\ tx[r].pc = "recipe" /\ d # Nil
  /\ \/ d \notin exists /\ tx[r].kind # "accept_all" /\ Abort(r)
     \/ d \notin exists /\ tx[r].kind = "accept_all" /\ tx' = [tx EXCEPT ![r] = Continue(r)]
     \/ d \in exists /\ (tx[r].kind = "reject" \/ d \notin verified) /\ Goto(r, "update")
     \/ d \in exists /\ tx[r].kind # "reject" /\ d \in verified
        /\ tx' = [tx EXCEPT ![r] = Continue(r)]
  /\ UNCHANGED Tables

\* Mutant of Verify: an UPDATE of no row passes for a success.
VerifyGone(r) ==
  LET d == tx[r].draft IN
  /\ tx[r].pc = "update" /\ tx[r].kind # "reject"
  /\ ~RecipeBusy(r, d)
  /\ tx' = [tx EXCEPT ![r] = [Continue(r) EXCEPT !.verifies = @ \cup {d}]]
  /\ UNCHANGED Tables

\* is_verified := TRUE waits for the recipe's lock; if the row has gone meanwhile
\* the ORM finds no row updated and the request fails as a whole.
Verify(r) ==
  LET d == tx[r].draft IN
  /\ tx[r].pc = "update" /\ tx[r].kind # "reject"
  /\ ~RecipeBusy(r, d)
  /\ \/ d \notin exists /\ Abort(r)
     \/ d \in exists /\ tx' = [tx EXCEPT ![r] = [Continue(r) EXCEPT !.verifies = @ \cup {d}]]
  /\ UNCHANGED Tables

\* DELETE waits too, and does nothing to a row that has gone.
Delete(r) ==
  LET d == tx[r].draft IN
  /\ tx[r].pc = "update" /\ tx[r].kind = "reject"
  /\ ~RecipeBusy(r, d)
  /\ tx' = [tx EXCEPT ![r].pc = "relist", ![r].deletes = @ \cup {d}]
  /\ UNCHANGED Tables

\* Mutant of Relist: the list is changed in place, which the ORM does not notice.
RelistUnnoticed(r) ==
  /\ tx[r].pc = "relist"
  /\ tx' = [tx EXCEPT ![r].pc = "check", ![r].listed = @ \ {tx[r].draft}]
  /\ UNCHANGED Tables

\* The new list is the loaded list without the draft, whatever the row says now.
Relist(r) ==
  /\ tx[r].pc = "relist"
  /\ ~JobBusy(r)
  /\ tx' = [tx EXCEPT ![r].pc = "check", ![r].relists = TRUE, ![r].listed = @ \ {tx[r].draft}]
  /\ UNCHANGED Tables

\* accept_all sets the job to done, whatever became of its drafts, and goes on to the
\* next with the locks it has: the flush waits for the job's lock.
Finish(r) ==
  /\ tx[r].pc = "check" /\ tx[r].kind = "accept_all"
  /\ ~JobBusy(r)
  /\ tx' = [tx EXCEPT ![r].pc = "job", ![r].job = Nil, ![r].finishes = @ \cup {tx[r].job}]
  /\ UNCHANGED Tables

\* What a statement of r sees of the recipes.
Sees(r) == exists \ tx[r].deletes
SeesCommitted(r) == verified   \* mutant of SeesVerified: the handler has not flushed
SeesVerified(r) == verified \cup tx[r].verifies

AnyResolved(r) == tx[r].listed \cap SeesVerified(r) # {}   \* mutant of Resolved
\* _maybe_complete's test, on the loaded list.
Resolved(r) == tx[r].listed \cap Sees(r) \subseteq SeesVerified(r)

\* A job loaded as done stays so.
Completes(r) == tx[r].status # "done" /\ Resolved(r)

\* _maybe_complete: the UPDATE of the status waits for the job's lock.
MaybeComplete(r) ==
  /\ tx[r].pc = "check" /\ tx[r].kind # "accept_all"
  /\ Completes(r) => ~JobBusy(r)
  /\ tx' = [tx EXCEPT ![r].pc = "commit",
                      ![r].finishes = IF Completes(r) THEN {tx[r].job} ELSE {}]
  /\ UNCHANGED Tables

\* A handler that relists has loaded the list of one job, and replaces that.
Commit(r) ==
  /\ tx[r].pc = "commit"
  /\ status' = [j \in Job |-> IF j \in tx[r].finishes THEN "done" ELSE status[j]]
  /\ listed' = IF tx[r].relists THEN From(listed, Job \ {tx[r].job}) \cup tx[r].listed
                                ELSE listed
  /\ exists' = exists \ tx[r].deletes
  /\ verified' = (verified \cup tx[r].verifies) \ tx[r].deletes
  /\ Abort(r)
  /\ UNCHANGED confident

\* A dropped connection, a restart, a deadlock victim: nothing was written.
Fail(r) == tx[r].pc # "closed" /\ Abort(r) /\ UNCHANGED Tables

\* The recipe's own endpoint, which knows nothing of jobs.
DeleteRecipe(d) ==
  /\ DirectDelete
  /\ d \in exists
  /\ \A r \in Request : ~RecipeLockedBy(r, d)
  /\ exists' = exists \ {d} /\ verified' = verified \ {d}
  /\ UNCHANGED <<status, listed, confident, tx>>

Next ==
  \/ \E r \in Request :
       \/ \E kind \in Kind, d \in Draft : Begin(r, kind, d)
       \/ BeginAll(r) \/ NextJob(r) \/ NextDraft(r) \/ FindRecipe(r) \/ Verify(r)
       \/ Delete(r) \/ Relist(r) \/ Finish(r) \/ MaybeComplete(r) \/ Commit(r) \/ Fail(r)
  \/ \E d \in Draft : DeleteRecipe(d)

Spec == Init /\ [][Next]_vars

-----------------------------------------------------------------------------
\* A job is done only when each of its drafts was verified or is gone, although
\* every handler decides on the list it loaded and writes that list back.
DoneMeansResolved ==
  \A d \in listed \cap exists : status[Of[d]] = "done" => d \in verified

Waits(r, q) ==
  /\ q # r
  /\ \/ tx[r].pc = "update" /\ RecipeLockedBy(q, tx[r].draft)
     \/ /\ \/ tx[r].pc = "relist"
           \/ tx[r].pc = "check" /\ (tx[r].kind = "accept_all" \/ Completes(r))
        /\ JobLockedBy(q, tx[r].job)
Circle(S) == \A r \in S : (\E q \in S : Waits(r, q)) /\ (\E q \in S : Waits(q, r))

\* accept_all with a job done and not committed, on its way through the others.
Sweeps(r) == tx[r].kind = "accept_all" /\ tx[r].finishes # {}

\* Handlers wait for each other in a circle, of whatever length, only where two
\* accept_all calls sweep different jobs, which the code does nothing about.  On one job
\* they never do: recipes are locked before the job, and in list order.
NoLockCycle ==
  \A S \in SUBSET Request :
    Circle(S) => S = {} \/ \E p, q \in S : Sweeps(p) /\ Sweeps(q) /\ tx[p].job # tx[q].job

Quiet == \A r \in Request : tx[r].pc = "closed"

\* A rejected draft is removed "from job.produced_recipe_ids" (reject_draft): with
\* no request open, the jobs list no recipe that is gone.
ListedExist == Quiet => listed \subseteq exists

\* "If all remaining produced recipes are now verified, transitions job -> done"
\* (accept_draft): no request open and nothing of a job left to review means done.
ReviewCompletes ==
  Quiet => \A j \in Job : From(listed \cap exists, {j}) \subseteq verified => status[j] = "done"
=============================================================================
