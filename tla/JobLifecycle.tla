---------------------------- MODULE JobLifecycle ----------------------------
(***************************************************************************)
(* What every ingestion job promises the user who submitted it, whatever   *)
(* the workers do (ingestion/models.py names the statuses): it is worked   *)
(* on only while attempts are left, every abandoned attempt is counted,    *)
(* and its drafts appear in one step, together with the request to review  *)
(* them.  Only the user restarts a job, and only one that ended without    *)
(* drafts.  Deciding the review is the subject of ReviewGate.              *)
(***************************************************************************)
EXTENDS Naturals

CONSTANTS Job, MaxAttempts, MaxDrafts

VARIABLES
  status,
  attempts,  \* attempts that ended without a result since the last (re)start
  drafts     \* recipes the job has put before the user

lifeVars == <<status, attempts, drafts>>

LifeInit ==
  /\ status = [j \in Job |-> "absent"]
  /\ attempts = [j \in Job |-> 0]
  /\ drafts = [j \in Job |-> 0]

Moves(j, from, to) == status[j] \in from /\ status'[j] \in to
SameAttempts(j) == attempts'[j] = attempts[j]
SameDrafts(j) == drafts'[j] = drafts[j]

Enqueue(j) == Moves(j, {"absent"}, {"queued"}) /\ SameAttempts(j) /\ SameDrafts(j)

Begin(j) ==
  /\ Moves(j, {"queued"}, {"running"})
  /\ attempts[j] < MaxAttempts
  /\ SameAttempts(j) /\ SameDrafts(j)

Deliver(j) ==
  /\ Moves(j, {"running"}, {"needs_review"})
  /\ drafts[j] = 0 /\ drafts'[j] \in 0..MaxDrafts
  /\ SameAttempts(j)

NotARecipe(j) == Moves(j, {"running"}, {"not_a_recipe"}) /\ SameAttempts(j) /\ SameDrafts(j)

\* An abandoned attempt, and whether there will be another.
Abandon(j) ==
  /\ \/ Moves(j, {"running"}, {"queued"}) /\ attempts[j] + 1 < MaxAttempts
     \/ Moves(j, {"running"}, {"failed"})
  /\ attempts'[j] = attempts[j] + 1
  /\ SameDrafts(j)

Restart(j) ==
  /\ Moves(j, {"failed", "not_a_recipe"}, {"queued"})
  /\ drafts[j] = 0
  /\ attempts'[j] = 0
  /\ SameDrafts(j)

Stays(j) == status'[j] = status[j] /\ SameAttempts(j) /\ SameDrafts(j)

\* One release of stale locks moves several jobs at once.
LifeNext ==
  \A j \in Job : \/ Enqueue(j) \/ Begin(j) \/ Deliver(j) \/ NotARecipe(j)
                 \/ Abandon(j) \/ Restart(j) \/ Stays(j)

Life == LifeInit /\ [][LifeNext]_lifeVars
=============================================================================
