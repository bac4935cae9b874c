----------------------------- MODULE Submission -----------------------------
(***************************************************************************)
(* How a source of one user becomes a job and a recipe: the checks and the *)
(* insert of ingestion/service.py, the fingerprints, the files an upload   *)
(* leaves in filestore.py, and the worker as far as its persistence meets  *)
(* another job of the same source.                                         *)
(*                                                                         *)
(* Requests run in threads, workers are processes of their own.            *)
(* Statements read what is committed (READ COMMITTED).  A job is committed *)
(* by the request it is named after.                                       *)
(*                                                                         *)
(* Abstractions.  A recipe stands for all drafts of its source; only the   *)
(* first of them carries the fingerprint.  JobQueue has the rest of the    *)
(* worker, ReviewGate that of the review.                                  *)
(***************************************************************************)
EXTENDS Absent

CONSTANTS
  Post,        \* requests
  Source,      \* what is submitted: urls, texts, and the contents of files
  Upload,      \* those of them that are files
  Fingerprint  \* of each source

ASSUME SubmissionAssumption ==
  /\ Upload \subseteq Source
  /\ DOMAIN Fingerprint = Source
  /\ None \notin Post \cup Source \cup {"queued", "checked", "failed", "needs_review", "done"}

VARIABLES
  post,    \* each request: place in the code, source
  job,     \* the status of the job a request has committed
  blob,    \* the file of each upload: None, "whole", or the request that truncated it last
  recipe   \* the jobs whose recipe exists, with the fingerprint of their source

submissionVars == <<post, job, blob, recipe>>

Step == {"new", "unknown", "idle", "missing", "opened", "stored", "end", "failed", "died"}
Status == {"queued", "checked", "failed", "needs_review", "done"}
Active == {"queued", "checked", "needs_review"}  \* running is not told from queued

SubmissionTypeOK ==
  /\ post \in [Post -> [at : Step, source : Source \cup {None}]]
  /\ job \in [Post -> Status \cup {None}]
  /\ blob \in [Upload -> Post \cup {"whole", None}]
  /\ recipe \subseteq Post
  /\ \A p \in Post : job[p] # None <=> post[p].at = "end"

SubmissionInit ==
  /\ post = [p \in Post |-> [at |-> "new", source |-> None]]
  /\ job = [p \in Post |-> None]
  /\ blob = [k \in Upload |-> None]
  /\ recipe = {}

Reach(p, place) == post' = [post EXCEPT ![p].at = place]
Key(p) == Fingerprint[post[p].source]
Twin(p, q) == q # p /\ post[q].source # None /\ Key(q) = Key(p)

-----------------------------------------------------------------------------
(* submit_url, submit_text, submit_file *)

\* find_recipe_id_by_fingerprint, after the validation
FindRecipe(p) ==
  \E s \in Source :
    /\ post[p].at = "new"
    /\ post' = [post EXCEPT ![p] =
         [at |-> IF \E q \in recipe : Fingerprint[post[q].source] = Fingerprint[s] THEN "failed" ELSE "unknown",
          source |-> s]]
    /\ UNCHANGED <<job, blob, recipe>>

\* _check_active_job_dup
FindJob(p) ==
  /\ post[p].at = "unknown"
  /\ Reach(p, IF \E q \in Post : Twin(p, q) /\ job[q] \in Active THEN "failed"
              ELSE IF post[p].source \in Upload THEN "idle" ELSE "stored")
  /\ UNCHANGED <<job, blob, recipe>>

\* FileStore.save: what exists is not written again ...
SaveFile(p) ==
  /\ post[p].at = "idle"
  /\ Reach(p, IF blob[post[p].source] = None THEN "missing" ELSE "stored")
  /\ UNCHANGED <<job, blob, recipe>>

\* ... and what does not is truncated, whoever opened it meanwhile,
OpenFile(p) ==
  /\ post[p].at = "missing"
  /\ Reach(p, "opened")
  /\ blob' = [blob EXCEPT ![post[p].source] = p]
  /\ UNCHANGED <<job, recipe>>

\* and written to the end: all of it is there unless another request truncated it since.
CloseFile(p) ==
  /\ post[p].at = "opened"
  /\ Reach(p, "stored")
  /\ blob' = [blob EXCEPT ![post[p].source] = IF @ = p THEN "whole" ELSE @]
  /\ UNCHANGED <<job, recipe>>

CommitJob(p) ==
  /\ post[p].at = "stored"
  /\ Reach(p, "end")
  /\ job' = [job EXCEPT ![p] = "queued"]
  /\ UNCHANGED <<blob, recipe>>

\* Mutant of AfterRollback: the file of a request that fails removed.
AfterRollbackRemoved(p) ==
  IF post[p].source \in Upload THEN [blob EXCEPT ![post[p].source] = None] ELSE blob

\* The file stays.
AfterRollback(p) == blob

AbortPost(p) ==
  /\ post[p].at = "stored"
  /\ Reach(p, "failed")
  /\ blob' = AfterRollback(p)
  /\ UNCHANGED <<job, recipe>>

\* The process dies in the write, or the disk is full.
TearFile(p) ==
  /\ post[p].at = "opened"
  /\ Reach(p, "died")
  /\ UNCHANGED <<job, blob, recipe>>

-----------------------------------------------------------------------------
(* The worker, and the user *)

Progress(p, status) == job' = [job EXCEPT ![p] = status]

\* create_recipe looks for the fingerprint ...
CheckSource(p) ==
  /\ job[p] = "queued"
  /\ \/ Progress(p, "failed")  \* for any other reason
     \/ Progress(p, IF \E q \in recipe : Twin(p, q) THEN "failed" ELSE "checked")
  /\ UNCHANGED <<post, blob, recipe>>

\* Mutant of Conflict: no unique index on the fingerprints.
ConflictNever(p) == FALSE

\* uq_recipes_owner_fingerprint
Conflict(p) == \E q \in recipe : Twin(p, q)

\* ... and inserts; the error of the index is a crash of the job, which is queued again.
InsertRecipe(p) ==
  /\ job[p] = "checked"
  /\ IF Conflict(p) THEN Progress(p, "queued") /\ UNCHANGED recipe
     ELSE Progress(p, "needs_review") /\ recipe' = recipe \cup {p}
  /\ UNCHANGED <<post, blob>>

\* Accepted, or rejected and deleted.
Review(p) ==
  /\ job[p] = "needs_review"
  /\ Progress(p, "done")
  /\ recipe' \in {recipe, recipe \ {p}}
  /\ UNCHANGED <<post, blob>>

\* retry_job asks nothing about other jobs of the source.
RetryFailed(p) ==
  /\ job[p] = "failed"
  /\ Progress(p, "queued")
  /\ UNCHANGED <<post, blob, recipe>>

DeleteAccepted(p) ==
  /\ job[p] = "done" /\ p \in recipe
  /\ recipe' = recipe \ {p}
  /\ UNCHANGED <<post, job, blob>>

SubmissionNext ==
  \E p \in Post :
       \/ FindRecipe(p) \/ FindJob(p) \/ SaveFile(p) \/ OpenFile(p) \/ CloseFile(p)
       \/ TearFile(p) \/ CommitJob(p) \/ AbortPost(p)
       \/ CheckSource(p) \/ InsertRecipe(p) \/ Review(p) \/ RetryFailed(p) \/ DeleteAccepted(p)

SubmissionSpec == SubmissionInit /\ [][SubmissionNext]_submissionVars

-----------------------------------------------------------------------------
(* Properties *)

\* Of the jobs of one source, which overlapping submissions and retries make, at most one
\* brings a recipe at a time.
SourceOnce == \A p, q \in recipe : ~Twin(p, q)

\* A job finds the whole file it names, but while another upload of the same content writes
\* it and after such a write was cut short.
FilesReadBack ==
  \A p \in Post :
    LET file == blob[post[p].source]
    IN  job[p] # None /\ post[p].source \in Upload =>
          file = "whole" \/ (file \in Post /\ post[file].at \in {"opened", "died"})

=============================================================================
