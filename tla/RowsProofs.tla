----------------------------- MODULE RowsProofs -----------------------------
(***************************************************************************)
(* Theorems about the requests that meet in the rows of the database: an   *)
(* owner's default cookbook (DefaultCookbook), one recipe of a source      *)
(* (Submission), and pages of a list that others change (RecipeList); and  *)
(* about the migrations that rewrite those rows (Migrations).              *)
(***************************************************************************)
EXTENDS DefaultCookbook, Submission, RecipeList, Migrations, Induction, FiniteSetTheorems,
        SequenceTheorems

-----------------------------------------------------------------------------
(* DefaultCookbook, for any number of overlapping requests.                *)

\* There is one row at most; only the end of a request commits it.
OneRow ==
  /\ \A d, e \in default : d = e
  /\ \A d \in default : d.committed => At(d.by, "committed")

\* A request that has tried to insert sees a row, and one that goes on sees the row it
\* was given: it cannot vanish, being committed or its own.
Served ==
  /\ \A v \in Visit : At(v, "tried") => Seen(v) # {}
  /\ \A v \in Visit : At(v, "served") => \E d \in Seen(v) : d.by = visit[v].given
  /\ \A v \in Visit : At(v, "committed") => \E d \in default : d.committed /\ d.by = visit[v].given
  /\ \A v \in Visit : ~At(v, "unreachable")

DefaultInv == DefaultTypeOK /\ OneRow /\ Served

USE DEF At, Move, Seen, Place

\* In the beginning there is no row.
LEMMA DefaultStart == DefaultInit => DefaultInv
BY DEF DefaultInit, DefaultInv, DefaultTypeOK, OneRow, Served

\* The first SELECT.
LEMMA LookKeeps == ASSUME DefaultInv, NEW v \in Visit, Look(v) PROVE DefaultInv'
<1>1. default' = default
  BY DEF Look, Select
<1>2. DefaultTypeOK'
  <2>1. CASE Seen(v) = {} /\ Move(v, "missed")
    BY <1>1, <2>1 DEF DefaultInv, DefaultTypeOK
  <2>2. CASE \E d \in Seen(v) : visit' = [visit EXCEPT ![v] = [at |-> "served", given |-> d.by]]
    BY <1>1, <2>2 DEF DefaultInv, DefaultTypeOK
  <2> QED
    BY <2>1, <2>2 DEF Look, Select
<1>3. OneRow'
  BY <1>1 DEF Look, Select, DefaultInv, DefaultTypeOK, OneRow
<1>4. Served'
  BY <1>1 DEF Look, Select, DefaultInv, DefaultTypeOK, Served
<1> QED
  BY <1>2, <1>3, <1>4 DEF DefaultInv

\* The INSERT writes a row only if there is none, and otherwise has waited for it.
LEMMA InsertDefaultKeeps == ASSUME DefaultInv, NEW v \in Visit, InsertDefault(v) PROVE DefaultInv'
<1>1. visit' = [visit EXCEPT ![v].at = "tried"] /\ At(v, "missed") /\ Settled(v)
  BY DEF InsertDefault
<1>2. default' = IF default = {} THEN {[by |-> v, committed |-> FALSE]} ELSE default
  BY DEF InsertDefault
<1> DEFINE mine == [by |-> v, committed |-> FALSE]
<1>a. mine \in [by : Visit, committed : BOOLEAN] /\ mine.by = v /\ mine.committed = FALSE
  OBVIOUS
<1> HIDE DEF mine
<1>b. default' = {mine} \/ (default' = default /\ default # {})
  BY <1>2 DEF mine
<1>3. DefaultTypeOK'
  BY <1>1, <1>a, <1>b DEF DefaultInv, DefaultTypeOK
<1>4. OneRow'
  BY <1>1, <1>a, <1>b DEF DefaultInv, DefaultTypeOK, OneRow
<1>5. Seen(v)' # {}
  <2>1. CASE default' = {mine}
    BY <2>1, <1>a
  <2>2. CASE default' = default /\ default # {}
    BY <2>2, <1>1 DEF Settled
  <2> QED
    BY <1>b, <2>1, <2>2
<1>6. \A d \in default : d \in default'
  BY <1>2
<1>7. Served'
  BY <1>1, <1>5, <1>6 DEF DefaultInv, DefaultTypeOK, Served
<1> QED
  BY <1>3, <1>4, <1>7 DEF DefaultInv

\* The second SELECT finds a row.
LEMMA ReselectKeeps == ASSUME DefaultInv, NEW v \in Visit, Reselect(v) PROVE DefaultInv'
<1>1. default' = default /\ At(v, "tried")
  BY DEF Reselect, Select
<1>2. PICK d \in Seen(v) : visit' = [visit EXCEPT ![v] = [at |-> "served", given |-> d.by]]
  BY DEF Reselect, Select, DefaultInv, Served
<1>3. DefaultTypeOK'
  BY <1>1, <1>2 DEF DefaultInv, DefaultTypeOK
<1>4. OneRow'
  BY <1>1, <1>2 DEF DefaultInv, DefaultTypeOK, OneRow
<1>5. Served'
  BY <1>1, <1>2 DEF DefaultInv, DefaultTypeOK, Served
<1> QED
  BY <1>3, <1>4, <1>5 DEF DefaultInv

\* A commit keeps every row.
LEMMA CommitVisitKeeps == ASSUME DefaultInv, NEW v \in Visit, CommitVisit(v) PROVE DefaultInv'
<1>1. visit' = [visit EXCEPT ![v].at = "committed"] /\ At(v, "served")
  BY DEF CommitVisit
<1>2. default' = {[d EXCEPT !.committed = @ \/ d.by = v] : d \in default}
  BY DEF CommitVisit
<1>3. \A d \in default :
         /\ [by |-> d.by, committed |-> (d.committed \/ d.by = v)] \in default'
         /\ d = [by |-> d.by, committed |-> d.committed]
  BY <1>2 DEF DefaultInv, DefaultTypeOK
<1>4. \A e \in default' : \E d \in default :
         e = [by |-> d.by, committed |-> (d.committed \/ d.by = v)]
  BY <1>2 DEF DefaultInv, DefaultTypeOK
<1>5. DefaultTypeOK'
  <2>1. \A e \in default' : e \in [by : Visit, committed : BOOLEAN]
    <3> SUFFICES ASSUME NEW d \in default
                 PROVE  [by |-> d.by, committed |-> (d.committed \/ d.by = v)]
                          \in [by : Visit, committed : BOOLEAN]
      BY <1>4
    <3>1. d.by \in Visit /\ (d.committed \/ d.by = v) \in BOOLEAN
      BY DEF DefaultInv, DefaultTypeOK
    <3> QED
      BY <3>1
  <2> QED
    BY <1>1, <2>1 DEF DefaultInv, DefaultTypeOK
<1>6. OneRow'
  BY <1>1, <1>4 DEF DefaultInv, DefaultTypeOK, OneRow
<1>7. Served'
  <2>1. \A w \in Visit : At(w, "tried") => Seen(w)' # {}
    BY <1>1, <1>3 DEF DefaultInv, DefaultTypeOK, Served
  <2>2. \A w \in Visit : At(w, "served")' => \E d \in Seen(w)' : d.by = visit'[w].given
    BY <1>1, <1>3 DEF DefaultInv, DefaultTypeOK, Served
  <2>3. \A w \in Visit : At(w, "committed")' => \E d \in default' : d.committed /\ d.by = visit'[w].given
    <3> SUFFICES ASSUME NEW w \in Visit, At(w, "committed")'
                 PROVE  \E d \in default' : d.committed /\ d.by = visit'[w].given
      OBVIOUS
    <3>1. visit'[w].given = visit[w].given
      BY <1>1 DEF DefaultInv, DefaultTypeOK
    <3>2. PICK d \in default : (d.committed \/ d.by = v) /\ d.by = visit[w].given
      BY <1>1 DEF DefaultInv, DefaultTypeOK, Served
    <3> QED
      BY <3>1, <3>2, <1>3
  <2> QED
    BY <1>1, <2>1, <2>2, <2>3 DEF DefaultInv, DefaultTypeOK, Served
<1> QED
  BY <1>5, <1>6, <1>7 DEF DefaultInv

\* A rollback takes the request's own row, which nobody else has been given.
LEMMA AbortKeeps == ASSUME DefaultInv, NEW v \in Visit, AbortVisit(v) PROVE DefaultInv'
<1>1. visit' = [visit EXCEPT ![v].at = "aborted"] /\ ~At(v, "committed")
  BY DEF AbortVisit
<1>2. default' = {d \in default : d.by # v}
  BY DEF AbortVisit
<1>3. DefaultTypeOK'
  BY <1>1, <1>2 DEF DefaultInv, DefaultTypeOK
<1>4. OneRow'
  BY <1>1, <1>2 DEF DefaultInv, DefaultTypeOK, OneRow
<1>5. \A w \in Visit \ {v} : Seen(w)' = Seen(w)
  BY <1>1, <1>2 DEF DefaultInv, DefaultTypeOK, OneRow
<1>6. Served'
  BY <1>1, <1>2, <1>5 DEF DefaultInv, DefaultTypeOK, OneRow, Served
<1> QED
  BY <1>3, <1>4, <1>6 DEF DefaultInv

\* Types, one row, and what each request sees, always.
THEOREM DefaultInvariance == DefaultSpec => []DefaultInv
<1>1. DefaultInit => DefaultInv
  BY DefaultStart
<1>2. DefaultInv /\ [DefaultNext]_defaultVars => DefaultInv'
  <2> SUFFICES ASSUME DefaultInv, [DefaultNext]_defaultVars PROVE DefaultInv'
    OBVIOUS
  <2>1. CASE DefaultNext
    BY <2>1, LookKeeps, InsertDefaultKeeps, ReselectKeeps, CommitVisitKeeps, AbortKeeps DEF DefaultNext
  <2>2. CASE UNCHANGED defaultVars
    BY <2>2 DEF defaultVars, DefaultInv, DefaultTypeOK, OneRow, Served
  <2> QED
    BY <2>1, <2>2
<1> QED
  BY <1>1, <1>2, PTL DEF DefaultSpec

\* However many requests overlap and fail, all that go on are given one committed row, and
\* the plain insert at the end of ensure_default_cookbook is never reached.
THEOREM GivenOnce == DefaultSpec => []OneDefaultGiven
<1>1. DefaultInv => OneDefaultGiven
  <2> SUFFICES ASSUME DefaultInv PROVE OneDefaultGiven
    OBVIOUS
  <2>1. \A v \in Visit : visit[v].at \in {"served", "committed"} =>
           \E d \in default : d.by = visit[v].given
    BY DEF DefaultInv, Served
  <2>2. \A v \in Visit : At(v, "committed") => [by |-> visit[v].given, committed |-> TRUE] \in default
    <3> SUFFICES ASSUME NEW v \in Visit, At(v, "committed")
                 PROVE  [by |-> visit[v].given, committed |-> TRUE] \in default
      OBVIOUS
    <3>1. PICK d \in default : d.committed /\ d.by = visit[v].given
      BY DEF DefaultInv, Served
    <3>2. d.committed = TRUE /\ d = [by |-> d.by, committed |-> d.committed]
      BY <3>1 DEF DefaultInv, DefaultTypeOK
    <3> QED
      BY <3>1, <3>2
  <2> QED
    BY <2>1, <2>2 DEF DefaultInv, OneRow, Served, OneDefaultGiven
<1> QED
  BY <1>1, DefaultInvariance, PTL

-----------------------------------------------------------------------------
(* Submission, for any number of overlapping requests, retries and workers,*)
(* and any sources.                                                        *)

\* What a request has read tells what it submits, and only an upload goes near a file.
Sourced ==
  \A p \in Post :
    /\ post[p].at # "new" => post[p].source \in Source
    /\ post[p].at \in {"idle", "missing", "opened", "died"} => post[p].source \in Upload

\* A file that is not whole is being written by the request that truncated it last, or that
\* request died over it ...
Torn ==
  \A k \in Upload : blob[k] \in Post /\ blob[k] # "whole" =>
    post[blob[k]].source = k /\ post[blob[k]].at \in {"opened", "died"}

\* ... and from the moment a request leaves the store there is a file.
FileMade ==
  \A p \in Post : post[p].at \in {"opened", "stored", "end"} /\ post[p].source \in Upload =>
    blob[post[p].source] \in Post \cup {"whole"}

\* Recipes come from jobs.
Brought == \A p \in recipe : job[p] # None

SubmissionInv == SubmissionTypeOK /\ Sourced /\ Torn /\ FileMade /\ Brought /\ SourceOnce

\* Nothing is submitted in the beginning.
LEMMA SubmissionStart == SubmissionInit => SubmissionInv
<1> SUFFICES ASSUME SubmissionInit PROVE SubmissionInv
  OBVIOUS
<1>1. /\ \A p \in Post : post[p].at = "new" /\ post[p].source = None /\ job[p] = None
      /\ post \in [Post -> [at : Step, source : Source \cup {None}]]
  BY DEF SubmissionInit, Step
<1>2. SubmissionTypeOK
  BY <1>1 DEF SubmissionInit, SubmissionTypeOK
<1>3. Sourced /\ Torn /\ FileMade
  BY <1>1, SubmissionAssumption DEF SubmissionInit, Sourced, Torn, FileMade
<1>4. Brought /\ SourceOnce
  BY DEF SubmissionInit, Brought, SourceOnce
<1> QED
  BY <1>2, <1>3, <1>4 DEF SubmissionInv

\* A request that has no job yet moves on.  Recipes and jobs stay as they are, and so does
\* what they are of.
LEMMA PostKeeps ==
  ASSUME SubmissionInv, NEW p \in Post, NEW place \in Step \ {"new", "end"}, NEW s \in Source,
         post[p].at # "end", post[p].at # "new" => s = post[p].source,
         post' = [post EXCEPT ![p] = [at |-> place, source |-> s]],
         place \in {"idle", "missing", "opened", "died"} => s \in Upload,
         UNCHANGED <<job, recipe>>
  PROVE  /\ post' \in [Post -> [at : Step, source : Source \cup {None}]]
         /\ \A q \in Post : job'[q] # None <=> post'[q].at = "end"
         /\ Sourced' /\ Brought' /\ SourceOnce'
<1>1. post \in [Post -> [at : Step, source : Source \cup {None}]]
  BY DEF SubmissionInv, SubmissionTypeOK
<1>2. post' \in [Post -> [at : Step, source : Source \cup {None}]]
  BY <1>1
<1>3. post'[p].at = place /\ post'[p].source = s /\ \A q \in Post \ {p} : post'[q] = post[q]
  BY <1>1
<1>4. \A q \in Post : job'[q] # None <=> post'[q].at = "end"
  BY <1>3 DEF SubmissionInv, SubmissionTypeOK
<1>5. Sourced'
  BY <1>3 DEF SubmissionInv, Sourced
<1>6. Brought'
  BY DEF SubmissionInv, Brought
<1>7. p \notin recipe /\ recipe \subseteq Post
  BY DEF SubmissionInv, Brought, SubmissionTypeOK
<1>8. SourceOnce'
  BY <1>3, <1>7 DEF SubmissionInv, SourceOnce, Twin, Key
<1> QED
  BY <1>2, <1>4, <1>5, <1>6, <1>8

\* What Reach does to the row of a request.
LEMMA Reached ==
  ASSUME SubmissionInv, NEW p \in Post, NEW place, Reach(p, place)
  PROVE  post' = [post EXCEPT ![p] = [at |-> place, source |-> post[p].source]]
<1>1. post \in [Post -> [at : Step, source : Source \cup {None}]]
  BY DEF SubmissionInv, SubmissionTypeOK
<1>2. [post[p] EXCEPT !.at = place] = [at |-> place, source |-> post[p].source]
  BY <1>1
<1>3. post' = [post EXCEPT ![p] = [post[p] EXCEPT !.at = place]]
  BY <1>1 DEF Reach
<1> QED
  BY <1>2, <1>3

\* A request that neither opens nor closes a file leaves the files as they are.
LEMMA FilesKept ==
  ASSUME SubmissionInv, NEW p \in Post, NEW place \in Step \ {"opened", "end"}, NEW s \in Source,
         post[p].at \notin {"opened", "died"},
         post[p].at # "new" => s = post[p].source,
         post' = [post EXCEPT ![p] = [at |-> place, source |-> s]],
         place = "stored" /\ s \in Upload /\ post[p].at # "stored" => blob[s] \in Post \cup {"whole"},
         UNCHANGED blob
  PROVE  blob' \in [Upload -> Post \cup {"whole", None}] /\ Torn' /\ FileMade'
<1>1. post \in [Post -> [at : Step, source : Source \cup {None}]]
  BY DEF SubmissionInv, SubmissionTypeOK
<1>2. post'[p].at = place /\ post'[p].source = s /\ \A q \in Post \ {p} : post'[q] = post[q]
  BY <1>1
<1>3. blob' \in [Upload -> Post \cup {"whole", None}]
  BY DEF SubmissionInv, SubmissionTypeOK
<1>4. Torn'
  BY <1>2 DEF SubmissionInv, Torn
<1>5. FileMade'
  BY <1>2 DEF SubmissionInv, FileMade, SubmissionTypeOK, Step
<1> QED
  BY <1>3, <1>4, <1>5

\* The two checks, and a failure after the file.
LEMMA ChecksKeep == ASSUME SubmissionInv, NEW p \in Post, FindRecipe(p) \/ FindJob(p) \/ AbortPost(p) PROVE SubmissionInv'
<1>1. ASSUME FindRecipe(p) PROVE SubmissionInv'
  <2>1. PICK s \in Source : post[p].at = "new" /\
          post' = [post EXCEPT ![p] =
            [at |-> IF \E q \in recipe : Fingerprint[post[q].source] = Fingerprint[s]
                    THEN "failed" ELSE "unknown", source |-> s]]
    BY <1>1 DEF FindRecipe
  <2>2. PICK place \in {"failed", "unknown"} : post' = [post EXCEPT ![p] = [at |-> place, source |-> s]]
    BY <2>1
  <2>3. UNCHANGED <<job, blob, recipe>>
    BY <1>1 DEF FindRecipe
  <2> QED
    BY <2>1, <2>2, <2>3, PostKeeps, FilesKept DEF SubmissionInv, SubmissionTypeOK, Step
<1>2. ASSUME FindJob(p) PROVE SubmissionInv'
  <2>1. post[p].at = "unknown" /\ UNCHANGED <<job, blob, recipe>>
    BY <1>2 DEF FindJob
  <2>2. PICK place \in {"failed", "idle", "stored"} :
          /\ Reach(p, place)
          /\ place = "idle" => post[p].source \in Upload
          /\ place = "stored" => post[p].source \notin Upload
    BY <1>2 DEF FindJob
  <2>3. post[p].source \in Source
    BY <2>1 DEF SubmissionInv, Sourced
  <2> QED
    BY <2>1, <2>2, <2>3, Reached, PostKeeps, FilesKept DEF SubmissionInv, SubmissionTypeOK, Step
<1>3. ASSUME AbortPost(p) PROVE SubmissionInv'
  <2>1. post[p].at = "stored" /\ UNCHANGED <<job, blob, recipe>> /\ Reach(p, "failed")
    BY <1>3 DEF AbortPost, AfterRollback
  <2>2. post[p].source \in Source
    BY <2>1 DEF SubmissionInv, Sourced
  <2> QED
    BY <2>1, <2>2, Reached, PostKeeps, FilesKept DEF SubmissionInv, SubmissionTypeOK, Step
<1> QED
  BY <1>1, <1>2, <1>3

\* The store looks for the file.
LEMMA SaveFileKeeps == ASSUME SubmissionInv, NEW p \in Post, SaveFile(p) PROVE SubmissionInv'
<1>1. post[p].at = "idle" /\ UNCHANGED <<job, blob, recipe>>
  BY DEF SaveFile
<1>2. PICK place \in {"missing", "stored"} :
        Reach(p, place) /\ (place = "stored" => blob[post[p].source] # None)
  BY DEF SaveFile
<1>3. post[p].source \in Source /\ post[p].source \in Upload
  BY <1>1 DEF SubmissionInv, Sourced
<1>4. place = "stored" => blob[post[p].source] \in Post \cup {"whole"}
  BY <1>2, <1>3 DEF SubmissionInv, SubmissionTypeOK
<1> QED
  BY <1>1, <1>2, <1>3, <1>4, Reached, PostKeeps, FilesKept DEF SubmissionInv, SubmissionTypeOK, Step

\* A file is truncated, written, or left torn.
LEMMA WritingKeeps ==
  ASSUME SubmissionInv, NEW p \in Post, OpenFile(p) \/ CloseFile(p) \/ TearFile(p) PROVE SubmissionInv'
<1>1. post[p].at \in {"missing", "opened"} /\ UNCHANGED <<job, recipe>>
  BY DEF OpenFile, CloseFile, TearFile
<1>2. PICK place \in {"opened", "stored", "died"} :
        /\ Reach(p, place)
        /\ place = "opened" => blob' = [blob EXCEPT ![post[p].source] = p]
        /\ place = "stored" => blob' = [blob EXCEPT ![post[p].source] = IF @ = p THEN "whole" ELSE @]
        /\ place = "died" => blob' = blob
        /\ place \in {"stored", "died"} => post[p].at = "opened"
  BY DEF OpenFile, CloseFile, TearFile
<1> DEFINE k == post[p].source
<1>3. k \in Source /\ k \in Upload
  BY <1>1 DEF SubmissionInv, Sourced
<1>4. post' = [post EXCEPT ![p] = [at |-> place, source |-> k]]
  BY <1>2, Reached
<1>5. post'[p].at = place /\ post'[p].source = k /\ \A q \in Post \ {p} : post'[q] = post[q]
  BY <1>4 DEF SubmissionInv, SubmissionTypeOK
<1>6. blob \in [Upload -> Post \cup {"whole", None}]
  BY DEF SubmissionInv, SubmissionTypeOK
<1> HIDE DEF k
<1>7. /\ blob' \in [Upload -> Post \cup {"whole", None}]
      /\ \A u \in Upload \ {k} : blob'[u] = blob[u]
      /\ blob'[k] = IF place = "opened" THEN p ELSE IF place = "stored" /\ blob[k] = p THEN "whole" ELSE blob[k]
  BY <1>2, <1>3, <1>6 DEF k
<1>8. Torn'
  BY <1>2, <1>3, <1>5, <1>7 DEF SubmissionInv, Torn, k
<1>9. FileMade'
  <2>1. blob[k] \in Post \cup {"whole"} \/ place = "opened"
    BY <1>2, <1>3 DEF SubmissionInv, FileMade, k
  <2>2. \A u \in Upload : blob[u] \in Post \cup {"whole"} => blob'[u] \in Post \cup {"whole"}
    BY <1>7
  <2>3. blob'[k] \in Post \cup {"whole"}
    BY <1>7, <2>1
  <2> QED
    BY <1>5, <2>2, <2>3 DEF SubmissionInv, FileMade
<1>10. /\ post' \in [Post -> [at : Step, source : Source \cup {None}]]
       /\ \A q \in Post : job'[q] # None <=> post'[q].at = "end"
       /\ Sourced' /\ Brought' /\ SourceOnce'
  <2>1. place \in Step \ {"new", "end"}
    BY DEF Step
  <2>2. post[p].at # "end" /\ k = post[p].source
    BY <1>1 DEF k
  <2> QED
    BY <1>1, <1>3, <1>4, <2>1, <2>2, PostKeeps
<1> QED
  BY <1>1, <1>7, <1>8, <1>9, <1>10 DEF SubmissionInv, SubmissionTypeOK

\* The commit: a job of a source that is known, without a recipe yet.
LEMMA CommitJobKeeps == ASSUME SubmissionInv, NEW p \in Post, CommitJob(p) PROVE SubmissionInv'
<1>1. /\ post[p].at = "stored" /\ UNCHANGED <<blob, recipe>> /\ Reach(p, "end")
      /\ job' = [job EXCEPT ![p] = "queued"]
  BY DEF CommitJob
<1>2. /\ post \in [Post -> [at : Step, source : Source \cup {None}]]
      /\ job \in [Post -> Status \cup {None}]
  BY DEF SubmissionInv, SubmissionTypeOK
<1>3. /\ post'[p].at = "end" /\ post'[p].source = post[p].source
      /\ \A q \in Post \ {p} : post'[q] = post[q]
      /\ post' \in [Post -> [at : Step, source : Source \cup {None}]]
  BY <1>1, <1>2 DEF Reach, Step
<1>4. /\ job' \in [Post -> Status \cup {None}] /\ job'[p] = "queued" /\ "queued" # None
      /\ \A q \in Post \ {p} : job'[q] = job[q]
  BY <1>1, <1>2, SubmissionAssumption DEF Status
<1>5. SubmissionTypeOK'
  BY <1>1, <1>3, <1>4 DEF SubmissionInv, SubmissionTypeOK
<1>6. Sourced'
  BY <1>1, <1>3 DEF SubmissionInv, Sourced
<1>7. Torn'
  BY <1>1, <1>3 DEF SubmissionInv, Torn
<1>8. FileMade'
  BY <1>1, <1>3 DEF SubmissionInv, FileMade
<1>9. Brought'
  BY <1>1, <1>4 DEF SubmissionInv, Brought, SubmissionTypeOK
<1>10. SourceOnce'
  BY <1>1, <1>3 DEF SubmissionInv, SourceOnce, SubmissionTypeOK, Twin, Key
<1> QED
  BY <1>5, <1>6, <1>7, <1>8, <1>9, <1>10 DEF SubmissionInv

\* Worker and user move a job on; the recipes that exist still come from jobs.
LEMMA ProgressKeeps ==
  ASSUME SubmissionInv, NEW p \in Post, NEW status \in Status, Progress(p, status), job[p] # None,
         UNCHANGED <<post, blob>>, recipe' \subseteq recipe \cup {p}, SourceOnce'
  PROVE  SubmissionInv'
<1>1. job \in [Post -> Status \cup {None}]
  BY DEF SubmissionInv, SubmissionTypeOK
<1>2. /\ job' \in [Post -> Status \cup {None}] /\ job'[p] # None
      /\ \A q \in Post \ {p} : job'[q] = job[q]
  BY <1>1, SubmissionAssumption DEF Progress, Status
<1>3. SubmissionTypeOK' /\ Brought'
  BY <1>2 DEF SubmissionInv, SubmissionTypeOK, Brought
<1>4. Sourced' /\ Torn' /\ FileMade'
  BY DEF SubmissionInv, Sourced, Torn, FileMade
<1> QED
  BY <1>3, <1>4 DEF SubmissionInv

\* Fewer recipes are not more of one source.
LEMMA FewerOnce == ASSUME SubmissionInv, recipe' \subseteq recipe, UNCHANGED post PROVE SourceOnce'
BY DEF SubmissionInv, SourceOnce, Twin, Key

\* The index refuses a second recipe of a source.
LEMMA InsertRecipeKeeps == ASSUME SubmissionInv, NEW p \in Post, InsertRecipe(p) PROVE SubmissionInv'
<1>1. job[p] = "checked" /\ job[p] # None /\ UNCHANGED <<post, blob>>
  BY SubmissionAssumption DEF InsertRecipe
<1>2. CASE Conflict(p)
  BY <1>1, <1>2, FewerOnce, ProgressKeeps DEF InsertRecipe, Status
<1>3. CASE ~Conflict(p)
  <2>1. recipe' = recipe \cup {p} /\ Progress(p, "needs_review")
    BY <1>3 DEF InsertRecipe
  <2>2. post[p].source # None /\ \A q \in recipe : post[q].source # None
    BY <1>1, SubmissionAssumption DEF SubmissionInv, SubmissionTypeOK, Sourced, Brought
  <2>3. SourceOnce'
    BY <1>1, <1>3, <2>1, <2>2 DEF SubmissionInv, SourceOnce, Conflict, Twin, Key
  <2> QED
    BY <1>1, <2>1, <2>3, ProgressKeeps DEF Status
<1> QED
  BY <1>2, <1>3

\* The other steps bring no recipe.
LEMMA OtherKeep ==
  ASSUME SubmissionInv, NEW p \in Post, CheckSource(p) \/ Review(p) \/ RetryFailed(p) \/ DeleteAccepted(p)
  PROVE  SubmissionInv'
<1>1. recipe' \subseteq recipe /\ UNCHANGED <<post, blob>>
  BY DEF CheckSource, Review, RetryFailed, DeleteAccepted
<1>2. SourceOnce'
  BY <1>1, FewerOnce
<1>3. CASE CheckSource(p) \/ Review(p) \/ RetryFailed(p)
  <2>1. PICK status \in Status : Progress(p, status)
    BY <1>3 DEF CheckSource, Review, RetryFailed, Status
  <2>2. job[p] # None
    BY <1>3, SubmissionAssumption DEF CheckSource, Review, RetryFailed
  <2> QED
    BY <1>1, <1>2, <2>1, <2>2, ProgressKeeps
<1>4. CASE DeleteAccepted(p)
  BY <1>1, <1>2, <1>4 DEF DeleteAccepted, SubmissionInv, SubmissionTypeOK, Sourced, Torn, FileMade, Brought
<1> QED
  BY <1>3, <1>4

\* Types, files and recipes, always.
THEOREM SubmissionInvariance == SubmissionSpec => []SubmissionInv
<1>1. SubmissionInit => SubmissionInv
  BY SubmissionStart
<1>2. SubmissionInv /\ [SubmissionNext]_submissionVars => SubmissionInv'
  <2> SUFFICES ASSUME SubmissionInv, [SubmissionNext]_submissionVars PROVE SubmissionInv'
    OBVIOUS
  <2>1. CASE SubmissionNext
    BY <2>1, ChecksKeep, SaveFileKeeps, WritingKeeps, CommitJobKeeps, InsertRecipeKeeps, OtherKeep
       DEF SubmissionNext
  <2>2. CASE UNCHANGED submissionVars
    BY <2>2 DEF submissionVars, SubmissionInv, SubmissionTypeOK, Sourced, Torn, FileMade, Brought, SourceOnce,
                Twin, Key
  <2> QED
    BY <2>1, <2>2
<1> QED
  BY <1>1, <1>2, PTL DEF SubmissionSpec

\* Whatever submissions and retries overlap, one source brings one recipe at a time.
THEOREM OneRecipe == SubmissionSpec => []SourceOnce
BY SubmissionInvariance, PTL DEF SubmissionInv

\* A job names a whole file, one that is being written, or one a dead request left torn.
THEOREM FilesThere == SubmissionSpec => []FilesReadBack
<1>1. SubmissionInv => FilesReadBack
  BY DEF SubmissionInv, SubmissionTypeOK, Torn, FileMade, FilesReadBack
<1> QED
  BY <1>1, SubmissionInvariance, PTL

-----------------------------------------------------------------------------
(* RecipeList, for any recipes, times and page size.  A walk by limit and  *)
(* offset is right because the order is total: the place of a recipe is    *)
(* the number of recipes before it.                                        *)

\* The recipes a list shows before r; what the walk has met; met once.
Before(r) == {s \in Listed(entry) : Newer(s, r)}
Met == {walk.seen[i] : i \in DOMAIN walk.seen}
Unrepeated == \A i, j \in DOMAIN walk.seen : i # j => walk.seen[i] # walk.seen[j]

\* Of the recipes listed all along, those with fewer than offset recipes before them are met, as
\* long as none left; of what is met, each has fewer than offset before it, as long as none came.
WalkInv ==
  /\ ListTypeOK
  /\ walk.steady \subseteq Listed(entry)
  /\ ~walk.went => \A r \in walk.steady : r \in Met \/ walk.offset <= Cardinality(Before(r))
  /\ ~walk.came => /\ \A r \in Met : r \in Listed(entry) => Cardinality(Before(r)) < walk.offset
                   /\ Unrepeated
  /\ walk.over /\ ~walk.went => walk.steady \subseteq Met

\* What is listed is finite, and so is what comes before a recipe.
LEMMA Finite ==
  ASSUME WalkInv
  PROVE  /\ IsFiniteSet(Listed(entry)) /\ Cardinality(Listed(entry)) \in Nat
         /\ \A r : IsFiniteSet(Before(r)) /\ Cardinality(Before(r)) \in Nat
<1>1. IsFiniteSet(Listed(entry))
  BY ListAssumption, FS_Subset DEF Listed
<1>2. ASSUME NEW r PROVE IsFiniteSet(Before(r))
  BY <1>1, FS_Subset DEF Before
<1> QED  BY <1>1, <1>2, FS_CardinalityType

\* Whatever becomes of the rows, as long as a listed one keeps its created_at.
LEMMA WatchKeeps ==
  ASSUME WalkInv, NEW rows \in [Entry -> [created : Time, on : SUBSET Ground] \cup {None}],
         Watch(rows),
         \A r \in Entry : entry[r] # None /\ rows[r] # None => rows[r].created = entry[r].created
  PROVE  WalkInv'
<1> DEFINE new == Listed(rows)
           old == Listed(entry)
<1>1. /\ ~walk.over /\ entry' = rows
      /\ walk' = [walk EXCEPT !.steady = @ \cap new,
                              !.came = @ \/ ~(new \subseteq old),
                              !.went = @ \/ ~(old \subseteq new)]
  BY DEF Watch
<1>2. walk \in [offset : Nat, seen : Seq(Entry), steady : SUBSET Entry, came : BOOLEAN,
                went : BOOLEAN, over : BOOLEAN]
  BY DEF WalkInv, ListTypeOK
<1>3. /\ walk' \in [offset : Nat, seen : Seq(Entry), steady : SUBSET Entry, came : BOOLEAN,
                    went : BOOLEAN, over : BOOLEAN]
      /\ walk'.steady = walk.steady \cap new /\ walk'.offset = walk.offset
      /\ walk'.seen = walk.seen /\ walk'.over = walk.over
      /\ ~walk'.came => ~walk.came /\ new \subseteq old
      /\ ~walk'.went => ~walk.went /\ old \subseteq new
  BY <1>1, <1>2
<1>4. /\ Listed(entry)' = new /\ ListTypeOK' /\ Met' = Met /\ Unrepeated' = Unrepeated
  <2>1. Listed(entry)' = new
    BY <1>1 DEF Listed
  <2>2. ListTypeOK'
    BY <1>1, <1>3 DEF ListTypeOK
  <2>3. Met' = Met
    BY <1>3 DEF Met
  <2>4. Unrepeated' = Unrepeated
    BY <1>3 DEF Unrepeated
  <2> QED  BY <2>1, <2>2, <2>3, <2>4
<1>5. \A r \in new \cap old : r \in Entry /\ rows[r].created = entry[r].created
  BY DEF Listed
<1>6. \A r, s \in new \cap old : Newer(s, r)' <=> Newer(s, r)
  BY <1>1, <1>5 DEF Newer
<1>7. \A r \in Entry : Before(r)' = {s \in new : Newer(s, r)'}
  BY <1>4 DEF Before
<1>8. /\ IsFiniteSet(new) /\ IsFiniteSet(old)
      /\ \A r : IsFiniteSet(Before(r)) /\ Cardinality(Before(r)) \in Nat
      /\ \A r \in Entry : IsFiniteSet(Before(r)') /\ Cardinality(Before(r)') \in Nat
  <2>1. IsFiniteSet(new) /\ IsFiniteSet(old)
    BY ListAssumption, FS_Subset DEF Listed
  <2>2. ASSUME NEW r \in Entry PROVE IsFiniteSet(Before(r)') /\ Cardinality(Before(r)') \in Nat
    BY <1>7, <2>1, FS_Subset, FS_CardinalityType
  <2> QED  BY <2>1, <2>2, Finite
<1> HIDE DEF new, old
<1>9. ~walk'.went => \A r \in walk'.steady : r \in Met' \/ walk'.offset <= Cardinality(Before(r)')
  <2> SUFFICES ASSUME ~walk'.went, NEW r \in walk'.steady, r \notin Met
               PROVE  walk'.offset <= Cardinality(Before(r)')
    BY <1>4
  <2>1. r \in new \cap old /\ r \in Entry /\ walk.offset <= Cardinality(Before(r))
    BY <1>3, <1>5 DEF WalkInv, old
  <2>2. Before(r) \subseteq Before(r)'
    BY <1>3, <1>6, <1>7, <2>1 DEF Before, old
  <2>3. Cardinality(Before(r)) <= Cardinality(Before(r)')
    BY <1>8, <2>1, <2>2, FS_Subset
  <2> QED  BY <1>2, <1>3, <1>8, <2>1, <2>3
<1>10. ~walk'.came => \A r \in Met' : r \in new => Cardinality(Before(r)') < walk'.offset
  <2> SUFFICES ASSUME ~walk'.came, NEW r \in Met, r \in new
               PROVE  Cardinality(Before(r)') < walk'.offset
    BY <1>4
  <2>1. r \in new \cap old /\ r \in Entry /\ Cardinality(Before(r)) < walk.offset
    BY <1>3, <1>5 DEF WalkInv, old
  <2>2. Before(r)' \subseteq Before(r)
    BY <1>3, <1>6, <1>7, <2>1 DEF Before, old
  <2>3. Cardinality(Before(r)') <= Cardinality(Before(r))
    BY <1>8, <2>2, FS_Subset
  <2> QED  BY <1>2, <1>3, <1>8, <2>1, <2>3
<1> QED  BY <1>1, <1>3, <1>4, <1>9, <1>10 DEF WalkInv

\* In any order of the database, as many recipes come before the i-th as i - 1.
LEMMA Places ==
  ASSUME WalkInv, NEW s \in Orders
  PROVE  LET n == Cardinality(Listed(entry))
         IN  /\ n \in Nat /\ s \in [1..n -> Listed(entry)]
             /\ \A i, j \in 1..n : i # j => s[i] # s[j]
             /\ \A r \in Listed(entry) : \E i \in 1..n : s[i] = r
             /\ \A i \in 1..n : Cardinality(Before(s[i])) = i - 1
<1> DEFINE n == Cardinality(Listed(entry))
<1>1. /\ n \in Nat /\ IsFiniteSet(Listed(entry)) /\ s \in [1..n -> Listed(entry)]
      /\ \A i, j \in 1..n : i < j => s[i] # s[j] /\ Newer(s[i], s[j])
  BY Finite DEF Orders
<1> HIDE DEF n
<1>2. \A i, j \in 1..n : i # j => s[i] # s[j]
  <2>1. \A i, j \in 1..n : i # j => i < j \/ j < i
    BY <1>1
  <2> QED  BY <1>1, <2>1
<1>3. \A r \in Listed(entry) : \E i \in 1..n : s[i] = r
  <2>1. s \in Injection(1..n, Listed(entry))
    BY <1>1, <1>2 DEF Injection, IsInjective
  <2>2. Cardinality(1..n) = n
    BY <1>1, FS_Interval
  <2>3. s \in Surjection(1..n, Listed(entry))
    BY <1>1, <2>1, <2>2, FS_Injection DEF n
  <2> QED  BY <2>3 DEF Surjection
<1>4. ASSUME NEW i \in 1..n PROVE Cardinality(Before(s[i])) = i - 1
  <2>1. \A r \in Listed(entry) : r \in Nat /\ entry[r].created \in Nat
    BY ListAssumption DEF Listed, WalkInv, ListTypeOK
  <2>2. \A r, q \in Listed(entry) : Newer(r, q) => ~Newer(q, r) /\ r # q
    BY <2>1 DEF Newer
  <2>3. Before(s[i]) = {s[j] : j \in 1..(i - 1)}
    <3>1. ASSUME NEW r \in Before(s[i]) PROVE \E j \in 1..(i - 1) : r = s[j]
      <4>1. PICK j \in 1..n : s[j] = r
        BY <1>3 DEF Before
      <4>2. Newer(s[j], s[i]) /\ s[i] \in Listed(entry) /\ s[j] \in Listed(entry)
        BY <1>1, <4>1 DEF Before
      <4>3. ~(i < j) /\ i # j
        BY <1>1, <2>2, <4>2
      <4> QED  BY <1>1, <4>1, <4>3
    <3>2. ASSUME NEW j \in 1..(i - 1) PROVE s[j] \in Before(s[i])
      BY <1>1 DEF Before
    <3> QED  BY <3>1, <3>2
  <2> DEFINE f == [j \in 1..(i - 1) |-> s[j]]
  <2>4. f \in Bijection(1..(i - 1), Before(s[i]))
    BY <1>1, <1>2, <2>3 DEF Bijection, Injection, Surjection, IsInjective
  <2>5. Cardinality(1..(i - 1)) = i - 1 /\ IsFiniteSet(1..(i - 1))
    BY <1>1, FS_Interval
  <2> QED  BY <2>4, <2>5, FS_Bijection DEF ExistsBijection
<1> QED  BY <1>1, <1>2, <1>3, <1>4 DEF n

\* A page is the part of the order from the offset on.
LEMMA FetchKeeps == ASSUME WalkInv, FetchPage PROVE WalkInv'
<1> DEFINE n == Cardinality(Listed(entry))
           o == walk.offset
           up == IF o + PageSize < n THEN o + PageSize ELSE n
           seen == walk.seen
<1>1. PICK s \in Orders :
        LET page == SubSeq(s, walk.offset + 1,
                           IF walk.offset + PageSize < Len(s) THEN walk.offset + PageSize ELSE Len(s))
        IN  walk' = [walk EXCEPT !.offset = @ + PageSize, !.seen = @ \o page,
                                 !.over = Len(page) < PageSize]
  BY DEF FetchPage
<1>2. /\ n \in Nat /\ s \in [1..n -> Listed(entry)]
      /\ \A i, j \in 1..n : i # j => s[i] # s[j]
      /\ \A r \in Listed(entry) : \E i \in 1..n : s[i] = r
      /\ \A i \in 1..n : Cardinality(Before(s[i])) = i - 1
  BY Places
<1>3. Len(s) = n
  BY <1>2
<1> DEFINE page == SubSeq(s, o + 1, up)
<1>4. /\ walk \in [offset : Nat, seen : Seq(Entry), steady : SUBSET Entry, came : BOOLEAN,
                  went : BOOLEAN, over : BOOLEAN]
      /\ o \in Nat /\ PageSize \in Nat /\ PageSize > 0 /\ Listed(entry) \subseteq Entry
  BY ListAssumption DEF WalkInv, ListTypeOK, Listed
<1>5. walk' = [walk EXCEPT !.offset = @ + PageSize, !.seen = @ \o page, !.over = Len(page) < PageSize]
  BY <1>1, <1>3
<1> HIDE DEF n, o
<1>6. up \in Nat /\ up <= n /\ up <= o + PageSize /\ (up < n => up = o + PageSize)
  BY <1>2, <1>4
<1> HIDE DEF up
<1>7. /\ page \in Seq(Entry) /\ Len(page) = IF o + 1 <= up THEN up - o ELSE 0
      /\ \A k \in 1..Len(page) : page[k] = s[o + k] /\ o + k \in 1..n /\ o + k <= up
      /\ \A i \in 1..n : o < i /\ i <= up => i - o \in 1..Len(page) /\ page[i - o] = s[i]
  <2>1. \A i \in (o + 1)..up : s[i] \in Entry
    BY <1>2, <1>4, <1>6
  <2>2. o + 1 \in Int /\ up \in Int
    BY <1>4, <1>6
  <2>3. /\ page \in Seq(Entry) /\ Len(page) = IF o + 1 <= up THEN up - (o + 1) + 1 ELSE 0
        /\ \A k \in 1..(up - (o + 1) + 1) : page[k] = s[o + 1 + k - 1]
    BY <2>1, <2>2, SubSeqProperties
  <2> HIDE DEF page
  <2>4. Len(page) = IF o + 1 <= up THEN up - o ELSE 0
    BY <1>4, <1>6, <2>3
  <2>5. ASSUME NEW k \in 1..Len(page) PROVE page[k] = s[o + k] /\ o + k \in 1..n /\ o + k <= up
    BY <1>2, <1>4, <1>6, <2>3, <2>4
  <2>6. ASSUME NEW i \in 1..n, o < i, i <= up PROVE i - o \in 1..Len(page) /\ page[i - o] = s[i]
    <3>1. i - o \in 1..Len(page) /\ o + (i - o) = i
      BY <1>2, <1>4, <1>6, <2>4, <2>6
    <3> QED  BY <2>5, <3>1
  <2> QED  BY <2>3, <2>4, <2>5, <2>6
<1> HIDE DEF page
<1>8. /\ walk' \in [offset : Nat, seen : Seq(Entry), steady : SUBSET Entry, came : BOOLEAN,
                   went : BOOLEAN, over : BOOLEAN]
      /\ walk'.steady = walk.steady /\ walk'.offset = o + PageSize
      /\ walk'.seen = seen \o page /\ walk'.over = (Len(page) < PageSize)
      /\ walk'.came = walk.came /\ walk'.went = walk.went
  <2>1. seen \o page \in Seq(Entry)
    BY <1>4, <1>7, ConcatProperties
  <2>2. o + PageSize \in Nat
    BY <1>4
  <2> DEFINE more == seen \o page
             off == o + PageSize
             end == Len(page) < PageSize
  <2>3. more \in Seq(Entry) /\ off \in Nat /\ end \in BOOLEAN
        /\ walk' = [walk EXCEPT !.offset = off, !.seen = more, !.over = end]
    BY <1>5, <2>1, <2>2 DEF o
  <2> HIDE DEF more, off, end
  <2>4. /\ walk' \in [offset : Nat, seen : Seq(Entry), steady : SUBSET Entry, came : BOOLEAN,
                     went : BOOLEAN, over : BOOLEAN]
        /\ walk'.steady = walk.steady /\ walk'.offset = off
        /\ walk'.seen = more /\ walk'.over = end
        /\ walk'.came = walk.came /\ walk'.went = walk.went
    BY <1>4, <2>3
  <2> QED  BY <2>4 DEF more, off, end
<1>9. /\ entry' = entry /\ Listed(entry)' = Listed(entry) /\ \A r : Before(r)' = Before(r)
      /\ ~walk.over
  BY DEF FetchPage, Listed, Before, Newer
<1>10. /\ Len(seen \o page) = Len(seen) + Len(page)
       /\ \A i \in 1..Len(seen) + Len(page) :
            (seen \o page)[i] = IF i <= Len(seen) THEN seen[i] ELSE page[i - Len(seen)]
       /\ Len(seen) \in Nat /\ Len(page) \in Nat
       /\ DOMAIN seen = 1..Len(seen) /\ DOMAIN walk'.seen = 1..(Len(seen) + Len(page))
  <2>1. seen \in Seq(Entry) /\ walk'.seen \in Seq(Entry)
    BY <1>4, <1>8
  <2> HIDE DEF seen
  <2> QED  BY <1>7, <1>8, <2>1, ConcatProperties
\* What is met now: what was met before, and the places of the page.
<1>11. ASSUME NEW r \in Met'
       PROVE  r \in Met \/ \E i \in 1..n : r = s[i] /\ o < i /\ i <= up
  <2>1. PICK k \in 1..(Len(seen) + Len(page)) : r = (seen \o page)[k]
    BY <1>8, <1>10 DEF Met
  <2>2. CASE k <= Len(seen)
    BY <1>10, <2>1, <2>2 DEF Met
  <2>3. CASE ~(k <= Len(seen))
    <3>1. k - Len(seen) \in 1..Len(page) /\ r = page[k - Len(seen)]
      BY <1>10, <2>1, <2>3
    <3>2. /\ r = s[o + (k - Len(seen))] /\ o + (k - Len(seen)) \in 1..n
          /\ o + (k - Len(seen)) <= up /\ o < o + (k - Len(seen))
      BY <1>4, <1>7, <1>10, <3>1
    <3> QED  BY <3>2
  <2> QED  BY <2>2, <2>3
<1>12. ASSUME NEW i \in 1..n, o < i, i <= up PROVE s[i] \in Met'
  <2> DEFINE k == Len(seen) + (i - o)
  <2>1. k \in 1..(Len(seen) + Len(page)) /\ ~(k <= Len(seen)) /\ k - Len(seen) = i - o
    <3> DEFINE l == Len(seen)
               g == Len(page)
    <3>1. l \in Nat /\ g = up - o /\ up \in Nat /\ o \in Nat /\ o <= up
      <4>1. o \in Nat /\ up \in Nat
        BY <1>4, <1>6
      <4>2. o + 1 <= up
        BY <1>2, <1>12, <4>1
      <4>3. g = IF o + 1 <= up THEN up - o ELSE 0
        BY <1>7
      <4>4. l \in Nat
        BY <1>10
      <4> HIDE DEF l, g
      <4> QED  BY <4>1, <4>2, <4>3, <4>4
    <3> HIDE DEF l, g
    <3>2. i \in Nat /\ o < i /\ i <= up
      BY <1>12
    <3>3. l + (i - o) \in 1..(l + g) /\ ~(l + (i - o) <= l) /\ l + (i - o) - l = i - o
      BY <3>1, <3>2
    <3> QED  BY <3>1, <3>2, <3>3 DEF l, g, k
  <2>2. (seen \o page)[k] = s[i]
    BY <1>7, <1>10, <1>12, <2>1
  <2> HIDE DEF k
  <2> QED  BY <1>8, <1>10, <2>1, <2>2 DEF Met
<1>13. Met \subseteq Met'
  <2> SUFFICES ASSUME NEW i \in 1..Len(seen) PROVE seen[i] \in Met'
    BY <1>10 DEF Met
  <2>1. i \in 1..(Len(seen) + Len(page)) /\ (seen \o page)[i] = seen[i]
    BY <1>10
  <2> QED  BY <1>8, <1>10, <2>1 DEF Met
<1>14. ASSUME ~walk.went, NEW r \in walk.steady
       PROVE  /\ r \in Met' \/ o + PageSize <= Cardinality(Before(r))
              /\ Len(page) < PageSize => r \in Met'
  <2>1. CASE r \in Met
    BY <1>13, <2>1
  <2>2. CASE r \notin Met
    <3>1. o <= Cardinality(Before(r)) /\ r \in Listed(entry)
      BY <1>14, <2>2 DEF WalkInv, o
    <3>2. PICK i \in 1..n : s[i] = r
      BY <1>2, <3>1
    <3>3. Cardinality(Before(r)) = i - 1 /\ o < i
      BY <1>2, <1>4, <3>1, <3>2
    <3>4. CASE i <= up
      BY <1>12, <3>2, <3>3, <3>4
    <3>5. CASE ~(i <= up)
      <4>1. up = o + PageSize /\ o + PageSize <= i - 1 /\ ~(Len(page) < PageSize)
        BY <1>2, <1>4, <1>6, <1>7, <3>5
      <4> QED  BY <3>3, <4>1
    <3> QED  BY <3>4, <3>5
  <2> QED  BY <2>1, <2>2
<1>15. ASSUME ~walk.came, NEW r \in Met', r \in Listed(entry)
       PROVE  Cardinality(Before(r)) < o + PageSize
  <2>1. CASE r \in Met
    <3>1. Cardinality(Before(r)) < o /\ Cardinality(Before(r)) \in Nat
      BY <1>15, <2>1, Finite DEF WalkInv, o
    <3> QED  BY <1>4, <3>1
  <2>2. CASE \E i \in 1..n : r = s[i] /\ o < i /\ i <= up
    BY <1>2, <1>4, <1>6, <2>2
  <2> QED  BY <1>11, <2>1, <2>2
<1>16. ASSUME ~walk.came PROVE Unrepeated'
  <2>1. ASSUME NEW i \in 1..Len(seen), NEW k \in 1..Len(page) PROVE seen[i] # page[k]
    <3>1. page[k] = s[o + k] /\ o + k \in 1..n
      BY <1>7
    <3>2. page[k] \in Listed(entry) /\ Cardinality(Before(page[k])) = o + k - 1
      <4>1. \A p \in 1..n : s[p] \in Listed(entry) /\ Cardinality(Before(s[p])) = p - 1
        BY <1>2
      <4>2. PICK p \in 1..n : p = o + k
        BY <3>1
      <4>3. page[k] = s[p]
        BY <3>1, <4>2
      <4>4. s[p] \in Listed(entry) /\ Cardinality(Before(s[p])) = p - 1
        BY <4>1
      <4>5. Cardinality(Before(page[k])) = p - 1
        BY <4>3, <4>4
      <4>6. p - 1 = o + k - 1
        BY <1>2, <1>4, <4>2
      <4> QED  BY <4>3, <4>4, <4>5, <4>6
    <3>3. \A r \in Met : r \in Listed(entry) => Cardinality(Before(r)) < o
      BY <1>16 DEF WalkInv, o
    <3>4. ~(o + k - 1 < o)
      BY <1>4, <1>10
    <3>5. seen[i] \in Met
      BY <1>10 DEF Met
    <3> QED  BY <3>2, <3>3, <3>4, <3>5
  <2>2. ASSUME NEW i \in 1..Len(seen), NEW j \in 1..Len(seen), i # j PROVE seen[i] # seen[j]
    BY <1>10, <1>16, <2>2 DEF WalkInv, Unrepeated
  <2>3. ASSUME NEW i \in 1..Len(page), NEW j \in 1..Len(page), i # j PROVE page[i] # page[j]
    <3>1. o + i # o + j
      BY <1>4, <1>10, <2>3
    <3> QED  BY <1>2, <1>7, <3>1
  <2> SUFFICES ASSUME NEW i \in 1..(Len(seen) + Len(page)), NEW j \in 1..(Len(seen) + Len(page)), i # j
               PROVE  (seen \o page)[i] # (seen \o page)[j]
    BY <1>8, <1>10 DEF Unrepeated
  <2> DEFINE Old(k) == k \in 1..Len(seen) /\ (seen \o page)[k] = seen[k]
             New(k) == k - Len(seen) \in 1..Len(page) /\ (seen \o page)[k] = page[k - Len(seen)]
  <2>4. ASSUME NEW k \in 1..(Len(seen) + Len(page)) PROVE Old(k) \/ New(k)
    <3>1. CASE k <= Len(seen)
      BY <1>10, <3>1
    <3>2. CASE ~(k <= Len(seen))
      BY <1>10, <3>2
    <3> QED  BY <3>1, <3>2
  <2>5. i - Len(seen) # j - Len(seen)
    BY <1>10
  <2>6. CASE Old(i) /\ Old(j)
    BY <2>2, <2>6
  <2>7. CASE New(i) /\ New(j)
    BY <2>3, <2>5, <2>7
  <2>8. CASE (Old(i) /\ New(j)) \/ (New(i) /\ Old(j))
    BY <2>1, <2>8
  <2> HIDE DEF Old, New
  <2> QED  BY <2>4, <2>6, <2>7, <2>8
<1>17. ListTypeOK'
  BY <1>8, <1>9 DEF WalkInv, ListTypeOK
<1> QED  BY <1>8, <1>9, <1>14, <1>15, <1>16, <1>17 DEF WalkInv

\* A page, or a change of the rows between two pages.
LEMMA ListStep == WalkInv /\ [ListNext]_listVars => WalkInv'
<1> SUFFICES ASSUME WalkInv, [ListNext]_listVars PROVE WalkInv'
  OBVIOUS
<1>0. entry \in [Entry -> [created : Time, on : SUBSET Ground] \cup {None}]
  BY DEF WalkInv, ListTypeOK
<1>1. CASE AddEntry
  <2>1. PICK r \in Entry, t \in Time, on \in SUBSET Ground :
          entry[r] = None /\ Watch([entry EXCEPT ![r] = [created |-> t, on |-> on]])
    BY <1>1 DEF AddEntry
  <2> DEFINE rows == [entry EXCEPT ![r] = [created |-> t, on |-> on]]
  <2>2. rows \in [Entry -> [created : Time, on : SUBSET Ground] \cup {None}]
    BY <1>0
  <2>3. \A q \in Entry : entry[q] # None => rows[q].created = entry[q].created
    BY <1>0, <2>1
  <2>4. Watch(rows)
    BY <2>1
  <2> HIDE DEF rows
  <2> QED  BY <2>2, <2>3, <2>4, WatchKeeps
<1>2. CASE Regrade
  <2>1. PICK r \in Entry, on \in SUBSET Ground :
          entry[r] # None /\ Watch([entry EXCEPT ![r].on = on])
    BY <1>2 DEF Regrade
  <2> DEFINE rows == [entry EXCEPT ![r].on = on]
  <2>2. /\ rows \in [Entry -> [created : Time, on : SUBSET Ground] \cup {None}]
        /\ \A q \in Entry : entry[q] # None => rows[q].created = entry[q].created
    BY <1>0, <2>1
  <2>4. Watch(rows)
    BY <2>1
  <2> HIDE DEF rows
  <2> QED  BY <2>2, <2>4, WatchKeeps
<1>3. CASE DropEntry
  <2>1. PICK r \in Entry : entry[r] # None /\ Watch([entry EXCEPT ![r] = None])
    BY <1>3 DEF DropEntry
  <2> DEFINE rows == [entry EXCEPT ![r] = None]
  <2>2. rows \in [Entry -> [created : Time, on : SUBSET Ground] \cup {None}]
    BY <1>0
  <2>3. \A q \in Entry : entry[q] # None /\ rows[q] # None => rows[q].created = entry[q].created
    BY <1>0
  <2>4. Watch(rows)
    BY <2>1
  <2> HIDE DEF rows
  <2> QED  BY <2>2, <2>3, <2>4, WatchKeeps
<1>4. CASE UNCHANGED listVars
  <2>1. entry' = entry /\ walk' = walk
    BY <1>4 DEF listVars
  <2>2. \A r : Before(r)' = Before(r)
    BY <2>1 DEF Before, Listed, Newer
  <2>3. Met' = Met /\ (Unrepeated <=> Unrepeated')
    BY <2>1 DEF Met, Unrepeated
  <2>4. Listed(entry)' = Listed(entry) /\ ListTypeOK'
    BY <2>1 DEF Listed, WalkInv, ListTypeOK
  <2> QED  BY <2>1, <2>2, <2>3, <2>4 DEF WalkInv
<1> QED  BY <1>1, <1>2, <1>3, <1>4, FetchKeeps DEF ListNext

\* Where the recipes listed all along are, between the pages fetched and those to come.
THEOREM WalkInvariance == ListSpec => []WalkInv
<1>1. ListInit => WalkInv
  <2> SUFFICES ASSUME ListInit PROVE WalkInv
    OBVIOUS
  <2>1. /\ walk = NewWalk(entry) /\ Listed(entry) \subseteq Entry
        /\ entry \in [Entry -> [created : Time, on : SUBSET Ground] \cup {None}]
    BY DEF ListInit, Listed
  <2>2. /\ ListTypeOK /\ walk.steady = Listed(entry) /\ walk.offset = 0 /\ ~walk.over
        /\ walk.seen = <<>>
    BY <2>1 DEF ListTypeOK, NewWalk
  <2>3. Met = {} /\ Unrepeated
    BY <2>2 DEF Met, Unrepeated
  <2>4. \A r \in walk.steady : 0 <= Cardinality(Before(r))
    <3>1. ASSUME NEW r PROVE Cardinality(Before(r)) \in Nat
      BY ListAssumption, <2>1, FS_Subset, FS_CardinalityType DEF Before
    <3> QED  BY <3>1
  <2> QED  BY <2>2, <2>3, <2>4 DEF WalkInv
<1> QED  BY <1>1, ListStep, PTL DEF ListSpec

\* A walk by limit and offset misses none of the recipes listed all along unless one left, and
\* meets none twice unless one came: the order of list_recipes is total.
THEOREM WalksComplete == ListSpec => []WalkComplete
<1>1. WalkInv => WalkComplete
  BY DEF WalkInv, WalkComplete, Met, Unrepeated
<1> QED  BY <1>1, WalkInvariance, PTL

-----------------------------------------------------------------------------
(* Migrations, for any cookbooks, people, recipes and collections, and     *)
(* whatever order the revisions are taken up and down in.                  *)

\* A row of cookbooks.
BookRow == [owner : people, default : BOOLEAN]

\* What every step of the migrations and of the application leaves: nothing of a later revision's
\* tables, one default at most, and a place for every recipe where the revision asks for it.
MigrationInv ==
  /\ MigrationTypeOK
  /\ rev = 0 => \A b \in Book : book[b] = None
  /\ rev < 3 => shelf = {}
  /\ \A u \in Person : \A b, c \in DefaultsOf(u, book) : b = c
  /\ \A m \in Written : (rev = 2 => home[m] # None) /\ (rev = 3 => On(m) # {})

\* There are as many new ids as there is room for.
LEMMA IdsExist ==
  ASSUME NEW rows, IsFiniteSet(rows), Room(rows)
  PROVE  /\ NewIds(rows) \in [rows -> Free]
         /\ \A x, y \in rows : NewIds(rows)[x] = NewIds(rows)[y] => x = y
<1> DEFINE n == Cardinality(rows)
           k == Cardinality(Free)
<1>1. IsFiniteSet(Free)
  BY MigrationAssumption, FS_Subset DEF Free
<1>2. n \in Nat /\ k \in Nat /\ n <= k
  BY <1>1, FS_CardinalityType DEF Room
<1>3. PICK f \in Bijection(1..n, rows) : TRUE
  BY FS_CardinalityType DEF ExistsBijection
<1>4. PICK g \in Bijection(1..k, Free) : TRUE
  BY <1>1, FS_CardinalityType DEF ExistsBijection
<1>5. /\ f \in [1..n -> rows] /\ \A i, j \in 1..n : f[i] = f[j] => i = j
      /\ \A x \in rows : \E i \in 1..n : f[i] = x
      /\ g \in [1..k -> Free] /\ \A i, j \in 1..k : g[i] = g[j] => i = j
  BY DEF Bijection, Injection, Surjection, IsInjective
<1> HIDE DEF n, k
<1> DEFINE index == [x \in rows |-> CHOOSE i \in 1..n : f[i] = x]
           h == [x \in rows |-> g[index[x]]]
<1>6. \A x \in rows : index[x] \in 1..n /\ f[index[x]] = x /\ index[x] \in 1..k
  BY <1>2, <1>5
<1> HIDE DEF index
<1>7. h \in [rows -> Free] /\ \A x, y \in rows : h[x] = h[y] => x = y
  BY <1>5, <1>6
<1> HIDE DEF h
<1> QED  BY <1>7 DEF NewIds

\* The new rows join the old.
LEMMA Joined ==
  ASSUME MigrationInv, NEW rows, IsFiniteSet(rows), Room(rows), NEW row \in [rows -> BookRow],
         \A x \in rows : row[x].default =>
           x \in Person /\ row[x] = DefaultRow(x) /\ DefaultsOf(x, book) = {}
  PROVE  LET id == NewIds(rows)
             books == WithNew(id, row)
         IN  /\ id \in [rows -> Book]
             /\ \A x \in rows : books[id[x]] = row[x] /\ books[id[x]] # None
             /\ \A b \in Book : book[b] # None => books[b] = book[b]
             /\ \A b \in Book : books[b] # None => books[b] = book[b] \/ \E x \in rows : b = id[x]
             /\ books \in [Book -> BookRow \cup {None}]
             /\ \A u \in Person : \A b, c \in DefaultsOf(u, books) : b = c
<1> DEFINE id == NewIds(rows)
           books == WithNew(id, row)
<1>1. id \in [rows -> Free] /\ \A x, y \in rows : id[x] = id[y] => x = y
  BY IdsExist
<1>2. DOMAIN book = Book /\ book \in [Book -> BookRow \cup {None}] /\ DOMAIN row = rows
      /\ people \subseteq Person
  BY DEF MigrationInv, MigrationTypeOK, BookRow
<1> HIDE DEF id
<1>3. \A x \in rows : id[x] \in Book /\ book[id[x]] = None
  BY <1>1, <1>2 DEF Free, Rows
<1>4. \A x \in rows : books[id[x]] = row[x]
  <2> SUFFICES ASSUME NEW x \in rows PROVE books[id[x]] = row[x]
    OBVIOUS
  <2> DEFINE y == CHOOSE z \in DOMAIN row : id[z] = id[x]
  <2>1. y \in rows /\ id[y] = id[x]
    BY <1>2
  <2>2. y = x
    BY <1>1, <2>1
  <2>3. books[id[x]] = row[y]
    BY <1>2, <1>3 DEF WithNew
  <2> QED  BY <2>2, <2>3
<1>5. \A b \in Book : (\A x \in rows : id[x] # b) => books[b] = book[b]
  BY <1>2 DEF WithNew
<1>6. DOMAIN books = Book
  BY DEF WithNew
<1>7. books = [b \in Book |-> books[b]]
  BY DEF WithNew
<1> HIDE DEF books
<1>8. \A r \in BookRow : r # None
  BY <1>2, MigrationAssumption DEF BookRow
<1>9. \A b \in Book : book[b] # None => books[b] = book[b]
  BY <1>3, <1>5
<1>10. \A b \in Book : books[b] \in BookRow \cup {None}
  BY <1>2, <1>4, <1>5
<1>11. books \in [Book -> BookRow \cup {None}]
  BY <1>7, <1>10
<1>12. ASSUME NEW u \in Person, NEW b \in DefaultsOf(u, books)
       PROVE  b \in DefaultsOf(u, book) \/ (u \in rows /\ b = id[u] /\ DefaultsOf(u, book) = {})
  <2>1. b \in Book /\ books[b] = DefaultRow(u) /\ books[b] # None
    BY <1>6 DEF DefaultsOf, Rows
  <2>2. CASE \A x \in rows : id[x] # b
    BY <1>2, <1>5, <2>1, <2>2 DEF DefaultsOf, Rows
  <2>3. ASSUME NEW x \in rows, id[x] = b
        PROVE  u \in rows /\ b = id[u] /\ DefaultsOf(u, book) = {}
    <3>1. row[x] = DefaultRow(u)
      BY <1>4, <2>1, <2>3
    <3>2. row[x].default /\ DefaultRow(u).owner = u
      BY <3>1 DEF DefaultRow
    <3>3. row[x] = DefaultRow(x) /\ DefaultsOf(x, book) = {} /\ DefaultRow(x).owner = x
      BY <3>2 DEF DefaultRow
    <3> QED  BY <2>3, <3>1, <3>2, <3>3
  <2> QED  BY <2>2, <2>3
<1>13. \A u \in Person : \A b, c \in DefaultsOf(u, books) : b = c
  BY <1>12 DEF MigrationInv
<1>14. id \in [rows -> Book]
  BY <1>1 DEF Free
<1>15. \A x \in rows : books[id[x]] = row[x] /\ books[id[x]] # None
  BY <1>4, <1>8
<1>16. \A b \in Book : books[b] # None => books[b] = book[b] \/ \E x \in rows : b = id[x]
  BY <1>5
<1> QED  BY <1>9, <1>11, <1>13, <1>14, <1>15, <1>16 DEF books, id

\* What is asked of a step's books: the old rows stay, and nobody has two defaults.
Grown(books) ==
  /\ books \in [Book -> BookRow \cup {None}]
  /\ \A b \in Book : book[b] # None => books[b] = book[b]
  /\ \A u \in Person : \A b, c \in DefaultsOf(u, books) : b = c

\* A default for whoever has none: then everybody of owners has one.
LEMMA DefaultsGiven ==
  ASSUME MigrationInv, NEW lacking \in SUBSET people, Room(lacking),
         \A u \in lacking : DefaultsOf(u, book) = {}
  PROVE  LET books == WithNew(NewIds(lacking), Defaults(lacking))
         IN  /\ Grown(books)
             /\ \A u \in people : u \in lacking \/ DefaultsOf(u, book) # {} =>
                  /\ DefaultOf(u, books) \in Book
                  /\ books[DefaultOf(u, books)] = DefaultRow(u)
                  /\ books[DefaultOf(u, books)] # None
<1> DEFINE id == NewIds(lacking)
           books == WithNew(id, Defaults(lacking))
<1>1. people \subseteq Person /\ IsFiniteSet(lacking)
      /\ book \in [Book -> BookRow \cup {None}]
  BY MigrationAssumption, FS_Subset DEF MigrationInv, MigrationTypeOK, BookRow
<1>2. /\ Defaults(lacking) \in [lacking -> BookRow]
      /\ \A x \in lacking : Defaults(lacking)[x] = DefaultRow(x)
  BY DEF Defaults, DefaultRow, BookRow
<1>3. /\ id \in [lacking -> Book]
      /\ \A x \in lacking : books[id[x]] = DefaultRow(x) /\ books[id[x]] # None
      /\ Grown(books)
  BY <1>1, <1>2, Joined DEF Grown
<1>4. books \in [Book -> BookRow \cup {None}]
  BY <1>3 DEF Grown
<1> HIDE DEF books, id
<1>5. ASSUME NEW u \in people, u \in lacking \/ DefaultsOf(u, book) # {}
      PROVE  DefaultsOf(u, books) # {}
  <2>1. CASE u \in lacking
    BY <1>3, <1>4, <2>1 DEF DefaultsOf, Rows
  <2>2. ASSUME NEW b \in DefaultsOf(u, book) PROVE b \in DefaultsOf(u, books)
    BY <1>1, <1>3, <1>4 DEF DefaultsOf, Rows, Grown
  <2> QED  BY <1>5, <2>1, <2>2
<1>6. ASSUME NEW u \in people, DefaultsOf(u, books) # {}
      PROVE  DefaultOf(u, books) \in DefaultsOf(u, books)
  BY <1>6 DEF DefaultOf
<1>7. \A u \in people : \A b \in DefaultsOf(u, books) :
        b \in Book /\ books[b] = DefaultRow(u) /\ books[b] # None
  BY <1>4 DEF DefaultsOf, Rows
<1> QED  BY <1>3, <1>5, <1>6, <1>7 DEF books, id

\* The sweep leaves no recipe without a home, and moves none that has one.
LEMMA Swept ==
  ASSUME MigrationInv, NEW homes \in [Meal -> Book \cup {None}],
         \A m \in Meal : homes[m] # None => book[homes[m]] # None, Sweep(homes)
  PROVE  /\ Grown(book') /\ home' \in [Meal -> Book \cup {None}]
         /\ \A m \in Meal : home'[m] # None => book'[home'[m]] # None
         /\ \A m \in Written : home'[m] # None
         /\ \A m \in Written : homes[m] # None => home'[m] = homes[m]
         /\ \A m \in Written : homes[m] = None => book'[home'[m]] = DefaultRow(cook[m])
<1> DEFINE strays == {m \in Written : homes[m] = None}
           lacking == Homeless(strays)
           books == WithNew(NewIds(lacking), Defaults(lacking))
<1>1. Room(lacking) /\ book' = books
      /\ home' = [m \in Meal |-> IF m \in strays THEN DefaultOf(cook[m], books) ELSE homes[m]]
  BY DEF Sweep
<1>2. \A m \in Written : m \in Meal /\ cook[m] \in people
  BY DEF Written, MigrationInv, MigrationTypeOK
<1>3. lacking \in SUBSET people /\ \A u \in lacking : DefaultsOf(u, book) = {}
  BY <1>2 DEF Homeless
<1>4. \A m \in strays : cook[m] \in lacking \/ DefaultsOf(cook[m], book) # {}
  BY DEF Homeless
<1> HIDE DEF lacking
<1>5. /\ Grown(books)
      /\ \A u \in people : u \in lacking \/ DefaultsOf(u, book) # {} =>
           /\ DefaultOf(u, books) \in Book
           /\ books[DefaultOf(u, books)] = DefaultRow(u)
           /\ books[DefaultOf(u, books)] # None
  BY <1>1, <1>3, DefaultsGiven
<1> HIDE DEF books
<1>6. \A m \in strays :
        /\ m \in Written /\ homes[m] = None
        /\ DefaultOf(cook[m], books) \in Book
        /\ books[DefaultOf(cook[m], books)] = DefaultRow(cook[m])
        /\ books[DefaultOf(cook[m], books)] # None
  BY <1>2, <1>4, <1>5
<1>7. \A m \in Written : m \in strays <=> homes[m] = None
  OBVIOUS
<1> HIDE DEF strays
<1>8. \A m \in Meal : homes[m] # None => homes[m] \in Book /\ books[homes[m]] = book[homes[m]]
  BY <1>5 DEF Grown
<1>9. \A m \in Meal : home'[m] = IF m \in strays THEN DefaultOf(cook[m], books) ELSE homes[m]
  BY <1>1
<1>10. home' \in [Meal -> Book \cup {None}]
  BY <1>1, <1>6
<1>11. None \notin Book
  BY MigrationAssumption
<1> QED  BY <1>1, <1>2, <1>5, <1>6, <1>7, <1>8, <1>9, <1>10, <1>11

\* What AccessKept says of a step.
Kept ==
  rev' > rev => \A m \in Written :
    /\ Readers(m) \ Losers(m) \subseteq Readers(m)'
    /\ rev = 0 => Readers(m)' \subseteq (Readers(m) \ Losers(m)) \cup Gainers(m)

\* The types of the parts.
LEMMA MigrationParts ==
  ASSUME MigrationInv
  PROVE  /\ rev \in 0..3 /\ people \subseteq Person
         /\ book \in [Book -> BookRow \cup {None}]
         /\ \A m \in Written : m \in Meal /\ cook[m] \in people
         /\ \A s \in Rows(shared) :
              /\ s \in Shared /\ shared[s].by \in people
              /\ shared[s].members \subseteq people
         /\ \A m \in Meal : home[m] # None => home[m] \in Book /\ book[home[m]] # None
         /\ None \notin Book /\ None \notin people
BY MigrationAssumption DEF MigrationInv, MigrationTypeOK, Written, Rows, BookRow

\* The first migration: the books are all new.
LEMMA PivotKeeps == ASSUME MigrationInv, UpgradePivot PROVE MigrationInv' /\ Kept
<1> DEFINE rows == people \cup Rows(shared)
           id == NewIds(rows)
           row == [x \in rows |-> IF x \in people THEN DefaultRow(x) ELSE SharedRow(x)]
<1>1. /\ rev = 0 /\ Room(rows) /\ rev' = 1
      /\ book' = WithNew(id, row) /\ editor' = MemberRows(id)
      /\ home' = [m \in Meal |-> IF cook[m] = None THEN None
                                 ELSE IF m \in Claimed THEN id[Oldest(m)]
                                 ELSE DefaultOf(cook[m], book')]
      /\ UNCHANGED <<people, cook, shelf, shared, coll>>
  BY DEF UpgradePivot
<1>2. IsFiniteSet(rows)
  <2>1. Rows(shared) \subseteq Shared /\ people \subseteq Person
    BY MigrationParts
  <2> QED  BY <2>1, MigrationAssumption, FS_Subset, FS_Union
<1>3. \A x \in Rows(shared) : x \notin people /\ x \in rows
  BY MigrationAssumption, MigrationParts
<1>4. \A u \in Person : DefaultsOf(u, book) = {}
  BY <1>1, MigrationParts DEF DefaultsOf, Rows, MigrationInv
<1>5. row \in [rows -> BookRow]
  BY MigrationParts DEF DefaultRow, SharedRow, BookRow
<1>6. \A x \in people : x \in rows /\ row[x] = DefaultRow(x)
  OBVIOUS
<1>7. \A x \in Rows(shared) : row[x] = SharedRow(x)
  BY <1>3
<1> HIDE DEF row
<1>8. \A x \in rows : row[x].default =>
           x \in Person /\ row[x] = DefaultRow(x) /\ DefaultsOf(x, book) = {}
  <2>1. \A x \in Rows(shared) : ~row[x].default
    <3>1. \A x \in Rows(shared) : SharedRow(x).default = FALSE
      BY DEF SharedRow
    <3> QED  BY <1>7, <3>1
  <2>2. \A x \in people : x \in Person /\ row[x] = DefaultRow(x) /\ DefaultsOf(x, book) = {}
    BY <1>4, <1>6, MigrationParts
  <2> QED  BY <2>1, <2>2
<1> HIDE DEF rows
<1>9. /\ id \in [rows -> Book]
      /\ \A x \in rows : book'[id[x]] = row[x] /\ book'[id[x]] # None
      /\ book' \in [Book -> BookRow \cup {None}]
      /\ \A u \in Person : \A b, c \in DefaultsOf(u, book') : b = c
  BY <1>1, <1>2, <1>5, <1>8, Joined
<1>17. \A x, y \in rows : id[x] = id[y] => x = y
  BY <1>1, <1>2, IdsExist
<1> HIDE DEF id
<1>10. \A u \in people :
         /\ DefaultOf(u, book') \in Book
         /\ book'[DefaultOf(u, book')] = DefaultRow(u)
         /\ book'[DefaultOf(u, book')] # None
  <2> SUFFICES ASSUME NEW u \in people
               PROVE  DefaultOf(u, book') \in DefaultsOf(u, book')
    BY <1>9 DEF DefaultsOf, Rows
  <2>1. id[u] \in DefaultsOf(u, book')
    BY <1>6, <1>9 DEF DefaultsOf, Rows
  <2> QED  BY <2>1 DEF DefaultOf
<1>11. ASSUME NEW m \in Claimed
       PROVE  Oldest(m) \in Rows(shared) /\ Oldest(m) \in Holding(m) /\ m \in Written
  <2>1. Holding(m) # {} /\ Holding(m) \subseteq Rows(shared) /\ m \in Written
    BY DEF Claimed, Holding
  <2>2. Holding(m) \subseteq Nat
    BY <2>1, MigrationParts, MigrationAssumption
  <2>3. \E s \in Holding(m) : \A o \in Holding(m) : s <= o
    <3> DEFINE H == Holding(m)
    <3>1. H \subseteq Nat /\ H # {}
      BY <2>1, <2>2
    <3> HIDE DEF H
    <3>2. \E s \in H : \A o \in H : s <= o
      BY <3>1, LeastNumber
    <3> QED  BY <3>2 DEF H
  <2>4. Oldest(m) \in Holding(m)
    BY <2>3 DEF Oldest
  <2> QED  BY <2>1, <2>4
<1>12. /\ \A m \in Claimed : id[Oldest(m)] \in Book /\ book'[id[Oldest(m)]] = SharedRow(Oldest(m))
                            /\ book'[id[Oldest(m)]] # None
       /\ \A m \in Written : cook[m] # None
  BY <1>3, <1>7, <1>9, <1>11 DEF Written
<1>13. /\ home' \in [Meal -> Book \cup {None}]
       /\ \A m \in Meal : home'[m] # None => book'[home'[m]] # None
  <2>1. \A m \in Meal : cook[m] # None => m \in Written
    BY DEF Written, MigrationInv, MigrationTypeOK
  <2>2. \A m \in Meal :
          home'[m] \in Book \cup {None} /\ (home'[m] # None => book'[home'[m]] # None)
    BY <1>1, <1>10, <1>12, <2>1, MigrationParts
  <2> QED  BY <1>1, <2>2
<1>14. editor' \subseteq Book \X people
  <2>1. \A s \in Rows(shared) : id[s] \in Book /\ Members(s) \subseteq people
    BY <1>3, <1>9, <1>11, MigrationParts DEF Members
  <2> QED  BY <1>1, <2>1 DEF MemberRows
<1>15. MigrationInv'
  <2>1. MigrationTypeOK'
    BY <1>1, <1>9, <1>13, <1>14 DEF MigrationInv, MigrationTypeOK, BookRow
  <2> QED  BY <1>1, <1>9, <2>1 DEF MigrationInv, DefaultsOf, DefaultRow, Rows
<1>16. ASSUME NEW m \in Written
       PROVE  /\ Readers(m) \ Losers(m) \subseteq Readers(m)'
              /\ Readers(m)' \subseteq (Readers(m) \ Losers(m)) \cup Gainers(m)
  <2>0. Readers(m) = {cook[m]} \cup UNION {OldReaders(s) : s \in Holding(m)}
    BY <1>1 DEF Readers
  <2>1. /\ Readers(m)' = IF home'[m] = None THEN {cook[m]} ELSE ReadersOf(home[m])'
        /\ m \in Meal /\ cook[m] \in people /\ cook[m] # None
    BY <1>1, MigrationParts DEF Readers
  <2>2. ReadersOf(home[m])' = {book'[home'[m]].owner} \cup {u \in people : <<home'[m], u>> \in editor'}
    BY <1>1 DEF ReadersOf
  <2>3. CASE m \in Claimed
    <3> DEFINE s == Oldest(m)
    <3>1. home'[m] = id[s] /\ home'[m] # None
      BY <1>1, <1>12, <2>1, <2>3, MigrationParts
    <3>2. book'[home'[m]].owner = shared[s].by
      <4>1. book'[home'[m]] = SharedRow(s)
        BY <1>12, <2>3, <3>1
      <4> QED  BY <4>1 DEF SharedRow
    <3>3. s \in Rows(shared) /\ s \in Holding(m) /\ Holding(m) # {}
      BY <1>11, <2>3
    <3>4. Members(s) = (shared[s].members \cup Gainers(m)) \ {shared[s].by}
      BY <2>3 DEF Members, Gainers
    <3>5. \A u : <<home'[m], u>> \in editor' <=> u \in Members(s)
      <4>1. \A t \in Rows(shared) : id[t] = id[s] => t = s
        BY <1>3, <1>17, <3>3
      <4>2. \A u : <<id[s], u>> \in MemberRows(id) <=> u \in Members(s)
        BY <3>3, <4>1 DEF MemberRows
      <4> QED  BY <1>1, <3>1, <4>2
    <3>6. Members(s) \subseteq people
      <4>1. \A c \in Claimed : cook[c] \in people
        BY <1>11, MigrationParts
      <4> QED  BY <3>3, <4>1, MigrationParts DEF Members
    <3>7. cook[m] \in Gainers(m)
      BY <2>3 DEF Gainers
    <3> HIDE DEF s
    <3>8. Readers(m)' = OldReaders(s) \cup Gainers(m)
      BY <2>1, <2>2, <3>1, <3>2, <3>4, <3>5, <3>6 DEF OldReaders
    <3>9. Readers(m) \ Losers(m) = {cook[m]} \cup OldReaders(s)
      BY <1>1, <2>0, <3>3 DEF Losers, s
    <3> QED  BY <3>7, <3>8, <3>9
  <2>4. CASE m \notin Claimed
    <3>1. home'[m] = DefaultOf(cook[m], book') /\ Holding(m) = {}
      BY <1>1, <2>1, <2>4 DEF Claimed
    <3>2. home'[m] \in Book /\ home'[m] # None /\ book'[home'[m]] = DefaultRow(cook[m])
      BY <1>10, <2>1, <3>1, MigrationParts
    <3>3. book'[home'[m]].owner = cook[m] /\ book'[home'[m]].default
      BY <3>2 DEF DefaultRow
    <3>4. \A u : <<home'[m], u>> \notin editor'
      <4>1. \A t \in Rows(shared) : book'[id[t]] = SharedRow(t)
        BY <1>3, <1>7, <1>9
      <4>2. \A t : ~SharedRow(t).default
        BY DEF SharedRow
      <4>3. \A t \in Rows(shared) : id[t] # home'[m]
        BY <3>3, <4>1, <4>2
      <4>4. \A h, u : <<h, u>> \in MemberRows(id) => \E t \in Rows(shared) : h = id[t]
        BY DEF MemberRows
      <4> QED  BY <1>1, <4>3, <4>4
    <3>5. Readers(m)' = {cook[m]}
      BY <2>1, <2>2, <3>2, <3>3, <3>4
    <3>6. Readers(m) = {cook[m]} /\ Losers(m) = {}
      BY <2>0, <3>1 DEF Losers
    <3> QED  BY <3>5, <3>6
  <2> QED  BY <2>3, <2>4
<1> QED  BY <1>15, <1>16 DEF Kept

\* Steps that keep the books, the recipes and their homes.
LEMMA BooksKept ==
  ASSUME MigrationInv, Grown(book')
  PROVE  /\ \A b \in Book : book[b] # None => book'[b] # None
         /\ \A u \in Person : \A b, c \in DefaultsOf(u, book') : b = c
         /\ \A m \in Meal : home[m] # None => book'[home[m]] = book[home[m]] /\ book'[home[m]] # None
BY MigrationParts DEF Grown

\* The second gives a default to whoever owns a recipe and has none, and sweeps the rest into it.
LEMMA FinalizeKeeps == ASSUME MigrationInv, UpgradeFinalize PROVE MigrationInv' /\ Kept
<1>1. /\ rev = 1 /\ rev' = 2 /\ Sweep(home) /\ shared' = [s \in Shared |-> None]
      /\ UNCHANGED <<people, cook, editor, shelf, coll>> /\ shelf = {}
      /\ home \in [Meal -> Book \cup {None}] /\ Written' = Written
  BY DEF UpgradeFinalize, MigrationInv, MigrationTypeOK, Written
<1>2. /\ Grown(book') /\ home' \in [Meal -> Book \cup {None}]
      /\ \A m \in Meal : home'[m] # None => book'[home'[m]] # None
      /\ \A m \in Written : home'[m] # None
      /\ \A m \in Written : home[m] # None => home'[m] = home[m]
      /\ \A m \in Written : home[m] = None => book'[home'[m]] = DefaultRow(cook[m])
  BY <1>1, Swept, MigrationParts
<1>3. MigrationInv'
  <2>1. MigrationTypeOK'
    BY <1>1, <1>2 DEF MigrationInv, MigrationTypeOK, Grown, BookRow
  <2>2. \A u \in Person : \A b, c \in DefaultsOf(u, book') : b = c
    BY <1>2 DEF Grown
  <2> QED  BY <1>1, <1>2, <2>1, <2>2 DEF MigrationInv, DefaultsOf, DefaultRow, Rows
<1>4. ASSUME NEW m \in Written PROVE Readers(m) \subseteq Readers(m)'
  <2>1. /\ Readers(m) = IF home[m] = None THEN {cook[m]} ELSE ReadersOf(home[m])
        /\ Readers(m)' = ReadersOf(home[m])'
    BY <1>1, <1>2 DEF Readers
  <2>2. ReadersOf(home[m])' = {book'[home'[m]].owner} \cup {u \in people : <<home'[m], u>> \in editor}
    BY <1>1 DEF ReadersOf
  <2>3. CASE home[m] = None
    <3>1. DefaultRow(cook[m]).owner = cook[m]
      BY DEF DefaultRow
    <3> QED  BY <1>2, <2>1, <2>2, <2>3, <3>1
  <2>4. CASE home[m] # None
    <3>1. home'[m] = home[m] /\ book'[home[m]] = book[home[m]]
      BY <1>2, <2>4, BooksKept, MigrationParts
    <3> QED  BY <2>1, <2>2, <2>4, <3>1 DEF ReadersOf
  <2> QED  BY <2>3, <2>4
<1> QED  BY <1>1, <1>3, <1>4 DEF Kept

\* The third places every recipe where it was, and every collection's recipes on its new book.
LEMMA BoardsKeeps == ASSUME MigrationInv, UpgradeBoards PROVE MigrationInv' /\ Kept
<1> DEFINE rows == Rows(coll)
           id == NewIds(rows)
           row == [c \in rows |-> CollectionRow(c)]
<1>1. /\ rev = 2 /\ Room(rows) /\ rev' = 3
      /\ book' = WithNew(id, row) /\ shelf' = Placements(id)
      /\ home' = [m \in Meal |-> None] /\ coll' = [c \in Collection |-> None]
      /\ UNCHANGED <<people, cook, editor, shared>> /\ Written' = Written
  BY DEF UpgradeBoards, Written
<1>2. rows \subseteq Collection /\ \A c \in rows : coll[c].owner \in people
  BY DEF Rows, MigrationInv, MigrationTypeOK
<1>3. IsFiniteSet(rows)
  BY <1>2, MigrationAssumption, FS_Subset
<1>4. row \in [rows -> BookRow]
  BY <1>2 DEF CollectionRow, BookRow
<1>5. \A x \in rows : ~row[x].default
  BY DEF CollectionRow
<1> HIDE DEF row, rows
<1>6. /\ Grown(book') /\ id \in [rows -> Book]
      /\ \A x \in rows : book'[id[x]] # None
  BY <1>1, <1>3, <1>4, <1>5, Joined DEF Grown
<1> HIDE DEF id
<1>7. \A m \in Written : home[m] # None /\ home[m] \in Book /\ cook[m] # None /\ m \in Meal
                         /\ book'[home[m]] = book[home[m]] /\ book'[home[m]] # None
  BY <1>1, <1>6, BooksKept, MigrationParts DEF MigrationInv, Written
<1>8. ASSUME NEW p \in shelf'
      PROVE  /\ p \in [book : Book, meal : Meal, later : BOOLEAN]
             /\ book'[p.book] # None /\ cook[p.meal] # None
  <2>1. CASE \E m \in Written : p = Placement(home[m], m, FALSE)
    BY <1>7, <2>1 DEF Placement
  <2>2. ASSUME NEW c \in rows, NEW m \in Collected(c), p = Placement(id[c], m, FALSE)
        PROVE  /\ p \in [book : Book, meal : Meal, later : BOOLEAN]
               /\ book'[p.book] # None /\ cook[p.meal] # None
    <3>1. m \in Written
      BY <2>2 DEF Collected
    <3> QED  BY <1>6, <1>7, <2>2, <3>1 DEF Placement
  <2> QED  BY <1>1, <2>1, <2>2 DEF Placements, rows
<1>9. ASSUME NEW m \in Written PROVE Placement(home[m], m, FALSE) \in On(m)'
  BY <1>1 DEF On, Placements, Placement
<1>10. MigrationInv'
  <2>1. MigrationTypeOK'
    BY <1>1, <1>6, <1>8 DEF MigrationInv, MigrationTypeOK, Grown, BookRow
  <2>2. \A u \in Person : \A b, c \in DefaultsOf(u, book') : b = c
    BY <1>6 DEF Grown
  <2>3. \A m \in Written' : (rev' = 2 => home'[m] # None) /\ (rev' = 3 => On(m)' # {})
    <3>1. \A m \in Written : On(m)' # {}
      BY <1>9
    <3>2. rev' # 2 /\ Written' = Written
      BY <1>1
    <3> HIDE DEF Written
    <3> QED  BY <3>1, <3>2
  <2>4. rev' # 0 /\ ~(rev' < 3)
    BY <1>1
  <2> QED  BY <2>1, <2>2, <2>3, <2>4 DEF MigrationInv, DefaultsOf, DefaultRow, Rows
<1>11. ASSUME NEW m \in Written PROVE Readers(m) \subseteq Readers(m)'
  <2>1. PICK p \in On(m)' : p.book = home[m]
    BY <1>9 DEF Placement
  <2>2. /\ Readers(m) = {book[p.book].owner} \cup {u \in people : <<p.book, u>> \in editor}
        /\ Readers(m)' = {cook[m]} \cup UNION {ReadersOf(q.book)' : q \in On(m)'}
    BY <1>1, <1>7, <2>1 DEF Readers, ReadersOf
  <2>3. ReadersOf(p.book)' = {book'[p.book].owner} \cup {u \in people : <<p.book, u>> \in editor}
    BY <1>1 DEF ReadersOf
  <2>4. Readers(m) = ReadersOf(p.book)'
    BY <1>7, <2>1, <2>2, <2>3
  <2> QED  BY <2>1, <2>2, <2>4
<1> QED  BY <1>1, <1>10, <1>11 DEF Kept

\* The first two go back by forgetting.
LEMMA BackKeeps == ASSUME MigrationInv, DowngradePivot \/ DowngradeFinalize PROVE MigrationInv' /\ Kept
<1>1. CASE DowngradePivot
  <2>1. /\ rev = 1 /\ rev' = 0 /\ shelf' = {} /\ editor' = {}
        /\ book' = [b \in Book |-> None] /\ home' = [m \in Meal |-> None]
        /\ UNCHANGED <<people, cook, shared, coll>>
    BY <1>1 DEF DowngradePivot, MigrationInv
  <2>2. MigrationTypeOK'
    BY <2>1 DEF MigrationInv, MigrationTypeOK
  <2>3. \A u : DefaultsOf(u, book') = {}
    BY <2>1 DEF DefaultsOf, Rows
  <2>4. Kept
    BY <2>1 DEF Kept
  <2> QED  BY <2>1, <2>2, <2>3, <2>4 DEF MigrationInv, DefaultsOf, DefaultRow, Rows
<1>2. CASE DowngradeFinalize
  BY <1>2 DEF DowngradeFinalize, Kept, MigrationInv, MigrationTypeOK, DefaultsOf, DefaultRow, Rows,
              Written
<1> QED  BY <1>1, <1>2

\* The third goes back to one place for each recipe, the oldest or its owner's default.
LEMMA UnfoldKeeps == ASSUME MigrationInv, DowngradeBoards PROVE MigrationInv' /\ Kept
<1>1. PICK homes \in [Meal -> Book \cup {None}] :
        /\ \A m \in Meal : IF On(m) = {} THEN homes[m] = None ELSE \E p \in Primary(m) : homes[m] = p.book
        /\ Sweep(homes)
  BY DEF DowngradeBoards
<1>2. /\ rev = 3 /\ rev' = 2 /\ shelf' = {} /\ UNCHANGED <<people, cook, editor, shared, coll>>
      /\ Written' = Written
  BY DEF DowngradeBoards, Written
<1>3. ASSUME NEW m \in Meal, homes[m] # None PROVE book[homes[m]] # None
  <2>1. PICK p \in Primary(m) : homes[m] = p.book
    BY <1>1, <1>3
  <2>2. p \in shelf
    BY DEF Primary, On
  <2> QED  BY <2>1, <2>2 DEF MigrationInv, MigrationTypeOK
<1>4. /\ Grown(book') /\ home' \in [Meal -> Book \cup {None}]
      /\ \A m \in Meal : home'[m] # None => book'[home'[m]] # None
      /\ \A m \in Written : home'[m] # None
  BY <1>1, <1>3, Swept
<1>5. MigrationTypeOK'
  BY <1>2, <1>4 DEF MigrationInv, MigrationTypeOK, Grown, BookRow
<1>6. \A u \in Person : \A b, c \in DefaultsOf(u, book') : b = c
  BY <1>4 DEF Grown
<1>7. Kept
  BY <1>2 DEF Kept
<1> HIDE DEF Written
<1> QED  BY <1>2, <1>4, <1>5, <1>6, <1>7 DEF MigrationInv, DefaultsOf, DefaultRow, Rows

\* What the application writes between the migrations, recipes left out.
LEMMA ApplicationKeeps ==
  ASSUME MigrationInv, Register \/ Collect \/ File PROVE MigrationInv' /\ Kept
<1>0. Kept
  <2>1. rev' = rev /\ rev \in 0..3
    BY MigrationParts DEF Register, Collect, File
  <2> QED  BY <2>1 DEF Kept
<1>1. CASE Register
  <2>1. /\ people \subseteq people' /\ people' \subseteq Person
        /\ UNCHANGED <<rev, cook, home, book, editor, shelf, shared, coll>>
    BY <1>1, MigrationParts DEF Register
  <2>2. MigrationTypeOK'
    <3>1. cook \in [Meal -> people' \cup {None}]
      BY <2>1 DEF MigrationInv, MigrationTypeOK
    <3>2. book \in [Book -> [owner : people', default : BOOLEAN] \cup {None}]
      BY <2>1 DEF MigrationInv, MigrationTypeOK
    <3>3. shared \in [Shared -> [by : people', members : SUBSET people', meals : SUBSET Meal] \cup {None}]
      BY <2>1 DEF MigrationInv, MigrationTypeOK
    <3>4. coll \in [Collection -> [owner : people', meals : SUBSET Meal] \cup {None}]
      BY <2>1 DEF MigrationInv, MigrationTypeOK
    <3>5. editor \subseteq Book \X people'
      BY <2>1 DEF MigrationInv, MigrationTypeOK
    <3> QED  BY <2>1, <3>1, <3>2, <3>3, <3>4, <3>5 DEF MigrationInv, MigrationTypeOK
  <2> QED  BY <1>0, <2>1, <2>2 DEF MigrationInv, DefaultsOf, DefaultRow, Rows, Written, On
<1>2. CASE Collect
  <2>1. /\ UNCHANGED <<rev, people, cook, home, book, editor, shelf, shared>>
        /\ coll' \in [Collection -> [owner : people, meals : SUBSET Meal] \cup {None}]
    BY <1>2 DEF Collect, Written, MigrationInv, MigrationTypeOK
  <2>2. MigrationTypeOK'
    BY <2>1 DEF MigrationInv, MigrationTypeOK
  <2> QED  BY <1>0, <2>1, <2>2 DEF MigrationInv, DefaultsOf, DefaultRow, Rows, Written, On
<1>3. CASE File
  <2>1. PICK m \in Written, b \in Rows(book) :
          /\ rev > 0
          /\ IF rev < 3
             THEN home' = [home EXCEPT ![m] = b] /\ UNCHANGED shelf
             ELSE shelf' = shelf \cup {Placement(b, m, TRUE)} /\ UNCHANGED home
          /\ UNCHANGED <<rev, people, cook, book, editor, shared, coll>>
    BY <1>3 DEF File
  <2>2. b \in Book /\ book[b] # None /\ m \in Meal /\ cook[m] # None
    BY MigrationParts DEF Rows, Written
  <2>3. CASE rev < 3
    <3>1. /\ UNCHANGED <<rev, people, cook, book, editor, shared, coll, shelf>>
          /\ home' = [home EXCEPT ![m] = b]
      BY <2>1, <2>3
    <3>5. home \in [Meal -> Book \cup {None}] /\ \A n \in Meal : home[n] # None => book[home[n]] # None
      BY DEF MigrationInv, MigrationTypeOK
    <3>6. home' \in [Meal -> Book \cup {None}] /\ \A n \in Meal : home'[n] # None => book'[home'[n]] # None
      BY <2>2, <3>1, <3>5
    <3>2. MigrationTypeOK'
      BY <3>1, <3>6 DEF MigrationInv, MigrationTypeOK
    <3>3. \A n \in Written : home[n] # None => home'[n] # None
      BY <2>2, <3>1, MigrationParts DEF MigrationInv, MigrationTypeOK
    <3>4. \A n \in Written' : n \in Written
      BY <3>1 DEF Written
    <3> QED  BY <1>0, <2>3, <3>1, <3>2, <3>3, <3>4 DEF MigrationInv, DefaultsOf, DefaultRow, Rows
  <2>4. CASE ~(rev < 3)
    <3>1. /\ UNCHANGED <<rev, people, cook, book, editor, shared, coll, home>>
          /\ shelf' = shelf \cup {Placement(b, m, TRUE)}
      BY <2>1, <2>4
    <3>5. /\ Placement(b, m, TRUE) \in [book : Book, meal : Meal, later : BOOLEAN]
          /\ Placement(b, m, TRUE).book = b /\ Placement(b, m, TRUE).meal = m
      BY <2>2 DEF Placement
    <3>6. /\ shelf' \subseteq [book : Book, meal : Meal, later : BOOLEAN]
          /\ \A p \in shelf' : book[p.book] # None /\ cook[p.meal] # None
      BY <2>2, <3>1, <3>5 DEF MigrationInv, MigrationTypeOK
    <3>2. MigrationTypeOK'
      BY <3>1, <3>6 DEF MigrationInv, MigrationTypeOK
    <3>3. \A n : On(n) # {} => On(n)' # {}
      BY <3>1 DEF On
    <3>4. \A n \in Written' : n \in Written
      BY <3>1 DEF Written
    <3> QED  BY <1>0, <2>4, <3>1, <3>2, <3>3, <3>4 DEF MigrationInv, DefaultsOf, DefaultRow, Rows
  <2> QED  BY <2>3, <2>4
<1> QED  BY <1>1, <1>2, <1>3

\* A recipe is written with the place its revision asks for.
LEMMA WriteKeeps == ASSUME MigrationInv, WriteRecipe PROVE MigrationInv' /\ Kept
<1>1. PICK m \in Meal \ Written, u \in people, filed \in BOOLEAN :
        LET new == IF DefaultsOf(u, book) = {} THEN {u} ELSE {}
            books == WithNew(NewIds(new), Defaults(new))
            target == DefaultOf(u, books)
        IN  /\ filed = (rev >= 2) \/ rev = 1
            /\ filed => Room(new)
            /\ cook' = [cook EXCEPT ![m] = u]
            /\ book' = IF filed THEN books ELSE book
            /\ home' = IF filed /\ rev < 3 THEN [home EXCEPT ![m] = target] ELSE home
            /\ shelf' = IF filed /\ rev = 3 THEN shelf \cup {Placement(target, m, TRUE)} ELSE shelf
            /\ UNCHANGED <<rev, people, editor, shared, coll>>
  BY DEF WriteRecipe
<1> DEFINE new == IF DefaultsOf(u, book) = {} THEN {u} ELSE {}
           books == WithNew(NewIds(new), Defaults(new))
           target == DefaultOf(u, books)
<1>2. /\ filed = (rev >= 2) \/ rev = 1
      /\ filed => Room(new)
      /\ cook' = [cook EXCEPT ![m] = u]
      /\ book' = IF filed THEN books ELSE book
      /\ home' = IF filed /\ rev < 3 THEN [home EXCEPT ![m] = target] ELSE home
      /\ shelf' = IF filed /\ rev = 3 THEN shelf \cup {Placement(target, m, TRUE)} ELSE shelf
      /\ UNCHANGED <<rev, people, editor, shared, coll>>
  BY <1>1
<1>3. new \in SUBSET people /\ (\A v \in new : DefaultsOf(v, book) = {})
      /\ (u \in new \/ DefaultsOf(u, book) # {})
  OBVIOUS
<1> HIDE DEF new
<1>4. filed => /\ Grown(books) /\ target \in Book /\ books[target] # None
  BY <1>2, <1>3, DefaultsGiven
<1> HIDE DEF books, target
<1>5. /\ rev \in 0..3 /\ (filed => rev > 0) /\ (rev \in {2, 3} => filed) /\ Kept
      /\ u # None /\ m \in Meal /\ None \notin Book
  BY <1>2, MigrationParts DEF Kept
<1>6. /\ cook' \in [Meal -> people \cup {None}] /\ cook'[m] = u
      /\ \A n \in Meal : cook[n] # None => cook'[n] # None
      /\ \A n \in Written' : n \in Written \/ n = m
  BY <1>2, <1>5 DEF MigrationInv, MigrationTypeOK, Written
<1>7. Grown(book')
  BY <1>2, <1>4, MigrationParts DEF Grown, MigrationInv
<1>8. /\ home' \in [Meal -> Book \cup {None}]
      /\ \A n \in Meal : home'[n] # None => book'[home'[n]] # None
      /\ \A n \in Meal : home[n] # None => home'[n] # None
      /\ rev = 2 => home'[m] # None
  <2>1. CASE filed /\ rev < 3
    BY <1>2, <1>4, <1>5, <1>7, <2>1, BooksKept DEF MigrationInv, MigrationTypeOK
  <2>2. CASE ~(filed /\ rev < 3)
    <3>1. home' = home /\ rev # 2
      BY <1>2, <1>5, <2>2
    <3> QED  BY <1>7, <3>1, BooksKept DEF MigrationInv, MigrationTypeOK
  <2> QED  BY <2>1, <2>2
<1>9. /\ shelf' \subseteq [book : Book, meal : Meal, later : BOOLEAN]
      /\ \A p \in shelf' : book'[p.book] # None /\ cook'[p.meal] # None
      /\ \A n : On(n) # {} => On(n)' # {}
      /\ rev = 3 => On(m)' # {}
      /\ rev < 3 => shelf' = {}
  <2>0. \A p \in shelf : /\ p \in [book : Book, meal : Meal, later : BOOLEAN]
                         /\ book'[p.book] # None /\ cook'[p.meal] # None
    BY <1>6, <1>7, BooksKept DEF MigrationInv, MigrationTypeOK
  <2>1. CASE filed /\ rev = 3
    <3> DEFINE p == Placement(target, m, TRUE)
    <3>1. p \in [book : Book, meal : Meal, later : BOOLEAN] /\ p.book = target /\ p.meal = m
      BY <1>4, <1>5, <2>1 DEF Placement
    <3>2. shelf' = shelf \cup {p} /\ book'[target] # None /\ cook'[m] # None
      BY <1>2, <1>4, <1>5, <1>6, <2>1
    <3> HIDE DEF p
    <3> QED  BY <2>0, <2>1, <3>1, <3>2 DEF On
  <2>2. CASE ~(filed /\ rev = 3)
    <3>1. shelf' = shelf /\ rev # 3
      BY <1>2, <1>5, <2>2
    <3> QED  BY <2>0, <3>1 DEF On, MigrationInv
  <2> QED  BY <2>1, <2>2
<1>10. MigrationTypeOK'
  BY <1>2, <1>6, <1>7, <1>8, <1>9 DEF MigrationInv, MigrationTypeOK, Grown, BookRow
<1>11. \A n \in Written' : (rev' = 2 => home'[n] # None) /\ (rev' = 3 => On(n)' # {})
  <2>1. \A n \in Written : n \in Meal /\ (rev = 2 => home[n] # None) /\ (rev = 3 => On(n) # {})
    BY MigrationParts DEF MigrationInv
  <2> QED  BY <1>2, <1>6, <1>8, <1>9, <2>1
<1>12. rev' = 0 => \A b \in Book : book'[b] = None
  BY <1>2, <1>5 DEF MigrationInv
<1>13. \A v \in Person : \A b, c \in DefaultsOf(v, book') : b = c
  BY <1>7 DEF Grown
<1> QED  BY <1>2, <1>5, <1>9, <1>10, <1>11, <1>12, <1>13 DEF MigrationInv, DefaultsOf, DefaultRow, Rows

\* Every step keeps the invariant, and an upgrade keeps the readers.
LEMMA MigrationStep == MigrationInv /\ [MigrationNext]_migrationVars => MigrationInv' /\ Kept
<1> SUFFICES ASSUME MigrationInv, [MigrationNext]_migrationVars PROVE MigrationInv' /\ Kept
  OBVIOUS
<1>1. CASE UNCHANGED migrationVars
  BY <1>1 DEF migrationVars, Kept, MigrationInv, MigrationTypeOK, DefaultsOf, DefaultRow, Rows, On,
              Written
<1> QED
  BY <1>1, PivotKeeps, FinalizeKeeps, BoardsKeeps, BackKeeps, UnfoldKeeps, ApplicationKeeps, WriteKeeps
  DEF MigrationNext

\* The constraints of every revision, and what they rest on.
THEOREM MigrationInvariance == MigrationSpec => []MigrationInv
<1>1. MigrationInit => MigrationInv
  <2> SUFFICES ASSUME MigrationInit PROVE MigrationInv
    OBVIOUS
  <2>1. MigrationTypeOK
    BY DEF MigrationInit, MigrationTypeOK, Written
  <2>2. \A u : DefaultsOf(u, book) = {}
    BY DEF MigrationInit, DefaultsOf, Rows
  <2> QED  BY <2>1, <2>2 DEF MigrationInit, MigrationInv
<1> QED  BY <1>1, MigrationStep, PTL DEF MigrationSpec

\* cookbook_id is never NULL once it may not be, every recipe is placed once placements are all
\* there is, and nobody has two defaults, whatever the application wrote between the migrations.
THEOREM ConstraintsKept == MigrationSpec => []ConstraintsHold
<1>1. MigrationInv => ConstraintsHold
  <2> SUFFICES ASSUME MigrationInv, NEW u \in people PROVE Cardinality(DefaultsOf(u, book)) <= 1
    BY DEF MigrationInv, ConstraintsHold
  <2>1. \A b, c \in DefaultsOf(u, book) : b = c
    BY MigrationParts DEF MigrationInv
  <2>2. CASE DefaultsOf(u, book) = {}
    BY <2>2, FS_EmptySet
  <2>3. ASSUME NEW b \in DefaultsOf(u, book) PROVE Cardinality(DefaultsOf(u, book)) <= 1
    <3>1. DefaultsOf(u, book) = {b}
      BY <2>1
    <3>2. Cardinality({b}) = 1
      BY FS_Singleton
    <3> QED  BY <3>1, <3>2
  <2> QED  BY <2>2, <2>3
<1> QED  BY <1>1, MigrationInvariance, PTL

\* Whoever could read a recipe can read it after an upgrade, and nobody but the owners of
\* what its shared cookbook held is let in by the first; the members of the younger ones of
\* several shared cookbooks that held it, whom the first migration cuts off, are the exception.
THEOREM OnlyContestedLost == MigrationSpec => AccessKept
<1>1. MigrationInv /\ [MigrationNext]_migrationVars =>
        [rev' > rev => \A m \in Written :
           /\ Readers(m) \ Losers(m) \subseteq Readers(m)'
           /\ rev = 0 => Readers(m)' \subseteq (Readers(m) \ Losers(m)) \cup Gainers(m)]_migrationVars
  BY MigrationStep DEF Kept
<1> QED  BY <1>1, MigrationInvariance, PTL DEF MigrationSpec, AccessKept

=============================================================================
