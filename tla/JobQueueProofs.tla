--------------------------- MODULE JobQueueProofs ---------------------------
(***************************************************************************)
(* Theorems about JobQueue, for any number of jobs, workers and requests.  *)
(***************************************************************************)
EXTENDS JobQueue, TLAPS

-----------------------------------------------------------------------------
(* The inductive invariant.                                                *)

\* What the program counter says about the rest of a worker's state.
Shape(s) ==
  /\ s.pc = "down" <=> s.tok = Nil
  /\ s.pc \in {"down", "idle", "polled"} <=> s.job = Nil
  /\ s.locked => s.pc \in InSession
  /\ s.staged > 0 => s.pc = "decide" /\ s.outcome = "review"
  /\ s.pc = "decide" => s.outcome \in Outcome

\* No two live processes carry the same token.
TokensDiffer ==
  \A v, w \in Worker : v # w /\ wk[v].pc # "down" => wk[v].tok # wk[w].tok

\* Uncommitted drafts are a job's first, and only one session has any.
StagedFirst ==
  \A w \in Worker : wk[w].staged > 0 =>
    /\ recipes[wk[w].job] = 0
    /\ \A v \in Worker : v # w /\ wk[v].job = wk[w].job => wk[v].staged = 0

ShapeOK == \A w \in Worker : Shape(wk[w])

Inv == TypeOK /\ ShapeOK /\ TokensDiffer /\ StagedFirst

-----------------------------------------------------------------------------
(* Rows stay rows.                                                         *)

LEMMA RowsType ==
  ASSUME NEW row \in JobRow
  PROVE  /\ \A t \in Token : Claimed(row, t) \in JobRow
         /\ \A ids \in 0..MaxDrafts, arts \in SUBSET Artifact, cost \in Nat :
              NeedsReview(row, ids, arts, cost) \in JobRow
         /\ \A arts \in SUBSET Artifact, cost \in Nat : NotARecipe(row, arts, cost) \in JobRow
         /\ \A arts \in SUBSET Artifact, cost \in Nat, retryable \in BOOLEAN :
              Failed(row, arts, cost, retryable) \in JobRow
         /\ Released(row) \in JobRow
         /\ \A seen : Requeued(row, seen) \in JobRow
<1>. DEFINE c == ClearLock(row)
            r == [c EXCEPT !.attempts = c.attempts + 1]
<1>1. c \in JobRow
  BY DEF JobRow, ClearLock
<1>. HIDE DEF c
<1>2. \A arts \in SUBSET Artifact, cost \in Nat :
        c.arts \cup arts \in SUBSET Artifact /\ c.cost + cost \in Nat /\ c.attempts + 1 \in Nat
  BY <1>1 DEF JobRow
<1>3. r \in JobRow /\ r.arts = c.arts /\ r.cost = c.cost
  BY <1>1, <1>2 DEF JobRow
<1>4. \A t \in Token : Claimed(row, t) \in JobRow
  BY DEF JobRow, Status, Claimed
<1>5. ASSUME NEW ids \in 0..MaxDrafts, NEW arts \in SUBSET Artifact, NEW cost \in Nat
      PROVE  NeedsReview(row, ids, arts, cost) \in JobRow
  <2>1. [c EXCEPT !.status = "needs_review", !.ids = ids, !.arts = c.arts \cup arts,
                  !.cost = c.cost + cost] \in JobRow
    BY <1>1, <1>2 DEF JobRow, Status
  <2>2. QED  BY <2>1 DEF NeedsReview, c
<1>6. ASSUME NEW arts \in SUBSET Artifact, NEW cost \in Nat
      PROVE  NotARecipe(row, arts, cost) \in JobRow
  <2>1. [c EXCEPT !.status = "not_a_recipe", !.arts = c.arts \cup arts,
                  !.cost = c.cost + cost] \in JobRow
    BY <1>1, <1>2 DEF JobRow, Status
  <2>2. QED  BY <2>1 DEF NotARecipe, c
<1>7. ASSUME NEW arts \in SUBSET Artifact, NEW cost \in Nat, NEW retryable \in BOOLEAN
      PROVE  Failed(row, arts, cost, retryable) \in JobRow
  <2>. DEFINE f == [r EXCEPT !.arts = r.arts \cup arts, !.cost = r.cost + cost]
  <2>1. f \in JobRow
    BY <1>2, <1>3 DEF JobRow
  <2>. HIDE DEF f
  <2>2. /\ [f EXCEPT !.status = "queued", !.next = "future"] \in JobRow
        /\ [f EXCEPT !.status = "failed", !.next = "null"] \in JobRow
    BY <2>1 DEF JobRow, Status
  <2>3. QED  BY <2>2 DEF Failed, c, r, f
<1>8. Released(row) \in JobRow
  <2>. HIDE DEF r
  <2>1. [r EXCEPT !.status = "queued"] \in JobRow /\ [r EXCEPT !.status = "failed"] \in JobRow
    BY <1>3 DEF JobRow, Status
  <2>2. QED  BY <2>1 DEF Released, c, r
<1>9. ASSUME NEW seen PROVE Requeued(row, seen) \in JobRow
  <2>. DEFINE a == IF seen.attempts # 0 THEN 0 ELSE row.attempts
              n == IF seen.next # "null" THEN "null" ELSE row.next
  <2>1. a \in Nat /\ n \in {"null", "future", "past"}
    BY DEF JobRow
  <2>. HIDE DEF a, n
  <2>2. [row EXCEPT !.status = "queued", !.attempts = a, !.next = n] \in JobRow
    BY <2>1 DEF JobRow, Status
  <2>. QED  BY <2>2 DEF Requeued, a, n
<1>10. QED
  BY <1>4, <1>5, <1>6, <1>7, <1>8, <1>9

LEMMA RestingType ==
  ASSUME NEW pc \in PC, NEW t \in Token \cup {Nil}
  PROVE  Resting(pc, t) \in WorkerState
  BY JobQueueAssumption DEF Resting, WorkerState

LEMMA SpendType ==
  ASSUME TypeOK, NEW w \in Worker
  PROVE  /\ Total(w) \in Nat
         /\ \A c \in Spend(w) : /\ c \in Nat /\ wk[w].spent + c \in Nat
                                /\ Total(w) <= MaxCost => Total(w) + c <= MaxCost
         /\ 0 \in Spend(w)
  BY JobQueueAssumption DEF TypeOK, WorkerState, Total, Spend, MaxCost

LEMMA InitInv == Init => Inv
  BY JobQueueAssumption
     DEF Init, Inv, TypeOK, ShapeOK, Shape, TokensDiffer, StagedFirst, JobRow, Status, NewRow,
         Resting, WorkerState, PC, InSession, RequestState, NoRequest

-----------------------------------------------------------------------------
(* What the steps inside a session change.                                 *)

InSessionStep(w) ==
  \/ AcquireRetained(w) \/ AcquireText(w) \/ AcquireSource(w) \/ Flush(w)
  \/ Normalize(w) \/ Persist(w)

\* Where such a step takes its worker: s is the new state.
SessionState(w, s) ==
  /\ s \in WorkerState
  /\ s.tok = wk[w].tok /\ s.job = wk[w].job /\ s.cost = wk[w].cost
  /\ s.pc \in InSession
  /\ s.pc = "decide" => s.outcome \in Outcome
  /\ wk[w].locked => s.locked
  /\ Total(w) <= MaxCost => s.cost + s.spent <= MaxCost
  /\ s.staged > 0 => /\ s.pc = "decide" /\ s.outcome = "review"
                     /\ recipes[s.job] = 0 /\ ~IndexBusy(w)

LEMMA DecideState ==
  ASSUME Inv, NEW w \in Worker, wk[w].pc \in InSession \ {"decide"}, NEW c \in Spend(w),
         NEW o \in Outcome
  PROVE  SessionState(w, [wk[w] EXCEPT !.pc = "decide", !.spent = @ + c, !.outcome = o])
<1>1. wk[w] \in WorkerState /\ wk[w].staged = 0
  BY JobQueueAssumption DEF Inv, TypeOK, ShapeOK, Shape, WorkerState
<1>2. c \in Nat /\ wk[w].spent + c \in Nat /\ (Total(w) <= MaxCost => Total(w) + c <= MaxCost)
  BY SpendType DEF Inv
<1>3. [wk[w] EXCEPT !.pc = "decide", !.spent = @ + c, !.outcome = o] \in WorkerState
  BY <1>1, <1>2 DEF WorkerState, PC, InSession
<1>4. QED
  BY <1>1, <1>2, <1>3 DEF SessionState, InSession, Total, WorkerState

LEMMA SessionEffect ==
  ASSUME Inv, NEW w \in Worker, InSessionStep(w)
  PROVE  /\ wk[w].pc \in InSession
         /\ wk' = [wk EXCEPT ![w] = wk'[w]]
         /\ SessionState(w, wk'[w])
         /\ UNCHANGED <<job, recipes, req, retried>>
<1>. USE DEF InSessionStep
<1>1. wk[w] \in WorkerState /\ wk \in [Worker -> WorkerState]
  BY DEF Inv, TypeOK
<1>2. wk[w].pc \in InSession \ {"decide"} => wk[w].staged = 0
  BY <1>1, JobQueueAssumption DEF Inv, ShapeOK, Shape, WorkerState
<1>. DEFINE Effect(s) == wk' = [wk EXCEPT ![w] = s] /\ SessionState(w, s)
            Other == UNCHANGED <<job, recipes, req, retried>>
<1>3. wk[w].arts \cup {"raw_text_ref"} \in SUBSET Artifact
      /\ wk[w].arts \cup {"acquired_meta"} \in SUBSET Artifact
  BY <1>1 DEF WorkerState, Artifact
<1>4. \A c \in Spend(w) : /\ c \in Nat /\ wk[w].spent + c \in Nat
                          /\ Total(w) <= MaxCost => Total(w) + c <= MaxCost
  BY SpendType DEF Inv
<1>5. ASSUME NEW s, Effect(s)
      PROVE  wk' = [wk EXCEPT ![w] = wk'[w]] /\ SessionState(w, wk'[w])
  BY <1>1, <1>5
<1>6. ASSUME NEW c \in Spend(w), NEW o \in Outcome, wk[w].pc \in InSession \ {"decide"},
             Decide(w, c, o)
      PROVE  Effect([wk[w] EXCEPT !.pc = "decide", !.spent = @ + c, !.outcome = o])
  BY <1>6, DecideState DEF Decide, Become
<1>7. ASSUME NEW c \in Spend(w), wk[w].pc \in InSession \ {"decide"}, CostCapExceeded(w, c)
      PROVE  Effect([wk[w] EXCEPT !.pc = "decide", !.spent = @ + c, !.outcome = "terminal"])
  BY <1>6, <1>7 DEF CostCapExceeded, Outcome
<1>8. (\E s : Effect(s)) /\ wk[w].pc \in InSession /\ UNCHANGED <<job, recipes, req, retried>>
  <2>1. CASE AcquireRetained(w)
    <3>1. Effect([wk[w] EXCEPT !.pc = "normalize"])
      BY <1>1, <1>2, <2>1
         DEF AcquireRetained, Become, SessionState, WorkerState, PC, InSession, Total
    <3>. HIDE DEF Effect
    <3>. QED  BY <2>1, <3>1 DEF AcquireRetained, InSession
  <2>2. CASE AcquireText(w)
    <3>. DEFINE s == [wk[w] EXCEPT !.pc = "normalize", !.arts = @ \cup {"raw_text_ref"}]
    <3>1. Effect(s)
      <4>1. s \in WorkerState
        BY <1>1, <1>3 DEF WorkerState, PC, InSession
      <4>2. SessionState(w, s)
        BY <1>1, <1>2, <2>2, <4>1, JobQueueAssumption
           DEF AcquireText, SessionState, WorkerState, InSession, Total
      <4>. QED  BY <2>2, <4>2 DEF AcquireText, Become
    <3>. HIDE DEF Effect
    <3>. QED  BY <2>2, <3>1 DEF AcquireText, InSession
  <2>3. CASE AcquireSource(w)
    <3>. DEFINE then == IF "acquired_meta" \in wk[w].arts THEN "normalize" ELSE "flush"
    <3>1. wk[w].pc \in InSession \ {"decide"} /\ UNCHANGED <<job, recipes, req, retried>>
      BY <2>3 DEF AcquireSource, InSession
    <3>2. PICK c \in Spend(w) : \/ Become(w, [wk[w] EXCEPT !.spent = @ + c, !.pc = then])
                                \/ Decide(w, c, "retry")
                                \/ CostCapExceeded(w, c)
      BY <2>3 DEF AcquireSource
    <3>3. CASE Become(w, [wk[w] EXCEPT !.spent = @ + c, !.pc = then])
      <4>1. then \in InSession \ {"decide"}
        BY DEF InSession
      <4>. HIDE DEF then
      <4>. DEFINE s == [wk[w] EXCEPT !.spent = @ + c, !.pc = then]
      <4>2. s \in WorkerState
        BY <1>1, <1>4, <4>1 DEF WorkerState, PC, InSession
      <4>3. SessionState(w, s)
        BY <1>1, <1>2, <1>4, <3>1, <4>1, <4>2, JobQueueAssumption
           DEF SessionState, WorkerState, Total
      <4>4. Effect(s)
        BY <3>3, <4>3 DEF Become
      <4>. HIDE DEF Effect, s
      <4>. QED  BY <3>1, <4>4
    <3>. HIDE DEF Effect
    <3>. QED  BY <1>6, <1>7, <3>1, <3>2, <3>3 DEF Outcome
  <2>4. CASE Flush(w)
    <3>. DEFINE s == [wk[w] EXCEPT !.pc = "normalize", !.locked = TRUE,
                                   !.arts = @ \cup {"acquired_meta"}]
    <3>1. Effect(s)
      <4>1. s \in WorkerState
        BY <1>1, <1>3 DEF WorkerState, PC, InSession
      <4>2. SessionState(w, s)
        BY <1>1, <1>2, <2>4, <4>1, JobQueueAssumption
           DEF Flush, SessionState, WorkerState, InSession, Total
      <4>. QED  BY <2>4, <4>2 DEF Flush, Become
    <3>. HIDE DEF Effect
    <3>. QED  BY <2>4, <3>1 DEF Flush, InSession
  <2>5. CASE Normalize(w)
    <3>1. wk[w].pc \in InSession \ {"decide"} /\ UNCHANGED <<job, recipes, req, retried>>
      BY <2>5 DEF Normalize, InSession
    <3>2. PICK c \in Spend(w) :
            \/ \E n \in 0..MaxDrafts :
                 Become(w, [wk[w] EXCEPT !.pc = "persist", !.spent = @ + c, !.found = n])
            \/ Decide(w, c, "not_a_recipe")
            \/ CostCapExceeded(w, c)
      BY <2>5 DEF Normalize
    <3>3. ASSUME NEW n \in 0..MaxDrafts,
                 Become(w, [wk[w] EXCEPT !.pc = "persist", !.spent = @ + c, !.found = n])
          PROVE  Effect([wk[w] EXCEPT !.pc = "persist", !.spent = @ + c, !.found = n])
      <4>. DEFINE s == [wk[w] EXCEPT !.pc = "persist", !.spent = @ + c, !.found = n]
      <4>1. s \in WorkerState
        BY <1>1, <1>4 DEF WorkerState, PC, InSession
      <4>2. SessionState(w, s)
        BY <1>1, <1>2, <1>4, <3>1, <4>1, JobQueueAssumption
           DEF SessionState, WorkerState, InSession, Total
      <4>. QED  BY <3>3, <4>2 DEF Become
    <3>. HIDE DEF Effect
    <3>. QED  BY <1>6, <1>7, <3>1, <3>2, <3>3 DEF Outcome
  <2>6. CASE Persist(w)
    <3>1. wk[w].pc \in InSession \ {"decide"} /\ UNCHANGED <<job, recipes, req, retried>>
      BY <2>6 DEF Persist, InSession
    <3>2. 0 \in Spend(w)
      BY SpendType DEF Inv
    <3>3. ASSUME NEW c \in Spend(w), ~Duplicate(w), ~IndexBusy(w), wk[w].found > 0,
                 Become(w, [wk[w] EXCEPT !.pc = "decide", !.spent = @ + c, !.outcome = "review",
                                         !.staged = wk[w].found])
          PROVE  Effect([wk[w] EXCEPT !.pc = "decide", !.spent = @ + c, !.outcome = "review",
                                      !.staged = wk[w].found])
      <4>. DEFINE s == [wk[w] EXCEPT !.pc = "decide", !.spent = @ + c, !.outcome = "review",
                                     !.staged = wk[w].found]
      <4>1. s \in WorkerState
        BY <1>1, <1>4 DEF WorkerState, PC, InSession, Outcome
      <4>2. recipes[wk[w].job] = 0
        <5>1. wk[w].job \in Job
          BY <1>1, <3>1 DEF InSession, WorkerState, Inv, ShapeOK, Shape
        <5>. QED  BY <3>3, <5>1, JobQueueAssumption DEF Duplicate, Inv, TypeOK
      <4>3. SessionState(w, s)
        BY <1>1, <1>4, <3>1, <3>3, <4>1, <4>2
           DEF SessionState, WorkerState, InSession, Total, Outcome
      <4>. QED  BY <3>3, <4>3 DEF Become
    <3>. HIDE DEF Effect
    <3>. QED  BY <1>6, <1>7, <2>6, <3>1, <3>2, <3>3 DEF Persist, Outcome
  <2>. QED  BY <2>1, <2>2, <2>3, <2>4, <2>5, <2>6
<1>. HIDE DEF Effect
<1>9. QED
  BY <1>5, <1>8

-----------------------------------------------------------------------------
(* The invariant is preserved.                                             *)

\* A step that replaces the state of one worker.
LEMMA WorkerStep ==
  ASSUME Inv, NEW w \in Worker, NEW s \in WorkerState,
         wk' = [wk EXCEPT ![w] = s], Shape(s),
         \/ s.tok = Nil \/ Fresh(s.tok)
         \/ s.tok = wk[w].tok /\ wk[w].pc # "down",
         s.staged > 0 => s.job = wk[w].job /\ recipes'[s.job] = 0 /\ ~IndexBusy(w),
         \A v \in Worker : v # w /\ wk[v].staged > 0 => recipes'[wk[v].job] = 0
  PROVE  wk' \in [Worker -> WorkerState] /\ ShapeOK' /\ TokensDiffer' /\ StagedFirst'
<1>1. /\ wk \in [Worker -> WorkerState]
      /\ wk' \in [Worker -> WorkerState]
      /\ wk'[w] = s
      /\ \A v \in Worker : v # w => wk'[v] = wk[v]
  BY DEF Inv, TypeOK
<1>2. ShapeOK'
  BY <1>1 DEF Inv, ShapeOK, Shape
<1>3. TokensDiffer'
  BY <1>1, <1>2, JobQueueAssumption DEF Inv, ShapeOK, Shape, TokensDiffer, Fresh
<1>4. StagedFirst'
  <2>. SUFFICES ASSUME NEW u \in Worker, wk'[u].staged > 0
       PROVE  /\ recipes'[wk'[u].job] = 0
              /\ \A v \in Worker : v # u /\ wk'[v].job = wk'[u].job => wk'[v].staged = 0
    BY DEF StagedFirst
  <2>1. \A v \in Worker : wk[v].staged \in Nat /\ wk'[v].staged \in Nat
    BY <1>1, JobQueueAssumption DEF WorkerState
  <2>2. CASE u = w
    BY <1>1, <2>1, <2>2 DEF IndexBusy
  <2>3. CASE u # w
    BY <1>1, <2>1, <2>3 DEF Inv, StagedFirst, IndexBusy
  <2>. QED  BY <2>2, <2>3
<1>5. QED
  BY <1>1, <1>2, <1>3, <1>4

LEMMA SessionInv ==
  ASSUME Inv, NEW w \in Worker, InSessionStep(w)
  PROVE  Inv'
<1>1. /\ wk' = [wk EXCEPT ![w] = wk'[w]] /\ wk[w].pc \in InSession
      /\ SessionState(w, wk'[w]) /\ UNCHANGED <<job, recipes, req, retried>>
  BY SessionEffect
<1>2. Shape(wk[w]) /\ wk[w] \in WorkerState
  BY DEF Inv, ShapeOK, TypeOK
<1>3. Shape(wk'[w])
  BY <1>1, <1>2, JobQueueAssumption DEF Shape, SessionState, InSession
<1>4. wk' \in [Worker -> WorkerState] /\ ShapeOK' /\ TokensDiffer' /\ StagedFirst'
  BY <1>1, <1>2, <1>3, WorkerStep DEF SessionState, InSession, Inv, StagedFirst
<1>5. QED
  BY <1>1, <1>4 DEF Inv, TypeOK

\* A worker comes to rest, or forgets its session.
LEMMA RestingState ==
  /\ \A t \in Token :
       /\ Resting("idle", t) \in WorkerState /\ Shape(Resting("idle", t))
       /\ Resting("idle", t).tok = t /\ Resting("idle", t).staged = 0
  /\ Resting("down", Nil) \in WorkerState /\ Shape(Resting("down", Nil))
  /\ Resting("down", Nil).tok = Nil /\ Resting("down", Nil).staged = 0
<1>1. \A pc \in {"idle", "down"}, t \in Token \cup {Nil} : Resting(pc, t) \in WorkerState
  BY RestingType DEF PC
<1>2. \A t \in Token : Shape(Resting("idle", t))
  BY JobQueueAssumption DEF Resting, Shape
<1>3. Shape(Resting("down", Nil))
  BY DEF Resting, Shape
<1>4. QED
  BY <1>1, <1>2, <1>3 DEF Resting

LEMMA CrashedState ==
  ASSUME Inv, NEW w \in Worker, wk[w].job # Nil, NEW cost \in Nat
  PROVE  /\ Crashed(w, cost) \in WorkerState /\ Shape(Crashed(w, cost))
         /\ Crashed(w, cost).tok = wk[w].tok /\ Crashed(w, cost).staged = 0
         /\ Crashed(w, cost).pc = "crashed" /\ Crashed(w, cost).job = wk[w].job
         /\ Crashed(w, cost).spent = cost
<1>1. wk[w] \in WorkerState /\ Shape(wk[w])
  BY DEF Inv, TypeOK, ShapeOK
<1>2. wk[w].tok \in Token /\ wk[w].job \in Job
  BY <1>1 DEF WorkerState, Shape
<1>. DEFINE s == Resting("crashed", wk[w].tok)
<1>3. s \in WorkerState /\ s.tok = wk[w].tok /\ s.staged = 0 /\ s.pc = "crashed" /\ s.locked = FALSE
  BY <1>2, RestingType DEF PC, Resting
<1>. HIDE DEF s
<1>4. [s EXCEPT !.job = wk[w].job, !.spent = cost] \in WorkerState
  BY <1>2, <1>3 DEF WorkerState
<1>5. QED
  BY <1>2, <1>3, <1>4, JobQueueAssumption DEF s, Crashed, Shape, WorkerState

LEMMA TransitionType ==
  ASSUME Inv, NEW w \in Worker, NEW row \in JobRow, wk[w].outcome \in Outcome
  PROVE  Transition(w, row) \in JobRow
<1>1. /\ wk[w].staged \in 0..MaxDrafts /\ wk[w].spent \in Nat
      /\ Acquired(w) \in SUBSET Artifact /\ Flushed(w) \in SUBSET Artifact
  BY DEF Inv, TypeOK, WorkerState, Acquired, Flushed, Artifact
<1>2. QED
  BY <1>1, RowsType DEF Transition, Outcome

LEMMA NextInv == Inv /\ [Next]_vars => Inv'
<1>. SUFFICES ASSUME Inv, [Next]_vars PROVE Inv'
  OBVIOUS
<1>. USE JobQueueAssumption
<1>. DEFINE WorkersOK == wk' \in [Worker -> WorkerState] /\ ShapeOK' /\ TokensDiffer' /\ StagedFirst'
<1>0. /\ recipes' = recipes =>
           \A w \in Worker : wk[w].staged > 0 => recipes'[wk[w].job] = 0
      /\ \A w \in Worker : wk[w] \in WorkerState /\ Shape(wk[w])
      /\ \A w \in Worker : wk[w].pc # "down" => wk[w].tok \in Token
      /\ \A w \in Worker : wk[w].pc \notin {"down", "idle", "polled"} => wk[w].job \in Job
      /\ \A j \in Job : job[j] \in JobRow
  BY DEF Inv, TypeOK, ShapeOK, Shape, WorkerState, StagedFirst
<1>1. ASSUME UNCHANGED <<wk, recipes>> PROVE WorkersOK
  BY <1>1 DEF Inv, TypeOK, ShapeOK, Shape, TokensDiffer, StagedFirst
<1>2. ASSUME NEW j \in Job, Submit(j) \/ LockAges(j) \/ BackoffElapses(j) PROVE Inv'
  <2>1. job' \in [Job -> JobRow]
    <3>1. job[j] \in JobRow
      BY <1>0
    <3>2. [job[j] EXCEPT !.status = "queued"] \in JobRow
      BY <3>1 DEF JobRow, Status
    <3>3. [job[j] EXCEPT !.stale = TRUE] \in JobRow /\ [job[j] EXCEPT !.next = "past"] \in JobRow
      BY <3>1 DEF JobRow
    <3>. QED  BY <1>2, <3>2, <3>3 DEF Submit, LockAges, BackoffElapses, Inv, TypeOK
  <2>2. UNCHANGED <<recipes, wk, req, retried>>
    BY <1>2 DEF Submit, LockAges, BackoffElapses
  <2>. QED  BY <1>1, <2>1, <2>2 DEF Inv, TypeOK
<1>3. ASSUME NEW r \in Request, RetryWrite(r) PROVE Inv'
  <2>. DEFINE j == req[r].job
  <2>1. j \in Job /\ NoRequest \in RequestState
    BY <1>3 DEF Inv, TypeOK, RetryWrite, RequestState, NoRequest
  <2>2. Requeued(job[j], req[r]) \in JobRow
    BY <1>0, <2>1, RowsType
  <2>3. /\ job' = [job EXCEPT ![j] = Requeued(job[j], req[r])]
        /\ req' = [req EXCEPT ![r] = NoRequest] /\ UNCHANGED <<recipes, wk, retried>>
    BY <1>3 DEF RetryWrite
  <2>. HIDE DEF j
  <2>. QED  BY <1>1, <2>1, <2>2, <2>3 DEF Inv, TypeOK
<1>4. ASSUME NEW r \in Request, NEW j \in Job, RetryRead(r, j) PROVE Inv'
  BY <1>1, <1>4 DEF RetryRead, Inv, TypeOK, JobRow, RequestState
<1>5. ASSUME NEW w \in Worker, Start(w) PROVE Inv'
  <2>1. PICK t \in Token : Fresh(t) /\ wk' = [wk EXCEPT ![w] = Resting("idle", t)]
    BY <1>5 DEF Start, Become
  <2>2. WorkersOK
    <3>. DEFINE s == Resting("idle", t)
    <3>1. s \in WorkerState /\ Shape(s) /\ s.tok = t /\ ~(s.staged > 0)
      BY RestingState
    <3>2. wk' = [wk EXCEPT ![w] = s] /\ recipes' = recipes /\ Fresh(s.tok)
      BY <1>5, <2>1, <3>1 DEF Start
    <3>. HIDE DEF s
    <3>. QED  BY <1>0, <3>1, <3>2, WorkerStep
  <2>. QED  BY <1>5, <2>2 DEF Start, Inv, TypeOK
<1>6. ASSUME NEW w \in Worker, Die(w) PROVE Inv'
  <2>2. WorkersOK
    <3>. DEFINE s == Resting("down", Nil)
    <3>1. s \in WorkerState /\ Shape(s) /\ s.tok = Nil /\ ~(s.staged > 0)
      BY RestingState
    <3>2. wk' = [wk EXCEPT ![w] = s] /\ recipes' = recipes
      BY <1>6 DEF Die, Become
    <3>. HIDE DEF s
    <3>. QED  BY <1>0, <3>1, <3>2, WorkerStep
  <2>. QED  BY <1>6, <2>2 DEF Die, Inv, TypeOK
<1>7. ASSUME NEW w \in Worker, ReleaseStale(w) PROVE Inv'
  <2>1. \A j \in Job : Released(job[j]) \in JobRow
    <3>. SUFFICES ASSUME NEW j \in Job PROVE Released(job[j]) \in JobRow
      OBVIOUS
    <3>. QED  BY <1>0, RowsType
  <2>2. job' \in [Job -> JobRow]
    BY <1>7, <2>1 DEF Inv, TypeOK, ReleaseStale
  <2>3. WorkersOK
    <3>. DEFINE s == [wk[w] EXCEPT !.pc = "polled"]
    <3>1. s \in WorkerState /\ Shape(s) /\ s.tok = wk[w].tok /\ ~(s.staged > 0)
      <4>1. wk[w] \in WorkerState /\ Shape(wk[w]) /\ wk[w].pc = "idle"
        BY <1>0, <1>7 DEF ReleaseStale
      <4>. QED  BY <4>1 DEF WorkerState, PC, Shape, InSession
    <3>2. wk' = [wk EXCEPT ![w] = s] /\ recipes' = recipes /\ wk[w].pc # "down"
      BY <1>7 DEF ReleaseStale, Become
    <3>. HIDE DEF s
    <3>. QED  BY <1>0, <3>1, <3>2, WorkerStep
  <2>. QED  BY <1>7, <2>2, <2>3 DEF Inv, TypeOK, ReleaseStale
<1>8. ASSUME NEW w \in Worker, ClaimNext(w) PROVE Inv'
  <2>1. wk[w].tok \in Token /\ wk[w].pc = "polled" /\ recipes' = recipes
    BY <1>0, <1>8 DEF ClaimNext
  <2>2. \A j \in Job : Claimed(job[j], wk[w].tok) \in JobRow
    <3>. SUFFICES ASSUME NEW j \in Job PROVE Claimed(job[j], wk[w].tok) \in JobRow
      OBVIOUS
    <3>. QED  BY <1>0, <2>1, RowsType
  <2>3. job' \in [Job -> JobRow]
    BY <1>8, <2>2 DEF ClaimNext, Inv, TypeOK
  <2>4. PICK s : /\ wk' = [wk EXCEPT ![w] = s]
                 /\ \/ s = [wk[w] EXCEPT !.pc = "idle"]
                    \/ \E j \in Job : s = [wk[w] EXCEPT !.pc = "claimed", !.job = j]
    BY <1>8 DEF ClaimNext, Become
  <2>5. s \in WorkerState /\ Shape(s) /\ s.tok = wk[w].tok /\ ~(s.staged > 0)
    <3>1. wk[w] \in WorkerState /\ Shape(wk[w])
      BY <1>0
    <3>2. CASE s = [wk[w] EXCEPT !.pc = "idle"]
      BY <2>1, <3>1, <3>2 DEF WorkerState, PC, Shape, InSession
    <3>3. ASSUME NEW j \in Job, s = [wk[w] EXCEPT !.pc = "claimed", !.job = j]
          PROVE  s \in WorkerState /\ Shape(s) /\ s.tok = wk[w].tok /\ ~(s.staged > 0)
      BY <2>1, <3>1, <3>3 DEF WorkerState, PC, Shape, InSession
    <3>. QED  BY <2>4, <3>2, <3>3
  <2>6. WorkersOK
    BY <1>0, <2>1, <2>4, <2>5, WorkerStep
  <2>. QED  BY <1>8, <2>3, <2>6 DEF ClaimNext, Inv, TypeOK
<1>9. ASSUME NEW w \in Worker, Load(w) PROVE Inv'
  <2>. DEFINE s == [wk[w] EXCEPT !.pc = "acquire", !.arts = job[wk[w].job].arts,
                                 !.cost = job[wk[w].job].cost]
  <2>1. wk[w].pc = "claimed" /\ wk' = [wk EXCEPT ![w] = s]
        /\ UNCHANGED <<job, recipes, req, retried>>
    BY <1>9 DEF Load, Become
  <2>2. wk[w] \in WorkerState /\ Shape(wk[w])
        /\ job[wk[w].job].arts \in SUBSET Artifact /\ job[wk[w].job].cost \in Nat
    BY <1>0, <2>1 DEF JobRow
  <2>3. s \in WorkerState /\ Shape(s) /\ s.tok = wk[w].tok /\ ~(s.staged > 0)
    BY <2>1, <2>2 DEF WorkerState, PC, Shape, InSession
  <2>. HIDE DEF s
  <2>4. WorkersOK
    BY <1>0, <2>1, <2>3, WorkerStep
  <2>. QED  BY <2>1, <2>4 DEF Inv, TypeOK
<1>10. ASSUME NEW w \in Worker, Raise(w) PROVE Inv'
  <2>1. PICK cost \in Nat : wk' = [wk EXCEPT ![w] = Crashed(w, cost)]
    <3>1. wk[w].spent \in Nat /\ \A c \in Spend(w) : wk[w].spent + c \in Nat
      BY <1>0, SpendType DEF Inv, WorkerState
    <3>. QED  BY <1>10, <3>1 DEF Raise, Become
  <2>2. wk[w].pc # "down" /\ wk[w].job # Nil /\ UNCHANGED <<job, recipes, req, retried>>
    BY <1>0, <1>10 DEF Raise, InSession
  <2>3. WorkersOK
    <3>. DEFINE s == Crashed(w, cost)
    <3>1. s \in WorkerState /\ Shape(s) /\ s.tok = wk[w].tok /\ ~(s.staged > 0)
      BY <2>2, CrashedState
    <3>2. wk' = [wk EXCEPT ![w] = s]
      BY <2>1
    <3>. HIDE DEF s
    <3>. QED  BY <1>0, <2>2, <3>1, <3>2, WorkerStep
  <2>. QED  BY <2>2, <2>3 DEF Inv, TypeOK
<1>11. ASSUME NEW w \in Worker, Finish(w) PROVE Inv'
  <2>. DEFINE j == wk[w].job
  <2>1. /\ wk[w].pc = "decide" /\ j \in Job /\ wk[w].outcome \in Outcome
        /\ wk[w].staged \in 0..MaxDrafts /\ recipes[j] \in 0..MaxDrafts
        /\ wk[w].staged > 0 =>
             recipes[j] = 0 /\ \A v \in Worker : v # w /\ wk[v].job = j => wk[v].staged = 0
    BY <1>0, <1>11 DEF Finish, Shape, WorkerState, Inv, TypeOK, StagedFirst
  <2>2. /\ job' = job \/ job' = [job EXCEPT ![j] = Transition(w, job[j])]
        /\ recipes' = recipes \/ recipes' = [recipes EXCEPT ![j] = recipes[j] + wk[w].staged]
        /\ wk' = [wk EXCEPT ![w] = Resting("idle", wk[w].tok)]
             \/ wk' = [wk EXCEPT ![w] = Crashed(w, 0)]
        /\ UNCHANGED <<req, retried>>
    BY <1>11 DEF Finish, Become
  <2>3. Transition(w, job[j]) \in JobRow
    BY <1>0, <2>1, TransitionType
  <2>4. recipes' \in [Job -> 0..MaxDrafts]
    BY <2>1, <2>2 DEF Inv, TypeOK
  <2>5. \A v \in Worker : v # w /\ wk[v].staged > 0 => recipes'[wk[v].job] = 0
    <3>. SUFFICES ASSUME NEW v \in Worker, v # w, wk[v].staged > 0
         PROVE  recipes'[wk[v].job] = 0
      OBVIOUS
    <3>1. recipes[wk[v].job] = 0 /\ wk[v].job \in Job
      BY <1>0 DEF Inv, StagedFirst, Shape
    <3>2. wk[v].job = j => wk[w].staged = 0
      BY <2>1
    <3>3. recipes \in [Job -> 0..MaxDrafts]
      BY DEF Inv, TypeOK
    <3>4. CASE wk[v].job = j
      BY <2>1, <2>2, <3>1, <3>2, <3>3, <3>4
    <3>5. CASE wk[v].job # j
      <4>. HIDE DEF j
      <4>. QED  BY <2>1, <2>2, <3>1, <3>3, <3>5
    <3>. QED  BY <3>4, <3>5
  <2>6. PICK s : /\ wk' = [wk EXCEPT ![w] = s]
                 /\ s = Resting("idle", wk[w].tok) \/ s = Crashed(w, 0)
    BY <2>2
  <2>7. wk[w].tok \in Token /\ wk[w].job # Nil
    BY <1>0, <2>1
  <2>8. s \in WorkerState /\ Shape(s) /\ s.tok = wk[w].tok /\ ~(s.staged > 0)
    BY <2>6, <2>7, RestingState, CrashedState
  <2>9. WorkersOK
    BY <2>1, <2>5, <2>6, <2>8, WorkerStep
  <2>. QED  BY <2>2, <2>3, <2>4, <2>9 DEF Inv, TypeOK
<1>12. ASSUME NEW w \in Worker, RecordCrash(w) PROVE Inv'
  <2>. DEFINE j == wk[w].job
              s == Resting("idle", wk[w].tok)
  <2>1. wk[w].pc = "crashed" /\ j \in Job /\ wk[w].tok \in Token /\ wk[w].spent \in Nat
    BY <1>0, <1>12 DEF RecordCrash, WorkerState
  <2>2. /\ job' = job \/ job' = [job EXCEPT ![j] = Failed(job[j], {}, wk[w].spent, TRUE)]
        /\ wk' = [wk EXCEPT ![w] = s] /\ UNCHANGED <<recipes, req, retried>>
    BY <1>12 DEF RecordCrash, Become
  <2>3. Failed(job[j], {}, wk[w].spent, TRUE) \in JobRow
    BY <1>0, <2>1, RowsType
  <2>4. s \in WorkerState /\ Shape(s) /\ s.tok = wk[w].tok /\ ~(s.staged > 0)
    BY <2>1, RestingState
  <2>. HIDE DEF s
  <2>5. WorkersOK
    BY <1>0, <2>1, <2>2, <2>4, WorkerStep
  <2>. QED  BY <2>2, <2>3, <2>5 DEF Inv, TypeOK
<1>20. CASE UNCHANGED vars
  BY <1>20, <1>1 DEF Inv, TypeOK, vars
<1>21. QED
  BY <1>2, <1>3, <1>4, <1>5, <1>6, <1>7, <1>8, <1>9, <1>10, <1>11, <1>12, <1>20, SessionInv
     DEF Next, Process, InSessionStep

\* The inductive invariant of the queue, for any jobs, workers and requests.
THEOREM Invariance == Spec => []Inv
<1>. QED  BY InitInv, NextInv, PTL DEF Spec

\* Every variable keeps its type; a job in particular never has more committed
\* recipes than one extraction yields.
THEOREM TypeCorrect == Spec => []TypeOK
<1>1. Inv => TypeOK
  BY DEF Inv
<1>. QED  BY <1>1, Invariance, PTL

\* No two processes hold the claim of the same job.
THEOREM ClaimsExclusive == Spec => []OneOwner
<1>1. Inv => OneOwner
  BY DEF Inv, ShapeOK, Shape, TokensDiffer, OneOwner, Owns
<1>. QED  BY <1>1, Invariance, PTL

-----------------------------------------------------------------------------
(* What one step does to one row, and to one worker.                       *)

\* The columns each row operation sets, and those it keeps.
Kept(r, row) == r.attempts = row.attempts /\ r.ids = row.ids /\ r.cost = row.cost

LEMMA ClaimedFields ==
  ASSUME NEW row \in JobRow, NEW t
  PROVE  /\ Claimed(row, t).status = "running" /\ Claimed(row, t).by = t
         /\ Kept(Claimed(row, t), row)
  BY DEF JobRow, Claimed, Kept

LEMMA RequeuedFields ==
  ASSUME NEW row \in JobRow, NEW seen
  PROVE  /\ Requeued(row, seen).status = "queued" /\ Requeued(row, seen).by = row.by
         /\ Requeued(row, seen).attempts = IF seen.attempts # 0 THEN 0 ELSE row.attempts
         /\ Requeued(row, seen).ids = row.ids /\ Requeued(row, seen).cost = row.cost
  BY DEF JobRow, Requeued

Abandoned(r, row) ==
  /\ r.by = Nil /\ r.attempts = row.attempts + 1 /\ r.ids = row.ids
  /\ r.status = "failed" \/ (r.status = "queued" /\ row.attempts + 1 < MaxAttempts)

LEMMA ClearedFields ==
  ASSUME NEW row \in JobRow
  PROVE  /\ ClearLock(row) \in JobRow /\ ClearLock(row).by = Nil
         /\ ClearLock(row).attempts = row.attempts
         /\ ClearLock(row).ids = row.ids /\ ClearLock(row).cost = row.cost
  BY DEF JobRow, ClearLock

LEMMA ReleasedFields ==
  ASSUME NEW row \in JobRow
  PROVE  Abandoned(Released(row), row) /\ Released(row).cost = row.cost
<1>. DEFINE c == ClearLock(row)
            d == [c EXCEPT !.attempts = @ + 1]
            r == [d EXCEPT !.status = IF d.attempts < MaxAttempts THEN "queued" ELSE "failed"]
<1>1. Released(row) = r
  BY DEF Released
<1>2. c \in JobRow /\ c.by = Nil /\ c.attempts = row.attempts /\ c.ids = row.ids /\ c.cost = row.cost
  BY ClearedFields
<1>. HIDE DEF c
<1>3. d \in JobRow /\ d.by = Nil /\ d.attempts = row.attempts + 1 /\ d.ids = row.ids /\ d.cost = row.cost
  BY <1>2 DEF JobRow
<1>. HIDE DEF d
<1>4. /\ r.by = Nil /\ r.attempts = d.attempts /\ r.ids = row.ids /\ r.cost = row.cost
      /\ r.status = IF d.attempts < MaxAttempts THEN "queued" ELSE "failed"
  BY <1>3 DEF JobRow
<1>. HIDE DEF r
<1>5. QED
  BY <1>1, <1>3, <1>4 DEF Abandoned

\* The two ways of failing.
Recovers(row, arts, cost) == Failed(row, arts, cost, TRUE)
GivesUp(row, arts, cost) == Failed(row, arts, cost, FALSE)

LEMMA FailedFields ==
  ASSUME NEW row \in JobRow, NEW arts, NEW cost
  PROVE  /\ Abandoned(Recovers(row, arts, cost), row)
         /\ Recovers(row, arts, cost).cost = row.cost + cost
         /\ Abandoned(GivesUp(row, arts, cost), row)
         /\ GivesUp(row, arts, cost).cost = row.cost + cost
<1>. DEFINE c == ClearLock(row)
            d == [c EXCEPT !.attempts = @ + 1, !.arts = @ \cup arts, !.cost = @ + cost]
            q == [d EXCEPT !.status = "queued", !.next = "future"]
            f == [d EXCEPT !.status = "failed", !.next = "null"]
<1>1. /\ Recovers(row, arts, cost) = IF d.attempts < MaxAttempts THEN q ELSE f
      /\ GivesUp(row, arts, cost) = f
  BY DEF Failed, Recovers, GivesUp
<1>2. c \in JobRow /\ c.by = Nil /\ c.attempts = row.attempts /\ c.ids = row.ids /\ c.cost = row.cost
  BY ClearedFields
<1>. HIDE DEF c
<1>3. /\ d.by = Nil /\ d.attempts = row.attempts + 1 /\ d.ids = row.ids
      /\ d.cost = row.cost + cost /\ DOMAIN d = DOMAIN c
  BY <1>2 DEF JobRow
<1>4. {"status", "next", "by", "attempts", "ids", "cost"} \subseteq DOMAIN d
  BY <1>2, <1>3 DEF JobRow
<1>. HIDE DEF d
<1>5. q.by = Nil /\ q.attempts = d.attempts /\ q.ids = row.ids /\ q.cost = d.cost
      /\ q.status = "queued"
  BY <1>3, <1>4
<1>6. f.by = Nil /\ f.attempts = d.attempts /\ f.ids = row.ids /\ f.cost = d.cost
      /\ f.status = "failed"
  BY <1>3, <1>4
<1>. HIDE DEF q, f
<1>7. QED
  BY <1>1, <1>3, <1>5, <1>6 DEF Abandoned

LEMMA DeliveredFields ==
  ASSUME NEW row \in JobRow, NEW ids, NEW arts, NEW cost
  PROVE  /\ LET r == NeedsReview(row, ids, arts, cost) IN
              /\ r.status = "needs_review" /\ r.by = Nil
              /\ r.attempts = row.attempts /\ r.ids = ids /\ r.cost = row.cost + cost
         /\ LET r == NotARecipe(row, arts, cost) IN
              /\ r.status = "not_a_recipe" /\ r.by = Nil
              /\ r.attempts = row.attempts /\ r.ids = row.ids /\ r.cost = row.cost + cost
  BY DEF JobRow, ClearLock, NeedsReview, NotARecipe

RowMove(j) ==
  \/ job'[j] = job[j]
  \/ job[j].status = "absent" /\ job'[j] = [job[j] EXCEPT !.status = "queued"]
  \/ job'[j] = [job[j] EXCEPT !.stale = TRUE] \/ job'[j] = [job[j] EXCEPT !.next = "past"]
  \/ \E r \in Request : /\ req[r].job = j /\ ~RowLocked(j) /\ req'[r] = NoRequest
                        /\ job'[j] = Requeued(job[j], req[r])
  \/ Releasable(j) /\ job'[j] = Released(job[j])
  \/ Claimable(j) /\ \E w \in Worker : wk[w].pc = "polled" /\ job'[j] = Claimed(job[j], wk[w].tok)
                       /\ wk'[w].pc \in {"idle", "claimed"}
  \/ \E w \in Worker : /\ wk[w].job = j /\ Owns(w) /\ ~LockedByOther(w)
                       /\ wk[w].pc = "crashed"
                       /\ job'[j] = Recovers(job[j], {}, wk[w].spent)

\* Committed drafts appear with the transition to review only.
RowStep(j) ==
  \/ recipes'[j] = recipes[j] /\ RowMove(j)
  \/ \E w \in Worker : /\ wk[w].job = j /\ Owns(w) /\ ~LockedByOther(w)
                       /\ wk[w].pc = "decide" /\ ~wk'[w].locked
                       /\ job'[j] = Transition(w, job[j])
                       /\ recipes'[j] = recipes[j] + wk[w].staged

LEMMA RowSteps ==
  ASSUME Inv, [Next]_vars, NEW j \in Job
  PROVE  RowStep(j)
<1>0. /\ job \in [Job -> JobRow] /\ wk \in [Worker -> WorkerState]
      /\ req \in [Request -> RequestState] /\ recipes \in [Job -> 0..MaxDrafts]
  BY DEF Inv, TypeOK
<1>8. ASSUME UNCHANGED <<job, recipes>> PROVE RowStep(j)
  BY <1>8 DEF RowStep, RowMove
<1>1. CASE UNCHANGED vars
  BY <1>1, <1>8 DEF vars
<1>2. ASSUME NEW i \in Job, Submit(i) \/ LockAges(i) \/ BackoffElapses(i) PROVE RowStep(j)
  BY <1>0, <1>2 DEF Submit, LockAges, BackoffElapses, RowStep, RowMove
<1>3. ASSUME NEW r \in Request, RetryWrite(r) PROVE RowStep(j)
  BY <1>0, <1>3 DEF RetryWrite, RowStep, RowMove
<1>4. ASSUME NEW w \in Worker, ReleaseStale(w) PROVE RowStep(j)
  BY <1>0, <1>4 DEF ReleaseStale, RowStep, RowMove
<1>5. ASSUME NEW w \in Worker, ClaimNext(w) PROVE RowStep(j)
  <2>1. UNCHANGED recipes /\ wk[w].pc = "polled"
    BY <1>5 DEF ClaimNext
  <2>2. ASSUME NEW i \in Job, Claimable(i), job' = [job EXCEPT ![i] = Claimed(@, wk[w].tok)],
               wk'[w].pc \in {"idle", "claimed"}
        PROVE  RowStep(j)
    BY <1>0, <2>1, <2>2 DEF RowStep, RowMove
  <2>3. wk'[w].pc \in {"idle", "claimed"}
    BY <1>0, <1>5 DEF ClaimNext, Become, WorkerState
  <2>. QED  BY <1>5, <1>8, <2>1, <2>2, <2>3 DEF ClaimNext
<1>6. ASSUME NEW w \in Worker, Finish(w) PROVE RowStep(j)
  <2>1. CASE UNCHANGED <<job, recipes>>
    BY <1>8, <2>1
  <2>2. CASE j # wk[w].job
    BY <1>0, <1>6, <1>8, <2>2 DEF Finish, RowStep, RowMove
  <2>3. CASE j = wk[w].job /\ ~UNCHANGED <<job, recipes>>
    <3>1. wk'[w].locked = FALSE
      <4>1. wk'[w] = Resting("idle", wk[w].tok) \/ wk'[w] = Crashed(w, 0)
        BY <1>0, <1>6 DEF Finish, Become
      <4>2. Crashed(w, 0).locked = FALSE
        BY DEF Crashed, Resting
      <4>3. Resting("idle", wk[w].tok).locked = FALSE
        BY DEF Resting
      <4>. QED  BY <4>1, <4>2, <4>3
    <3>. QED  BY <1>0, <1>6, <2>3, <3>1 DEF Finish, RowStep
  <2>. QED  BY <2>1, <2>2, <2>3
<1>7. ASSUME NEW w \in Worker, RecordCrash(w) PROVE RowStep(j)
  BY <1>0, <1>7 DEF RecordCrash, RowStep, RowMove, Recovers
<1>9. ASSUME NEW w \in Worker, Start(w) \/ Die(w) \/ Load(w) \/ Raise(w) \/ InSessionStep(w)
      PROVE  UNCHANGED <<job, recipes>>
  BY <1>9, SessionEffect DEF Start, Die, Load, Raise
<1>10. ASSUME NEW r \in Request, NEW i \in Job, RetryRead(r, i) PROVE UNCHANGED <<job, recipes>>
  BY <1>10 DEF RetryRead
<1>11. QED
  BY <1>1, <1>2, <1>3, <1>4, <1>5, <1>6, <1>7, <1>8, <1>9, <1>10
     DEF Next, Process, InSessionStep

\* The fields a worker keeps when it moves without a session of its own.
Same(w) ==
  /\ wk'[w].tok = wk[w].tok /\ wk'[w].spent = wk[w].spent
  /\ wk'[w].locked = wk[w].locked /\ wk'[w].staged = wk[w].staged
Rests(w) ==
  /\ wk'[w].pc \in {"down", "idle"} /\ wk'[w].spent = 0
  /\ wk'[w].locked = FALSE /\ wk'[w].staged = 0
Crashes(w, cost) ==
  /\ wk'[w].pc = "crashed" /\ wk'[w].job = wk[w].job /\ wk'[w].tok = wk[w].tok
  /\ wk'[w].spent = cost /\ wk'[w].locked = FALSE /\ wk'[w].staged = 0

WorkerMove(w) ==
  \/ wk'[w] = wk[w]
  \/ Rests(w)
  \/ Same(w) /\ wk[w].pc = "idle" /\ wk'[w].pc = "polled"
  \/ Same(w) /\ wk[w].pc = "polled" /\ wk'[w].pc = "idle"
  \/ /\ Same(w) /\ wk[w].pc = "polled" /\ wk'[w].pc = "claimed"
     /\ wk'[w].job \in Job
     /\ job'[wk'[w].job] = Claimed(job[wk'[w].job], wk[w].tok)
  \/ /\ Same(w) /\ wk[w].pc = "claimed" /\ wk'[w].pc = "acquire"
     /\ wk'[w].job = wk[w].job /\ wk'[w].cost = job[wk[w].job].cost
     /\ UNCHANGED job
  \/ wk[w].pc \in InSession /\ SessionState(w, wk'[w]) /\ UNCHANGED job
  \/ wk[w].pc = "decide" /\ Crashes(w, 0) /\ Owns(w)
       /\ job'[wk[w].job] = Transition(w, job[wk[w].job])
  \/ /\ wk[w].pc \in InSession \cup {"claimed"} /\ UNCHANGED job
     /\ \E cost \in Nat :
          /\ Crashes(w, cost)
          /\ \/ cost = 0 \/ cost = wk[w].spent
             \/ wk[w].pc \in InSession /\ \E c \in Spend(w) : cost = wk[w].spent + c

LEMMA WorkerMoves ==
  ASSUME Inv, [Next]_vars, NEW w \in Worker
  PROVE  WorkerMove(w)
<1>0. /\ job \in [Job -> JobRow] /\ wk \in [Worker -> WorkerState]
      /\ wk[w] \in WorkerState /\ Shape(wk[w])
  BY DEF Inv, TypeOK, ShapeOK
<1>1. ASSUME UNCHANGED wk PROVE WorkerMove(w)
  BY <1>1 DEF WorkerMove
<1>2. ASSUME NEW v \in Worker, v # w, NEW s, Become(v, s) PROVE WorkerMove(w)
  BY <1>0, <1>2 DEF Become, WorkerMove
<1>3. ASSUME NEW s, Become(w, s) PROVE wk'[w] = s
  BY <1>0, <1>3 DEF Become
<1>r. ASSUME NEW pc \in {"down", "idle"}, NEW t, Become(w, Resting(pc, t)) PROVE WorkerMove(w)
  BY <1>3, <1>r DEF Resting, Rests, WorkerMove
<1>c. ASSUME wk[w].job # Nil, NEW cost \in Nat, Become(w, Crashed(w, cost)) PROVE Crashes(w, cost)
  <2>1. wk[w].tok \in Token /\ wk[w].job \in Job
    BY <1>0, <1>c DEF WorkerState, Shape
  <2>2. Crashed(w, cost).locked = FALSE
    BY DEF Crashed, Resting
  <2>. QED  BY <1>3, <1>c, <2>2, CrashedState DEF Crashes
<1>4. ASSUME NEW v \in Worker, Start(v) PROVE WorkerMove(w)
  <2>1. PICK t \in Token : Become(v, Resting("idle", t))
    BY <1>4 DEF Start
  <2>. QED  BY <1>2, <1>r, <2>1
<1>5. ASSUME NEW v \in Worker, Die(v) PROVE WorkerMove(w)
  BY <1>2, <1>r, <1>5 DEF Die
<1>6. ASSUME NEW v \in Worker, ReleaseStale(v) PROVE WorkerMove(w)
  <2>1. v # w => WorkerMove(w)
    BY <1>2, <1>6 DEF ReleaseStale
  <2>2. v = w => wk'[w] = [wk[w] EXCEPT !.pc = "polled"] /\ wk[w].pc = "idle"
    BY <1>3, <1>6 DEF ReleaseStale
  <2>. QED  BY <1>0, <2>1, <2>2 DEF WorkerMove, Same, WorkerState
<1>7. ASSUME NEW v \in Worker, ClaimNext(v) PROVE WorkerMove(w)
  <2>1. wk[v].pc = "polled"
    BY <1>7 DEF ClaimNext
  <2>2. ASSUME NEW s, Become(v, s), v # w PROVE WorkerMove(w)
    BY <1>2, <2>2
  <2>3. CASE v = w /\ Become(w, [wk[w] EXCEPT !.pc = "idle"])
    <3>1. wk'[w] = [wk[w] EXCEPT !.pc = "idle"]
      BY <1>3, <2>3
    <3>. QED  BY <1>0, <2>1, <2>3, <3>1 DEF WorkerMove, Same, WorkerState
  <2>4. ASSUME NEW j \in Job, Become(w, [wk[w] EXCEPT !.pc = "claimed", !.job = j]), v = w,
               job' = [job EXCEPT ![j] = Claimed(@, wk[v].tok)]
        PROVE  WorkerMove(w)
    <3>1. wk'[w] = [wk[w] EXCEPT !.pc = "claimed", !.job = j]
      BY <1>3, <2>4
    <3>2. Same(w) /\ wk'[w].pc = "claimed" /\ wk'[w].job = j
      BY <1>0, <3>1 DEF Same, WorkerState
    <3>. QED  BY <1>0, <2>1, <2>4, <3>2 DEF WorkerMove
  <2>. QED  BY <1>7, <2>2, <2>3, <2>4 DEF ClaimNext
<1>8. ASSUME NEW v \in Worker, Load(v) PROVE WorkerMove(w)
  <2>1. v # w => WorkerMove(w)
    BY <1>2, <1>8 DEF Load
  <2>2. ASSUME v = w PROVE WorkerMove(w)
    <3>1. /\ wk'[w] = [wk[w] EXCEPT !.pc = "acquire", !.arts = job[wk[w].job].arts,
                                    !.cost = job[wk[w].job].cost]
          /\ wk[w].pc = "claimed" /\ UNCHANGED job
      BY <1>3, <1>8, <2>2 DEF Load
    <3>2. /\ Same(w) /\ wk'[w].pc = "acquire" /\ wk'[w].job = wk[w].job
          /\ wk'[w].cost = job[wk[w].job].cost
      BY <1>0, <3>1 DEF Same, WorkerState
    <3>. QED  BY <3>1, <3>2 DEF WorkerMove
  <2>. QED  BY <2>1, <2>2
<1>9. ASSUME NEW v \in Worker, InSessionStep(v) PROVE WorkerMove(w)
  <2>1. wk' = [wk EXCEPT ![v] = wk'[v]] /\ wk[v].pc \in InSession /\ SessionState(v, wk'[v])
        /\ UNCHANGED job
    BY <1>9, SessionEffect
  <2>. QED  BY <1>0, <2>1 DEF WorkerMove
<1>10. ASSUME NEW v \in Worker, Finish(v) PROVE WorkerMove(w)
  <2>1. v # w => WorkerMove(w)
    BY <1>2, <1>10 DEF Finish
  <2>2. ASSUME v = w PROVE WorkerMove(w)
    <3>1. wk[w].job \in Job /\ wk[w].job # Nil /\ wk[w].pc = "decide"
      BY <1>0, <1>10, <2>2, JobQueueAssumption DEF Finish, Shape, WorkerState
    <3>2. CASE Become(w, Resting("idle", wk[w].tok))
      BY <1>r, <3>2
    <3>3. CASE Become(w, Crashed(w, 0)) /\ Owns(w)
               /\ job' = [job EXCEPT ![wk[w].job] = Transition(w, @)]
      BY <1>0, <1>c, <3>1, <3>3 DEF WorkerMove
    <3>. QED  BY <1>10, <2>2, <3>2, <3>3 DEF Finish
  <2>. QED  BY <2>1, <2>2
<1>11. ASSUME NEW v \in Worker, Raise(v) PROVE WorkerMove(w)
  <2>1. v # w => WorkerMove(w)
    BY <1>2, <1>11 DEF Raise
  <2>2. ASSUME v = w PROVE WorkerMove(w)
    <3>1. wk[w].spent \in Nat /\ \A c \in Spend(w) : wk[w].spent + c \in Nat
      BY <1>0, SpendType DEF Inv, WorkerState
    <3>2. PICK cost \in Nat : /\ Become(w, Crashed(w, cost))
                              /\ \/ cost = 0 \/ cost = wk[w].spent
                                 \/ /\ wk[w].pc \in InSession
                                    /\ \E c \in Spend(w) : cost = wk[w].spent + c
      BY <1>11, <2>2, <3>1 DEF Raise, InSession
    <3>3. Crashes(w, cost)
      BY <1>0, <1>c, <1>11, <2>2, <3>2 DEF Raise, InSession, Shape
    <3>. QED  BY <1>11, <2>2, <3>2, <3>3 DEF Raise, WorkerMove
  <2>. QED  BY <2>1, <2>2
<1>12. ASSUME NEW v \in Worker, RecordCrash(v) PROVE WorkerMove(w)
  BY <1>2, <1>r, <1>12 DEF RecordCrash
<1>13. ASSUME NEW j \in Job, Submit(j) \/ LockAges(j) \/ BackoffElapses(j) PROVE UNCHANGED wk
  BY <1>13 DEF Submit, LockAges, BackoffElapses
<1>14. ASSUME NEW r \in Request, RetryWrite(r) \/ \E j \in Job : RetryRead(r, j)
       PROVE  UNCHANGED wk
  BY <1>14 DEF RetryWrite, RetryRead
<1>15. QED
  BY <1>1, <1>4, <1>5, <1>6, <1>7, <1>8, <1>9, <1>10, <1>11, <1>12, <1>13, <1>14
     DEF Next, Process, InSessionStep, vars

-----------------------------------------------------------------------------
(* The recorded cost.                                                      *)

\* What every outcome of an attempt does to the row.
LEMMA TransitionFields ==
  ASSUME Inv, NEW w \in Worker, wk[w].pc = "decide", NEW row \in JobRow
  PROVE  LET r == Transition(w, row) IN
           /\ r.by = Nil /\ r.cost = row.cost + wk[w].spent
           /\ \/ /\ r.status = "needs_review" /\ wk[w].outcome = "review"
                 /\ r.attempts = row.attempts /\ r.ids = wk[w].staged
              \/ /\ r.status = "not_a_recipe" /\ wk[w].outcome # "review"
                 /\ r.attempts = row.attempts /\ r.ids = row.ids
              \/ Abandoned(r, row) /\ wk[w].outcome # "review"
<1>1. wk[w].outcome \in Outcome
  BY DEF Inv, ShapeOK, Shape
<1>2. CASE wk[w].outcome = "review"
  <2>1. Transition(w, row) = NeedsReview(row, wk[w].staged, Acquired(w), wk[w].spent)
    BY <1>2 DEF Transition
  <2>. QED  BY <1>2, <2>1, DeliveredFields
<1>3. CASE wk[w].outcome = "not_a_recipe"
  <2>1. Transition(w, row) = NotARecipe(row, Acquired(w), wk[w].spent)
    BY <1>3 DEF Transition
  <2>. QED  BY <1>3, <2>1, DeliveredFields
<1>4. CASE wk[w].outcome = "retry"
  <2>. DEFINE r == Recovers(row, Flushed(w), wk[w].spent)
  <2>1. Transition(w, row) = r
    BY <1>4 DEF Transition, Recovers
  <2>2. Abandoned(r, row) /\ r.cost = row.cost + wk[w].spent
    BY FailedFields
  <2>. QED  BY <1>4, <2>1, <2>2 DEF Abandoned
<1>5. CASE wk[w].outcome = "terminal"
  <2>. DEFINE r == GivesUp(row, Flushed(w), wk[w].spent)
  <2>1. Transition(w, row) = r
    BY <1>5 DEF Transition, GivesUp
  <2>2. Abandoned(r, row) /\ r.cost = row.cost + wk[w].spent
    BY FailedFields
  <2>. QED  BY <1>5, <2>1, <2>2 DEF Abandoned
<1>6. QED
  BY <1>1, <1>2, <1>3, <1>4, <1>5 DEF Outcome

\* A worker that owns its job after a step owned it before, unless it has just
\* claimed it, and meanwhile nobody changed what the job has cost.
LEMMA OwnerKeeps ==
  ASSUME Inv, [Next]_vars, NEW w \in Worker, Owns(w)', wk'[w].pc \in InSession \cup {"crashed"}
  PROVE  /\ wk'[w].job = wk[w].job /\ wk[w].job \in Job /\ Owns(w)
         /\ job'[wk[w].job].cost = job[wk[w].job].cost
         /\ wk[w].pc \in InSession \cup {"claimed", "crashed"}
<1>. DEFINE j == wk[w].job
<1>0. /\ \A v \in Worker : wk[v] \in WorkerState /\ Shape(wk[v])
      /\ \A i \in Job : job[i] \in JobRow
  BY DEF Inv, TypeOK, ShapeOK
<1>1. /\ wk[w].pc \in InSession \cup {"claimed", "crashed"}
      /\ wk'[w].job = j /\ wk'[w].tok = wk[w].tok
  BY WorkerMoves DEF WorkerMove, Rests, Same, Crashes, SessionState, InSession
<1>2. /\ wk[w].tok \in Token /\ wk[w].pc # "down" /\ j \in Job
      /\ job'[j].status = "running" /\ job'[j].by = wk[w].tok
  <2>1. wk[w].pc # "down" /\ wk[w].job # Nil
    BY <1>0, <1>1 DEF Shape, InSession
  <2>. QED  BY <1>0, <1>1, <2>1 DEF Shape, WorkerState, Owns
<1>3. job[j].status = "running" /\ job[j].by = wk[w].tok /\ job'[j].cost = job[j].cost
  <2>1. job[j] \in JobRow /\ RowStep(j)
    BY <1>0, <1>2, RowSteps
  <2>2. CASE \E v \in Worker : wk[v].pc = "polled" /\ job'[j] = Claimed(job[j], wk[v].tok)
    BY <1>1, <1>2, <2>1, <2>2, ClaimedFields DEF Inv, TokensDiffer, InSession
  <2>3. CASE \E v \in Worker : wk[v].pc = "decide" /\ job'[j] = Transition(v, job[j])
    BY <1>2, <2>1, <2>3, TransitionFields, JobQueueAssumption
  <2>4. ASSUME NEW v \in Worker, job'[j] = Recovers(job[j], {}, wk[v].spent) PROVE FALSE
    <3>1. Abandoned(job'[j], job[j])
      BY <2>1, <2>4, FailedFields
    <3>. QED  BY <1>2, <3>1, JobQueueAssumption DEF Abandoned
  <2>5. CASE \/ job'[j] = Released(job[j])
             \/ \E r \in Request : job'[j] = Requeued(job[j], req[r])
             \/ job'[j] = [job[j] EXCEPT !.status = "queued"]
    <3>1. CASE job'[j] = Released(job[j])
      BY <1>2, <2>1, <3>1, ReleasedFields, JobQueueAssumption DEF Abandoned
    <3>2. CASE \E r \in Request : job'[j] = Requeued(job[j], req[r])
      BY <1>2, <2>1, <3>2, RequeuedFields
    <3>3. CASE job'[j] = [job[j] EXCEPT !.status = "queued"]
      BY <1>2, <2>1, <3>3 DEF JobRow
    <3>. QED  BY <2>5, <3>1, <3>2, <3>3
  <2>6. CASE \/ job'[j] = job[j] \/ job'[j] = [job[j] EXCEPT !.stale = TRUE]
             \/ job'[j] = [job[j] EXCEPT !.next = "past"]
    BY <1>2, <2>1, <2>6 DEF JobRow
  <2>. QED  BY <2>1, <2>2, <2>3, <2>4, <2>5, <2>6 DEF RowStep, RowMove
<1>4. QED
  BY <1>1, <1>2, <1>3, JobQueueAssumption DEF Owns

\* A session's total stays within the cap and one call; while its worker owns the
\* job, the cost it loaded is the row's, and so is the share a crash will add.
CostInv ==
  /\ RecordedCostWithinCap
  /\ \A w \in Worker :
       /\ wk[w].pc \in {"down", "idle", "polled", "claimed"} => wk[w].spent = 0
       /\ wk[w].pc \in InSession => Total(w) <= MaxCost
       /\ Owns(w) /\ wk[w].pc \in InSession => wk[w].cost = job[wk[w].job].cost
       /\ Owns(w) /\ wk[w].pc = "crashed" => job[wk[w].job].cost + wk[w].spent <= MaxCost

LEMMA CostStep == Inv /\ CostInv /\ [Next]_vars => CostInv'
<1>. SUFFICES ASSUME Inv, CostInv, [Next]_vars PROVE CostInv'
  OBVIOUS
<1>0. /\ \A w \in Worker : wk[w] \in WorkerState /\ Shape(wk[w])
      /\ \A i \in Job : job[i] \in JobRow
  BY DEF Inv, TypeOK, ShapeOK
<1>1. ASSUME NEW j \in Job PROVE job'[j].cost <= MaxCost
  <2>1. job[j] \in JobRow /\ RowStep(j) /\ job[j].cost <= MaxCost
    BY <1>0, RowSteps DEF CostInv, RecordedCostWithinCap
  <2>2. ASSUME NEW w \in Worker, wk[w].job = j, Owns(w), wk[w].pc = "decide",
               job'[j] = Transition(w, job[j])
        PROVE  job'[j].cost <= MaxCost
    <3>1. job'[j].cost = job[j].cost + wk[w].spent
      BY <2>1, <2>2, TransitionFields
    <3>2. Total(w) <= MaxCost /\ wk[w].cost = job[j].cost
      BY <2>2 DEF CostInv, InSession
    <3>. QED  BY <3>1, <3>2 DEF Total
  <2>3. ASSUME NEW w \in Worker, wk[w].job = j, Owns(w), wk[w].pc = "crashed",
               job'[j] = Recovers(job[j], {}, wk[w].spent)
        PROVE  job'[j].cost <= MaxCost
    <3>1. job'[j].cost = job[j].cost + wk[w].spent
      BY <2>1, <2>3, FailedFields
    <3>. QED  BY <2>3, <3>1 DEF CostInv
  <2>4. CASE \/ job'[j] = Released(job[j])
             \/ \E r \in Request : job'[j] = Requeued(job[j], req[r])
             \/ \E w \in Worker : job'[j] = Claimed(job[j], wk[w].tok)
    BY <2>1, <2>4, ReleasedFields, RequeuedFields, ClaimedFields DEF Kept
  <2>5. CASE \/ job'[j] = job[j] \/ job'[j] = [job[j] EXCEPT !.stale = TRUE]
             \/ job'[j] = [job[j] EXCEPT !.next = "past"]
             \/ job'[j] = [job[j] EXCEPT !.status = "queued"]
    BY <2>1, <2>5 DEF JobRow
  <2>. QED  BY <2>1, <2>2, <2>3, <2>4, <2>5 DEF RowStep, RowMove
<1>2. ASSUME NEW w \in Worker, wk'[w].pc \in InSession PROVE Total(w)' <= MaxCost
  <2>1. wk[w] \in WorkerState /\ Shape(wk[w]) /\ WorkerMove(w)
    BY <1>0, WorkerMoves
  <2>2. CASE wk'[w] = wk[w]
    BY <1>2, <2>2 DEF CostInv, Total
  <2>3. CASE wk[w].pc = "claimed" /\ Same(w) /\ wk'[w].cost = job[wk[w].job].cost
    <3>1. wk[w].job \in Job /\ wk[w].spent = 0
      BY <2>1, <2>3 DEF WorkerState, Shape, CostInv
    <3>. QED  BY <1>0, <2>3, <3>1 DEF Same, Total, CostInv, RecordedCostWithinCap, JobRow
  <2>4. CASE wk[w].pc \in InSession /\ SessionState(w, wk'[w])
    BY <2>4 DEF SessionState, CostInv, Total
  <2>. QED  BY <1>2, <2>1, <2>2, <2>3, <2>4 DEF WorkerMove, Rests, Crashes, InSession
<1>3. ASSUME NEW w \in Worker, wk'[w].pc \in {"down", "idle", "polled", "claimed"}
      PROVE  wk'[w].spent = 0
  BY <1>3, WorkerMoves DEF WorkerMove, Rests, Same, Crashes, InSession, CostInv, SessionState
<1>4. ASSUME NEW w \in Worker, Owns(w)', wk'[w].pc \in InSession
      PROVE  wk'[w].cost = job'[wk'[w].job].cost
  <2>. DEFINE j == wk[w].job
  <2>1. /\ wk'[w].job = j /\ j \in Job /\ Owns(w) /\ job'[j].cost = job[j].cost
        /\ wk[w].pc \in InSession \cup {"claimed", "crashed"}
    BY <1>4, OwnerKeeps
  <2>2. wk[w].pc \in InSession => wk[w].cost = job[j].cost
    BY <2>1 DEF CostInv
  <2>. QED  BY <1>4, <2>1, <2>2, WorkerMoves
            DEF WorkerMove, Rests, Same, Crashes, InSession, SessionState
<1>5. ASSUME NEW w \in Worker, Owns(w)', wk'[w].pc = "crashed"
      PROVE  job'[wk'[w].job].cost + wk'[w].spent <= MaxCost
  <2>. DEFINE j == wk[w].job
  <2>1. /\ wk'[w].job = j /\ j \in Job /\ Owns(w) /\ job'[j].cost = job[j].cost
        /\ wk[w].pc \in InSession \cup {"claimed", "crashed"}
    BY <1>5, OwnerKeeps
  <2>2. wk[w] \in WorkerState /\ WorkerMove(w) /\ job[j] \in JobRow /\ job[j].cost <= MaxCost
    BY <1>0, <2>1, WorkerMoves DEF CostInv, RecordedCostWithinCap
  <2>3. CASE wk'[w] = wk[w]
    BY <1>5, <2>1, <2>3 DEF CostInv
  <2>4. ASSUME NEW cost \in Nat, Crashes(w, cost),
               \/ cost = 0 \/ cost = wk[w].spent
               \/ wk[w].pc \in InSession /\ \E c \in Spend(w) : cost = wk[w].spent + c,
               wk[w].pc \in InSession \cup {"claimed"}
        PROVE  job[j].cost + wk'[w].spent <= MaxCost
    <3>1. wk'[w].spent = cost
      BY <2>4 DEF Crashes
    <3>2. CASE wk[w].pc = "claimed"
      BY <2>2, <2>4, <3>1, <3>2 DEF CostInv, InSession, JobRow
    <3>3. CASE wk[w].pc \in InSession
      <4>1. wk[w].cost = job[j].cost /\ Total(w) <= MaxCost
        BY <2>1, <3>3 DEF CostInv
      <4>2. \A c \in Spend(w) : c \in Nat /\ Total(w) + c <= MaxCost
        BY <4>1, SpendType DEF Inv
      <4>. QED  BY <2>2, <2>4, <3>1, <4>1, <4>2 DEF Total, JobRow, WorkerState
    <3>. QED  BY <2>4, <3>2, <3>3
  <2>5. Crashes(w, 0) /\ wk[w].pc = "decide" => job[j].cost + wk'[w].spent <= MaxCost
    BY <2>4 DEF InSession
  <2>. QED
    BY <1>5, <2>1, <2>2, <2>3, <2>4, <2>5 DEF WorkerMove, Rests, Same, InSession, SessionState
<1>6. QED
  BY <1>1, <1>2, <1>3, <1>4, <1>5 DEF CostInv, RecordedCostWithinCap

\* Over all attempts and retries, what a job's row says it has cost stays within
\* the cap and the one call that crosses it.
THEOREM CostBounded == Spec => []RecordedCostWithinCap
<1>1. Init => CostInv
  BY JobQueueAssumption DEF Init, CostInv, RecordedCostWithinCap, NewRow, Resting, InSession, MaxCost
<1>2. CostInv => RecordedCostWithinCap
  BY DEF CostInv
<1>. QED  BY <1>1, <1>2, CostStep, Invariance, PTL DEF Spec

-----------------------------------------------------------------------------
(* Drafts and row locks.                                                   *)

\* Drafts of a job are committed once.
THEOREM CreatedOnce == Spec => DraftsCreatedOnce
<1>1. ASSUME Inv, [Next]_vars, NEW j \in Job, recipes[j] > 0
      PROVE  recipes'[j] = recipes[j]
  <2>1. RowStep(j) /\ recipes[j] \in Nat
    BY <1>1, RowSteps, JobQueueAssumption DEF Inv, TypeOK
  <2>2. \A w \in Worker : wk[w].job = j => wk[w].staged = 0
    <3>1. \A w \in Worker : wk[w].staged \in Nat
      BY <1>1, JobQueueAssumption DEF Inv, TypeOK, WorkerState
    <3>. QED  BY <1>1, <2>1, <3>1 DEF Inv, StagedFirst
  <2>. QED  BY <2>1, <2>2 DEF RowStep
<1>2. Inv /\ [Next]_vars => [\A j \in Job : recipes[j] > 0 => recipes'[j] = recipes[j]]_vars
  BY <1>1
<1>. QED  BY <1>2, Invariance, PTL DEF Spec, DraftsCreatedOnce

\* A session that has flushed its acquired meta keeps the claim it holds.
THEOREM FlushedClaimKept == Spec => FlushedClaimIsSafe
<1>1. ASSUME Inv, [Next]_vars, NEW w \in Worker, Owns(w), wk[w].locked, wk'[w].locked
      PROVE  Owns(w)'
  <2>. DEFINE j == wk[w].job
  <2>1. /\ wk[w] \in WorkerState /\ Shape(wk[w]) /\ wk[w].pc \in InSession /\ j \in Job
        /\ job[j] \in JobRow
    BY <1>1 DEF Inv, TypeOK, ShapeOK, Shape, WorkerState, InSession
  <2>2. wk'[w].job = j /\ wk'[w].tok = wk[w].tok
    BY <1>1, <2>1, WorkerMoves DEF WorkerMove, Rests, Same, Crashes, SessionState, InSession
  <2>3. RowLocked(j) /\ \A v \in Worker : v # w /\ wk[v].job = j => LockedByOther(v)
    BY <1>1 DEF RowLocked, RowLockedBy, LockedByOther
  <2>4. job'[j].status = job[j].status /\ job'[j].by = job[j].by
    <3>1. \/ job'[j] = job[j]
          \/ job[j].status = "absent"
          \/ job'[j] = [job[j] EXCEPT !.stale = TRUE] \/ job'[j] = [job[j] EXCEPT !.next = "past"]
      BY <1>1, <2>1, <2>3, RowSteps
         DEF RowStep, RowMove, Releasable, Claimable, InSession
    <3>. QED  BY <1>1, <2>1, <3>1 DEF JobRow, Owns
  <2>. QED  BY <1>1, <2>1, <2>2, <2>4 DEF Owns
<1>2. Inv /\ [Next]_vars =>
        [\A w \in Worker : Owns(w) /\ wk[w].locked /\ wk'[w].locked => Owns(w)']_vars
  BY <1>1
<1>. QED  BY <1>2, Invariance, PTL DEF Spec, FlushedClaimIsSafe

-----------------------------------------------------------------------------
(* With one retry request at a time, the queue implements JobLifecycle.    *)
(* Two overlapping requests do break it: see ReviewNotRequeued in JobQueue.*)

OneRequest == \A r, s \in Request : r = s

\* What is true of the rows, and what the request under way has read of them.
RowOK(j) ==
  /\ job[j].status = "running" <=> job[j].by # Nil
  /\ job[j].status \in {"queued", "running"} => job[j].attempts < MaxAttempts
  /\ recipes[j] = job[j].ids
  /\ recipes[j] > 0 => job[j].status = "needs_review"
  /\ job[j].status = "absent" => job[j].attempts = 0
ReadOK(r) ==
  req[r].job # Nil =>
    /\ job[req[r].job].status \in {"failed", "not_a_recipe"}
    /\ req[r].attempts = job[req[r].job].attempts
LifeInv == (\A j \in Job : RowOK(j)) /\ (\A r \in Request : ReadOK(r))

-----------------------------------------------------------------------------
(* The moves of a row, as the lifecycle tells them apart.                  *)

Moved(j, from, to) == job[j].status \in from /\ job'[j].status \in to
SameCounts(j) ==
  /\ job'[j].attempts = job[j].attempts /\ job'[j].ids = job[j].ids /\ recipes'[j] = recipes[j]
SameDrafted(j) == job'[j].ids = job[j].ids /\ recipes'[j] = recipes[j]

LifeMove(j) ==
  \/ SameCounts(j) /\ job'[j].status = job[j].status /\ job'[j].by = job[j].by
  \/ SameCounts(j) /\ Moved(j, {"absent"}, {"queued"}) /\ job'[j].by = job[j].by
  \/ SameCounts(j) /\ Moved(j, {"queued"}, {"running"}) /\ job'[j].by \in Token
  \/ SameCounts(j) /\ Moved(j, {"running"}, {"not_a_recipe"}) /\ job'[j].by = Nil
  \/ /\ Moved(j, {"running"}, {"needs_review"}) /\ job'[j].by = Nil
     /\ job'[j].attempts = job[j].attempts
     /\ recipes'[j] \in 0..MaxDrafts /\ recipes'[j] = job'[j].ids
  \/ /\ Moved(j, {"running"}, {"queued", "failed"}) /\ job'[j].by = Nil /\ SameDrafted(j)
     /\ job'[j].attempts = job[j].attempts + 1
     /\ job'[j].status = "queued" => job[j].attempts + 1 < MaxAttempts
  \/ /\ Moved(j, {"failed", "not_a_recipe"}, {"queued"}) /\ job'[j].by = job[j].by
     /\ job'[j].attempts = 0 /\ SameDrafted(j)
     /\ \E r \in Request : req[r].job = j /\ req'[r] = NoRequest

LEMMA LifeMoves ==
  ASSUME Inv, LifeInv, [Next]_vars, NEW j \in Job
  PROVE  LifeMove(j)
<1>0. job[j] \in JobRow /\ RowOK(j) /\ RowStep(j) /\ recipes[j] \in 0..MaxDrafts
  BY RowSteps DEF Inv, TypeOK, LifeInv
<1>1. ASSUME recipes'[j] = recipes[j], RowMove(j) PROVE LifeMove(j)
  <2>. USE DEF LifeMove, SameCounts, SameDrafted, Moved
  <2>1. CASE \/ job'[j] = job[j] \/ job'[j] = [job[j] EXCEPT !.stale = TRUE]
             \/ job'[j] = [job[j] EXCEPT !.next = "past"]
             \/ job[j].status = "absent" /\ job'[j] = [job[j] EXCEPT !.status = "queued"]
    BY <1>0, <1>1, <2>1 DEF JobRow
  <2>2. ASSUME NEW r \in Request, req[r].job = j, req'[r] = NoRequest,
               job'[j] = Requeued(job[j], req[r])
        PROVE  LifeMove(j)
    <3>1. /\ job[j].status \in {"failed", "not_a_recipe"}
          /\ req[r].attempts = job[j].attempts
      BY <2>2, JobQueueAssumption DEF LifeInv, ReadOK
    <3>2. /\ job'[j].status = "queued" /\ job'[j].by = job[j].by
          /\ job'[j].attempts = 0 /\ job'[j].ids = job[j].ids
      BY <1>0, <2>2, <3>1, RequeuedFields
    <3>. QED  BY <1>1, <2>2, <3>1, <3>2
  <2>3. CASE Releasable(j) /\ job'[j] = Released(job[j])
    <3>1. Abandoned(job'[j], job[j])
      BY <1>0, <2>3, ReleasedFields
    <3>. QED  BY <1>1, <2>3, <3>1 DEF Abandoned, Releasable
  <2>4. ASSUME NEW w \in Worker, Claimable(j), wk[w].pc = "polled",
               job'[j] = Claimed(job[j], wk[w].tok)
        PROVE  LifeMove(j)
    <3>1. wk[w].tok \in Token
      BY <2>4 DEF Inv, TypeOK, WorkerState, ShapeOK, Shape
    <3>2. /\ job'[j].status = "running" /\ job'[j].by \in Token /\ Kept(job'[j], job[j])
      BY <1>0, <2>4, <3>1, ClaimedFields
    <3>. QED  BY <1>1, <2>4, <3>2 DEF Claimable, Kept
  <2>5. ASSUME NEW w \in Worker, wk[w].job = j, Owns(w),
               job'[j] = Recovers(job[j], {}, wk[w].spent)
        PROVE  LifeMove(j)
    <3>1. Abandoned(job'[j], job[j])
      BY <1>0, <2>5, FailedFields
    <3>. QED  BY <1>1, <2>5, <3>1 DEF Abandoned, Owns
  <2>. QED  BY <1>1, <2>1, <2>2, <2>3, <2>4, <2>5 DEF RowMove
<1>2. ASSUME NEW w \in Worker, wk[w].job = j, Owns(w), wk[w].pc = "decide",
             job'[j] = Transition(w, job[j]), recipes'[j] = recipes[j] + wk[w].staged
      PROVE  LifeMove(j)
  <2>1. /\ wk[w].staged \in 0..MaxDrafts
        /\ wk[w].outcome # "review" => wk[w].staged = 0
    BY JobQueueAssumption DEF Inv, TypeOK, WorkerState, ShapeOK, Shape
  <2>2. job[j].status = "running" /\ recipes[j] = 0
    BY <1>0, <1>2, JobQueueAssumption DEF Owns, RowOK
  <2>3. recipes'[j] = wk[w].staged
    BY <1>2, <2>1, <2>2, JobQueueAssumption
  <2>4. LET r == Transition(w, job[j]) IN
          /\ r.by = Nil
          /\ \/ /\ r.status = "needs_review" /\ wk[w].outcome = "review"
                /\ r.attempts = job[j].attempts /\ r.ids = wk[w].staged
             \/ /\ r.status = "not_a_recipe" /\ wk[w].outcome # "review"
                /\ r.attempts = job[j].attempts /\ r.ids = job[j].ids
             \/ Abandoned(r, job[j]) /\ wk[w].outcome # "review"
    BY <1>0, <1>2, TransitionFields
  <2>. QED  BY <1>2, <2>1, <2>2, <2>3, <2>4
            DEF LifeMove, SameCounts, SameDrafted, Moved, Abandoned
<1>3. QED
  BY <1>0, <1>1, <1>2 DEF RowStep

LEMMA ReadMoves ==
  ASSUME Inv, [Next]_vars, NEW r \in Request
  PROVE  \/ req'[r] = req[r] \/ req'[r] = NoRequest
         \/ \E j \in Job : /\ UNCHANGED job
                           /\ job[j].status \in {"failed", "not_a_recipe"}
                           /\ req'[r].job = j /\ req'[r].attempts = job[j].attempts
<1>0. req \in [Request -> RequestState]
  BY DEF Inv, TypeOK
<1>1. ASSUME NEW q \in Request, NEW j \in Job, RetryRead(q, j)
      PROVE  \/ req'[r] = req[r]
             \/ /\ UNCHANGED job /\ job[j].status \in {"failed", "not_a_recipe"}
                /\ req'[r].job = j /\ req'[r].attempts = job[j].attempts
  BY <1>0, <1>1 DEF RetryRead
<1>2. ASSUME NEW q \in Request, RetryWrite(q) PROVE req'[r] = req[r] \/ req'[r] = NoRequest
  BY <1>0, <1>2 DEF RetryWrite
<1>3. ASSUME NEW w \in Worker,
             Start(w) \/ Die(w) \/ ReleaseStale(w) \/ ClaimNext(w) \/ Process(w) \/ Raise(w)
      PROVE  UNCHANGED req
  BY <1>3, SessionEffect
     DEF Start, Die, ReleaseStale, ClaimNext, Raise, Process, Load, Finish, RecordCrash, InSessionStep
<1>4. ASSUME NEW j \in Job, Submit(j) \/ LockAges(j) \/ BackoffElapses(j) PROVE UNCHANGED req
  BY <1>4 DEF Submit, LockAges, BackoffElapses
<1>5. QED
  BY <1>1, <1>2, <1>3, <1>4 DEF Next, vars

LEMMA LifeStep ==
  ASSUME OneRequest, Inv, LifeInv, [Next]_vars
  PROVE  LifeInv'
<1>1. ASSUME NEW j \in Job PROVE RowOK(j)'
  <2>1. job[j] \in JobRow /\ RowOK(j) /\ LifeMove(j) /\ recipes[j] \in Nat
    BY LifeMoves, JobQueueAssumption DEF Inv, TypeOK, LifeInv
  <2>. QED  BY <2>1, JobQueueAssumption
            DEF LifeMove, RowOK, SameCounts, SameDrafted, Moved, JobRow
<1>2. ASSUME NEW r \in Request, req'[r].job # Nil
      PROVE  /\ job'[req'[r].job].status \in {"failed", "not_a_recipe"}
             /\ req'[r].attempts = job'[req'[r].job].attempts
  <2>. DEFINE j == req[r].job
  <2>1. CASE req'[r] = req[r]
    <3>1. j \in Job /\ ReadOK(r)
      BY <1>2, <2>1 DEF Inv, TypeOK, RequestState, LifeInv
    <3>2. LifeMove(j)
      BY <3>1, LifeMoves
    <3>3. ~ \E q \in Request : req[q].job = j /\ req'[q] = NoRequest
      BY <1>2 DEF OneRequest, NoRequest
    <3>. QED  BY <1>2, <2>1, <3>1, <3>2, <3>3 DEF LifeMove, ReadOK, SameCounts, Moved
  <2>2. CASE req'[r] = NoRequest
    BY <1>2, <2>2 DEF NoRequest
  <2>. QED  BY <1>2, <2>1, <2>2, ReadMoves
<1>3. QED
  BY <1>1, <1>2 DEF LifeInv, ReadOK

LEMMA LifeStart == Init => LifeInv
  BY JobQueueAssumption DEF Init, LifeInv, RowOK, ReadOK, NewRow, NoRequest

-----------------------------------------------------------------------------

\* A job that waits or is worked on always has an attempt left.
THEOREM AttemptsBounded ==
  ASSUME OneRequest PROVE Spec => []AttemptLeft
<1>1. LifeInv => AttemptLeft
  BY DEF LifeInv, RowOK, AttemptLeft
<1>2. Inv /\ LifeInv /\ [Next]_vars => LifeInv'
  BY LifeStep
<1>. QED  BY <1>1, <1>2, LifeStart, Invariance, PTL DEF Spec

\* A row carries a token exactly while it is running.
THEOREM LocksMatchStatus ==
  ASSUME OneRequest PROVE Spec => []LockedWhileRunning
<1>1. LifeInv => LockedWhileRunning
  BY DEF LifeInv, RowOK, LockedWhileRunning
<1>2. Inv /\ LifeInv /\ [Next]_vars => LifeInv'
  BY LifeStep
<1>. QED  BY <1>1, <1>2, LifeStart, Invariance, PTL DEF Spec

\* Committed drafts are exactly the ones their job lists.
THEOREM NoOrphanDrafts ==
  ASSUME OneRequest PROVE Spec => []DraftsListed
<1>1. LifeInv => DraftsListed
  BY DEF LifeInv, RowOK, DraftsListed
<1>2. Inv /\ LifeInv /\ [Next]_vars => LifeInv'
  BY LifeStep
<1>. QED  BY <1>1, <1>2, LifeStart, Invariance, PTL DEF Spec

\* The queue implements the lifecycle.
THEOREM Implementation ==
  ASSUME OneRequest PROVE Spec => ImplementsLifecycle
<1>1. Init => Lifecycle!LifeInit
  BY DEF Init, NewRow, Lifecycle!LifeInit
<1>2. Inv /\ LifeInv /\ [Next]_vars => [Lifecycle!LifeNext]_(Lifecycle!lifeVars)
  <2>. SUFFICES ASSUME Inv, LifeInv, [Next]_vars PROVE Lifecycle!LifeNext
    OBVIOUS
  <2>. SUFFICES ASSUME NEW j \in Job
       PROVE  \/ Lifecycle!Enqueue(j) \/ Lifecycle!Begin(j) \/ Lifecycle!Deliver(j)
              \/ Lifecycle!NotARecipe(j) \/ Lifecycle!Abandon(j) \/ Lifecycle!Restart(j)
              \/ Lifecycle!Stays(j)
    BY DEF Lifecycle!LifeNext
  <2>1. LifeMove(j) /\ RowOK(j) /\ recipes[j] \in Nat
    BY LifeMoves, JobQueueAssumption DEF Inv, TypeOK, LifeInv
  <2>. QED  BY <2>1
            DEF LifeMove, RowOK, SameCounts, SameDrafted, Moved,
                Lifecycle!Enqueue, Lifecycle!Begin, Lifecycle!Deliver, Lifecycle!NotARecipe,
                Lifecycle!Abandon, Lifecycle!Restart, Lifecycle!Stays, Lifecycle!Moves,
                Lifecycle!SameAttempts, Lifecycle!SameDrafts
<1>3. Inv /\ LifeInv /\ [Next]_vars => LifeInv'
  BY LifeStep
<1>. QED
  BY <1>1, <1>2, <1>3, LifeStart, Invariance, PTL DEF Spec, ImplementsLifecycle, Lifecycle!Life

=============================================================================
