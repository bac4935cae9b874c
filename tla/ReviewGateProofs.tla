-------------------------- MODULE ReviewGateProofs --------------------------
(***************************************************************************)
(* Theorems about ReviewGate, for any jobs, drafts and requests.           *)
(***************************************************************************)
EXTENDS ReviewGate, Induction

-----------------------------------------------------------------------------
(* The inductive invariant.  A handler may work on an old list, and write  *)
(* it back over a newer one, but what such a list misses or still names is *)
(* a draft that is gone: the existing drafts are in every list.            *)

\* What the program counter says of a handler h.
Shape(h) ==
  /\ h.pc # "closed" => h.kind \in Kind
  /\ h.pc = "closed" => h = Closed
  /\ h.pc \in {"recipe", "update", "relist", "check"} => h.job \in Job
  /\ h.pc \in {"update", "relist"} => h.draft # Nil
  /\ h.pc = "relist" => h.kind = "reject" /\ h.draft \in h.deletes
  /\ h.deletes # {} => h.kind = "reject" /\ h.pc \in {"relist", "check", "commit"}
  /\ h.kind # "accept_all" => h.jobs = {} /\ h.pc # "job" /\ (h.pc # "commit" => h.finishes = {})
  /\ h.kind = "accept_all" /\ h.pc \in {"job", "check", "commit"} => h.todo = {} /\ h.draft = Nil
  /\ h.kind = "accept_all" /\ h.pc \in {"job", "commit"} => h.job = Nil

\* What handler h relies on, whatever was committed since it began: its lists name
\* every draft it has not deleted; accept_all has verified what it has passed; and
\* a job about to be done has nothing left to review.
Reliable(h) ==
  /\ h.verifies \subseteq exists
  /\ \A d \in exists \ h.deletes : Of[d] \in h.jobs \cup {h.job} => d \in h.listed
  /\ h.kind = "accept_all" =>
       \A d \in exists : Of[d] = h.job => d \in h.todo \cup {h.draft} \cup verified \cup h.verifies
  /\ \A d \in exists \ h.deletes : Of[d] \in h.finishes => d \in verified \cup h.verifies

\* Row locks: no two transactions write the same recipe.
Written(h) == h.verifies \cup h.deletes
Apart(r, h) == \A q \in Request \ {r} : Written(h) \cap Written(tx[q]) = {}

Inv ==
  /\ TypeOK
  /\ exists \subseteq listed
  /\ \A d \in exists : status[Of[d]] = "done" => d \in verified
  /\ \A r \in Request : Shape(tx[r]) /\ Reliable(tx[r]) /\ Apart(r, tx[r])

\* A handler between transactions.
LEMMA ClosedHandler == Closed \in Handler /\ Shape(Closed)
  BY DEF Closed, Handler, Kind, Status, Shape

LEMMA InitInv == Init => Inv
<1>. SUFFICES ASSUME Init PROVE Inv
  OBVIOUS
<1>1. TypeOK /\ exists \subseteq listed
  BY ClosedHandler DEF Init, TypeOK, Status
<1>2. \A d \in exists : Of[d] \in Job /\ Of[d] # Nil
  BY ReviewAssumption DEF Init
<1>3. \A d \in exists : status[Of[d]] # "done"
  BY <1>2 DEF Init
<1>4. ASSUME NEW r \in Request PROVE Shape(tx[r]) /\ Reliable(tx[r]) /\ Apart(r, tx[r])
  <2>1. tx[r] = Closed /\ \A q \in Request : tx[q] = Closed
    BY DEF Init
  <2>2. Reliable(Closed) /\ Apart(r, Closed)
    BY <1>2, <2>1 DEF Reliable, Apart, Written, Closed
  <2>. QED  BY <2>1, <2>2, ClosedHandler
<1>. QED  BY <1>1, <1>3, <1>4 DEF Inv

-----------------------------------------------------------------------------
(* The steps of the handlers.                                              *)

\* A statement of handler r: only tx[r] changes, to h.
LEMMA HandlerStep ==
  ASSUME Inv, NEW r \in Request, NEW h \in Handler, UNCHANGED Tables,
         tx' = [tx EXCEPT ![r] = h], Shape(h), Reliable(h), Apart(r, h)
  PROVE  Inv'
<1>1. tx' \in [Request -> Handler] /\ tx'[r] = h /\ \A q \in Request : q # r => tx'[q] = tx[q]
  BY DEF Inv, TypeOK
<1>2. TypeOK' /\ exists' \subseteq listed' /\ \A d \in exists' : status'[Of[d]] = "done" => d \in verified'
  BY <1>1 DEF Inv, TypeOK, Tables
<1>3. ASSUME NEW q \in Request PROVE (Shape(tx[q]) /\ Reliable(tx[q]))'
  BY <1>1 DEF Inv, Tables, Reliable, Shape
<1>4. ASSUME NEW q \in Request PROVE Apart(q, tx[q])'
  BY <1>1 DEF Inv, Apart, Written
<1>5. QED
  BY <1>2, <1>3, <1>4 DEF Inv

\* Such a step that writes v more and deletes nothing: h goes on from tx[r].
GoesOn(r, h, v) ==
  /\ h \in Handler /\ h.pc # "closed"
  /\ h.kind = tx[r].kind /\ h.job = tx[r].job /\ h.jobs = tx[r].jobs
  /\ h.listed = tx[r].listed
  /\ h.verifies = tx[r].verifies \cup v /\ h.deletes = tx[r].deletes
  /\ h.finishes = tx[r].finishes

LEMMA GoesOnInv ==
  ASSUME Inv, NEW r \in Request, UNCHANGED Tables, tx[r].pc # "closed",
         NEW v \in SUBSET exists, \A q \in Request \ {r} : v \cap Written(tx[q]) = {},
         NEW h, tx' = [tx EXCEPT ![r] = h], GoesOn(r, h, v), Shape(h),
         \A d \in tx[r].todo \cup {tx[r].draft} :
           d \in h.todo \cup {h.draft} \/ d \notin exists \/ d \in verified \cup v
  PROVE  Inv'
<1>1. Reliable(tx[r]) /\ Apart(r, tx[r])
  BY DEF Inv
<1>2. Reliable(h)
  BY <1>1 DEF Reliable, GoesOn
<1>3. Apart(r, h)
  BY <1>1 DEF Apart, Written, GoesOn
<1>. QED  BY <1>2, <1>3, HandlerStep DEF GoesOn

LEMMA NextInv == Inv /\ [Next]_vars => Inv'
<1>. SUFFICES ASSUME Inv, [Next]_vars PROVE Inv'
  OBVIOUS
<1>0. \A r \in Request : tx[r] \in Handler /\ Shape(tx[r]) /\ Reliable(tx[r]) /\ Apart(r, tx[r])
  BY DEF Inv, TypeOK
<1>1. CASE UNCHANGED vars
  BY <1>1 DEF vars, Inv, TypeOK, Shape, Reliable, Apart
<1>2. ASSUME NEW r \in Request, Abort(r), UNCHANGED Tables PROVE Inv'
  <2>1. Closed \in Handler /\ Shape(Closed) /\ Reliable(Closed) /\ Apart(r, Closed)
    BY ClosedHandler, ReviewAssumption DEF Closed, Reliable, Apart, Written, Inv, TypeOK
  <2>. QED  BY <1>2, <2>1, HandlerStep DEF Abort
<1>3. ASSUME NEW r \in Request, NEW kind \in Kind, NEW d \in Draft, Begin(r, kind, d) PROVE Inv'
  <2>. DEFINE h == [Closed EXCEPT !.pc = "recipe", !.kind = kind, !.job = Of[d],
                !.draft = d, !.status = status[Of[d]], !.listed = From(listed, {Of[d]})]
  <2>0. Of[d] \in Job /\ status[Of[d]] \in Status /\ From(listed, {Of[d]}) \subseteq Draft
    BY ReviewAssumption DEF Inv, TypeOK, From
  <2>1. h \in Handler /\ Shape(h)
    BY <1>3, <2>0 DEF Begin, Handler, Closed, Shape, Kind
  <2>2. Reliable(h) /\ Apart(r, h)
    BY <1>3 DEF Begin, Inv, Closed, Reliable, Apart, Written, From
  <2>3. tx' = [tx EXCEPT ![r] = h] /\ UNCHANGED Tables
    BY <1>3 DEF Begin
  <2>. HIDE DEF h
  <2>. QED  BY <2>1, <2>2, <2>3, HandlerStep
<1>4. ASSUME NEW r \in Request, BeginAll(r) PROVE Inv'
  <2>. DEFINE jobs == {j \in confident : status[j] = "needs_review"}
              lists == From(listed, jobs)
              h == [Closed EXCEPT !.pc = "job", !.kind = "accept_all",
                                !.jobs = jobs, !.listed = lists]
  <2>0. jobs \subseteq Job /\ lists \subseteq Draft /\ \A d \in listed : Of[d] \in jobs => d \in lists
    BY DEF Inv, TypeOK, From
  <2>1. tx' = [tx EXCEPT ![r] = h] /\ UNCHANGED Tables
    BY <1>4 DEF BeginAll
  <2>. HIDE DEF jobs, lists
  <2>2. h \in Handler /\ Shape(h)
    BY <2>0 DEF Handler, Closed, Shape, Kind, Status
  <2>3. \A d \in exists : d \in listed /\ Of[d] # Nil
    BY ReviewAssumption DEF Inv, TypeOK
  <2>4. Reliable(h) /\ Apart(r, h)
    BY <2>0, <2>3 DEF Closed, Reliable, Apart, Written
  <2>. HIDE DEF h
  <2>. QED  BY <2>1, <2>2, <2>4, HandlerStep
<1>15. ASSUME NEW r \in Request, NextJob(r) PROVE Inv'
  <2>1. /\ tx[r].pc = "job" /\ tx[r].kind = "accept_all" /\ UNCHANGED Tables
        /\ tx[r].deletes = {} /\ tx[r].todo = {} /\ tx[r].draft = Nil /\ tx[r].job = Nil
    BY <1>0, <1>15 DEF NextJob, Shape
  <2>2. ASSUME NEW j \in tx[r].jobs,
               tx' = [tx EXCEPT ![r].pc = "recipe", ![r].job = j, ![r].jobs = @ \ {j},
                                ![r].todo = From(tx[r].listed, {j})]
        PROVE  Inv'
    <3>. DEFINE todo == From(tx[r].listed, {j})
                h == [tx[r] EXCEPT !.pc = "recipe", !.job = j, !.jobs = @ \ {j}, !.todo = todo]
    <3>1. todo \subseteq Draft /\ j \in Job /\ tx' = [tx EXCEPT ![r] = h]
      BY <1>0, <2>2 DEF Handler, From
    <3>2. \A d \in exists : Of[d] = j => d \in todo
      BY <1>0, <2>1, <2>2 DEF Reliable, From
    <3>. HIDE DEF todo
    <3>3. /\ h \in Handler /\ h.pc = "recipe" /\ h.kind = "accept_all" /\ h.job = j /\ h.todo = todo
          /\ h.jobs = tx[r].jobs \ {j} /\ h.listed = tx[r].listed /\ h.verifies = tx[r].verifies
          /\ h.deletes = {} /\ h.finishes = tx[r].finishes /\ h.draft = Nil
      BY <1>0, <2>1, <3>1 DEF Handler
    <3>. HIDE DEF h
    <3>4. Shape(h)
      BY <3>1, <3>3 DEF Shape, Kind
    <3>5. Reliable(h) /\ Apart(r, h)
      BY <1>0, <2>1, <2>2, <3>2, <3>3 DEF Reliable, Apart, Written
    <3>. QED  BY <2>1, <3>1, <3>3, <3>4, <3>5, HandlerStep
  <2>3. CASE Goto(r, "commit")
    <3>. DEFINE h == [tx[r] EXCEPT !.pc = "commit"]
    <3>1. tx' = [tx EXCEPT ![r] = h] /\ GoesOn(r, h, {}) /\ h.draft = Nil /\ h.todo = {}
      BY <1>0, <2>1, <2>3 DEF Handler, GoesOn, Goto
    <3>2. Shape(h)
      BY <1>0, <2>1 DEF Handler, Shape
    <3>. HIDE DEF h
    <3>. QED  BY <2>1, <3>1, <3>2, GoesOnInv
  <2>. QED  BY <1>15, <2>2, <2>3 DEF NextJob
<1>5. ASSUME NEW r \in Request, NextDraft(r) PROVE Inv'
  <2>1. /\ tx[r].pc = "recipe" /\ tx[r].kind = "accept_all" /\ tx[r].draft = Nil
        /\ Nil \notin exists /\ UNCHANGED Tables
    BY <1>5, ReviewAssumption DEF NextDraft, Inv, TypeOK
  <2>2. ASSUME NEW d \in tx[r].todo, tx' = [tx EXCEPT ![r].draft = d, ![r].todo = @ \ {d}]
        PROVE  Inv'
    <3>. DEFINE h == [tx[r] EXCEPT !.draft = d, !.todo = @ \ {d}]
    <3>1. tx' = [tx EXCEPT ![r] = h] /\ GoesOn(r, h, {}) /\ h.draft = d /\ h.todo = tx[r].todo \ {d}
      <4>1. h \in Handler /\ tx' = [tx EXCEPT ![r] = h]
        BY <1>0, <2>2 DEF Handler
      <4>2. /\ h.pc = "recipe" /\ h.kind = tx[r].kind /\ h.job = tx[r].job /\ h.jobs = tx[r].jobs
            /\ h.listed = tx[r].listed /\ h.verifies = tx[r].verifies /\ h.deletes = tx[r].deletes
            /\ h.finishes = tx[r].finishes /\ h.draft = d /\ h.todo = tx[r].todo \ {d}
        BY <1>0, <2>1 DEF Handler
      <4>. HIDE DEF h
      <4>. QED  BY <4>1, <4>2 DEF GoesOn
    <3>2. Shape(h)
      BY <1>0, <2>1, <2>2 DEF Handler, Shape
    <3>. HIDE DEF h
    <3>. QED  BY <2>1, <3>1, <3>2, GoesOnInv
  <2>3. ASSUME tx[r].todo = {}, Goto(r, "check") PROVE Inv'
    <3>. DEFINE h == [tx[r] EXCEPT !.pc = "check"]
    <3>1. tx' = [tx EXCEPT ![r] = h] /\ GoesOn(r, h, {}) /\ h.draft = Nil /\ h.todo = {}
      BY <1>0, <2>1, <2>3 DEF Handler, GoesOn, Goto, Shape
    <3>2. Shape(h)
      BY <1>0, <2>1, <2>3 DEF Handler, Shape
    <3>. HIDE DEF h
    <3>. QED  BY <2>1, <2>3, <3>1, <3>2, GoesOnInv
  <2>. QED  BY <1>5, <2>2, <2>3 DEF NextDraft
\* After its draft is found gone or verified, or has been verified as v.
<1>6. ASSUME NEW r \in Request, tx[r].pc \in {"recipe", "update"}, tx[r].draft # Nil,
             tx[r].kind # "reject", UNCHANGED Tables,
             NEW v \in SUBSET exists, \A q \in Request \ {r} : v \cap Written(tx[q]) = {},
             tx[r].draft \notin exists \/ tx[r].draft \in verified \cup v,
             NEW h, tx' = [tx EXCEPT ![r] = h],
             h = [Continue(r) EXCEPT !.verifies = @ \cup v]
      PROVE  Inv'
  <2>1. tx[r].verifies \cup v \in SUBSET Draft
    BY <1>0, <1>6 DEF Inv, TypeOK, Handler
  <2>2. CASE tx[r].kind = "accept_all"
    <3>. DEFINE c == [tx[r] EXCEPT !.draft = Nil, !.pc = "recipe"]
    <3>1. /\ c \in Handler /\ c.pc = "recipe" /\ c.draft = Nil /\ c.todo = tx[r].todo
          /\ c.kind = tx[r].kind /\ c.job = tx[r].job /\ c.jobs = tx[r].jobs
          /\ c.listed = tx[r].listed /\ c.verifies = tx[r].verifies
          /\ c.deletes = tx[r].deletes /\ c.finishes = tx[r].finishes
      BY <1>0 DEF Handler
    <3>2. h = [c EXCEPT !.verifies = c.verifies \cup v]
      BY <1>6, <2>2 DEF Continue
    <3>. HIDE DEF c
    <3>3. GoesOn(r, h, v) /\ h.pc = "recipe" /\ h.draft = Nil /\ h.todo = tx[r].todo
      BY <2>1, <3>1, <3>2 DEF GoesOn, Handler
    <3>4. Shape(h)
      BY <1>0, <1>6, <2>2, <3>3 DEF GoesOn, Shape
    <3>. QED  BY <1>6, <3>3, <3>4, GoesOnInv
  <2>3. CASE tx[r].kind # "accept_all"
    <3>. DEFINE c == [tx[r] EXCEPT !.pc = "check"]
    <3>1. /\ c \in Handler /\ c.pc = "check" /\ c.draft = tx[r].draft /\ c.todo = tx[r].todo
          /\ c.kind = tx[r].kind /\ c.job = tx[r].job /\ c.jobs = tx[r].jobs
          /\ c.listed = tx[r].listed /\ c.verifies = tx[r].verifies
          /\ c.deletes = tx[r].deletes /\ c.finishes = tx[r].finishes
      BY <1>0, <1>6 DEF Handler, Shape
    <3>2. h = [c EXCEPT !.verifies = c.verifies \cup v]
      BY <1>6, <2>3 DEF Continue
    <3>. HIDE DEF c
    <3>3. GoesOn(r, h, v) /\ h.pc = "check" /\ h.draft = tx[r].draft /\ h.todo = tx[r].todo
      BY <2>1, <3>1, <3>2 DEF GoesOn, Handler
    <3>4. Shape(h)
      BY <1>0, <1>6, <2>3, <3>3 DEF GoesOn, Shape
    <3>. QED  BY <1>6, <3>3, <3>4, GoesOnInv
  <2>. QED  BY <2>2, <2>3
<1>7. ASSUME NEW r \in Request, FindRecipe(r) PROVE Inv'
  <2>1. tx[r].pc = "recipe" /\ tx[r].draft # Nil /\ UNCHANGED Tables
    BY <1>7 DEF FindRecipe
  <2>2. CASE Abort(r)
    BY <1>2, <2>1, <2>2
  <2>3. CASE Goto(r, "update")
    <3>. DEFINE h == [tx[r] EXCEPT !.pc = "update"]
    <3>1. /\ tx' = [tx EXCEPT ![r] = h] /\ GoesOn(r, h, {})
          /\ h.draft = tx[r].draft /\ h.todo = tx[r].todo
      BY <1>0, <2>1, <2>3 DEF Handler, GoesOn, Goto, Shape
    <3>2. Shape(h)
      BY <1>0, <2>1, <2>3 DEF Handler, Shape
    <3>. HIDE DEF h
    <3>. QED  BY <2>1, <3>1, <3>2, GoesOnInv
  <2>4. CASE /\ tx' = [tx EXCEPT ![r] = Continue(r)] /\ tx[r].kind # "reject"
             /\ tx[r].draft \notin exists \/ tx[r].draft \in verified
    <3>1. [Continue(r) EXCEPT !.verifies = @ \cup {}] = Continue(r)
      BY <1>0 DEF Continue, Handler
    <3>. QED  BY <1>6, <2>1, <2>4, <3>1
  <2>. QED
    BY <1>7, <2>2, <2>3, <2>4 DEF FindRecipe
<1>8. ASSUME NEW r \in Request, Verify(r) PROVE Inv'
  <2>. DEFINE d == tx[r].draft
  <2>1. /\ tx[r].pc = "update" /\ d # Nil /\ UNCHANGED Tables
        /\ tx[r].kind # "reject" /\ ~RecipeBusy(r, d)
    BY <1>0, <1>8 DEF Verify, Shape
  <2>2. CASE Abort(r)
    BY <1>2, <2>1, <2>2
  <2>3. ASSUME d \in exists, tx' = [tx EXCEPT ![r] = [Continue(r) EXCEPT !.verifies = @ \cup {d}]]
        PROVE  Inv'
    <3>1. {d} \in SUBSET exists /\ \A q \in Request \ {r} : {d} \cap Written(tx[q]) = {}
      BY <2>1, <2>3 DEF RecipeBusy, RecipeLockedBy, Written
    <3>. QED  BY <1>6, <2>1, <2>3, <3>1
  <2>. QED  BY <1>8, <2>2, <2>3 DEF Verify
<1>9. ASSUME NEW r \in Request, Delete(r) PROVE Inv'
  <2>. DEFINE d == tx[r].draft
              h == [tx[r] EXCEPT !.pc = "relist", !.deletes = @ \cup {d}]
  <2>1. /\ tx[r].pc = "update" /\ d \in Draft /\ UNCHANGED Tables
        /\ tx[r].kind = "reject" /\ ~RecipeBusy(r, d)
    BY <1>0, <1>9 DEF Delete, Handler, Shape
  <2>2. tx[r].deletes \cup {d} \in SUBSET Draft
    BY <1>0, <2>1 DEF Handler
  <2>3. h \in Handler /\ tx' = [tx EXCEPT ![r] = h]
    BY <1>0, <1>9, <2>2 DEF Handler, Delete
  <2>4. /\ h.pc = "relist" /\ h.deletes = tx[r].deletes \cup {d} /\ h.verifies = tx[r].verifies
        /\ h.finishes = {} /\ h.listed = tx[r].listed /\ h.kind = "reject" /\ h.draft = d
        /\ h.job = tx[r].job /\ h.jobs = {}
    BY <1>0, <2>1 DEF Handler, Shape
  <2>5. Shape(h)
    BY <1>0, <2>1, <2>4, ReviewAssumption DEF Shape, Kind
  <2>6. Reliable(h) /\ Apart(r, h)
    BY <1>0, <2>1, <2>4 DEF Reliable, Apart, Written, RecipeBusy, RecipeLockedBy
  <2>. HIDE DEF h
  <2>. QED  BY <2>1, <2>3, <2>5, <2>6, HandlerStep
<1>10. ASSUME NEW r \in Request, Relist(r) PROVE Inv'
  <2>. DEFINE h == [tx[r] EXCEPT !.pc = "check", !.relists = TRUE, !.listed = @ \ {tx[r].draft}]
  <2>1. /\ tx[r].pc = "relist" /\ UNCHANGED Tables /\ tx[r].kind = "reject"
    BY <1>0, <1>10 DEF Relist, Shape
  <2>3. h \in Handler /\ tx' = [tx EXCEPT ![r] = h]
    BY <1>0, <1>10 DEF Handler, Relist
  <2>4. /\ h.pc = "check" /\ h.deletes = tx[r].deletes /\ h.verifies = tx[r].verifies
        /\ h.finishes = {} /\ h.listed = tx[r].listed \ {tx[r].draft} /\ h.kind = "reject"
        /\ h.job = tx[r].job /\ h.jobs = {}
    BY <1>0, <2>1 DEF Handler, Shape
  <2>. HIDE DEF h
  <2>5. Shape(h)
    BY <1>0, <2>1, <2>4 DEF Shape
  <2>6. Reliable(h) /\ Apart(r, h)
    BY <1>0, <2>1, <2>4 DEF Reliable, Apart, Written, Shape
  <2>. QED  BY <2>1, <2>3, <2>5, <2>6, HandlerStep
<1>11. ASSUME NEW r \in Request, MaybeComplete(r) PROVE Inv'
  <2>. DEFINE finishes == IF Completes(r) THEN {tx[r].job} ELSE {}
              h == [tx[r] EXCEPT !.pc = "commit", !.finishes = finishes]
  <2>1. /\ tx[r].pc = "check" /\ tx[r].kind # "accept_all" /\ UNCHANGED Tables
        /\ tx[r].job \in Job /\ finishes \subseteq Job
    BY <1>0, <1>11 DEF MaybeComplete, Shape
  <2>2. \A d \in exists \ tx[r].deletes : Of[d] \in finishes => d \in verified \cup tx[r].verifies
    BY <1>0, <2>1 DEF Reliable, Completes, Resolved, Sees, SeesVerified
  <2>3. tx' = [tx EXCEPT ![r] = h]
    BY <1>0, <1>11 DEF MaybeComplete
  <2>. HIDE DEF finishes
  <2>5. /\ h \in Handler /\ h.pc = "commit" /\ h.finishes = finishes
        /\ h.deletes = tx[r].deletes /\ h.verifies = tx[r].verifies
        /\ h.listed = tx[r].listed /\ h.kind = tx[r].kind /\ h.job = tx[r].job
        /\ h.jobs = tx[r].jobs /\ h.todo = tx[r].todo /\ h.draft = tx[r].draft
    BY <1>0, <2>1 DEF Handler
  <2>. HIDE DEF h
  <2>6. Shape(h)
    BY <1>0, <2>1, <2>5 DEF Shape
  <2>7. Reliable(h) /\ Apart(r, h)
    BY <1>0, <2>1, <2>2, <2>5 DEF Reliable, Apart, Written
  <2>. QED  BY <2>1, <2>3, <2>5, <2>6, <2>7, HandlerStep
<1>16. ASSUME NEW r \in Request, Finish(r) PROVE Inv'
  <2>. DEFINE finishes == tx[r].finishes \cup {tx[r].job}
              h == [tx[r] EXCEPT !.pc = "job", !.job = Nil, !.finishes = finishes]
  <2>1. /\ tx[r].pc = "check" /\ tx[r].kind = "accept_all" /\ UNCHANGED Tables
        /\ tx[r].job \in Job /\ finishes \subseteq Job /\ tx[r].deletes = {}
        /\ tx[r].todo = {} /\ tx[r].draft = Nil
    BY <1>0, <1>16 DEF Finish, Shape, Handler
  <2>2. \A d \in exists : /\ d # Nil /\ Of[d] # Nil
                          /\ Of[d] \in finishes => d \in verified \cup tx[r].verifies
    BY <1>0, <2>1, ReviewAssumption DEF Reliable, Inv, TypeOK
  <2>3. tx' = [tx EXCEPT ![r] = h]
    BY <1>0, <1>16 DEF Finish
  <2>. HIDE DEF finishes
  <2>5. /\ h \in Handler /\ h.pc = "job" /\ h.finishes = finishes
        /\ h.deletes = {} /\ h.verifies = tx[r].verifies
        /\ h.listed = tx[r].listed /\ h.kind = "accept_all" /\ h.job = Nil
        /\ h.jobs = tx[r].jobs /\ h.todo = {} /\ h.draft = Nil
    BY <1>0, <2>1 DEF Handler
  <2>. HIDE DEF h
  <2>6. Shape(h)
    BY <2>5 DEF Shape, Kind
  <2>7. Reliable(h) /\ Apart(r, h)
    BY <1>0, <2>1, <2>2, <2>5 DEF Reliable, Apart, Written
  <2>. QED  BY <2>1, <2>3, <2>5, <2>6, <2>7, HandlerStep
<1>12. ASSUME NEW r \in Request, Commit(r) PROVE Inv'
  <2>1. /\ tx[r].pc = "commit" /\ exists' = exists \ tx[r].deletes
        /\ verified' = (verified \cup tx[r].verifies) \ tx[r].deletes
        /\ status' = [j \in Job |-> IF j \in tx[r].finishes THEN "done" ELSE status[j]]
        /\ listed' = (IF tx[r].relists THEN From(listed, Job \ {tx[r].job}) \cup tx[r].listed
                                       ELSE listed)
        /\ UNCHANGED confident
    BY <1>12 DEF Commit
  <2>2. /\ tx' \in [Request -> Handler] /\ tx'[r] = Closed
        /\ \A q \in Request : q # r => tx'[q] = tx[q]
    BY <1>12, ClosedHandler DEF Commit, Abort, Inv, TypeOK
  <2>3. TypeOK'
    BY <1>0, <2>1, <2>2 DEF Inv, TypeOK, Handler, Reliable, From, Status
  <2>4. \A d \in exists : Of[d] \in Job
    BY ReviewAssumption DEF Inv, TypeOK
  <2>7. exists' \subseteq listed' /\ \A d \in exists' : status'[Of[d]] = "done" => d \in verified'
    BY <1>0, <2>1, <2>4 DEF Inv, Reliable, From
  <2>5. ASSUME NEW q \in Request PROVE Apart(q, tx[q])'
    BY <1>0, <2>2 DEF Apart, Written, Closed
  <2>6. ASSUME NEW q \in Request PROVE Shape(tx[q])' /\ Reliable(tx[q])'
    <3>1. CASE q = r
      BY <2>1, <2>2, <2>4, <3>1, ReviewAssumption DEF Shape, Reliable, Closed, Kind
    <3>2. CASE q # r
      <4>1. tx[q].verifies \cap tx[r].deletes = {} /\ tx'[q] = tx[q]
        BY <1>0, <2>2, <3>2 DEF Apart, Written
      <4>. QED  BY <1>0, <2>1, <4>1 DEF Shape, Reliable
    <3>. QED  BY <3>1, <3>2
  <2>. QED  BY <2>3, <2>5, <2>6, <2>7 DEF Inv
<1>13. ASSUME NEW d \in Draft, DeleteRecipe(d) PROVE Inv'
  <2>1. /\ exists' = exists \ {d} /\ verified' = verified \ {d}
        /\ UNCHANGED <<status, listed, confident, tx>>
        /\ \A r \in Request : d \notin tx[r].verifies
    BY <1>13 DEF DeleteRecipe, RecipeLockedBy
  <2>2. \A r \in Request : Shape(tx[r])' /\ Reliable(tx[r])' /\ Apart(r, tx[r])'
    BY <1>0, <2>1 DEF Shape, Reliable, Apart
  <2>. QED  BY <2>1, <2>2 DEF Inv, TypeOK
<1>14. QED
  BY <1>1, <1>2, <1>3, <1>4, <1>5, <1>7, <1>8, <1>9, <1>10, <1>11, <1>12, <1>13, <1>15, <1>16
     DEF Next, Fail

\* The inductive invariant, for any drafts and any overlapping handlers.
THEOREM Invariance == Spec => []Inv
<1>. QED  BY InitInv, NextInv, PTL DEF Spec

\* Types, and in particular: only existing recipes are verified (row locks).
THEOREM TypeCorrect == Spec => []TypeOK
<1>1. Inv => TypeOK
  BY DEF Inv
<1>. QED  BY <1>1, Invariance, PTL

\* A job is done only when each of its drafts was verified or is gone.
THEOREM ReviewSound == Spec => []DoneMeansResolved
<1>1. Inv => DoneMeansResolved
  BY DEF Inv, DoneMeansResolved
<1>. QED  BY <1>1, Invariance, PTL

-----------------------------------------------------------------------------
(* Waiting.  A handler that has finished no job holds locks on the rows of *)
(* one job only, and who holds that job's own lock waits for nobody: so    *)
(* such handlers wait for recipes, and the one waiting has come less far   *)
(* down the job's list than the one it waits for.                          *)

\* What the locks of a handler h say of its place in the code.
Ordered(h) ==
  /\ h.relists => h.kind = "reject" /\ h.pc \in {"check", "commit"}
  /\ h.kind # "accept_all" /\ h.pc \in {"recipe", "update"} => h.verifies = {}
  /\ \A d \in h.verifies : Of[d] \in h.finishes \cup {h.job}
  /\ \A d \in h.deletes : Of[d] = h.job
  /\ h.draft # Nil => Of[h.draft] = h.job
  /\ \A d \in h.todo : Of[d] = h.job
  /\ h.kind = "accept_all" =>
       /\ h.job \notin h.jobs \cup h.finishes /\ h.jobs \cap h.finishes = {}
       /\ \A d \in h.verifies, e \in h.todo : Of[d] = h.job => d < e
       /\ h.draft # Nil => /\ \A d \in h.verifies : Of[d] = h.job => d < h.draft
                           /\ \A e \in h.todo : h.draft < e

OneJobLock ==
  \A r, q \in Request, j \in Job : JobLockedBy(r, j) /\ JobLockedBy(q, j) => r = q
LockInv == (\A r \in Request : Ordered(tx[r])) /\ OneJobLock

\* A step of handler r to h, which takes a job's lock only when nobody else has it.
LEMMA LockStep ==
  ASSUME Inv, LockInv, NEW r \in Request, NEW h, tx' = [tx EXCEPT ![r] = h], Ordered(h),
         \A j \in Job : j \in h.finishes \/ (h.relists /\ h.job = j) =>
           JobLockedBy(r, j) \/ ~\E q \in Request \ {r} : JobLockedBy(q, j)
  PROVE  LockInv'
<1>1. tx'[r] = h /\ \A q \in Request : q # r => tx'[q] = tx[q]
  BY DEF Inv, TypeOK
<1>2. (\A q \in Request : Ordered(tx[q]))'
  BY <1>1 DEF LockInv, Ordered
<1>3. OneJobLock'
  BY <1>1 DEF LockInv, OneJobLock, JobLockedBy
<1> QED  BY <1>2, <1>3 DEF LockInv

\* Every step keeps the order in which locks are taken.
LEMMA LockNext == Inv /\ LockInv /\ [Next]_vars => LockInv'
<1> SUFFICES ASSUME Inv, LockInv, [Next]_vars PROVE LockInv'
  OBVIOUS
<1>0. \A r \in Request : tx[r] \in Handler /\ Shape(tx[r]) /\ Ordered(tx[r])
  BY DEF Inv, TypeOK, LockInv
<1>1. CASE UNCHANGED tx
  BY <1>1 DEF LockInv, OneJobLock, JobLockedBy, Ordered
<1>2. ASSUME NEW r \in Request, Abort(r) PROVE LockInv'
  <2>1. Ordered(Closed) /\ ~Closed.relists /\ Closed.finishes = {}
    BY DEF Ordered, Closed
  <2> QED  BY <1>2, <2>1, LockStep DEF Abort
<1>3. ASSUME NEW r \in Request, NEW kind \in Kind, NEW d \in Draft, Begin(r, kind, d)
      PROVE  LockInv'
  <2> DEFINE h == [Closed EXCEPT !.pc = "recipe", !.kind = kind, !.job = Of[d],
                !.draft = d, !.status = status[Of[d]], !.listed = From(listed, {Of[d]})]
  <2>1. Ordered(h) /\ ~h.relists /\ h.finishes = {}
    BY <1>3 DEF Ordered, Closed, Begin
  <2>2. tx' = [tx EXCEPT ![r] = h]
    BY <1>3 DEF Begin
  <2> HIDE DEF h
  <2> QED  BY <2>1, <2>2, LockStep
<1>14. ASSUME NEW r \in Request, BeginAll(r) PROVE LockInv'
  <2> DEFINE jobs == {j \in confident : status[j] = "needs_review"}
             h == [Closed EXCEPT !.pc = "job", !.kind = "accept_all",
                                !.jobs = jobs, !.listed = From(listed, jobs)]
  <2>1. tx' = [tx EXCEPT ![r] = h] /\ Nil \notin jobs
    BY <1>14, ReviewAssumption DEF BeginAll, Inv, TypeOK
  <2> HIDE DEF jobs
  <2>2. Ordered(h) /\ ~h.relists /\ h.finishes = {}
    BY <2>1 DEF Ordered, Closed
  <2> HIDE DEF h
  <2> QED  BY <2>1, <2>2, LockStep
\* Steps before the job is written.
<1>4. ASSUME NEW r \in Request, NEW h, tx' = [tx EXCEPT ![r] = h], Ordered(h),
             h.relists = tx[r].relists, h.finishes = tx[r].finishes,
             h.relists => h.job = tx[r].job
      PROVE  LockInv'
  BY <1>4, LockStep DEF JobLockedBy
<1>15. ASSUME NEW r \in Request, NextJob(r) PROVE LockInv'
  <2>1. /\ tx[r].pc = "job" /\ tx[r].kind = "accept_all" /\ tx[r].draft = Nil
        /\ tx[r].todo = {} /\ tx[r].job = Nil /\ ~tx[r].relists /\ tx[r].deletes = {}
    BY <1>0, <1>15 DEF NextJob, Shape, Ordered
  <2>2. ASSUME NEW j \in tx[r].jobs,
               tx' = [tx EXCEPT ![r].pc = "recipe", ![r].job = j, ![r].jobs = @ \ {j},
                                ![r].todo = From(tx[r].listed, {j})]
        PROVE  LockInv'
    <3> DEFINE todo == From(tx[r].listed, {j})
               h == [tx[r] EXCEPT !.pc = "recipe", !.job = j, !.jobs = @ \ {j}, !.todo = todo]
    <3>1. tx' = [tx EXCEPT ![r] = h] /\ \A d \in todo : Of[d] = j
      BY <1>0, <2>2 DEF Handler, From
    <3>6. \A d \in tx[r].verifies : Of[d] \in Job /\ Of[d] # Nil
      <4>1. tx[r].verifies \subseteq Draft
        BY <1>0 DEF Handler
      <4> QED  BY <4>1, ReviewAssumption
    <3>2. \A d \in tx[r].verifies : Of[d] \in tx[r].finishes /\ Of[d] # j
      BY <1>0, <2>1, <2>2, <3>6 DEF Ordered
    <3> HIDE DEF todo
    <3>3. /\ h.kind = "accept_all" /\ h.job = j /\ h.todo = todo /\ h.draft = Nil /\ h.pc = "recipe"
          /\ h.jobs = tx[r].jobs \ {j} /\ h.verifies = tx[r].verifies /\ ~h.relists
          /\ h.deletes = {} /\ h.finishes = tx[r].finishes /\ h.relists = tx[r].relists
      BY <1>0, <2>1 DEF Handler
    <3> HIDE DEF h
    <3>5. Ordered(h)
      BY <1>0, <2>1, <2>2, <3>1, <3>2, <3>3 DEF Ordered
    <3> QED  BY <1>4, <3>1, <3>3, <3>5
  <2>3. CASE Goto(r, "commit")
    <3> DEFINE h == [tx[r] EXCEPT !.pc = "commit"]
    <3>1. /\ tx' = [tx EXCEPT ![r] = h] /\ h.draft = tx[r].draft /\ h.todo = tx[r].todo
          /\ h.pc = "commit" /\ h.kind = tx[r].kind /\ h.verifies = tx[r].verifies
          /\ h.relists = tx[r].relists /\ h.finishes = tx[r].finishes /\ h.job = tx[r].job
          /\ h.jobs = tx[r].jobs /\ h.deletes = tx[r].deletes
      BY <1>0, <2>3 DEF Handler, Goto
    <3> HIDE DEF h
    <3>2. Ordered(h)
      BY <1>0, <2>1, <3>1 DEF Ordered
    <3> QED  BY <1>4, <3>1, <3>2
  <2> QED  BY <1>15, <2>2, <2>3 DEF NextJob
<1>5. ASSUME NEW r \in Request, NextDraft(r) PROVE LockInv'
  <2>1. /\ tx[r].pc = "recipe" /\ tx[r].kind = "accept_all" /\ tx[r].draft = Nil
        /\ tx[r].todo \subseteq Nat
    BY <1>0, <1>5, ReviewAssumption DEF NextDraft, Handler
  <2>2. ASSUME NEW d \in tx[r].todo, \A e \in tx[r].todo : d <= e,
               tx' = [tx EXCEPT ![r].draft = d, ![r].todo = @ \ {d}]
        PROVE  LockInv'
    <3> DEFINE h == [tx[r] EXCEPT !.draft = d, !.todo = @ \ {d}]
    <3>1. /\ tx' = [tx EXCEPT ![r] = h] /\ h.draft = d /\ h.todo = tx[r].todo \ {d}
          /\ h.pc = tx[r].pc /\ h.kind = tx[r].kind /\ h.verifies = tx[r].verifies
          /\ h.relists = tx[r].relists /\ h.finishes = tx[r].finishes
          /\ h.job = tx[r].job /\ h.jobs = tx[r].jobs /\ h.deletes = tx[r].deletes
      BY <1>0, <2>2 DEF Handler
    <3> HIDE DEF h
    <3>2. Ordered(h)
      BY <1>0, <2>1, <2>2, <3>1 DEF Ordered
    <3> QED  BY <1>4, <3>1, <3>2
  <2>3. ASSUME Goto(r, "check") PROVE LockInv'
    <3> DEFINE h == [tx[r] EXCEPT !.pc = "check"]
    <3>1. /\ tx' = [tx EXCEPT ![r] = h] /\ h.draft = tx[r].draft /\ h.todo = tx[r].todo
          /\ h.pc = "check" /\ h.kind = tx[r].kind /\ h.verifies = tx[r].verifies
          /\ h.relists = tx[r].relists /\ h.finishes = tx[r].finishes
          /\ h.job = tx[r].job /\ h.jobs = tx[r].jobs /\ h.deletes = tx[r].deletes
      BY <1>0, <2>3 DEF Handler, Goto
    <3> HIDE DEF h
    <3>2. Ordered(h)
      BY <1>0, <2>1, <3>1 DEF Ordered
    <3> QED  BY <1>4, <3>1, <3>2
  <2> QED  BY <1>5, <2>2, <2>3 DEF NextDraft
\* The draft at hand is dealt with: it has been verified as v, or needs no statement.
<1>6. ASSUME NEW r \in Request, tx[r].pc \in {"recipe", "update"}, tx[r].draft # Nil,
             NEW v \in SUBSET {tx[r].draft}, NEW h, tx' = [tx EXCEPT ![r] = h],
             h = [Continue(r) EXCEPT !.verifies = @ \cup v]
      PROVE  LockInv'
  <2> DEFINE c == Continue(r)
  <2>1. /\ c \in Handler /\ c.kind = tx[r].kind /\ c.verifies = tx[r].verifies
        /\ c.relists = tx[r].relists /\ c.finishes = tx[r].finishes /\ c.todo = tx[r].todo
        /\ c.job = tx[r].job /\ c.jobs = tx[r].jobs /\ c.deletes = tx[r].deletes
        /\ c.draft \in {Nil, tx[r].draft}
        /\ tx[r].kind = "accept_all" => c.draft = Nil
        /\ tx[r].kind # "accept_all" => c.pc = "check"
    BY <1>0, <1>6 DEF Continue, Handler
  <2> HIDE DEF c
  <2>2. h = [c EXCEPT !.verifies = c.verifies \cup v]
    BY <1>6 DEF c
  <2>3. /\ h.kind = tx[r].kind /\ h.verifies = tx[r].verifies \cup v
        /\ h.relists = tx[r].relists /\ h.finishes = tx[r].finishes /\ h.todo = tx[r].todo
        /\ h.job = tx[r].job /\ h.jobs = tx[r].jobs /\ h.deletes = tx[r].deletes
        /\ h.draft \in {Nil, tx[r].draft}
        /\ tx[r].kind = "accept_all" => h.draft = Nil
        /\ tx[r].kind # "accept_all" => h.pc = "check"
    BY <2>1, <2>2 DEF Handler
  <2>4. ~tx[r].relists /\ Of[tx[r].draft] = tx[r].job
    BY <1>0, <1>6 DEF Ordered
  <2>5. Ordered(h)
    BY <1>0, <1>6, <2>3, <2>4 DEF Ordered
  <2> QED  BY <1>4, <1>6, <2>3, <2>5
<1>7. ASSUME NEW r \in Request, FindRecipe(r) PROVE LockInv'
  <2>1. tx[r].pc = "recipe" /\ tx[r].draft # Nil
    BY <1>7 DEF FindRecipe
  <2>2. CASE Goto(r, "update")
    <3> DEFINE h == [tx[r] EXCEPT !.pc = "update"]
    <3>1. /\ tx' = [tx EXCEPT ![r] = h] /\ h.draft = tx[r].draft /\ h.todo = tx[r].todo
          /\ h.pc = "update" /\ h.kind = tx[r].kind /\ h.verifies = tx[r].verifies
          /\ h.relists = tx[r].relists /\ h.finishes = tx[r].finishes
          /\ h.job = tx[r].job /\ h.jobs = tx[r].jobs /\ h.deletes = tx[r].deletes
      BY <1>0, <2>2 DEF Handler, Goto
    <3> HIDE DEF h
    <3>2. Ordered(h)
      BY <1>0, <2>1, <3>1 DEF Ordered
    <3> QED  BY <1>4, <3>1, <3>2
  <2>3. CASE tx' = [tx EXCEPT ![r] = Continue(r)]
    <3>1. [Continue(r) EXCEPT !.verifies = @ \cup {}] = Continue(r)
      BY <1>0 DEF Continue, Handler
    <3> QED  BY <1>6, <2>1, <2>3, <3>1
  <2> QED  BY <1>2, <1>7, <2>2, <2>3 DEF FindRecipe
<1>8. ASSUME NEW r \in Request, Verify(r) PROVE LockInv'
  <2>1. tx[r].pc = "update" /\ tx[r].draft # Nil
    BY <1>0, <1>8 DEF Verify, Shape
  <2>2. CASE tx' = [tx EXCEPT ![r] = [Continue(r) EXCEPT !.verifies = @ \cup {tx[r].draft}]]
    BY <1>6, <2>1, <2>2
  <2> QED  BY <1>2, <1>8, <2>2 DEF Verify
<1>9. ASSUME NEW r \in Request, Delete(r) PROVE LockInv'
  <2> DEFINE h == [tx[r] EXCEPT !.pc = "relist", !.deletes = @ \cup {tx[r].draft}]
  <2>1. /\ tx[r].pc = "update" /\ tx[r].kind = "reject" /\ tx[r].draft # Nil
        /\ tx' = [tx EXCEPT ![r] = h] /\ h.pc = "relist" /\ h.kind = "reject"
        /\ h.relists = tx[r].relists /\ h.finishes = tx[r].finishes /\ h.job = tx[r].job
        /\ h.deletes = tx[r].deletes \cup {tx[r].draft} /\ h.verifies = tx[r].verifies
        /\ h.draft = tx[r].draft /\ h.todo = tx[r].todo
    BY <1>0, <1>9 DEF Delete, Handler, Shape
  <2> HIDE DEF h
  <2>2. Ordered(h)
    BY <1>0, <2>1 DEF Ordered
  <2> QED  BY <1>4, <2>1, <2>2
<1>10. ASSUME NEW r \in Request, Relist(r) PROVE LockInv'
  <2> DEFINE h == [tx[r] EXCEPT !.pc = "check", !.relists = TRUE, !.listed = @ \ {tx[r].draft}]
  <2>1. /\ tx[r].pc = "relist" /\ tx[r].kind = "reject" /\ ~JobBusy(r)
        /\ tx' = [tx EXCEPT ![r] = h] /\ h.pc = "check" /\ h.kind = "reject"
        /\ h.finishes = {} /\ tx[r].finishes = {} /\ h.job = tx[r].job /\ h.deletes = tx[r].deletes
        /\ h.verifies = tx[r].verifies /\ h.draft = tx[r].draft /\ h.todo = tx[r].todo
    BY <1>0, <1>10 DEF Relist, Handler, Shape
  <2> HIDE DEF h
  <2>2. Ordered(h)
    BY <1>0, <2>1 DEF Ordered
  <2> QED  BY <2>1, <2>2, LockStep DEF JobBusy
<1>11. ASSUME NEW r \in Request, MaybeComplete(r) PROVE LockInv'
  <2> DEFINE finishes == IF Completes(r) THEN {tx[r].job} ELSE {}
             h == [tx[r] EXCEPT !.pc = "commit", !.finishes = finishes]
  <2>1. /\ tx[r].pc = "check" /\ tx[r].kind # "accept_all" /\ tx' = [tx EXCEPT ![r] = h]
        /\ tx[r].finishes = {} /\ finishes \subseteq {tx[r].job}
        /\ finishes # {} => ~JobBusy(r)
    BY <1>0, <1>11 DEF MaybeComplete, Shape
  <2> HIDE DEF finishes
  <2>2. /\ h.pc = "commit" /\ h.finishes = finishes /\ h.relists = tx[r].relists
        /\ h.kind = tx[r].kind /\ h.verifies = tx[r].verifies /\ h.todo = tx[r].todo
        /\ h.draft = tx[r].draft /\ h.job = tx[r].job /\ h.deletes = tx[r].deletes
    BY <1>0 DEF Handler
  <2> HIDE DEF h
  <2>3. Ordered(h)
    BY <1>0, <2>1, <2>2 DEF Ordered
  <2>4. ASSUME NEW j \in Job, j \in h.finishes \/ (h.relists /\ h.job = j)
        PROVE  JobLockedBy(r, j) \/ ~\E q \in Request \ {r} : JobLockedBy(q, j)
    BY <2>1, <2>2, <2>4 DEF JobLockedBy, JobBusy
  <2> QED  BY <2>1, <2>3, <2>4, LockStep
<1>16. ASSUME NEW r \in Request, Finish(r) PROVE LockInv'
  <2> DEFINE finishes == tx[r].finishes \cup {tx[r].job}
             h == [tx[r] EXCEPT !.pc = "job", !.job = Nil, !.finishes = finishes]
  <2>1. /\ tx[r].pc = "check" /\ tx[r].kind = "accept_all" /\ tx' = [tx EXCEPT ![r] = h]
        /\ ~JobBusy(r) /\ tx[r].job \in Job /\ tx[r].todo = {} /\ tx[r].draft = Nil
        /\ tx[r].deletes = {} /\ ~tx[r].relists
    BY <1>0, <1>16 DEF Finish, Shape, Ordered
  <2>2. Nil \notin tx[r].jobs \cup finishes
    BY <1>0, <2>1, ReviewAssumption DEF Handler
  <2>3. /\ h.pc = "job" /\ h.finishes = finishes /\ h.relists = tx[r].relists
        /\ h.kind = "accept_all" /\ h.verifies = tx[r].verifies /\ h.todo = {}
        /\ h.draft = Nil /\ h.job = Nil /\ h.jobs = tx[r].jobs /\ h.deletes = {}
    BY <1>0, <2>1 DEF Handler
  <2> HIDE DEF h
  <2>4. Ordered(h)
    BY <1>0, <2>1, <2>2, <2>3 DEF Ordered
  <2>5. ASSUME NEW j \in Job, j \in finishes
        PROVE  JobLockedBy(r, j) \/ ~\E q \in Request \ {r} : JobLockedBy(q, j)
    BY <2>1, <2>5 DEF JobLockedBy, JobBusy
  <2> HIDE DEF finishes
  <2> QED  BY <2>1, <2>3, <2>4, <2>5, LockStep
<1>12. ASSUME NEW r \in Request, Commit(r) PROVE LockInv'
  BY <1>2, <1>12 DEF Commit
<1>13. ASSUME NEW d \in Draft, DeleteRecipe(d) PROVE LockInv'
  BY <1>1, <1>13 DEF DeleteRecipe
<1> QED
  BY <1>1, <1>2, <1>3, <1>5, <1>7, <1>8, <1>9, <1>10, <1>11, <1>12, <1>13, <1>14, <1>15, <1>16
     DEF Next, Fail, vars

\* Locks are taken in order: of each job, recipes as the job lists them, then the job's
\* row (accept_all_high_confidence loops over produced_recipe_ids and sets the status after it).
THEOREM LockInvariance == Spec => [](Inv /\ LockInv)
<1>1. Init => LockInv
  BY DEF Init, LockInv, Ordered, OneJobLock, JobLockedBy, Closed
<1> QED  BY <1>1, InitInv, NextInv, LockNext, PTL DEF Spec

\* In no set does everybody hold a recipe that another, at the same job, waits for.
LEMMA NoDescent ==
  ASSUME Inv, LockInv, NEW T \in SUBSET Request,
         \A r \in T : \E q \in T : /\ tx[q].pc = "update" /\ RecipeLockedBy(r, tx[q].draft)
                                   /\ tx[q].job = tx[r].job
  PROVE  T = {}
<1> SUFFICES ASSUME T # {} PROVE FALSE
  OBVIOUS
<1> DEFINE U == {r \in T : tx[r].pc = "update"}
           drafts == {tx[r].draft : r \in U}
<1>0. \A r \in T : tx[r] \in Handler /\ Shape(tx[r]) /\ Ordered(tx[r])
  BY DEF Inv, TypeOK, LockInv
<1>1. \A r \in U : tx[r].draft \in Nat
  BY <1>0, ReviewAssumption DEF Shape, Handler
<1>2. drafts \subseteq Nat /\ drafts # {}
  BY <1>1
<1>3. PICK n \in drafts : \A m \in drafts : n <= m
  BY <1>2, LeastNumber
<1>4. PICK r \in U : tx[r].draft = n
  OBVIOUS
<1>5. PICK q \in U : RecipeLockedBy(r, tx[q].draft) /\ tx[q].job = tx[r].job
  OBVIOUS
<1>6. tx[q].draft \in tx[r].verifies /\ Of[tx[q].draft] = tx[r].job
  BY <1>0, <1>5 DEF RecipeLockedBy, Shape, Ordered
<1>7. tx[q].draft < tx[r].draft
  BY <1>0, <1>6 DEF Ordered, Shape
<1>8. n <= tx[q].draft
  BY <1>3
<1>9. n \in Nat /\ tx[q].draft \in Nat /\ tx[q].draft < n
  BY <1>1, <1>4, <1>7
<1> HIDE DEF U, drafts
<1> QED  BY <1>8, <1>9

\* A circle takes two accept_all calls that sweep different jobs.
LEMMA NoCircle == Inv /\ LockInv => NoLockCycle
<1> SUFFICES ASSUME Inv, LockInv, NEW S \in SUBSET Request, Circle(S),
                    \A p, q \in S : Sweeps(p) /\ Sweeps(q) => tx[p].job = tx[q].job
             PROVE  S = {}
  BY DEF NoLockCycle
<1>0. \A r \in S : /\ tx[r] \in Handler /\ Shape(tx[r]) /\ Ordered(tx[r])
                   /\ tx[r].pc \in {"update", "relist", "check"}
  BY DEF Inv, TypeOK, LockInv, Circle, Waits
\* Who waits holds the locks of the jobs it has finished only.
<1>1. ASSUME NEW r \in S, NEW j \in Job, JobLockedBy(r, j) PROVE Sweeps(r) /\ j # tx[r].job
  <2>1. PICK q \in S : Waits(r, q)
    BY DEF Circle
  <2>2. CASE tx[r].relists
    <3>1. tx[r].pc = "check" /\ tx[r].job \in Job /\ JobLockedBy(r, tx[r].job)
      BY <1>0, <2>2 DEF Ordered, Shape, JobLockedBy
    <3> QED  BY <2>1, <3>1 DEF Waits, LockInv, OneJobLock
  <2>3. CASE ~tx[r].relists
    BY <1>0, <1>1, <2>3 DEF JobLockedBy, Sweeps, Shape, Ordered
  <2> QED  BY <2>2, <2>3
<1>2. \A r \in S, q \in S : Waits(q, r) /\ tx[q].pc = "update" =>
        RecipeLockedBy(r, tx[q].draft) /\ Of[tx[q].draft] = tx[q].job
  BY <1>0 DEF Waits, Shape, Ordered
<1>3. \A r \in S, q \in S : Waits(q, r) /\ tx[q].pc # "update" => JobLockedBy(r, tx[q].job)
  BY DEF Waits
<1>4. \A r \in S : tx[r].job \in Job
  BY <1>0 DEF Shape
\* Handlers that sweep nothing, away from the job that is being swept, if any.
<1>5. ASSUME NEW K \in SUBSET S, \A r \in K : ~Sweeps(r),
             \A r \in K, q \in S : tx[q].job = tx[r].job => q \in K
      PROVE  K = {}
  <2>1. ASSUME NEW r \in K
        PROVE  \E q \in K : /\ tx[q].pc = "update" /\ RecipeLockedBy(r, tx[q].draft)
                            /\ tx[q].job = tx[r].job
    <3>1. PICK q \in S : Waits(q, r)
      BY DEF Circle
    <3>2. tx[q].pc = "update"
      BY <1>1, <1>3, <1>4, <1>5, <3>1
    <3>3. RecipeLockedBy(r, tx[q].draft) /\ Of[tx[q].draft] = tx[q].job
      BY <1>2, <3>1, <3>2
    <3>4. tx[r].finishes = {}
      BY <1>0, <1>5 DEF Sweeps, Shape
    <3>5. Of[tx[q].draft] = tx[r].job
      BY <1>0, <3>3, <3>4 DEF RecipeLockedBy, Ordered
    <3> QED  BY <1>5, <3>2, <3>3, <3>5
  <2> QED  BY <2>1, NoDescent
<1>6. CASE \A r \in S : ~Sweeps(r)
  BY <1>5, <1>6
<1>7. ASSUME NEW p \in S, Sweeps(p) PROVE FALSE
  <2> DEFINE K == {r \in S : tx[r].job # tx[p].job}
  <2>4. /\ K \in SUBSET S /\ \A r \in K : ~Sweeps(r)
        /\ \A r \in K, q \in S : tx[q].job = tx[r].job => q \in K
    BY <1>7
  <2>1. K = {}
    <3> HIDE DEF K
    <3> QED  BY <1>5, <2>4
  <2>2. \A r \in S : tx[r].job = tx[p].job
    BY <2>1
  <2>3. ASSUME NEW r \in S
        PROVE  \E q \in S : /\ tx[q].pc = "update" /\ RecipeLockedBy(r, tx[q].draft)
                            /\ tx[q].job = tx[r].job
    <3>1. PICK q \in S : Waits(q, r)
      BY DEF Circle
    <3>2. tx[q].pc = "update"
      BY <1>1, <1>3, <1>4, <2>2, <3>1
    <3> QED  BY <1>2, <2>2, <3>1, <3>2
  <2> QED  BY <1>7, <2>3, NoDescent
<1> QED  BY <1>6, <1>7

\* However many handlers and jobs there are, handlers wait in a circle only where two
\* accept_all calls sweep different jobs.
THEOREM NoDeadlock == Spec => []NoLockCycle
BY LockInvariance, NoCircle, PTL

-----------------------------------------------------------------------------
(* One handler at a time, and nobody who deletes drafts behind its back:   *)
(* what it loaded is still there when it commits, so the list is right and *)
(* the review ends.  (A job that produced no draft would wait for ever.)   *)

\* No two handlers overlap.
OneRequest == \A p, q \in Request : p = q

\* What the handler h has done so far, as the row it loaded stands.
Solo(h) ==
  /\ h.relists => h.kind = "reject"
  /\ h.kind # "accept_all" =>
       /\ h.job \in Job /\ h.status = status[h.job]
       /\ h.pc \in {"recipe", "update", "relist"} \/ h.kind # "reject" =>
            ~h.relists /\ h.listed = From(listed, {h.job})
       /\ h.pc = "commit" =>
            h.finishes = IF h.status # "done"
                            /\ h.listed \cap (exists \ h.deletes) \subseteq verified \cup h.verifies
                           THEN {h.job} ELSE {}
  /\ h.kind = "reject" /\ h.pc \in {"relist", "check", "commit"} => h.deletes = {h.draft}
  /\ h.kind = "reject" /\ h.pc \in {"check", "commit"} =>
       h.relists /\ h.listed = From(listed, {h.job}) \ {h.draft}

\* Between commits the rows are as ReviewCompletes and ListedExist say.
SoloInv ==
  /\ listed \subseteq exists
  /\ \A j \in Job : From(listed, {j}) \subseteq verified => status[j] = "done"
  /\ \A r \in Request : tx[r].pc # "closed" => Solo(tx[r])

\* A statement of the handler.
LEMMA SoloStep ==
  ASSUME OneRequest, Inv, SoloInv, NEW r \in Request, NEW h, UNCHANGED Tables,
         tx' = [tx EXCEPT ![r] = h], h.pc # "closed" => Solo(h)
  PROVE  SoloInv'
<1>1. tx'[r] = h /\ \A q \in Request : q = r
  BY DEF Inv, TypeOK, OneRequest
<1>2. \A q \in Request : (tx[q].pc # "closed" => Solo(tx[q]))'
  BY <1>1 DEF Solo, Tables, From
<1> QED  BY <1>2 DEF SoloInv, Tables, From

\* A handler alone keeps the job's list and its status with the recipes.
LEMMA SoloNext ==
  ASSUME OneRequest, ~DirectDelete PROVE Inv /\ LockInv /\ SoloInv /\ [Next]_vars => SoloInv'
<1> SUFFICES ASSUME Inv, LockInv, SoloInv, [Next]_vars PROVE SoloInv'
  OBVIOUS
<1>0. \A r \in Request : /\ tx[r] \in Handler /\ Shape(tx[r]) /\ Ordered(tx[r])
                         /\ tx[r].pc # "closed" => Solo(tx[r])
  BY DEF Inv, LockInv, TypeOK, SoloInv
<1>1. CASE UNCHANGED vars
  BY <1>1 DEF vars, SoloInv, Solo
<1>2. ASSUME NEW r \in Request, Abort(r), UNCHANGED Tables PROVE SoloInv'
  BY <1>2, SoloStep DEF Abort, Closed
<1>3. ASSUME NEW r \in Request, NEW kind \in Kind, NEW d \in Draft, Begin(r, kind, d)
      PROVE  SoloInv'
  <2> DEFINE h == [Closed EXCEPT !.pc = "recipe", !.kind = kind, !.job = Of[d],
                !.draft = d, !.status = status[Of[d]], !.listed = From(listed, {Of[d]})]
  <2>1. tx' = [tx EXCEPT ![r] = h] /\ UNCHANGED Tables /\ Solo(h)
    BY <1>3, ReviewAssumption DEF Begin, Solo, Closed
  <2> HIDE DEF h
  <2> QED  BY <2>1, SoloStep
<1>14. ASSUME NEW r \in Request, BeginAll(r) PROVE SoloInv'
  <2> DEFINE jobs == {j \in confident : status[j] = "needs_review"}
             h == [Closed EXCEPT !.pc = "job", !.kind = "accept_all",
                                !.jobs = jobs, !.listed = From(listed, jobs)]
  <2>1. tx' = [tx EXCEPT ![r] = h] /\ UNCHANGED Tables /\ Solo(h)
    BY <1>14 DEF BeginAll, Solo, Closed
  <2> HIDE DEF h
  <2> QED  BY <2>1, SoloStep
\* accept_all goes on.
<1>15. ASSUME NEW r \in Request, NEW h, UNCHANGED Tables, tx' = [tx EXCEPT ![r] = h],
             h.kind = "accept_all", ~h.relists
      PROVE  SoloInv'
  BY <1>15, SoloStep DEF Solo
\* A handler goes on, and neither deletes nor lists anything.
<1>4. ASSUME NEW r \in Request, NEW h, UNCHANGED Tables, tx' = [tx EXCEPT ![r] = h],
             tx[r].pc # "closed", h.pc # "commit", h.job = tx[r].job,
             h.kind = tx[r].kind, h.status = tx[r].status, h.listed = tx[r].listed,
             h.relists = tx[r].relists,
             h.kind = "reject" => h.pc \in {"recipe", "update"} /\ tx[r].pc \in {"recipe", "update"}
      PROVE  SoloInv'
  <2>1. Solo(h)
    BY <1>0, <1>4 DEF Solo
  <2> QED  BY <1>4, <2>1, SoloStep
<1>16. ASSUME NEW r \in Request, NextJob(r) PROVE SoloInv'
  <2>1. tx[r].pc = "job" /\ tx[r].kind = "accept_all" /\ ~tx[r].relists /\ UNCHANGED Tables
    BY <1>0, <1>16 DEF NextJob, Shape, Ordered
  <2>2. ASSUME NEW j, tx' = [tx EXCEPT ![r].pc = "recipe", ![r].job = j, ![r].jobs = @ \ {j},
                                      ![r].todo = From(tx[r].listed, {j})]
        PROVE  SoloInv'
    <3> DEFINE todo == From(tx[r].listed, {j})
               h == [tx[r] EXCEPT !.pc = "recipe", !.job = j, !.jobs = @ \ {j}, !.todo = todo]
    <3>1. tx' = [tx EXCEPT ![r] = h] /\ h.kind = "accept_all" /\ ~h.relists
      BY <1>0, <2>1, <2>2 DEF Handler
    <3> HIDE DEF h
    <3> QED  BY <1>15, <2>1, <3>1
  <2>3. CASE Goto(r, "commit")
    <3> DEFINE h == [tx[r] EXCEPT !.pc = "commit"]
    <3>1. tx' = [tx EXCEPT ![r] = h] /\ h.kind = "accept_all" /\ ~h.relists
      BY <1>0, <2>1, <2>3 DEF Handler, Goto
    <3> HIDE DEF h
    <3> QED  BY <1>15, <2>1, <3>1
  <2> QED  BY <1>16, <2>2, <2>3 DEF NextJob
<1>17. ASSUME NEW r \in Request, Finish(r) PROVE SoloInv'
  <2> DEFINE finishes == tx[r].finishes \cup {tx[r].job}
             h == [tx[r] EXCEPT !.pc = "job", !.job = Nil, !.finishes = finishes]
  <2>1. /\ UNCHANGED Tables /\ ~tx[r].relists /\ tx[r].kind = "accept_all"
        /\ tx' = [tx EXCEPT ![r] = h]
    BY <1>0, <1>17 DEF Finish, Ordered
  <2>2. h.kind = "accept_all" /\ ~h.relists
    BY <1>0, <2>1 DEF Handler
  <2> HIDE DEF h
  <2> QED  BY <1>15, <2>1, <2>2
<1>5. ASSUME NEW r \in Request, NextDraft(r) PROVE SoloInv'
  <2>1. tx[r].pc = "recipe" /\ tx[r].kind = "accept_all" /\ UNCHANGED Tables
    BY <1>5 DEF NextDraft
  <2>2. ASSUME NEW d, tx' = [tx EXCEPT ![r].draft = d, ![r].todo = @ \ {d}] PROVE SoloInv'
    <3> DEFINE h == [tx[r] EXCEPT !.draft = d, !.todo = @ \ {d}]
    <3>1. /\ tx' = [tx EXCEPT ![r] = h] /\ h.pc = tx[r].pc /\ h.kind = tx[r].kind
          /\ h.status = tx[r].status /\ h.listed = tx[r].listed /\ h.relists = tx[r].relists
          /\ h.job = tx[r].job
      BY <1>0, <2>2 DEF Handler
    <3> HIDE DEF h
    <3> QED  BY <1>4, <2>1, <3>1
  <2>3. CASE Goto(r, "check")
    <3> DEFINE h == [tx[r] EXCEPT !.pc = "check"]
    <3>1. /\ tx' = [tx EXCEPT ![r] = h] /\ h.pc = "check" /\ h.kind = tx[r].kind
          /\ h.status = tx[r].status /\ h.listed = tx[r].listed /\ h.relists = tx[r].relists
          /\ h.job = tx[r].job
      BY <1>0, <2>3 DEF Handler, Goto
    <3> HIDE DEF h
    <3> QED  BY <1>4, <2>1, <3>1
  <2> QED  BY <1>5, <2>2, <2>3 DEF NextDraft
<1>6. ASSUME NEW r \in Request, tx[r].pc \in {"recipe", "update"}, tx[r].kind # "reject",
             UNCHANGED Tables, NEW v, tx' = [tx EXCEPT ![r] = [Continue(r) EXCEPT !.verifies = v]]
      PROVE  SoloInv'
  <2> DEFINE h == [Continue(r) EXCEPT !.verifies = v]
  <2>1. /\ tx' = [tx EXCEPT ![r] = h] /\ h.pc \in {"recipe", "check"} /\ h.kind = tx[r].kind
        /\ h.status = tx[r].status /\ h.listed = tx[r].listed /\ h.relists = tx[r].relists
        /\ h.job = tx[r].job
    BY <1>0, <1>6 DEF Handler, Continue
  <2> HIDE DEF h
  <2> QED  BY <1>4, <1>6, <2>1
<1>7. ASSUME NEW r \in Request, FindRecipe(r) PROVE SoloInv'
  <2>1. tx[r].pc = "recipe" /\ UNCHANGED Tables
    BY <1>7 DEF FindRecipe
  <2>2. CASE Goto(r, "update")
    <3> DEFINE h == [tx[r] EXCEPT !.pc = "update"]
    <3>1. /\ tx' = [tx EXCEPT ![r] = h] /\ h.pc = "update" /\ h.kind = tx[r].kind
          /\ h.status = tx[r].status /\ h.listed = tx[r].listed /\ h.relists = tx[r].relists
          /\ h.job = tx[r].job
      BY <1>0, <2>2 DEF Handler, Goto
    <3> HIDE DEF h
    <3> QED  BY <1>4, <2>1, <3>1
  <2>3. CASE tx' = [tx EXCEPT ![r] = Continue(r)] /\ tx[r].kind # "reject"
    <3>1. [Continue(r) EXCEPT !.verifies = tx[r].verifies] = Continue(r)
      BY <1>0 DEF Continue, Handler
    <3> QED  BY <1>6, <2>1, <2>3, <3>1
  <2> QED  BY <1>2, <1>7, <2>2, <2>3 DEF FindRecipe
<1>8. ASSUME NEW r \in Request, Verify(r) PROVE SoloInv'
  <2> DEFINE v == Continue(r).verifies \cup {tx[r].draft}
  <2>1. tx[r].pc = "update" /\ tx[r].kind # "reject" /\ UNCHANGED Tables
    BY <1>8 DEF Verify
  <2>2. CASE tx' = [tx EXCEPT ![r] = [Continue(r) EXCEPT !.verifies = v]]
    BY <1>6, <2>1, <2>2
  <2> QED  BY <1>2, <1>8, <2>1, <2>2 DEF Verify
<1>9. ASSUME NEW r \in Request, Delete(r) PROVE SoloInv'
  <2> DEFINE h == [tx[r] EXCEPT !.pc = "relist", !.deletes = @ \cup {tx[r].draft}]
  <2>1. /\ tx[r].pc = "update" /\ tx[r].kind = "reject" /\ UNCHANGED Tables
        /\ tx' = [tx EXCEPT ![r] = h] /\ h.pc = "relist" /\ h.kind = "reject"
        /\ h.status = tx[r].status /\ h.listed = tx[r].listed /\ h.relists = tx[r].relists
        /\ h.job = tx[r].job
        /\ h.draft = tx[r].draft /\ h.deletes = {h.draft}
    BY <1>0, <1>9 DEF Delete, Handler, Shape
  <2> HIDE DEF h
  <2>2. Solo(h)
    BY <1>0, <2>1 DEF Solo
  <2> QED  BY <2>1, <2>2, SoloStep
<1>10. ASSUME NEW r \in Request, Relist(r) PROVE SoloInv'
  <2> DEFINE h == [tx[r] EXCEPT !.pc = "check", !.relists = TRUE, !.listed = @ \ {tx[r].draft}]
  <2>1. /\ tx[r].pc = "relist" /\ tx[r].kind = "reject" /\ UNCHANGED Tables
        /\ tx' = [tx EXCEPT ![r] = h] /\ h.pc = "check" /\ h.kind = "reject"
        /\ h.status = tx[r].status /\ h.listed = tx[r].listed \ {h.draft} /\ h.relists
        /\ h.job = tx[r].job
        /\ h.draft = tx[r].draft /\ h.deletes = tx[r].deletes
    BY <1>0, <1>10 DEF Relist, Handler, Shape
  <2> HIDE DEF h
  <2>2. Solo(h)
    BY <1>0, <2>1 DEF Solo
  <2> QED  BY <2>1, <2>2, SoloStep
<1>11. ASSUME NEW r \in Request, MaybeComplete(r) PROVE SoloInv'
  <2> DEFINE finishes == IF Completes(r) THEN {tx[r].job} ELSE {}
             h == [tx[r] EXCEPT !.pc = "commit", !.finishes = finishes]
  <2>1. /\ tx[r].pc = "check" /\ tx[r].kind # "accept_all"
        /\ tx' = [tx EXCEPT ![r] = h] /\ UNCHANGED Tables
    BY <1>0, <1>11 DEF MaybeComplete
  <2>2. finishes = IF tx[r].status # "done"
                      /\ tx[r].listed \cap (exists \ tx[r].deletes) \subseteq verified \cup tx[r].verifies
                     THEN {tx[r].job} ELSE {}
    BY DEF Completes, Resolved, Sees, SeesVerified
  <2> HIDE DEF finishes
  <2>3. /\ h.pc = "commit" /\ h.finishes = finishes /\ h.relists = tx[r].relists
        /\ h.kind = tx[r].kind /\ h.status = tx[r].status /\ h.listed = tx[r].listed
        /\ h.verifies = tx[r].verifies /\ h.deletes = tx[r].deletes /\ h.draft = tx[r].draft
        /\ h.job = tx[r].job
    BY <1>0 DEF Handler
  <2> HIDE DEF h
  <2>4. Solo(h)
    BY <1>0, <2>1, <2>2, <2>3 DEF Solo
  <2> QED  BY <2>1, <2>4, SoloStep
<1>12. ASSUME NEW r \in Request, Commit(r) PROVE SoloInv'
  <2> DEFINE h == tx[r]
  <2>1. /\ h.pc = "commit" /\ exists' = exists \ h.deletes
        /\ verified' = (verified \cup h.verifies) \ h.deletes
        /\ status' = [j \in Job |-> IF j \in h.finishes THEN "done" ELSE status[j]]
        /\ listed' = (IF h.relists THEN From(listed, Job \ {h.job}) \cup h.listed ELSE listed)
        /\ Shape(h) /\ Ordered(h) /\ Solo(h)
    BY <1>0, <1>12 DEF Commit
  <2>2. \A q \in Request : tx'[q].pc = "closed"
    BY <1>12 DEF Commit, Abort, Closed, OneRequest, Inv, TypeOK
  <2>3. /\ listed \subseteq exists /\ \A d \in listed : Of[d] \in Job
        /\ \A j \in Job : From(listed, {j}) \subseteq verified => status[j] = "done"
    BY ReviewAssumption DEF SoloInv, Inv, TypeOK
  <2> HIDE DEF h
  <2>4. CASE h.kind = "accept_all"
    <3>1. h.job = Nil /\ h.deletes = {} /\ listed' = listed /\ exists' = exists
      BY <2>1, <2>4 DEF Shape, Solo
    <3>2. \A d \in listed : d \in verified' => d \in verified \/ Of[d] \in h.finishes
      BY <2>1, <2>3, <3>1, ReviewAssumption DEF Ordered
    <3>3. \A j \in Job : From(listed', {j}) \subseteq verified' => status'[j] = "done"
      BY <2>1, <2>3, <3>1, <3>2 DEF From
    <3> QED  BY <2>2, <2>3, <3>1, <3>3 DEF SoloInv
  <2>5. CASE h.kind # "accept_all"
    <3>1. /\ h.kind \in {"accept", "reject"} /\ h.job \in Job /\ h.status = status[h.job]
          /\ h.finishes \subseteq {h.job} /\ (h.relists <=> h.kind = "reject")
          /\ h.deletes = IF h.relists THEN {h.draft} ELSE {}
          /\ h.listed = From(listed, {h.job}) \ h.deletes
      BY <2>1, <2>5 DEF Solo, Shape, Kind
    <3>2. (\A d \in h.verifies : Of[d] = h.job) /\ \A d \in h.deletes : Of[d] = h.job
      BY <2>1, <3>1 DEF Ordered
    <3>3. listed' = listed \ h.deletes
      BY <2>1, <2>3, <3>1, <3>2 DEF From
    <3>4. ASSUME NEW j \in Job, From(listed', {j}) \subseteq verified' PROVE status'[j] = "done"
      <4>1. CASE j # h.job
        <5>1. From(listed, {j}) \subseteq verified
          BY <2>1, <3>2, <3>3, <3>4, <4>1 DEF From
        <5> QED  BY <2>1, <2>3, <5>1
      <4>2. CASE j = h.job
        <5>1. From(listed', {j}) = h.listed
          BY <3>1, <3>3, <4>2 DEF From
        <5>2. h.listed \subseteq verified \cup h.verifies
          BY <2>1, <3>4, <5>1
        <5>3. h.status # "done" => h.finishes = {h.job}
          BY <2>1, <2>5, <5>2 DEF Solo
        <5> QED  BY <2>1, <3>1, <4>2, <5>3
      <4> QED  BY <4>1, <4>2
    <3> QED  BY <2>1, <2>2, <2>3, <3>3, <3>4 DEF SoloInv
  <2> QED  BY <2>4, <2>5
<1> QED
  BY <1>1, <1>2, <1>3, <1>5, <1>7, <1>8, <1>9, <1>10, <1>11, <1>12, <1>14, <1>16, <1>17
     DEF Next, Fail, DeleteRecipe

\* Every job produced a draft.
NoneEmpty == \A j \in Job : \E d \in Draft : Of[d] = j

\* So it is always, when handlers do not overlap and nobody deletes a draft elsewhere.
LEMMA SoloInvariance ==
  ASSUME OneRequest, ~DirectDelete, NoneEmpty PROVE Spec => [](Inv /\ LockInv /\ SoloInv)
<1>1. Init => SoloInv
  BY DEF Init, SoloInv, Closed, NoneEmpty, From
<1> QED  BY <1>1, LockInvariance, SoloNext, PTL DEF Spec

\* With one handler at a time the review ends: no request open and nothing left to review
\* means done.
THEOREM ReviewEnds ==
  ASSUME OneRequest, ~DirectDelete, NoneEmpty PROVE Spec => []ReviewCompletes
<1>1. SoloInv => ReviewCompletes
  BY DEF SoloInv, ReviewCompletes, From
<1> QED  BY <1>1, SoloInvariance, PTL

\* With one handler at a time, a job lists only what exists.
THEOREM ListRight ==
  ASSUME OneRequest, ~DirectDelete, NoneEmpty PROVE Spec => []ListedExist
<1>1. SoloInv => ListedExist
  BY DEF SoloInv, ListedExist
<1> QED  BY <1>1, SoloInvariance, PTL

=============================================================================
