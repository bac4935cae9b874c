---------------------------- MODULE BoardsProofs ----------------------------
(***************************************************************************)
(* Theorems about Boards, for any sets of users, boards and recipes.       *)
(***************************************************************************)
EXTENDS Boards, FiniteSetTheorems, TLAPS

-----------------------------------------------------------------------------
(* What holds for any number of overlapping requests.                      *)

\* What the operation of a handler h says of its other fields.
Shape(h) ==
  /\ h.op # "closed" => h.user \in User /\ h.cookbook \in Cookbook
  /\ h.op = "remove" => h.recipe \in Recipe
  /\ h.op = "delete" => h.cookbook \in Board
  /\ h.adds # {} => h.op = "delete"

\* A home being given is the default cookbook of the recipe's owner.
Own(h) == \A p \in h.adds : p[1] = p[3] /\ owner[p[2]] = p[3]

Inv ==
  /\ TypeOK
  /\ \A q \in Request : Shape(tx[q]) /\ Own(tx[q])

LEMMA ClosedHandler == Closed \in Handler /\ Shape(Closed) /\ Own(Closed)
<1>1. Closed \in Handler
  BY DEF Closed, Handler, Visibility
<1>2. Shape(Closed) /\ Own(Closed)
  BY DEF Closed, Shape, Own
<1>3. QED  BY <1>1, <1>2

LEMMA InitInv == Init => Inv
<1>. SUFFICES ASSUME Init PROVE Inv
  OBVIOUS
<1>1. board \in [Cookbook -> Row] /\ role \in [Cookbook -> [User -> Role]]
  BY DEF Init, NoRow, Row, Visibility, Role
<1>2. TypeOK
  BY <1>1, ClosedHandler DEF Init, TypeOK
<1>3. QED  BY <1>2, ClosedHandler DEF Init, Inv

\* A handler only reads: request q becomes h.
LEMMA HandlerStep ==
  ASSUME Inv, NEW q \in Request, NEW h \in Handler, UNCHANGED Tables,
         tx' = [tx EXCEPT ![q] = h], Shape(h), Own(h)
  PROVE  Inv'
<1>1. tx' \in [Request -> Handler] /\ tx'[q] = h /\ \A p \in Request : p # q => tx'[p] = tx[p]
  BY DEF Inv, TypeOK
<1>2. TypeOK'
  BY <1>1 DEF Inv, TypeOK, Tables, Row
<1>3. ASSUME NEW p \in Request PROVE (Shape(tx[p]) /\ Own(tx[p]))'
  BY <1>1 DEF Inv, Tables, Shape, Own
<1>4. QED  BY <1>2, <1>3 DEF Inv

\* A handler writes and ends, or a request is done in one step: no owner changes
\* but a new recipe's and a deleted one's, and no handler is opened.
LEMMA TablesStep ==
  ASSUME Inv, board' \in [Cookbook -> Row], role' \in [Cookbook -> [User -> Role]],
         owner' \in [Recipe -> User \cup {Nil, Gone}],
         placed' \subseteq Cookbook \X Recipe \X User,
         \A q \in Request : tx'[q] = tx[q] \/ tx'[q] = Closed,
         tx' \in [Request -> Handler],
         \A p \in placed' : board'[p[1]].owner \in User /\ owner'[p[2]] \in User,
         \A r \in Recipe : \/ owner'[r] = owner[r]
                           \/ owner[r] = Nil
                           \/ /\ owner'[r] = Gone
                              /\ \A q \in Request : \A p \in tx'[q].adds : p[2] # r
  PROVE  Inv'
<1>1. TypeOK'
  BY DEF TypeOK
<1>2. ASSUME NEW q \in Request PROVE (Shape(tx[q]) /\ Own(tx[q]))'
  <2>1. CASE tx'[q] = Closed
    BY <2>1, ClosedHandler, BoardsAssumption DEF Closed, Shape, Own
  <2>2. CASE tx'[q] = tx[q]
    <3>1. Shape(tx[q])'
      BY <2>2 DEF Inv, Shape
    <3>2. tx[q] \in Handler /\ Own(tx[q])
      BY DEF Inv, TypeOK
    <3>4. ASSUME NEW p \in tx[q].adds PROVE p[1] = p[3] /\ owner'[p[2]] = p[3]
      <4>1. p[2] \in Recipe /\ p[3] \in User /\ p[1] = p[3] /\ owner[p[2]] = p[3]
        BY <3>2, <3>4 DEF Own, Handler
      <4>2. QED  BY <2>2, <4>1, BoardsAssumption
    <3>5. QED  BY <2>2, <3>1, <3>4 DEF Own
  <2>3. QED  BY <2>1, <2>2
<1>3. QED  BY <1>1, <1>2 DEF Inv

-----------------------------------------------------------------------------
(* The steps.                                                              *)

\* A check opens a handler that has given nothing yet.
LEMMA OpenStep ==
  ASSUME Inv, NEW q \in Request, NEW h \in Handler, Open(q, h), UNCHANGED Tables,
         Shape(h), h.adds = {}
  PROVE  Inv'
  BY HandlerStep DEF Open, Own

LEMMA ChecksInv ==
  ASSUME Inv, NEW q \in Request, NEW u \in User,
         \/ \E c \in Cookbook : CheckCreate(q, u, c) \/ CheckDelete(q, u, c) \/ CheckShow(q, u, c)
         \/ \E r \in Recipe, c \in Cookbook :
              CheckAdd(q, u, r, c) \/ CheckSave(q, u, r, c) \/ CheckRemove(q, u, r, c)
         \/ \E r \in Recipe, v \in User : CheckShare(q, u, r, v)
  PROVE  Inv'
<1>0. Closed \in Handler /\ User \subseteq Cookbook
  BY ClosedHandler DEF Cookbook
<1>1. ASSUME NEW c \in Cookbook, CheckCreate(q, u, c) PROVE Inv'
  <2>. DEFINE h == [Closed EXCEPT !.op = "place", !.user = u, !.cookbook = c]
  <2>1. h \in Handler /\ Shape(h) /\ h.adds = {} /\ h.recipe = Nil
    BY <1>0 DEF Handler, Shape, Closed
  <2>. HIDE DEF h
  <2>2. Open(q, h) /\ UNCHANGED Tables
    BY <1>1 DEF CheckCreate, h
  <2>3. QED  BY <2>1, <2>2, OpenStep
<1>2. ASSUME NEW c \in Cookbook, CheckDelete(q, u, c) PROVE Inv'
  <2>. DEFINE t == {r \in Recipe : Homes(r) = {c}}
              h == [Closed EXCEPT !.op = "delete", !.user = u, !.cookbook = c, !.todo = t]
  <2>1. t \in SUBSET Recipe /\ c \in Board
    BY <1>2 DEF CheckDelete
  <2>2. Open(q, h) /\ UNCHANGED Tables
    BY <1>2 DEF CheckDelete
  <2>. HIDE DEF t
  <2>3. h \in Handler /\ Shape(h) /\ h.adds = {} /\ h.op = "delete"
    BY <1>0, <2>1 DEF Handler, Shape, Closed
  <2>. HIDE DEF h
  <2>4. QED  BY <2>2, <2>3, OpenStep
<1>3. ASSUME NEW c \in Cookbook, CheckShow(q, u, c) PROVE Inv'
  <2>. DEFINE s == [visibility |-> board[c].visibility, linked |-> board[c].linked]
              h == [Closed EXCEPT !.op = "show", !.user = u, !.cookbook = c, !.seen = s]
  <2>1. s \in [visibility : Visibility, linked : BOOLEAN]
    BY DEF Inv, TypeOK, Row
  <2>2. Open(q, h) /\ UNCHANGED Tables
    BY <1>3 DEF CheckShow
  <2>. HIDE DEF s
  <2>3. h \in Handler /\ Shape(h) /\ h.adds = {} /\ h.op = "show"
    BY <1>0, <2>1 DEF Handler, Shape, Closed
  <2>. HIDE DEF h
  <2>4. QED  BY <2>2, <2>3, OpenStep
<1>4. ASSUME NEW r \in Recipe, NEW c \in Cookbook, CheckAdd(q, u, r, c) \/ CheckSave(q, u, r, c)
      PROVE  Inv'
  <2>1. PICK n \in Recipe \cup {Nil} :
          /\ Open(q, [Closed EXCEPT !.op = "place", !.user = u, !.cookbook = c, !.recipe = n])
          /\ UNCHANGED Tables
    BY <1>4 DEF CheckAdd, CheckSave
  <2>. DEFINE h == [Closed EXCEPT !.op = "place", !.user = u, !.cookbook = c, !.recipe = n]
  <2>2. h \in Handler /\ Shape(h) /\ h.adds = {}
    BY <1>0, <2>1 DEF Handler, Shape, Closed
  <2>3. Open(q, h) /\ UNCHANGED Tables
    BY <2>1
  <2>. HIDE DEF h
  <2>4. QED  BY <2>2, <2>3, OpenStep
<1>5. ASSUME NEW r \in Recipe, NEW c \in Cookbook, CheckRemove(q, u, r, c) PROVE Inv'
  <2>. DEFINE h == [Closed EXCEPT !.op = "remove", !.user = u, !.cookbook = c, !.recipe = r]
  <2>1. h \in Handler /\ Shape(h) /\ h.adds = {} /\ h.op = "remove"
    BY <1>0 DEF Handler, Shape, Closed
  <2>. HIDE DEF h
  <2>2. Open(q, h) /\ UNCHANGED Tables
    BY <1>5 DEF CheckRemove, h
  <2>3. QED  BY <2>1, <2>2, OpenStep
<1>6. ASSUME NEW r \in Recipe, NEW v \in User, CheckShare(q, u, r, v) PROVE Inv'
  <2>. DEFINE h == [Closed EXCEPT !.op = "place", !.user = v, !.cookbook = v]
  <2>1. h \in Handler /\ Shape(h) /\ h.adds = {} /\ h.recipe = Nil
    BY <1>0 DEF Handler, Shape, Closed
  <2>. HIDE DEF h
  <2>2. Open(q, h) /\ UNCHANGED Tables
    BY <1>6 DEF CheckShare, h
  <2>3. QED  BY <2>1, <2>2, OpenStep
<1>7. QED  BY <1>1, <1>2, <1>3, <1>4, <1>5, <1>6

LEMMA BoardRows ==
  ASSUME TypeOK, NEW u \in User
  PROVE  /\ WithDefault(u) \in [Cookbook -> Row]
         /\ \A c \in Cookbook : Exists(c) => WithDefault(u)[c].owner \in User
         /\ WithDefault(u)[u].owner \in User
         /\ \A c \in Cookbook : /\ WithDefault(u)[c].visibility = board[c].visibility
                               /\ WithDefault(u)[c].linked = board[c].linked
  BY DEF TypeOK, WithDefault, Exists, Row, Cookbook

\* Where a request is done in one step, or ends, every other handler stays.
LEMMA CloseStep ==
  ASSUME Inv, NEW q \in Request, Close(q)
  PROVE  /\ tx' \in [Request -> Handler] /\ tx'[q] = Closed
         /\ \A p \in Request : p # q => tx'[p] = tx[p]
  BY ClosedHandler DEF Inv, TypeOK, Close

\* The requests that are done in one step.
LEMMA SingleInv ==
  ASSUME Inv, NEW u \in User,
         \/ \E c \in Cookbook : CreateCookbook(u, c)
         \/ ListCookbooks(u)
         \/ \E v \in User, c \in Cookbook :
              DropMember(u, c, v) \/ \E as \in Granted : SetMember(u, c, v, as)
         \/ \E r \in Recipe : DeleteRecipe(u, r)
  PROVE  Inv'
<1>0. TypeOK
  BY DEF Inv
<1>1. ASSUME NEW c \in Cookbook, CreateCookbook(u, c) PROVE Inv'
  <2>1. board' \in [Cookbook -> Row] /\ \A d \in Cookbook : Exists(d) => board'[d].owner \in User
    BY <1>0, <1>1, BoardsAssumption DEF CreateCookbook, TypeOK, Row, Exists
  <2>2. UNCHANGED <<role, owner, placed, tx>>
    BY <1>1 DEF CreateCookbook
  <2>3. QED  BY <1>0, <2>1, <2>2, TablesStep DEF TypeOK, Exists
<1>2. ASSUME ListCookbooks(u) PROVE Inv'
  <2>1. board' \in [Cookbook -> Row] /\ \A d \in Cookbook : Exists(d) => board'[d].owner \in User
    BY <1>0, <1>2, BoardRows DEF ListCookbooks
  <2>2. UNCHANGED <<role, owner, placed, tx>>
    BY <1>2 DEF ListCookbooks
  <2>3. QED  BY <1>0, <2>1, <2>2, TablesStep DEF TypeOK, Exists
<1>3. ASSUME NEW v \in User, NEW c \in Cookbook, NEW as \in Role,
             role' = [role EXCEPT ![c][v] = as], UNCHANGED <<board, owner, placed, tx>>
      PROVE  Inv'
  <2>1. role' \in [Cookbook -> [User -> Role]]
    BY <1>0, <1>3 DEF TypeOK
  <2>2. QED  BY <1>0, <1>3, <2>1, TablesStep DEF TypeOK
<1>4. ASSUME NEW r \in Recipe, DeleteRecipe(u, r) PROVE Inv'
  <2>1. owner' = [owner EXCEPT ![r] = Gone] /\ owner[r] = u
        /\ placed' = {p \in placed : p[2] # r} /\ UNCHANGED <<board, role, tx>>
    BY <1>4 DEF DeleteRecipe
  <2>2. \A q \in Request : \A p \in tx[q].adds : p[2] # r
    <3>. SUFFICES ASSUME NEW q \in Request, NEW p \in tx[q].adds, p[2] = r PROVE FALSE
      OBVIOUS
    <3>1. tx[q].adds \subseteq Cookbook \X Recipe \X User
      BY <1>0 DEF TypeOK, Handler
    <3>2. p[1] \in Cookbook /\ p[3] \in User /\ p = <<p[1], p[2], p[3]>>
      BY <3>1
    <3>3. In(tx[q].adds, p[1], r)
      BY <3>2 DEF In
    <3>4. QED  BY <1>4, <3>2, <3>3 DEF DeleteRecipe
  <2>3. owner' \in [Recipe -> User \cup {Nil, Gone}]
    BY <1>0, <2>1 DEF TypeOK
  <2>4. \A p \in placed' : board'[p[1]].owner \in User /\ owner'[p[2]] \in User
    BY <1>0, <2>1 DEF TypeOK
  <2>5. placed' \subseteq Cookbook \X Recipe \X User
    BY <1>0, <2>1 DEF TypeOK
  <2>6. \A s \in Recipe : owner'[s] = owner[s] \/ (s = r /\ owner'[s] = Gone)
    BY <1>0, <2>1 DEF TypeOK
  <2>7. board' \in [Cookbook -> Row] /\ role' \in [Cookbook -> [User -> Role]]
        /\ tx' \in [Request -> Handler] /\ \A q \in Request : tx'[q] = tx[q]
    BY <1>0, <2>1 DEF TypeOK
  <2>8. \A s \in Recipe : \/ owner'[s] = owner[s]
                          \/ owner[s] = Nil
                          \/ /\ owner'[s] = Gone
                             /\ \A q \in Request : \A p \in tx'[q].adds : p[2] # s
    BY <2>2, <2>6, <2>7
  <2>9. QED  BY <2>3, <2>4, <2>5, <2>7, <2>8, TablesStep
<1>5. QED  BY <1>1, <1>2, <1>3, <1>4 DEF DropMember, SetMember, Role

\* What an insert leaves.
LEMMA InsertPlaced ==
  ASSUME NEW c \in Cookbook, NEW r \in Recipe, NEW u \in User, NEW p \in Insert(c, r, u)
  PROVE  p \in placed \/ p = <<c, r, u>>
  BY DEF Insert

LEMMA PlaceInv ==
  ASSUME Inv, NEW q \in Request, PlaceNew(q) \/ PlaceReference(q)
  PROVE  Inv'
<1>. DEFINE u == tx[q].user
            c == tx[q].cookbook
<1>0. TypeOK /\ Shape(tx[q]) /\ Own(tx[q]) /\ tx[q] \in Handler
  BY DEF Inv, TypeOK
<1>1. u \in User /\ c \in Cookbook
  BY <1>0, BoardsAssumption DEF Shape, PlaceNew, PlaceReference
<1>2. Close(q)
  BY DEF PlaceNew, PlaceReference
<1>3. /\ tx' \in [Request -> Handler]
      /\ \A p \in Request : tx'[p] = tx[p] \/ tx'[p] = Closed
  BY <1>2, CloseStep
<1>4. CASE PlaceNew(q)
  <2>1. PICK r \in Recipe : /\ owner[r] = Nil
                            /\ owner' = [owner EXCEPT ![r] = u]
                            /\ placed' = Insert(c, r, u)
    BY <1>4 DEF PlaceNew
  <2>2. /\ c = u \/ Exists(c)
        /\ board' = IF c = u THEN WithDefault(u) ELSE board
        /\ role' = role
    BY <1>4 DEF PlaceNew
  <2>. HIDE DEF u, c
  <2>3. /\ board' \in [Cookbook -> Row] /\ board'[c].owner \in User
        /\ \A d \in Cookbook : board[d].owner \in User => board'[d].owner \in User
    BY <1>0, <1>1, <2>2, BoardRows DEF TypeOK, Exists
  <2>4. /\ owner' \in [Recipe -> User \cup {Nil, Gone}] /\ owner'[r] = u
        /\ \A s \in Recipe : s # r => owner'[s] = owner[s]
    BY <1>0, <1>1, <2>1 DEF TypeOK
  <2>5. placed' \subseteq Cookbook \X Recipe \X User
    BY <1>0, <1>1, <2>1 DEF TypeOK, Insert
  <2>6. ASSUME NEW p \in placed' PROVE board'[p[1]].owner \in User /\ owner'[p[2]] \in User
    <3>1. CASE p \in placed
      <4>1. /\ p[1] \in Cookbook /\ p[2] \in Recipe /\ p[3] \in User
            /\ board[p[1]].owner \in User /\ owner[p[2]] \in User
        BY <1>0, <3>1 DEF TypeOK
      <4>2. p[2] # r
        BY <2>1, <4>1, BoardsAssumption
      <4>3. QED  BY <2>3, <2>4, <4>1, <4>2
    <3>2. CASE p = <<c, r, u>>
      BY <1>1, <2>3, <2>4, <3>2
    <3>3. p \in placed \/ p = <<c, r, u>>
      BY <1>1, <2>1, InsertPlaced
    <3>4. QED  BY <3>1, <3>2, <3>3
  <2>7. role' \in [Cookbook -> [User -> Role]]
    BY <1>0, <2>2 DEF TypeOK
  <2>8. \A s \in Recipe : owner'[s] = owner[s] \/ owner[s] = Nil
    BY <2>1, <2>4
  <2>9. QED  BY <1>3, <2>3, <2>4, <2>5, <2>6, <2>7, <2>8, TablesStep
<1>5. CASE PlaceReference(q)
  <2>. DEFINE r == tx[q].recipe
  <2>1. /\ r \in Recipe /\ Exists(c) /\ Alive(r) /\ placed' = Insert(c, r, u)
        /\ UNCHANGED <<board, role, owner>>
    BY <1>0, <1>5 DEF PlaceReference, Handler
  <2>. HIDE DEF u, c, r
  <2>3. placed' \subseteq Cookbook \X Recipe \X User
    BY <1>0, <1>1, <2>1 DEF TypeOK, Insert
  <2>4. \A p \in placed' : p \in placed \/ p = <<c, r, u>>
    BY <1>1, <2>1, InsertPlaced
  <2>5. ASSUME NEW p \in placed' PROVE board'[p[1]].owner \in User /\ owner'[p[2]] \in User
    <3>1. CASE p \in placed
      BY <1>0, <2>1, <3>1 DEF TypeOK
    <3>2. CASE p = <<c, r, u>>
      BY <2>1, <3>2 DEF Exists, Alive
    <3>3. QED  BY <2>4, <3>1, <3>2
  <2>6. /\ board' \in [Cookbook -> Row] /\ role' \in [Cookbook -> [User -> Role]]
        /\ owner' \in [Recipe -> User \cup {Nil, Gone}] /\ \A s \in Recipe : owner'[s] = owner[s]
    BY <1>0, <2>1 DEF TypeOK
  <2>7. QED  BY <1>3, <2>3, <2>5, <2>6, TablesStep
<1>6. QED  BY <1>4, <1>5

LEMMA RemoveInv ==
  ASSUME Inv, NEW q \in Request, Remove(q)
  PROVE  Inv'
<1>0. TypeOK
  BY DEF Inv
<1>1. Close(q) /\ placed' \subseteq placed /\ UNCHANGED <<board, role, owner>>
  BY DEF Remove
<1>2. /\ tx' \in [Request -> Handler]
      /\ \A p \in Request : tx'[p] = tx[p] \/ tx'[p] = Closed
  BY <1>1, CloseStep
<1>3. QED  BY <1>0, <1>1, <1>2, TablesStep DEF TypeOK

LEMMA RescueInv ==
  ASSUME Inv, NEW q \in Request, NEW r \in Recipe, Rescue(q, r)
  PROVE  Inv'
<1>. DEFINE h == tx[q]
            u == owner[r]
            t == h.todo \ {r}
            a == IF Holds(u, r) THEN h.adds ELSE h.adds \cup {<<u, r, u>>}
            g == [h EXCEPT !.todo = t, !.adds = a]
<1>1. h \in Handler /\ Shape(h) /\ Own(h) /\ u \in User /\ h.op = "delete"
  BY DEF Inv, TypeOK, Rescue, Alive
<1>2. UNCHANGED Tables /\ tx' = [tx EXCEPT ![q] = g]
  BY DEF Rescue, Rescuer
<1>3. t \in SUBSET Recipe /\ a \in SUBSET (Cookbook \X Recipe \X User)
  BY <1>1 DEF Handler, Cookbook
<1>4. \A p \in a : p[1] = p[3] /\ owner[p[2]] = p[3]
  BY <1>1 DEF Own
<1>. HIDE DEF t, a, u
<1>5. g \in Handler
  BY <1>1, <1>3 DEF Handler
<1>6. Shape(g) /\ Own(g)
  BY <1>1, <1>4 DEF Handler, Shape, Own
<1>. HIDE DEF g
<1>7. QED  BY <1>2, <1>5, <1>6, HandlerStep

LEMMA DeleteInv ==
  ASSUME Inv, NEW q \in Request, Delete(q)
  PROVE  Inv'
<1>. DEFINE c == tx[q].cookbook
            a == tx[q].adds
            New == {d \in Cookbook : \E p \in a : p[1] = d}
<1>0. TypeOK /\ Shape(tx[q]) /\ Own(tx[q]) /\ tx[q] \in Handler
  BY DEF Inv, TypeOK
<1>1. /\ c \in Board /\ a \subseteq Cookbook \X Recipe \X User
      /\ \A p \in a : p[1] = p[3] /\ owner[p[2]] = p[3]
  BY <1>0 DEF Delete, Shape, Own, Handler
<1>2. /\ board' = [d \in Cookbook |->
                    IF d = c THEN [NoRow EXCEPT !.owner = Gone]
                    ELSE IF d \in New THEN WithDefault(d)[d] ELSE board[d]]
      /\ role' = [role EXCEPT ![c] = [u \in User |-> "none"]]
      /\ placed' = {p \in placed : p[1] # c} \cup a
      /\ Close(q) /\ owner' = owner
  <2>1. \A d \in Cookbook : (\E p \in a : p[1] = d) <=> d \in New
    OBVIOUS
  <2>2. QED  BY <2>1 DEF Delete
<1>3. New \subseteq User
  BY <1>1
<1>. HIDE DEF New, a, c
<1>4. [NoRow EXCEPT !.owner = Gone] \in Row
  BY DEF NoRow, Row, Visibility
<1>5. \A d \in New : WithDefault(d)[d] \in Row /\ WithDefault(d)[d].owner \in User
  BY <1>0, <1>3, BoardRows DEF Cookbook
<1>6. /\ board' \in [Cookbook -> Row]
      /\ \A d \in Cookbook : (d # c /\ board[d].owner \in User) => board'[d].owner \in User
      /\ \A d \in New : board'[d].owner \in User
  <2>1. \A d \in New : d # c /\ d \in Cookbook
    BY <1>1, <1>3, BoardsAssumption DEF Cookbook
  <2>2. QED  BY <1>0, <1>2, <1>4, <1>5, <2>1 DEF TypeOK
<1>7. role' \in [Cookbook -> [User -> Role]]
  <2>1. [u \in User |-> "none"] \in [User -> Role]
    BY DEF Role
  <2>2. QED  BY <1>0, <1>2, <2>1 DEF TypeOK
<1>8. placed' \subseteq Cookbook \X Recipe \X User
  BY <1>0, <1>1, <1>2 DEF TypeOK
<1>9. ASSUME NEW p \in placed' PROVE board'[p[1]].owner \in User /\ owner'[p[2]] \in User
  <2>1. CASE p \in placed /\ p[1] # c
    BY <1>0, <1>2, <1>6, <2>1 DEF TypeOK
  <2>2. CASE p \in a
    <3>1. p[1] \in New
      BY <1>1, <2>2 DEF New
    <3>2. QED  BY <1>1, <1>2, <1>6, <2>2, <3>1
  <2>3. QED  BY <1>2, <1>9, <2>1, <2>2
<1>10. /\ tx' \in [Request -> Handler]
       /\ \A p \in Request : tx'[p] = tx[p] \/ tx'[p] = Closed
  BY <1>2, CloseStep
<1>11. owner' \in [Recipe -> User \cup {Nil, Gone}] /\ \A s \in Recipe : owner'[s] = owner[s]
  BY <1>0, <1>2 DEF TypeOK
<1>12. QED  BY <1>6, <1>7, <1>8, <1>9, <1>10, <1>11, TablesStep

LEMMA ShownRow ==
  ASSUME NEW row \in Row, NEW seen \in [visibility : Visibility, linked : BOOLEAN],
         NEW v \in Visibility
  PROVE  Shown(row, seen, v) \in Row /\ Shown(row, seen, v).owner = row.owner
  BY DEF Shown, Row

LEMMA ShowInv ==
  ASSUME Inv, NEW q \in Request, NEW v \in Visibility, Show(q, v)
  PROVE  Inv'
<1>. DEFINE c == tx[q].cookbook
            new == Shown(board[c], tx[q].seen, v)
<1>0. TypeOK /\ Shape(tx[q]) /\ tx[q] \in Handler
  BY DEF Inv, TypeOK
<1>1. c \in Cookbook /\ board[c] \in Row /\ tx[q].seen \in [visibility : Visibility, linked : BOOLEAN]
  BY <1>0 DEF Show, Shape, Handler, TypeOK
<1>2. /\ board' = [board EXCEPT ![c] = new]
      /\ Close(q) /\ UNCHANGED <<role, owner, placed>>
  BY DEF Show
<1>3. new \in Row /\ new.owner = board[c].owner
  BY <1>1, ShownRow
<1>. HIDE DEF new, c
<1>4. board' \in [Cookbook -> Row] /\ \A d \in Cookbook : board'[d].owner = board[d].owner
  BY <1>0, <1>1, <1>2, <1>3 DEF TypeOK
<1>5. /\ tx' \in [Request -> Handler]
      /\ \A p \in Request : tx'[p] = tx[p] \/ tx'[p] = Closed
  BY <1>2, CloseStep
<1>6. QED  BY <1>0, <1>2, <1>4, <1>5, TablesStep DEF TypeOK

LEMMA NextInv == Inv /\ [Next]_vars => Inv'
<1>. SUFFICES ASSUME Inv, [Next]_vars PROVE Inv'
  OBVIOUS
<1>1. CASE UNCHANGED vars
  BY <1>1 DEF vars, Inv, TypeOK, Shape, Own
<1>2. ASSUME NEW q \in Request, Fail(q) PROVE Inv'
  BY <1>2, ClosedHandler, HandlerStep DEF Fail, Abort, Close
<1>3. ASSUME NEW u \in User, NEW c \in Cookbook, CreateCookbook(u, c) PROVE Inv'
  BY <1>3, SingleInv
<1>4. ASSUME NEW u \in User, ListCookbooks(u) PROVE Inv'
  BY <1>4, SingleInv
<1>5. ASSUME NEW u \in User, NEW v \in User, NEW c \in Cookbook,
             DropMember(u, c, v) \/ \E as \in Granted : SetMember(u, c, v, as)
      PROVE  Inv'
  BY <1>5, SingleInv
<1>6. ASSUME NEW u \in User, NEW r \in Recipe, DeleteRecipe(u, r) PROVE Inv'
  BY <1>6, SingleInv
<1>7. QED
  BY <1>1, <1>2, <1>3, <1>4, <1>5, <1>6, ChecksInv, PlaceInv, RemoveInv, RescueInv, DeleteInv, ShowInv
  DEF Next

LEMMA SpecInv == Spec => []Inv
  BY InitInv, NextInv, PTL DEF Spec

\* Every table and handler keeps its type, and no placement outlives its cookbook
\* or its recipe, for any number of overlapping requests.
THEOREM TypeCorrect == Spec => []TypeOK
<1>1. Inv => TypeOK
  BY DEF Inv
<1>2. QED  BY <1>1, SpecInv, PTL

-----------------------------------------------------------------------------
(* What holds as long as requests do not overlap.                          *)

OneRequest == \A p, q \in Request : p = q

\* What an open handler knows still holds when it writes: another home of the
\* recipe it removes; of the cookbook it deletes, which recipes are placed there
\* only, and what it has given them; and the row it loaded.
Current(h) ==
  /\ h.op = "remove" /\ Alive(h.recipe) =>
       \E d \in Cookbook : d # h.cookbook /\ Holds(d, h.recipe)
  /\ h.op = "delete" =>
       \A r \in Recipe : Alive(r) =>
         /\ r \in h.todo => Homes(r) = {h.cookbook}
         /\ {p \in h.adds : p[2] = r} =
              IF Homes(r) = {h.cookbook} /\ r \notin h.todo
                THEN {<<owner[r], r, owner[r]>>} ELSE {}
  /\ h.op = "show" => /\ h.seen.visibility = board[h.cookbook].visibility
                      /\ h.seen.linked = board[h.cookbook].linked

SoloInv ==
  /\ Placed
  /\ LinkMatchesVisibility
  /\ \A q \in Request : Current(tx[q])

LEMMA SoloInit == Init => SoloInv
<1>. SUFFICES ASSUME Init PROVE SoloInv
  OBVIOUS
<1>1. Placed
  BY BoardsAssumption DEF Init, Placed, Alive
<1>2. LinkMatchesVisibility
  BY DEF Init, NoRow, LinkMatchesVisibility
<1>3. \A q \in Request : Current(tx[q])
  BY DEF Init, Closed, Current
<1>4. QED  BY <1>1, <1>2, <1>3 DEF SoloInv

\* A handler only reads.
LEMMA SoloHandler ==
  ASSUME Inv, SoloInv, NEW q \in Request, NEW h \in Handler, UNCHANGED Tables,
         tx' = [tx EXCEPT ![q] = h], Current(h)
  PROVE  SoloInv'
<1>1. tx'[q] = h /\ \A p \in Request : p # q => tx'[p] = tx[p]
  BY DEF Inv, TypeOK
<1>2. Placed' /\ LinkMatchesVisibility'
  BY DEF Tables, SoloInv, Placed, LinkMatchesVisibility, Alive, Homes, Holds, In
<1>3. ASSUME NEW p \in Request PROVE Current(tx[p])'
  <2>1. Current(tx'[p])
    BY <1>1 DEF SoloInv
  <2>2. /\ \A r : Alive(r)' <=> Alive(r)
        /\ \A c, r : Holds(c, r)' <=> Holds(c, r)
        /\ \A r : Homes(r)' = Homes(r)
        /\ board' = board /\ owner' = owner
    BY DEF Tables, Alive, Homes, Holds, In
  <2>3. QED  BY <2>1, <2>2 DEF Current
<1>4. QED  BY <1>2, <1>3 DEF SoloInv

\* A request done in one step: living recipes keep their homes and cookbooks
\* their visibility, and no recipe comes to life.
LEMMA SoloSingle ==
  ASSUME SoloInv, UNCHANGED tx,
         \A c \in Cookbook : /\ board'[c].visibility = board[c].visibility
                             /\ board'[c].linked = board[c].linked,
         \A r \in Recipe : Alive(r)' =>
           /\ Alive(r) /\ owner'[r] = owner[r]
           /\ \A c \in Cookbook : Holds(c, r)' <=> Holds(c, r),
         Inv
  PROVE  SoloInv'
<1>1. Placed'
  BY DEF SoloInv, Placed, Homes
<1>2. LinkMatchesVisibility'
  BY DEF SoloInv, LinkMatchesVisibility
<1>3. ASSUME NEW q \in Request PROVE Current(tx[q])'
  <2>1. Current(tx[q]) /\ Shape(tx[q])
    BY DEF SoloInv, Inv
  <2>2. ASSUME tx[q].op = "remove", Alive(tx[q].recipe)'
        PROVE  \E d \in Cookbook : d # tx[q].cookbook /\ Holds(d, tx[q].recipe)'
    BY <2>1, <2>2 DEF Current, Shape
  <2>3. ASSUME tx[q].op = "delete", NEW r \in Recipe, Alive(r)'
        PROVE  /\ r \in tx[q].todo => Homes(r)' = {tx[q].cookbook}
               /\ {p \in tx[q].adds : p[2] = r} =
                    IF Homes(r)' = {tx[q].cookbook} /\ r \notin tx[q].todo
                      THEN {<<owner'[r], r, owner'[r]>>} ELSE {}
    <3>1. Alive(r) /\ owner'[r] = owner[r] /\ Homes(r)' = Homes(r)
      BY <2>3 DEF Homes
    <3>2. QED  BY <2>1, <2>3, <3>1 DEF Current
  <2>4. ASSUME tx[q].op = "show"
        PROVE  /\ tx[q].seen.visibility = board'[tx[q].cookbook].visibility
               /\ tx[q].seen.linked = board'[tx[q].cookbook].linked
    BY <2>1, <2>4 DEF Current, Shape
  <2>5. QED  BY <2>2, <2>3, <2>4 DEF Current
<1>4. QED  BY <1>1, <1>2, <1>3 DEF SoloInv

\* When the only handler has written, none is open.
LEMMA SoloClose ==
  ASSUME OneRequest, Inv, NEW q \in Request, Close(q), Placed', LinkMatchesVisibility'
  PROVE  SoloInv'
<1>1. \A p \in Request : tx'[p] = Closed
  BY CloseStep DEF OneRequest
<1>2. QED  BY <1>1 DEF SoloInv, Current, Closed

LEMMA SoloChecks ==
  ASSUME Inv, SoloInv, NEW q \in Request, NEW u \in User,
         \/ \E c \in Cookbook : CheckCreate(q, u, c) \/ CheckDelete(q, u, c) \/ CheckShow(q, u, c)
         \/ \E r \in Recipe, c \in Cookbook :
              CheckAdd(q, u, r, c) \/ CheckSave(q, u, r, c) \/ CheckRemove(q, u, r, c)
         \/ \E r \in Recipe, v \in User : CheckShare(q, u, r, v)
  PROVE  SoloInv'
<1>1. ASSUME NEW h, Open(q, h), UNCHANGED Tables, Current(h) PROVE SoloInv'
  <2>1. tx' = [tx EXCEPT ![q] = h]
    BY <1>1 DEF Open
  <2>2. tx'[q] = h
    BY <2>1 DEF Inv, TypeOK
  <2>3. h \in Handler
    BY <2>2, ChecksInv DEF Inv, TypeOK
  <2>4. QED  BY <1>1, <2>1, <2>3, SoloHandler
<1>2. ASSUME NEW c \in Cookbook, CheckDelete(q, u, c) PROVE SoloInv'
  <2>. DEFINE t == {r \in Recipe : Homes(r) = {c}}
              h == [Closed EXCEPT !.op = "delete", !.user = u, !.cookbook = c, !.todo = t]
  <2>1. Open(q, h) /\ UNCHANGED Tables
    BY <1>2 DEF CheckDelete
  <2>2. \A r \in Recipe : r \in t <=> Homes(r) = {c}
    OBVIOUS
  <2>. HIDE DEF t
  <2>3. h.op = "delete" /\ h.cookbook = c /\ h.todo = t /\ h.adds = {}
    BY DEF Closed
  <2>. HIDE DEF h
  <2>4. Current(h)
    BY <2>2, <2>3 DEF Current
  <2>5. QED  BY <1>1, <2>1, <2>4
<1>3. ASSUME NEW r \in Recipe, NEW c \in Cookbook, CheckRemove(q, u, r, c) PROVE SoloInv'
  <2>. DEFINE h == [Closed EXCEPT !.op = "remove", !.user = u, !.cookbook = c, !.recipe = r]
  <2>1. Open(q, h) /\ UNCHANGED Tables
    BY <1>3 DEF CheckRemove
  <2>2. h.op = "remove" /\ h.cookbook = c /\ h.recipe = r
    BY DEF Closed
  <2>. HIDE DEF h
  <2>3. c \in Homes(r) /\ Cardinality(Homes(r)) # 1
    BY <1>3 DEF CheckRemove, LastPlacement, Homes
  <2>4. PICK d \in Homes(r) : d # c
    <3>1. Cardinality({c}) = 1
      BY FS_Singleton
    <3>2. QED  BY <2>3, <3>1
  <2>5. Current(h)
    BY <2>2, <2>4 DEF Current, Homes
  <2>6. QED  BY <1>1, <2>1, <2>5
<1>4. ASSUME NEW c \in Cookbook, CheckShow(q, u, c) PROVE SoloInv'
  <2>. DEFINE s == [visibility |-> board[c].visibility, linked |-> board[c].linked]
              h == [Closed EXCEPT !.op = "show", !.user = u, !.cookbook = c, !.seen = s]
  <2>1. Open(q, h) /\ UNCHANGED Tables
    BY <1>4 DEF CheckShow
  <2>2. h.op = "show" /\ h.cookbook = c /\ h.seen = s
    BY DEF Closed
  <2>. HIDE DEF h
  <2>3. Current(h)
    BY <2>2 DEF Current
  <2>4. QED  BY <1>1, <2>1, <2>3
<1>5. ASSUME NEW h, h.op = "place", Open(q, h), UNCHANGED Tables PROVE SoloInv'
  <2>1. Current(h)
    BY <1>5 DEF Current
  <2>2. QED  BY <1>1, <1>5, <2>1
<1>6. ASSUME NEW c \in Cookbook, CheckCreate(q, u, c) PROVE SoloInv'
  <2>. DEFINE h == [Closed EXCEPT !.op = "place", !.user = u, !.cookbook = c]
  <2>1. h.op = "place" /\ Open(q, h) /\ UNCHANGED Tables
    BY <1>6 DEF CheckCreate, Closed
  <2>2. QED  BY <1>5, <2>1
<1>7. ASSUME NEW r \in Recipe, NEW c \in Cookbook, CheckAdd(q, u, r, c) \/ CheckSave(q, u, r, c)
      PROVE  SoloInv'
  <2>1. PICK n \in Recipe \cup {Nil} :
          /\ Open(q, [Closed EXCEPT !.op = "place", !.user = u, !.cookbook = c, !.recipe = n])
          /\ UNCHANGED Tables
    BY <1>7 DEF CheckAdd, CheckSave
  <2>. DEFINE h == [Closed EXCEPT !.op = "place", !.user = u, !.cookbook = c, !.recipe = n]
  <2>2. h.op = "place" /\ Open(q, h) /\ UNCHANGED Tables
    BY <2>1 DEF Closed
  <2>3. QED  BY <1>5, <2>2
<1>8. ASSUME NEW r \in Recipe, NEW v \in User, CheckShare(q, u, r, v) PROVE SoloInv'
  <2>. DEFINE h == [Closed EXCEPT !.op = "place", !.user = v, !.cookbook = v]
  <2>1. h.op = "place" /\ Open(q, h) /\ UNCHANGED Tables
    BY <1>8 DEF CheckShare, Closed
  <2>2. QED  BY <1>5, <2>1
<1>9. QED  BY <1>2, <1>3, <1>4, <1>6, <1>7, <1>8

LEMMA SoloRescue ==
  ASSUME Inv, SoloInv, NEW q \in Request, NEW r \in Recipe, Rescue(q, r)
  PROVE  SoloInv'
<1>. DEFINE h == tx[q]
            u == owner[r]
            t == h.todo \ {r}
            a == IF Holds(u, r) THEN h.adds ELSE h.adds \cup {<<u, r, u>>}
            g == [h EXCEPT !.todo = t, !.adds = a]
<1>1. h \in Handler /\ Shape(h) /\ Current(h) /\ u \in User /\ h.op = "delete"
  BY DEF Inv, SoloInv, TypeOK, Rescue, Alive
<1>2. UNCHANGED Tables /\ tx' = [tx EXCEPT ![q] = g]
  BY DEF Rescue, Rescuer
<1>3. g \in Handler
  <2>1. tx'[q] = g
    BY <1>2 DEF Inv, TypeOK
  <2>2. QED  BY <2>1, RescueInv DEF Inv, TypeOK
<1>4. u \in Cookbook /\ u # h.cookbook
  BY <1>1, BoardsAssumption DEF Cookbook, Shape
<1>5. /\ Alive(r) /\ r \in h.todo /\ Homes(r) = {h.cookbook} /\ {p \in h.adds : p[2] = r} = {}
      /\ ~Holds(u, r)
  BY <1>1, <1>4 DEF Current, Rescue, Homes
<1>6. /\ {p \in a : p[2] = r} = {<<u, r, u>>}
      /\ \A s \in Recipe : s # r => {p \in a : p[2] = s} = {p \in h.adds : p[2] = s}
  BY <1>5
<1>7. g.op = "delete" /\ g.cookbook = h.cookbook /\ g.todo = t /\ g.adds = a
  BY <1>1 DEF Handler
<1>8. t = h.todo \ {r} /\ u = owner[r]
  OBVIOUS
<1>. HIDE DEF a, t, u, g
<1>9. ASSUME NEW s \in Recipe, Alive(s)
      PROVE  /\ s \in t => Homes(s) = {h.cookbook}
             /\ {p \in a : p[2] = s} =
                  IF Homes(s) = {h.cookbook} /\ s \notin t THEN {<<owner[s], s, owner[s]>>} ELSE {}
  <2>1. CASE s = r
    BY <1>5, <1>6, <1>8, <2>1
  <2>2. CASE s # r
    BY <1>1, <1>6, <1>8, <1>9, <2>2 DEF Current
  <2>3. QED  BY <2>1, <2>2
<1>10. Current(g)
  BY <1>7, <1>9 DEF Current
<1>11. QED  BY <1>2, <1>3, <1>10, SoloHandler

LEMMA SoloPlace ==
  ASSUME OneRequest, Inv, SoloInv, NEW q \in Request, PlaceNew(q) \/ PlaceReference(q)
  PROVE  SoloInv'
<1>. DEFINE u == tx[q].user
            c == tx[q].cookbook
<1>0. TypeOK /\ SoloInv /\ Shape(tx[q])
  BY DEF Inv, TypeOK
<1>1. u \in User /\ c \in Cookbook /\ Close(q)
  BY <1>0, BoardsAssumption DEF Shape, PlaceNew, PlaceReference
<1>2. CASE PlaceNew(q)
  <2>1. PICK r \in Recipe : /\ owner[r] = Nil
                            /\ owner' = [owner EXCEPT ![r] = u]
                            /\ placed' = Insert(c, r, u)
    BY <1>2 DEF PlaceNew
  <2>2. board' = IF c = u THEN WithDefault(u) ELSE board
    BY <1>2 DEF PlaceNew
  <2>. HIDE DEF u, c
  <2>3. LinkMatchesVisibility'
    <3>1. \A d \in Cookbook : board'[d].visibility = board[d].visibility
                              /\ board'[d].linked = board[d].linked
      BY <1>0, <1>1, <2>2, BoardRows
    <3>2. QED  BY <1>0, <3>1 DEF SoloInv, LinkMatchesVisibility
  <2>4. placed \subseteq placed' /\ In(placed', c, r)
    BY <1>1, <2>1 DEF Insert, Holds, In
  <2>5. Placed'
    <3>1. ASSUME NEW s \in Recipe, Alive(s)' PROVE \E d \in Cookbook : Holds(d, s)'
      <4>1. CASE s = r
        BY <1>1, <2>4, <4>1 DEF Holds
      <4>2. CASE s # r
        BY <1>0, <2>1, <2>4, <3>1, <4>2 DEF TypeOK, SoloInv, Placed, Alive, Homes, Holds, In
      <4>3. QED  BY <4>1, <4>2
    <3>2. QED  BY <3>1 DEF Placed, Homes
  <2>6. QED  BY <1>1, <2>3, <2>5, SoloClose
<1>3. CASE PlaceReference(q)
  <2>1. placed \subseteq placed' /\ UNCHANGED <<board, owner>>
    BY <1>3 DEF PlaceReference, Insert
  <2>2. Placed' /\ LinkMatchesVisibility'
    BY <1>0, <2>1 DEF SoloInv, Placed, Alive, Homes, Holds, In, LinkMatchesVisibility
  <2>3. QED  BY <1>1, <2>2, SoloClose
<1>4. QED  BY <1>2, <1>3

LEMMA SoloRemove ==
  ASSUME OneRequest, Inv, SoloInv, NEW q \in Request, Remove(q)
  PROVE  SoloInv'
<1>. DEFINE c == tx[q].cookbook
            r == tx[q].recipe
<1>1. /\ Placed /\ LinkMatchesVisibility
      /\ Alive(r) => \E d \in Cookbook : d # c /\ Holds(d, r)
  BY DEF SoloInv, Current, Remove
<1>2. /\ placed' = {p \in placed : ~(p[1] = c /\ p[2] = r)}
      /\ Close(q) /\ UNCHANGED <<board, owner>>
  BY DEF Remove
<1>. HIDE DEF c, r
<1>3. \A d, s : ~(d = c /\ s = r) /\ Holds(d, s) => Holds(d, s)'
  BY <1>2 DEF Holds, In
<1>4. ASSUME NEW s \in Recipe, Alive(s) PROVE \E d \in Cookbook : Holds(d, s)'
  <2>1. CASE s = r
    BY <1>1, <1>3, <1>4, <2>1
  <2>2. CASE s # r
    BY <1>1, <1>3, <1>4, <2>2 DEF Placed, Homes
  <2>3. QED  BY <2>1, <2>2
<1>5. Placed'
  BY <1>2, <1>4 DEF Placed, Homes, Alive
<1>6. LinkMatchesVisibility'
  BY <1>1, <1>2 DEF LinkMatchesVisibility
<1>7. QED  BY <1>2, <1>5, <1>6, SoloClose

LEMMA SoloDelete ==
  ASSUME OneRequest, Inv, SoloInv, NEW q \in Request, Delete(q)
  PROVE  SoloInv'
<1>. DEFINE c == tx[q].cookbook
            a == tx[q].adds
            New == {d \in Cookbook : \E p \in a : p[1] = d}
<1>0. TypeOK /\ LinkMatchesVisibility /\ Own(tx[q]) /\ tx[q] \in Handler
  BY DEF Inv, SoloInv, TypeOK
<1>1. \A s \in Recipe : Alive(s) => \E d \in Cookbook : d # c /\ (Holds(d, s) \/ In(a, d, s))
  <2>. SUFFICES ASSUME NEW s \in Recipe, Alive(s)
                PROVE  \E d \in Cookbook : d # c /\ (Holds(d, s) \/ In(a, d, s))
    OBVIOUS
  <2>1. /\ Homes(s) # {} /\ c \in Board
        /\ Homes(s) = {c} => {p \in a : p[2] = s} = {<<owner[s], s, owner[s]>>}
    BY DEF SoloInv, Placed, Current, Delete, Inv, Shape
  <2>2. CASE Homes(s) = {c}
    <3>1. owner[s] \in User /\ owner[s] \in Cookbook /\ owner[s] # c
      BY <2>1, BoardsAssumption DEF Alive, Cookbook
    <3>2. In(a, owner[s], s)
      BY <2>1, <2>2, <3>1 DEF In
    <3>3. QED  BY <3>1, <3>2
  <2>3. CASE Homes(s) # {c}
    BY <2>1, <2>3 DEF Homes
  <2>4. QED  BY <2>2, <2>3
<1>2. /\ board' = [d \in Cookbook |->
                    IF d = c THEN [NoRow EXCEPT !.owner = Gone]
                    ELSE IF d \in New THEN WithDefault(d)[d] ELSE board[d]]
      /\ placed' = {p \in placed : p[1] # c} \cup a
      /\ Close(q) /\ owner' = owner
  <2>1. \A d \in Cookbook : (\E p \in a : p[1] = d) <=> d \in New
    OBVIOUS
  <2>2. QED  BY <2>1 DEF Delete
<1>3. New \subseteq User
  BY <1>0 DEF Own, Handler
<1>. HIDE DEF New, a, c
<1>4. Placed'
  <2>1. \A d, s : d # c /\ (Holds(d, s) \/ In(a, d, s)) => Holds(d, s)'
    BY <1>2 DEF Holds, In
  <2>2. QED  BY <1>1, <1>2, <2>1 DEF Placed, Homes, Alive
<1>5. LinkMatchesVisibility'
  <2>1. ASSUME NEW d \in Cookbook PROVE board'[d].linked <=> board'[d].visibility # "private"
    <3>1. CASE d = c
      BY <1>2, <3>1 DEF NoRow
    <3>2. CASE d # c /\ d \in New
      <4>1. board'[d] = WithDefault(d)[d]
        BY <1>2, <3>2
      <4>2. /\ WithDefault(d)[d].visibility = board[d].visibility
            /\ WithDefault(d)[d].linked = board[d].linked
        BY <1>0, <1>3, <3>2, BoardRows
      <4>3. QED  BY <1>0, <4>1, <4>2 DEF LinkMatchesVisibility
    <3>3. CASE d # c /\ d \notin New
      BY <1>0, <1>2, <3>3 DEF LinkMatchesVisibility
    <3>4. QED  BY <3>1, <3>2, <3>3
  <2>2. QED  BY <2>1 DEF LinkMatchesVisibility
<1>6. QED  BY <1>2, <1>4, <1>5, SoloClose

LEMMA SoloShow ==
  ASSUME OneRequest, Inv, SoloInv, NEW q \in Request, NEW v \in Visibility, Show(q, v)
  PROVE  SoloInv'
<1>. DEFINE c == tx[q].cookbook
            seen == tx[q].seen
            new == Shown(board[c], seen, v)
<1>1. /\ TypeOK /\ Placed /\ LinkMatchesVisibility /\ c \in Cookbook /\ board[c] \in Row
      /\ seen.visibility = board[c].visibility /\ seen.linked = board[c].linked
      /\ seen \in [visibility : Visibility, linked : BOOLEAN]
  BY DEF Inv, SoloInv, Current, Show, Shape, TypeOK, Handler
<1>2. /\ board' = [board EXCEPT ![c] = new]
      /\ Close(q) /\ UNCHANGED <<owner, placed>>
  BY DEF Show
<1>3. new.linked <=> new.visibility # "private"
  BY <1>1 DEF Shown, Row
<1>. HIDE DEF new, c, seen
<1>4. LinkMatchesVisibility'
  BY <1>1, <1>2, <1>3 DEF LinkMatchesVisibility, TypeOK
<1>5. Placed'
  BY <1>1, <1>2 DEF Placed, Homes, Holds, In, Alive
<1>6. QED  BY <1>2, <1>4, <1>5, SoloClose

LEMMA SoloSingles ==
  ASSUME Inv, SoloInv, NEW u \in User,
         \/ \E c \in Cookbook : CreateCookbook(u, c)
         \/ ListCookbooks(u)
         \/ \E v \in User, c \in Cookbook :
              DropMember(u, c, v) \/ \E as \in Granted : SetMember(u, c, v, as)
         \/ \E r \in Recipe : DeleteRecipe(u, r)
  PROVE  SoloInv'
<1>0. TypeOK /\ tx' = tx
  BY DEF Inv, CreateCookbook, ListCookbooks, DropMember, SetMember, DeleteRecipe
<1>1. ASSUME NEW c \in Cookbook
      PROVE  board'[c].visibility = board[c].visibility /\ board'[c].linked = board[c].linked
  <2>1. CASE \E d \in Cookbook : CreateCookbook(u, d)
    <3>1. PICK d \in Cookbook : board' = [board EXCEPT ![d].owner = u]
      BY <2>1 DEF CreateCookbook
    <3>2. QED  BY <1>0, <3>1 DEF TypeOK, Row
  <2>2. CASE ListCookbooks(u)
    BY <1>0, <2>2, BoardRows DEF ListCookbooks
  <2>3. CASE board' = board
    BY <2>3
  <2>4. QED  BY <2>1, <2>2, <2>3 DEF DropMember, SetMember, DeleteRecipe
<1>2. ASSUME NEW r \in Recipe, Alive(r)'
      PROVE  /\ Alive(r) /\ owner'[r] = owner[r]
             /\ \A c \in Cookbook : Holds(c, r)' <=> Holds(c, r)
  <2>1. CASE \E s \in Recipe : DeleteRecipe(u, s)
    <3>1. PICK s \in Recipe : /\ owner' = [owner EXCEPT ![s] = Gone]
                              /\ placed' = {p \in placed : p[2] # s}
      BY <2>1 DEF DeleteRecipe
    <3>2. r # s
      BY <1>0, <1>2, <3>1, BoardsAssumption DEF TypeOK, Alive
    <3>3. owner'[r] = owner[r] /\ \A c, v : <<c, r, v>> \in placed' <=> <<c, r, v>> \in placed
      BY <1>0, <3>1, <3>2 DEF TypeOK
    <3>4. QED  BY <1>2, <3>3 DEF Alive, Holds, In
  <2>2. CASE UNCHANGED <<owner, placed>>
    BY <1>2, <2>2 DEF Alive, Holds, In
  <2>3. QED  BY <2>1, <2>2 DEF CreateCookbook, ListCookbooks, DropMember, SetMember
<1>3. QED  BY <1>0, <1>1, <1>2, SoloSingle

LEMMA SoloNext == OneRequest /\ Inv /\ SoloInv /\ [Next]_vars => SoloInv'
<1>. SUFFICES ASSUME OneRequest, Inv, SoloInv, [Next]_vars PROVE SoloInv'
  OBVIOUS
<1>1. CASE UNCHANGED vars
  BY <1>1, SoloSingle DEF vars, Alive, Holds, In
<1>2. ASSUME NEW q \in Request, Fail(q) PROVE SoloInv'
  <2>1. Current(Closed)
    BY DEF Current, Closed
  <2>2. QED  BY <1>2, <2>1, ClosedHandler, SoloHandler DEF Fail, Abort, Close
<1>3. ASSUME NEW u \in User, NEW c \in Cookbook, CreateCookbook(u, c) PROVE SoloInv'
  BY <1>3, SoloSingles
<1>4. ASSUME NEW u \in User, ListCookbooks(u) PROVE SoloInv'
  BY <1>4, SoloSingles
<1>5. ASSUME NEW u \in User, NEW v \in User, NEW c \in Cookbook,
             DropMember(u, c, v) \/ \E as \in Granted : SetMember(u, c, v, as)
      PROVE  SoloInv'
  BY <1>5, SoloSingles
<1>6. ASSUME NEW u \in User, NEW r \in Recipe, DeleteRecipe(u, r) PROVE SoloInv'
  BY <1>6, SoloSingles
<1>7. QED
  BY <1>1, <1>2, <1>3, <1>4, <1>5, <1>6, SoloChecks, SoloPlace, SoloRemove, SoloRescue,
     SoloDelete, SoloShow
  DEF Next

\* While requests do not overlap, every living recipe stays in a cookbook: the
\* placement count of a removal and the rescue of a deletion are enough.
THEOREM NeverUnplaced ==
  ASSUME OneRequest PROVE Spec => []Placed
<1>1. Inv /\ SoloInv /\ [Next]_vars => SoloInv'
  BY SoloNext
<1>2. SoloInv => Placed
  BY DEF SoloInv
<1>3. QED  BY <1>1, <1>2, SoloInit, SpecInv, PTL DEF Spec

\* While requests do not overlap, a cookbook has a public link exactly when it is
\* not private.
THEOREM LinksMatch ==
  ASSUME OneRequest PROVE Spec => []LinkMatchesVisibility
<1>1. Inv /\ SoloInv /\ [Next]_vars => SoloInv'
  BY SoloNext
<1>2. SoloInv => LinkMatchesVisibility
  BY DEF SoloInv
<1>3. QED  BY <1>1, <1>2, SoloInit, SpecInv, PTL DEF Spec

\* Only its deletion makes a cookbook go.
LEMMA OnlyDelete ==
  ASSUME Inv, Next, NEW c \in Cookbook, Exists(c), ~Exists(c)'
  PROVE  \E q \in Request : Delete(q) /\ tx[q].cookbook = c
<1>0. TypeOK
  BY DEF Inv
<1>1. board'[c].owner \notin User /\ board' # board
  BY DEF Exists
<1>2. ASSUME NEW u \in User, NEW d \in Cookbook, CreateCookbook(u, d) PROVE FALSE
  BY <1>0, <1>1, <1>2 DEF CreateCookbook, TypeOK, Row, Exists
<1>3. ASSUME NEW u \in User, board' = WithDefault(u) PROVE FALSE
  BY <1>0, <1>1, <1>3, BoardRows
<1>4. ASSUME NEW q \in Request, PlaceNew(q) PROVE FALSE
  <2>1. tx[q].user \in User
    BY <1>4, BoardsAssumption DEF PlaceNew, Inv, Shape
  <2>2. QED  BY <1>1, <1>3, <1>4, <2>1 DEF PlaceNew
<1>5. ASSUME NEW q \in Request, NEW v \in Visibility, Show(q, v) PROVE FALSE
  BY <1>0, <1>1, <1>5 DEF Show, Shown, TypeOK, Row, Exists
<1>6. ASSUME NEW q \in Request, Delete(q) PROVE tx[q].cookbook = c
  <2>1. SUFFICES ASSUME tx[q].cookbook # c PROVE FALSE
    OBVIOUS
  <2>2. board'[c] = WithDefault(c)[c] \/ board'[c] = board[c]
    BY <1>6, <2>1 DEF Delete
  <2>3. WithDefault(c)[c].owner \in User
    BY <1>0 DEF WithDefault, Exists, TypeOK, Row
  <2>4. QED  BY <1>1, <2>2, <2>3 DEF Exists
<1>7. \/ \E u \in User, d \in Cookbook : CreateCookbook(u, d)
      \/ \E u \in User : board' = WithDefault(u)
      \/ \E q \in Request : PlaceNew(q) \/ Delete(q) \/ \E v \in Visibility : Show(q, v)
  <2>1. ASSUME NEW q \in Request, NEW u \in User,
               \/ \E d \in Cookbook : CheckCreate(q, u, d) \/ CheckDelete(q, u, d) \/ CheckShow(q, u, d)
               \/ \E r \in Recipe, d \in Cookbook :
                    CheckAdd(q, u, r, d) \/ CheckSave(q, u, r, d) \/ CheckRemove(q, u, r, d)
               \/ \E r \in Recipe, v \in User : CheckShare(q, u, r, v)
        PROVE  FALSE
    BY <1>1, <2>1 DEF CheckCreate, CheckDelete, CheckShow, CheckAdd, CheckSave, CheckRemove,
                      CheckShare, Tables
  <2>2. QED
    BY <1>1, <2>1 DEF Next, ListCookbooks, DropMember, SetMember, DeleteRecipe, PlaceReference,
                      Remove, Fail, Abort, Rescue, Tables
<1>8. QED  BY <1>2, <1>3, <1>4, <1>5, <1>6, <1>7

\* What the deletion of a cookbook does to the placements.
LEMMA DeletePlacements ==
  ASSUME Inv, SoloInv, NEW q \in Request, Delete(q), NEW r \in Recipe, Alive(r)
  PROVE  PlacementsOf(r)' = IF Homes(r) = {tx[q].cookbook} THEN {<<owner[r], r, owner[r]>>}
                            ELSE {p \in PlacementsOf(r) : p[1] # tx[q].cookbook}
<1>. DEFINE c == tx[q].cookbook
            a == tx[q].adds
<1>1. /\ placed' = {p \in placed : p[1] # c} \cup a
      /\ {p \in a : p[2] = r} = IF Homes(r) = {c} THEN {<<owner[r], r, owner[r]>>} ELSE {}
  BY DEF Delete, SoloInv, Current
<1>2. PlacementsOf(r)' = {p \in PlacementsOf(r) : p[1] # c} \cup {p \in a : p[2] = r}
  BY <1>1 DEF PlacementsOf
<1>3. ASSUME Homes(r) = {c}, NEW p \in PlacementsOf(r) PROVE p[1] = c
  <2>1. p = <<p[1], r, p[3]>> /\ p[1] \in Cookbook /\ p[3] \in User /\ p \in placed
    BY <1>3 DEF PlacementsOf, Inv, TypeOK
  <2>2. p[1] \in Homes(r)
    BY <2>1 DEF Homes, Holds, In
  <2>3. QED  BY <1>3, <2>2
<1>. HIDE DEF c, a
<1>4. CASE Homes(r) = {c}
  BY <1>1, <1>2, <1>3, <1>4 DEF c
<1>5. CASE Homes(r) # {c}
  BY <1>1, <1>2, <1>5 DEF c
<1>6. QED  BY <1>4, <1>5

\* While requests do not overlap, the deletion of a cookbook gives each recipe that is
\* placed nowhere else to its own owner, whoever placed it there and whoever deletes, and
\* touches no other placement outside the cookbook.
THEOREM RescuesRight ==
  ASSUME OneRequest PROVE Spec => RescuedToOwner
<1>1. Inv /\ SoloInv /\ [Next]_vars => SoloInv'
  BY SoloNext
<1>2. Inv /\ SoloInv /\ [Next]_vars =>
        [\A c \in Board, r \in Recipe :
           Exists(c) /\ ~Exists(c)' /\ Alive(r) =>
             PlacementsOf(r)' = IF Homes(r) = {c} THEN {<<owner[r], r, owner[r]>>}
                                ELSE {p \in PlacementsOf(r) : p[1] # c}]_vars
  <2>. SUFFICES ASSUME Inv, SoloInv, Next, NEW c \in Board, NEW r \in Recipe,
                       Exists(c), ~Exists(c)', Alive(r)
                PROVE  PlacementsOf(r)' = IF Homes(r) = {c} THEN {<<owner[r], r, owner[r]>>}
                                          ELSE {p \in PlacementsOf(r) : p[1] # c}
    OBVIOUS
  <2>1. PICK q \in Request : Delete(q) /\ tx[q].cookbook = c
    BY OnlyDelete DEF Cookbook
  <2>2. QED  BY <2>1, DeletePlacements
<1>3. QED  BY <1>1, <1>2, SoloInit, SpecInv, PTL DEF Spec, RescuedToOwner
=============================================================================
