------------------------------- MODULE Boards -------------------------------
(***************************************************************************)
(* Cookbooks as boards (cookbook/service.py): who may see and change them, *)
(* which recipes are placed in them, and the requests that create, copy,   *)
(* place, remove, share and delete.                                        *)
(*                                                                         *)
(* A handler is one READ COMMITTED transaction.  It checks and counts      *)
(* first and writes last, so a handler with one write is two actions:      *)
(* what it has read, and the write with its commit.  Only delete_cookbook  *)
(* writes more than once: the homes it gives to recipes before the row     *)
(* goes stay uncommitted, and locked, in between.  A handler that fails is *)
(* rolled back.                                                            *)
(*                                                                         *)
(* Abstractions.  The default cookbook of user u, made when it is first    *)
(* needed and never deleted, is called u.  Ids are not used again.  The    *)
(* contents of recipes are left out.                                       *)
(***************************************************************************)
EXTENDS FiniteSets

CONSTANTS
  User,
  Board,     \* cookbooks that are nobody's default
  Recipe,
  Request,   \* concurrent requests that check, then write
  Shared,    \* the visibilities besides private
  Granted,   \* the roles of members
  Nil,       \* no row yet, or no value
  Gone       \* a deleted row

Cookbook == Board \cup User

ASSUME BoardsAssumption ==
  /\ Board \cap User = {}
  /\ Nil \notin User \cup Recipe \cup Cookbook
  /\ Gone \notin User /\ Gone # Nil
  /\ Shared \subseteq {"unlisted", "public"} /\ Granted \subseteq {"viewer", "editor"}

VARIABLES
  board,    \* the cookbooks table
  role,     \* cookbook_members: the role of each user in each cookbook
  owner,    \* recipes.owner_id
  placed,   \* cookbook_recipes: cookbook, recipe, added_by
  tx        \* the requests, between what they read and what they write

vars == <<board, role, owner, placed, tx>>
Tables == <<board, role, owner, placed>>

Visibility == {"private"} \cup Shared
Row == [owner : User \cup {Nil, Gone}, visibility : Visibility, linked : BOOLEAN]  \* public_token
Role == {"none"} \cup Granted

Handler ==
  [op : {"closed", "place", "remove", "delete", "show"},
   user : User \cup {Nil}, cookbook : Cookbook \cup {Nil},
   recipe : Recipe \cup {Nil},                      \* "place": Nil for a new one
   seen : [visibility : Visibility, linked : BOOLEAN], \* "show": the row as loaded
   todo : SUBSET Recipe,                            \* "delete": to be rescued
   adds : SUBSET (Cookbook \X Recipe \X User)]      \* "delete": uncommitted placements

Closed ==
  [op |-> "closed", user |-> Nil, cookbook |-> Nil, recipe |-> Nil, todo |-> {}, adds |-> {},
   seen |-> [visibility |-> "private", linked |-> FALSE]]

\* The foreign keys of a placement included.
TypeOK ==
  /\ board \in [Cookbook -> Row]
  /\ role \in [Cookbook -> [User -> Role]]
  /\ owner \in [Recipe -> User \cup {Nil, Gone}]
  /\ placed \subseteq Cookbook \X Recipe \X User
  /\ \A p \in placed : board[p[1]].owner \in User /\ owner[p[2]] \in User
  /\ tx \in [Request -> Handler]

NoRow == [owner |-> Nil, visibility |-> "private", linked |-> FALSE]
Init ==
  /\ board = [c \in Cookbook |-> NoRow]
  /\ role = [c \in Cookbook |-> [u \in User |-> "none"]]
  /\ owner = [r \in Recipe |-> Nil]
  /\ placed = {}
  /\ tx = [q \in Request |-> Closed]

-----------------------------------------------------------------------------
(* Access.                                                                 *)

Exists(c) == board[c].owner \in User
Alive(r) == owner[r] \in User
Manages(u, c) == board[c].owner = u
Edits(u, c) == Exists(c) /\ (Manages(u, c) \/ role[c][u] = "editor")
Reads(u, c) ==
  Exists(c) /\ (Manages(u, c) \/ role[c][u] # "none" \/ board[c].visibility # "private")

In(p, c, r) == \E u \in User : <<c, r, u>> \in p
Holds(c, r) == In(placed, c, r)
Homes(r) == {c \in Cookbook : Holds(c, r)}

\* The boards rule: owner of the recipe, or reader of any cookbook holding it.
ReadsRecipe(u, r) == Alive(r) /\ (owner[r] = u \/ \E c \in Homes(r) : Reads(u, c))

\* ensure_default_cookbook: the board afterwards.
WithDefault(u) == IF Exists(u) THEN board ELSE [board EXCEPT ![u].owner = u]

-----------------------------------------------------------------------------
(* Requests that are done in one step.                                     *)

CreateCookbook(u, c) ==
  /\ c \in Board /\ board[c] = NoRow
  /\ board' = [board EXCEPT ![c].owner = u]
  /\ UNCHANGED <<role, owner, placed, tx>>

\* list_cookbooks makes the caller's default cookbook.
ListCookbooks(u) ==
  /\ board' = WithDefault(u)
  /\ UNCHANGED <<role, owner, placed, tx>>

\* invite_cookbook_member and set_cookbook_member_role; the owner is no member.
SetMember(u, c, v, as) ==
  /\ Exists(c) /\ Manages(u, c)
  /\ v # u
  /\ role' = [role EXCEPT ![c][v] = as]
  /\ UNCHANGED <<board, owner, placed, tx>>

\* remove_cookbook_member by the owner, leave_cookbook by the member.
DropMember(u, c, v) ==
  /\ v = u \/ (Exists(c) /\ Manages(u, c))
  /\ role' = [role EXCEPT ![c][v] = "none"]
  /\ UNCHANGED <<board, owner, placed, tx>>

\* Mutant of DeleteRecipe: it does not wait for the homes being given to it.
DeleteRecipeUnlocked(u, r) ==
  /\ owner[r] = u
  /\ owner' = [owner EXCEPT ![r] = Gone]
  /\ placed' = {p \in placed : p[2] # r}
  /\ UNCHANGED <<board, role, tx>>

\* delete_recipe: its placements go with it.  The homes a deletion is giving it
\* at the moment keep the row locked.
DeleteRecipe(u, r) ==
  /\ owner[r] = u
  /\ \A q \in Request, c \in Cookbook : ~In(tx[q].adds, c, r)
  /\ owner' = [owner EXCEPT ![r] = Gone]
  /\ placed' = {p \in placed : p[2] # r}
  /\ UNCHANGED <<board, role, tx>>

-----------------------------------------------------------------------------
(* Requests that check, then write.                                        *)

Open(q, h) == tx[q].op = "closed" /\ tx' = [tx EXCEPT ![q] = h]
Close(q) == tx' = [tx EXCEPT ![q] = Closed]
Abort(q) == Close(q) /\ UNCHANGED Tables

\* create_recipe, in the cookbook given or in the default one; save of a recipe
\* somebody else owns (a copy), and share_recipe (a copy in the recipient's default).
CheckCreate(q, u, c) ==
  /\ c = u \/ Edits(u, c)
  /\ Open(q, [Closed EXCEPT !.op = "place", !.user = u, !.cookbook = c])
  /\ UNCHANGED Tables

\* add_recipe_to_cookbook: a reference to any recipe the caller can read, in the
\* caller's name (no endpoint calls it for somebody else's recipe).
CheckAdd(q, u, r, c) ==
  /\ ReadsRecipe(u, r) /\ Edits(u, c)
  /\ Open(q, [Closed EXCEPT !.op = "place", !.user = u, !.cookbook = c, !.recipe = r])
  /\ UNCHANGED Tables

\* save_recipe_to_cookbook: a reference for the caller's own recipe, a copy of
\* another's that the caller can read.
CheckSave(q, u, r, c) ==
  /\ ReadsRecipe(u, r) /\ Edits(u, c)
  /\ Open(q, [Closed EXCEPT !.op = "place", !.user = u, !.cookbook = c,
                            !.recipe = IF owner[r] = u THEN r ELSE Nil])
  /\ UNCHANGED Tables

\* share_recipe by its owner, to another user.
CheckShare(q, u, r, v) ==
  /\ owner[r] = u /\ v # u
  /\ Open(q, [Closed EXCEPT !.op = "place", !.user = v, !.cookbook = v])
  /\ UNCHANGED Tables

\* _placement_insert: a placement that exists is left as it is.
Insert(c, r, u) == IF Holds(c, r) THEN placed ELSE placed \cup {<<c, r, u>>}

\* The insert of a new recipe and its placement, or of a placement alone.  The
\* foreign keys fail if a row has gone; a placement being inserted is waited for.
PlaceNew(q) ==
  LET u == tx[q].user
      c == tx[q].cookbook IN
  /\ tx[q].op = "place" /\ tx[q].recipe = Nil
  /\ c = u \/ Exists(c)
  /\ \E r \in Recipe : /\ owner[r] = Nil
                       /\ owner' = [owner EXCEPT ![r] = u]
                       /\ placed' = Insert(c, r, u)
  /\ board' = IF c = u THEN WithDefault(u) ELSE board
  /\ Close(q)
  /\ UNCHANGED role

PlaceReference(q) ==
  LET c == tx[q].cookbook
      r == tx[q].recipe IN
  /\ tx[q].op = "place" /\ r # Nil
  /\ Exists(c) /\ Alive(r)
  /\ \A p \in Request : ~In(tx[p].adds, c, r)
  /\ placed' = Insert(c, r, tx[q].user)
  /\ Close(q)
  /\ UNCHANGED <<board, role, owner>>

\* Mutant of LastPlacement: counts the placement the request is about to remove.
NoPlacement(r) == Cardinality(Homes(r)) = 0
LastPlacement(r) == Cardinality(Homes(r)) = 1

\* remove_recipe_from_cookbook: the 404 and 409 checks ...
CheckRemove(q, u, r, c) ==
  /\ Edits(u, c) /\ Holds(c, r)
  /\ ~LastPlacement(r)
  /\ Open(q, [Closed EXCEPT !.op = "remove", !.user = u, !.cookbook = c, !.recipe = r])
  /\ UNCHANGED Tables

\* ... and the DELETE of one placement.
Remove(q) ==
  /\ tx[q].op = "remove"
  /\ Holds(tx[q].cookbook, tx[q].recipe)
  /\ placed' = {p \in placed : ~(p[1] = tx[q].cookbook /\ p[2] = tx[q].recipe)}
  /\ Close(q)
  /\ UNCHANGED <<board, role, owner>>

\* delete_cookbook: never a default cookbook; the recipes placed nowhere else.
CheckDelete(q, u, c) ==
  /\ c \in Board /\ Exists(c) /\ Manages(u, c)
  /\ Open(q, [Closed EXCEPT !.op = "delete", !.user = u, !.cookbook = c,
                            !.todo = {r \in Recipe : Homes(r) = {c}}])
  /\ UNCHANGED Tables

\* Mutant of Rescuer: the recipe goes to whoever deletes the cookbook.
Deleter(q, r) == tx[q].user
Rescuer(q, r) == owner[r]

\* _rescue_solely_placed_recipes: one recipe into its owner's default cookbook.
Rescue(q, r) ==
  LET u == Rescuer(q, r) IN
  /\ tx[q].op = "delete" /\ r \in tx[q].todo
  /\ Alive(r)
  /\ \A p \in Request \ {q} : ~In(tx[p].adds, u, r)
  /\ tx' = [tx EXCEPT ![q].todo = @ \ {r},
                      ![q].adds = IF Holds(u, r) THEN @ ELSE @ \cup {<<u, r, u>>}]
  /\ UNCHANGED Tables

\* The row, its members and its placements go, and the new homes are committed.
\* A row that is gone by the time of the DELETE is no error.
Delete(q) ==
  LET c == tx[q].cookbook IN
  /\ tx[q].op = "delete" /\ tx[q].todo = {}
  /\ board' = [d \in Cookbook |->
                 IF d = c THEN [NoRow EXCEPT !.owner = Gone]
                 ELSE IF \E p \in tx[q].adds : p[1] = d THEN WithDefault(d)[d] ELSE board[d]]
  /\ role' = [role EXCEPT ![c] = [u \in User |-> "none"]]
  /\ placed' = {p \in placed : p[1] # c} \cup tx[q].adds
  /\ Close(q)
  /\ UNCHANGED owner

\* update_cookbook: the row as loaded ...
CheckShow(q, u, c) ==
  /\ Exists(c) /\ Manages(u, c)
  /\ Open(q, [Closed EXCEPT !.op = "show", !.user = u, !.cookbook = c,
                !.seen = [visibility |-> board[c].visibility, linked |-> board[c].linked]])
  /\ UNCHANGED Tables

\* Mutant of Shown: the token survives the move to private.
ShownKeepingLink(row, seen, v) ==
  [row EXCEPT !.visibility = v, !.linked = @ \/ v # "private"]
\* set_cookbook_visibility: only the columns that differ from what was loaded.
Shown(row, seen, v) ==
  [row EXCEPT !.visibility = IF v = seen.visibility THEN @ ELSE v,
              !.linked = IF seen.linked = (v # "private") THEN @ ELSE v # "private"]

\* ... and the UPDATE, which fails if the row has gone.
Show(q, v) ==
  LET c == tx[q].cookbook IN
  /\ tx[q].op = "show" /\ Exists(c)
  /\ board' = [board EXCEPT ![c] = Shown(@, tx[q].seen, v)]
  /\ Close(q)
  /\ UNCHANGED <<role, owner, placed>>

\* A dropped connection, a row that has gone (404, a foreign key, an assertion).
Fail(q) == tx[q].op # "closed" /\ Abort(q)

-----------------------------------------------------------------------------
Next ==
  \/ \E u \in User, c \in Cookbook : CreateCookbook(u, c)
  \/ \E u \in User : ListCookbooks(u)
  \/ \E u, v \in User, c \in Cookbook :
       DropMember(u, c, v) \/ \E as \in Granted : SetMember(u, c, v, as)
  \/ \E u \in User, r \in Recipe : DeleteRecipe(u, r)
  \/ \E q \in Request, u \in User :
       \/ \E c \in Cookbook : CheckCreate(q, u, c) \/ CheckDelete(q, u, c) \/ CheckShow(q, u, c)
       \/ \E r \in Recipe, c \in Cookbook :
            CheckAdd(q, u, r, c) \/ CheckSave(q, u, r, c) \/ CheckRemove(q, u, r, c)
       \/ \E r \in Recipe, v \in User : CheckShare(q, u, r, v)
  \/ \E q \in Request :
       \/ PlaceNew(q) \/ PlaceReference(q) \/ Remove(q) \/ Delete(q) \/ Fail(q)
       \/ \E r \in Recipe : Rescue(q, r)
       \/ \E v \in Visibility : Show(q, v)

Spec == Init /\ [][Next]_vars

-----------------------------------------------------------------------------
(* Properties.                                                             *)

\* Every recipe "must stay in at least one cookbook" (remove_recipe_from_cookbook),
\* whatever is created, copied, shared, removed and deleted around it.
Placed == \A r \in Recipe : Alive(r) => Homes(r) # {}

PlacementsOf(r) == {p \in placed : p[2] = r}

\* Deleting a cookbook gives a recipe that is placed nowhere else to its own owner, "its
\* own owner's, not the caller's" (_rescue_solely_placed_recipes), whoever placed it and
\* whoever deletes, and takes from every other recipe this one placement only.
RescuedToOwner ==
  [][\A c \in Board, r \in Recipe :
       Exists(c) /\ ~Exists(c)' /\ Alive(r) =>
         PlacementsOf(r)' = IF Homes(r) = {c} THEN {<<owner[r], r, owner[r]>>}
                            ELSE {p \in PlacementsOf(r) : p[1] # c}]_vars

\* "A private cookbook never has a public_token set" (main.py), and one that is
\* shown has one, so that its link works (set_cookbook_visibility).
LinkMatchesVisibility ==
  \A c \in Cookbook : board[c].linked <=> board[c].visibility # "private"
=============================================================================
