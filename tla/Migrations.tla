----------------------------- MODULE Migrations -----------------------------
(***************************************************************************)
(* The three migrations that moved every recipe into cookbooks, and their  *)
(* downgrades (alembic/versions):                                          *)
(*   0 -> 1  4e1b7c9a52d8  cookbooks, recipes.cookbook_id, members         *)
(*   1 -> 2  b7d3f0c11a94  cookbook_id NOT NULL, shared cookbooks dropped  *)
(*   2 -> 3  a3f7c2d8e015  cookbook_recipes, collections folded            *)
(*                                                                         *)
(* A migration is one transaction, and so one step.  Between them the      *)
(* application goes on writing: users register, recipes are written (at    *)
(* revision 1 by writers that know no cookbooks, too), and filed.          *)
(*                                                                         *)
(* Abstractions.  New ids are any unused ones.  Shared cookbooks are       *)
(* numbered in the order of created_at.  Of the times of placements there  *)
(* is only whether they are later than the migration's.                    *)
(***************************************************************************)
EXTENDS Absent, Naturals, FiniteSets

CONSTANTS
  Person,  \* users, registered or yet to come
  Meal,    \* recipes, written or yet to come
  Book,    \* ids of cookbooks; a bound on the rows
  Shared,  \* ids of shared cookbooks
  Collection

ASSUME MigrationAssumption ==
  /\ Shared \subseteq Nat
  /\ Shared \cap Person = {}
  /\ \A rows \in {Book, Person, Shared, Collection} : IsFiniteSet(rows)
  /\ None \notin Person \cup Meal \cup Book \cup Shared \cup Collection
  /\ None \notin [owner : Person, default : BOOLEAN]

VARIABLES
  rev,      \* alembic_version
  people,   \* users
  cook,     \* recipes.owner_id
  home,     \* recipes.cookbook_id
  book,     \* cookbooks: owner_id, is_default
  editor,   \* cookbook_members
  shelf,    \* cookbook_recipes
  shared,   \* shared_cookbooks with their members and recipes
  coll      \* collections with their recipes

migrationVars == <<rev, people, cook, home, book, editor, shelf, shared, coll>>

MigrationTypeOK ==
  /\ rev \in 0..3
  /\ people \subseteq Person
  /\ cook \in [Meal -> people \cup {None}]
  /\ home \in [Meal -> Book \cup {None}]
  /\ book \in [Book -> [owner : people, default : BOOLEAN] \cup {None}]
  /\ editor \subseteq Book \X people
  /\ shelf \subseteq [book : Book, meal : Meal, later : BOOLEAN]
  /\ shared \in [Shared -> [by : people, members : SUBSET people, meals : SUBSET Meal] \cup {None}]
  /\ coll \in [Collection -> [owner : people, meals : SUBSET Meal] \cup {None}]
  /\ \A m \in Meal : home[m] # None => book[home[m]] # None
  /\ \A p \in shelf : book[p.book] # None /\ cook[p.meal] # None

Written == {m \in Meal : cook[m] # None}
Rows(table) == {x \in DOMAIN table : table[x] # None}

\* The old world: a shared cookbook may have lost the members whose recipes it holds.
MigrationInit ==
  /\ rev = 0
  /\ people \in SUBSET Person
  /\ cook \in [Meal -> people \cup {None}]
  /\ home = [m \in Meal |-> None]
  /\ book = [b \in Book |-> None]
  /\ editor = {} /\ shelf = {}
  /\ shared \in [Shared -> [by : people, members : SUBSET people, meals : SUBSET Written] \cup {None}]
  /\ coll = [c \in Collection |-> None]

-----------------------------------------------------------------------------
(* Rows the migrations write *)

\* uuid4 for each of a set of rows.
Free == Book \ Rows(book)
NewIds(rows) == CHOOSE f \in [rows -> Free] : \A x, y \in rows : f[x] = f[y] => x = y
Room(rows) == Cardinality(rows) <= Cardinality(Free)

\* The books, and those of row under their new ids.
WithNew(id, row) ==
  [b \in Book |-> IF \E x \in DOMAIN row : id[x] = b
                  THEN row[CHOOSE x \in DOMAIN row : id[x] = b] ELSE book[b]]

DefaultRow(u) == [owner |-> u, default |-> TRUE]
Defaults(owners) == [u \in owners |-> DefaultRow(u)]
DefaultsOf(u, books) == {b \in Rows(books) : books[b] = DefaultRow(u)}

\* The scalar subquery: NULL for an owner without a default.
DefaultOf(u, books) ==
  IF DefaultsOf(u, books) = {} THEN None ELSE CHOOSE b \in DefaultsOf(u, books) : TRUE

\* Mutant of Homeless: the owner of every stray gets a default.
HomelessAll(strays) == {cook[m] : m \in strays}

\* Owners of strays who have no default cookbook get one; then every stray is filed.
Homeless(strays) == {cook[m] : m \in {n \in strays : DefaultsOf(cook[n], book) = {}}}
Sweep(homes) ==
  LET strays == {m \in Written : homes[m] = None}
      owners == Homeless(strays)
      books == WithNew(NewIds(owners), Defaults(owners))
  IN  /\ Room(owners)
      /\ book' = books
      /\ home' = [m \in Meal |-> IF m \in strays THEN DefaultOf(cook[m], books) ELSE homes[m]]

-----------------------------------------------------------------------------
(* 4e1b7c9a52d8 *)

Holding(m) == {s \in Rows(shared) : m \in shared[s].meals}
Oldest(m) == CHOOSE s \in Holding(m) : \A o \in Holding(m) : s <= o
Claimed == {m \in Written : Holding(m) # {}}

SharedRow(s) == [owner |-> shared[s].by, default |-> FALSE]

\* Mutant of MemberRows: members carried over only.
MemberRowsCarried(id) ==
  UNION {{id[s]} \X (shared[s].members \ {shared[s].by}) : s \in Rows(shared)}

\* The members of the shared cookbooks and the owners of what they hold, their own owners
\* apart.
Members(s) == (shared[s].members \cup {cook[m] : m \in {c \in Claimed : Oldest(c) = s}}) \ {shared[s].by}
MemberRows(id) == UNION {{id[s]} \X Members(s) : s \in Rows(shared)}

UpgradePivot ==
  LET rows == people \cup Rows(shared)
      id == NewIds(rows)
      row == [x \in rows |-> IF x \in people THEN DefaultRow(x) ELSE SharedRow(x)]
  IN  /\ rev = 0 /\ Room(rows)
      /\ rev' = 1
      /\ book' = WithNew(id, row)
      /\ editor' = MemberRows(id)
      /\ home' = [m \in Meal |-> IF cook[m] = None THEN None
                                 ELSE IF m \in Claimed THEN id[Oldest(m)]
                                 ELSE DefaultOf(cook[m], book')]
      /\ UNCHANGED <<people, cook, shelf, shared, coll>>

DowngradePivot ==
  /\ rev = 1
  /\ rev' = 0
  /\ book' = [b \in Book |-> None]
  /\ editor' = {}
  /\ home' = [m \in Meal |-> None]
  /\ UNCHANGED <<people, cook, shelf, shared, coll>>

(* b7d3f0c11a94 *)

UpgradeFinalize ==
  /\ rev = 1
  /\ rev' = 2
  /\ Sweep(home)
  /\ shared' = [s \in Shared |-> None]
  /\ UNCHANGED <<people, cook, editor, shelf, coll>>

\* The shared cookbooks come back empty.
DowngradeFinalize ==
  /\ rev = 2
  /\ rev' = 1
  /\ UNCHANGED <<people, cook, home, book, editor, shelf, shared, coll>>

(* a3f7c2d8e015 *)

CollectionRow(c) == [owner |-> coll[c].owner, default |-> FALSE]
Placement(b, m, later) == [book |-> b, meal |-> m, later |-> later]

\* The primary placements, and of each collection the recipes of its owner.
Collected(c) == {m \in Written \cap coll[c].meals : cook[m] = coll[c].owner}
Placements(id) ==
  {Placement(home[m], m, FALSE) : m \in Written}
    \cup UNION {{Placement(id[c], m, FALSE) : m \in Collected(c)} : c \in Rows(coll)}

UpgradeBoards ==
  LET id == NewIds(Rows(coll))
  IN  /\ rev = 2 /\ Room(Rows(coll))
      /\ rev' = 3
      /\ book' = WithNew(id, [c \in Rows(coll) |-> CollectionRow(c)])
      /\ shelf' = Placements(id)
      /\ home' = [m \in Meal |-> None]
      /\ coll' = [c \in Collection |-> None]
      /\ UNCHANGED <<people, cook, editor, shared>>

On(m) == {p \in shelf : p.meal = m}
\* ORDER BY added_at, cookbook_id: among the placements of one migration, any.
Primary(m) == {p \in On(m) : p.later => \A q \in On(m) : q.later}

DowngradeBoards ==
  /\ rev = 3
  /\ rev' = 2
  /\ \E homes \in [Meal -> Book \cup {None}] :
       /\ \A m \in Meal : IF On(m) = {} THEN homes[m] = None ELSE \E p \in Primary(m) : homes[m] = p.book
       /\ Sweep(homes)
  /\ shelf' = {}
  /\ UNCHANGED <<people, cook, editor, shared, coll>>

-----------------------------------------------------------------------------
(* The application between them, as far as the migrations meet what it writes *)

Register ==
  \E u \in Person \ people :
    /\ people' = people \cup {u}
    /\ UNCHANGED <<rev, cook, home, book, editor, shelf, shared, coll>>

\* A new recipe goes to the default cookbook, made if need be (ensure_default_cookbook); at
\* revision 1 some writers leave it without.
WriteRecipe ==
  \E m \in Meal \ Written, u \in people, filed \in BOOLEAN :
    LET new == IF DefaultsOf(u, book) = {} THEN {u} ELSE {}
        books == WithNew(NewIds(new), Defaults(new))
        target == DefaultOf(u, books)
    IN  /\ filed = (rev >= 2) \/ rev = 1
        /\ filed => Room(new)
        /\ cook' = [cook EXCEPT ![m] = u]
        /\ book' = IF filed THEN books ELSE book
        /\ home' = IF filed /\ rev < 3 THEN [home EXCEPT ![m] = target] ELSE home
        /\ shelf' = IF filed /\ rev = 3 THEN shelf \cup {Placement(target, m, TRUE)} ELSE shelf
        /\ UNCHANGED <<rev, people, editor, shared, coll>>

Collect ==
  \E c \in Collection, u \in people, meals \in SUBSET Written :
    /\ rev < 3 /\ coll[c] = None
    /\ coll' = [coll EXCEPT ![c] = [owner |-> u, meals |-> meals]]
    /\ UNCHANGED <<rev, people, cook, home, book, editor, shelf, shared>>

\* Moved at revisions 1 and 2, placed in one more cookbook at revision 3.
File ==
  \E m \in Written, b \in Rows(book) :
    /\ rev > 0 /\ book[b].owner = cook[m]
    /\ IF rev < 3
       THEN home' = [home EXCEPT ![m] = b] /\ UNCHANGED shelf
       ELSE /\ \A p \in On(m) : p.book # b
            /\ shelf' = shelf \cup {Placement(b, m, TRUE)}
            /\ UNCHANGED home
    /\ UNCHANGED <<rev, people, cook, book, editor, shared, coll>>

MigrationNext ==
  \/ UpgradePivot \/ UpgradeFinalize \/ UpgradeBoards
  \/ DowngradePivot \/ DowngradeFinalize \/ DowngradeBoards
  \/ Register \/ WriteRecipe \/ Collect \/ File

MigrationSpec == MigrationInit /\ [][MigrationNext]_migrationVars

-----------------------------------------------------------------------------
(* Properties *)

\* No migration breaks the constraints of the schema it makes, whatever was written
\* meanwhile: cookbook_id is never NULL once it may not be, every recipe is placed once
\* placements are all there is, and nobody has two default cookbooks.
ConstraintsHold ==
  /\ \A m \in Written : (rev = 2 => home[m] # None) /\ (rev = 3 => On(m) # {})
  /\ \A u \in people : Cardinality(DefaultsOf(u, book)) <= 1

ReadersOf(b) == {book[b].owner} \cup {u \in people : <<b, u>> \in editor}

\* Who may read a recipe: in the old world its owner and the members of every shared
\* cookbook that holds it.
OldReaders(s) == {shared[s].by} \cup shared[s].members
Readers(m) ==
  CASE rev = 0 -> {cook[m]} \cup UNION {OldReaders(s) : s \in Holding(m)}
    [] rev \in {1, 2} -> IF home[m] = None THEN {cook[m]} ELSE ReadersOf(home[m])
    [] rev = 3 -> {cook[m]} \cup UNION {ReadersOf(p.book) : p \in On(m)}

\* The price of one cookbook per recipe: of a contested recipe, those who read it through
\* shared cookbooks that are not the oldest only.
Losers(m) ==
  {u \in Readers(m) :
     /\ rev = 0 /\ u # cook[m] /\ Holding(m) # {}
     /\ u \notin OldReaders(Oldest(m))}

\* And of one membership per cookbook: the owners of the other recipes it gets.
Gainers(m) == {cook[c] : c \in {d \in Claimed : m \in Claimed /\ Oldest(d) = Oldest(m)}}

\* An upgrade takes a recipe from nobody who could read it but the members of the younger
\* ones of several shared cookbooks that held it.  These lose it, and the first upgrade gives
\* it to nobody new but the owners of what the same shared cookbook held.
AccessKept ==
  [][rev' > rev => \A m \in Written :
       /\ Readers(m) \ Losers(m) \subseteq Readers(m)'
       /\ rev = 0 => Readers(m)' \subseteq (Readers(m) \ Losers(m)) \cup Gainers(m)]_migrationVars

=============================================================================
