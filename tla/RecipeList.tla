----------------------------- MODULE RecipeList -----------------------------
(***************************************************************************)
(* A reader who walks the pages of list_recipes (cookbook/service.py) by   *)
(* limit and offset, while recipes come and go between the requests.       *)
(*                                                                         *)
(* Abstractions.  A recipe has the grounds on which it is in the scope: it *)
(* is the reader's own, or placed in some cookbook of theirs.  One that an *)
(* edit takes out of the filters has none.  created_at is taken before the *)
(* row is committed: a new recipe may come in anywhere in the order.       *)
(***************************************************************************)
EXTENDS Absent, Naturals, Sequences, FiniteSets

CONSTANTS
  Entry,    \* ids of recipes, which are ordered
  Ground,   \* "own", and the cookbooks the reader owns or is a member of
  Time,     \* values of created_at
  PageSize  \* limit

ASSUME ListAssumption ==
  /\ Entry \subseteq Nat /\ IsFiniteSet(Entry) /\ Time \subseteq Nat
  /\ PageSize \in Nat \ {0}
  /\ None \notin Entry

VARIABLES
  entry,  \* the rows: created_at, grounds
  walk    \* the pages so far; the recipes listed all along; whether any came or went

listVars == <<entry, walk>>

ListTypeOK ==
  /\ entry \in [Entry -> [created : Time, on : SUBSET Ground] \cup {None}]
  /\ walk \in [offset : Nat, seen : Seq(Entry), steady : SUBSET Entry, came : BOOLEAN,
               went : BOOLEAN, over : BOOLEAN]

\* One EXISTS per recipe, and no join with its placements.
Listed(rows) == {r \in Entry : rows[r] # None /\ rows[r].on # {}}

NewWalk(rows) ==
  [offset |-> 0, seen |-> <<>>, steady |-> Listed(rows), came |-> FALSE, went |-> FALSE, over |-> FALSE]

ListInit ==
  /\ entry \in [Entry -> [created : Time, on : SUBSET Ground] \cup {None}]
  /\ walk = NewWalk(entry)

\* What a change of the rows does to a walk that is not over.
Watch(rows) ==
  LET new == Listed(rows) old == Listed(entry)
  IN  /\ ~walk.over
      /\ entry' = rows
      /\ walk' = [walk EXCEPT !.steady = @ \cap new,
                              !.came = @ \/ ~(new \subseteq old),
                              !.went = @ \/ ~(old \subseteq new)]

AddEntry ==
  \E r \in Entry, t \in Time, on \in SUBSET Ground :
    entry[r] = None /\ Watch([entry EXCEPT ![r] = [created |-> t, on |-> on]])

\* Placements, memberships and edits.
Regrade ==
  \E r \in Entry, on \in SUBSET Ground : entry[r] # None /\ Watch([entry EXCEPT ![r].on = on])

DropEntry == \E r \in Entry : entry[r] # None /\ Watch([entry EXCEPT ![r] = None])

\* Mutant of Newer: ORDER BY created_at alone.
NewerByTime(r, s) == entry[r].created >= entry[s].created

\* ORDER BY created_at DESC, id DESC
Newer(r, s) ==
  \/ entry[r].created > entry[s].created
  \/ entry[r].created = entry[s].created /\ r > s

\* The orders the database may return the rows in.
Orders ==
  LET n == Cardinality(Listed(entry))
  IN  {s \in [1..n -> Listed(entry)] : \A i, j \in 1..n : i < j => s[i] # s[j] /\ Newer(s[i], s[j])}

FetchPage ==
  /\ ~walk.over
  /\ \E s \in Orders :
       LET page == SubSeq(s, walk.offset + 1,
                          IF walk.offset + PageSize < Len(s) THEN walk.offset + PageSize ELSE Len(s))
       IN  walk' = [walk EXCEPT !.offset = @ + PageSize, !.seen = @ \o page,
                                !.over = Len(page) < PageSize]
  /\ UNCHANGED entry

ListNext == AddEntry \/ Regrade \/ DropEntry \/ FetchPage
ListSpec == ListInit /\ [][ListNext]_listVars

-----------------------------------------------------------------------------
(* Properties *)

\* Of the recipes listed all along, a walk misses none unless some recipe left the list
\* meanwhile, and it meets none twice unless one came.
WalkComplete ==
  /\ walk.over /\ ~walk.went => walk.steady \subseteq {walk.seen[i] : i \in DOMAIN walk.seen}
  /\ ~walk.came => \A i, j \in DOMAIN walk.seen : i # j => walk.seen[i] # walk.seen[j]

=============================================================================
