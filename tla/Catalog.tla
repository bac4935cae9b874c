------------------------------ MODULE Catalog -------------------------------
(***************************************************************************)
(* The ingredient catalog (catalog/service.py): recipes being saved look   *)
(* up or create an ingredient for each line, an administrator merges and   *)
(* renames ingredients, a deployment loads the seed data.                  *)
(*                                                                         *)
(* A save is one transaction and resolves its lines one at a time; what it *)
(* creates is flushed, seen by itself only, until it commits.  The writes  *)
(* of an administrator and of the seed loader are one step each.           *)
(*                                                                         *)
(* Abstractions.  A name is its normalised form.  rapidfuzz's scores are   *)
(* two relations: Close, 90 and more, and Near, between 70 and 90.  What   *)
(* the language model picks is arbitrary.  The lines of a recipe are the   *)
(* set of ingredients they link to, resolved in any order.                 *)
(***************************************************************************)
EXTENDS Absent, FiniteSets, Naturals

CONSTANTS
  Food,      \* names of ingredients
  Close, Near, \* symmetric relations on Food
  Ingredient,  \* ids; a bound on the rows
  Dish,      \* recipes
  Save,      \* requests that save a recipe
  MaxLines,  \* a bound on the names in a saved recipe
  Seed,      \* name of each seed entry |-> its aliases
  Renaming,  \* the changes of name administrators make: <<old, new>>
  MergeIntoMerged  \* whether administrators pick a merged ingredient as target

ASSUME CatalogAssumption ==
  /\ None \notin Ingredient \cup Save \cup Dish
  /\ Close \cup Near \cup Renaming \subseteq Food \X Food
  /\ \A e \in Close : <<e[2], e[1]>> \in Close
  /\ \A f \in Food : <<f, f>> \in Close
  /\ DOMAIN Seed \subseteq Food /\ \A f \in DOMAIN Seed : Seed[f] \subseteq Food
  /\ MergeIntoMerged \in BOOLEAN

VARIABLES
  food,     \* canonical_ingredients: name, merged_into_id, the save that has not committed it
  alias,    \* ingredient_aliases: name, ingredient
  lines,    \* the committed links of each recipe; raced: saved across a merge
  save      \* the open saves

catalogVars == <<food, alias, lines, save>>

FoodRow == [name : Food, into : Ingredient \cup {None}, by : Save \cup {None}]
SaveRow == [dish : Dish, todo : SUBSET Food, corpus : (SUBSET (Food \X Ingredient)) \cup {None},
            got : SUBSET Ingredient, raced : BOOLEAN]

ASSUME CatalogRowAssumption == None \notin FoodRow \cup SaveRow

CatalogTypeOK ==
  /\ food \in [Ingredient -> FoodRow \cup {None}]
  /\ alias \subseteq Food \X Ingredient
  /\ lines \in [Dish -> [at : SUBSET Ingredient, raced : BOOLEAN]]
  /\ save \in [Save -> SaveRow \cup {None}]
  /\ \A p \in alias : food[p[2]] # None
  /\ \A d \in Dish : \A i \in lines[d].at : food[i] # None /\ food[i].by = None

CatalogInit ==
  /\ food = [i \in Ingredient |-> None]
  /\ alias = {}
  /\ lines = [d \in Dish |-> [at |-> {}, raced |-> FALSE]]
  /\ save = [s \in Save |-> None]

-----------------------------------------------------------------------------
(* What a transaction reads; s is None for an administrator. *)

Visible(s) == {i \in Ingredient : food[i] # None /\ food[i].by \in {s, None}}
IsLive(i) == food[i].into = None

\* The rows that merged_into_id leads to from i: those in every set that has i and the
\* target of each of its rows.
Chain(i) ==
  LET rows == {j \in Ingredient : food[j] # None}
  IN  {j \in rows : \A S \in SUBSET rows :
         i \in S /\ (\A k \in S : IsLive(k) \/ food[k].into \in S) => j \in S}

\* _follow_merge_chain: the live row at the end of the chain; None on a cycle.
Target(i) ==
  LET ends == {j \in Chain(i) : IsLive(j)}
  IN  IF ends = {} THEN None ELSE CHOOSE j \in ends : TRUE

\* The rows match() may start from: aliases first, then the name.
Hits(s, f) ==
  LET aliased == {i \in Visible(s) : <<f, i>> \in alias}
  IN  IF aliased # {} THEN aliased ELSE {i \in Visible(s) : food[i].name = f}

\* _load_corpus: the aliases and names of live rows.
Loaded(s) ==
  {e \in Food \X Visible(s) : IsLive(e[2]) /\ (e \in alias \/ food[e[2]].name = e[1])}

\* Mutant of Added: fuzzyCorpus.add forgotten once the corpus is loaded.
AddedLost(corpus, f, i) == corpus

\* FuzzyCorpus.add
Added(corpus, f, i) == IF \E e \in corpus : e[2] = i THEN corpus ELSE corpus \cup {<<f, i>>}

-----------------------------------------------------------------------------
(* Saving a recipe: create_recipe and update_recipe, around _apply_groups. *)

BeginSave(s) ==
  /\ save[s] = None
  /\ \E d \in Dish, names \in {n \in SUBSET Food : Cardinality(n) \in 1..MaxLines} :
       /\ \A o \in Save : save[o] # None => save[o].dish # d  \* the UPDATE locks the recipe
       /\ save' = [save EXCEPT ![s] =
                     [dish |-> d, todo |-> names, corpus |-> None, got |-> {}, raced |-> FALSE]]
  /\ UNCHANGED <<food, alias, lines>>

Link(s, f, i, corpus) ==
  save' = [save EXCEPT ![s].todo = @ \ {f}, ![s].got = @ \cup {i}, ![s].corpus = corpus]

\* match()
LinkExact(s) ==
  /\ save[s] # None
  /\ \E f \in save[s].todo : \E i \in Hits(s, f) :
       Target(i) # None /\ Link(s, f, Target(i), save[s].corpus)
  /\ UNCHANGED <<food, alias, lines>>

Unmatched(s, f) == Hits(s, f) = {} \/ \E i \in Hits(s, f) : Target(i) = None
Corpus(s) == IF save[s].corpus = None THEN Loaded(s) ELSE save[s].corpus
Candidates(s, f, similar) == {e \in Corpus(s) : <<f, e[1]>> \in similar}

\* Nothing scores 90, or the best of those that do, any of them, has a chain without an end:
\* the others are not tried.
Uncertain(s, f) ==
  /\ Unmatched(s, f)
  /\ \/ Candidates(s, f, Close) = {}
     \/ \E best \in Candidates(s, f, Close) : Target(best[2]) = None

\* A score of at least 90, or one of 70 to 90 that the language model picks.
LinkFuzzy(s) ==
  /\ save[s] # None
  /\ \E f \in save[s].todo :
       \E e \in Candidates(s, f, Close) \cup (IF Uncertain(s, f) THEN Candidates(s, f, Near) ELSE {}) :
         /\ Unmatched(s, f)
         /\ Target(e[2]) # None
         /\ Link(s, f, Target(e[2]), Corpus(s))
  /\ UNCHANGED <<food, alias, lines>>

\* create_unreviewed: the row of that name, whatever became of it, or a new one.  An
\* INSERT waits for the end of another save that has inserted the name.
LinkCreated(s) ==
  /\ save[s] # None
  /\ \E f \in save[s].todo :
       /\ Uncertain(s, f)
       /\ IF \E i \in Visible(s) : food[i].name = f
          THEN /\ \E i \in Visible(s) : food[i].name = f /\ Link(s, f, i, Added(Corpus(s), f, i))
               /\ UNCHANGED <<food, alias>>
          ELSE /\ \A i \in Ingredient : food[i] # None => food[i].name # f
               /\ \E i \in Ingredient : food[i] = None
               /\ LET i == CHOOSE j \in Ingredient : food[j] = None
                  IN  /\ food' = [food EXCEPT ![i] = [name |-> f, into |-> None, by |-> s]]
                      /\ alias' = alias \cup {<<f, i>>}
                      /\ Link(s, f, i, Added(Corpus(s), f, i))
  /\ UNCHANGED lines

\* The new lines replace the old ones.
CommitSave(s) ==
  /\ save[s] # None /\ save[s].todo = {}
  /\ food' = [i \in Ingredient |->
                IF food[i] # None /\ food[i].by = s THEN [food[i] EXCEPT !.by = None] ELSE food[i]]
  /\ lines' = [lines EXCEPT ![save[s].dish] = [at |-> save[s].got, raced |-> save[s].raced]]
  /\ save' = [save EXCEPT ![s] = None]
  /\ UNCHANGED alias

\* A failure of the language model or of a statement (a name another save has committed
\* meanwhile, a deadlock) rolls all of it back.
FailSave(s) ==
  LET mine == {i \in Ingredient : food[i] # None /\ food[i].by = s}
  IN  /\ save[s] # None
      /\ food' = [i \in Ingredient |-> IF i \in mine THEN None ELSE food[i]]
      /\ alias' = {p \in alias : p[2] \notin mine}
      /\ save' = [save EXCEPT ![s] = None]
      /\ UNCHANGED lines

-----------------------------------------------------------------------------
(* Administrators and deployments. *)

\* Mutant of Mergeable: the guard on the target missing, and the one on the source too.
MergeableTwice(a, b) == a # b /\ a \in Visible(None) /\ b \in Visible(None)

\* The guards of merge(); the router passes any two ids.
Mergeable(a, b) ==
  /\ a # b /\ a \in Visible(None) /\ b \in Visible(None)
  /\ IsLive(a)
  /\ IsLive(b) \/ MergeIntoMerged

\* Mutant of Repointed: the hook not registered.
NotRepointed(a, b) == lines

\* The hook that cookbook/service.py registers.
Repointed(a, b) ==
  [d \in Dish |->
     IF a \in lines[d].at THEN [lines[d] EXCEPT !.at = (@ \ {a}) \cup {b}] ELSE lines[d]]

Merge ==
  \E a, b \in Ingredient :
    /\ Mergeable(a, b)
    /\ food' = [food EXCEPT ![a].into = b]
    /\ alias' = {<<p[1], IF p[2] = a THEN b ELSE p[2]>> : p \in alias} \cup {<<food[a].name, b>>}
    /\ lines' = Repointed(a, b)
    /\ save' = [s \in Save |-> IF save[s] = None THEN None ELSE [save[s] EXCEPT !.raced = TRUE]]

\* A name in use is refused by the unique index.
Rename ==
  \E i \in Visible(None), f \in Food :
    /\ <<food[i].name, f>> \in Renaming
    /\ \A j \in Ingredient : food[j] # None => food[j].name # f
    /\ food' = [food EXCEPT ![i].name = f]
    /\ UNCHANGED <<alias, lines, save>>

\* load_seed: the entries whose name is not in use, with all their aliases.
LoadSeed ==
  LET inUse == {food[j].name : j \in {k \in Ingredient : food[k] # None}}
      new == DOMAIN Seed \ inUse
  IN  /\ new # {}
      /\ \E id \in [new -> {i \in Ingredient : food[i] = None}] :
           /\ \A f, g \in new : id[f] = id[g] => f = g
           /\ food' = [i \in Ingredient |->
                         IF \E f \in new : id[f] = i
                         THEN [name |-> CHOOSE f \in new : id[f] = i, into |-> None, by |-> None]
                         ELSE food[i]]
           /\ alias' = alias \cup {p \in Food \X Ingredient :
                                   \E f \in new : id[f] = p[2] /\ p[1] \in Seed[f]}
      /\ UNCHANGED <<lines, save>>

CatalogNext ==
  \/ \E s \in Save :
       BeginSave(s) \/ LinkExact(s) \/ LinkFuzzy(s) \/ LinkCreated(s) \/ CommitSave(s) \/ FailSave(s)
  \/ Merge
  \/ Rename
  \/ LoadSeed

CatalogSpec == CatalogInit /\ [][CatalogNext]_catalogVars

-----------------------------------------------------------------------------
(* Properties *)

\* No alias is left on a merged ingredient: what the comment in _load_corpus counts on.
AliasesOnLive == \A p \in alias : IsLive(p[2])

\* The links of a recipe are to live ingredients, whatever was merged before and after it
\* was saved.  A merge during the save is missed: it repoints the lines it sees.
LinesOnLive == \A d \in Dish : lines[d].raced \/ \A i \in lines[d].at : IsLive(i)

\* Every name that is stored leads to a live ingredient, by match() or by the row that
\* create_unreviewed falls back on.
NamesResolve ==
  \A f \in Food :
    \/ \E i \in Hits(None, f) : Target(i) # None
    \/ \A i \in Visible(None) : food[i].name = f => IsLive(i)

\* One save never creates two ingredients for names that match each other: a later line
\* finds what an earlier one created, although the corpus was read before.  It takes merges
\* into live ingredients: a cycle made during the save may hide what the save created.
NoTwins ==
  \A i, j \in Ingredient :
    (i # j /\ food[i] # None /\ food[j] # None /\ food[i].by # None /\ food[i].by = food[j].by)
      => <<food[i].name, food[j].name>> \notin Close

=============================================================================
