---------------------------- MODULE CatalogProofs ----------------------------
(***************************************************************************)
(* Theorems about Catalog, for any names, rows, recipes and open saves.    *)
(* Those about merged ingredients hold as long as administrators merge     *)
(* into live ones only: ~MergeIntoMerged.                                  *)
(***************************************************************************)
EXTENDS Catalog, TLAPS

IsRow(i) == food[i] # None

\* What a save has created is live and disappears only with it.
Pending ==
  \A i \in Ingredient : IsRow(i) /\ food[i].by # None => IsLive(i) /\ save[food[i].by] # None

\* Merge pointers lead to committed rows.
Pointers ==
  \A i \in Ingredient : IsRow(i) /\ ~IsLive(i) => IsRow(food[i].into) /\ food[food[i].into].by = None

\* What a save knows of the table is in it, and is all that the save created.
Known(s, corpus) ==
  /\ corpus \subseteq Food \X Ingredient
  /\ \A e \in corpus : e[2] \in Visible(s)
  /\ \A i \in Ingredient : IsRow(i) /\ food[i].by = s => <<food[i].name, i>> \in corpus

Informed ==
  \A s \in Save : save[s] # None =>
    save[s].got \subseteq Visible(s) /\ (save[s].corpus # None => Known(s, save[s].corpus))

\* Every chain ends.  In this form a merge of live rows keeps it without an induction.
ChainsEnd == \A i \in Ingredient : IsRow(i) => \E j \in Chain(i) : IsLive(j)

\* What a save has linked is live, unless something was merged meanwhile.
LinkedLive == \A s \in Save : save[s] # None /\ ~save[s].raced => \A i \in save[s].got : IsLive(i)

\* No twins, where no chain can lead a save past what it created.
TwinFree == ~MergeIntoMerged => NoTwins

MergesTraced == ~MergeIntoMerged => AliasesOnLive /\ LinesOnLive /\ ChainsEnd /\ LinkedLive

Inv == CatalogTypeOK /\ Pending /\ Pointers /\ Informed /\ TwinFree /\ MergesTraced

-----------------------------------------------------------------------------
(* Chains *)

\* A row that is visible leads to rows that are.
LEMMA ChainVisible ==
  ASSUME Inv, NEW s, NEW i \in Visible(s) PROVE Chain(i) \subseteq Visible(s)
<1> DEFINE S == Visible(s)
<1>1. \A k \in S : IsLive(k) \/ food[k].into \in S
  BY DEF Visible, Inv, CatalogTypeOK, FoodRow, Pointers, IsRow, IsLive
<1>2. S \subseteq {j \in Ingredient : food[j] # None}
  BY DEF Visible
<1> QED
  BY <1>1, <1>2 DEF Chain

\* A live row is the end of its own chain.
LEMMA ChainOfLive ==
  ASSUME NEW i \in Ingredient, IsRow(i), IsLive(i) PROVE i \in Chain(i) /\ Chain(i) \subseteq {i}
<1>1. i \in Chain(i)
  BY DEF Chain, IsRow
<1>2. {i} \in SUBSET {j \in Ingredient : food[j] # None}
  BY DEF IsRow
<1> QED
  BY <1>1, <1>2 DEF Chain

\* A target is a live row of the chain.
LEMMA TargetInChain ==
  ASSUME NEW i, Target(i) # None PROVE Target(i) \in Chain(i) /\ IsLive(Target(i))
<1> DEFINE ends == {j \in Chain(i) : IsLive(j)}
<1>1. ends # {} /\ Target(i) = CHOOSE j \in ends : TRUE
  BY DEF Target
<1>2. Target(i) \in ends
  BY <1>1
<1> QED
  BY <1>2

\* A chain that ends has a target.
LEMMA TargetThere ==
  ASSUME NEW i \in Ingredient, NEW j \in Chain(i), IsLive(j) PROVE Target(i) # None
<1> DEFINE ends == {k \in Chain(i) : IsLive(k)}
<1>1. j \in ends /\ ends \subseteq Ingredient
  BY DEF Chain
<1>2. (CHOOSE k \in ends : TRUE) \in ends
  BY <1>1
<1>3. Target(i) = CHOOSE k \in ends : TRUE
  BY <1>1 DEF Target
<1> QED
  BY <1>1, <1>2, <1>3, CatalogAssumption

\* What a transaction follows is visible to it.
LEMMA TargetVisible ==
  ASSUME Inv, NEW s, NEW i \in Visible(s), Target(i) # None
  PROVE  Target(i) \in Visible(s) /\ IsLive(Target(i))
BY ChainVisible, TargetInChain

\* Rows that a step adds or leaves, without touching a pointer, leave the ends of chains.
LEMMA ChainsKept ==
  ASSUME Inv, ChainsEnd,
         \A i \in Ingredient : IsRow(i)' /\ IsRow(i) => food'[i].into = food[i].into,
         \A i \in Ingredient : IsRow(i)' /\ ~IsRow(i) => IsLive(i)',
         \A i \in Ingredient : IsRow(i) /\ ~IsRow(i)' => food[i].by # None
  PROVE  ChainsEnd'
<1> SUFFICES ASSUME NEW i \in Ingredient, IsRow(i)' PROVE \E j \in Chain(i)' : IsLive(j)'
  BY DEF ChainsEnd
<1>1. CASE IsLive(i)'
  <2>1. i \in Chain(i)'
    BY DEF Chain, IsRow
  <2> QED
    BY <1>1, <2>1
<1>2. CASE ~IsLive(i)'
  <2>1. IsRow(i) /\ ~IsLive(i)
    BY <1>2 DEF IsLive
  <2>2. PICK j \in Chain(i) : IsLive(j)
    BY <2>1 DEF ChainsEnd
  <2>3. j \in Ingredient /\ IsRow(j)
    BY DEF Chain, IsRow
  <2>4. \A k \in Ingredient : IsRow(k) /\ ~IsLive(k) => food[k].into \in Ingredient
    BY DEF Inv, CatalogTypeOK, FoodRow, IsRow, IsLive
  <2>5. IsRow(j)'
    <3>1. Chain(i) \subseteq {i} \cup {k \in Ingredient : IsRow(k) /\ food[k].by = None}
      <4> DEFINE S == {i} \cup {k \in Ingredient : IsRow(k) /\ food[k].by = None}
      <4>1. S \in SUBSET {k \in Ingredient : food[k] # None}
        BY <2>1 DEF IsRow
      <4>2. \A k \in S : IsLive(k) \/ food[k].into \in S
        BY <2>1, <2>4 DEF Inv, Pointers
      <4> QED
        BY <4>1, <4>2 DEF Chain
    <3> QED
      BY <2>2, <2>3, <3>1
  <2>6. IsLive(j)'
    BY <2>2, <2>3, <2>5 DEF IsLive
  <2>7. ASSUME NEW S \in SUBSET {k \in Ingredient : food'[k] # None}, i \in S,
               \A k \in S : IsLive(k)' \/ food'[k].into \in S
        PROVE  j \in S
    <3> DEFINE T == {k \in S : IsRow(k)}
    <3>1. T \in SUBSET {k \in Ingredient : food[k] # None} /\ i \in T
      BY <2>1, <2>7 DEF IsRow
    <3>2. ASSUME NEW k \in T, ~IsLive(k) PROVE food[k].into \in T
      <4>1. k \in Ingredient /\ IsRow(k) /\ IsRow(k)' /\ food'[k].into = food[k].into
        BY DEF IsRow
      <4>2. food[k].into \in S
        BY <2>7, <3>2, <4>1 DEF IsLive
      <4>3. IsRow(food[k].into)
        BY <3>2, <4>1 DEF Inv, Pointers
      <4> QED
        BY <4>2, <4>3
    <3>3. j \in T
      BY <2>2, <3>1, <3>2 DEF Chain
    <3> QED
      BY <3>3
  <2>8. j \in Chain(i)'
    BY <2>3, <2>5, <2>7 DEF Chain, IsRow
  <2> QED
    BY <2>6, <2>8
<1> QED
  BY <1>1, <1>2

\* Merging one live row into another leaves every chain an end.
LEMMA ChainsMerged ==
  ASSUME Inv, ChainsEnd, NEW a \in Ingredient, NEW b \in Ingredient, a # b,
         IsRow(a), IsRow(b), IsLive(a), IsLive(b), food' = [food EXCEPT ![a].into = b]
  PROVE  ChainsEnd'
<1>1. food \in [Ingredient -> FoodRow \cup {None}] /\ food[a] \in FoodRow
  BY DEF Inv, CatalogTypeOK, IsRow
<1>2. \A k \in Ingredient \ {a} : food'[k] = food[k]
  BY <1>1
<1>3. food'[a] = [food[a] EXCEPT !.into = b]
  BY <1>1
<1>4. food'[a] \in FoodRow /\ food'[a].into = b
  BY <1>1, <1>3 DEF FoodRow
<1>5. food'[a] # None /\ ~IsLive(a)' /\ IsLive(b)' /\ IsRow(b)'
  BY <1>2, <1>4, CatalogRowAssumption, CatalogAssumption DEF IsLive, IsRow
<1>6. \A k \in Ingredient : food'[k] # None <=> food[k] # None
  BY <1>2, <1>5 DEF IsRow
<1> SUFFICES ASSUME NEW i \in Ingredient, IsRow(i) PROVE \E j \in Chain(i)' : IsLive(j)'
  BY <1>6 DEF ChainsEnd, IsRow
<1>7. PICK j \in Chain(i) : IsLive(j)
  BY DEF ChainsEnd
<1>8. j \in Ingredient /\ IsRow(j)
  BY DEF Chain, IsRow
<1>9. ASSUME NEW S \in SUBSET {k \in Ingredient : food'[k] # None}, i \in S,
             \A k \in S : IsLive(k)' \/ food'[k].into \in S
      PROVE  j \in S /\ (a \in S => b \in S)
  <2>1. S \in SUBSET {k \in Ingredient : food[k] # None}
    BY <1>6
  <2>2. \A k \in S : IsLive(k) \/ food[k].into \in S
    BY <1>2, <1>9 DEF IsLive
  <2>3. j \in S
    BY <1>7, <1>9, <2>1, <2>2 DEF Chain
  <2>4. a \in S => b \in S
    BY <1>4, <1>5, <1>9
  <2> QED
    BY <2>3, <2>4
<1>10. CASE j = a
  <2>1. b \in Chain(i)'
    BY <1>5, <1>9, <1>10 DEF Chain, IsRow
  <2> QED
    BY <1>5, <2>1
<1>11. CASE j # a
  <2>1. j \in Chain(i)'
    BY <1>6, <1>8, <1>9 DEF Chain, IsRow
  <2>2. IsLive(j)'
    BY <1>2, <1>7, <1>8, <1>11 DEF IsLive
  <2> QED
    BY <2>1, <2>2
<1> QED
  BY <1>10, <1>11

-----------------------------------------------------------------------------
(* Saves *)

\* An empty catalog.
LEMMA InvInit == CatalogInit => Inv
<1> SUFFICES ASSUME CatalogInit PROVE Inv
  OBVIOUS
<1>1. \A i \in Ingredient : ~IsRow(i)
  BY DEF CatalogInit, IsRow
<1>2. CatalogTypeOK
  BY DEF CatalogInit, CatalogTypeOK
<1>3. Pending /\ Pointers /\ TwinFree
  BY <1>1 DEF Pending, Pointers, TwinFree, NoTwins, IsRow
<1>4. Informed /\ LinkedLive
  BY DEF CatalogInit, Informed, LinkedLive
<1>5. AliasesOnLive /\ LinesOnLive /\ ChainsEnd
  BY <1>1 DEF CatalogInit, AliasesOnLive, LinesOnLive, ChainsEnd
<1> QED
  BY <1>2, <1>3, <1>4, <1>5 DEF Inv, MergesTraced

\* A step that changes only saves: what it must show of the save it changes.
LEMMA SaveKeeps ==
  ASSUME Inv, NEW s \in Save, NEW row \in SaveRow, save' = [save EXCEPT ![s] = row],
         UNCHANGED <<food, alias, lines>>,
         row.got \subseteq Visible(s), row.corpus # None => Known(s, row.corpus),
         ~MergeIntoMerged /\ ~row.raced => \A i \in row.got : IsLive(i)
  PROVE  Inv'
<1>1. save \in [Save -> SaveRow \cup {None}] /\ row # None
  BY CatalogRowAssumption DEF Inv, CatalogTypeOK
<1>2. save'[s] = row /\ \A o \in Save \ {s} : save'[o] = save[o]
  BY <1>1
<1>3. CatalogTypeOK'
  BY <1>1 DEF Inv, CatalogTypeOK
<1>4. Pending'
  BY <1>1, <1>2 DEF Inv, Pending, IsRow, IsLive, CatalogTypeOK, FoodRow
<1>5. Pointers' /\ TwinFree'
  BY DEF Inv, Pointers, TwinFree, NoTwins, IsRow, IsLive
<1>6. Informed'
  BY <1>2 DEF Inv, Informed, Known, Visible, IsRow
<1>7. MergesTraced'
  <2>1. AliasesOnLive => AliasesOnLive'
    BY DEF AliasesOnLive, IsLive
  <2>2. LinesOnLive => LinesOnLive'
    BY DEF LinesOnLive, IsLive
  <2>3. ChainsEnd => ChainsEnd'
    BY DEF ChainsEnd, Chain, IsLive, IsRow
  <2>4. LinkedLive /\ ~MergeIntoMerged => LinkedLive'
    BY <1>2 DEF LinkedLive, IsLive
  <2> QED
    BY <2>1, <2>2, <2>3, <2>4 DEF Inv, MergesTraced
<1> QED
  BY <1>3, <1>4, <1>5, <1>6, <1>7 DEF Inv

\* A save begins with nothing linked, but a row of its own may be in the table only while
\* it is open.
LEMMA BeginKeeps == ASSUME Inv, NEW s \in Save, BeginSave(s) PROVE Inv'
<1>1. PICK d \in Dish, names \in SUBSET Food :
        save' = [save EXCEPT ![s] =
                   [dish |-> d, todo |-> names, corpus |-> None, got |-> {}, raced |-> FALSE]]
  BY DEF BeginSave
<1> DEFINE row == [dish |-> d, todo |-> names, corpus |-> None, got |-> {}, raced |-> FALSE]
<1>2. {} \in SUBSET Ingredient /\ FALSE \in BOOLEAN /\ None \in (SUBSET (Food \X Ingredient)) \cup {None}
  OBVIOUS
<1>3. UNCHANGED <<food, alias, lines>>
  BY DEF BeginSave
<1>4. row \in SaveRow
  BY <1>2, Zenon DEF SaveRow
<1> QED
  BY <1>1, <1>3, <1>4, SaveKeeps

\* What a save knows, read now or before.
LEMMA CorpusKnown == ASSUME Inv, NEW s \in Save, save[s] # None PROVE Known(s, Corpus(s))
<1>1. CASE save[s].corpus # None
  BY <1>1 DEF Corpus, Inv, Informed
<1>2. CASE save[s].corpus = None
  <2>1. Corpus(s) = Loaded(s)
    BY <1>2 DEF Corpus
  <2>2. Loaded(s) \subseteq Food \X Ingredient /\ \A e \in Loaded(s) : e[2] \in Visible(s)
    BY DEF Loaded, Visible
  <2>3. ASSUME NEW i \in Ingredient, IsRow(i), food[i].by = s PROVE <<food[i].name, i>> \in Loaded(s)
    <3>1. IsLive(i) /\ i \in Visible(s) /\ food[i].name \in Food
      BY <2>3, CatalogAssumption DEF Inv, Pending, Visible, IsRow, CatalogTypeOK, FoodRow
    <3> QED
      BY <3>1 DEF Loaded
  <2> QED
    BY <2>1, <2>2, <2>3 DEF Known
<1> QED
  BY <1>1, <1>2

\* A line links to a row the save sees.
LEMMA LinkKeeps ==
  ASSUME Inv, NEW s \in Save, save[s] # None, NEW f, NEW i \in Visible(s), NEW corpus,
         corpus = None \/ Known(s, corpus), ~MergeIntoMerged => IsLive(i),
         Link(s, f, i, corpus), UNCHANGED <<food, alias, lines>>
  PROVE  Inv'
<1>1. save \in [Save -> SaveRow \cup {None}] /\ save[s] \in SaveRow
  BY DEF Inv, CatalogTypeOK
<1> DEFINE row == [dish |-> save[s].dish, todo |-> save[s].todo \ {f}, corpus |-> corpus,
                   got |-> save[s].got \cup {i}, raced |-> save[s].raced]
<1>2. save' = [save EXCEPT ![s] = row]
  <2>1. save' = [save EXCEPT ![s] = [[[save[s] EXCEPT !.todo = @ \ {f}] EXCEPT !.got = @ \cup {i}]
                                       EXCEPT !.corpus = corpus]]
    BY <1>1 DEF Link
  <2> DEFINE r == save[s]
             todo == [dish |-> r.dish, todo |-> r.todo \ {f}, corpus |-> r.corpus, got |-> r.got, raced |-> r.raced]
             got == [dish |-> r.dish, todo |-> r.todo \ {f}, corpus |-> r.corpus, got |-> r.got \cup {i},
                     raced |-> r.raced]
  <2>2. r \in SaveRow
    BY <1>1
  <2>3. [r EXCEPT !.todo = @ \ {f}] = todo
    <3> HIDE DEF r
    <3>1. \A x : [r EXCEPT !.todo = x] =
            [dish |-> r.dish, todo |-> x, corpus |-> r.corpus, got |-> r.got, raced |-> r.raced]
      BY <2>2 DEF SaveRow
    <3> QED
      BY <3>1
  <2>4. [todo EXCEPT !.got = @ \cup {i}] = got
    OBVIOUS
  <2>5. [got EXCEPT !.corpus = corpus] = row
    OBVIOUS
  <2> QED
    BY <2>1, <2>3, <2>4, <2>5
<1>3. row \in SaveRow
  <2>1. /\ save[s].dish \in Dish /\ save[s].todo \ {f} \in SUBSET Food
        /\ save[s].got \cup {i} \in SUBSET Ingredient /\ save[s].raced \in BOOLEAN
    BY <1>1 DEF SaveRow, Visible
  <2>2. corpus \in (SUBSET (Food \X Ingredient)) \cup {None}
    BY DEF Known
  <2> QED
    BY <2>1, <2>2, Zenon DEF SaveRow
<1>4. row.got \subseteq Visible(s) /\ (row.corpus # None => Known(s, row.corpus))
  BY DEF Inv, Informed
<1>5. ~MergeIntoMerged /\ ~row.raced => \A j \in row.got : IsLive(j)
  BY DEF Inv, MergesTraced, LinkedLive
<1> QED
  BY <1>2, <1>3, <1>4, <1>5, SaveKeeps

\* match(), and a close or a near name: the target is live and visible.
LEMMA MatchKeeps == ASSUME Inv, NEW s \in Save, LinkExact(s) \/ LinkFuzzy(s) PROVE Inv'
<1>1. save[s] # None /\ UNCHANGED <<food, alias, lines>>
  BY DEF LinkExact, LinkFuzzy
<1>2. PICK f \in save[s].todo, i \in Visible(s), corpus \in {save[s].corpus, Corpus(s)} :
        /\ Target(i) # None /\ Link(s, f, Target(i), corpus)
        /\ corpus = None \/ Known(s, corpus)
  <2>1. CASE LinkExact(s)
    <3>1. PICK f \in save[s].todo : \E i \in Hits(s, f) :
            Target(i) # None /\ Link(s, f, Target(i), save[s].corpus)
      BY <2>1 DEF LinkExact
    <3>2. Hits(s, f) \subseteq Visible(s)
      BY DEF Hits
    <3>3. save[s].corpus = None \/ Known(s, save[s].corpus)
      BY <1>1 DEF Inv, Informed
    <3> QED
      BY <3>1, <3>2, <3>3
  <2>2. CASE LinkFuzzy(s)
    <3>1. PICK f \in save[s].todo, e \in Corpus(s) :
            Target(e[2]) # None /\ Link(s, f, Target(e[2]), Corpus(s))
      BY <2>2 DEF LinkFuzzy, Candidates
    <3>2. e[2] \in Visible(s)
      BY <1>1, CorpusKnown DEF Known
    <3> QED
      BY <1>1, <3>1, <3>2, CorpusKnown
  <2> QED
    BY <2>1, <2>2
<1>3. Target(i) \in Visible(s) /\ IsLive(Target(i))
  BY <1>2, TargetVisible
<1> QED
  BY <1>1, <1>2, <1>3, LinkKeeps

\* Where merges are into live rows, a name that is stored is matched.
LEMMA StoredMatches ==
  ASSUME Inv, ~MergeIntoMerged, NEW s, NEW f, NEW i \in Visible(s), food[i].name = f
  PROVE  ~Unmatched(s, f)
<1>1. Hits(s, f) # {} /\ Hits(s, f) \subseteq Visible(s)
  BY DEF Hits
<1>2. ASSUME NEW h \in Visible(s) PROVE Target(h) # None
  <2>1. h \in Ingredient /\ \E j \in Chain(h) : IsLive(j)
    BY DEF Visible, Inv, MergesTraced, ChainsEnd, IsRow
  <2> QED
    BY <2>1, TargetThere
<1> QED
  BY <1>1, <1>2 DEF Unmatched

\* FuzzyCorpus.add keeps what is known.
LEMMA AddedKnown ==
  ASSUME NEW s, NEW corpus, Known(s, corpus), NEW f \in Food, NEW i \in Visible(s)
  PROVE  Known(s, Added(corpus, f, i))
<1>1. Added(corpus, f, i) \in {corpus, corpus \cup {<<f, i>>}}
  BY DEF Added
<1>2. i \in Ingredient
  BY DEF Visible
<1> QED
  BY <1>1, <1>2 DEF Known

\* A save creates a row: it has found nothing close in what it knows, and from now on knows
\* the row.
LEMMA CreatedKeeps ==
  ASSUME Inv, NEW s \in Save, save[s] # None, NEW f \in Food, Uncertain(s, f),
         NEW i \in Ingredient, ~IsRow(i),
         food' = [food EXCEPT ![i] = [name |-> f, into |-> None, by |-> s]],
         alias' = alias \cup {<<f, i>>}, lines' = lines,
         Link(s, f, i, Added(Corpus(s), f, i))
  PROVE  Inv'
<1> DEFINE new == [name |-> f, into |-> None, by |-> s]
<1>0. PICK corpus : corpus = Added(Corpus(s), f, i)
  OBVIOUS
<1>1. /\ save \in [Save -> SaveRow \cup {None}] /\ save[s] \in SaveRow
      /\ food \in [Ingredient -> FoodRow \cup {None}]
      /\ Known(s, Corpus(s))
  BY CorpusKnown DEF Inv, CatalogTypeOK
<1>2. new \in FoodRow /\ new # None /\ new.into = None /\ new.by = s /\ new.name = f /\ s # None
  BY CatalogRowAssumption, CatalogAssumption DEF FoodRow
<1>3. food'[i] = new /\ \A k \in Ingredient \ {i} : food'[k] = food[k]
  BY <1>1
<1>4. food' \in [Ingredient -> FoodRow \cup {None}]
  BY <1>1, <1>2
<1>5. corpus = Corpus(s) \cup {<<f, i>>}
  <2>1. \A e \in Corpus(s) : IsRow(e[2])
    BY <1>1 DEF Known, Visible, IsRow
  <2>2. ~\E e \in Corpus(s) : e[2] = i
    BY <2>1
  <2> QED
    BY <1>0, <2>2 DEF Added
<1> HIDE DEF new
<1>6. /\ save'[s].got = save[s].got \cup {i} /\ save'[s].corpus = corpus
      /\ save'[s].raced = save[s].raced
      /\ \A o \in Save \ {s} : save'[o] = save[o]
  BY <1>0, <1>1 DEF Link, SaveRow
<1>7. save'[s] \in SaveRow /\ save'[s] # None /\ save' \in [Save -> SaveRow \cup {None}]
  <2>1. corpus \in (SUBSET (Food \X Ingredient)) \cup {None}
    BY <1>1, <1>5 DEF Known
  <2>2. save'[s].dish = save[s].dish /\ save'[s].todo = save[s].todo \ {f}
    BY <1>1 DEF Link, SaveRow
  <2>3. save'[s] = [dish |-> save'[s].dish, todo |-> save'[s].todo, corpus |-> save'[s].corpus,
                    got |-> save'[s].got, raced |-> save'[s].raced]
    BY <1>1 DEF Link, SaveRow
  <2>4. /\ save'[s].dish \in Dish /\ save'[s].todo \in SUBSET Food
        /\ save'[s].got \in SUBSET Ingredient /\ save'[s].raced \in BOOLEAN
    BY <1>1, <1>6, <2>2 DEF SaveRow
  <2>5. save'[s].corpus \in (SUBSET (Food \X Ingredient)) \cup {None}
    BY <1>6, <2>1
  <2>6. save'[s] \in SaveRow
    BY <2>3, <2>4, <2>5, Zenon DEF SaveRow
  <2>7. save' \in [Save -> SaveRow \cup {None}]
    BY <1>1, <1>6, <2>6 DEF Link
  <2> QED
    BY <2>6, <2>7, CatalogRowAssumption
<1>8. \A k \in Ingredient : IsRow(k) => IsRow(k)' /\ food'[k] = food[k]
  BY <1>3 DEF IsRow
<1>9. IsRow(i)' /\ IsLive(i)'
  BY <1>2, <1>3 DEF IsRow, IsLive
<1>10. CatalogTypeOK'
  BY <1>3, <1>4, <1>7, <1>8, <1>9 DEF Inv, CatalogTypeOK, IsRow
<1>11. Pending'
  <2>1. ASSUME NEW k \in Ingredient, k # i, IsRow(k)', food'[k].by # None
        PROVE  IsLive(k)' /\ save'[food'[k].by] # None
    <3>1. IsRow(k) /\ food'[k] = food[k] /\ food[k].by \in Save
      BY <1>1, <1>3, <2>1 DEF IsRow, FoodRow
    <3>2. IsLive(k) /\ save[food[k].by] # None
      BY <2>1, <3>1 DEF Inv, Pending
    <3> QED
      BY <1>6, <1>7, <3>1, <3>2 DEF IsLive
  <2>2. save'[food'[i].by] # None
    BY <1>2, <1>3, <1>7
  <2> QED
    BY <1>9, <2>1, <2>2 DEF Pending
<1>12. Pointers'
  BY <1>1, <1>3, <1>8, <1>9 DEF Inv, Pointers, IsRow, IsLive, FoodRow
<1>13. Informed'
  <2>1. \A o : Visible(o) \subseteq Visible(o)'
    BY <1>8 DEF Visible, IsRow
  <2>2. ASSUME NEW o \in Save \ {s}, save[o] # None
        PROVE  save'[o].got \subseteq Visible(o)' /\ (save'[o].corpus # None => Known(o, save[o].corpus)')
    <3>1. save'[o] = save[o] /\ save[o].got \subseteq Visible(o)
      BY <1>6, <2>2 DEF Inv, Informed
    <3>2. ASSUME NEW c, Known(o, c) PROVE Known(o, c)'
      BY <1>2, <1>3, <2>1, <3>2 DEF Known, IsRow
    <3>3. PICK c : c = save[o].corpus
      OBVIOUS
    <3>4. c # None => Known(o, c)
      BY <2>2, <3>3 DEF Inv, Informed
    <3>5. c = save'[o].corpus
      BY <3>1, <3>3
    <3> QED
      BY <2>1, <3>1, <3>2, <3>4, <3>5
  <2>3. i \in Visible(s)'
    BY <1>2, <1>3, <1>9 DEF Visible, IsRow
  <2>4. save'[s].got \subseteq Visible(s)'
    BY <1>6, <2>1, <2>3 DEF Inv, Informed
  <2>5. Known(s, corpus)'
    BY <1>1, <1>2, <1>3, <1>5, <2>1, <2>3 DEF Known, IsRow
  <2> QED
    BY <1>6, <2>2, <2>4, <2>5 DEF Informed
<1>14. TwinFree'
  <2> SUFFICES ASSUME ~MergeIntoMerged PROVE NoTwins'
    BY DEF TwinFree
  <2>1. ASSUME NEW j \in Ingredient, IsRow(j), food[j].by = s
        PROVE  <<food[j].name, f>> \notin Close /\ <<f, food[j].name>> \notin Close
    <3>1. <<food[j].name, j>> \in Corpus(s)
      BY <1>1, <2>1 DEF Known
    <3>2. \A e \in Corpus(s) : e[2] \in Ingredient /\ IsRow(e[2])
      BY <1>1 DEF Known, Visible, IsRow
    <3>3. \A e \in Corpus(s) : Target(e[2]) # None
      BY <3>2, TargetThere DEF Inv, MergesTraced, ChainsEnd
    <3>4. <<f, food[j].name>> \notin Close
      <4>1. Candidates(s, f, Close) = {}
        BY <3>3 DEF Uncertain, Candidates
      <4> DEFINE e == <<food[j].name, j>>
      <4>2. e \in Corpus(s) /\ e[1] = food[j].name
        BY <3>1
      <4> HIDE DEF e
      <4>3. <<f, e[1]>> \notin Close
        BY <4>1, <4>2 DEF Candidates
      <4> QED  BY <4>2, <4>3
    <3>5. f \in Food /\ food[j].name \in Food
      BY <1>1, <2>1 DEF IsRow, FoodRow
    <3> QED
      BY <3>4, <3>5, CatalogAssumption
  <2>2. ASSUME NEW j \in Ingredient, NEW k \in Ingredient, j # k, IsRow(j)', IsRow(k)',
               food'[j].by # None, food'[j].by = food'[k].by
        PROVE  <<food'[j].name, food'[k].name>> \notin Close
    <3>1. CASE j = i
      BY <1>2, <1>3, <2>1, <2>2, <3>1 DEF IsRow
    <3>2. CASE k = i
      BY <1>2, <1>3, <2>1, <2>2, <3>2 DEF IsRow
    <3>3. CASE j # i /\ k # i
      BY <1>3, <2>2, <3>3 DEF Inv, TwinFree, NoTwins, IsRow
    <3> QED
      BY <3>1, <3>2, <3>3
  <2> QED
    BY <2>2 DEF NoTwins, IsRow
<1>15. MergesTraced'
  <2>1. AliasesOnLive => AliasesOnLive'
    BY <1>3, <1>9 DEF AliasesOnLive, IsLive, Inv, CatalogTypeOK, IsRow
  <2>2. LinesOnLive => LinesOnLive'
    BY <1>3, <1>9 DEF LinesOnLive, IsLive, Inv, CatalogTypeOK, IsRow
  <2>3. ChainsEnd => ChainsEnd'
    BY <1>8, <1>3, <1>9, ChainsKept DEF IsRow
  <2>4. LinkedLive => LinkedLive'
    BY <1>3, <1>6, <1>9 DEF LinkedLive, IsLive, Inv, Informed, Visible, IsRow
  <2> QED
    BY <2>1, <2>2, <2>3, <2>4 DEF Inv, MergesTraced
<1> QED
  BY <1>10, <1>11, <1>12, <1>13, <1>14, <1>15 DEF Inv

\* create_unreviewed.
LEMMA LinkCreatedKeeps == ASSUME Inv, NEW s \in Save, LinkCreated(s) PROVE Inv'
<1>1. PICK f \in save[s].todo :
        /\ Uncertain(s, f)
        /\ \/ /\ \E i \in Visible(s) : food[i].name = f /\ Link(s, f, i, Added(Corpus(s), f, i))
              /\ UNCHANGED <<food, alias>>
           \/ /\ \E i \in Ingredient : food[i] = None
              /\ LET i == CHOOSE j \in Ingredient : food[j] = None
                 IN  /\ food' = [food EXCEPT ![i] = [name |-> f, into |-> None, by |-> s]]
                     /\ alias' = alias \cup {<<f, i>>}
                     /\ Link(s, f, i, Added(Corpus(s), f, i))
  BY DEF LinkCreated
<1>2. save[s] # None /\ save[s] \in SaveRow /\ lines' = lines
  BY DEF LinkCreated, Inv, CatalogTypeOK
<1>3. f \in Food
  BY <1>2 DEF SaveRow
<1>4. ASSUME NEW i \in Visible(s), food[i].name = f, Link(s, f, i, Added(Corpus(s), f, i)),
             UNCHANGED <<food, alias>>
      PROVE  Inv'
  <2>1. Known(s, Added(Corpus(s), f, i))
    BY <1>2, <1>3, CorpusKnown, AddedKnown
  <2>2. ~MergeIntoMerged => IsLive(i)
    BY <1>1, <1>4, StoredMatches DEF Uncertain
  <2> QED
    BY <1>2, <1>4, <2>1, <2>2, LinkKeeps
<1>5. ASSUME \E i \in Ingredient : food[i] = None,
             LET i == CHOOSE j \in Ingredient : food[j] = None
             IN  /\ food' = [food EXCEPT ![i] = [name |-> f, into |-> None, by |-> s]]
                 /\ alias' = alias \cup {<<f, i>>}
                 /\ Link(s, f, i, Added(Corpus(s), f, i))
      PROVE  Inv'
  <2> DEFINE i == CHOOSE j \in Ingredient : food[j] = None
  <2>1. i \in Ingredient /\ ~IsRow(i)
    BY <1>5 DEF IsRow
  <2> HIDE DEF i
  <2>2. /\ food' = [food EXCEPT ![i] = [name |-> f, into |-> None, by |-> s]]
        /\ alias' = alias \cup {<<f, i>>}
        /\ Link(s, f, i, Added(Corpus(s), f, i))
    BY <1>5 DEF i
  <2> QED
    BY <1>1, <1>2, <1>3, <2>1, <2>2, CreatedKeeps
<1> QED
  BY <1>1, <1>4, <1>5

\* The rows of a save become committed, and its links those of the recipe.
LEMMA SaveCommits == ASSUME Inv, NEW s \in Save, CommitSave(s) PROVE Inv'
<1>1. /\ save[s] # None /\ save[s] \in SaveRow /\ alias' = alias /\ save' = [save EXCEPT ![s] = None]
      /\ save \in [Save -> SaveRow \cup {None}] /\ lines \in [Dish -> [at : SUBSET Ingredient, raced : BOOLEAN]]
      /\ food \in [Ingredient -> FoodRow \cup {None}]
  BY DEF CommitSave, Inv, CatalogTypeOK
<1>2. save'[s] = None /\ \A o \in Save \ {s} : save'[o] = save[o]
  BY <1>1
<1>3. s # None /\ save[s].dish \in Dish /\ save[s].got \subseteq Ingredient /\ save[s].raced \in BOOLEAN
  BY <1>1, CatalogAssumption DEF SaveRow
<1>4. \A i \in Ingredient :
        food'[i] = IF IsRow(i) /\ food[i].by = s THEN [food[i] EXCEPT !.by = None] ELSE food[i]
  BY DEF CommitSave, IsRow
<1>5. ASSUME NEW i \in Ingredient
      PROVE  /\ food'[i] \in FoodRow \cup {None}
             /\ IsRow(i)' <=> IsRow(i)
             /\ IsRow(i) => /\ food'[i].name = food[i].name /\ food'[i].into = food[i].into
                            /\ food'[i].by = IF food[i].by = s THEN None ELSE food[i].by
  <2>1. CASE IsRow(i) /\ food[i].by = s
    <3>1. food[i] \in FoodRow
      BY <1>1, <2>1 DEF IsRow
    <3>2. food'[i] = [name |-> food[i].name, into |-> food[i].into, by |-> None]
      BY <1>4, <2>1, <3>1 DEF FoodRow
    <3>3. food'[i] \in FoodRow /\ food'[i] # None
      BY <3>1, <3>2, CatalogRowAssumption DEF FoodRow
    <3> QED
      BY <2>1, <3>2, <3>3 DEF IsRow
  <2>2. CASE ~(IsRow(i) /\ food[i].by = s)
    BY <1>1, <1>4, <2>2 DEF IsRow
  <2> QED
    BY <2>1, <2>2
<1>6. food' \in [Ingredient -> FoodRow \cup {None}]
  BY <1>5 DEF CommitSave
<1>7. /\ lines'[save[s].dish] = [at |-> save[s].got, raced |-> save[s].raced]
      /\ \A d \in Dish \ {save[s].dish} : lines'[d] = lines[d]
      /\ lines' \in [Dish -> [at : SUBSET Ingredient, raced : BOOLEAN]]
  BY <1>1, <1>3 DEF CommitSave
<1>8. save[s].got \subseteq Visible(s)
  BY <1>1 DEF Inv, Informed
<1>9. CatalogTypeOK'
  <2>1. save' \in [Save -> SaveRow \cup {None}]
    BY <1>1
  <2>2. \A p \in alias' : food'[p[2]] # None
    BY <1>1, <1>5 DEF Inv, CatalogTypeOK, IsRow
  <2>3. \A d \in Dish : \A i \in lines'[d].at : food'[i] # None /\ food'[i].by = None
    BY <1>3, <1>5, <1>7, <1>8, <1>1 DEF Inv, CatalogTypeOK, Visible, IsRow
  <2> QED
    BY <1>1, <1>6, <1>7, <2>1, <2>2, <2>3 DEF Inv, CatalogTypeOK
<1>10. Pending'
  BY <1>1, <1>2, <1>3, <1>5 DEF Inv, Pending, IsRow, IsLive, FoodRow
<1>11. Pointers'
  BY <1>1, <1>5 DEF Inv, Pointers, IsRow, IsLive, FoodRow
<1>12. Informed'
  <2>1. ASSUME NEW o \in Save \ {s} PROVE Visible(o) \subseteq Visible(o)'
    BY <1>3, <1>5 DEF Visible, IsRow
  <2>2. ASSUME NEW o \in Save \ {s}, NEW c, Known(o, c) PROVE Known(o, c)'
    BY <1>5, <2>1, <2>2, CatalogAssumption DEF Known, IsRow
  <2>3. ASSUME NEW o \in Save, save'[o] # None
        PROVE  save[o].got \subseteq Visible(o)' /\ (save[o].corpus # None => Known(o, save[o].corpus)')
    <3>1. o # s /\ save[o] # None
      BY <1>2, <2>3
    <3>2. PICK c : c = save[o].corpus
      OBVIOUS
    <3>3. c # None => Known(o, c)
      BY <3>1, <3>2 DEF Inv, Informed
    <3>4. c = save'[o].corpus
      BY <1>2, <3>1, <3>2
    <3> QED
      BY <1>2, <2>1, <2>2, <3>1, <3>2, <3>3, <3>4 DEF Inv, Informed
  <2> QED
    BY <1>2, <2>3 DEF Informed
<1>13. TwinFree'
  BY <1>5 DEF Inv, TwinFree, NoTwins, IsRow
<1>14. MergesTraced'
  <2>0. \A i \in Ingredient : IsRow(i) => (IsLive(i)' <=> IsLive(i))
    BY <1>5 DEF IsLive
  <2>1. AliasesOnLive => AliasesOnLive'
    BY <1>1, <2>0 DEF AliasesOnLive, Inv, CatalogTypeOK, IsRow
  <2>2. LinesOnLive /\ LinkedLive => LinesOnLive'
    BY <1>1, <1>3, <1>7, <1>8, <2>0 DEF LinesOnLive, LinkedLive, Inv, CatalogTypeOK, IsRow, Visible
  <2>3. ChainsEnd => ChainsEnd'
    BY <1>5, ChainsKept
  <2>4. LinkedLive => LinkedLive'
    BY <1>2, <2>0 DEF LinkedLive, Inv, Informed, Visible, IsRow
  <2> QED
    BY <2>1, <2>2, <2>3, <2>4 DEF Inv, MergesTraced
<1> QED
  BY <1>9, <1>10, <1>11, <1>12, <1>13, <1>14 DEF Inv

\* The rows of a save that fails go, and with them their aliases.  Nobody else has seen them.
LEMMA FailKeeps == ASSUME Inv, NEW s \in Save, FailSave(s) PROVE Inv'
<1> DEFINE mine == {i \in Ingredient : food[i] # None /\ food[i].by = s}
<1>1. /\ food' = [i \in Ingredient |-> IF i \in mine THEN None ELSE food[i]]
      /\ alias' = {p \in alias : p[2] \notin mine}
      /\ save' = [save EXCEPT ![s] = None] /\ lines' = lines /\ s # None
      /\ save \in [Save -> SaveRow \cup {None}]
      /\ food \in [Ingredient -> FoodRow \cup {None}]
  BY CatalogAssumption DEF FailSave, Inv, CatalogTypeOK
<1>2. save'[s] = None /\ \A o \in Save \ {s} : save'[o] = save[o]
  BY <1>1
<1>3. \A i \in Ingredient : food'[i] = food[i] \/ food'[i] = None
  BY <1>1
<1>4. \A i \in Ingredient : IsRow(i)' <=> IsRow(i) /\ food[i].by # s
  BY <1>1 DEF IsRow
<1>5. \A i \in Ingredient : IsRow(i)' => food'[i] = food[i]
  BY <1>3 DEF IsRow
<1>6. CatalogTypeOK'
  <2>1. food' \in [Ingredient -> FoodRow \cup {None}] /\ save' \in [Save -> SaveRow \cup {None}]
    BY <1>1
  <2>2. alias' \subseteq alias /\ \A p \in alias' : food'[p[2]] # None
    BY <1>1 DEF Inv, CatalogTypeOK
  <2>3. \A d \in Dish : \A i \in lines[d].at : food'[i] # None /\ food'[i].by = None
    BY <1>1 DEF Inv, CatalogTypeOK
  <2> QED
    BY <1>1, <2>1, <2>2, <2>3 DEF Inv, CatalogTypeOK
<1>7. Pending'
  BY <1>1, <1>2, <1>4, <1>5 DEF Inv, Pending, IsRow, IsLive, FoodRow
<1>8. Pointers'
  BY <1>1, <1>4, <1>5 DEF Inv, Pointers, IsRow, IsLive, FoodRow
<1>9. Informed'
  <2>1. ASSUME NEW o \in Save \ {s} PROVE Visible(o) \subseteq Visible(o)'
    BY <1>1, <1>4, <1>5 DEF Visible, IsRow
  <2>2. ASSUME NEW o \in Save \ {s}, NEW c, Known(o, c) PROVE Known(o, c)'
    BY <1>4, <1>5, <2>1, <2>2 DEF Known, IsRow
  <2>3. ASSUME NEW o \in Save, save'[o] # None
        PROVE  save[o].got \subseteq Visible(o)' /\ (save[o].corpus # None => Known(o, save[o].corpus)')
    <3>1. o # s /\ save[o] # None
      BY <1>2, <2>3
    <3>2. PICK c : c = save[o].corpus
      OBVIOUS
    <3>3. c # None => Known(o, c)
      BY <3>1, <3>2 DEF Inv, Informed
    <3>4. c = save'[o].corpus
      BY <1>2, <3>1, <3>2
    <3> QED
      BY <1>2, <2>1, <2>2, <3>1, <3>2, <3>3, <3>4 DEF Inv, Informed
  <2> QED
    BY <1>2, <2>3 DEF Informed
<1>10. TwinFree'
  BY <1>4, <1>5 DEF Inv, TwinFree, NoTwins, IsRow
<1>11. MergesTraced'
  <2>1. AliasesOnLive => AliasesOnLive'
    BY <1>1, <1>4, <1>5 DEF AliasesOnLive, IsLive, Inv, CatalogTypeOK, IsRow
  <2>2. LinesOnLive => LinesOnLive'
    BY <1>1, <1>4, <1>5 DEF LinesOnLive, IsLive, Inv, CatalogTypeOK, IsRow
  <2>3. ChainsEnd => ChainsEnd'
    BY <1>1, <1>4, <1>5, ChainsKept
  <2>4. LinkedLive => LinkedLive'
    <3>1. ASSUME NEW o \in Save \ {s}, save[o] # None, NEW i \in save[o].got PROVE IsRow(i)' /\ food'[i] = food[i]
      BY <1>1, <1>4, <1>5, <3>1 DEF Inv, Informed, Visible, IsRow
    <3> QED
      BY <1>2, <3>1 DEF LinkedLive, IsLive
  <2> QED
    BY <2>1, <2>2, <2>3, <2>4 DEF Inv, MergesTraced
<1> QED
  BY <1>6, <1>7, <1>8, <1>9, <1>10, <1>11 DEF Inv

-----------------------------------------------------------------------------
(* Administrators and deployments *)

\* A merge of live rows: aliases and lines move with the pointer, and chains still end.  Of
\* any merge, at least what saves have created is left alone.
LEMMA MergeKeeps == ASSUME Inv, Merge PROVE Inv'
<1>1. PICK a \in Ingredient, b \in Ingredient :
        /\ Mergeable(a, b)
        /\ food' = [food EXCEPT ![a].into = b]
        /\ alias' = {<<p[1], IF p[2] = a THEN b ELSE p[2]>> : p \in alias} \cup {<<food[a].name, b>>}
        /\ lines' = Repointed(a, b)
        /\ save' = [s \in Save |-> IF save[s] = None THEN None ELSE [save[s] EXCEPT !.raced = TRUE]]
  BY DEF Merge
<1>2. /\ a # b /\ IsRow(a) /\ IsRow(b) /\ food[a].by = None /\ food[b].by = None /\ IsLive(a)
      /\ ~MergeIntoMerged => IsLive(b)
  BY <1>1 DEF Mergeable, Visible, IsRow
<1>3. /\ food \in [Ingredient -> FoodRow \cup {None}] /\ food[a] \in FoodRow
      /\ save \in [Save -> SaveRow \cup {None}] /\ alias \subseteq Food \X Ingredient
      /\ lines \in [Dish -> [at : SUBSET Ingredient, raced : BOOLEAN]]
  BY <1>2 DEF Inv, CatalogTypeOK, IsRow
<1>4. \A k \in Ingredient \ {a} : food'[k] = food[k]
  BY <1>1, <1>3
<1>5. /\ food'[a] = [name |-> food[a].name, into |-> b, by |-> food[a].by]
      /\ food'[a] \in FoodRow /\ food'[a] # None
  <2>1. food'[a] = [name |-> food[a].name, into |-> b, by |-> food[a].by]
    BY <1>1, <1>3 DEF FoodRow
  <2> QED
    BY <1>3, <2>1, CatalogRowAssumption DEF FoodRow
<1>6. /\ food' \in [Ingredient -> FoodRow \cup {None}]
      /\ \A k \in Ingredient : IsRow(k)' <=> IsRow(k)
      /\ \A k \in Ingredient : food'[k].name = food[k].name /\ food'[k].by = food[k].by
      /\ \A k \in Ingredient : k # a => (IsLive(k)' <=> IsLive(k))
  BY <1>1, <1>2, <1>3, <1>4, <1>5 DEF IsRow, IsLive
<1>7. ASSUME NEW s \in Save
      PROVE  /\ save'[s] \in SaveRow \cup {None}
             /\ save'[s] = None <=> save[s] = None
             /\ save[s] # None => /\ save'[s].got = save[s].got /\ save'[s].corpus = save[s].corpus
                                  /\ save'[s].raced = TRUE
  <2>1. CASE save[s] = None
    BY <1>1, <2>1
  <2>2. CASE save[s] # None
    <3> DEFINE r == save[s]
    <3>1. save'[s] = [r EXCEPT !.raced = TRUE] /\ r \in SaveRow
      BY <1>1, <1>3, <2>2
    <3> HIDE DEF r
    <3>2. save'[s] = [dish |-> r.dish, todo |-> r.todo, corpus |-> r.corpus, got |-> r.got, raced |-> TRUE]
      BY <3>1 DEF SaveRow
    <3>3. /\ r.dish \in Dish /\ r.todo \in SUBSET Food /\ r.got \in SUBSET Ingredient /\ TRUE \in BOOLEAN
          /\ r.corpus \in (SUBSET (Food \X Ingredient)) \cup {None}
      BY <3>1 DEF SaveRow
    <3>4. save'[s] \in SaveRow
      BY <3>2, <3>3 DEF SaveRow
    <3>5. save'[s] # None
      BY <3>4, CatalogRowAssumption
    <3>6. save'[s].got = r.got
      BY <3>2
    <3>7. save'[s].corpus = r.corpus
      BY <3>2
    <3>8. save'[s].raced = TRUE
      BY <3>2
    <3> QED
      BY <2>2, <3>4, <3>5, <3>6, <3>7, <3>8 DEF r
  <2> QED
    BY <2>1, <2>2
<1>8. /\ alias' \subseteq Food \X Ingredient
      /\ \A p \in alias' : p[2] = b \/ (p[2] # a /\ p \in alias)
  <2>1. food[a].name \in Food
    BY <1>3 DEF FoodRow
  <2>2. ASSUME NEW p \in alias
        PROVE  LET q == <<p[1], IF p[2] = a THEN b ELSE p[2]>>
               IN  q \in Food \X Ingredient /\ (q[2] = b \/ (q[2] # a /\ q \in alias))
    BY <1>2, <1>3
  <2> QED
    BY <1>1, <1>2, <2>1, <2>2
<1>9. ASSUME NEW d \in Dish
      PROVE  /\ lines'[d] \in [at : SUBSET Ingredient, raced : BOOLEAN]
             /\ lines'[d].raced = lines[d].raced
             /\ \A i \in lines'[d].at : i = b \/ (i # a /\ i \in lines[d].at)
  <2>1. lines[d] \in [at : SUBSET Ingredient, raced : BOOLEAN]
    BY <1>3
  <2>2. CASE a \in lines[d].at
    <3>1. lines'[d] = [at |-> (lines[d].at \ {a}) \cup {b}, raced |-> lines[d].raced]
      BY <1>1, <2>1, <2>2 DEF Repointed
    <3> QED
      BY <1>2, <2>1, <3>1
  <2>3. CASE a \notin lines[d].at
    BY <1>1, <2>1, <2>3 DEF Repointed
  <2> QED
    BY <2>2, <2>3
<1>10. CatalogTypeOK'
  <2>1. save' \in [Save -> SaveRow \cup {None}]
    BY <1>1, <1>7
  <2>2. lines' \in [Dish -> [at : SUBSET Ingredient, raced : BOOLEAN]]
    BY <1>1, <1>9 DEF Repointed
  <2>3. \A p \in alias' : food'[p[2]] # None
    BY <1>2, <1>4, <1>6, <1>8 DEF Inv, CatalogTypeOK, IsRow
  <2>4. \A d \in Dish : \A i \in lines'[d].at : food'[i] # None /\ food'[i].by = None
    BY <1>2, <1>4, <1>6, <1>9 DEF Inv, CatalogTypeOK, IsRow
  <2> QED
    BY <1>6, <1>8, <2>1, <2>2, <2>3, <2>4 DEF CatalogTypeOK
<1>11. Pending'
  <2>1. ASSUME NEW k \in Ingredient, IsRow(k), food[k].by # None
        PROVE  IsLive(k)' /\ save'[food[k].by] # None
    <3>1. k # a /\ IsLive(k) /\ save[food[k].by] # None /\ food[k].by \in Save
      BY <1>2, <1>3, <2>1 DEF Inv, Pending, IsRow, FoodRow
    <3> QED
      BY <1>6, <1>7, <3>1
  <2> QED
    BY <1>6, <2>1 DEF Pending
<1>12. Pointers'
  <2>1. IsRow(food[a].into)' /\ food'[food'[a].into].by = None
    BY <1>2, <1>4, <1>5 DEF IsRow
  <2>2. ASSUME NEW i \in Ingredient \ {a}, IsRow(i), ~IsLive(i)
        PROVE  IsRow(food[i].into)' /\ food'[food'[i].into].by = None
    <3>1. food'[i].into \in Ingredient /\ food'[i].into = food[i].into
      BY <1>3, <1>4, <2>2 DEF IsRow, IsLive, FoodRow
    <3> QED
      BY <1>6, <2>2, <3>1 DEF Inv, Pointers, IsRow
  <2> QED
    BY <1>6, <2>1, <2>2 DEF Pointers
<1>13. Informed'
  <2>1. \A s : Visible(s)' = Visible(s)
    BY <1>6 DEF Visible, IsRow
  <2>2. ASSUME NEW s \in Save, NEW c, Known(s, c) PROVE Known(s, c)'
    BY <1>6, <2>1, <2>2 DEF Known
  <2>3. ASSUME NEW s \in Save, save'[s] # None
        PROVE  save'[s].got \subseteq Visible(s)' /\ (save'[s].corpus # None => Known(s, save[s].corpus)')
    <3>1. save[s] # None /\ save[s].got \subseteq Visible(s)
      BY <1>7, <2>3 DEF Inv, Informed
    <3>2. PICK c : c = save[s].corpus
      OBVIOUS
    <3>3. c # None => Known(s, c)
      BY <3>1, <3>2 DEF Inv, Informed
    <3>4. c = save'[s].corpus
      BY <1>7, <3>1, <3>2
    <3> QED
      BY <1>7, <2>1, <2>2, <3>1, <3>2, <3>3, <3>4
  <2> QED
    BY <2>3 DEF Informed
<1>14. TwinFree'
  BY <1>6 DEF Inv, TwinFree, NoTwins, IsRow
<1>15. MergesTraced'
  <2> SUFFICES ASSUME ~MergeIntoMerged PROVE AliasesOnLive' /\ LinesOnLive' /\ ChainsEnd' /\ LinkedLive'
    BY DEF MergesTraced
  <2>1. IsLive(b)'
    BY <1>2, <1>6
  <2>2. AliasesOnLive'
    BY <1>3, <1>6, <1>8, <2>1 DEF AliasesOnLive, Inv, MergesTraced
  <2>3. LinesOnLive'
    BY <1>3, <1>6, <1>9, <2>1 DEF LinesOnLive, Inv, MergesTraced
  <2>4. ChainsEnd'
    BY <1>1, <1>2, ChainsMerged DEF Inv, MergesTraced
  <2>5. LinkedLive'
    BY <1>7 DEF LinkedLive
  <2> QED
    BY <2>2, <2>3, <2>4, <2>5
<1> QED
  BY <1>10, <1>11, <1>12, <1>13, <1>14, <1>15 DEF Inv

\* New rows and changed names: a step that leaves pointers and what saves know.
LEMMA RowsKeep ==
  ASSUME Inv, food' \in [Ingredient -> FoodRow \cup {None}], UNCHANGED <<lines, save>>,
         alias \subseteq alias', alias' \subseteq Food \X Ingredient,
         \A p \in alias' \ alias : IsRow(p[2])' /\ IsLive(p[2])',
         \A i \in Ingredient : IsRow(i) =>
           IsRow(i)' /\ food'[i].into = food[i].into /\ food'[i].by = food[i].by,
         \A i \in Ingredient : IsRow(i) /\ food[i].by # None => food'[i] = food[i],
         \A i \in Ingredient : IsRow(i)' /\ ~IsRow(i) => IsLive(i)' /\ food'[i].by = None
  PROVE  Inv'
<1>0. food \in [Ingredient -> FoodRow \cup {None}]
  BY DEF Inv, CatalogTypeOK
<1>1. CatalogTypeOK'
  BY DEF Inv, CatalogTypeOK, IsRow
<1>2. Pending'
  BY DEF Inv, Pending, IsLive
<1>3. Pointers'
  BY <1>0 DEF Inv, Pointers, IsLive, IsRow, FoodRow
<1>4. Informed'
  <2>1. \A s : Visible(s) \subseteq Visible(s)'
    BY DEF Visible, IsRow
  <2>2. ASSUME NEW s \in Save, NEW c, Known(s, c) PROVE Known(s, c)'
    BY <2>1, <2>2, CatalogAssumption DEF Known
  <2>3. ASSUME NEW s \in Save, save[s] # None
        PROVE  save[s].got \subseteq Visible(s)' /\ (save[s].corpus # None => Known(s, save[s].corpus)')
    <3>1. PICK c : c = save[s].corpus
      OBVIOUS
    <3>2. c # None => Known(s, c)
      BY <2>3, <3>1 DEF Inv, Informed
    <3>3. c = save'[s].corpus
      BY <3>1
    <3> QED
      BY <2>1, <2>2, <2>3, <3>1, <3>2, <3>3 DEF Inv, Informed
  <2> QED
    BY <2>3 DEF Informed
<1>5. TwinFree'
  BY DEF Inv, TwinFree, NoTwins, IsRow
<1>6. MergesTraced'
  <2>1. \A i \in Ingredient : IsRow(i) => (IsLive(i)' <=> IsLive(i))
    BY DEF IsLive
  <2>2. AliasesOnLive => AliasesOnLive'
    BY <2>1 DEF AliasesOnLive, Inv, CatalogTypeOK, IsRow
  <2>3. LinesOnLive => LinesOnLive'
    BY <2>1 DEF LinesOnLive, Inv, CatalogTypeOK, IsRow
  <2>4. ChainsEnd => ChainsEnd'
    BY ChainsKept
  <2>5. LinkedLive => LinkedLive'
    BY <2>1 DEF LinkedLive, Inv, Informed, Visible, IsRow
  <2> QED
    BY <2>2, <2>3, <2>4, <2>5 DEF Inv, MergesTraced
<1> QED
  BY <1>1, <1>2, <1>3, <1>4, <1>5, <1>6 DEF Inv

\* A change of name is of a committed row.
LEMMA RenameKeeps == ASSUME Inv, Rename PROVE Inv'
<1>1. PICK i \in Visible(None), f \in Food : food' = [food EXCEPT ![i].name = f]
  BY DEF Rename
<1>2. UNCHANGED <<alias, lines, save>>
  BY DEF Rename
<1>3. food \in [Ingredient -> FoodRow \cup {None}] /\ i \in Ingredient /\ food[i] \in FoodRow /\ food[i].by = None
  BY DEF Inv, CatalogTypeOK, Visible
<1>4. food'[i] = [name |-> f, into |-> food[i].into, by |-> food[i].by]
  BY <1>1, <1>3 DEF FoodRow
<1>5. food'[i] \in FoodRow /\ food'[i] # None /\ \A k \in Ingredient \ {i} : food'[k] = food[k]
  BY <1>1, <1>3, <1>4, CatalogRowAssumption DEF FoodRow
<1>6. food' \in [Ingredient -> FoodRow \cup {None}]
  BY <1>1, <1>3, <1>5
<1>7. alias' \subseteq Food \X Ingredient
  BY <1>2 DEF Inv, CatalogTypeOK
<1>8. \A k \in Ingredient : IsRow(k) =>
        IsRow(k)' /\ food'[k].into = food[k].into /\ food'[k].by = food[k].by
  BY <1>4, <1>5 DEF IsRow
<1>9. /\ \A k \in Ingredient : IsRow(k) /\ food[k].by # None => food'[k] = food[k]
      /\ \A k \in Ingredient : ~(IsRow(k)' /\ ~IsRow(k))
      /\ alias' \ alias = {}
  BY <1>2, <1>3, <1>5 DEF IsRow, FoodRow, Inv, CatalogTypeOK, Visible
<1> QED
  BY <1>2, <1>6, <1>7, <1>8, <1>9, RowsKeep

\* The seed's rows are live.
LEMMA LoadKeeps == ASSUME Inv, LoadSeed PROVE Inv'
<1> DEFINE inUse == {food[j].name : j \in {k \in Ingredient : food[k] # None}}
           new == DOMAIN Seed \ inUse
<1>1. PICK id \in [new -> {i \in Ingredient : food[i] = None}] :
        /\ food' = [i \in Ingredient |->
                      IF \E f \in new : id[f] = i
                      THEN [name |-> CHOOSE f \in new : id[f] = i, into |-> None, by |-> None]
                      ELSE food[i]]
        /\ alias' = alias \cup {p \in Food \X Ingredient : \E f \in new : id[f] = p[2] /\ p[1] \in Seed[f]}
  BY DEF LoadSeed
<1>2. UNCHANGED <<lines, save>>
  BY DEF LoadSeed
<1>3. new \subseteq Food
  BY CatalogAssumption
<1> HIDE DEF new
<1>4. ASSUME NEW i \in Ingredient, \E f \in new : id[f] = i
      PROVE  ~IsRow(i) /\ food'[i] \in FoodRow /\ IsRow(i)' /\ IsLive(i)' /\ food'[i].by = None
  <2>1. (CHOOSE f \in new : id[f] = i) \in Food
    BY <1>3, <1>4
  <2>2. food'[i] = [name |-> CHOOSE f \in new : id[f] = i, into |-> None, by |-> None]
    BY <1>1, <1>4
  <2>3. food'[i] \in FoodRow
    BY <2>1, <2>2 DEF FoodRow
  <2> QED
    BY <1>1, <1>4, <2>2, <2>3, CatalogRowAssumption DEF IsRow, IsLive
<1>5. \A i \in Ingredient : ~(\E f \in new : id[f] = i) => food'[i] = food[i]
  BY <1>1
<1>6. food' \in [Ingredient -> FoodRow \cup {None}]
  BY <1>1, <1>4, <1>5 DEF Inv, CatalogTypeOK
<1>7. alias \subseteq alias' /\ alias' \subseteq Food \X Ingredient
  BY <1>1 DEF Inv, CatalogTypeOK
<1>8. \A p \in alias' \ alias : IsRow(p[2])' /\ IsLive(p[2])'
  BY <1>1, <1>4
<1> QED
  BY <1>2, <1>4, <1>5, <1>6, <1>7, <1>8, RowsKeep DEF IsRow

-----------------------------------------------------------------------------

\* Types, pointers, what saves know, and where merges are into live rows their soundness.
THEOREM Invariant == CatalogSpec => []Inv
<1>1. CatalogInit => Inv
  BY InvInit
<1>2. Inv /\ [CatalogNext]_catalogVars => Inv'
  <2> SUFFICES ASSUME Inv, [CatalogNext]_catalogVars PROVE Inv'
    OBVIOUS
  <2>1. CASE CatalogNext
    BY <2>1, BeginKeeps, MatchKeeps, LinkCreatedKeeps, SaveCommits, FailKeeps, MergeKeeps,
       RenameKeeps, LoadKeeps DEF CatalogNext
  <2>2. CASE UNCHANGED catalogVars
    <3>1. UNCHANGED <<lines, save, food, alias>>
      BY <2>2 DEF catalogVars
    <3> QED
      BY <3>1, RowsKeep DEF Inv, CatalogTypeOK, IsRow
  <2> QED
    BY <2>1, <2>2
<1> QED
  BY <1>1, <1>2, PTL DEF CatalogSpec

\* One save creates no two rows whose names match each other, whatever it knows of old, if
\* merges are into live ones: a close row may then have been merged meanwhile, but its chain ends.
THEOREM TwinsNever == ASSUME ~MergeIntoMerged PROVE CatalogSpec => []NoTwins
<1>1. Inv => NoTwins
  BY DEF Inv, TwinFree
<1> QED
  BY <1>1, Invariant, PTL

\* No alias stays on a merged ingredient, if merges are into live ones.
THEOREM AliasesLive == ASSUME ~MergeIntoMerged PROVE CatalogSpec => []AliasesOnLive
<1>1. Inv => AliasesOnLive
  BY DEF Inv, MergesTraced
<1> QED
  BY <1>1, Invariant, PTL

\* No line of a recipe, unless it was saved across a merge, links to a merged ingredient, if
\* merges are into live ones.
THEOREM LinesLive == ASSUME ~MergeIntoMerged PROVE CatalogSpec => []LinesOnLive
<1>1. Inv => LinesOnLive
  BY DEF Inv, MergesTraced
<1> QED
  BY <1>1, Invariant, PTL

\* Every stored name leads to a live ingredient, if merges are into live ones: chains end.
THEOREM NamesFound == ASSUME ~MergeIntoMerged PROVE CatalogSpec => []NamesResolve
<1>1. ASSUME Inv PROVE NamesResolve
  <2> SUFFICES ASSUME NEW f \in Food, NEW i \in Visible(None), food[i].name = f
               PROVE  \E h \in Hits(None, f) : Target(h) # None
    BY DEF NamesResolve
  <2>1. ~Unmatched(None, f)
    BY <1>1, StoredMatches
  <2> QED
    BY <2>1 DEF Unmatched
<1> QED
  BY <1>1, Invariant, PTL

=============================================================================
