----------------------------- MODULE Quantities -----------------------------
(***************************************************************************)
(* The quantity of an ingredient line, from what is written to what a      *)
(* scaled recipe shows: the amount in grams or millilitres                 *)
(* (catalog/conversion.py), what is stored, scaling and the friendly       *)
(* fractions (cookbook/scaling.py).                                        *)
(*                                                                         *)
(* Numbers are fixed-point, Scale to the one, so that the fractions and    *)
(* the decimals are exact; a product is cut to a whole number of parts.    *)
(* Where a float may fall on either side of a boundary, both results are   *)
(* possible.                                                               *)
(***************************************************************************)
EXTENDS Absent, Integers

CONSTANTS
  Scale,     \* parts of one; a multiple of 30000
  Quantity,  \* what lines say, in parts
  Unit,      \* units: kind and base_factor, a fraction; rough: is_inherently_approx
  Measured,  \* ingredients: preferred_measure, density, gram weight of one unit
  Factor     \* scale factors, fractions

Positive == (Nat \ {0}) \X (Nat \ {0})

ASSUME QuantityAssumption ==
  /\ Scale \in Nat \ {0} /\ Scale % 30000 = 0
  /\ Quantity \subseteq Nat \ {0}
  /\ Factor \subseteq Positive
  /\ \A u \in Unit : u.factor \in Nat \X (Nat \ {0})
  /\ \A m \in Measured : {m.density, m.weight} \subseteq Positive \cup {None}
  /\ None \notin Nat \cup Positive

VARIABLES
  ask,    \* the line as it was sent
  row,    \* recipe_ingredient_lines: quantity, normalized_amount
  shown   \* the line of a scaled recipe, and its factor

quantityVars == <<ask, row, shown>>

Ask == [quantity : Quantity, unit : Unit, of : Measured]

ASSUME NoneIsNoLine == None \notin Ask

QuantityTypeOK ==
  /\ ask \in Ask \cup {None}
  /\ row = None \/ (row.quantity \in Nat /\ row.amount \in Nat \cup {None})
  /\ shown = None \/ (shown.quantity \in Nat /\ shown.amount \in Nat \cup {None})
  /\ row = None => shown = None

QuantityInit == ask = None /\ row = None /\ shown = None

-----------------------------------------------------------------------------
Times(x, fraction) == (x * fraction[1]) \div fraction[2]
Apart(x, y) == IF x > y THEN x - y ELSE y - x

\* Rounding to a multiple of step; a tie may fall on either side.
Nearest(x, step) ==
  {y \in {step * (x \div step), step * (x \div step) + step} : 2 * Apart(x, y) <= step}

\* convert_to_normalized before it rounds; a gram weight comes first for counts and, when
\* grams are wanted, for volumes.
Normalized(quantity, unit, of) ==
  LET base == Times(quantity, unit.factor)
      grams == CASE unit.kind = "mass" -> base
                 [] of.weight # None /\ unit.kind \in {"count", "volume"} -> Times(quantity, of.weight)
                 [] of.weight = None /\ unit.kind = "volume" /\ of.density # None -> Times(base, of.density)
                 [] OTHER -> None
  IN  CASE unit.kind = "ratio" -> None
        [] of.measure = "mass" -> grams
        [] of.measure = "volume" /\ unit.kind = "volume" -> base
        [] OTHER -> IF grams = None \/ of.density = None THEN None
                    ELSE Times(grams, <<of.density[2], of.density[1]>>)

\* _process_line: the amount is rounded to hundredths, the column of the quantity holds
\* four decimals.
WriteLine ==
  /\ ask = None
  /\ \E a \in Ask :
       LET amount == Normalized(a.quantity, a.unit, a.of)
       IN  /\ ask' = a
           /\ \E q \in Nearest(a.quantity, Scale \div 10000),
                 n \in IF amount = None THEN {None} ELSE Nearest(amount, Scale \div 100) :
                row' = [quantity |-> q, amount |-> n]
  /\ UNCHANGED shown

-----------------------------------------------------------------------------
Glyphs ==
  {Times(Scale, f) : f \in {<<1, 8>>, <<1, 4>>, <<1, 3>>, <<3, 8>>, <<1, 2>>, <<5, 8>>, <<2, 3>>, <<3, 4>>, <<7, 8>>}}

\* Mutant of Tolerance: ten times too wide.
ToleranceWide == (15 * Scale) \div 100

\* _SNAP_TOLERANCE
Tolerance == (15 * Scale) \div 1000

\* One decimal; where that is 0, two; where that is 0, three significant digits, which
\* are finer than the parts.
Decimals(x) ==
  LET tenths == Nearest(x, Scale \div 10)
      hundredths == IF 0 \in tenths THEN Nearest(x, Scale \div 100) ELSE {}
  IN  (tenths \ {0}) \cup (hundredths \ {0}) \cup (IF 0 \in hundredths THEN {x} ELSE {})

\* format_quantity: what its string reads as.
FormatQuantity(x) ==
  LET whole == x - (x % Scale)
      Within(distance) == {whole + g : g \in {g \in Glyphs : Apart(x % Scale, g) <= distance}}
      nearWhole == whole # 0 \/ x = 0
  IN  IF Within(Tolerance - 1) # {} THEN Within(Tolerance - 1)
      ELSE Within(Tolerance)
             \cup (IF x % Scale <= Tolerance /\ nearWhole THEN {whole} ELSE {})
             \cup (IF x % Scale < Tolerance /\ nearWhole THEN {} ELSE Decimals(x))

\* format_amount: two decimals; where that is 0, two significant digits.
FormatAmount(x) ==
  LET hundredths == Nearest(x, Scale \div 100)
  IN  (IF x # 0 THEN hundredths \ {0} ELSE hundredths)
        \cup (IF 0 \in hundredths /\ x # 0
              THEN (IF x >= Scale \div 1000 THEN Nearest(x, Scale \div 10000) ELSE {x})
              ELSE {})

\* _scale_line, whichever line and factor are asked for
ScaleLine ==
  /\ row # None
  /\ \E f \in Factor :
       \E q \in FormatQuantity(Times(row.quantity, f)),
          n \in IF row.amount = None THEN {None} ELSE FormatAmount(Times(row.amount, f)) :
         shown' = [factor |-> f, quantity |-> q, amount |-> n]
  /\ UNCHANGED <<ask, row>>

QuantityNext == WriteLine \/ ScaleLine

QuantitySpec == QuantityInit /\ [][QuantityNext]_quantityVars

-----------------------------------------------------------------------------
(* Properties *)

\* What a scaled line shows is what was written times the factor, after storage and two
\* roundings: the quantity to a twentieth, the amount to half a hundredth and the half
\* hundredth that storing it may lose, times the factor.
ShownClose ==
  shown # None =>
    LET exact == Normalized(ask.quantity, ask.unit, ask.of)
        half == Scale \div 200
    IN  /\ Apart(shown.quantity, Times(ask.quantity, shown.factor))
             <= Scale \div 20 + Times(half \div 100, shown.factor) + 1
        /\ (exact = None) = (shown.amount = None)
        /\ exact # None =>
             Apart(shown.amount, Times(exact, shown.factor)) <= half + Times(half, shown.factor) + 1

\* No positive quantity collapses to 0.
ShownPositive == shown # None => shown.quantity > 0

\* Scaling keeps the amounts.
AmountKept == ShownClose /\ ShownPositive

=============================================================================
