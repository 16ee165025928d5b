------------------------------- MODULE Measures -------------------------------
(***************************************************************************)
(* Measures: the text of a recipe line parsed into an amount and a unit     *)
(* (measure-parser.service.ts), and conversion between units                *)
(* (unit-converter.service.ts).  An amount is a fraction <<n, d>>; factors  *)
(* and densities are in hundredths.                                         *)
(***************************************************************************)
EXTENDS Integers

CONSTANT None

\* The fraction in its lowest terms.
Reduced(q) ==
  LET gcd[p \in Nat \X Nat] == IF p[2] = 0 THEN p[1] ELSE gcd[<<p[2], p[1] % p[2]>>]
      g == gcd[q]
  IN  IF g = 0 THEN q ELSE <<q[1] \div g, q[2] \div g>>
AtLeast(x, y) == x[1] * y[2] >= y[1] * x[2]
Infinite == <<1, 0>>
Zero == <<0, 1>>

(***************************** unit-converter ******************************)
Volume == {"ml", "oz", "l", "cl", "tbsp", "tsp", "dashes"}
Mass == {"g", "kg"}
Counted == {"count", "piece", "parts", "drops", "splashes", "slices", "leaves"}
Supported == Volume \cup Mass \cup Counted
InMl == [ml |-> 100, oz |-> 2957, l |-> 100000, cl |-> 1000,
         tbsp |-> 1479, tsp |-> 493, dashes |-> 92]
Factor(u) == IF u \in Volume THEN InMl[u] ELSE IF u = "kg" THEN 100000 ELSE 100

\* areUnitsCompatible.
Compatible(u, v) == \E cat \in {Volume, Mass, Counted} : {u, v} \subseteq cat
\* canConvertBetween: an ingredient may have mass and volume converted.
CanConvert(u, v, ing) ==
  \/ Compatible(u, v)
  \/ /\ \E cat \in {<<Volume, Mass>>, <<Mass, Volume>>} : u \in cat[1] /\ v \in cat[2]
     /\ ing # None /\ ing.massVolume
\* convert: None where the code throws.
Convert(q, u, v, ing) ==
  IF ~({u, v} \subseteq Supported) \/ ~CanConvert(u, v, ing) THEN None
  ELSE LET n == q[1] * Factor(u)
           d == q[2] * Factor(v)
       IN  IF Compatible(u, v) THEN Reduced(<<n, d>>)
           ELSE IF ing.density <= 0 THEN None
           ELSE IF u \in Mass THEN Reduced(<<n * 100, d * ing.density>>)
           ELSE Reduced(<<n * ing.density, d * 100>>)

(***************************** measure-parser ******************************)
\* A measure is [form, amount, unit, text]: how its number is written, the
\* number, the unit its text names, if any, and all that follows the number.
Plain == {"ml", "oz", "cl", "l", "tbsp", "tsp", "kg", "g", "dashes", "drops",
          "splashes", "parts", "slices", "leaves"}
Hints == [pinch |-> "dashes", dash |-> "dashes", splash |-> "splashes", garnish |-> "count"]
\* parse: after a fraction the whole text is the unit; after a decimal number
\* the first pattern that occurs decides; without a number the words do.
Parse(m) ==
  IF m = None THEN [amount |-> <<1, 1>>, unit |-> "parts"]
  ELSE IF m.form \in {"mixed", "fraction"} THEN [amount |-> m.amount, unit |-> m.text]
  ELSE IF m.form = "decimal"
       THEN [amount |-> m.amount, unit |-> IF m.unit \in Plain THEN m.unit ELSE "parts"]
  ELSE [amount |-> <<1, 1>>,
        unit   |-> IF m.text \in DOMAIN Hints THEN Hints[m.text] ELSE "parts"]
=============================================================================
