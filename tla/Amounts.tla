------------------------------- MODULE Amounts -------------------------------
(***************************************************************************)
(* Amounts of resources as "describe node" reads, adds and prints them       *)
(* (describe/node.rs).  A quantity is what its text says: digits with a number *)
(* of decimal places and a suffix, "e" being an exponent.  The code counts      *)
(* nanounits in 128 bits; here a unit has Scale parts and nothing overflows.    *)
(***************************************************************************)
EXTENDS Integers, Sequences, FiniteSets

Scale == 1000

\* The suffixes and what one is worth in parts; "u" is below a part.
Decimals == <<[suffix |-> "k", each |-> 1000 * Scale], [suffix |-> "", each |-> Scale], [suffix |-> "m", each |-> 1]>>
Binaries == <<[suffix |-> "Mi", each |-> 1024 * 1024 * Scale], [suffix |-> "Ki", each |-> 1024 * Scale],
              [suffix |-> "", each |-> Scale]>>

Worth(suffix) == LET all == Decimals \o Binaries
                 IN  all[CHOOSE i \in DOMAIN all : all[i].suffix = suffix].each

RoundedUp(n, by) == IF n % by = 0 THEN n \div by ELSE n \div by + 1

\* What the text says, in parts, as a fraction
Fraction(q) ==
    CASE q.suffix = "u" -> <<q.digits, 1000 * 10 ^ q.places>>
      [] q.suffix = "e" -> IF q.exponent < 0 THEN <<q.digits * Scale, 10 ^ (q.places - q.exponent)>>
                           ELSE <<q.digits * Scale * 10 ^ q.exponent, 10 ^ q.places>>
      [] OTHER -> <<q.digits * Worth(q.suffix), 10 ^ q.places>>

\* Amount::parse: exact as long as it has whole parts, rounded up otherwise
Parse(q) ==
    [n |-> LET up(f) == RoundedUp(f[1], f[2]) IN up(Fraction(q)),
     format |-> CASE q.suffix \in {"Ki", "Mi"} -> "binary"
                  [] q.suffix = "e" -> "exponent"
                  [] OTHER -> "decimal"]

Nearest(n, by) == IF n % by >= by - (n % by) THEN n \div by + 1 ELSE n \div by

\* cpu_millis and mem_mib: the table and the metrics round to the nearest.
CpuMillis(q) == LET near(f) == Nearest(f[1], f[2]) IN near(Fraction(q))
MemMib(q) == LET near(f) == Nearest(f[1] \div f[2], Worth("Mi")) IN near(Fraction(q))

Printed(digits, suffix, exponent) == [digits |-> digits, places |-> 0, suffix |-> suffix, exponent |-> exponent]

\* The largest of the units that leaves no remainder
InWhole(n, units) ==
    LET whole == {i \in DOMAIN units : n % units[i].each = 0}
        u == units[CHOOSE i \in whole : \A j \in whole : i <= j]
    IN  Printed(n \div u.each, u.suffix, 0)

\* The greatest multiple of three that is an exponent of n
Thousands(n) ==
    LET fits(e) == IF e < 0 THEN n % 10 ^ (3 + e) = 0 ELSE n % (Scale * 10 ^ e) = 0
        all == {e \in {-3, 0, 3} : fits(e)}
    IN  CHOOSE e \in all : \A d \in all : d <= e

\* Amount::canonical
Canonical(a) ==
    CASE a.n = 0 -> Printed(0, "", 0)
      [] a.n # 0 /\ a.format = "binary" /\ a.n % Scale = 0 -> InWhole(a.n, Binaries)
      [] a.n # 0 /\ a.format = "exponent" ->
            LET e == Thousands(a.n)
            IN  Printed(IF e < 0 THEN a.n \div 10 ^ (3 + e) ELSE a.n \div (Scale * 10 ^ e),
                        IF e = 0 THEN "" ELSE "e", e)
      [] OTHER -> InWhole(a.n, Decimals)

-----------------------------------------------------------------------------
(* Amounts by the name of the resource *)

NoAmounts == [r \in {} |-> 0]

\* amounts: quantities by name, parsed
Amounts(quantities) == [r \in DOMAIN quantities |-> Parse(quantities[r])]

Joined(f, g, Both(_, _)) ==
    [r \in DOMAIN f \cup DOMAIN g |->
        CASE r \notin DOMAIN g -> f[r] [] r \notin DOMAIN f -> g[r] [] OTHER -> Both(f[r], g[r])]

\* add_amounts: the first that is not zero says how the sum is printed.
Add(f, g) == Joined(f, g, LAMBDA a, b : [n |-> a.n + b.n, format |-> IF a.n = 0 THEN b.format ELSE a.format])

\* max_amounts
Greater(f, g) == Joined(f, g, LAMBDA a, b : IF b.n > a.n THEN b ELSE a)

\* value_or_zero
ValueOf(f, r) == IF r \in DOMAIN f THEN f[r] ELSE [n |-> 0, format |-> "decimal"]

\* percent, of units of so many parts
Percent(used, total, each) ==
    LET all == RoundedUp(total.n, each) IN IF all = 0 THEN 0 ELSE (RoundedUp(used.n, each) * 100) \div all
=============================================================================
