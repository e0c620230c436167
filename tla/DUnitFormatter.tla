--------------------------- MODULE DUnitFormatter ---------------------------
(***************************************************************************)
(* DAbstractUnitFormatter and the formatters of times and of sizes         *)
(* (src/util): a value in one unit is given in another (formatAs), in the  *)
(* unit that suits it best (format, which calls itself), or as a list of   *)
(* values in ever smaller units (formatAsUnitList).                        *)
(*                                                                         *)
(* Values are fractions; what floating point numbers round is left out.    *)
(***************************************************************************)
EXTENDS Integers, Sequences, SequencesExt

CONSTANTS
    Rate,      \* Rate[u]: how many of the unit u make one of the next
    Scale,     \* bound: values are multiples of 1 / Scale
    MaxValue   \* bound: largest value times Scale

UnitMin == 0
UnitMax == Len(Rate)
Units   == UnitMin .. UnitMax
UnitConvertRate(u) == Rate[u + 1]

DUnitFormatterAssumption ==
    /\ Rate \in Seq(Nat \ {0}) /\ Scale \in Nat \ {0} /\ MaxValue \in Nat

VARIABLES
    asked,  \* what was asked for: [value, unit]
    now,    \* the arguments of the innermost call of format
    depth,  \* calls of format under way
    answer  \* the result

unitVars == <<asked, now, depth, answer>>

-----------------------------------------------------------------------------
(* Fractions: <<n, d>>, in lowest terms.                                   *)
Reduced(n, d) ==
    LET g == CHOOSE x \in 1 .. d : /\ n % x = 0 /\ d % x = 0
                                   /\ \A y \in x + 1 .. d : n % y # 0 \/ d % y # 0
    IN <<n \div g, d \div g>>
Times(v, r)  == Reduced(v[1] * r, v[2])
Per(v, r)    == Reduced(v[1], v[2] * r)
Plus(v, w)   == Reduced(v[1] * w[2] + w[1] * v[2], v[2] * w[2])
Less(v, w)   == v[1] * w[2] < w[1] * v[2]
Whole(v)     == v[1] \div v[2]
Rest(v)      == Reduced(v[1] % v[2], v[2])
Num(n)       == <<n, 1>>

UnitValueMin(u) == Num(1)
UnitValueMax(u) == Num(UnitConvertRate(u) - 1)

-----------------------------------------------------------------------------
RECURSIVE FormatAs(_, _, _)
FormatAs(value, unit, target) ==
    IF unit < target THEN FormatAs(Per(value, UnitConvertRate(unit)), unit + 1, target)
    ELSE IF unit > target
    THEN FormatAs(Times(value, UnitConvertRate(unit - 1)), unit - 1, target)
    ELSE value

(* formatAsUnitList: the whole part in this unit and the larger ones, the  *)
(* largest first, then the rest in the smaller ones.                       *)
RECURSIVE Larger(_, _, _)
Larger(whole, unit, list) ==
    IF whole = 0 THEN list
    ELSE IF unit = UnitMax THEN <<[value |-> Num(whole), unit |-> unit]>> \o list
    ELSE LET r == whole % UnitConvertRate(unit) IN
         Larger(whole \div UnitConvertRate(unit), unit + 1,
                IF r = 0 THEN list ELSE <<[value |-> Num(r), unit |-> unit]>> \o list)

RECURSIVE FormatAsUnitList(_, _)
FormatAsUnitList(value, unit) ==
    IF value[1] = 0 THEN <<>>
    ELSE IF unit = UnitMin THEN <<[value |-> value, unit |-> unit]>>
    ELSE IF Less(value, UnitValueMin(unit))
    THEN FormatAsUnitList(Times(value, UnitConvertRate(unit - 1)), unit - 1)
    ELSE Larger(Whole(value), unit, FormatAsUnitList(Rest(value), unit))

(* format: one action for each way to go on.                               *)
Call(value, unit) ==
    /\ now' = [value |-> value, unit |-> unit]
    /\ depth' = depth + 1
    /\ UNCHANGED <<asked, answer>>

TooSmall == now.unit > UnitMin /\ Less(now.value, UnitValueMin(now.unit))
TooLarge == now.unit < UnitMax /\ Less(UnitValueMax(now.unit), now.value)

FormatSmaller ==
    /\ depth > 0 /\ TooSmall
    /\ Call(Times(now.value, UnitConvertRate(now.unit - 1)), now.unit - 1)

FormatLarger ==
    /\ depth > 0 /\ ~TooSmall /\ TooLarge
    /\ Call(Per(now.value, UnitConvertRate(now.unit)), now.unit + 1)

Done == 0

FormatReturn ==
    /\ depth > 0 /\ ~TooSmall /\ ~TooLarge
    /\ answer' = <<now>>
    /\ depth' = Done
    /\ UNCHANGED <<asked, now>>

Format ==
    /\ depth = Done /\ answer = <<>>
    /\ Call(asked.value, asked.unit)

(* The other two answer at once.                                           *)
Answer(list) ==
    /\ depth = Done /\ answer = <<>>
    /\ answer' = list
    /\ UNCHANGED <<asked, now, depth>>

Ask ==
    \/ Answer(FormatAsUnitList(asked.value, asked.unit))
    \/ \E target \in Units :
          Answer(<<[value |-> FormatAs(asked.value, asked.unit, target), unit |-> target]>>)

-----------------------------------------------------------------------------
(* Bound: the calls of format that are followed.                           *)
Init ==
    /\ asked \in [value : {Reduced(n, Scale) : n \in 0 .. MaxValue}, unit : Units]
    /\ now = asked
    /\ depth = Done /\ answer = <<>>

Next ==
    \/ Format \/ FormatReturn \/ Ask
    \/ depth <= UnitMax + 1 /\ (FormatSmaller \/ FormatLarger)

Spec == Init /\ [][Next]_unitVars

-----------------------------------------------------------------------------
(* An amount in the smallest unit.                                         *)
Amount(part) == FormatAs(part.value, part.unit, UnitMin)
Total(list)  == FoldLeft(LAMBDA sum, part : Plus(sum, Amount(part)), Num(0), list)

TypeOK ==
    /\ now.unit \in Units /\ depth \in 0 .. UnitMax + 2
    /\ \A i \in DOMAIN answer : answer[i].unit \in Units

(* However an amount is given, it is the amount asked for                  *)
(* (dabstractunitformatter.cpp:83, :104, :125), in units that become       *)
(* smaller.                                                                *)
AmountIsKept ==
    answer # <<>> =>
        /\ Total(answer) = Amount(asked)
        /\ \A i, j \in DOMAIN answer : i < j => answer[i].unit > answer[j].unit

(* Amounts that are more than the most of a unit and less than one of the  *)
(* next.                                                                   *)
InGap == \E u \in UnitMin .. UnitMax - 1 :
            LET v == FormatAs(asked.value, asked.unit, u) IN
            Less(UnitValueMax(u), v) /\ Less(v, Num(UnitConvertRate(u)))

(* format returns (dabstractunitformatter.cpp:104): it calls itself at     *)
(* most once for each unit, for amounts that are not in a gap.             *)
FormatReturns == InGap \/ depth <= UnitMax + 1

(* The value is converted to the unit where it is close to the least of    *)
(* that unit (comment, dabstractunitformatter.cpp:96): that is found.      *)
UnitIsFound == depth <= UnitMax + 1
=============================================================================
