------------------------------- MODULE Amounts ------------------------------
(***************************************************************************)
(* Amounts of SOL and tokens: parse_amount of what the user types, and     *)
(* format_amount of what is put before the user for approval               *)
(* (src/src/commands.rs), on words of a small size.                        *)
(*                                                                         *)
(* As in the code, MaxDecimals is the largest power of Base in a word.  A  *)
(* text is a sequence of digits, Point, and Other for anything else; an    *)
(* operation that may fail returns the set of its results, empty or not.   *)
(***************************************************************************)
EXTENDS Integers, SequencesExt

CONSTANTS
    Base,         \* of the digits, 10
    MaxWord,      \* u64::MAX
    MaxDecimals,  \* 19
    Symbols,      \* what the user may type
    MaxLength     \* bound on the length of the text

Point == Base
Other == Base + 1

\* 10u64.pow
Power[n \in 0..(MaxDecimals + 1)] == IF n = 0 THEN 1 ELSE Base * Power[n - 1]

ASSUME AmountAssumption ==
    /\ Base \in Nat \ {0, 1} /\ MaxWord \in Nat /\ MaxDecimals \in Nat
    /\ Power[MaxDecimals] <= MaxWord /\ Power[MaxDecimals + 1] > MaxWord
    /\ Symbols \subseteq 0..Other /\ MaxLength \in Nat

VARIABLES
    decimals,   \* of the token, or 9 for SOL
    text,       \* the amount as text
    units,      \* the base units it was made from
    printed     \* text is what format_amount has made of units

amountVars == <<decimals, text, units, printed>>

AmountInit ==
    /\ decimals \in 0..(MaxDecimals + 1)
    /\ text = <<>> /\ units = 0 /\ printed = FALSE

IsDigit(c) == c < Base
Value(digits) == FoldLeft(LAMBDA n, d : n * Base + d, 0, digits)

-----------------------------------------------------------------------------
(* parse_amount.                                                           *)

Checked(n) == IF n <= MaxWord THEN {n} ELSE {}

\* Mutation of Product: wrapping_mul.
ProductWrapped(m, n) == {(m * n) % (MaxWord + 1)}

\* checked_mul and checked_add.
Product(m, n) == Checked(m * n)
Sum(m, n) == Checked(m + n)

\* split_once: what stands before the first point and behind it.
Points(input) == {i \in DOMAIN input : input[i] = Point}
Whole(input) ==
    IF Points(input) = {} THEN input
    ELSE SubSeq(input, 1, Min(Points(input)) - 1)
Fractional(input) ==
    IF Points(input) = {} THEN <<>>
    ELSE SubSeq(input, Min(Points(input)) + 1, Len(input))

\* A sign is no digit; there may be nothing behind the point, but not
\* nothing before it.
WellFormed(input) ==
    /\ Whole(input) # <<>>
    /\ \A i \in DOMAIN Whole(input) : IsDigit(Whole(input)[i])
    /\ \A i \in DOMAIN Fractional(input) : IsDigit(Fractional(input)[i])

ParseAmount(input, places) ==
    LET fractional == Fractional(input) IN
    IF \/ places > MaxDecimals \/ ~WellFormed(input)
       \/ Len(fractional) > places
    THEN {}
    ELSE UNION {UNION {Sum(v, f) :
                    v \in Product(whole, Power[places]),
                    f \in Product(fraction, Power[places - Len(fractional)])}
                : whole \in Checked(Value(Whole(input))),
                  fraction \in Checked(Value(fractional))}

-----------------------------------------------------------------------------
(* format_amount.                                                          *)

Digits[n \in 0..MaxWord] ==
    IF n < Base THEN <<n>> ELSE Append(Digits[n \div Base], n % Base)

\* Mutation of Padded: the fraction is printed as a number.
PaddedNot(n, width) == Digits[n]

\* {:0width$}
Padded(n, width) == [i \in 1..width |-> (n \div Power[width - i]) % Base]

\* trim_end_matches('0')
Trimmed(digits) ==
    SubSeq(digits, 1, Max({0} \cup {i \in DOMAIN digits : digits[i] # 0}))

\* Beyond MaxDecimals base units are printed, with a remark.
FormatAmount(n, places) ==
    LET scale == Power[places]
        fraction == Trimmed(Padded(n % scale, places))
    IN
    IF places > MaxDecimals THEN Append(Digits[n], Other)
    ELSE IF places = 0 THEN Digits[n]
    ELSE IF fraction = <<>> THEN Digits[n \div scale]
    ELSE Digits[n \div scale] \o <<Point>> \o fraction

-----------------------------------------------------------------------------

\* The user types an amount.
Type ==
    /\ ~printed /\ Len(text) < MaxLength
    /\ \E c \in Symbols : text' = Append(text, c)
    /\ UNCHANGED <<decimals, units, printed>>

\* An amount is shown: one that was parsed, or one that a node has reported.
Show ==
    /\ text = <<>>
    /\ units' \in 0..MaxWord /\ text' = FormatAmount(units', decimals)
    /\ printed' = TRUE
    /\ UNCHANGED decimals

AmountNext == Type \/ Show

AmountSpec == AmountInit /\ [][AmountNext]_amountVars

-----------------------------------------------------------------------------
(* What is expected of it.                                                 *)

\* The number of base units a text stands for, if it has any: its digits,
\* filled up with zeros, read as one number of any size.
Exact(input, places) ==
    LET missing == places - Len(Fractional(input)) IN
    IF ~WellFormed(input) \/ missing < 0 THEN {}
    ELSE {Value(Whole(input) \o Fractional(input) \o [i \in 1..missing |-> 0])}

\* parse_amount returns exactly what was typed, or an error if that does not
\* fit into a word, has digits beyond the token's decimals, or is no number;
\* never a wrapped or rounded amount.
ParseExact ==
    ParseAmount(text, decimals) =
        IF decimals > MaxDecimals THEN {}
        ELSE {n \in Exact(text, decimals) : n <= MaxWord}

\* The text that is shown for an amount is that amount, typed again: no two
\* amounts look the same, and what is approved is what is signed.
ShownIsMeant ==
    printed => ParseAmount(text, decimals) =
                   IF decimals > MaxDecimals THEN {} ELSE {units}
=============================================================================
