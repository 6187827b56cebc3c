----------------------------- MODULE ParsePrice -----------------------------
(***************************************************************************)
(* parse_price of pallets/example-offchain-worker: the number that         *)
(* lite-json finds under "USD", as an integer part, a fraction read as an  *)
(* integer, the number of its digits and an exponent, turned into a u32 of *)
(* cents.  Compared with the cents the decimal literal stands for.         *)
(***************************************************************************)
EXTENDS Integers

CONSTANTS
    U32Size,        \* 2^32 in the code; casts and products wrap at it
    MaxInteger,     \* bound: largest integer part
    MaxNegative,    \* bound: largest integer part below zero, without its sign
    MaxDigits,      \* bound: most digits after the point, up to what a u64 holds
    Exponents,      \* exponents of the literal
    NoPrice         \* None

ASSUME ParseAssumption ==
    /\ U32Size \in Nat \ {0}
    /\ MaxInteger \in Nat
    /\ MaxNegative \in Nat
    /\ MaxDigits \in 0 .. 19
    /\ Exponents \subseteq Int
    /\ NoPrice \notin Int

VARIABLES
    response,       \* what the server answered
    done,           \* parse_price has returned
    price           \* its result

vars == <<response, done, price>>

Pow10[n \in Nat] == IF n = 0 THEN 1 ELSE 10 * Pow10[n - 1]

\* External: lite_json::NumberValue, a signed integer part and the digits after
\* the point without the point: 1.05 has fraction 5 and fraction_length 2.
NumberValue ==
    UNION {[integer : (0 - MaxNegative) .. MaxInteger, fraction : 0 .. (Pow10[l] - 1),
            fraction_length : {l}, exponent : Exponents] : l \in 0 .. MaxDigits}

\* Answers without a number under "USD": broken JSON, not an object, no such
\* key, or a value of another kind.
Malformed == {"no json", "no object", "no USD", "no number"}

Response == [kind : Malformed] \cup [kind : {"USD"}, number : NumberValue]

checked_sub_or_zero(a, b) == IF a >= b THEN a - b ELSE 0

\* A negative number wraps around as well.
as_u32(x) == x % U32Size

\* Slip: cut one digit too few.
parse_number_three_digits(n) ==
    LET exp == checked_sub_or_zero(n.fraction_length, 3)
    IN  as_u32(as_u32(n.integer) * 100 + as_u32(n.fraction \div Pow10[exp]))

\* Slip: an odd cent is rounded up.
parse_number_round_up(n) ==
    LET exp == checked_sub_or_zero(n.fraction_length, 2)
    IN  as_u32(as_u32(n.integer) * 100
               + as_u32((n.fraction + Pow10[exp] - 1) \div Pow10[exp]))

\* price.integer as u32 * 100 + (price.fraction / 10_u64.pow(exp)) as u32
parse_number(n) ==
    LET exp == checked_sub_or_zero(n.fraction_length, 2)
    IN  as_u32(as_u32(n.integer) * 100 + as_u32(n.fraction \div Pow10[exp]))

parse_price(r) == IF r.kind \in Malformed THEN NoPrice ELSE parse_number(r.number)

Init ==
    /\ response \in Response
    /\ done = FALSE
    /\ price = NoPrice

FetchPrice ==
    /\ ~ done
    /\ done' = TRUE
    /\ price' = parse_price(response)
    /\ UNCHANGED response

Next == FetchPrice

Spec == Init /\ [][Next]_vars

-----------------------------------------------------------------------------
(* Properties. *)

\* The literal's value in cents, rounded down, without the exponent.
Cents(n) == n.integer * 100 + (100 * n.fraction) \div Pow10[n.fraction_length]

Parsed == done /\ response.kind = "USD"

\* Prices this conversion is made for: no exponent, which the code ignores,
\* not negative, which the cast wraps around, and small enough.
Representable(n) == n.exponent = 0 /\ n.integer >= 0 /\ Cents(n) < U32Size

\* A literal with no digit or at least two digits after the point becomes
\* exactly its value in cents.
CentsExact ==
    (/\ Parsed
     /\ Representable(response.number)
     /\ response.number.fraction_length # 1) => price = Cents(response.number)

\* Whatever the number of digits, the dollars are never wrong: parse_price
\* is less than one dollar away from the literal.
DollarsExact ==
    Parsed /\ Representable(response.number)
        => price \div 100 = response.number.integer

\* "Some(price in cents) when parsing is successful".
PriceInCents ==
    Parsed /\ Representable(response.number) => price = Cents(response.number)
=============================================================================
