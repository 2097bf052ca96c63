------------------------------ MODULE Numbers -------------------------------
(***************************************************************************)
(* Numbers as attributes and texts of tinyxml2 hold them and as cJSON       *)
(* prints them: always as text, so that every read and write is a           *)
(* conversion.  int has Bits bits (32 in the code) and %g keeps Digits      *)
(* significant digits (6).  A double is a whole number here; what %g writes *)
(* is either a decimal or a mantissa of Digits digits with an exponent, and *)
(* `word` is text that is no number.                                        *)
(***************************************************************************)
EXTENDS Integers, FiniteSets

CONSTANTS Bits, Digits,
          Doubles,        \* whole doubles to write
          JsonUnits,      \* numbers for cJSON, in hundredths
          JsonHuge        \* from here on cJSON prints an exponent (10^9 in the code)

ASSUME NumbersAssumption == /\ Bits \in Nat \ {0} /\ Digits \in Nat \ {0} /\ 10 ^ Digits < 2 ^ (Bits - 1)
                            /\ Doubles \cup JsonUnits \subseteq Int /\ JsonHuge \in Nat

VARIABLES value,    \* the text of the attribute or of the element, if any
          origin,   \* what was written last
          asked,    \* the last query and its outcome
          printed   \* a number cJSON printed and what is read from it

numVars == <<value, origin, asked, printed>>

Types == {"int", "unsigned", "bool", "double"}
Values(type) == CASE type = "int" -> (-(2 ^ (Bits - 1)))..(2 ^ (Bits - 1) - 1)
                 [] type = "unsigned" -> 0..(2 ^ Bits - 1)
                 [] type = "bool" -> {0, 1}
                 [] type = "double" -> Doubles

Abs(n) == IF n < 0 THEN -n ELSE n
Sign(n) == IF n < 0 THEN -1 ELSE 1

\* n to the nearest multiple of u, ties to an even one.
Rounded(n, u) ==
    LET q == Abs(n) \div u r == Abs(n) % u
        up == 2 * r > u \/ (2 * r = u /\ q % 2 = 1)
    IN  Sign(n) * (IF up THEN q + 1 ELSE q) * u

\* The exponent of n # 0, and n with only that many leading digits.
Exponent(n) == CHOOSE e \in 0..9 : 10 ^ e <= Abs(n) /\ Abs(n) < 10 ^ (e + 1)
Leading(n, digits) ==
    IF n = 0 \/ Exponent(n) < digits THEN n ELSE Rounded(n, 10 ^ (Exponent(n) - digits + 1))

Dec(n) == [k |-> "dec", n |-> n]
Exp(n) == [k |-> "exp", n |-> n]
Word == [k |-> "word"]
Truth(w) == [k |-> w]

\* XMLUtil::ToStr: %d, %u, %d of 1 or 0, and %g.
ToStr(type, v) ==
    LET r == Leading(v, Digits)
    IN  IF type # "double" \/ Abs(r) < 10 ^ Digits THEN Dec(IF type = "double" THEN r ELSE v) ELSE Exp(r)

\* What %d and %u read: all of a decimal, the digit before the point of a
\* number with an exponent.
Scanned(t) == IF t.k = "dec" THEN t.n ELSE Sign(t.n) * (Abs(t.n) \div (10 ^ Exponent(t.n)))

Wrapped(n) == LET m == n % (2 ^ Bits) IN IF m >= 2 ^ (Bits - 1) THEN m - 2 ^ Bits ELSE m

IsNumber(t) == t.k \in {"dec", "exp"}

\* XMLUtil::ToBool: a number first, else the two words.
ToBool(t) == IF IsNumber(t) THEN (IF Wrapped(Scanned(t)) = 0 THEN 0 ELSE 1) ELSE IF t.k = "true" THEN 1 ELSE 0

\* Mutant: -1 and the like are refused and leave 0.
ReadsClamped(type, t) ==
    CASE type = "int" -> IF Scanned(t) < 0 THEN 0 ELSE Wrapped(Scanned(t))
      [] type = "unsigned" -> Scanned(t) % (2 ^ Bits)
      [] type = "bool" -> ToBool(t)
      [] type = "double" -> t.n

\* The value XMLUtil::ToInt, ToUnsigned, ToBool, ToFloat and ToDouble read.
Reads(type, t) ==
    CASE type = "int" -> Wrapped(Scanned(t))
      [] type = "unsigned" -> Scanned(t) % (2 ^ Bits)
      [] type = "bool" -> ToBool(t)
      [] type = "double" -> t.n

Accepts(type, t) == IsNumber(t) \/ (type = "bool" /\ t.k \in {"true", "false"})

None == [k |-> "none"]
NoOrigin == [type |-> "none", v |-> 0]
Unasked == [type |-> "none", err |-> "", v |-> 0]

NumInit == value = None /\ origin = NoOrigin /\ asked = Unasked /\ printed = <<>>

-----------------------------------------------------------------------------
Written(type, v) ==
    /\ v \in Values(type)
    /\ value' = ToStr(type, v) /\ origin' = [type |-> type, v |-> v] /\ asked' = Unasked
    /\ UNCHANGED printed

\* A number becomes the value of an attribute in the document.
SetNumber(type, v) == Written(type, v)

\* It is streamed to an XMLPrinter, as an attribute or as text, and what was
\* printed is read again.
PushNumberAttribute(type, v) == Written(type, v)
PushNumberText(type, v) == Written(type, v)

\* A value set as a string, or no value.
SetString(t) ==
    /\ value' = t /\ origin' = NoOrigin /\ asked' = Unasked
    /\ UNCHANGED printed

\* Query...Attribute, Query...Text: the caller's variable is written only
\* when the value could be converted (err = "ok").
Answer(type, noValue, wrongType) ==
    IF value = None THEN [type |-> type, err |-> noValue, v |-> 0]
    ELSE IF Accepts(type, value) THEN [type |-> type, err |-> "ok", v |-> Reads(type, value)]
    ELSE [type |-> type, err |-> wrongType, v |-> 0]

QueryAttribute(type) ==
    /\ asked' = Answer(type, "XML_NO_ATTRIBUTE", "XML_WRONG_ATTRIBUTE_TYPE")
    /\ UNCHANGED <<value, origin, printed>>

QueryText(type) ==
    /\ asked' = Answer(type, "XML_NO_TEXT_NODE", "XML_CAN_NOT_CONVERT_TEXT")
    /\ UNCHANGED <<value, origin, printed>>

\* IntAttribute() and the like return 0 when the query fails.
AttributeValue(type) ==
    LET a == Answer(type, "XML_NO_ATTRIBUTE", "XML_WRONG_ATTRIBUTE_TYPE")
    IN  /\ asked' = IF a.err = "ok" THEN a ELSE [a EXCEPT !.err = "default"]
        /\ UNCHANGED <<value, origin, printed>>

\* cJSON's print_number, in hundredths: %d and %.0f for whole numbers, %e for
\* small and for huge ones (two digits here, seven in the code), %f with one
\* decimal (six in the code) for the others.
print_number(d) ==
    IF d % 100 = 0 THEN d
    ELSE IF Abs(d) < 10 \/ Abs(d) > JsonHuge THEN Leading(d, 2)
    ELSE Rounded(d, 10)

\* A number is printed and parse_number reads the digits and the exponent.
PrintNumber(d) ==
    /\ printed = <<>> /\ value = None /\ asked = Unasked /\ printed' = <<d, print_number(d)>>
    /\ UNCHANGED <<value, origin, asked>>

NumNext ==
    \/ /\ origin = NoOrigin /\ printed = <<>>
       /\ \E type \in Types : \E v \in Values(type) :
             SetNumber(type, v) \/ PushNumberAttribute(type, v) \/ PushNumberText(type, v)
    \/ \E t \in {None, Word, Truth("true"), Truth("false")} : SetString(t)
    \/ \E type \in Types : QueryAttribute(type) \/ QueryText(type) \/ AttributeValue(type)
    \/ \E d \in JsonUnits : PrintNumber(d)

-----------------------------------------------------------------------------
(* Properties                                                               *)

\* What was written as an int, an unsigned or a bool is read back as itself,
\* and a double as itself up to half a unit of its last significant digit;
\* below 10 ^ Digits a double is exact, as an int too if it is in the range.
NumberReadsBack ==
    asked.err = "ok" /\ origin # NoOrigin =>
        /\ asked.type = origin.type /\ origin.type # "double" => asked.v = origin.v
        /\ asked.type = "double" /\ origin.type \in {"int", "bool"} => asked.v = origin.v
        /\ asked.type = "double" /\ origin.type = "double" =>
              Abs(asked.v - origin.v) * 2 * 10 ^ (Digits - 1) <= Abs(origin.v)
        /\ origin.type = "double" /\ asked.type = "int" /\ Abs(origin.v) < 10 ^ Digits
              /\ origin.v \in Values("int") => asked.v = origin.v

\* Whether a whole number is zero survives every conversion: written as any
\* type and read as a bool it is true exactly when it was not 0.
TruthKept ==
    asked.err = "ok" /\ asked.type = "bool" /\ origin # NoOrigin => (asked.v = 1) = (origin.v # 0)

\* cJSON prints whole numbers exactly and others within half of the last
\* decimal that %f prints, as long as they are not huge; a number that is not
\* zero, however small, is never printed as zero.
JsonNumberClose ==
    printed # <<>> =>
        /\ printed[1] % 100 = 0 => printed[2] = printed[1]
        /\ Abs(printed[1]) <= JsonHuge => Abs(printed[2] - printed[1]) <= 5
        /\ printed[1] # 0 => printed[2] # 0

=============================================================================
