------------------------------- MODULE AltPrintf -------------------------------
(***************************************************************************)
(* The two formatters of the HAL: alt_printf() (HAL/src/alt_printf.c) and  *)
(* alt_log_private_printf() (HAL/src/alt_log_printf.c), which read a       *)
(* format character by character and print numbers, characters and         *)
(* strings.  long and int have the same width, so fmtLong, which 'l' sets, *)
(* changes nothing; of what stands after a decimal point only that it does *)
(* matters; whether hexadecimal letters are large or small does not.       *)
(***************************************************************************)
EXTENDS Integers, Sequences, FiniteSets

CONSTANTS
  WordBits,      \* of unsigned long: 32 in the code
  Args,          \* values the program prints
  Lengths,       \* of the strings it prints
  MaxFormat      \* bound on the characters of a directive

ASSUME PrintfAssumption ==
  /\ WordBits \in Nat /\ WordBits % 4 = 0 /\ WordBits > 0
  /\ Args \subseteq 0 .. 2^WordBits - 1
  /\ Lengths \subseteq Nat

\* What powers are, of the bases and for the exponents that occur.
ASSUME BasePowersAssumption ==
  /\ \A b \in {2, 8, 10, 16} : b^0 = 1
  /\ \A n \in 0 .. WordBits - 1 : 2^n \in Nat /\ 2^(n + 1) = 2 * 2^n
  /\ \A b \in {8, 10, 16} : \A n \in 0 .. WordBits \div 3 :
       b^n \in Nat /\ b^(n + 1) = b * b^n

VARIABLES
  printer,       \* "alt_log" or "alt_printf"
  pfState,
  fmt,           \* the fields of a directive
  directive,     \* what was read of it
  arg,           \* what it prints
  text           \* printed for it

printfVars == <<printer, pfState, fmt, directive, arg, text>>

-----------------------------------------------------------------------------
\* Characters printed: the digits 0 to 15, and
Minus == 16
Blank == 17
Literal == 18     \* any other

\* Characters of a format: 'd' stands for 'd' and 'i', 'x' for 'x' and 'X'.
DigitOf == [c \in {"0", "1", "2"} |-> CASE c = "0" -> 0 [] c = "1" -> 1 [] c = "2" -> 2]
Base == [c \in {"d", "u", "o", "x"} |->
           CASE c \in {"d", "u"} -> 10 [] c = "o" -> 8 [] c = "x" -> 16]
Letters == DOMAIN Base \cup {"c", "s", "other"}
FormatChars == {"%", ".", "l"} \cup DOMAIN DigitOf \cup Letters

NoFields == [fmtLeadingZero |-> FALSE, fmtBeforeDecimal |-> -1, fmtAfterDecimal |-> FALSE]

\* c, r times, or not at all.
alt_log_repchar(c, r) == [k \in 1 .. r |-> c]

-----------------------------------------------------------------------------
\* The digits of v from the largest place value down; a digit has three bits or more.
DigitCount(v, base) == 1 + Cardinality({k \in 1 .. WordBits \div 3 : v \div base^k > 0})
DigitsOf(v, base, count) == [k \in 1 .. count |-> (v \div base^(count - k)) % base]

Negative(v) == v >= 2^(WordBits - 1)
Strip(v) == (2^WordBits - v) % 2^WordBits

\* Variant: the sign takes no place of the width.
SignOutside(f, sign, count) == f.fmtBeforeDecimal - count

\* Characters missing to the width asked for.
Missing(f, sign, count) == f.fmtBeforeDecimal - count - Len(sign)

IntegerText(letter, f, value) ==
  LET sign == IF letter = "d" /\ Negative(value) THEN <<Minus>> ELSE <<>>
      v == IF sign = <<>> THEN value ELSE Strip(value)
      digits == DigitsOf(v, Base[letter], DigitCount(v, Base[letter]))
      missing == Missing(f, sign, Len(digits))
  IN  IF f.fmtLeadingZero
      THEN sign \o alt_log_repchar(0, missing) \o digits
      ELSE alt_log_repchar(Blank, missing) \o sign \o digits

StringText(f, length) ==
  alt_log_repchar(Blank, f.fmtBeforeDecimal - length) \o alt_log_repchar(Literal, length)

\* What may be printed for a letter.
ArgsOf(letter) ==
  CASE letter \in DOMAIN Base -> Args
    [] letter = "s" -> Lengths
    [] OTHER -> {1}

LogText(letter, f, value) ==
  CASE letter \in DOMAIN Base -> IntegerText(letter, f, value)
    [] letter \in {"c", "s"} -> StringText(f, value)
    [] OTHER -> <<>>

\* The %x of alt_printf() looks for the first digit that is not zero.
FirstShift(v) == CHOOSE s \in 0 .. WordBits \div 4 - 1 : v \div 16^s \in 1 .. 15
AltText(letter, value) ==
  CASE letter = "x" -> IF value = 0 THEN <<0>>
                       ELSE DigitsOf(value, 16, FirstShift(value) + 1)
    [] letter \in {"c", "s"} -> alt_log_repchar(Literal, value)
    [] OTHER -> <<>>

-----------------------------------------------------------------------------
PrintfInit ==
  /\ printer \in {"alt_log", "alt_printf"}
  /\ pfState = "chars" /\ fmt = NoFields
  /\ directive = <<>> /\ arg = 0 /\ text = <<>>

Shown(chars) == text' = chars /\ pfState' = "chars"

CharsState(c) ==
  /\ pfState = "chars"
  /\ arg' = 0
  /\ IF c = "%"
     THEN /\ fmt' = NoFields /\ directive' = <<>> /\ text' = <<>>
          /\ pfState' = IF printer = "alt_log" THEN "firstFmtChar" ELSE "escape"
     ELSE Shown(<<Literal>>) /\ fmt' = fmt /\ directive' = <<>>

\* '.', a digit or 'l' changes a field, a letter ends the directive.
Fields(c) ==
  CASE c = "." -> [fmt EXCEPT !.fmtAfterDecimal = TRUE]
    [] c \in DOMAIN DigitOf /\ ~fmt.fmtAfterDecimal ->
         [fmt EXCEPT !.fmtBeforeDecimal = (IF @ < 0 THEN 0 ELSE @ * 10) + DigitOf[c]]
    [] OTHER -> fmt

OtherFmtChar(c) ==
  IF c \in {".", "l"} \cup DOMAIN DigitOf
  THEN fmt' = Fields(c) /\ pfState' = "otherFmtChar" /\ UNCHANGED <<arg, text>>
  ELSE /\ arg' \in ArgsOf(c)
       /\ Shown(LogText(c, fmt, arg'))
       /\ UNCHANGED fmt

FmtCharState(c) ==
  /\ pfState \in {"firstFmtChar", "otherFmtChar"}
  /\ directive' = Append(directive, c)
  /\ \/ /\ pfState = "firstFmtChar" /\ c = "0"
        /\ fmt' = [fmt EXCEPT !.fmtLeadingZero = TRUE]
        /\ pfState' = "otherFmtChar"
        /\ UNCHANGED <<arg, text>>
     \/ /\ pfState = "firstFmtChar" /\ c = "%"
        /\ Shown(<<Literal>>)
        /\ UNCHANGED <<fmt, arg>>
     \/ /\ pfState = "firstFmtChar" => c \notin {"0", "%"}
        /\ OtherFmtChar(c)

\* alt_printf() knows no fields: the character after '%' is the directive.
EscapeState(c) ==
  /\ pfState = "escape"
  /\ directive' = <<c>>
  /\ arg' \in ArgsOf(c)
  /\ Shown(IF c = "%" THEN <<Literal>> ELSE AltText(c, arg'))
  /\ UNCHANGED fmt

NextChar(c) == CharsState(c) \/ FmtCharState(c) \/ EscapeState(c)

\* The format ends, perhaps within a directive, and another is printed.
NextFormat ==
  /\ printer' \in {"alt_log", "alt_printf"}
  /\ pfState' = "chars" /\ fmt' = NoFields
  /\ directive' = <<>> /\ arg' = 0 /\ text' = <<>>

PrintfNext ==
  \/ NextFormat
  \/ \E c \in FormatChars :
       /\ pfState = "otherFmtChar" /\ Len(directive) >= MaxFormat => c \in Letters
       /\ NextChar(c)
       /\ UNCHANGED printer

PrintfSpec == PrintfInit /\ [][PrintfNext]_printfVars

-----------------------------------------------------------------------------
PrintfTypeOK ==
  /\ printer \in {"alt_log", "alt_printf"}
  /\ pfState \in {"chars", "firstFmtChar", "otherFmtChar", "escape"}
  /\ fmt.fmtBeforeDecimal \in Nat \cup {-1}
  /\ directive \in Seq(FormatChars)
  /\ text \in Seq(0 .. 15 \cup {Minus, Blank, Literal})

\* What a sequence of characters denotes: its digits, and nothing else, count.
Number(chars, base) ==
  LET n[k \in 0 .. Len(chars)] ==
        IF k = 0 THEN 0 ELSE IF chars[k] < 16 THEN base * n[k - 1] + chars[k] ELSE n[k - 1]
  IN  n[Len(chars)]

\* The width a directive asks for: the digits before the point.
InWidth(d, k) == d[k] \in DOMAIN DigitOf /\ \A p \in 1 .. k : d[p] # "."
WidthOf(d) ==
  Number([k \in 1 .. Len(d) |-> IF InWidth(d, k) THEN DigitOf[d[k]] ELSE Literal], 10)

Shows(chars, c) == \E k \in 1 .. Len(chars) : chars[k] = c

\* The number a text shows, and that it is a numeral: blanks, a sign, digits.
ShownNumber(chars, base) ==
  IF Shows(chars, Minus) THEN -Number(chars, base) ELSE Number(chars, base)

Numeral(chars) ==
  /\ chars # <<>> /\ chars[Len(chars)] < 16
  /\ \A k \in 1 .. Len(chars) - 1 : chars[k + 1] \in {Blank, Minus} => chars[k] = Blank

\* No character of the numeral could be left out.
Shortest(chars) ==
  LET head == IF chars[1] = Minus THEN 2 ELSE 1
  IN  chars[1] # Blank /\ (chars[head] = 0 => Len(chars) = head)

ValueOf(letter, value) ==
  IF letter = "d" /\ Negative(value) THEN value - 2^WordBits ELSE value

(***************************************************************************)
(* A printed number reads back as the number, the most negative one        *)
(* included, and takes the width the directive asks for if it fits, filled *)
(* on the left with zeros or blanks, and no more characters than it needs  *)
(* if it does not (alt_log_printf.c:196-287, alt_printf.c:73-101).  A      *)
(* directive within another, an unknown letter and the end of a format in  *)
(* the middle of a directive leave nothing behind for the next number.     *)
(***************************************************************************)
NumbersReadBack ==
  LET letter == directive[Len(directive)]
      width == WidthOf(directive)
  IN  (/\ pfState = "chars" /\ directive # <<>> /\ letter \in DOMAIN Base
       /\ printer = "alt_printf" => letter = "x") =>
        /\ Numeral(text)
        /\ ShownNumber(text, Base[letter]) = ValueOf(letter, arg)
        /\ Len(text) >= width
        /\ Len(text) > width => Shortest(text)
        /\ Head(directive) = "0" => ~Shows(text, Blank)
=============================================================================
