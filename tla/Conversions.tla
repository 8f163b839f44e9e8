---------------------------- MODULE Conversions ----------------------------
(***************************************************************************)
(* strtol, strtoul and their long long forms (stdlib/conv.rs), and atoi,   *)
(* atol and atoll over them (stdlib/atoi.rs).                              *)
(*                                                                         *)
(* A C string is the sequence of its characters; reading past the end      *)
(* gives the NUL. A pointer into it is the number of characters before it. *)
(* long and long long have the same width on the target, c_int half of it: *)
(* the widths are constants, so that TLC meets every border. The magnitude *)
(* is a u128 in the code and unbounded here.                               *)
(***************************************************************************)
EXTENDS Integers, Sequences, SequencesExt, FiniteSets, FiniteSetsExt, TLC

CONSTANTS
  LONG_BITS,         \* width of long, long long and their unsigned forms
  INT_BITS           \* width of int

\* (limit - digit) is an unsigned subtraction: the largest digit must fit.
ASSUME WidthAssumption ==
  /\ INT_BITS \in Nat \ {0}
  /\ LONG_BITS \in Nat
  /\ INT_BITS < LONG_BITS
  /\ 2^(LONG_BITS - 1) >= 36

MIN_BASE == 2
MAX_BASE == 36
LONG_MAX == 2^(LONG_BITS - 1) - 1
LONG_MIN == -2^(LONG_BITS - 1)
ULONG_MAX == 2^LONG_BITS - 1

EINVAL == "EINVAL"
ERANGE == "ERANGE"
KeptErrno == "kept"      \* errno is as the caller left it
KeptEndptr == -1         \* *endptr is not written
NUL == "NUL"

is_ascii_space(byte) == byte \in {" ", "\t", "\n", "\r"}

\* The letters that matter: the borders of base 16 and 36, and the prefix's x.
Digits ==
  [c \in {"0", "1", "2", "3", "4", "5", "6", "7", "8", "9"} |->
     CHOOSE n \in 0..9 : <<"0", "1", "2", "3", "4", "5", "6", "7", "8", "9">>[n + 1] = c]
    @@ ("a" :> 10 @@ "A" :> 10 @@ "f" :> 15 @@ "F" :> 15 @@ "g" :> 16
          @@ "x" :> 33 @@ "X" :> 33 @@ "z" :> 35 @@ "Z" :> 35)

\* Some(digit) is the number, None is a value no base accepts.
digit_value(byte) == IF byte \in DOMAIN Digits THEN Digits[byte] ELSE MAX_BASE

is_valid_digit_for_base(byte, base) == digit_value(byte) < base

read_byte(nptr, cursor) == IF cursor < Len(nptr) THEN nptr[cursor + 1] ELSE NUL

\* The first position at or after `from' whose character is not in the run.
FirstNot(nptr, from, Holds(_)) ==
  CHOOSE n \in from..Len(nptr) :
    /\ ~Holds(read_byte(nptr, n))
    /\ \A i \in from..(n - 1) : Holds(read_byte(nptr, i))

HasHexPrefix(nptr, at) ==
  /\ read_byte(nptr, at) = "0"
  /\ read_byte(nptr, at + 1) \in {"x", "X"}
  /\ is_valid_digit_for_base(read_byte(nptr, at + 2), 16)

resolved_base(nptr, base, at) ==
  CASE base # 0                              -> base
    [] base = 0 /\ HasHexPrefix(nptr, at)    -> 16
    [] base = 0 /\ ~HasHexPrefix(nptr, at)
         /\ read_byte(nptr, at) = "0"        -> 8
    [] OTHER                                 -> 10

\* Mutant: the cutoff ignores the digit, so the last step may pass the limit.
MutAccumulate_Cutoff(run, digit, radix, limit) ==
  IF run.overflow THEN run
  ELSE IF run.value > limit \div radix
       THEN [value |-> limit, overflow |-> TRUE]
       ELSE [run EXCEPT !.value = @ * radix + digit]

\* One turn of the digit loop; after an overflow the digits are only skipped.
Accumulate(run, digit, radix, limit) ==
  IF run.overflow THEN run
  ELSE IF run.value > (limit - digit) \div radix
       THEN [value |-> limit, overflow |-> TRUE]
       ELSE [run EXCEPT !.value = @ * radix + digit]

ParseFailure(status, negative) ==
  [value |-> 0, end |-> 0, status |-> status, overflow |-> FALSE, negative |-> negative]

\* The digits from `start' on.
ScanDigits(nptr, start, radix, limit, negative) ==
  LET IsDigit(c) == is_valid_digit_for_base(c, radix)
      scan == FirstNot(nptr, start, IsDigit)
      run  == FoldLeft(LAMBDA r, c : Accumulate(r, digit_value(c), radix, limit),
                       [value |-> 0, overflow |-> FALSE], SubSeq(nptr, start + 1, scan))
  IN IF scan = start THEN ParseFailure("NoConversion", negative)
     ELSE [value |-> run.value, end |-> scan, status |-> "Converted",
           overflow |-> run.overflow, negative |-> negative]

parse_unsigned_magnitude(nptr, base, limit) ==
  LET cursor   == FirstNot(nptr, 0, is_ascii_space)
      sign     == read_byte(nptr, cursor)
      negative == sign = "-"
      InRadix(radix, digits_ptr) ==
        ScanDigits(nptr,
                   IF radix = 16 /\ HasHexPrefix(nptr, digits_ptr)
                   THEN digits_ptr + 2 ELSE digits_ptr,
                   radix, limit, negative)
      From(digits_ptr) == InRadix(resolved_base(nptr, base, digits_ptr), digits_ptr)
  IN IF base # 0 /\ base \notin MIN_BASE..MAX_BASE
     THEN ParseFailure("InvalidBase", negative)
     ELSE From(IF sign \in {"+", "-"} THEN cursor + 1 ELSE cursor)

\* What a call leaves: its answer, *endptr and errno.
ConversionAnswer(value, end, errno) == [value |-> value, endptr |-> end, errno |-> errno]

strtol(nptr, base) ==
  LET Clamped(parsed) ==
        LET positive_overflow == ~parsed.negative /\ parsed.value > LONG_MAX
        IN CASE parsed.status = "InvalidBase" -> ConversionAnswer(0, KeptEndptr, EINVAL)
             [] parsed.status # "InvalidBase" /\ (parsed.overflow \/ positive_overflow) ->
                  ConversionAnswer(IF parsed.negative THEN LONG_MIN ELSE LONG_MAX,
                                   parsed.end, ERANGE)
             [] OTHER ->
                  ConversionAnswer(IF parsed.negative THEN -parsed.value ELSE parsed.value,
                                   parsed.end, KeptErrno)
  IN Clamped(parse_unsigned_magnitude(nptr, base, LONG_MAX + 1))

strtoll(nptr, base) == strtol(nptr, base)

strtoul(nptr, base) ==
  LET Wrapped(parsed) ==
        CASE parsed.status = "InvalidBase" -> ConversionAnswer(0, KeptEndptr, EINVAL)
          [] parsed.overflow -> ConversionAnswer(ULONG_MAX, parsed.end, ERANGE)
          [] OTHER ->
               ConversionAnswer(IF parsed.negative THEN (-parsed.value) % 2^LONG_BITS
                                ELSE parsed.value, parsed.end, KeptErrno)
  IN Wrapped(parse_unsigned_magnitude(nptr, base, ULONG_MAX))

strtoull(nptr, base) == strtoul(nptr, base)

restore_errno_if_no_conversion(answer) ==
  IF answer.endptr = 0 THEN [answer EXCEPT !.errno = KeptErrno] ELSE answer

\* atol; the null pointer is the string Null.
parse_decimal_long(nptr, is_null) ==
  IF is_null THEN ConversionAnswer(0, KeptEndptr, EINVAL)
  ELSE restore_errno_if_no_conversion(strtol(nptr, 10))

\* atoll
parse_decimal_long_long(nptr, is_null) ==
  IF is_null THEN ConversionAnswer(0, KeptEndptr, EINVAL)
  ELSE restore_errno_if_no_conversion(strtoll(nptr, 10))

c_long_to_c_int_wrapping(value) ==
  LET wrapped == value % 2^INT_BITS
  IN IF wrapped >= 2^(INT_BITS - 1) THEN wrapped - 2^INT_BITS ELSE wrapped

atoi(nptr, is_null) ==
  LET parsed == parse_decimal_long(nptr, is_null)
  IN [parsed EXCEPT !.value = c_long_to_c_int_wrapping(@)]

-----------------------------------------------------------------------------
(* The reference: the longest prefix of the form spaces, sign, numeral.    *)

\* The numeral nptr[from + 1..to] in the notation of the base, and its radix.
IsNumeral(nptr, from, to, base, radix) ==
  LET hex   == /\ base \in {0, 16}
               /\ read_byte(nptr, from) = "0"
               /\ read_byte(nptr, from + 1) \in {"x", "X"}
               /\ to > from + 2
      first == IF hex /\ radix = 16 THEN from + 2 ELSE from
  IN /\ to > first
     /\ \A i \in first..(to - 1) : digit_value(read_byte(nptr, i)) < radix
     /\ \/ base = radix
        \/ base = 0 /\ radix = 16 /\ hex
        \/ base = 0 /\ radix = 8 /\ read_byte(nptr, from) = "0"
        \/ base = 0 /\ radix = 10 /\ read_byte(nptr, from) # "0"

\* Where a numeral may begin: behind spaces and at most one sign.
NumeralStarts(nptr) ==
  {from \in 0..Len(nptr) : \E signed \in {from - 1, from} :
     /\ \A i \in 0..(signed - 1) : is_ascii_space(read_byte(nptr, i))
     /\ signed < from => signed >= 0 /\ read_byte(nptr, signed) \in {"+", "-"}}

Readings(nptr, base) ==
  {r \in [from : NumeralStarts(nptr), to : 1..Len(nptr),
          radix : IF base = 0 THEN {8, 10, 16} ELSE {base}] :
     IsNumeral(nptr, r.from, r.to, base, r.radix)}

\* The positional value of the digits of a reading; a prefix's digits give 0.
NumeralValue(nptr, r) ==
  LET start == IF /\ r.radix = 16 /\ r.from + 2 < r.to
                  /\ read_byte(nptr, r.from + 1) \in {"x", "X"}
               THEN r.from + 2 ELSE r.from
  IN MapThenSumSet(LAMBDA i : digit_value(read_byte(nptr, i)) * r.radix^(r.to - 1 - i),
                   start..(r.to - 1))

\* The integer a C string denotes in a base, with the characters it takes.
Denotes(nptr, base) ==
  LET readings == Readings(nptr, base)
      longest == CHOOSE r \in readings : \A other \in readings : other.to <= r.to
      minus   == longest.from > 0 /\ read_byte(nptr, longest.from - 1) = "-"
  IN IF readings = {} THEN [value |-> 0, taken |-> 0, minus |-> FALSE]
     ELSE [value |-> NumeralValue(nptr, longest), taken |-> longest.to, minus |-> minus]

(* Every conversion gives the integer that the longest numeral at the head *)
(* of the string denotes, or the end of its type nearest to it with        *)
(* ERANGE, and *endptr is the end of that numeral (the string itself when  *)
(* there is none): conv.rs's prefix detection, sign and cutoff arithmetic  *)
(* at the borders of the type. atoi narrows the clamped long.              *)
NumbersAreDenoted(nptr, base) ==
  LET Denoted(d, exact, signed, plain, narrow) ==
        /\ signed.endptr = d.taken
        /\ plain.endptr = d.taken
        /\ IF exact \in LONG_MIN..LONG_MAX
           THEN signed.value = exact /\ signed.errno = KeptErrno
           ELSE /\ signed.value = IF d.minus THEN LONG_MIN ELSE LONG_MAX
                /\ signed.errno = ERANGE
        /\ IF d.value <= ULONG_MAX
           THEN plain.value = exact % 2^LONG_BITS /\ plain.errno = KeptErrno
           ELSE plain.value = ULONG_MAX /\ plain.errno = ERANGE
        /\ base = 10 =>
             /\ parse_decimal_long(nptr, FALSE) = signed
             /\ (narrow - signed.value) % 2^INT_BITS = 0
             /\ narrow \in -2^(INT_BITS - 1)..(2^(INT_BITS - 1) - 1)
      ByReference(d) == Denoted(d, IF d.minus THEN -d.value ELSE d.value, strtol(nptr, base),
                                strtoul(nptr, base), atoi(nptr, FALSE).value)
  IN ByReference(Denotes(nptr, base))

=============================================================================
