------------------------------- MODULE Format -------------------------------
(***************************************************************************)
(* The formatter of stdio/mod.rs: vsnprintf and the analysis vfprintf      *)
(* makes of a format before it hands it to the host.                       *)
(*                                                                         *)
(* A format is a sequence of pieces: a character [char], or a directive    *)
(* [flags, width, precision, length, conversion] as it is written, with    *)
(* width and precision NoCount, FromArgs or <<n>>. Text is a sequence of   *)
(* characters. An argument word is a number below 2^LONG_WIDTH; the        *)
(* widths of the C types are constants. Pointers of %s are words; Strings  *)
(* gives what they point to.                                               *)
(***************************************************************************)
EXTENDS Integers, Sequences, SequencesExt, FiniteSets, FiniteSetsExt

CONSTANTS
  CHAR_WIDTH, SHORT_WIDTH, INT_WIDTH, LONG_WIDTH,
  MAX_RETURN,        \* c_int::MAX as a length
  Strings            \* word |-> text, for the words that point to a string

NoCount == <<>>      \* None of an Option<CountSpec> or Option<usize>
FromArgs == <<-1>>   \* a count no literal has
NEWLINE == "\n"

IsChar(piece) == "char" \in DOMAIN piece

LengthModifiers == {"", "hh", "h", "l", "ll", "j", "t", "z"}
is_integer_conversion(c) == c \in {"d", "i", "u", "x", "X", "o"}
is_float_conversion(c) == c \in {"f", "F", "e", "E", "g", "G", "a", "A"}

\* parse_format_directive's verdict on a directive; `L' is never parsed.
Accepted(d) ==
  /\ d.length \in LengthModifiers
  /\ CASE d.conversion \in {"s", "c"} ->
            d.length = "" /\ d.flags \subseteq {"-"}
       [] d.conversion = "p" -> d.length = ""
       [] is_float_conversion(d.conversion) -> d.length \in {"", "l"}
       [] d.conversion = "n" -> TRUE
       [] is_integer_conversion(d.conversion) ->
            /\ {"+", " "} \cap d.flags # {} => d.conversion \in {"d", "i"}
            /\ "#" \in d.flags => d.conversion \in {"x", "X", "o"}
       [] OTHER -> FALSE

-----------------------------------------------------------------------------
(* VarArgCursor: the words left in the register save area and in the       *)
(* overflow area, and the floating-point registers left.                   *)

FromVaList(gp, fp, overflow) == [gp |-> gp, fp |-> fp, overflow |-> overflow]

\* What lies behind the last argument is not the caller's: read as 0 here.
next_u64(cursor) ==
  IF cursor.gp # <<>>
  THEN [value |-> Head(cursor.gp), cursor |-> [cursor EXCEPT !.gp = Tail(@)]]
  ELSE IF cursor.overflow # <<>>
  THEN [value |-> Head(cursor.overflow), cursor |-> [cursor EXCEPT !.overflow = Tail(@)]]
  ELSE [value |-> 0, cursor |-> cursor]

Signed(word, width) ==
  LET low == word % 2^width IN IF low >= 2^(width - 1) THEN low - 2^width ELSE low

WidthOf(length) ==
  CASE length = ""   -> INT_WIDTH
    [] length = "hh" -> CHAR_WIDTH
    [] length = "h"  -> SHORT_WIDTH
    [] OTHER         -> LONG_WIDTH

\* read_signed_argument, with next_c_int and the narrowing helpers.
read_signed_argument(word, length) == Signed(word, WidthOf(length))
read_unsigned_argument(word, length) == word % 2^WidthOf(length)

skip_long_double(cursor) == [cursor EXCEPT !.overflow = SubSeq(@, 3, Len(@))]

\* resolve_width and resolve_precision: the value and the cursor behind it.
resolve_width(spec, cursor, left_align) ==
  LET next  == next_u64(cursor)
      value == Signed(next.value, INT_WIDTH)
  IN CASE spec = NoCount  -> [value |-> 0, left |-> left_align, cursor |-> cursor]
       [] spec = FromArgs -> [value |-> IF value < 0 THEN -value ELSE value,
                              left |-> left_align \/ value < 0, cursor |-> next.cursor]
       [] OTHER -> [value |-> spec[1], left |-> left_align, cursor |-> cursor]

resolve_precision(spec, cursor) ==
  LET next  == next_u64(cursor)
      value == Signed(next.value, INT_WIDTH)
  IN CASE spec = FromArgs -> [value |-> IF value < 0 THEN NoCount ELSE <<value>>,
                              cursor |-> next.cursor]
       [] OTHER -> [value |-> spec, cursor |-> cursor]

-----------------------------------------------------------------------------
(* OutputSink: what is stored and how much there would be.                 *)

EmptySink(capacity) == [stored |-> <<>>, required |-> 0, capacity |-> capacity]

\* Mutant: the last byte of the buffer is not kept for the terminator.
MutPushBytes_NoRoomForNul(sink, bytes) ==
  LET writable == sink.capacity - Len(sink.stored)
  IN [sink EXCEPT !.required = @ + Len(bytes),
                  !.stored = IF writable <= 0 THEN @
                             ELSE @ \o SubSeq(bytes, 1, IF writable < Len(bytes)
                                                        THEN writable ELSE Len(bytes))]

\* push_byte, push_repeated and push_bytes; the buffer keeps room for NUL.
push_bytes(sink, bytes) ==
  LET writable == sink.capacity - 1 - Len(sink.stored)
  IN [sink EXCEPT !.required = @ + Len(bytes),
                  !.stored = IF writable <= 0 THEN @
                             ELSE @ \o SubSeq(bytes, 1, IF writable < Len(bytes)
                                                        THEN writable ELSE Len(bytes))]

Repeated(c, n) == [i \in 1..n |-> c]
Padding(width, content_len) == Repeated(" ", IF width > content_len THEN width - content_len ELSE 0)

DigitChars == <<"0", "1", "2", "3", "4", "5", "6", "7", "8", "9", "a", "b", "c", "d", "e", "f">>
UpperChars == <<"0", "1", "2", "3", "4", "5", "6", "7", "8", "9", "A", "B", "C", "D", "E", "F">>
digit_to_ascii(value, uppercase) == (IF uppercase THEN UpperChars ELSE DigitChars)[value + 1]

unsigned_to_ascii(value, base, uppercase) ==
  LET digits[v \in 0..value] ==
        IF v = 0 THEN <<>>
        ELSE Append(digits[v \div base], digit_to_ascii(v % base, uppercase))
  IN IF value = 0 THEN <<"0">> ELSE digits[value]

\* The layout both renderers share: padding, sign, prefix, zeros, digits.
Laid(left_align, zero_pad, width, sign, prefix, zeros, digits) ==
  LET content == sign \o prefix \o Repeated("0", zeros) \o digits
      pad     == Padding(width, Len(content))
  IN CASE left_align -> content \o pad
       [] ~left_align /\ zero_pad ->
            sign \o prefix \o Repeated("0", Len(pad) + zeros) \o digits
       [] OTHER -> pad \o content

SubtractSaturating(a, b) == IF a > b THEN a - b ELSE 0

\* Mutant: an explicit precision leaves the octal prefix out.
MutRenderInteger_OctalPrecision(d, left_align, width, precision, value, is_negative) ==
  LET base   == CASE d.conversion = "o" -> 8 [] d.conversion \in {"x", "X"} -> 16 [] OTHER -> 10
      signed == d.conversion \in {"d", "i"}
      sign   == CASE is_negative -> <<"-">>
                  [] ~is_negative /\ signed /\ "+" \in d.flags -> <<"+">>
                  [] ~is_negative /\ signed /\ "+" \notin d.flags /\ " " \in d.flags -> <<" ">>
                  [] OTHER -> <<>>
      digits == IF precision = <<0>> /\ value = 0 THEN <<>>
                ELSE unsigned_to_ascii(value, base, d.conversion = "X")
      prefix == CASE value # 0 /\ "#" \in d.flags /\ d.conversion = "x" -> <<"0", "x">>
                  [] value # 0 /\ "#" \in d.flags /\ d.conversion = "X" -> <<"0", "X">>
                  [] "#" \in d.flags /\ d.conversion = "o" /\ precision = NoCount /\ value # 0 -> <<"0">>
                  [] OTHER -> <<>>
      zeros  == IF precision = NoCount THEN 0 ELSE SubtractSaturating(precision[1], Len(digits))
  IN Laid(left_align, "0" \in d.flags /\ precision = NoCount, width, sign, prefix, zeros, digits)

render_formatted_integer(d, left_align, width, precision, value, is_negative) ==
  LET base   == CASE d.conversion = "o" -> 8 [] d.conversion \in {"x", "X"} -> 16 [] OTHER -> 10
      signed == d.conversion \in {"d", "i"}
      sign   == CASE is_negative -> <<"-">>
                  [] ~is_negative /\ signed /\ "+" \in d.flags -> <<"+">>
                  [] ~is_negative /\ signed /\ "+" \notin d.flags /\ " " \in d.flags -> <<" ">>
                  [] OTHER -> <<>>
      digits == IF precision = <<0>> /\ value = 0 THEN <<>>
                ELSE unsigned_to_ascii(value, base, d.conversion = "X")
      octal  == d.conversion = "o" /\ "#" \in d.flags
      prefix == CASE value # 0 /\ "#" \in d.flags /\ d.conversion = "x" -> <<"0", "x">>
                  [] value # 0 /\ "#" \in d.flags /\ d.conversion = "X" -> <<"0", "X">>
                  [] octal /\ \/ value = 0 /\ precision = <<0>>
                              \/ value # 0 /\ precision = NoCount -> <<"0">>
                  [] OTHER -> <<>>
      effective_precision ==
        IF octal /\ value # 0 /\ precision # NoCount
        THEN <<Max({precision[1], Len(digits) + 1})>> ELSE precision
      zeros == IF effective_precision = NoCount THEN 0
               ELSE SubtractSaturating(effective_precision[1], Len(digits))
  IN Laid(left_align, "0" \in d.flags /\ effective_precision = NoCount,
          width, sign, prefix, zeros, digits)

render_formatted_pointer(d, left_align, width, precision, address) ==
  LET sign   == CASE "+" \in d.flags -> <<"+">>
                  [] "+" \notin d.flags /\ " " \in d.flags -> <<" ">>
                  [] OTHER -> <<>>
      digits == unsigned_to_ascii(address, 16, FALSE)
      zeros  == IF precision = NoCount THEN 0 ELSE SubtractSaturating(precision[1], Len(digits))
  IN Laid(left_align, "0" \in d.flags /\ precision = NoCount, width, sign, <<"0", "x">>, zeros, digits)

\* The part of a string a precision admits; a null pointer has a stand-in.
StringText(word, precision) ==
  LET whole == IF word = 0 THEN <<"(", "n", "u", "l", "l", ")">> ELSE Strings[word]
  IN IF precision = NoCount \/ precision[1] >= Len(whole) THEN whole
     ELSE SubSeq(whole, 1, precision[1])

\* The byte %c writes: the newline's code is 1 here, the others are alike.
CharText(word) == IF word % 2^CHAR_WIDTH = 1 THEN <<NEWLINE>> ELSE <<"c">>

\* write_count_conversion fits the count into the pointed-to type.
CountFits(length, count) ==
  /\ count <= MAX_RETURN
  /\ length \in {"hh", "h"} => count < 2^(WidthOf(length) - 1)

\* The text of a directive whose counts and argument word are known.
DirectiveText(d, width, precision, word) ==
  LET Padded(text) == IF width.left THEN text \o Padding(width.value, Len(text))
                      ELSE Padding(width.value, Len(text)) \o text
      Integer(value) == render_formatted_integer(d, width.left, width.value, precision,
                          IF value < 0 THEN -value ELSE value, value < 0)
  IN CASE d.conversion = "s" -> Padded(StringText(word, precision))
       [] d.conversion = "c" -> Padded(CharText(word))
       [] d.conversion = "p" ->
            render_formatted_pointer(d, width.left, width.value, precision, word)
       [] d.conversion \in {"d", "i"} -> Integer(read_signed_argument(word, d.length))
       [] d.conversion = "n" -> <<>>
       [] OTHER -> Integer(read_unsigned_argument(word, d.length))

DirectiveFails(d, precision, word, count) ==
  \/ ~Accepted(d)
  \/ is_float_conversion(d.conversion)
  \/ d.conversion = "c" /\ precision # NoCount
  \/ d.conversion = "n" /\ (word = 0 \/ ~CountFits(d.length, count))

\* One directive: the text it adds, the count it stores and the cursor
\* behind it, or a failure.
Convert(d, cursor, count) ==
  LET Filled(width, precision, next) ==
        IF DirectiveFails(d, precision, next.value, count)
        THEN [failed |-> TRUE, text |-> <<>>, cursor |-> cursor]
        ELSE [failed |-> FALSE, text |-> DirectiveText(d, width, precision, next.value),
              cursor |-> next.cursor]
      Counted(width, precision) == Filled(width, precision.value, next_u64(precision.cursor))
      Measured(width) == Counted(width, resolve_precision(d.precision, width.cursor))
  IN Measured(resolve_width(d.width, cursor, "-" \in d.flags))

\* One turn of the loop; a failure ends it with what is stored so far.
FormatPiece(run, piece) ==
  LET Add(step) == [sink   |-> push_bytes(run.sink, step.text),
                    cursor |-> step.cursor, failed |-> step.failed]
  IN IF run.failed THEN run
     ELSE IF IsChar(piece) THEN [run EXCEPT !.sink = push_bytes(@, <<piece.char>>)]
     ELSE Add(Convert(piece, run.cursor, run.sink.required))

FormatLoop(format, cursor, capacity) ==
  FoldLeft(FormatPiece,
           [sink |-> EmptySink(capacity), cursor |-> cursor, failed |-> FALSE], format)

\* The text before the terminator, and the value returned.
vsnprintf(capacity, format, cursor) ==
  LET Returned(end) ==
        [stored |-> end.sink.stored,
         answer |-> IF end.failed THEN -1
                    ELSE IF end.sink.required > MAX_RETURN THEN MAX_RETURN
                    ELSE end.sink.required]
  IN Returned(FormatLoop(format, cursor, capacity))

internal_vfprintf_supports_directive(d) ==
  /\ ~is_float_conversion(d.conversion)
  /\ ~(d.conversion = "c" /\ d.precision # NoCount)

internal_vfprintf_supports_format(format) ==
  \A n \in DOMAIN format :
    IsChar(format[n]) \/ (Accepted(format[n]) /\ internal_vfprintf_supports_directive(format[n]))

-----------------------------------------------------------------------------
(* formatted_output_requires_host_line_buffer_flush: whether a newline may *)
(* be written, found without rendering.                                    *)

\* Mutant: a double that was passed in memory is not stepped over.
MutAdvanceFloat_RegistersOnly(cursor, length) ==
  IF length = "l" THEN skip_long_double(cursor)
  ELSE [cursor EXCEPT !.fp = IF @ > 0 THEN @ - 1 ELSE @]

advance_line_buffer_float_argument(cursor, length) ==
  CASE length = "l" -> skip_long_double(cursor)
    [] length # "l" /\ cursor.fp > 0 -> [cursor EXCEPT !.fp = @ - 1]
    [] OTHER -> [cursor EXCEPT !.overflow = SubSeq(@, 2, Len(@))]

\* Whether the directive stops the analysis with "flush", and the cursor.
Analyse(d, cursor) ==
  LET width == resolve_width(d.width, cursor, "-" \in d.flags)
      prec  == resolve_precision(d.precision, width.cursor)
      next  == next_u64(prec.cursor)
      float == is_float_conversion(d.conversion)
  IN [flush |-> \/ ~Accepted(d)
                \/ ~(internal_vfprintf_supports_directive(d) \/ float)
                \/ /\ d.conversion = "s" /\ next.value # 0
                   /\ NEWLINE \in ToSet(StringText(next.value, prec.value))
                \/ d.conversion = "c" /\ CharText(next.value) = <<NEWLINE>>
                \/ d.conversion = "n" /\ next.value = 0,
      cursor |-> IF float THEN advance_line_buffer_float_argument(prec.cursor, d.length)
                 ELSE next.cursor]

requires_line_buffer_flush(format, cursor) ==
  LET run[n \in 0..Len(format)] ==
        IF n = 0 THEN [flush |-> FALSE, cursor |-> cursor]
        ELSE IF run[n - 1].flush THEN run[n - 1]
        ELSE IF IsChar(format[n])
        THEN [run[n - 1] EXCEPT !.flush = format[n].char = NEWLINE]
        ELSE Analyse(format[n], run[n - 1].cursor)
  IN run[Len(format)].flush

-----------------------------------------------------------------------------
(* Properties.                                                             *)

(* Whatever the size of the buffer, vsnprintf stores a prefix of the text  *)
(* that a buffer without limit would hold, leaves room for the NUL, and    *)
(* answers the same length: a caller that measures first and renders then  *)
(* (forward_internal_vfprintf) gets the whole text (stdio/mod.rs,          *)
(* OutputSink's clamping and the early ends of the loop).                  *)
TruncationIsAPrefix(format, cursor, capacity) ==
  LET Agree(cut, whole) ==
        /\ cut.answer = whole.answer
        /\ IsPrefix(cut.stored, whole.stored)
        /\ capacity > 0 => Len(cut.stored) < capacity
        /\ cut.answer >= 0 /\ capacity > cut.answer => Len(cut.stored) = cut.answer
  IN Agree(vsnprintf(capacity, format, cursor), vsnprintf(MAX_RETURN + 1, format, cursor))

\* The number a text denotes in a base, digit by digit.
TextValue(text, base) ==
  LET Digit(c) == CHOOSE v \in 0..15 : c \in {DigitChars[v + 1], UpperChars[v + 1]}
  IN FoldLeft(LAMBDA v, c : v * base + Digit(c), 0, text)

(* The text of an integer conversion reads back as its argument converted  *)
(* to the length's type: after the spaces of the padding, the sign, the    *)
(* prefix of the base and at least `precision' digits, and it fills the    *)
(* width, whatever flags meet (stdio/mod.rs, render_formatted_integer: the *)
(* zero flag, a precision, the octal `#' and a zero value interact).       *)
IntegerTextReadsBack(d, word) ==
  LET hex    == d.conversion \in {"x", "X"} /\ "#" \in d.flags
                  /\ read_unsigned_argument(word, d.length) # 0
      base   == CASE d.conversion = "o" -> 8 [] d.conversion \in {"x", "X"} -> 16 [] OTHER -> 10
      value  == IF d.conversion \in {"d", "i"} THEN read_signed_argument(word, d.length)
                ELSE read_unsigned_argument(word, d.length)
      ReadsBack(text, digits, spaces) ==
        /\ TextValue(digits, base) = (IF value < 0 THEN -value ELSE value)
        /\ (value < 0) = ("-" \in ToSet(text))
        /\ d.precision # NoCount => Len(digits) >= d.precision[1]
        /\ d.precision # <<0>> \/ value # 0 => digits # <<>>
        /\ d.conversion = "o" /\ "#" \in d.flags => digits # <<>> /\ Head(digits) = "0"
        /\ d.width # NoCount =>
             /\ Len(text) >= d.width[1]
             /\ Len(text) > d.width[1] /\ spaces # {} => spaces = {1} /\ " " \in d.flags
      OfBody(text, body) == ReadsBack(text, IF hex THEN Tail(body) ELSE body,
                                      {i \in DOMAIN text : text[i] = " "})
      OfText(text) == OfBody(text, SelectSeq(text, LAMBDA c : c \notin {" ", "+", "-", "x", "X"}))
  IN Accepted(d) => OfText(Convert(d, FromVaList(<<word>>, 0, <<>>), 0).text)

\* The pieces' text as the caller means it: arguments by class, in order.
\* A double goes to the next floating-point register, everything else to the
\* next general one, and to the overflow area when they are full.
PassedArgs(args, gp_left, fp_left) ==
  LET place[n \in 0..Len(args)] ==
        IF n = 0 THEN FromVaList(<<>>, 0, <<>>)
        ELSE LET before == place[n - 1]
             IN IF args[n].class = "fp"
                THEN IF before.fp < fp_left
                     THEN [before EXCEPT !.fp = @ + 1]
                     ELSE [before EXCEPT !.overflow = Append(@, args[n].word)]
                ELSE IF Len(before.gp) < gp_left
                     THEN [before EXCEPT !.gp = Append(@, args[n].word)]
                     ELSE [before EXCEPT !.overflow = Append(@, args[n].word)]
  IN place[Len(args)]

\* A newline in the output: in the format, or in the argument of a
\* directive. Each directive here takes exactly one argument.
WritesNewline(format, args) ==
  LET directives == SelectSeq(format, LAMBDA p : ~IsChar(p))
  IN \/ \E n \in DOMAIN format : IsChar(format[n]) /\ format[n].char = NEWLINE
     \/ \E n \in DOMAIN directives :
          \/ /\ directives[n].conversion = "s"
             /\ NEWLINE \in ToSet(StringText(args[n].word, directives[n].precision))
          \/ directives[n].conversion = "c" /\ CharText(args[n].word) = <<NEWLINE>>

(* On a line-buffered stream, output that holds a newline is flushed: the  *)
(* analysis finds every newline the host will write, wherever the call put *)
(* the arguments (stdio/mod.rs, formatted_output_requires_host_line_       *)
(* buffer_flush, whose own walk over the va_list must stay aligned).       *)
NewlinesAreFlushed(format, args, gp_left, fp_left) ==
  WritesNewline(format, args) =>
    requires_line_buffer_flush(format, PassedArgs(args, gp_left, fp_left))

=============================================================================
