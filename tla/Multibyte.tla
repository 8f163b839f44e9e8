----------------------------- MODULE Multibyte -----------------------------
(***************************************************************************)
(* The restartable UTF-8 conversions of wchar/mod.rs.                      *)
(*                                                                         *)
(* One mbstate_t is modelled: INTERNAL_STATE, which is thread-local and    *)
(* which mbrtowc, mbrlen, wcrtomb, mbsrtowcs, wcsrtombs, mblen, mbtowc and *)
(* wctomb share, or one of the caller's. It is [bytes, expected_len,       *)
(* stray]: `stray' is a nonzero byte behind the pending ones or in the     *)
(* reserved field, which only a caller can put there. errno is EILSEQ      *)
(* exactly when the answer is an error, and left out.                      *)
(***************************************************************************)
EXTENDS Integers, Sequences, SequencesExt, FiniteSets

CONSTANTS
  InputBytes,        \* bytes to feed: the borders of every range of the code
  MaxChunk,          \* bound on the bytes of one call
  WideChars,         \* wchar_t values to encode
  StrayStates        \* states a caller may pass that no call produced

VARIABLES
  mb_state,
  mb_begun           \* ghost: the bytes since the start of a character

mb_vars == <<mb_state, mb_begun>>

MAX_UTF8_BYTES == 4
INVALID == -1        \* MBR_ERR_INVALID, and what a null source gives
INCOMPLETE == -2     \* MBR_ERR_INCOMPLETE

Initial == [bytes |-> <<>>, expected_len |-> 0, stray |-> FALSE]

is_initial(st) == st = Initial

-----------------------------------------------------------------------------
(* Decoding one character *)

is_continuation_byte(byte) == byte \in \h80 .. \hBF

expected_len_from_lead_byte(byte) ==
  CASE byte < \h80 -> 1
    [] byte \in \hC2 .. \hDF -> 2
    [] byte \in \hE0 .. \hEF -> 3
    [] byte \in \hF0 .. \hF4 -> 4
    [] OTHER -> 0

\* The second bytes that would make an overlong form, a surrogate or a value
\* past U+10FFFF.
BadSecond(lead, second) ==
  \/ lead = \hE0 /\ second < \hA0
  \/ lead = \hED /\ second > \h9F
  \/ lead = \hF0 /\ second < \h90
  \/ lead = \hF4 /\ second > \h8F

\* The code's None is INVALID. The fields of the bytes are put together in base 64.
decode_utf8_scalar(bytes, len) ==
  LET tail(i) == bytes[i] - \h80
      fits == /\ expected_len_from_lead_byte(bytes[1]) = len
              /\ \A i \in 2 .. len : is_continuation_byte(bytes[i])
              /\ len > 2 => ~BadSecond(bytes[1], bytes[2])
  IN IF ~fits THEN INVALID
     ELSE CASE len = 1 -> bytes[1]
            [] len = 2 -> (bytes[1] - \hC0) * 64 + tail(2)
            [] len = 3 -> (bytes[1] - \hE0) * 4096 + tail(2) * 64 + tail(3)
            [] len = 4 -> (bytes[1] - \hF0) * 262144 + tail(2) * 4096 + tail(3) * 64 + tail(4)

partial_prefix_is_valid(bytes, expected_len) ==
  /\ bytes # <<>> /\ Len(bytes) < expected_len
  /\ expected_len_from_lead_byte(bytes[1]) = expected_len
  /\ \A i \in 2 .. Len(bytes) : is_continuation_byte(bytes[i])
  /\ Len(bytes) >= 2 => ~(expected_len > 2 /\ BadSecond(bytes[1], bytes[2]))

\* The check of a state before it is used.
StateIsUsable(st) ==
  /\ ~st.stray
  /\ IF st.bytes = <<>> THEN st.expected_len = 0
     ELSE partial_prefix_is_valid(st.bytes, st.expected_len)

\* A state that no call produced is one that the check refuses.
ASSUME MultibyteAssumption ==
  /\ InputBytes \subseteq 0 .. 255
  /\ \A st \in StrayStates : ~StateIsUsable(st)

\* One round of the loop of mbrtowc_with_state and decode_utf8.
ReadByte(acc, byte) ==
  LET expected == IF acc.bytes = <<>> THEN expected_len_from_lead_byte(byte) ELSE acc.expected_len
      bytes == Append(acc.bytes, byte)
  IN IF acc.failed \/ (acc.expected_len # 0 /\ Len(acc.bytes) = acc.expected_len) THEN acc
     ELSE IF (acc.bytes = <<>> /\ expected = 0) \/ (acc.bytes # <<>> /\ ~is_continuation_byte(byte))
          THEN [acc EXCEPT !.failed = TRUE]
     ELSE [acc EXCEPT !.bytes = bytes, !.expected_len = expected, !.consumed = @ + 1,
                      !.failed = Len(bytes) < expected /\ ~partial_prefix_is_valid(bytes, expected)]

\* The bytes of one call, one after another.
ReadBytes(acc, input) ==
  LET read[i \in 0 .. Len(input)] == IF i = 0 THEN acc ELSE ReadByte(read[i - 1], input[i])
  IN read[Len(input)]

Answer(result, wide, consumed, st) ==
  [result |-> result, wide |-> wide, consumed |-> consumed, state |-> st]

reset_state_and_fail == Answer(INVALID, INVALID, 0, Initial)

\* mbrtowc_with_state for a source that is not null, with Len(input) = n.
mbrtowc_with_state(st, input) ==
  LET end == ReadBytes([bytes |-> st.bytes, expected_len |-> st.expected_len, consumed |-> 0,
                        failed |-> FALSE], input)
      scalar == decode_utf8_scalar(end.bytes, end.expected_len)
      partial == [bytes |-> end.bytes, expected_len |-> end.expected_len, stray |-> FALSE]
  IN IF ~StateIsUsable(st) THEN reset_state_and_fail
     ELSE IF input = <<>> THEN Answer(INCOMPLETE, INVALID, 0, st)
     ELSE IF end.failed THEN reset_state_and_fail
     ELSE IF Len(end.bytes) < end.expected_len THEN Answer(INCOMPLETE, INVALID, end.consumed, partial)
     ELSE IF scalar = INVALID THEN reset_state_and_fail
     ELSE Answer(IF scalar = 0 THEN 0 ELSE end.consumed, scalar, end.consumed, Initial)

\* mblen and mbtowc: an incomplete character is an error to them.
mbr_result_to_int(result) == IF result = INCOMPLETE THEN -1 ELSE result

-----------------------------------------------------------------------------
(* Encoding one character; <<>> is None *)

\* Surrogates are encoded like any other value of three bytes.
MutEncode_Surrogates(scalar) ==
  LET tail(bits) == \h80 + (bits % 64)
  IN IF scalar < 0 \/ scalar > \h10FFFF THEN <<>>
     ELSE IF scalar <= \h7F THEN <<scalar>>
     ELSE IF scalar <= \h7FF THEN <<\hC0 + (scalar \div 64), tail(scalar)>>
     ELSE IF scalar <= \hFFFF
     THEN <<\hE0 + (scalar \div 4096), tail(scalar \div 64), tail(scalar)>>
     ELSE <<\hF0 + (scalar \div 262144), tail(scalar \div 4096), tail(scalar \div 64), tail(scalar)>>

encode_utf8_scalar(scalar) ==
  LET tail(bits) == \h80 + (bits % 64)
  IN IF scalar < 0 \/ scalar > \h10FFFF \/ scalar \in \hD800 .. \hDFFF THEN <<>>
     ELSE IF scalar <= \h7F THEN <<scalar>>
     ELSE IF scalar <= \h7FF THEN <<\hC0 + (scalar \div 64), tail(scalar)>>
     ELSE IF scalar <= \hFFFF
     THEN <<\hE0 + (scalar \div 4096), tail(scalar \div 64), tail(scalar)>>
     ELSE <<\hF0 + (scalar \div 262144), tail(scalar \div 4096), tail(scalar \div 64), tail(scalar)>>

wcrtomb(st, wc) ==
  LET encoded == encode_utf8_scalar(wc)
  IN IF ~is_initial(st) \/ encoded = <<>> THEN [result |-> INVALID, out |-> <<>>, state |-> Initial]
     ELSE [result |-> Len(encoded), out |-> encoded, state |-> Initial]

-----------------------------------------------------------------------------
(* Strings. A source is a sequence that ends with its only NUL; `next' is the *)
(* position where *src is left, 0 when it is set to null.                     *)

\* One round of the loops of mbsrtowcs, mbsrtowcs without destination and mbstowcs.
StringStep(source, acc) ==
  LET one == mbrtowc_with_state(acc.state, SubSeq(source, acc.next, Len(source)))
  IN IF acc.done THEN acc
     ELSE IF one.result \in {INVALID, INCOMPLETE}
          THEN [acc EXCEPT !.done = TRUE, !.result = INVALID, !.state = Initial]
     ELSE IF one.result = 0
          THEN [acc EXCEPT !.done = TRUE, !.result = Len(acc.out), !.next = 0, !.state = one.state]
     ELSE [acc EXCEPT !.out = Append(@, one.wide), !.next = @ + one.consumed, !.state = one.state,
                      !.result = Len(acc.out) + 1]

\* limit characters at most; the code's loop without destination has no limit.
ConvertString(st, source, limit) ==
  LET converted[i \in 0 .. limit] ==
        IF i = 0 THEN [state |-> st, out |-> <<>>, next |-> 1, done |-> FALSE, result |-> 0]
        ELSE StringStep(source, converted[i - 1])
  IN converted[limit]

mbsrtowcs(st, source, capacity) == ConvertString(st, source, capacity)

CountOnly(st, source) ==
  [ConvertString(st, source, Len(source)) EXCEPT !.next = 1, !.out = <<>>]

mbstowcs(source, limit) == ConvertString(Initial, source, limit)

\* One round of the loops of wcsrtombs and wcstombs: a character is written
\* whole or not at all, and the NUL only where room is left.
WideStep(source, capacity, acc) ==
  LET wide == source[acc.next]
      encoded == encode_utf8_scalar(wide)
  IN IF acc.done THEN acc
     ELSE IF wide = 0
          THEN [acc EXCEPT !.done = TRUE, !.terminated = Len(acc.out) < capacity,
                           !.next = IF Len(acc.out) < capacity THEN 0 ELSE @]
     ELSE IF encoded = <<>> THEN [acc EXCEPT !.done = TRUE, !.failed = TRUE]
     ELSE IF Len(acc.out) + Len(encoded) > capacity THEN [acc EXCEPT !.done = TRUE]
     ELSE [acc EXCEPT !.out = @ \o encoded, !.next = @ + 1]

ConvertWide(source, capacity) ==
  FoldLeft(LAMBDA acc, i : WideStep(source, capacity, acc),
           [out |-> <<>>, next |-> 1, done |-> capacity = 0, failed |-> FALSE,
            terminated |-> FALSE],
           source)

wcstombs(source, limit) == ConvertWide(source, limit)

\* A capacity of zero is answered before the state is looked at.
wcsrtombs(st, source, capacity) ==
  IF capacity = 0 THEN [end |-> ConvertWide(source, 0), state |-> st]
  ELSE IF ~is_initial(st) THEN [end |-> [ConvertWide(source, 0) EXCEPT !.failed = TRUE],
                                state |-> Initial]
  ELSE [end |-> ConvertWide(source, capacity),
        state |-> Initial]

-----------------------------------------------------------------------------
(* Calls on the state *)

Chunks == UNION {[1 .. n -> InputBytes] : n \in 0 .. MaxChunk}

\* The bytes stay begun only while the state keeps them.
After(st, begun) ==
  /\ mb_state' = st
  /\ mb_begun' = IF is_initial(st) THEN <<>> ELSE begun

\* mbrtowc, mbrlen, mblen and mbtowc of the bytes that the caller has.
Mbrtowc(chunk) ==
  LET answer == mbrtowc_with_state(mb_state, chunk)
  IN After(answer.state, mb_begun \o SubSeq(chunk, 1, answer.consumed))

\* mbsrtowcs, with a destination of some size and without one.
Mbsrtowcs(chunk, capacity) ==
  LET source == Append(chunk, 0)
  IN /\ 0 \notin Range(chunk)
     /\ \/ After(mbsrtowcs(mb_state, source, capacity).state, mb_begun)
        \/ After(CountOnly(mb_state, source).state, mb_begun)

Wcrtomb(wc) == After(wcrtomb(mb_state, wc).state, mb_begun)

Wcsrtombs(capacity) == After(wcsrtombs(mb_state, <<0>>, capacity).state, mb_begun)

\* A null source or destination: mbrtowc, wcrtomb, mbsrtowcs, wcsrtombs, mblen,
\* mbtowc and wctomb reset the state.
ResetState == After(Initial, <<>>)

\* The caller passes a state that it did not keep properly.
PassStray(st) == mb_state' = st /\ mb_begun' = <<>>

MbInit == mb_state = Initial /\ mb_begun = <<>>

MbNext ==
  \/ \E chunk \in Chunks : Mbrtowc(chunk)
  \/ \E chunk \in Chunks, capacity \in 0 .. 2 : Mbsrtowcs(chunk, capacity)
  \/ \E wc \in WideChars : Wcrtomb(wc)
  \/ \E capacity \in 0 .. 1 : Wcsrtombs(capacity)
  \/ ResetState
  \/ \E st \in StrayStates : PassStray(st)

MbSpec == MbInit /\ [][MbNext]_mb_vars

-----------------------------------------------------------------------------
(* The reference: table 3-7 of the Unicode standard, well-formed sequences. *)

ContinuationBytes == \h80 .. \hBF
WellFormedRows ==
  {<<\h00 .. \h7F>>, <<\hC2 .. \hDF, ContinuationBytes>>, <<{\hE0}, \hA0 .. \hBF, ContinuationBytes>>,
   <<\hE1 .. \hEC, ContinuationBytes, ContinuationBytes>>, <<{\hED}, \h80 .. \h9F, ContinuationBytes>>, <<\hEE .. \hEF, ContinuationBytes, ContinuationBytes>>,
   <<{\hF0}, \h90 .. \hBF, ContinuationBytes, ContinuationBytes>>, <<\hF1 .. \hF3, ContinuationBytes, ContinuationBytes, ContinuationBytes>>,
   <<{\hF4}, \h80 .. \h8F, ContinuationBytes, ContinuationBytes>>}

BeginsWellFormed(bytes) ==
  \E row \in WellFormedRows :
    Len(bytes) <= Len(row) /\ \A i \in DOMAIN bytes : bytes[i] \in row[i]

WellFormed(bytes) ==
  \E row \in WellFormedRows :
    Len(bytes) = Len(row) /\ \A i \in DOMAIN bytes : bytes[i] \in row[i]

IsScalarValue(wide) == wide \in 0 .. \hD7FF \/ wide \in \hE000 .. \h10FFFF

\* The length of the character at the front, or 0.
FirstLength(bytes) ==
  LET found == {k \in 1 .. MAX_UTF8_BYTES : k <= Len(bytes) /\ WellFormed(SubSeq(bytes, 1, k))}
  IN IF found = {} THEN 0 ELSE CHOOSE k \in found : TRUE

(* Properties *)

\* However a text is cut into calls, mbrtowc answers by the table: the character
\* that the bytes kept from earlier calls and the new ones begin with, incomplete
\* with all of them kept, or an error as soon as no byte could complete them.
\* Between calls the state holds exactly the bytes of the character begun, and
\* an error or a complete character leaves none, so that no later character is
\* spoiled; a state that no call produced is refused and forgotten.
AnswersByTheTable(chunk) ==
  LET answer == mbrtowc_with_state(mb_state, chunk)
      all == mb_begun \o chunk
      first == FirstLength(all)
  IN IF ~StateIsUsable(mb_state) THEN answer = reset_state_and_fail
     ELSE IF first > 0
     THEN /\ answer.result = IF all[1] = 0 THEN 0 ELSE first - Len(mb_begun)
          /\ encode_utf8_scalar(answer.wide) = SubSeq(all, 1, first)
          /\ is_initial(answer.state)
     ELSE IF BeginsWellFormed(all)
     THEN answer.result = INCOMPLETE /\ answer.state.bytes = all
     ELSE answer.result = INVALID /\ is_initial(answer.state)

DecodingIsByTheTable ==
  /\ StateIsUsable(mb_state) =>
       mb_state.bytes = mb_begun /\ BeginsWellFormed(mb_begun) /\ FirstLength(mb_begun) = 0
  /\ \A chunk \in Chunks : AnswersByTheTable(chunk)

\* What wcstombs writes mbstowcs reads back as the same characters, within every
\* limit: only whole characters are written, as many as fit, each in the one
\* form the table allows; the rest of the string is what is left at `next', and
\* a value that is no character is refused however it is reached.
StringsRoundTrip(wide, limit) ==
  LET source == Append(wide, 0)
      end == wcstombs(source, limit)
      kept == SubSeq(wide, 1, IF end.next = 0 THEN Len(wide) ELSE end.next - 1)
      back == mbstowcs(Append(end.out, 0), Len(wide) + 1)
      size(n) == Len(FoldLeft(LAMBDA acc, w : acc \o encode_utf8_scalar(w), <<>>, SubSeq(wide, 1, n)))
  IN /\ back.out = kept /\ back.result = Len(kept)
     /\ Len(end.out) <= limit
     /\ ~end.failed /\ end.next # 0 /\ limit > 0 /\ end.next <= Len(wide) =>
          size(end.next) > limit
     /\ end.failed => ~IsScalarValue(wide[end.next])
     /\ \A i \in DOMAIN kept : IsScalarValue(kept[i]) /\ WellFormed(encode_utf8_scalar(kept[i]))
     /\ CountOnly(Initial, Append(end.out, 0)).result = Len(kept)
=============================================================================
