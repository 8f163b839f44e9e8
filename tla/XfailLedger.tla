---------------------------- MODULE XfailLedger ----------------------------
(***************************************************************************)
(* The conformance gate: the expected-failure ledger, its CSV reader, its  *)
(* command line and its verdict (src/src/bin/xfail_ledger.rs).             *)
(*                                                                         *)
(* A text is a sequence of one-character strings. A command-line token is  *)
(* a word, an option, or an option joined to its value by '='. A case key  *)
(* (suite, case and target) is one value, and a date a number: the code    *)
(* compares dates of one fixed width as strings.                           *)
(***************************************************************************)
EXTENDS Integers, Sequences, SequencesExt, FiniteSets, TLC

QUOTE == "\""
CsvSpecial == {",", QUOTE, "\n", "\r"}
CsvBlank == {" ", "\n", "\r"}

-----------------------------------------------------------------------------
(* parse_csv_records: one pass over the characters.                        *)

CsvStart == [records |-> <<>>, fields |-> <<>>, field |-> <<>>, in_quotes |-> FALSE,
             just_closed_quote |-> FALSE, skip |-> FALSE, error |-> FALSE]

is_blank_record(fields) == Len(fields) = 1 /\ ToSet(fields[1]) \subseteq CsvBlank

CsvPush(s, ch) == [s EXCEPT !.field = Append(@, ch)]
CsvEndField(s) ==
  [s EXCEPT !.fields = Append(@, s.field), !.field = <<>>, !.just_closed_quote = FALSE]
CsvEndRecord(s) ==
  LET ended == CsvEndField(s)
  IN [ended EXCEPT !.fields = <<>>,
                   !.records = IF is_blank_record(ended.fields) THEN @
                               ELSE Append(@, ended.fields)]

\* A slip: the second quote of a doubled one is looked at again.
MutCsvQuoted_NotConsumed(s, ch, next) ==
  CASE ch = QUOTE /\ next = QUOTE -> CsvPush(s, QUOTE)
    [] ch = QUOTE /\ next # QUOTE -> [s EXCEPT !.in_quotes = FALSE, !.just_closed_quote = TRUE]
    [] OTHER -> CsvPush(s, ch)

\* Between quotes. A doubled quote is one quote, a CR LF is one LF.
CsvQuoted(s, ch, next) ==
  CASE ch = QUOTE /\ next = QUOTE -> [CsvPush(s, QUOTE) EXCEPT !.skip = TRUE]
    [] ch = QUOTE /\ next # QUOTE -> [s EXCEPT !.in_quotes = FALSE, !.just_closed_quote = TRUE]
    [] ch = "\r" /\ next = "\n"   -> [CsvPush(s, "\n") EXCEPT !.skip = TRUE]
    [] OTHER -> CsvPush(s, ch)

CsvPlain(s, ch, next) ==
  CASE ch = ","  -> CsvEndField(s)
    [] ch = "\n" -> CsvEndRecord(s)
    [] ch = "\r" /\ next = "\n" -> s
    [] ch = QUOTE -> IF s.field = <<>> /\ ~s.just_closed_quote
                       THEN [s EXCEPT !.in_quotes = TRUE] ELSE [s EXCEPT !.error = TRUE]
    [] s.just_closed_quote /\ ch \notin CsvSpecial ->
         IF ch \in CsvBlank THEN s ELSE [s EXCEPT !.error = TRUE]
    [] s.just_closed_quote /\ ch = "\r" /\ next # "\n" -> s
    [] OTHER -> CsvPush(s, ch)

\* [error, records]: the records are sequences of fields.
parse_csv_records(text) ==
  LET step(s, i) ==
        LET next == IF i < Len(text) THEN text[i + 1] ELSE "end"
        IN CASE s.error     -> s
             [] s.skip      -> [s EXCEPT !.skip = FALSE]
             [] s.in_quotes /\ ~s.error /\ ~s.skip -> CsvQuoted(s, text[i], next)
             [] OTHER       -> CsvPlain(s, text[i], next)
      last == FoldLeft(step, CsvStart, [i \in DOMAIN text |-> i])
  IN IF last.error \/ last.in_quotes
       THEN [error |-> TRUE, records |-> <<>>]
       ELSE [error |-> FALSE, records |-> CsvEndRecord(last).records]

-----------------------------------------------------------------------------
(* The command line.                                                       *)

ArgWord(text)       == [option |-> "none", joined |-> FALSE, text |-> text, value |-> <<>>]
Split(option)    == [option |-> option, joined |-> FALSE, text |-> option, value |-> <<>>]
Joined(option, token) ==
  [option |-> option, joined |-> TRUE, text |-> option, value |-> <<token>>]
EmptyWord == ArgWord("")
Separator == ArgWord("--")
HelpWord  == ArgWord("-h")
ValueOptions == {"--ledger", "--results", "--as-of"}
NoOptions == [o \in ValueOptions \cup {"--strict-xpass"} |-> <<>>]

is_option_like_token(t) == t.option # "none" \/ t.text \in {"-h", "--", "-x"}

ledger_is_leap_year(year) == (year % 4 = 0 /\ year % 100 # 0) \/ year % 400 = 0
days_in_month(year, month) ==
  CASE month \in {4, 6, 9, 11} -> 30
    [] month = 2 -> IF ledger_is_leap_year(year) THEN 29 ELSE 28
    [] OTHER -> 31
\* The words of the shape YYYY-MM-DD.
DateWords == ("2024-02-29" :> <<2024, 2, 29>>) @@ ("2100-02-29" :> <<2100, 2, 29>>)
             @@ ("2025-13-01" :> <<2025, 13, 1>>)
validate_expires_date(t) ==
  /\ t.text \in DOMAIN DateWords
  /\ LET date == DateWords[t.text]
     IN date[2] \in 1..12 /\ date[3] \in 1..days_in_month(date[1], date[2])

\* The index and the token of an option's value, from index i; <<>> is an error.
\* After a separator any token but the empty one is a value.
split_option_value(args, i) ==
  CASE i > Len(args) -> <<>>
    [] i <= Len(args) /\ args[i] = Separator ->
         IF i = Len(args) \/ args[i + 1] = EmptyWord THEN <<>> ELSE <<i + 1, args[i + 1]>>
    [] OTHER -> IF args[i] = EmptyWord \/ is_option_like_token(args[i])
                  THEN <<>> ELSE <<i, args[i]>>

equals_option_value(t, i) == IF t.value = <<EmptyWord>> THEN <<>> ELSE <<i, t.value[1]>>

\* --strict-xpass takes no value, and what follows must not look like one.
StrictHasValue(args, i) ==
  /\ i < Len(args)
  /\ IF args[i + 1] = Separator THEN i + 1 < Len(args)
                                ELSE ~is_option_like_token(args[i + 1])

RECURSIVE ParseFrom(_, _, _)
ParseFrom(args, i, seen) ==
  IF i > Len(args) \/ (i = Len(args) /\ args[i] = Separator)
    THEN IF seen["--results"] = <<>> THEN [outcome |-> "error", config |-> NoOptions]
                                     ELSE [outcome |-> "run", config |-> seen]
    ELSE LET t     == args[i]
             value == IF t.joined THEN equals_option_value(t, i)
                                  ELSE split_option_value(args, i + 1)
             Error == [outcome |-> "error", config |-> NoOptions]
         IN CASE t = HelpWord -> [outcome |-> "help", config |-> NoOptions]
              [] t.option \in ValueOptions ->
                   IF \/ seen[t.option] # <<>>
                      \/ value = <<>>
                      \/ t.option = "--as-of" /\ ~validate_expires_date(value[2])
                     THEN Error
                     ELSE ParseFrom(args, value[1] + 1, [seen EXCEPT ![t.option] = <<value[2]>>])
              [] t.option = "--strict-xpass" ->
                   IF t.joined \/ seen[t.option] # <<>> \/ StrictHasValue(args, i)
                     THEN Error
                     ELSE ParseFrom(args, i + 1, [seen EXCEPT ![t.option] = <<t>>])
              [] OTHER -> Error

parse_args(args) == ParseFrom(args, 1, NoOptions)

-----------------------------------------------------------------------------
(* The verdict. A ledger is a sequence of [key, expires] (0: never), results  *)
(* a sequence of [key, status].                                              *)

HasDuplicateKey(entries) ==
  \E i, j \in DOMAIN entries : i # j /\ entries[i].key = entries[j].key
collect_expired_entries(ledger, as_of) ==
  SelectSeq(ledger, LAMBDA e : e.expires # 0 /\ e.expires < as_of)

classify_results(ledger, raw) ==
  IF \E i \in DOMAIN ledger : ledger[i].key = raw.key
    THEN CASE raw.status = "pass" -> "xpass" [] raw.status = "fail" -> "xfail"
           [] OTHER -> raw.status
    ELSE raw.status

summarize(ledger, results, status) ==
  Cardinality({i \in DOMAIN results : classify_results(ledger, results[i]) = status})

\* as_of 0 is no --as-of; an unreadable file is the case of a duplicate key.
GatePasses(ledger, results, as_of, strict_xpass) ==
  /\ ~HasDuplicateKey(ledger)
  /\ as_of # 0 => collect_expired_entries(ledger, as_of) = <<>>
  /\ ~HasDuplicateKey(results)
  /\ results # <<>>
  /\ summarize(ledger, results, "fail") = 0
  /\ strict_xpass => summarize(ledger, results, "xpass") = 0

-----------------------------------------------------------------------------
(* Properties.                                                             *)

\* The text of a table, each field quoted when it needs to be.
CsvField(field) ==
  IF ToSet(field) \cap CsvSpecial = {} THEN field
  ELSE <<QUOTE>> \o FlattenSeq([i \in DOMAIN field |->
         IF field[i] = QUOTE THEN <<QUOTE, QUOTE>> ELSE <<field[i]>>]) \o <<QUOTE>>
CsvText(table, end) ==
  FlattenSeq([r \in DOMAIN table |->
    FlattenSeq([f \in DOMAIN table[r] |->
      (IF f = 1 THEN <<>> ELSE <<",">>) \o CsvField(table[r][f])]) \o end])
\* A field as it is read: CR LF is LF (xfail_ledger.rs:633).
CsvValue(field) ==
  FlattenSeq([i \in DOMAIN field |->
    IF field[i] = "\r" /\ i < Len(field) /\ field[i + 1] = "\n" THEN <<>> ELSE <<field[i]>>])

\* A table written as CSV, with LF or CR LF after each record, is read back:
\* quotes, commas and line ends inside fields do not shift a field or a record,
\* and only blank one-field lines disappear (xfail_ledger.rs:631).
CsvReadsBack(table, end) ==
  parse_csv_records(CsvText(table, end)) =
    [error |-> FALSE,
     records |-> SelectSeq([r \in DOMAIN table |->
                              [f \in DOMAIN table[r] |-> CsvValue(table[r][f])]],
                           LAMBDA r : ~is_blank_record(r))]

\* The tokens of one option of a configuration, in one of its written forms.
WrittenAs(option, token, form) ==
  CASE option = "--strict-xpass" -> <<Split(option)>>
    [] option # "--strict-xpass" /\ form = "joined" -> <<Joined(option, token)>>
    [] option # "--strict-xpass" /\ form = "plain" /\ ~is_option_like_token(token) ->
         <<Split(option), token>>
    [] OTHER -> <<Split(option), Separator, token>>

\* A configuration is read back from the command line whatever the order and
\* the written form of its options, also when a value looks like an option; a
\* token that is left over is refused (xfail_ledger.rs:180).
ArgumentsReadBack(config, order, form) ==
  LET chosen == SelectSeq(order, LAMBDA o : config[o] # <<>>)
      args   == FlattenSeq([i \in DOMAIN chosen |->
                              WrittenAs(chosen[i], config[chosen[i]][1], form[chosen[i]])])
  IN /\ parse_args(args) = [outcome |-> "run", config |-> config]
     /\ parse_args(args \o <<ArgWord("p")>>).outcome = "error"
     /\ \A i \in DOMAIN chosen :
          parse_args(args \o WrittenAs(chosen[i], ArgWord("p"), form[chosen[i]])).outcome = "error"
     /\ config["--as-of"] = <<>> =>
          \A date \in DOMAIN DateWords :
            parse_args(args \o <<Joined("--as-of", ArgWord(date))>>).outcome =
              IF date = "2024-02-29" THEN "run" ELSE "error"

\* Repairing a case never closes an open gate, except that strict mode wants
\* the ledger entry gone; and dropping the entry of a case that passes never
\* does: the two steps of a fix can be made in this order (xfail_ledger.rs:552).
GateIsMonotone(ledger, results, as_of, strict_xpass) ==
  GatePasses(ledger, results, as_of, strict_xpass) =>
    /\ \A i \in DOMAIN results :
         LET repaired == [results EXCEPT ![i].status = "pass"]
             listed   == {e \in DOMAIN ledger : ledger[e].key = results[i].key}
         IN /\ listed = {} \/ ~strict_xpass \/ results[i].status = "pass" =>
                 GatePasses(ledger, repaired, as_of, strict_xpass)
            /\ \A e \in listed : GatePasses(RemoveAt(ledger, e), repaired, as_of, strict_xpass)
    /\ \A i \in DOMAIN results :
         results[i].status = "fail" =>
           \E e \in DOMAIN ledger :
             /\ ledger[e].key = results[i].key
             /\ as_of = 0 \/ ledger[e].expires = 0 \/ ledger[e].expires >= as_of

=============================================================================
