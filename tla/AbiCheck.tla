------------------------------ MODULE AbiCheck ------------------------------
(***************************************************************************)
(* The ABI gate: the exported symbols and the ELF header of the built      *)
(* library against the required symbols and a golden snapshot              *)
(* (src/src/bin/abi_check.rs).                                             *)
(*                                                                         *)
(* A line of a snapshot is what the reader tells apart: its kind, its      *)
(* value, and whether white space surrounds it. A command-line token is a  *)
(* word, the option --golden, or --golden= with a value.                   *)
(***************************************************************************)
EXTENDS Integers, Sequences, SequencesExt, FiniteSets

CONSTANTS
  RequiredSymbols,   \* REQUIRED_SYMBOLS
  ValidSymbols,      \* the C identifiers among the values
  BlankValues        \* the values with white space inside

EXPECTED_ELF_CLASS == "ELF64"
EXPECTED_MACHINE == "Advanced Micro Devices X86-64"

-----------------------------------------------------------------------------
(* Snapshots.                                                              *)

Line(kind, value) == [kind |-> kind, value |-> value, margin |-> FALSE]
Magic == Line("magic", "ABI_SNAPSHOT_V1")
SymbolsLine == Line("symbols", "")
EmptyLine == Line("blank", "")
IsBlank(line) == line.kind = "blank"

NoSnapshot == [error |-> FALSE, done |-> FALSE, in_symbol_block |-> FALSE,
               class |-> <<>>, machine |-> <<>>, symbols |-> {}]
Refuse(s) == [s EXCEPT !.error = TRUE]

\* ELF_CLASS= and ELF_MACHINE=; a class has no white space, a machine may have
\* spaces inside.
MetadataLine(s, line) ==
  IF \/ (IF line.kind = "class" THEN s.class ELSE s.machine) # <<>>
     \/ line.margin
     \/ line.value = ""
     \/ line.kind = "class" /\ line.value \in BlankValues
    THEN Refuse(s)
    ELSE IF line.kind = "class" THEN [s EXCEPT !.class = <<line.value>>]
                                ELSE [s EXCEPT !.machine = <<line.value>>]

SymbolEntry(s, line) ==
  IF \/ line.kind \in {"class", "machine"}
     \/ line.margin
     \/ line.value \notin ValidSymbols
     \/ line.value \in s.symbols
    THEN Refuse(s)
    ELSE [s EXCEPT !.symbols = @ \cup {line.value}]

\* A blank line ends the symbols only when nothing but empty lines follows.
BlankInBlock(s, rest) ==
  IF \A j \in DOMAIN rest : rest[j] = EmptyLine THEN [s EXCEPT !.done = TRUE] ELSE Refuse(s)

SnapshotLine(s, line, rest) ==
  CASE s.error \/ s.done -> s
    [] ~(s.error \/ s.done) /\ IsBlank(line) ->
         IF s.in_symbol_block THEN BlankInBlock(s, <<line>> \o rest) ELSE s
    [] ~(s.error \/ s.done) /\ line.kind = "symbols" ->
         IF s.in_symbol_block \/ line.margin THEN Refuse(s)
                                             ELSE [s EXCEPT !.in_symbol_block = TRUE]
    [] ~(s.error \/ s.done) /\ ~IsBlank(line) /\ line.kind # "symbols" ->
         IF s.in_symbol_block THEN SymbolEntry(s, line)
         ELSE IF line.kind \in {"class", "machine"} THEN MetadataLine(s, line) ELSE Refuse(s)

\* <<>> for an error, otherwise <<[class, machine, symbols]>>.
parse_snapshot(lines) ==
  LET step(s, i) == SnapshotLine(s, lines[i], SubSeq(lines, i + 1, Len(lines)))
      last == FoldLeft(step, NoSnapshot, [i \in 1..(Len(lines) - 1) |-> i + 1])
  IN IF \/ lines = <<>>
        \/ lines[1] # Magic
        \/ last.error
        \/ last.symbols = {}
        \/ last.class = <<>>
        \/ last.machine = <<>>
       THEN <<>>
       ELSE <<[class |-> last.class[1], machine |-> last.machine[1], symbols |-> last.symbols]>>

\* nm prints the file's name with a colon, and versions after an at sign.
parse_nm_symbols(nm) == {l.name : l \in {l \in ToSet(nm) : ~l.heading /\ l.name # ""}}
missing_required_symbols(symbols) == RequiredSymbols \ symbols
DiffIsEmpty(expected, actual) == expected = actual

\* The library is a file, or the default one and built now.
ensure_library_exists_with(before, is_default, built, after) ==
  \/ before = "file"
  \/ is_default /\ built /\ after = "file"

\* golden is <<>> without --golden, otherwise <<lines>>.
CheckPasses(elf, nm, golden) ==
  LET symbols == parse_nm_symbols(nm)
      snapshot == [class |-> elf.class, machine |-> elf.machine, symbols |-> symbols]
  IN /\ elf.class = EXPECTED_ELF_CLASS
     /\ elf.machine = EXPECTED_MACHINE
     /\ missing_required_symbols(symbols) = {}
     /\ golden # <<>> => LET parsed == parse_snapshot(golden[1])
                         IN parsed # <<>> /\ DiffIsEmpty(parsed[1], snapshot)

-----------------------------------------------------------------------------
(* The command line. A word's text is its value; the dash and the white     *)
(* space in front of it are kept apart.                                     *)

Plain(text) == [golden |-> FALSE, joined |-> FALSE, dash |-> FALSE, indent |-> FALSE, text |-> text]
Dashed(text) == [Plain(text) EXCEPT !.dash = TRUE]
GoldenFlag == [Dashed("--golden") EXCEPT !.golden = TRUE]
GoldenIs(word) == [word EXCEPT !.golden = TRUE, !.joined = TRUE]
EndOfOptions == Dashed("--")
Help == Dashed("--help")
ValueOf(token) == [token EXCEPT !.golden = FALSE, !.joined = FALSE]

is_missing_option_value(v) == v.text = ""
is_option_like_value(v) == v.dash

\* Whether assign_golden_path takes the value: one that starts with a dash
\* only after an equals sign, and then without white space in front.
GoldenAccepted(v, joined) ==
  /\ ~is_missing_option_value(v)
  /\ is_option_like_value(v) => joined /\ ~v.indent

RECURSIVE HelpFrom(_, _)
HelpFrom(args, i) ==
  IF i > Len(args) \/ args[i] = EndOfOptions THEN FALSE
  ELSE IF args[i] = Help THEN TRUE
  ELSE IF args[i].golden
    THEN LET at == IF args[i].joined THEN i ELSE i + 1
         IN /\ at <= Len(args)
            /\ ~is_missing_option_value(ValueOf(args[at]))
            /\ ~is_option_like_value(ValueOf(args[at]))
            /\ HelpFrom(args, at + 1)
  ELSE HelpFrom(args, i + 1)
has_help_flag(args) == HelpFrom(args, 1)

NoCliOptions == [library_path |-> <<>>, golden_path |-> <<>>]

AfterGolden(i, joined) == IF joined THEN i + 1 ELSE i + 2

RECURSIVE CliFrom(_, _, _, _)
CliFrom(args, i, options, positional_only) ==
  IF i > Len(args) THEN <<options>>
  ELSE LET t == args[i]
           at == IF t.joined THEN i ELSE i + 1
       IN CASE ~positional_only /\ t = EndOfOptions -> CliFrom(args, i + 1, options, TRUE)
            [] ~positional_only /\ t.golden ->
                 IF \/ at > Len(args)
                    \/ options.golden_path # <<>>
                    \/ ~GoldenAccepted(ValueOf(args[at]), t.joined)
                   THEN <<>>
                   ELSE CliFrom(args, AfterGolden(i, t.joined),
                          [options EXCEPT !.golden_path = <<ValueOf(args[at])>>], FALSE)
            [] ~positional_only /\ t.dash /\ ~t.indent /\ ~t.golden /\ t # EndOfOptions -> <<>>
            [] OTHER -> IF t.text = "" \/ options.library_path # <<>>
                          THEN <<>>
                          ELSE CliFrom(args, i + 1, [options EXCEPT !.library_path = <<t>>],
                                       positional_only)
\* <<>> for an error.
parse_cli_options(args) == CliFrom(args, 1, NoCliOptions, FALSE)

-----------------------------------------------------------------------------
(* Paths: sequences of components; "/" first makes one absolute.           *)

\* A slip: going up from the root is kept.
MutCollapse_AboveRoot(path) ==
  LET step(done, c) ==
        CASE c = "." -> done
          [] c = ".." /\ done # <<>> /\ Last(done) \notin {"/", ".."} -> Front(done)
          [] OTHER -> Append(done, c)
  IN FoldLeft(step, <<>>, path)

collapse_path_components(path) ==
  LET step(done, c) ==
        CASE c = "." -> done
          [] c = ".." /\ done # <<>> /\ Last(done) \notin {"/", ".."} -> Front(done)
          [] c = ".." /\ done # <<>> /\ Head(done) = "/" /\ Last(done) \in {"/", ".."} -> done
          [] OTHER -> Append(done, c)
  IN FoldLeft(step, <<>>, path)

-----------------------------------------------------------------------------
(* Properties.                                                             *)

\* What a snapshot file must look like: the magic line, then one class and one
\* machine line among blank ones, SYMBOLS:, distinct C identifiers one per
\* line, and empty lines.
SnapshotShape(lines, block, last) ==
  LET before == SubSeq(lines, 2, block - 1)
      names  == SubSeq(lines, block + 1, last)
  IN /\ lines[1] = Magic
     /\ lines[block] = SymbolsLine
     /\ \A k \in {"class", "machine"} :
          Cardinality({i \in DOMAIN before : before[i].kind = k}) = 1
     /\ \A i \in DOMAIN before :
          \/ IsBlank(before[i])
          \/ /\ before[i].kind \in {"class", "machine"} /\ ~before[i].margin
             /\ before[i].value # ""
             /\ before[i].kind = "class" => before[i].value \notin BlankValues
     /\ names # <<>>
     /\ \A i \in DOMAIN names : names[i].value \in ValidSymbols /\ names[i] = Line("symbol", names[i].value)
     /\ \A i, j \in DOMAIN names : i # j => names[i] # names[j]
     /\ \A i \in (last + 1)..Len(lines) : lines[i] = EmptyLine

\* A golden file is accepted exactly when it has this shape, and the
\* snapshot read from it holds each of its lines: no line of a damaged file is
\* passed over, so the gate opens only for the library the file describes, with
\* every required symbol (abi_check.rs:534).
SnapshotsAreReadWhole(lines) ==
  LET parsed == parse_snapshot(lines)
      shaped == {p \in (2..Len(lines)) \X (2..Len(lines)) : SnapshotShape(lines, p[1], p[2])}
      values == {lines[i].value : i \in {i \in DOMAIN lines : lines[i].kind = "symbol"}}
      elf    == [class |-> EXPECTED_ELF_CLASS, machine |-> EXPECTED_MACHINE]
      nm(names) == SetToSeq({[heading |-> FALSE, name |-> n] : n \in names})
  IN /\ (parsed # <<>>) <=> (shaped # {})
     /\ parsed # <<>> => parsed[1].symbols = values
     /\ \A names \in SUBSET ValidSymbols :
          CheckPasses(elf, nm(names), <<lines>>) =>
            names = values /\ RequiredSymbols \subseteq names /\ shaped # {}

\* A golden path and a library are read back in either order and written form,
\* also when they begin with a dash; a command line that is accepted never asks
\* for help, so a --help that is a value or a path is not taken for the option
\* (abi_check.rs:192).
CommandLineReadsBack(golden, library, joined, golden_first) ==
  LET option == IF joined THEN <<GoldenIs(golden)>> ELSE <<GoldenFlag, golden>>
      path   == IF library.dash THEN <<EndOfOptions, library>> ELSE <<library>>
      args   == IF golden_first \/ library.dash THEN option \o path ELSE path \o option
      read   == parse_cli_options(args)
  IN /\ GoldenAccepted(golden, joined) =>
          read = <<[library_path |-> <<library>>, golden_path |-> <<golden>>]>>
     /\ read # <<>> => ~has_help_flag(args)
     /\ ~golden.dash => has_help_flag(option \o <<Help>>)

\* Where a path leads, walked from a directory deep enough.
RECURSIVE WalkTo(_, _)
WalkTo(at, path) ==
  IF path = <<>> THEN at
  ELSE WalkTo(CASE Head(path) = "/" -> <<>>
                [] Head(path) = "." -> at
                [] Head(path) = ".." -> IF at = <<>> THEN <<>> ELSE Front(at)
                [] OTHER -> Append(at, Head(path)), Tail(path))

\* A collapsed path leads where the path led, above the root included, is
\* settled, and an absolute one has no dots left: two spellings of the default
\* library are one (abi_check.rs:818).
CollapsedPathsAgree(path) ==
  LET collapsed == collapse_path_components(path)
  IN /\ WalkTo(<<"d1", "d2", "d3", "d4">>, collapsed) = WalkTo(<<"d1", "d2", "d3", "d4">>, path)
     /\ collapse_path_components(collapsed) = collapsed
     /\ path # <<>> /\ path[1] = "/" => \A i \in DOMAIN collapsed : collapsed[i] \notin {".", ".."}

=============================================================================
