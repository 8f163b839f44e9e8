------------------------------ MODULE MCTexts -------------------------------
(***************************************************************************)
(* The parts of the library and its tools that work on text, over bounded  *)
(* inputs. A behaviour picks its topic at the start. The topics of pure     *)
(* code pick an input; the environment, the multibyte state, directory      *)
(* streams and the vector of glob are machines and take their steps.        *)
(***************************************************************************)
EXTENDS Environment, AllocSizes, Multibyte, DirStreams, Glob, Calendar, Conversions, Format,
        SystemInfo, Netdb, XfailLedger, AbiCheck

CONSTANT Topics
VARIABLES topic, input

text_vars == <<env_vars, mb_vars, dir_vars, glob_vars, topic, input>>

UpTo(S, n) == UNION {[1..k -> S] : k \in 0..n}
NoInput == <<>>

-----------------------------------------------------------------------------
(* Values of the constants *)

MCStartupVectors ==
  {<<>>, << <<"M", "">>, <<"A", "1">>, <<"B", "2">>, <<"A", "2">> >>}

MCInputBytes == {0, 65, \h80, \h8F, \h90, \h9F, \hA0, \hBF, \hC1, \hC2, \hE0, \hE2, \hED,
                 \hF0, \hF1, \hF4, \hF5}
MCWideChars == {-1, 0, \h7F, \h80, \h7FF, \h800, \hD7FF, \hD800, \hDFFF, \hE000, \hFFFF,
                \h10000, \h10FFFF, \h110000}
MCStrayStates ==
  LET Stray(bytes, expected_len, stray) ==
        [bytes |-> bytes, expected_len |-> expected_len, stray |-> stray]
  IN {Stray(<<>>, 0, TRUE), Stray(<<\h80>>, 2, FALSE), Stray(<<\hC2>>, 3, FALSE),
      Stray(<<>>, 3, FALSE), Stray(<<\hE0, \h80>>, 3, FALSE)}

MCListings ==
  LET Record(name, reclen) == [name |-> name, reclen |-> reclen]
  IN {<<>>,
      <<Record("a", 3), Record("b", 4), Record("c", 3), Record("d", 5), Record("e", 3)>>,
      <<Record("a", 3), Record("bad", 1), Record("c", 4)>>}

\* Directories, hidden names, a name that looks like a bracket, a directory
\* that cannot be read and a file where a directory is needed.
MCTree ==
  LET Dir(names) == [kind |-> "dir", names |-> names]
      File == [kind |-> "file", names |-> <<>>]
      a == <<"a">> hidden == <<".", "a">> b == <<"b">> c == <<"c">> bracket == <<"[", "a">>
      hidden_b == <<".", "b">> ab == <<"a", "b">>
  IN (<<>> :> Dir(<<a, hidden, b, c, bracket>>)) @@ (<<a>> :> Dir(<<b, hidden_b, ab>>))
     @@ (<<a, b>> :> File) @@ (<<a, hidden_b>> :> File) @@ (<<a, ab>> :> Dir(<<>>))
     @@ (<<hidden>> :> Dir(<<b>>)) @@ (<<hidden, b>> :> File) @@ (<<b>> :> File)
     @@ (<<c>> :> [kind |-> "unreadable", names |-> <<b>>]) @@ (<<c, b>> :> File)
     @@ (<<bracket>> :> Dir(<<b>>)) @@ (<<bracket, b>> :> File)

MCCharCodes ==
  ("!" :> 33) @@ ("*" :> 42) @@ ("-" :> 45) @@ ("." :> 46) @@ ("/" :> 47) @@ ("?" :> 63)
  @@ ("[" :> 91) @@ (BACKSLASH :> 92) @@ ("]" :> 93) @@ ("^" :> 94)
  @@ ("a" :> 97) @@ ("b" :> 98) @@ ("c" :> 99) @@ ("z" :> 122)

MCGlobPatterns == {<<"a", "/", "*">>, <<"[", "b", "]">>, <<"z", "/">>,
                   <<"[", "a", "c", "]", "/", "b", "*">>}
MCGlobFlags == SUBSET {"APPEND", "DOOFFS", "NOCHECK", "ERR"} \cup {{"NOSORT"}}

MCIntMin == -400
MCTimeMin == <<-150000, 3>>
MCTimeMax == <<200000, 3>>

\* The words below 64 that point to a string; one holds a newline.
MCStrings == [w \in 1..63 |-> CASE w = 21 -> <<"b", NEWLINE>> [] w = 22 -> <<>>
                                [] OTHER -> <<"a", "b">>]

NodeName(name) == [kind |-> "name", value |-> name]
Dotted(octets) == [kind |-> "dotted",
                   value |-> [i \in DOMAIN octets |-> [written |-> "decimal", value |-> octets[i]]]]
MCHosts ==
  LET Host(address, aliases) == [address |-> address, aliases |-> aliases]
  IN <<Host(Dotted(<<2, 1>>), {"box", "localhost"}), Host(NodeName("junk"), {"box"}),
       Host([kind |-> "v6", value |-> <<63, 1>>], {"box"}),
       Host(Dotted(<<2, 0, 0, 1>>), {"box"}), Host(Dotted(<<1, 0, 0, 1>>), {"localhost"})>>
MCServicesFile ==
  <<[names |-> {"time"}, port |-> <<>>, protocol |-> "tcp"],
    [names |-> {"time", "clock"}, port |-> <<37>>, protocol |-> "tcp"],
    [names |-> {"domain"}, port |-> <<54>>, protocol |-> "udp"]>>
MCIpv6Lengths == (<<0, 0>> :> 2) @@ (<<0, 1>> :> 3) @@ (<<63, 1>> :> 7)

-----------------------------------------------------------------------------
(* Inputs *)

\* Days whose neighbourhoods are walked: the epoch, borders of eras, of the
\* centuries around them, and of the ranges of tm_year and time_t.
DayMarks == {-719468, -719528, -171400, -150000, -146097, -25508, 0, 11016, 146097, 120730, 199900}

CalendarDirectives ==
  LET tokens == {"%", "c", "C", "y", "Y", "s", "m", "d", "H", "I", "p", "Z", "z", "F", "T", "r",
                 "a", "B", "j", "U", "G", "V", "u", "n", "q"}
  IN {<<"%", t>> : t \in tokens} \cup {<<"%", m, t>> : m \in {"E", "O"}, t \in tokens}
     \cup {<<"q">>}

CalendarTimes ==
  LET Tm(sec, min, hour, mday, mon, year, wday, yday, isdst, gmtoff, zone) ==
        [tm_sec |-> sec, tm_min |-> min, tm_hour |-> hour, tm_mday |-> mday, tm_mon |-> mon,
         tm_year |-> year, tm_wday |-> wday, tm_yday |-> yday, tm_isdst |-> isdst,
         tm_gmtoff |-> gmtoff, tm_zone |-> zone]
  IN {Tm(0, 0, 0, 1, 0, 70, 4, 0, 0, 0, 3), Tm(59, 59, 23, 31, 11, 100, 0, 365, 1, 3600, 0),
      Tm(-61, 61, 25, 0, -13, 69, 7, 366, -1, -3601, 2), Tm(60, 0, 12, 29, 1, 400, -1, -1, 1, 0, 0),
      Tm(0, 0, 0, 32, 24, -400, 3, 400, 0, 0, 1)}

\* The parts of a numeral; the tails go over the borders of an 8-bit long.
NumberHeads == {<<>>, <<" ">>, <<"-">>, <<" ", "-">>, <<"+">>, <<"-", "+">>, <<"-", " ">>}
NumberPrefixes == {<<>>, <<"0", "x">>, <<"0", "X">>}
NumberTails == UpTo({"0", "1", "2", "8", "f", "z", "@"}, 3)

FormatDirective(flags, width, precision, length, conversion) ==
  [flags |-> flags, width |-> width, precision |-> precision, length |-> length,
   conversion |-> conversion]
IntegerDirectives(conversion) ==
  {FormatDirective(f, w, p, l, conversion) :
     f \in SUBSET {"-", "+", " ", "0", "#"}, w \in {NoCount, <<1>>, <<5>>},
     p \in {NoCount, <<0>>, <<1>>, <<4>>}, l \in {"", "hh", "l"}}
Bare(conversion) == FormatDirective({}, NoCount, NoCount, "", conversion)
TruncatedDirectives ==
  {Bare("s"), FormatDirective({"-"}, <<3>>, <<1>>, "", "s"), Bare("c"),
   FormatDirective({}, FromArgs, NoCount, "", "d"),
   FormatDirective({}, NoCount, FromArgs, "", "s"),
   FormatDirective({}, NoCount, NoCount, "hh", "n"), Bare("p"), Bare("f"),
   FormatDirective({"+"}, NoCount, NoCount, "", "u"), [char |-> "q"]}
\* %lf is left out: the walk over the arguments loses its place after it.
FlushedDirectives ==
  {Bare("s"), FormatDirective({}, NoCount, <<1>>, "", "s"), Bare("c"), Bare("d"), Bare("f"),
   Bare("n")}
LongFloat == FormatDirective({}, NoCount, NoCount, "l", "f")
FlushedArguments(d) ==
  CASE d.conversion = "f" -> {[class |-> "fp", word |-> 0]}
    [] d.conversion = "s" -> {[class |-> "gp", word |-> w] : w \in {0, 20, 21}}
    [] OTHER -> {[class |-> "gp", word |-> w] : w \in {2, 33}}

SegmentChars == {"a", "*", "[", "]", BACKSLASH, "!", "-", "c"}
SegmentNames == UpTo({"a", "b", "[", BACKSLASH, "]"}, 2)
WalkSegments ==
  {<<"a">>, <<"*">>, <<".", "*">>, <<"[", "!", "b", "]", "*">>, <<"[", ".", "]", "*">>,
   <<BACKSLASH, ".", "a">>, <<"[", "a">>, <<"?">>, <<"[", "a", "-", "c", "]">>, <<".", ".">>,
   <<BACKSLASH, ".", "*">>, <<BACKSLASH, "a">>}

CpuTokens == {BadToken} \cup {<<a, b>> : a \in 0..4, b \in 0..4}
CpuWorlds ==
  [online : {Unavailable}, stat : {Unavailable, <<3>>},
   kernel : [fails : BOOLEAN, bytes : {2, 8, 9}, cpus : {1, 5}], limit : {Unavailable},
   auxv : {Unavailable}, possible : {Unavailable, <<<< <<0, 7>> >>>>}, present : {Unavailable}]

LegacyComponents ==
  [written : {"decimal", "octal", "hex sign", "signed"}, value : {0, 1, 3, 4, 15, 16, 63, 64, 255, 256}]
LookupNodes ==
  {[kind |-> "null", value |-> ""], [kind |-> "empty", value |-> ""],
   [kind |-> "v6", value |-> <<0, 1>>], Dotted(<<1, 1, 1, 1, 1>>)}
  \cup {NodeName(name) : name \in {"localhost", "box", "zz"}}
  \cup {[kind |-> "dotted", value |-> v] : v \in UpTo(LegacyComponents, 2) \ {<<>>}}
  \cup {Dotted(o) : o \in [1..3 -> {0, 3, 4, 15, 16}]}
  \cup {Dotted(o) : o \in [1..4 -> {0, 3, 4}]}
LookupServices ==
  {[kind |-> "null", value |-> 0], [kind |-> "number", value |-> 9],
   [kind |-> "number", value |-> 600]}
NamedServices == {[kind |-> "word", value |-> name] : name \in {"time", "domain", "zz"}}
LookupHints ==
  [flags : SUBSET ALLOWED_AI_FLAGS \cup {{"AI_OTHER"}},
   family : {"AF_UNSPEC", "AF_INET", "AF_INET6", "AF_OTHER"},
   socktype : {"any", "SOCK_STREAM", "SOCK_DGRAM", "SOCK_RAW"},
   protocol : {"any", "tcp", "udp", "icmp"}]
PlainHints == [flags |-> {}, family |-> "AF_UNSPEC", socktype |-> "any", protocol |-> "any"]

CsvFields == UpTo({"a", " ", ",", QUOTE, "\n", "\r"}, 2)
LedgerEntries == [key : {"k1", "k2"}, expires : 0..2]
CaseResults == [key : {"k1", "k2"}, status : {"pass", "fail", "skip"}]
OptionOrders == {o \in [1..4 -> DOMAIN NoOptions] : \A i, j \in 1..4 : i # j => o[i] # o[j]}

SnapshotLines ==
  {Line("class", "ELF64"), Line("class", "a b"), Line("machine", EXPECTED_MACHINE), SymbolsLine,
   Line("symbol", "f"), Line("symbol", "g"), Line("symbol", "2x"), EmptyLine,
   [EmptyLine EXCEPT !.margin = TRUE], [SymbolsLine EXCEPT !.margin = TRUE]}
CommandWords == {Plain("p"), Dashed("-x"), [Dashed("-x") EXCEPT !.indent = TRUE], Help}

\* What a topic of pure code may be given; the properties range over the rest.
InputsOf(t) ==
  CASE t = "strings"  -> MCWideChars
    [] t = "sizes"    -> {1, 2, 4, 8, 16, 32, 64, 128}
    [] t = "calendar" -> DayMarks
    [] t = "strftime" -> CalendarDirectives
    [] t = "numbers"  -> NumberHeads \X {0, 8, 10, 16, 36}
    [] t = "integers" -> {"d", "u", "x", "X", "o"}
    [] t = "format"   -> TruncatedDirectives
    [] t = "newlines" -> FlushedDirectives
    [] t = "longs"    -> {LongFloat}
    [] t = "segments" -> UpTo(SegmentChars, 2)
    [] t = "walk"     -> WalkSegments
    [] t = "cpus"     -> CpuWorlds
    [] t = "nodes"    -> LookupNodes
    [] t = "hints"    -> LookupHints
    [] t = "csv"      -> CsvFields
    [] t = "options"  -> OptionOrders
    [] t = "gate"     -> UpTo(LedgerEntries, 2)
    [] t = "snapshot" -> SnapshotLines
    [] t = "command"  -> CommandWords
    [] t = "paths"    -> UpTo({".", "..", "a", "b"}, 4)
    [] OTHER -> {}

-----------------------------------------------------------------------------
TextsInit ==
  /\ topic \in Topics
  /\ input = NoInput
  /\ EnvInit /\ (topic # "environment" =>
                   /\ environ = "null" /\ startup_vector = <<>>
                   /\ buffer = [b \in Buffers |->
                                  [name |-> "A", value |-> "1", has_equals |-> TRUE]])
  /\ MbInit
  /\ DirInit /\ (topic # "directory" => dir_listing = <<>>)
  /\ GlobInit

TextsNext ==
  \/ /\ topic = "environment" /\ EnvNext
     /\ UNCHANGED <<mb_vars, dir_vars, glob_vars, topic, input>>
  \/ /\ topic = "multibyte" /\ MbNext
     /\ UNCHANGED <<env_vars, dir_vars, glob_vars, topic, input>>
  \/ /\ topic = "directory" /\ DirNext
     /\ UNCHANGED <<env_vars, mb_vars, glob_vars, topic, input>>
  \/ /\ topic = "glob" /\ GlobNext
     /\ UNCHANGED <<env_vars, mb_vars, dir_vars, topic, input>>
  \/ /\ input = NoInput /\ \E given \in InputsOf(topic) : input' = <<given>>
     /\ UNCHANGED <<env_vars, mb_vars, dir_vars, glob_vars, topic>>

TextsSpec == TextsInit /\ [][TextsNext]_text_vars

Given(t) == topic = t /\ input # NoInput

-----------------------------------------------------------------------------
(* Properties *)

\* DecodingIsByTheTable of mbrtowc and the functions over it; and StringsRoundTrip
\* of wcstombs and mbstowcs, over strings of up to three characters and every limit
\* around their lengths.
MultibyteIsExact ==
  /\ topic = "multibyte" => DecodingIsByTheTable
  /\ Given("strings") /\ input[1] # 0 =>
       \A rest \in UpTo(WideChars \ {0}, 2), limit \in 0..9 :
         StringsRoundTrip(<<input[1]>> \o rest, limit)

\* CalendarIsGregorian and NormalizationCarries of gmtime, timegm and mktime; and
\* StrftimeIsBounded of strftime, %s only near 1970, where TLC's integers hold the
\* seconds.
CalendarIsExact ==
  /\ Given("calendar") =>
       /\ \A days \in input[1] .. (input[1] + 200) : CalendarIsGregorian(days)
       /\ \A tm \in CalendarTimes :
            NormalizationCarries([tm EXCEPT !.tm_mday = @ + (input[1] % 400)])
  /\ Given("strftime") =>
       \A second \in {<<>>, <<"%">>, <<"%", "Y">>, <<"x">>}, tm \in CalendarTimes, max \in 0..12 :
         Last(input[1]) # "s" \/ tm.tm_year \in 60..110 =>
           StrftimeIsBounded(input[1], second, tm, max)

\* AllocationFits of the allocator's sizes, over every size of a small word and
\* every place of the mapping; NumbersAreDenoted of strtol, strtoul, atoi and their
\* relatives; IntegerTextReadsBack and TruncationIsAPrefix of the printf family.
NumbersAreExact ==
  /\ Given("sizes") =>
       \A size \in Word, base \in {PAGE_SIZE * i : i \in 1 .. (WordSize \div PAGE_SIZE) - 1} :
         AllocationFits(size, input[1], base)
  /\ Given("numbers") =>
       \A prefix \in NumberPrefixes, tail \in NumberTails :
         NumbersAreDenoted(input[1][1] \o prefix \o tail, input[1][2])
  /\ Given("integers") =>
       \A d \in IntegerDirectives(input[1]), word \in {0, 1, 7, 8, 15, 16, 31, 63} :
         IntegerTextReadsBack(d, word)
  /\ Given("format") =>
       \A second \in TruncatedDirectives, a \in [1..4 -> {0, 3, 20, 21, 30}], capacity \in 0..5 :
         TruncationIsAPrefix(<<input[1], second>>,
                             FromVaList(SubSeq(a, 1, 2), 1, SubSeq(a, 3, 4)), capacity)

\* NewlinesAreFlushed of fprintf, printf and their va_list forms, over three
\* directives and every place an argument may have.
NewlinesReachTheHost ==
  Given("newlines") \/ Given("longs") =>
    \A d2, d3 \in FlushedDirectives, gp_left \in 0..2, fp_left \in 0..1 :
      \A a1 \in FlushedArguments(input[1]), a2 \in FlushedArguments(d2),
         a3 \in FlushedArguments(d3) :
        NewlinesAreFlushed(<<input[1], d2, d3>>, <<a1, a2, a3>>, gp_left, fp_left)

\* SegmentsDenoteNames and ExpansionIsExact of glob, and GlobVectorIsWhole of glob
\* and globfree.
ExpansionsAreExact ==
  /\ Given("segments") =>
       \A rest \in UpTo(SegmentChars, 2), name \in SegmentNames, flags \in {{}, {"NOESCAPE"}} :
         SegmentsDenoteNames(input[1] \o rest, name, flags)
  /\ Given("walk") =>
       \A second \in WalkSegments, flags \in SUBSET {"NOESCAPE", "ERR"},
          errfunc \in {"none", "continue", "stop"} :
         ExpansionIsExact(input[1], second, flags, errfunc)
  /\ topic = "glob" => GlobVectorIsWhole

\* ProcessorCountsAreExact of sysconf, and LookupsAreSound of getaddrinfo and
\* getnameinfo.
SystemFilesAreRead ==
  /\ Given("cpus") => \A list \in UpTo(CpuTokens, 2) : ProcessorCountsAreExact(list, input[1])
  /\ Given("nodes") =>
       \A service \in LookupServices, host \in {<<>>, <<0>>, <<7>>, <<8>>},
          family \in {"AF_UNSPEC", "AF_INET", "AF_INET6"} :
         LookupsAreSound(input[1], service, [PlainHints EXCEPT !.family = family], host, <<1>>)
  /\ Given("hints") =>
       \A service \in LookupServices \cup NamedServices,
          node \in {NodeName("box"), NodeName("localhost"), Dotted(<<2, 1>>),
                    [kind |-> "null", value |-> ""]} :
         LookupsAreSound(node, service, input[1], <<8>>, <<>>)

\* The statement AddressIsInNetworkOrder of the comment of in_addr.
AddressesAreInNetworkOrder ==
  Given("nodes") => AddressIsInNetworkOrder(input[1], [kind |-> "null", value |-> 0], PlainHints)

\* The statement IsoWeekIsOfThursday of the comment of strftime.
IsoWeeksAreOfThursday ==
  Given("calendar") => \A days \in input[1] .. (input[1] + 200) : IsoWeekIsOfThursday(days)

\* CsvReadsBack, ArgumentsReadBack and GateIsMonotone of xfail_ledger;
\* SnapshotsAreReadWhole, CommandLineReadsBack and CollapsedPathsAgree of abi_check.
ToolsReadWhatIsWritten ==
  /\ Given("csv") =>
       \A g \in CsvFields, end \in {<<"\n">>, <<"\r", "\n">>} :
         CsvReadsBack(<<<<input[1], g>>, <<g>>, <<g, input[1]>>>>, end)
  /\ Given("options") =>
       \A ledger \in {<<>>} \cup {<<t>> : t \in {ArgWord("p"), ArgWord("-x"), Split("--results")}},
          as_of \in {<<>>, <<ArgWord("2024-02-29")>>}, strict \in {<<>>, <<Split("--strict-xpass")>>},
          form \in [DOMAIN NoOptions -> {"joined", "plain", "separated"}] :
         LET config == [NoOptions EXCEPT !["--ledger"] = ledger, !["--results"] = <<ArgWord("p")>>,
                                         !["--as-of"] = as_of, !["--strict-xpass"] = strict]
         IN ArgumentsReadBack(config, input[1], form)
  /\ Given("gate") =>
       \A results \in UpTo(CaseResults, 2), as_of \in 0..2, strict \in BOOLEAN :
         GateIsMonotone(input[1], results, as_of, strict)
  /\ Given("snapshot") =>
       \A second \in SnapshotLines, rest \in UpTo(SnapshotLines, 3) :
         SnapshotsAreReadWhole(<<Magic, input[1], second>> \o rest)
  /\ Given("command") =>
       \A library \in CommandWords, joined, first \in BOOLEAN :
         CommandLineReadsBack(input[1], library, joined, first)
  /\ Given("paths") =>
       \A root \in {<<>>, <<"/">>} : CollapsedPathsAgree(root \o input[1])
=============================================================================
