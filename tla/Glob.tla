------------------------------- MODULE Glob ---------------------------------
(***************************************************************************)
(* Pathname expansion (glob.rs): the segment matcher, the walk over the    *)
(* file tree, and the vector glob and globfree keep in a glob_t.           *)
(*                                                                         *)
(* A pattern and a name are sequences of characters; an index into one is  *)
(* the suffix that starts there. `flags' is a set of flag names. The file  *)
(* tree is external: Tree maps the path of a node (a sequence of names) to *)
(* its kind and, for a directory, the names readdir gives. What errfunc    *)
(* does is one of "none", "continue" and "stop".                           *)
(***************************************************************************)
EXTENDS Integers, Sequences, SequencesExt, FiniteSets, TLC

CONSTANTS
  Tree,              \* external: node |-> [kind, names]
  CharCodes,         \* the byte of every character in use
  GlobPatterns,      \* the patterns the caller expands into its glob_t
  GlobFlags,         \* the flag sets it passes
  MaxGlobPaths,      \* bound on the paths of one glob_t
  MaxGlobOffs        \* bound on gl_offs

VARIABLES
  glob_t,            \* [gl_pathc, gl_pathv, gl_offs]; gl_pathv is a block or 0
  glob_blocks,       \* the live path vectors: address |-> [offsets, paths]
  glob_misfreed,     \* ghost: a vector was released with a wrong layout
  glob_expected      \* ghost: what the caller has been given so far

glob_vars == <<glob_t, glob_blocks, glob_misfreed, glob_expected>>

SEPARATOR == "/"
BACKSLASH == "\\"

DropFirst(s, n) == SubSeq(s, n + 1, Len(s))
StartsWith(s, c) == s # <<>> /\ Head(s) = c
Repeat(c, n) == [i \in 1..n |-> c]

-----------------------------------------------------------------------------
(* bracket_match. Its answer is None (<<>>) when the bracket is not        *)
(* closed, else whether the candidate is in it and what follows it.        *)

NoBracket == <<>>

\* The items from a place of the bracket on; has_any_item holds after one.
RECURSIVE BracketItems(_, _, _, _, _, _)
BracketItems(rest, candidate, no_escape, invert, matched, has_any_item) ==
  LET literal_escaped == Head(rest) = BACKSLASH /\ ~no_escape /\ Len(rest) > 1
      literal == IF literal_escaped THEN rest[2] ELSE Head(rest)
      is_range == /\ ~literal_escaped
                  /\ Len(rest) > 2
                  /\ rest[2] = "-"
                  /\ rest[3] # "]"
      end_escaped == rest[3] = BACKSLASH /\ ~no_escape /\ Len(rest) > 3
      range_end == IF end_escaped THEN rest[4] ELSE rest[3]
      in_range == CharCodes[candidate] \in CharCodes[literal]..CharCodes[range_end]
  IN IF rest = <<>> THEN NoBracket
     ELSE IF Head(rest) = "]" /\ has_any_item
     THEN [matched |-> IF invert THEN ~matched ELSE matched, rest |-> Tail(rest)]
     ELSE IF is_range
     THEN BracketItems(DropFirst(rest, IF end_escaped THEN 4 ELSE 3), candidate,
                       no_escape, invert, matched \/ in_range, TRUE)
     ELSE BracketItems(DropFirst(rest, IF literal_escaped THEN 2 ELSE 1), candidate,
                       no_escape, invert, matched \/ candidate = literal, TRUE)

\* `pattern' begins with the bracket.
bracket_match(pattern, candidate, no_escape) ==
  LET body   == Tail(pattern)
      invert == body # <<>> /\ Head(body) \in {"!", "^"}
      items  == IF invert THEN Tail(body) ELSE body
  IN IF StartsWith(items, "]")
     THEN BracketItems(Tail(items), candidate, no_escape, invert, candidate = "]", TRUE)
     ELSE BracketItems(items, candidate, no_escape, invert, FALSE, FALSE)

RECURSIVE pattern_matches_from(_, _, _)
pattern_matches_from(pattern, candidate, no_escape) ==
  LET current == Head(pattern)
      bracket == bracket_match(pattern, Head(candidate), no_escape)
      stars   == CHOOSE n \in 0..Len(pattern) :
                   /\ \A i \in 1..n : pattern[i] = "*"
                   /\ n < Len(pattern) => pattern[n + 1] # "*"
      escaped == current = BACKSLASH /\ ~no_escape /\ Len(pattern) > 1
      Step(taken) == pattern_matches_from(DropFirst(pattern, taken), Tail(candidate), no_escape)
  IN IF pattern = <<>> THEN candidate = <<>>
     ELSE IF current = "*"
     THEN \/ stars = Len(pattern)
          \/ \E scan_index \in 0..Len(candidate) :
               pattern_matches_from(DropFirst(pattern, stars),
                                    DropFirst(candidate, scan_index), no_escape)
     ELSE /\ candidate # <<>>
          /\ IF current = "?" THEN Step(1)
             ELSE IF current = "[" /\ bracket # NoBracket
             THEN /\ bracket.matched
                  /\ pattern_matches_from(bracket.rest, Tail(candidate), no_escape)
             ELSE IF escaped
             THEN Head(candidate) = pattern[2] /\ Step(2)
             ELSE Head(candidate) = current /\ Step(1)

pattern_matches(segment_pattern, candidate_name, flags) ==
  pattern_matches_from(segment_pattern, candidate_name, "NOESCAPE" \in flags)

RECURSIVE segment_has_pattern_meta(_, _)
segment_has_pattern_meta(segment, flags) ==
  LET no_escape == "NOESCAPE" \in flags
  IN IF segment = <<>> THEN FALSE
     ELSE IF Head(segment) = BACKSLASH /\ ~no_escape /\ Len(segment) > 1
     THEN segment_has_pattern_meta(DropFirst(segment, 2), flags)
     ELSE \/ Head(segment) \in {"*", "?"}
          \/ Head(segment) = "[" /\ bracket_match(segment, ".", no_escape) # NoBracket
          \/ segment_has_pattern_meta(Tail(segment), flags)

\* Mutant: an inverted bracket that lets a dot in shows hidden names.
MutHidden_InvertedBracket(segment_pattern, flags) ==
  \/ StartsWith(segment_pattern, ".")
  \/ /\ StartsWith(segment_pattern, "[")
     /\ LET bracket == bracket_match(segment_pattern, ".", "NOESCAPE" \in flags)
        IN bracket # NoBracket /\ bracket.matched
  \/ /\ "NOESCAPE" \notin flags
     /\ IsPrefix(<<BACKSLASH, ".">>, segment_pattern)

should_match_hidden_name(segment_pattern, flags) ==
  \/ StartsWith(segment_pattern, ".")
  \/ /\ StartsWith(segment_pattern, "[")
     /\ ~(Len(segment_pattern) > 1 /\ segment_pattern[2] \in {"!", "^"})
     /\ LET bracket == bracket_match(segment_pattern, ".", "NOESCAPE" \in flags)
        IN bracket # NoBracket /\ bracket.matched
  \/ /\ "NOESCAPE" \notin flags
     /\ IsPrefix(<<BACKSLASH, ".">>, segment_pattern)

RECURSIVE unescape_segment(_, _)
unescape_segment(segment_pattern, flags) ==
  IF "NOESCAPE" \in flags \/ Len(segment_pattern) < 2 THEN segment_pattern
  ELSE IF Head(segment_pattern) = BACKSLASH
       THEN <<segment_pattern[2]>> \o unescape_segment(DropFirst(segment_pattern, 2), flags)
       ELSE <<Head(segment_pattern)>> \o unescape_segment(Tail(segment_pattern), flags)

\* The escape of a separator is dropped wherever a backslash precedes one.
normalize_escaped_separators(pattern) ==
  LET Dropped(i) == /\ i < Len(pattern)
                    /\ pattern[i] = BACKSLASH /\ pattern[i + 1] = SEPARATOR
      kept[n \in 0..Len(pattern)] ==
        IF n = 0 THEN <<>>
        ELSE IF Dropped(n) THEN kept[n - 1] ELSE Append(kept[n - 1], pattern[n])
  IN kept[Len(pattern)]

SeparatorsAt(pattern, i) ==
  CHOOSE n \in 0..(Len(pattern) - i + 1) :
    /\ \A k \in i..(i + n - 1) : pattern[k] = SEPARATOR
    /\ i + n <= Len(pattern) => pattern[i + n] # SEPARATOR

\* The runs between separators, each with the separators before it, the
\* number of leading separators and that of trailing ones.
parse_segments_with_separators(pattern) ==
  LET leading == SeparatorsAt(pattern, 1)
      starts  == {i \in 1..Len(pattern) :
                    pattern[i] # SEPARATOR /\ (i = 1 \/ pattern[i - 1] = SEPARATOR)}
      EndOf(i) == CHOOSE j \in i..Len(pattern) :
                    /\ \A k \in i..j : pattern[k] # SEPARATOR
                    /\ j < Len(pattern) => pattern[j + 1] = SEPARATOR
      Before(i) == IF i <= leading + 1 THEN 0
                   ELSE CHOOSE n \in 1..i : /\ \A k \in (i - n)..(i - 1) : pattern[k] = SEPARATOR
                                            /\ pattern[i - n - 1] # SEPARATOR
      order == SortSeq(SetToSeq(starts), <)
  IN [leading  |-> leading,
      segments |-> [n \in DOMAIN order |-> [text   |-> SubSeq(pattern, order[n], EndOf(order[n])),
                                            before |-> Before(order[n])]],
      trailing |-> IF starts = {} THEN 0
                   ELSE Len(pattern) - EndOf(order[Len(order)])]

\* Whether the run of plain and escaped separators at the head has an
\* escaped one.
leading_separators_include_escaped(pattern, flags) ==
  /\ "NOESCAPE" \notin flags
  /\ \E i \in 1..(Len(pattern) - 1) :
       /\ pattern[i] = BACKSLASH /\ pattern[i + 1] = SEPARATOR
       /\ \A k \in 1..(i - 1) : \/ pattern[k] = SEPARATOR
                                \/ pattern[k] = BACKSLASH /\ pattern[k + 1] = SEPARATOR

root_only_result_path(leading_separators, leading_has_escaped_separator) ==
  IF \/ leading_separators >= 3
     \/ leading_separators = 2 /\ leading_has_escaped_separator
  THEN <<SEPARATOR, SEPARATOR>> ELSE <<SEPARATOR>>

separator_is_escaped(pattern, index, flags) ==
  /\ "NOESCAPE" \notin flags
  /\ pattern[index] = SEPARATOR
  /\ \E n \in 1..(index - 1) :
       /\ n % 2 = 1
       /\ \A k \in (index - n)..(index - 1) : pattern[k] = BACKSLASH
       /\ index - n > 1 => pattern[index - n - 1] # BACKSLASH

nocheck_fallback_pattern(pattern, flags) ==
  LET Trimmed(i) == pattern[i] = SEPARATOR /\ ~separator_is_escaped(pattern, i, flags)
      end == CHOOSE n \in 0..Len(pattern) :
               /\ \A i \in (n + 1)..Len(pattern) : Trimmed(i)
               /\ n > 0 => ~Trimmed(n)
      trimmed == IF end = 0 THEN pattern ELSE SubSeq(pattern, 1, end)
  IN IF /\ IsPrefix(<<SEPARATOR, SEPARATOR>>, trimmed)
        /\ Len(trimmed) > 2
        /\ SEPARATOR \notin ToSet(DropFirst(trimmed, 2))
     THEN Tail(trimmed) ELSE trimmed

-----------------------------------------------------------------------------
(* The walk.                                                               *)

NoNode == <<<<"no node">>>>
Kind(node) == IF node \in DOMAIN Tree THEN Tree[node].kind ELSE "missing"

\* fs_path.join(name), as the kernel resolves it.
Entry(node, name) ==
  IF Kind(node) \notin {"dir", "unreadable"} THEN NoNode
  ELSE CASE name = <<".">>      -> node
         [] name = <<".", ".">> -> IF node = <<>> THEN node ELSE Front(node)
         [] OTHER -> IF Append(node, name) \in DOMAIN Tree THEN Append(node, name) ELSE NoNode

literal_path_exists(node) == Kind(node) # "missing"

\* The names of a directory, "." and ".." among them.
read_directory_names(node) ==
  IF Kind(node) = "dir" THEN <<<<".">>, <<".", ".">>>> \o Tree[node].names ELSE <<>>

Unreadable(node) == Kind(node) # "dir"

join_result_path(base, separator_count, name) ==
  base \o Repeat(SEPARATOR, separator_count) \o name

\* process_directory_error fails the whole expansion or skips the candidate.
AbortsOnError(flags, errfunc) == errfunc = "stop" \/ "ERR" \in flags

\* The candidates of the next segment that one candidate gives.
Extensions(candidate, segment, flags) ==
  LET include_hidden == should_match_hidden_name(segment.text, flags)
      literal == unescape_segment(segment.text, flags)
      names == IF segment_has_pattern_meta(segment.text, flags)
               THEN SelectSeq(read_directory_names(candidate.fs_path),
                      LAMBDA name : /\ StartsWith(name, ".") => include_hidden
                                    /\ pattern_matches(segment.text, name, flags))
               ELSE SelectSeq(<<literal>>,
                      LAMBDA name : literal_path_exists(Entry(candidate.fs_path, name)))
  IN [n \in DOMAIN names |->
        [fs_path     |-> Entry(candidate.fs_path, names[n]),
         result_path |-> join_result_path(candidate.result_path, segment.before, names[n])]]

FlattenSeqs(seqs) == FoldLeft(LAMBDA all, s : all \o s, <<>>, seqs)

\* The candidates of all segments up to this one, and whether an error ended the walk.
NextCandidates(before, segment, flags, errfunc) ==
  [aborted |-> \/ before.aborted
               \/ /\ AbortsOnError(flags, errfunc)
                  /\ \E c \in ToSet(before.found) : Unreadable(c.fs_path)
                  /\ segment_has_pattern_meta(segment.text, flags),
   found   |-> FlattenSeqs([i \in DOMAIN before.found |->
                              Extensions(before.found[i], segment, flags)])]

\* The result paths; trailing separators ask for directories and leave one.
ResultPaths(candidates, trailing) ==
  LET IsDirectory(c) == Kind(c.fs_path) \in {"dir", "unreadable"}
      PathsOf(ended, tail) == [i \in DOMAIN ended |-> ended[i].result_path \o tail]
  IN IF trailing > 0 THEN PathsOf(SelectSeq(candidates, IsDirectory), <<SEPARATOR>>)
     ELSE PathsOf(candidates, <<>>)

\* The walk over a pattern that has segments.
WalkOf(parsed, flags, errfunc) ==
  LET root_prefix == IF parsed.leading = 2 /\ Len(parsed.segments) = 1 THEN 1 ELSE parsed.leading
      Walked(all) == [aborted |-> all.aborted, paths |-> ResultPaths(all.found, parsed.trailing)]
  IN Walked(FoldLeft(LAMBDA before, segment : NextCandidates(before, segment, flags, errfunc),
                     [aborted |-> FALSE,
                      found |-> <<[fs_path |-> <<>>,
                                   result_path |-> Repeat(SEPARATOR, root_prefix)]>>],
                     parsed.segments))

collect_matches(pattern, flags, errfunc) ==
  LET parsed == parse_segments_with_separators(
                  IF "NOESCAPE" \in flags THEN pattern ELSE normalize_escaped_separators(pattern))
      root == IF parsed.leading = 0 THEN <<>>
              ELSE <<root_only_result_path(parsed.leading,
                       leading_separators_include_escaped(pattern, flags))>>
  IN IF parsed.segments = <<>> THEN [aborted |-> FALSE, paths |-> root]
     ELSE WalkOf(parsed, flags, errfunc)

-----------------------------------------------------------------------------
(* The reference: a segment denotes a set of names by its tokens.          *)

\* A token is a set of characters, or AnyRun for a star.
AnyRun == {"any run"}

RECURSIVE Tokens(_, _)
Tokens(pattern, no_escape) ==
  LET c == Head(pattern)
  IN IF pattern = <<>> THEN <<>>
     ELSE IF c = "*" THEN <<AnyRun>> \o Tokens(Tail(pattern), no_escape)
     ELSE IF c = "?" THEN <<DOMAIN CharCodes>> \o Tokens(Tail(pattern), no_escape)
     ELSE IF c = "[" /\ bracket_match(pattern, ".", no_escape) # NoBracket
     THEN <<{d \in DOMAIN CharCodes : bracket_match(pattern, d, no_escape).matched}>>
            \o Tokens(bracket_match(pattern, ".", no_escape).rest, no_escape)
     ELSE IF c = BACKSLASH /\ ~no_escape /\ Len(pattern) > 1
     THEN <<{pattern[2]}>> \o Tokens(DropFirst(pattern, 2), no_escape)
     ELSE <<{c}>> \o Tokens(Tail(pattern), no_escape)

\* name is cut into as many pieces as there are tokens, each of its token.
InTokens(tokens, name) ==
  \E cut \in [0..Len(tokens) -> 0..Len(name)] :
    /\ cut[0] = 0 /\ cut[Len(tokens)] = Len(name)
    /\ \A i \in 1..Len(tokens) :
         IF tokens[i] = AnyRun THEN cut[i] >= cut[i - 1]
         ELSE cut[i] = cut[i - 1] + 1 /\ name[cut[i]] \in tokens[i]

(* A segment without wildcards is looked up by its unescaped text instead  *)
(* of being matched against the directory: both readings of it name the    *)
(* same file, whatever brackets are left open and backslashes dangle       *)
(* (glob.rs, segment_has_pattern_meta against pattern_matches_from), and a *)
(* segment with wildcards matches exactly the names its tokens denote.     *)
SegmentsDenoteNames(segment, name, flags) ==
  /\ pattern_matches(segment, name, flags) = InTokens(Tokens(segment, "NOESCAPE" \in flags), name)
  /\ ~segment_has_pattern_meta(segment, flags) =>
       (pattern_matches(segment, name, flags) <=> name = unescape_segment(segment, flags))

Wild(segment, flags) == segment_has_pattern_meta(segment, flags)

\* A name a segment may take below a node: an initial dot must be spelled out.
MayTake(segment, name, flags) ==
  LET tokens == Tokens(segment, "NOESCAPE" \in flags)
  IN /\ InTokens(tokens, name)
     /\ Wild(segment, flags) /\ StartsWith(name, ".") =>
          \/ tokens[1] = {"."}
          \/ StartsWith(segment, "[") /\ "." \in tokens[1] /\ segment[2] \notin {"!", "^"}

(* The expansion of `first/second' is every path of the tree that takes    *)
(* both segments, hidden names only where the segment spells the dot, and  *)
(* nothing else; it is given up exactly when a directory that had to be    *)
(* read could not be and the caller asked to stop (glob.rs, the walk of    *)
(* collect_matches with its error rule and its separators).                *)
ExpansionIsExact(first, second, flags, errfunc) ==
  LET expansion == collect_matches(first \o <<SEPARATOR>> \o second, flags, errfunc)
      names == UNION {ToSet(Tree[n].names) : n \in DOMAIN Tree} \cup {<<".">>, <<".", ".">>}
      heads == {name \in names : /\ Entry(<<>>, name) # NoNode
                                 /\ MayTake(first, name, flags)}
      pairs == {pair \in heads \X names :
                  /\ Entry(Entry(<<>>, pair[1]), pair[2]) # NoNode
                  /\ Wild(second, flags) => ~Unreadable(Entry(<<>>, pair[1]))
                  /\ MayTake(second, pair[2], flags)}
      failed == \E name \in heads : Wild(second, flags) /\ Unreadable(Entry(<<>>, name))
  IN /\ expansion.aborted = (failed /\ AbortsOnError(flags, errfunc))
     /\ ~expansion.aborted =>
          /\ ToSet(expansion.paths) = {pair[1] \o <<SEPARATOR>> \o pair[2] : pair \in pairs}
          /\ Len(expansion.paths) = Cardinality(pairs)

-----------------------------------------------------------------------------
(* glob and globfree on one glob_t.                                        *)

ZeroedGlob == [gl_pathc |-> 0, gl_pathv |-> 0, gl_offs |-> 0]

GlobInit ==
  /\ glob_t = ZeroedGlob
  /\ glob_blocks = <<>>
  /\ glob_misfreed = FALSE
  /\ glob_expected = <<>>

\* Byte order, as Vec<u8> compares.
PathLess(p, q) ==
  \/ IsStrictPrefix(p, q)
  \/ \E n \in 1..Len(p) : /\ n <= Len(q) /\ CharCodes[p[n]] < CharCodes[q[n]]
                          /\ \A i \in 1..(n - 1) : p[i] = q[i]

\* What a call adds of the paths it found, <<>> when there is nothing to add.
MatchedPaths(found, pattern, flags) ==
  LET Sorted(paths) == IF "NOSORT" \in flags THEN paths ELSE SortSeq(paths, PathLess)
  IN Sorted(IF found = <<>> /\ "NOCHECK" \in flags
            THEN <<nocheck_fallback_pattern(pattern, flags)>> ELSE found)

\* The gl_pathc entries from `offsets' on, up to the first null one.
clone_existing_paths(offsets) ==
  IF glob_t.gl_pathv = 0 THEN <<>>
  ELSE LET block == glob_blocks[glob_t.gl_pathv]
           skip  == offsets - block.offsets
       IN IF skip < 0 THEN <<>>
          ELSE SubSeq(block.paths, skip + 1, skip + glob_t.gl_pathc)

FreshVector(blocks) == CHOOSE a \in 1..(Cardinality(DOMAIN blocks) + 1) : a \notin DOMAIN blocks

\* The blocks after free_pathv(gl_pathv, gl_pathc, gl_offs).
free_pathv(blocks) == [a \in DOMAIN blocks \ {glob_t.gl_pathv} |-> blocks[a]]

Misfrees ==
  /\ glob_t.gl_pathv # 0
  /\ \/ glob_blocks[glob_t.gl_pathv].offsets # glob_t.gl_offs
     \/ Len(glob_blocks[glob_t.gl_pathv].paths) # glob_t.gl_pathc

\* Mutant: the old vector is dropped from the glob_t without being freed.
MutPublishPaths_Leaks(matched, flags) ==
  LET offsets == IF {"APPEND", "DOOFFS"} \cap flags # {} THEN glob_t.gl_offs ELSE 0
      final   == (IF "APPEND" \in flags THEN clone_existing_paths(offsets) ELSE <<>>) \o matched
      block   == FreshVector(glob_blocks)
  IN /\ Len(final) <= MaxGlobPaths
     /\ glob_blocks' = (block :> [offsets |-> offsets, paths |-> final]) @@ glob_blocks
     /\ glob_t' = [gl_pathc |-> Len(final), gl_pathv |-> block, gl_offs |-> offsets]
     /\ glob_expected' = final
     /\ UNCHANGED glob_misfreed

\* The new vector, with the old paths before the matched ones when they are
\* appended, takes the place of the old one.
PublishPaths(matched, flags) ==
  LET offsets == IF {"APPEND", "DOOFFS"} \cap flags # {} THEN glob_t.gl_offs ELSE 0
      final   == (IF "APPEND" \in flags THEN clone_existing_paths(offsets) ELSE <<>>) \o matched
      block   == FreshVector(glob_blocks)
  IN /\ Len(final) <= MaxGlobPaths
     /\ glob_blocks' = (block :> [offsets |-> offsets, paths |-> final])
                          @@ free_pathv(glob_blocks)
     /\ glob_misfreed' = (glob_misfreed \/ Misfrees)
     /\ glob_t' = [gl_pathc |-> Len(final), gl_pathv |-> block, gl_offs |-> offsets]
     /\ glob_expected' = (IF "APPEND" \in flags THEN glob_expected ELSE <<>>) \o matched

\* A call that finds something; GLOB_ABORTED and GLOB_NOMATCH change nothing.
GlobCall(pattern, flags, errfunc) ==
  LET Returned(expansion) ==
        /\ ~expansion.aborted
        /\ \E matched \in {MatchedPaths(expansion.paths, pattern, flags)} \ {<<>>} :
             PublishPaths(matched, flags)
  IN Returned(collect_matches(pattern, flags, errfunc))

globfree ==
  /\ glob_blocks' = free_pathv(glob_blocks)
  /\ glob_misfreed' = (glob_misfreed \/ Misfrees)
  /\ glob_t' = ZeroedGlob
  /\ glob_expected' = <<>>

\* The caller reserves slots before the first call, as GLOB_DOOFFS asks.
CallerSetsOffs ==
  /\ glob_t.gl_pathv = 0
  /\ \E offs \in 0..MaxGlobOffs : glob_t' = [glob_t EXCEPT !.gl_offs = offs]
  /\ UNCHANGED <<glob_blocks, glob_misfreed, glob_expected>>

GlobNext ==
  \/ \E pattern \in GlobPatterns, flags \in GlobFlags, errfunc \in {"none", "continue", "stop"} :
       GlobCall(pattern, flags, errfunc)
  \/ globfree
  \/ CallerSetsOffs

GlobSpec == GlobInit /\ [][GlobNext]_glob_vars

(* The vector of a glob_t is the caller's paths behind the slots it asked  *)
(* for, through any sequence of appending, replacing and freeing calls; it *)
(* is the only vector alive and was never released with another layout     *)
(* than it was allocated with (glob.rs, glob's free after allocate_pathv). *)
GlobVectorIsWhole ==
  /\ ~glob_misfreed
  /\ glob_t.gl_pathc = Len(glob_expected)
  /\ IF glob_t.gl_pathv = 0 THEN glob_blocks = <<>> /\ glob_expected = <<>>
     ELSE glob_blocks = (glob_t.gl_pathv :> [offsets |-> glob_t.gl_offs, paths |-> glob_expected])

=============================================================================
