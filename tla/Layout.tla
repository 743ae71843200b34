------------------------------- MODULE Layout -------------------------------
(***************************************************************************)
(* The formatter's layout (src/format/mod.rs) and its edits for a range    *)
(* (src/features/formatting.rs).  A source is a sequence of lines, a line  *)
(* its indentation in units and the tags that stand on it, none of which   *)
(* goes on over a line end.  Host tags, raw regions, the inside of tags    *)
(* and trim_blocks are left out.                                           *)
(***************************************************************************)
EXTENDS Outline

Row(indent, tags) == [indent |-> indent, tags |-> tags]
Empty == Row(0, <<>>)
IsEmpty(line) == line.tags = <<>>
\* A line that does not begin with an expression.
IsTagLine(line) == line.tags # <<>> /\ line.tags[1].kind \notin Expressions

(***************************************************************************)
(* Depth.  "elif" and "else" open and close.                               *)
(***************************************************************************)
Realigners == {"elif", "else"}
IsOpener(tag) ==
  \/ tag.kind = "set_block"
  \/ Keyword(tag) \in Realigners \cup ((Pairs \cup {"if"}) \ {"set"})
IsCloser(tag) == Keyword(tag) \in Realigners \cup DOMAIN Opened
ScanDepthTokens(line) == SelectSeq(line.tags, LAMBDA t : IsOpener(t) \/ IsCloser(t))
Statements(line) == SelectSeq(line.tags, LAMBDA t : t.kind \notin Expressions)

\* Depths saturate at zero.
Less(depth, n) == IF depth < n THEN 0 ELSE depth - n

\* A line that begins with a closer stands one unit further out.
DepthAt(depth, tags) == IF tags # <<>> /\ IsCloser(tags[1]) THEN Less(depth, 1) ELSE depth

\* Mutant: the closer a line begins with is subtracted again after the line.
DepthAfterTwice(depth, tags) ==
  LET ups == {k \in DOMAIN tags : IsOpener(tags[k])}
      downs == {k \in DOMAIN tags : IsCloser(tags[k])}
  IN  Less(DepthAt(depth, tags) + Cardinality(ups), Cardinality(downs))

\* What is first has closed already; a realigner behind it changes nothing.
DepthAfter(depth, tags) ==
  LET ups == {k \in DOMAIN tags : IsOpener(tags[k]) /\ (k = 1 \/ ~IsCloser(tags[k]))}
      downs == {k \in DOMAIN tags \ {1} : IsCloser(tags[k]) /\ ~IsOpener(tags[k])}
  IN  Less(DepthAt(depth, tags) + Cardinality(ups), Cardinality(downs))

Reindent(source) ==
  LET step(acc, line) ==
        LET tokens == ScanDepthTokens(line)
        IN  IF IsEmpty(line) THEN [acc EXCEPT !.lines = Append(@, line)]
            ELSE [depth |-> DepthAfter(acc.depth, tokens),
                  lines |-> Append(acc.lines, Row(DepthAt(acc.depth, tokens), line.tags))]
  IN  FoldLeft(step, [depth |-> 0, lines |-> <<>>], source).lines

(***************************************************************************)
(* Empty lines behind what closes at the top level.  The depth is counted  *)
(* anew, from lines that begin with a statement only.                      *)
(***************************************************************************)
DepthBehind(source, i) ==
  LET step(depth, line) == IF IsTagLine(line) THEN DepthAfter(depth, Statements(line)) ELSE depth
  IN  FoldLeft(step, 0, SubSeq(source, 1, i))

ClosesToTopLevel(source, i) ==
  /\ IsTagLine(source[i])
  /\ \E tag \in Elements(source[i].tags) : IsCloser(tag) /\ Keyword(tag) \notin Realigners
  /\ DepthBehind(source, i) = 0

\* The next line behind i with something on it, as a set of at most one.
NextContent(source, i) ==
  LET behind == {j \in i + 1 .. Len(source) : ~IsEmpty(source[j])}
  IN  {j \in behind : \A b \in behind : j <= b}

\* Mutant: the empty lines already there are not counted.
MissingAlways(source, i, n) == IF NextContent(source, i) = {} THEN 0 ELSE n

Missing(source, i, n) ==
  IF NextContent(source, i) = {} THEN 0 ELSE Less(n, Only(NextContent(source, i)) - i - 1)

InsertBlankLines(source, n) ==
  FlattenSeq([i \in DOMAIN source |->
    IF ClosesToTopLevel(source, i)
    THEN <<source[i]>> \o [k \in 1 .. Missing(source, i, n) |-> Empty]
    ELSE <<source[i]>>])

ApplyLstripBlocks(source) ==
  [i \in DOMAIN source |-> IF IsTagLine(source[i]) THEN Row(0, source[i].tags) ELSE source[i]]

\* A line end behind the last line is an empty line; the empty source has none.
EnsureNewlineAtEof(source) ==
  IF Len(source) > 1 /\ IsEmpty(Last(source)) THEN source ELSE Append(source, Empty)

\* A source with an error node is left alone.
FormatWithConfig(source, config) ==
  IF \E i \in DOMAIN source : \E tag \in Elements(source[i].tags) : tag.kind \in ErrorKinds THEN source
  ELSE LET spaced == InsertBlankLines(Reindent(source), config.blankLines)
           stripped == IF config.lstrip THEN ApplyLstripBlocks(spaced) ELSE spaced
       IN  IF config.newline THEN EnsureNewlineAtEof(stripped) ELSE stripped

(***************************************************************************)
(* Edits for a range of lines: by line, and none where lines come or go.   *)
(***************************************************************************)
RangeEdits(source, formatted, from, to) ==
  IF Len(source) # Len(formatted) THEN {}
  ELSE {<<i, formatted[i]>> : i \in {k \in DOMAIN source \cap from .. to : source[k] # formatted[k]}}

FormatRange(source, from, to, config) ==
  LET edits == RangeEdits(source, FormatWithConfig(source, config), from, to)
  IN  [i \in DOMAIN source |-> IF \E e \in edits : e[1] = i THEN (CHOOSE e \in edits : e[1] = i)[2] ELSE source[i]]
=============================================================================
