---------------------------- MODULE Suppression ----------------------------
(***************************************************************************)
(* Which findings are shown: select and ignore (src/diagnostics/filter.rs) *)
(* and noqa comments (src/diagnostics/noqa.rs).                            *)
(*                                                                         *)
(* A code is the sequence of its characters after "JINJA-", so that "starts *)
(* with" is IsPrefix.  A line is its comments and its tag delimiters, in    *)
(* order; a comment is a keyword, a separator and the ids after it.         *)
(***************************************************************************)
EXTENDS Naturals, Sequences, SequencesExt

CONSTANTS
    Known,   \* every code and the class prefixes a noqa may name
    W106, W107

\* The entries of s that are in S, in their order (SelectSeq)
Keep(s, S) == FlattenSeq([i \in DOMAIN s |-> IF s[i] \in S THEN <<s[i]>> ELSE <<>>])

CodeMatches(filter, code) == IsPrefix(filter, code)

Matched(code, filters) == \E f \in filters : CodeMatches(f, code)

FilterByConfig(diags, select, ignore) ==
    Keep(diags, {d \in ToSet(diags) :
        /\ ~(d.code = W106 /\ select = {})
        /\ ~Matched(d.code, ignore)
        /\ select # {} => Matched(d.code, select)})

-----------------------------------------------------------------------------
(* Directives *)

\* parse_comment: a noqa with nothing after it means every code.
IsDirective(comment) ==
    \/ comment.word = "noqa"
    \/ comment.word = "noqa-file" /\ comment.separator # "space"

Directive(line, comment) ==
    [line |-> line, file |-> comment.word = "noqa-file", ids |-> ToSet(comment.ids)]

Directives(lines) ==
    UNION {{Directive(i, c) : c \in {d \in ToSet(lines[i].comments) : IsDirective(d)}} :
           i \in DOMAIN lines}

Covers(directive, code) ==
    directive.ids = {} \/ Matched(code, directive.ids \cap Known)

\* One W107 for each unknown id, in text order.
InvalidIds(lines) ==
    FlattenSeq([i \in DOMAIN lines |->
        LET named == Keep(lines[i].comments, {c \in ToSet(lines[i].comments) : IsDirective(c)})
            ids == FlattenSeq([j \in DOMAIN named |-> named[j].ids])
            unknown == Keep(ids, ToSet(ids) \ Known) IN
        [j \in DOMAIN unknown |-> [line |-> i, col |-> 0, code |-> W107]]])

-----------------------------------------------------------------------------
(* Tags over several lines *)

Has(line, delimiter) == delimiter \in ToSet(line.tags)

\* Mutant: the first delimiter of the line decides.
LeavesOpenByFirst(line) == Has(line, "open") /\ ~Has(line, "close")

\* The last tag that starts on the line does not end on it.
LeavesOpen(line) == Has(line, "open") /\ Last(line.tags) = "open"

OnlyCloses(line) == Has(line, "close") /\ ~Has(line, "open")

\* find_enclosing_tag_open_line, searching backwards from the line above l
EnclosingTagOpenLines(lines, l) ==
    {k \in 1..(l - 1) :
        /\ LeavesOpen(lines[k])
        /\ \A j \in (k + 1)..(l - 1) : ~LeavesOpen(lines[j]) /\ ~OnlyCloses(lines[j])}

SuppressedInFile(d, lines) ==
    \E directive \in Directives(lines) : directive.file /\ Covers(directive, d.code)

SuppressedOnLine(d, lines) ==
    \E directive \in Directives(lines) :
        /\ ~directive.file
        /\ directive.line \in {d.line} \cup EnclosingTagOpenLines(lines, d.line)
        /\ Covers(directive, d.code)

SuppressByNoqa(diags, lines) ==
    Keep(diags, {d \in ToSet(diags) : ~SuppressedInFile(d, lines) /\ ~SuppressedOnLine(d, lines)})

\* A finding of another text may lie below the last line, and the search for
\* its tag then reads a line that is not there: the program stops.
ReadsNoLine(diags, lines) ==
    \E i \in DOMAIN diags :
        ~SuppressedInFile(diags[i], lines) /\ diags[i].line > Len(lines) + 1

-----------------------------------------------------------------------------
(* What specs/features/F01-diagnostics.md says (REQ-DIAG-03 to 05) *)

\* The line of the tag that is still open where line l begins, or 0.
TagOpenAt(lines, l) ==
    LET delimiters == FlattenSeq([i \in 1..(l - 1) |->
                          [j \in DOMAIN lines[i].tags |-> <<i, lines[i].tags[j]>>]]) IN
    IF delimiters # <<>> /\ Last(delimiters)[2] = "open" THEN Last(delimiters)[1] ELSE 0

\* A line that opens tags and has closed the last begins outside of a tag.
TagsSettle(lines) ==
    \A k \in DOMAIN lines :
        Has(lines[k], "open") /\ Last(lines[k].tags) = "close" => TagOpenAt(lines, k) = 0

Shown(d, select, ignore, lines) ==
    /\ IF select = {} THEN d.code # W106 ELSE Matched(d.code, select)
    /\ ~Matched(d.code, ignore)
    /\ \A directive \in Directives(lines) :
          directive.file \/ directive.line \in {d.line, TagOpenAt(lines, d.line)}
              => ~Covers(directive, d.code)
=============================================================================
