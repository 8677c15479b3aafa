-------------------------------- MODULE Csv --------------------------------
(***************************************************************************)
(* barecsv.h: the pull parser.  A row is its line and the part not yet     *)
(* read; a reader is the input not yet read and the index of the next row. *)
(***************************************************************************)
EXTENDS Strs

DefaultConfig == [delimiter |-> 44, quote |-> 34, trim |-> FALSE, header |-> FALSE]

\* _csv_next_line: up to a line feed, whether it is inside quotes or not.
NextLine(src) ==
    LET pos == IndexFunc(src, {LF})
        line == Upto(src, pos)
    IN  IF pos < 0 THEN [line |-> src, rest |-> <<>>]
        ELSE [line |-> TrimSuffix(line, <<CR>>), rest |-> From(src, pos + 1)]

\* The rows csv_next_row returns until it is false.
RECURSIVE RowLines(_, _, _)
RowLines(src, index, cfg) ==
    LET next == NextLine(src)
        skipped == cfg.header /\ index = 0
    IN  IF src = <<>> \/ (next.line = <<>> /\ next.rest = <<>>) THEN <<>>
        ELSE (IF skipped THEN <<>> ELSE <<next.line>>)
             \o RowLines(next.rest, index + 1, cfg)

\* Where the quote that closes a field is, or the end if there is none.
RECURSIVE ClosingQuote(_, _, _)
ClosingQuote(s, i, q) ==
    IF i >= Len(s) THEN Len(s)
    ELSE IF s[i + 1] # q THEN ClosingQuote(s, i + 1, q)
    ELSE IF HasPrefix(From(s, i + 1), <<q>>) THEN ClosingQuote(s, i + 2, q)
    ELSE i

QuotedField(s, cfg, arena) ==
    LET q == cfg.quote
        raw == Upto(s, ClosingQuote(s, 0, q))
        rest == TrimPrefix(From(s, Len(raw)), <<q>>)
    IN  [value |-> IF arena THEN Replace(raw, <<q, q>>, <<q>>, -1) ELSE raw,
         rest |-> TrimPrefix(rest, <<cfg.delimiter>>)]

PlainField(s, cfg) ==
    LET cut == CutFunc(s, {cfg.delimiter})
    IN  [value |-> cut.before, rest |-> IF cut.found THEN cut.after ELSE <<>>]

NextField(s, cfg, arena) ==
    LET quoted == HasPrefix(s, <<cfg.quote>>)
        field == IF quoted THEN QuotedField(Tail(s), cfg, arena) ELSE PlainField(s, cfg)
    IN  [field EXCEPT !.value = IF cfg.trim THEN Trim(@, {9, 32}) ELSE @]

\* The fields csv_next_field returns: one that leaves nothing is the last.
RECURSIVE RowFields(_, _, _)
RowFields(s, cfg, arena) ==
    LET field == NextField(s, cfg, arena)
    IN  <<field.value>>
        \o (IF field.rest = <<>> THEN <<>> ELSE RowFields(field.rest, cfg, arena))

FieldsOf(line, cfg, arena) ==
    IF line = <<>> THEN <<>> ELSE RowFields(line, cfg, arena)

ReadRows(src, index, cfg) ==
    LET lines == RowLines(src, index, cfg)
    IN  [i \in DOMAIN lines |-> FieldsOf(lines[i], cfg, TRUE)]

ReadHeader(src, cfg) ==
    IF src = <<>> THEN <<>> ELSE FieldsOf(NextLine(src).line, cfg, TRUE)

ReadAll(src, cfg) ==
    IF cfg.header /\ src # <<>>
    THEN <<ReadHeader(src, cfg)>> \o ReadRows(NextLine(src).rest, 1, cfg)
    ELSE ReadRows(src, 0, cfg)

-----------------------------------------------------------------------------
(* A writer of RFC 4180: a field is quoted when it must be, or always.     *)

Quote(field, cfg, always) ==
    LET q == cfg.quote
    IN  IF always \/ field = <<>> \/ Range(field) \cap {cfg.delimiter, q, LF} # {}
        THEN <<q>> \o Replace(field, <<q>>, <<q, q>>, -1) \o <<q>>
        ELSE field

Written(table, cfg, always, eol) ==
    Join([r \in DOMAIN table |->
              Join([f \in DOMAIN table[r] |-> Quote(table[r][f], cfg, always)],
                   <<cfg.delimiter>>)], eol)

\* Reading a table of fields without line feeds back gives the table: with
\* either line ending, with one after the last row or none, quoting every
\* field or those that need it; a reader with a header skips the first row,
\* which csv_read_header returns.
ReadsTable(table) ==
    \A always \in BOOLEAN, eol \in {<<LF>>, <<CR, LF>>}, end \in BOOLEAN :
        LET src == Written(table, DefaultConfig, always, eol)
                   \o (IF end THEN eol ELSE <<>>)
            headed == [DefaultConfig EXCEPT !.header = TRUE]
        IN  /\ ReadAll(src, DefaultConfig) = table
            /\ ReadAll(src, headed) = table
            /\ ReadRows(src, 0, headed) = Tail(table)
            /\ ReadHeader(src, headed) = Head(table)
=============================================================================
