------------------------------ MODULE JsonText ------------------------------
(***************************************************************************)
(* The parser and the printer of cJSON.c.  A text is a sequence of symbols: *)
(* punctuation, a blank, the literals, numerals, and the characters of      *)
(* strings; uXXXX after a backslash is one symbol, and u the start of an    *)
(* escape without its four digits.  A value is a record:                    *)
(* the tree of cJSON nodes without its pointers (module JsonTree has        *)
(* those).  Memory is never short.                                          *)
(*                                                                          *)
(* The parser departs from JSON where the code does: unquoted names and     *)
(* strings, a string that the text ends in, anything after the value.       *)
(***************************************************************************)
EXTENDS Integers, Sequences, SequencesExt

Literals == {"null", "true", "false"}
Numerals == {"7"}
Blank == " "

Letters == {"a", "n", "u"}

\* isalpha of a symbol's first character.
IsAlpha(c) == c \in Literals \cup Letters

\* The symbol at i; "end" is the terminating 0.
Sym(text, i) == IF i <= Len(text) THEN text[i] ELSE "end"

RECURSIVE skip(_, _)
skip(text, i) == IF Sym(text, i) = Blank THEN skip(text, i + 1) ELSE i

Null == [t |-> "null"]
Str(s) == [t |-> "str", s |-> s]
Arr(kids) == [t |-> "arr", kids |-> kids]
Obj(kids) == [t |-> "obj", kids |-> kids]

\* Outcomes of a parse: the value and where the text goes on, or a failure at
\* the place ep tells, or a read past the end of the text.
Good(v, i) == [r |-> "ok", v |-> v, at |-> i]
Bad(i) == [r |-> "fail", v |-> Null, at |-> i]
Overrun == [r |-> "overrun", v |-> Null, at |-> 0]

\* A string ends at a quote; one that did not begin with a quote, at the
\* first character that is no letter.
isend(c, isplain) == c = "\"" \/ (isplain /\ ~IsAlpha(c) /\ c # "_")

CodeUnits == {"u0000", "u0001", "uD83D", "uDE00"}

\* What follows a backslash, as characters of the string and symbols used.
\* A high surrogate needs its low half behind another backslash; an escape
\* without digits takes the next four symbols for them.
Unescaped(text, i) ==
    LET c == Sym(text, i)
        paired == Sym(text, i + 1) = "\\" /\ Sym(text, i + 2) \in CodeUnits
    IN  CASE c = "n" -> [s |-> <<"nl">>, used |-> 1]
          [] c = "u0001" -> [s |-> <<"c1">>, used |-> 1]
          [] c \in {"u0000", "uDE00"} \/ (c = "uD83D" /\ ~paired) -> [s |-> <<>>, used |-> 1]
          [] c = "uD83D" /\ paired -> [s |-> IF text[i + 2] = "uDE00" THEN <<"smile">> ELSE <<>>, used |-> 3]
          [] c = "u" -> [s |-> <<>>, used |-> 5]
          [] OTHER -> [s |-> <<c>>, used |-> 1]

\* The first loop of parse_string finds the end of the string, to allocate its
\* copy; a backslash at the end of the text makes it step over the terminator.
RECURSIVE StringEnd(_, _, _)
StringEnd(text, i, isplain) ==
    LET c == Sym(text, i)
    IN  IF i > Len(text) \/ isend(c, isplain) THEN i
        ELSE StringEnd(text, IF c = "\\" THEN i + 2 ELSE i + 1, isplain)

\* The second loop copies; past the end the first one found it leaves the
\* text and its copy.
RECURSIVE CopyString(_, _, _, _)
CopyString(text, i, stop, out) ==
    IF i > stop \/ stop > Len(text) + 1 THEN Overrun
    ELSE IF i = stop THEN Good(Str(out), IF Sym(text, i) = "\"" THEN i + 1 ELSE i)
    ELSE IF text[i] # "\\" THEN CopyString(text, i + 1, stop, Append(out, text[i]))
    ELSE LET u == Unescaped(text, i + 1)
         IN  CopyString(text, i + 1 + u.used, stop, out \o u.s)

parse_string(text, i) ==
    LET isplain == Sym(text, i) # "\""
        from == IF isplain THEN i ELSE i + 1
    IN  CopyString(text, from, StringEnd(text, from, isplain), <<>>)

RECURSIVE parse_value(_, _), parse_items(_, _, _), parse_members(_, _, _)

\* Mutant: the end of the text ends the array.
parse_itemsLenient(text, i, kids) ==
    LET p == parse_value(text, skip(text, i))
        j == skip(text, p.at)
    IN  IF p.r # "ok" THEN p
        ELSE CASE Sym(text, j) = "," -> parse_items(text, j + 1, Append(kids, p.v))
               [] Sym(text, j) \in {"]", "end"} -> Good(Arr(Append(kids, p.v)), j + 1)
               [] OTHER -> Bad(j)

\* The elements of an array from i on; the bracket or a comma follows each.
parse_items(text, i, kids) ==
    LET p == parse_value(text, skip(text, i))
        j == skip(text, p.at)
    IN  IF p.r # "ok" THEN p
        ELSE CASE Sym(text, j) = "," -> parse_items(text, j + 1, Append(kids, p.v))
               [] Sym(text, j) = "]" -> Good(Arr(Append(kids, p.v)), j + 1)
               [] OTHER -> Bad(j)

parse_array(text, i) ==
    LET j == skip(text, i + 1)
    IN  IF Sym(text, j) = "]" THEN Good(Arr(<<>>), j + 1) ELSE parse_items(text, j, <<>>)

\* The members of an object from i on: a name, which parse_string accepts
\* without quotes, a colon and a value.
parse_members(text, i, kids) ==
    LET n == parse_string(text, skip(text, i))
        c == skip(text, n.at)
        p == parse_value(text, skip(text, c + 1))
        j == skip(text, p.at)
    IN  IF n.r # "ok" THEN n
        ELSE IF Sym(text, c) # ":" THEN Bad(c)
        ELSE IF p.r # "ok" THEN p
        ELSE CASE Sym(text, j) = "," -> parse_members(text, j + 1, Append(kids, <<n.v.s, p.v>>))
               [] Sym(text, j) = "}" -> Good(Obj(Append(kids, <<n.v.s, p.v>>)), j + 1)
               [] OTHER -> Bad(j)

parse_object(text, i) ==
    LET j == skip(text, i + 1)
    IN  IF Sym(text, j) = "}" THEN Good(Obj(<<>>), j + 1) ELSE parse_members(text, j, <<>>)

parse_value(text, i) ==
    LET c == Sym(text, i)
    IN  CASE c \in Literals \cup Numerals -> Good([t |-> c], i + 1)
          [] c = "[" -> parse_array(text, i)
          [] c = "{" -> parse_object(text, i)
          [] c \in {"\""} \cup Letters -> parse_string(text, i)
          [] OTHER -> Bad(i)

\* cJSON_ParseWithOpts(text, _, whole): whole forbids anything but blanks
\* behind the value; cJSON_Parse allows it.
cJSON_ParseWithOpts(text, whole) ==
    LET p == parse_value(text, skip(text, 1))
        j == skip(text, p.at)
    IN  IF p.r = "ok" /\ whole /\ Sym(text, j) # "end" THEN Bad(j) ELSE p

cJSON_Parse(text) == cJSON_ParseWithOpts(text, FALSE)

-----------------------------------------------------------------------------

\* A character as print_string_ptr writes it.
EscapedChar(c) == CASE c = "\"" -> <<"\\", "\"">> [] c = "\\" -> <<"\\", "\\">>
                    [] c = "nl" -> <<"\\", "n">> [] c = "c1" -> <<"\\", "u0001">> [] OTHER -> <<c>>

print_string_ptr(s) ==
    <<"\"">> \o FlattenSeq([k \in 1..Len(s) |-> EscapedChar(s[k])]) \o <<"\"">>

Blanks(n) == [k \in 1..n |-> Blank]

\* The entries with a separator between them.
Join(entries, sep) ==
    FlattenSeq([k \in 1..Len(entries) |-> IF k < Len(entries) THEN entries[k] \o sep ELSE entries[k]])

\* fmt tells cJSON_Print from cJSON_PrintUnformatted; tabs and line breaks
\* are blanks.
RECURSIVE print_value(_, _, _)

print_array(kids, depth, fmt) ==
    <<"[">> \o Join([k \in 1..Len(kids) |-> print_value(kids[k], depth + 1, fmt)],
                    IF fmt THEN <<",", Blank>> ELSE <<",">>) \o <<"]">>

print_object(kids, depth, fmt) ==
    LET d == depth + 1
        indent(n) == IF fmt THEN Blanks(n) ELSE <<>>
        member(k) == indent(d) \o print_string_ptr(kids[k][1]) \o <<":">> \o indent(1)
                     \o print_value(kids[k][2], d, fmt)
                     \o (IF k < Len(kids) THEN <<",">> ELSE <<>>) \o indent(1)
    IN  IF kids = <<>> THEN <<"{">> \o indent(1) \o indent(depth - 1) \o <<"}">>
        ELSE <<"{">> \o indent(1) \o FlattenSeq([k \in 1..Len(kids) |-> member(k)])
             \o indent(depth) \o <<"}">>

print_value(v, depth, fmt) ==
    CASE v.t = "str" -> print_string_ptr(v.s)
      [] v.t = "arr" -> print_array(v.kids, depth, fmt)
      [] v.t = "obj" -> print_object(v.kids, depth, fmt)
      [] OTHER -> <<v.t>>

cJSON_Print(v, fmt) == print_value(v, 0, fmt)

\* Bytes of a text: the literals and escapes are longer than one.
Width(c) == CASE c \in {"null", "true"} -> 4 [] c = "false" -> 5 [] c = "u0001" -> 5
              [] c = "smile" -> 4 [] OTHER -> 1
strlen(text) == FoldLeft(LAMBDA n, c : n + Width(c), 0, text)

SumOver(n, F(_)) == FoldLeft(LAMBDA acc, k : acc + F(k), 0, [k \in 1..n |-> k])

\* Mutant: the separators are forgotten.
AllocatedTight(v, depth, fmt) ==
    CASE v.t = "arr" /\ v.kids # <<>> ->
           2 + SumOver(Len(v.kids), LAMBDA k : strlen(print_value(v.kids[k], depth + 1, fmt)))
      [] OTHER -> strlen(print_value(v, depth, fmt)) + 1

\* The bytes print_array and print_object allocate for their result.
Allocated(v, depth, fmt) ==
    CASE v.t = "arr" /\ v.kids = <<>> -> 3
      [] v.t = "arr" -> 5 + SumOver(Len(v.kids), LAMBDA k :
                              strlen(print_value(v.kids[k], depth + 1, fmt)) + 2 + (IF fmt THEN 1 ELSE 0))
      [] v.t = "obj" /\ v.kids = <<>> -> IF fmt THEN depth + 3 ELSE 3
      [] v.t = "obj" -> 7 + (IF fmt THEN depth + 1 ELSE 0) + SumOver(Len(v.kids), LAMBDA k :
                              strlen(print_value(v.kids[k][2], depth + 1, fmt)) + strlen(print_string_ptr(v.kids[k][1]))
                                + 2 + (IF fmt THEN 2 + depth + 1 ELSE 0))
      [] OTHER -> strlen(print_value(v, depth, fmt)) + 1

=============================================================================
