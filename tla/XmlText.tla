------------------------------- MODULE XmlText ------------------------------
(* The text of tinyxml2: what its parser reads and what its printer writes.  *)
(* A text is a sequence of symbols, each a character or a word of letters    *)
(* ("lt", "CDATA") the code only looks at as a whole.  A position is an      *)
(* index into the text; 0 is the null pointer the parsers return on error.   *)
EXTENDS Integers, Sequences, SequencesExt, FiniteSets, FiniteSetsExt, TLC

EOF == "EOF"
CR == "\r"
LF == "\n"
White == {" ", LF, CR}
Quotes == {"\"", "'"}

At(s, p) == IF p \in 1..Len(s) THEN s[p] ELSE EOF
LooksAt(s, p, word) == p + Len(word) - 1 <= Len(s) /\ SubSeq(s, p, p + Len(word) - 1) = word

(* The first position from p on where P holds, or the end of the text. *)
FirstFrom(s, p, P(_)) ==
    Min({q \in p..Len(s) : P(q)} \cup {Len(s) + 1})

-----------------------------------------------------------------------------
(* XMLUtil. *)
SkipWhiteSpace(s, p) == FirstFrom(s, p, LAMBDA q : s[q] \notin White)

Letters == {"a", "b", "lt", "gt", "amp", "quot", "apos", "CDATA", "BOM", "x"}
Digits == {"0", "1"}
IsNameStartChar(c) == c \in Letters \cup {":", "_"}
IsNameChar(c) == IsNameStartChar(c) \/ c \in Digits \cup {".", "-"}

Entity == [quot |-> "\"", amp |-> "&", apos |-> "'", lt |-> "<", gt |-> ">"]

(* The bytes of a code point.  Beyond 21 bits the length is 0. *)
ConvertUTF32ToUTF8(input) ==
    LET tail(k) == 128 + ((input \div 64^k) % 64)
    IN  CASE input < 128     -> <<input>>
          [] input \in 128..2047    -> <<192 + input \div 64, tail(0)>>
          [] input \in 2048..65535  -> <<224 + input \div 4096, tail(1), tail(0)>>
          [] input \in 65536..2097151 -> <<240 + input \div 262144, tail(2), tail(1), tail(0)>>
          [] OTHER -> <<>>

(* Characters the properties can tell apart, by their code. *)
CharOf(bytes) ==
    CASE bytes = <<>> -> <<>>
      [] bytes = <<0>> -> <<"NUL">>
      [] bytes = <<10>> -> <<LF>>
      [] OTHER -> [i \in DOMAIN bytes |-> "BYTE"]

DigitValue(c) == IF c = "1" THEN 1 ELSE 0

(* GetCharacterRef at the '&' of "&#...": where to go on, and what to write. *)
(* A reference without ';' or with anything but digits returns null.         *)
GetCharacterRef(s, p) ==
    LET digits(base, from, semi) ==
            LET ucs[i \in from - 1..semi - 1] ==
                    IF i = from - 1 THEN 0 ELSE base * ucs[i - 1] + DigitValue(s[i])
            IN  IF semi > Len(s) \/ \E i \in from..semi - 1 : s[i] \notin Digits
                THEN [next |-> 0, out |-> <<>>]
                ELSE [next |-> semi + 1, out |-> CharOf(ConvertUTF32ToUTF8(ucs[semi - 1]))]
        number(base, from) == digits(base, from, FirstFrom(s, from, LAMBDA q : s[q] = ";"))
    IN  IF At(s, p + 2) = EOF THEN [next |-> p + 1, out |-> <<>>]
        ELSE IF At(s, p + 2) = "x" THEN number(16, p + 3) ELSE number(10, p + 2)

-----------------------------------------------------------------------------
(* StrPair. *)
(* Mutant: a text whose end is missing extends to the end of the file. *)
ParseTextToEnd(s, p, endTag) ==
    LET e == FirstFrom(s, p, LAMBDA q : LooksAt(s, q, endTag))
    IN  [next |-> IF e > Len(s) THEN e ELSE e + Len(endTag), str |-> SubSeq(s, p, e - 1)]

ParseText(s, p, endTag) ==
    LET e == FirstFrom(s, p, LAMBDA q : LooksAt(s, q, endTag))
    IN  IF e > Len(s) THEN [next |-> 0, str |-> <<>>]
        ELSE [next |-> e + Len(endTag), str |-> SubSeq(s, p, e - 1)]

ParseName(s, p) ==
    LET e == FirstFrom(s, p, LAMBDA q : ~(IF q = p THEN IsNameStartChar(s[q])
                                          ELSE IsNameChar(s[q])))
    IN  IF e > p THEN [next |-> e, str |-> SubSeq(s, p, e - 1)]
        ELSE [next |-> 0, str |-> <<>>]

CollapseWhitespace(str) ==
    LET words == SelectSeq(str, LAMBDA c : c \notin White)
        (* a run of white space between two words is one blank *)
        keep(i) == \/ str[i] \notin White
                   \/ /\ i > 1 /\ str[i - 1] \notin White
                      /\ \E j \in i..Len(str) : str[j] \notin White
        F[i \in 0..Len(str)] ==
            IF i = 0 THEN <<>>
            ELSE IF ~keep(i) THEN F[i - 1]
            ELSE Append(F[i - 1], IF str[i] \in White THEN " " ELSE str[i])
    IN  IF words = <<>> THEN <<>> ELSE F[Len(str)]

Crash == <<"CRASH">>   \* the read through the null pointer

(* CR, LF and either pair of them is one line break. *)
SkipNewLine(buf, p) ==
    IF At(buf, p + 1) = (IF buf[p] = CR THEN LF ELSE CR) THEN p + 2 ELSE p + 1

(* GetStr rewrites the text in place: p reads, q writes, and buf is what the *)
(* buffer holds.  An '&' that starts no entity advances both pointers        *)
(* without a write.                                                          *)
RECURSIVE Flush(_, _, _, _)
Flush(buf, p, q, entities) ==
    LET n == Len(buf)
        put(c) == [buf EXCEPT ![q] = c]
        ent == At(buf, p + 1)
        putAll(ref) ==
            IF ref.next = 0 THEN Crash
            ELSE Flush([i \in 1..n |-> IF i \in q..q + Len(ref.out) - 1
                                       THEN ref.out[i - q + 1] ELSE buf[i]],
                       ref.next, q + Len(ref.out), entities)
    IN  IF p > n THEN SubSeq(buf, 1, q - 1)
        ELSE IF buf[p] \in {CR, LF}
        THEN Flush(put(LF), SkipNewLine(buf, p), q + 1, entities)
        ELSE IF entities /\ buf[p] = "&" /\ At(buf, p + 1) = "#"
        THEN putAll(GetCharacterRef(buf, p))
        ELSE IF entities /\ buf[p] = "&"
        THEN IF ent \in DOMAIN Entity /\ At(buf, p + 2) = ";"
             THEN Flush(put(Entity[ent]), p + 3, q + 1, entities)
             ELSE Flush(buf, p + 1, q + 1, entities)
        ELSE Flush(put(buf[p]), p + 1, q + 1, entities)

GetStr(str, entities, collapse) ==
    LET cleaned(v) == IF collapse /\ v # Crash THEN CollapseWhitespace(v) ELSE v
    IN  cleaned(Flush(str, 1, 1, entities))

-----------------------------------------------------------------------------
(* The parser.  opt is the document's configuration: process entities,       *)
(* collapse white space.                                                     *)
Node(k, v, attrs, kids) == [kind |-> k, value |-> v, attrs |-> attrs, kids |-> kids]

CDataHeader == <<"<", "!", "[", "CDATA", "[">>

(* Identify: what starts at p, and where its contents begin. *)
Identify(s, p) ==
    LET at(w) ==
          CASE w > Len(s) -> [kind |-> "none", next |-> w]
            [] LooksAt(s, w, <<"<", "?">>) -> [kind |-> "declaration", next |-> w + 2]
            [] LooksAt(s, w, <<"<", "!", "-", "-">>) -> [kind |-> "comment", next |-> w + 4]
            [] LooksAt(s, w, CDataHeader) -> [kind |-> "cdata", next |-> w + 5]
            [] LooksAt(s, w, <<"<", "!">>) /\ ~LooksAt(s, w, <<"<", "!", "-", "-">>)
                                           /\ ~LooksAt(s, w, CDataHeader) ->
                   [kind |-> "unknown", next |-> w + 2]
            [] s[w] = "<" /\ At(s, w + 1) \notin {"?", "!"} -> [kind |-> "element", next |-> w + 1]
            [] s[w] # "<" -> [kind |-> "text", next |-> p]
    IN  at(SkipWhiteSpace(s, p))

Failed(err) == [next |-> 0, node |-> Node("none", <<>>, <<>>, <<>>), closing |-> "",
                end |-> <<>>, err |-> err]

Leaf(next, k, v) == [next |-> next, node |-> Node(k, v, <<>>, <<>>), closing |-> "",
                     end |-> <<>>, err |-> ""]

(* A node whose contents are a text up to its end mark: XMLComment,          *)
(* XMLDeclaration, XMLUnknown and the CDATA of XMLText.                      *)
CommentMark == [end |-> <<"-", "-", ">">>, err |-> "PARSING_COMMENT"]
DeclarationMark == [end |-> <<"?", ">">>, err |-> "PARSING_DECLARATION"]
UnknownMark == [end |-> <<">">>, err |-> "PARSING_UNKNOWN"]
CDataMark == [end |-> <<"]", "]", ">">>, err |-> "PARSING_CDATA"]

MarkOf == [comment |-> CommentMark, declaration |-> DeclarationMark, unknown |-> UnknownMark,
           cdata |-> CDataMark]

ParseMarked(s, p, k) ==
    LET read(r) == IF r.next = 0 THEN Failed(MarkOf[k].err)
                   ELSE Leaf(r.next, k, GetStr(r.str, FALSE, FALSE))
    IN  read(ParseText(s, p, MarkOf[k].end))

(* A text ends before the next '<', which must be followed by something. *)
ParseTextNode(s, p, opt) ==
    LET read(r) == IF r.next = 0 THEN Failed("PARSING_TEXT")
                   ELSE IF r.next > Len(s) THEN Failed("")
                   ELSE Leaf(r.next - 1, "text", GetStr(r.str, opt.entities, opt.collapse))
    IN  read(ParseText(s, p, <<"<">>))

(* XMLAttribute::ParseDeep, with its four early returns. *)
ParseAttribute(s, p, opt) ==
    LET none == [next |-> 0, attr |-> <<>>]
        value(name, val) ==
            IF val.next = 0 THEN none
            ELSE [next |-> val.next,
                  attr |-> <<[name |-> name.str, value |-> GetStr(val.str, opt.entities, FALSE)]>>]
        quoted(name, q) == IF At(s, q) \notin Quotes THEN none
                           ELSE value(name, ParseText(s, q + 1, <<At(s, q)>>))
        equals(name, eq) == IF At(s, eq) # "=" THEN none
                            ELSE quoted(name, SkipWhiteSpace(s, eq + 1))
        named(name) == IF name.next = 0 \/ At(s, name.next) = EOF THEN none
                       ELSE equals(name, SkipWhiteSpace(s, name.next))
    IN  named(ParseName(s, p))

(* The lookup of a new attribute among those already read. *)
Duplicate(attrs, attr) == \E i \in DOMAIN attrs : attrs[i].name = attr[1].name

RECURSIVE ParseAttributes(_, _, _, _)
ParseAttributes(s, p0, attrs, opt) ==
    LET stop(next, closed, err) ==
            [next |-> next, attrs |-> attrs, closed |-> closed, err |-> err]
        add(a) == IF a.next = 0 \/ Duplicate(attrs, a.attr)
                  THEN stop(0, FALSE, "PARSING_ATTRIBUTE")
                  ELSE ParseAttributes(s, a.next, attrs \o a.attr, opt)
        from(p) ==
            CASE p > Len(s) -> stop(0, FALSE, "PARSING_ELEMENT")
              [] p <= Len(s) /\ IsNameStartChar(At(s, p)) -> add(ParseAttribute(s, p, opt))
              [] LooksAt(s, p, <<"/", ">">>) -> stop(p + 2, TRUE, "")
              [] At(s, p) = ">" -> stop(p + 1, FALSE, "")
              [] OTHER -> stop(0, FALSE, "PARSING_ELEMENT")
    IN  from(SkipWhiteSpace(s, p0))

RECURSIVE ParseDeep(_, _, _, _)

(* XMLElement::ParseDeep, from behind the '<'. *)
ParseElement(s, p0, opt) ==
    LET p == SkipWhiteSpace(s, p0)
        closing == At(s, p) = "/"
        open(name, tag, body) ==
            [next |-> body.next, node |-> Node("element", name.str, tag.attrs, body.kids),
             closing |-> "OPEN", end |-> body.end, err |-> body.err]
        tagged(name, tag) ==
            LET type == IF tag.closed THEN "CLOSED" ELSE IF closing THEN "CLOSING" ELSE "OPEN"
            IN  IF name.next = 0 THEN Failed("")
                ELSE IF tag.next = 0 THEN Failed(tag.err)
                ELSE IF tag.next > Len(s) \/ type # "OPEN"
                THEN [next |-> tag.next, node |-> Node("element", name.str, tag.attrs, <<>>),
                      closing |-> type, end |-> <<>>, err |-> ""]
                ELSE open(name, tag, ParseDeep(s, tag.next, <<>>, opt))
        named(name) == tagged(name, ParseAttributes(s, name.next, <<>>, opt))
    IN  named(ParseName(s, IF closing THEN p + 1 ELSE p))

(* XMLNode::ParseDeep: the children from p on, after those in kids, up to an *)
(* end tag, which is handed to the element that is open one level up.        *)
ParseDeep(s, p, kids, opt) ==
    LET return(next, end, err) == [next |-> next, kids |-> kids, end |-> end, err |-> err]
        after(r) ==
            IF r.next = 0 THEN return(0, <<>>, IF r.err = "" THEN "PARSING" ELSE r.err)
            ELSE IF r.closing = "CLOSING" THEN return(r.next, r.node.value, "")
            ELSE IF r.closing # "" /\ (IF r.closing = "OPEN" THEN r.end # r.node.value
                                       ELSE r.end # <<>>)
            THEN return(0, <<>>, "MISMATCHED_ELEMENT")
            ELSE ParseDeep(s, r.next, Append(kids, r.node), opt)
        at(id) ==
            IF p > Len(s) \/ id.kind = "none" THEN return(0, <<>>, "")
            ELSE after(CASE id.kind = "element" -> ParseElement(s, id.next, opt)
                         [] id.kind = "text" -> ParseTextNode(s, id.next, opt)
                         [] OTHER -> ParseMarked(s, id.next, id.kind))
    IN  at(Identify(s, p))

-----------------------------------------------------------------------------
(* XMLDocument: the children, the error and the byte order mark it holds.    *)
NoDocument == [kids |-> <<>>, err |-> "", bom |-> FALSE]
EmptyDocument(bom) == [kids |-> <<>>, err |-> "EMPTY_DOCUMENT", bom |-> bom]

(* ReadBOM: the mark is one symbol. *)
ReadBOM(s, p) == IF At(s, p) = "BOM" THEN p + 1 ELSE p

Document(r, bom) == [kids |-> r.kids, err |-> r.err, bom |-> bom]

(* LoadFile parses from behind the byte order mark.  An empty file keeps the *)
(* flag of the document loaded before.                                       *)
LoadFile(s, opt, was) ==
    LET w == SkipWhiteSpace(s, 1)
        p == ReadBOM(s, w)
    IN  IF s = <<>> THEN EmptyDocument(was.bom)
        ELSE IF p > Len(s) THEN EmptyDocument(p # w)
        ELSE Document(ParseDeep(s, p, <<>>, opt), p # w)

(* Parse looks behind the mark but parses its copy from the start. *)
Parse(s, opt, was) ==
    LET w == SkipWhiteSpace(s, 1)
        p == ReadBOM(s, w)
    IN  IF s = <<>> THEN EmptyDocument(was.bom)
        ELSE IF p > Len(s) THEN EmptyDocument(p # w)
        ELSE Document(ParseDeep(s, 1, <<>>, opt), p # w)

-----------------------------------------------------------------------------
(* DynArray, the memory of the printer: elements in use and allocated. *)
PushArr(mem, count) ==
    LET cap == mem.size + count
    IN  [size |-> cap, allocated |-> IF cap > mem.allocated THEN cap * 2 ELSE mem.allocated]

(* XMLPrinter: a record of its fields and what it has written.  mem is the   *)
(* _buffer of a printer to memory, which starts as a terminating zero.       *)
XMLPrinter(compact) ==
    [justOpened |-> FALSE, first |-> TRUE, depth |-> 0, textDepth |-> -1,
     entities |-> TRUE, compact |-> compact, stack |-> <<>>, buffer |-> <<>>,
     mem |-> PushArr([size |-> 0, allocated |-> 20], 1)]

Emit(pr, str) == [pr EXCEPT !.buffer = @ \o str, !.mem = PushArr(@, Len(str))]

PrintSpace(pr, depth) == Emit(pr, [i \in 1..depth |-> " "])

PrintStringRaw(pr, str, restricted) == Emit(pr, str)   \* mutant: nothing is escaped

(* The entities of PrintString: in a text only & < > are replaced. *)
PrintString(pr, str, restricted) ==
    LET flags == IF restricted THEN {"amp", "lt", "gt"} ELSE DOMAIN Entity
        code(c) == IF \E e \in flags : Entity[e] = c
                   THEN <<"&", CHOOSE e \in flags : Entity[e] = c, ";">> ELSE <<c>>
    IN  Emit(pr, IF pr.entities THEN FlattenSeq([i \in DOMAIN str |-> code(str[i])]) ELSE str)

SealElement(pr) == [Emit(pr, <<">">>) EXCEPT !.justOpened = FALSE]

Sealed(pr) == IF pr.justOpened THEN SealElement(pr) ELSE pr

(* A new line and the indentation, unless there is text around or the output *)
(* is compact.                                                               *)
NewLine(pr, skipFirst) ==
    IF pr.textDepth < 0 /\ ~pr.compact /\ ~(skipFirst /\ pr.first)
    THEN PrintSpace(Emit(pr, <<LF>>), pr.depth) ELSE pr

OpenElement(pr0, name) ==
    LET pr == Emit(NewLine([Sealed(pr0) EXCEPT !.stack = Append(@, name)], TRUE), <<"<">> \o name)
    IN  [pr EXCEPT !.justOpened = TRUE, !.first = FALSE, !.depth = @ + 1]

PushAttribute(pr, name, v) ==
    Emit(PrintString(Emit(pr, <<" ">> \o name \o <<"=", "\"">>), v, FALSE), <<"\"">>)

CloseElement(pr0) ==
    LET pr1 == [pr0 EXCEPT !.depth = @ - 1, !.stack = Front(@)]
        pr2 == IF pr0.justOpened THEN Emit(pr1, <<"/", ">">>)
               ELSE Emit(NewLine(pr1, FALSE), <<"<", "/">> \o Last(pr0.stack) \o <<">">>)
        pr3 == [pr2 EXCEPT !.textDepth = IF @ = pr2.depth THEN -1 ELSE @]
        pr4 == IF pr3.depth = 0 /\ ~pr3.compact THEN Emit(pr3, <<LF>>) ELSE pr3
    IN  [pr4 EXCEPT !.justOpened = FALSE]

(* Mutant: a text does not switch the indentation off. *)
PushTextIndented(pr0, str, cdata) ==
    IF cdata THEN Emit(Sealed(pr0), CDataHeader \o str \o <<"]", "]", ">">>)
    ELSE PrintString(Sealed(pr0), str, TRUE)

PushText(pr0, str, cdata) ==
    LET pr == Sealed([pr0 EXCEPT !.textDepth = pr0.depth - 1])
    IN  IF cdata THEN Emit(pr, CDataHeader \o str \o <<"]", "]", ">">>)
        ELSE PrintString(pr, str, TRUE)

PushMarkup(pr0, before, str, after) ==
    [Emit(NewLine(Sealed(pr0), TRUE), before \o str \o after) EXCEPT !.first = FALSE]

PushComment(pr, str) == PushMarkup(pr, <<"<", "!", "-", "-">>, str, <<"-", "-", ">">>)
PushDeclaration(pr, str) == PushMarkup(pr, <<"<", "?">>, str, <<"?", ">">>)
PushUnknown(pr, str) == PushMarkup(pr, <<"<", "!">>, str, <<">">>)

PushHeader(pr, writeBOM, writeDec) ==
    LET b == IF writeBOM THEN Emit(pr, <<"BOM">>) ELSE pr
    IN  IF writeDec THEN PushDeclaration(b, <<"x">>) ELSE b

(* The visit of a node without children. *)
Visit(pr, n) ==
    CASE n.kind \in {"text", "cdata"} -> PushText(pr, n.value, n.kind = "cdata")
      [] n.kind = "comment" -> PushComment(pr, n.value)
      [] n.kind = "declaration" -> PushDeclaration(pr, n.value)
      [] n.kind = "unknown" -> PushUnknown(pr, n.value)

VisitEnter(pr, n) ==
    FoldLeft(LAMBDA q, a : PushAttribute(q, a.name, a.value), OpenElement(pr, n.value), n.attrs)

(* Accept: a node and its children in document order. *)
RECURSIVE Accept(_, _)
Accept(pr, n) ==
    IF n.kind = "element" THEN CloseElement(FoldLeft(Accept, VisitEnter(pr, n), n.kids))
    ELSE Visit(pr, n)

(* The document printed by a visit of its tree. *)
PrintDocument(d, opt, compact) ==
    LET pr == [XMLPrinter(compact) EXCEPT !.entities = opt.entities]
    IN  FoldLeft(Accept, IF d.bom THEN PushHeader(pr, TRUE, FALSE) ELSE pr, d.kids).buffer
=============================================================================
