----------------------------- MODULE XmlDocument ----------------------------
(* An XML file, who writes it, and the XMLDocument that loads and saves it.  *)
(* The file is written by an XMLPrinter used for streaming ("printer"), or   *)
(* by something outside the program, one fragment after the other            *)
(* ("editor"); SaveFile overwrites it.                                       *)
EXTENDS XmlText

CONSTANTS
    Names,             \* element and attribute names
    LeafValues,        \* contents of comments, declarations and unknowns
    TextValues,        \* what is pushed as text
    AttrValues,        \* what is pushed as attribute value
    Fragments,         \* what the editor appends
    ValueSymbols,      \* symbols of a single text the editor writes
    MaxCalls,          \* bound: calls made on the printer
    MaxFragments,      \* bound: fragments appended by the editor
    MaxValue           \* bound: the length of the single text

VARIABLES
    writer,            \* "printer", "editor", "value", "saved"
    calls,             \* calls or fragments so far
    file,              \* the text of the file
    pr,                \* the streaming printer
    built,             \* history: the tree pushed so far, one frame per open element
    opt,               \* the configuration of the document
    doc                \* the document

vars == <<writer, calls, file, pr, built, opt, doc>>

Frame(name) == [name |-> name, attrs |-> <<>>, kids |-> <<>>]

Init ==
    /\ writer \in {"printer", "editor", "value"}
    /\ calls = 0
    /\ file = <<>>
    /\ \E compact \in BOOLEAN : pr = XMLPrinter(compact)
    /\ built = <<Frame(<<>>)>>
    /\ opt \in [entities : {TRUE}, collapse : BOOLEAN]
    /\ writer # "editor" => ~opt.collapse
    /\ writer # "printer" => ~pr.compact
    /\ doc = NoDocument

-----------------------------------------------------------------------------
(* Streaming.  The caller keeps the rules of the interface: attributes right *)
(* after OpenElement and each name once, no text outside of the root, every  *)
(* CloseElement for an OpenElement.                                          *)
Push(newPr) ==
    /\ writer = "printer"
    /\ calls < MaxCalls
    /\ calls' = calls + 1
    /\ pr' = newPr
    /\ file' = newPr.buffer
    /\ UNCHANGED <<writer, opt, doc>>

AddKid(b, n) == [b EXCEPT ![Len(b)].kids = Append(@, n)]

StreamOpen(name) == Push(OpenElement(pr, name)) /\ built' = Append(built, Frame(name))

StreamAttribute(name, v) ==
    /\ pr.justOpened
    /\ \A i \in DOMAIN Last(built).attrs : Last(built).attrs[i].name # name
    /\ Push(PushAttribute(pr, name, v))
    /\ built' = [built EXCEPT ![Len(built)].attrs = Append(@, [name |-> name, value |-> v])]

StreamText(v, cdata) ==
    /\ pr.depth > 0
    /\ Push(PushText(pr, v, cdata))
    /\ built' = AddKid(built, Node(IF cdata THEN "cdata" ELSE "text", v, <<>>, <<>>))

StreamLeaf(k, v) ==
    /\ Push(CASE k = "comment" -> PushComment(pr, v)
              [] k = "declaration" -> PushDeclaration(pr, v)
              [] k = "unknown" -> PushUnknown(pr, v))
    /\ built' = AddKid(built, Node(k, v, <<>>, <<>>))

StreamHeader(bom) ==
    /\ calls = 0
    /\ Push(PushHeader(pr, bom, TRUE))
    /\ built' = AddKid(built, Node("declaration", <<"x">>, <<>>, <<>>))

StreamClose ==
    /\ pr.stack # <<>>
    /\ Push(CloseElement(pr))
    /\ LET f == Last(built)
       IN  built' = AddKid(Front(built), Node("element", f.name, f.attrs, f.kids))

-----------------------------------------------------------------------------
(* The editor, and the calls of the document.                                *)
Edit(fragment) ==
    /\ writer = "editor"
    /\ doc = NoDocument
    /\ calls < MaxFragments
    /\ calls' = calls + 1
    /\ file' = file \o fragment
    /\ UNCHANGED <<writer, pr, built, opt, doc>>

EditValue(c) ==
    /\ writer = "value"
    /\ calls < MaxValue
    /\ calls' = calls + 1
    /\ file' = Append(file, c)
    /\ UNCHANGED <<writer, pr, built, opt, doc>>

Load ==
    /\ writer \in {"editor", "saved"}
    /\ doc' = LoadFile(file, opt, doc)
    /\ UNCHANGED <<writer, calls, file, pr, built, opt>>

ParseMemory ==
    /\ writer = "editor"
    /\ doc' = Parse(file, opt, doc)
    /\ UNCHANGED <<writer, calls, file, pr, built, opt>>

(* SaveFile prints what the document holds, error or not. *)
SaveFile(compact) ==
    /\ writer = "editor"
    /\ doc # NoDocument
    /\ file' = PrintDocument(doc, opt, compact)
    /\ writer' = "saved"
    /\ UNCHANGED <<calls, pr, built, opt, doc>>

Next ==
    \/ \E n \in Names : StreamOpen(n) \/ \E v \in AttrValues : StreamAttribute(n, v)
    \/ \E v \in TextValues : \E cdata \in BOOLEAN : StreamText(v, cdata)
    \/ \E k \in {"comment", "declaration", "unknown"}, v \in LeafValues : StreamLeaf(k, v)
    \/ \E bom \in BOOLEAN : StreamHeader(bom)
    \/ StreamClose
    \/ \E f \in Fragments : Edit(f)
    \/ \E c \in ValueSymbols : EditValue(c)
    \/ Load \/ ParseMemory
    \/ \E compact \in BOOLEAN : SaveFile(compact)

Spec == Init /\ [][Next]_vars
-----------------------------------------------------------------------------
(* The type invariant. *)
TypeOK ==
    /\ writer \in {"printer", "editor", "value", "saved"}
    /\ calls \in 0..MaxCalls + MaxFragments + MaxValue
    /\ pr.depth = Len(pr.stack)
    /\ pr.textDepth \in -1..pr.depth
    /\ Len(built) = pr.depth + 1
    /\ pr.mem.size = Len(pr.buffer) + 1
    /\ pr.mem.size <= pr.mem.allocated
    /\ DOMAIN doc = {"kids", "err", "bom"}

(* What a reader of the text can know of a list of children: texts that      *)
(* touch are one text, and a text of white space only is none.               *)
RECURSIVE Canonical(_)
Canonical(kids) ==
    LET join(acc, n) ==
            IF n.kind = "text" /\ acc # <<>> /\ Last(acc).kind = "text"
            THEN [acc EXCEPT ![Len(acc)].value = @ \o n.value]
            ELSE Append(acc, [n EXCEPT !.kids = Canonical(@)])
    IN  SelectSeq(FoldLeft(join, <<>>, kids),
                  LAMBDA n : n.kind = "text" => \E i \in DOMAIN n.value : n.value[i] \notin White)

(* The file and the tree once the elements that are still open are closed. *)
Closed == FoldLeft(LAMBDA q, name : CloseElement(q), pr, pr.stack).buffer
ClosedTree ==
    LET close(b, name) ==
            AddKid(Front(b), Node("element", Last(b).name, Last(b).attrs, Last(b).kids))
    IN  FoldLeft(close, built, pr.stack)[1].kids

(* Whatever is pushed, in either layout, is what LoadFile reads back: no     *)
(* escape is missing, and the indentation never ends up in a text.           *)
StreamedReadsBack ==
    writer = "printer" /\ calls > 0 =>
        LET d == LoadFile(Closed, opt, doc)
        IN  d.err = "" /\ d.kids = Canonical(ClosedTree)

(* A file that was cut off, by a crash or a full disk, is not mistaken for a *)
(* complete one: loading any prefix of what the printer wrote reports an     *)
(* error or yields whole top-level nodes of the file, never a part of one.   *)
TruncationDetected ==
    writer = "printer" /\ pr.depth = 0 =>
        LET whole == LoadFile(file, opt, doc).kids
        IN  \A i \in 1..Len(file) :
                LET d == LoadFile(SubSeq(file, 1, i), opt, doc)
                IN  d.err = "" => IsPrefix(d.kids, whole)

(* Saving a document that was loaded and loading it again gives the same     *)
(* document, unless it has a text outside of the root element, which LoadFile *)
(* accepts but the indented layout puts line breaks around.                  *)
SavedReadsBack ==
    [][\A compact \in BOOLEAN :
          /\ SaveFile(compact)
          /\ doc.err = ""
          /\ doc.kids # <<>>
          /\ \A i \in DOMAIN doc.kids : doc.kids[i].kind # "text"
          => LoadFile(file', opt, doc).kids = doc.kids]_vars

(* Parse and LoadFile read the same document from a text without a byte      *)
(* order mark, which Parse takes for a text; only the white space before a   *)
(* leading text, which LoadFile skips, is kept by Parse.                     *)
ParseAgreesWithLoad ==
    writer = "editor" /\ "BOM" \notin Range(file) =>
        LET loaded == LoadFile(file, opt, doc)
            parsed == Parse(file, opt, doc)
            body(d) == IF d.kids # <<>> /\ Head(d.kids).kind = "text"
                       THEN Tail(d.kids) ELSE d.kids
        IN  loaded.err = parsed.err /\ body(loaded) = body(parsed)

(* No element that LoadFile reports without error has an attribute twice.    *)
RECURSIVE UniqueAttributes(_)
UniqueAttributes(n) ==
    /\ \A i, j \in DOMAIN n.attrs : n.attrs[i].name = n.attrs[j].name => i = j
    /\ \A i \in DOMAIN n.kids : UniqueAttributes(n.kids[i])
LoadedAttributesUnique == \A i \in DOMAIN doc.kids : UniqueAttributes(doc.kids[i])

(* What a text means, read from left to right without a buffer. *)
RECURSIVE Meaning(_)
Meaning(s) ==
    IF s = <<>> THEN <<>>
    ELSE IF Len(s) > 1 /\ {s[1], s[2]} = {CR, LF} THEN <<LF>> \o Meaning(SubSeq(s, 3, Len(s)))
    ELSE IF s[1] = CR THEN <<LF>> \o Meaning(Tail(s))
    ELSE IF Len(s) > 2 /\ s[1] = "&" /\ s[2] \in DOMAIN Entity /\ s[3] = ";"
    THEN <<Entity[s[2]]>> \o Meaning(SubSeq(s, 4, Len(s)))
    ELSE <<s[1]>> \o Meaning(Tail(s))

(* Rewriting a text in place gives what it means.  Excused: a character      *)
(* reference (which the symbols of the meaning do not cover) and an '&' that *)
(* starts no entity behind something the rewriting has shortened, where the  *)
(* code leaves a stale character in the place of the '&'.                    *)
InPlaceRewriteExact ==
    writer = "value" =>
        LET s == file
            shortens(i) == \/ /\ At(s, i) = "&" /\ At(s, i + 1) \in DOMAIN Entity
                              /\ At(s, i + 2) = ";"
                           \/ {At(s, i), At(s, i + 1)} = {CR, LF}
            bare(i) == At(s, i) = "&" /\ ~(At(s, i + 1) \in DOMAIN Entity /\ At(s, i + 2) = ";")
        IN  \/ \E i \in DOMAIN s : s[i] = "&" /\ At(s, i + 1) = "#"
            \/ \E i, j \in DOMAIN s : i < j /\ shortens(i) /\ bare(j)
            \/ GetStr(s, TRUE, FALSE) = Meaning(s)

(* The text means the same to the printer, to both ways of reading it and to *)
(* the in-place rewriting of entities and line breaks.                       *)
TextKept ==
    /\ TypeOK
    /\ StreamedReadsBack
    /\ ParseAgreesWithLoad
    /\ LoadedAttributesUnique
    /\ InPlaceRewriteExact
=============================================================================
