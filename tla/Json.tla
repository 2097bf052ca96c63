-------------------------------- MODULE Json --------------------------------
(***************************************************************************)
(* JSON as the SDK has it: trees in memory and the class Json on them       *)
(* (JsonTree), and texts that are printed, cut off, typed and parsed        *)
(* (JsonText).  The parts do not interact; `area` tells which of them a     *)
(* behaviour exercises.                                                     *)
(***************************************************************************)
EXTENDS JsonTree, JsonText

CONSTANTS Docs,      \* values to print
          Typed,     \* texts to parse that no printer made
          MaxDepth   \* bound on the nesting of Docs

VARIABLES area, stage, doc, text, fmt, res

textVars == <<stage, doc, text, fmt, res>>
vars == <<area, stage, doc, text, fmt, res, heap, held, lost, json, copied, fault>>

Init ==
    /\ area \in {"tree", "wrapper", "text"}
    /\ TreeInit
    /\ stage = "idle" /\ doc = Null /\ text = <<>> /\ fmt = FALSE /\ res = Bad(0)

\* The application prints a value ...
PrintDoc(v, f) ==
    /\ stage = "idle" /\ stage' = "printed"
    /\ doc' = v /\ fmt' = f /\ text' = cJSON_Print(v, f)
    /\ UNCHANGED res

\* ... and what it printed is parsed, all of it ...
Parse ==
    /\ stage = "printed" /\ stage' = "parsed"
    /\ res' = cJSON_ParseWithOpts(text, TRUE)
    /\ UNCHANGED <<doc, text, fmt>>

\* ... or only the first n symbols.
Cut(n) ==
    /\ stage = "printed" /\ stage' = "cut" /\ n < Len(text)
    /\ text' = SubSeq(text, 1, n) /\ res' = cJSON_Parse(text')
    /\ UNCHANGED <<doc, fmt>>

\* A text from elsewhere is parsed ...
ParseTyped(t) ==
    /\ stage = "idle" /\ stage' = "typed"
    /\ text' = t /\ res' = cJSON_Parse(t)
    /\ UNCHANGED <<doc, fmt>>

\* ... and what it said is printed.
Reprint(f) ==
    /\ stage = "typed" /\ res.r = "ok" /\ stage' = "printed"
    /\ doc' = res.v /\ fmt' = f /\ text' = cJSON_Print(res.v, f)
    /\ res' = Bad(0)

TextCalls ==
    \/ \E v \in Docs, f \in BOOLEAN : PrintDoc(v, f)
    \/ Parse
    \/ \E n \in 0..Len(text) : Cut(n)
    \/ \E t \in Typed : ParseTyped(t)
    \/ \E f \in BOOLEAN : Reprint(f)

Next ==
    \/ area = "tree" /\ fault = "" /\ TreeCalls /\ UNCHANGED <<area, textVars>>
    \/ area = "wrapper" /\ fault = "" /\ WrapperCalls /\ UNCHANGED <<area, textVars>>
    \/ area = "text" /\ TextCalls /\ UNCHANGED <<area, jsonVars>>

Spec == Init /\ [][Next]_vars

-----------------------------------------------------------------------------
(* Properties                                                               *)

\* Types of the tree, and a parser that stops within the text or right behind it.
TypeOK == TypeOKTree /\ res.r \in {"ok", "fail", "overrun"} /\ res.at \in 0..(Len(text) + 1)

\* What cJSON_Print or cJSON_PrintUnformatted wrote, the parser reads back as
\* the same value and to the end of the text, whatever the strings contain;
\* so does the value of any other text it accepted.
PrintedReadsBack == stage = "parsed" => res = Good(doc, Len(text) + 1)

\* A printed array or object of which the end is missing is never accepted.
TruncationRefused == stage = "cut" /\ doc.t \in {"arr", "obj"} => res.r # "ok"

\* The parser leaves the text only when it ends in a backslash or has a \u
\* without its digits, whatever else is wrong with it.
OverrunOnlyInEscape == res.r = "overrun" => Last(text) = "\\" \/ "u" \in ToSet(text)

\* The bytes print_array and print_object allocate hold their result, at
\* every depth; the exception is cJSON_Print of an empty object by itself,
\* which takes one byte more than depth + 3.
OutputFits ==
    stage = "printed" =>
        \A d \in 0..MaxDepth : \/ d = 0 /\ fmt /\ doc = Obj(<<>>)
                               \/ strlen(print_value(doc, d, fmt)) + 1 <= Allocated(doc, d, fmt)

\* Trees stay linked and owned once through every call of cJSON.h and of the
\* class Json; only references and copies of Json objects can dangle.
TreesOwned == TypeOK /\ ItemsLinked /\ OwnedOnce /\ OnlyReferencesDangle /\ JsonOwnsTree

\* Printed text is read back exactly, and refused when its end is missing.
TextReadsBack == PrintedReadsBack /\ TruncationRefused

\* The parser stays within the text and the printer within what it allocated,
\* but for the cases named.
WithinBuffers == OverrunOnlyInEscape /\ OutputFits
=============================================================================
