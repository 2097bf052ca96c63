----------------------------- MODULE SqliteData -----------------------------
(***************************************************************************)
(* The CppSQLite3 classes that hold data: reading fields of the current row *)
(* of a CppSQLite3Query by position and by name, CppSQLite3Table with its   *)
(* array of results, and CppSQLite3Binary with the encoding of binary data  *)
(* as text.  Three small machines; `subject` tells which of them a          *)
(* behaviour exercises.                                                     *)
(*                                                                          *)
(* A byte is a number below ByteMod and Quote the byte to avoid (256 and 39 *)
(* in the code); int has IntBits bits.  Small values of these make escapes  *)
(* and truncation happen on short inputs.                                   *)
(***************************************************************************)
EXTENDS Integers, Sequences, FiniteSets, SequencesExt

CONSTANTS ByteMod, Quote, MaxBytes,  \* bytes, and the bound on their number
          EmptyMark,                 \* 'x', what the empty sequence is encoded as
          IntBits, CellValues,         \* width of int, and the 64-bit values of cells
          Names,                     \* names of columns
          Tables, Results,           \* table objects, and arrays of results
          MaxRows, MaxCols,
          NULL, Thrown               \* model values: nothing, and an exception

ASSUME SqliteDataAssumption == /\ ByteMod > 6 /\ Quote \in 4..(ByteMod - 1)
                               /\ IntBits \in Nat \ {0} /\ CellValues \subseteq Int
                               /\ {MaxBytes, MaxRows, MaxCols} \subseteq Nat

VARIABLES subject, row, got, table, results, bin, content, fault

dataVars == <<subject, row, got, table, results, bin, content, fault>>
rowVars == <<row, got>>
tableVars == <<table, results>>
binVars == <<bin, content>>

-----------------------------------------------------------------------------
(* Fields of a row.  Positions count from 0.                                *)

\* A value cut down to int.
ToInt(n) == LET m == n % (2 ^ IntBits)
            IN  IF m >= 2 ^ (IntBits - 1) THEN m - 2 ^ IntBits ELSE m

\* The first column of that name; -1 stands for the exception.
fieldIndex(r, szField) ==
    LET at == {i \in 0..(Len(r.names) - 1) : r.names[i + 1] = szField}
    IN  IF at = {} THEN -1 ELSE Min(at)

InRange(r, nField) == nField \in 0..(Len(r.names) - 1)

\* get...Field(nField, nNullValue): int is cut down, the other types are not.
FieldAt(r, type, nField, nNullValue) ==
    IF ~InRange(r, nField) THEN Thrown
    ELSE LET v == r.cells[nField + 1]
         IN  CASE v = NULL -> nNullValue
               [] v # NULL /\ type = "int" -> ToInt(v)
               [] OTHER -> v

\* get...Field(szField, nNullValue): getInt64Field by name calls getIntField.
FieldNamed(r, type, szField, nNullValue) ==
    LET i == fieldIndex(r, szField)
    IN  IF type = "int64" THEN FieldAt(r, "int", i, ToInt(nNullValue))
        ELSE FieldAt(r, type, i, nNullValue)

RowSet == UNION {[names : [1..n -> Names], cells : [1..n -> CellValues \cup {NULL}]] : n \in 0..MaxCols}

\* The query moves to a row.
ShowRow(r) ==
    /\ subject = "row"
    /\ row' = r /\ got' = <<>>
    /\ UNCHANGED <<subject, tableVars, binVars, fault>>

\* A field is read by its name, and at the column that fieldName() gives it.
ReadField(type, nField, nNullValue) ==
    /\ subject = "row" /\ InRange(row, nField)
    /\ got' = [type |-> type, nField |-> nField, nNullValue |-> nNullValue,
               at |-> FieldAt(row, type, nField, nNullValue),
               named |-> FieldNamed(row, type, row.names[nField + 1], nNullValue)]
    /\ UNCHANGED <<subject, row, tableVars, binVars, fault>>

-----------------------------------------------------------------------------
(* CppSQLite3Table                                                          *)

CppSQLite3Table == [mpaszResults |-> NULL, mnRows |-> 0, mnCols |-> 0, mnCurrentRow |-> 0]

\* What sqlite3_get_table fills: the names, then the rows one after another,
\* with a null pointer for the value `null', if any.
Layout(rows, cols, null) ==
    [i \in 0..((rows + 1) * cols - 1) |->
        IF i < cols THEN <<"name", i>>
        ELSE IF <<(i \div cols) - 1, i % cols>> = null THEN NULL ELSE <<(i \div cols) - 1, i % cols>>]

\* sqlite3_free_table of the array t points to.
FreeTable(t, rs) ==
    IF t.mpaszResults = NULL THEN rs ELSE [rs EXCEPT ![t.mpaszResults].st = "freed"]

\* t = db.getTable(sql): an empty result has no columns either.
GetTable(t, a, rows, cols, null) ==
    /\ subject = "table"
    /\ results[a].st = "none" /\ (rows = 0 <=> cols = 0)
    /\ results' = FreeTable(table[t], [results EXCEPT ![a] = [st |-> "live", cells |-> Layout(rows, cols, null), null |-> null]])
    /\ table' = [table EXCEPT ![t] = [mpaszResults |-> a, mnRows |-> rows, mnCols |-> cols, mnCurrentRow |-> 0]]
    /\ UNCHANGED <<subject, rowVars, binVars, fault>>

\* The members of u go to t, and u gives up the array.
Moved(ts, t, u) ==
    IF t = u THEN [ts EXCEPT ![t].mpaszResults = NULL]
    ELSE [ts EXCEPT ![t] = ts[u], ![u].mpaszResults = NULL]

\* operator= finalizes the target; with t = u nothing is left.
AssignTable(t, u) ==
    /\ subject = "table"
    /\ results' = FreeTable(table[t], results)
    /\ table' = Moved(table, t, u)
    /\ UNCHANGED <<subject, rowVars, binVars, fault>>

FinalizeTable(t) ==
    /\ subject = "table"
    /\ results' = FreeTable(table[t], results)
    /\ table' = [table EXCEPT ![t].mpaszResults = NULL]
    /\ UNCHANGED <<subject, rowVars, binVars, fault>>

SetRow(t, nRow) ==
    /\ subject = "table"
    /\ table[t].mpaszResults # NULL /\ nRow \in 0..(table[t].mnRows - 1)
    /\ table' = [table EXCEPT ![t].mnCurrentRow = nRow]
    /\ UNCHANGED <<subject, rowVars, results, binVars, fault>>

\* Index of a field of the current row in the array.
nIndex(t, nField) == (t.mnCurrentRow * t.mnCols) + t.mnCols + nField

\* getIntField(), getFloatField(), getStringField(): the value of a field of
\* the current row, or the value to use for a null one.
TableField(t, nField, nNullValue) ==
    LET v == results[t.mpaszResults].cells[nIndex(t, nField)]
    IN  IF v = NULL THEN nNullValue ELSE v

\* The columns fieldValue(nField) and fieldName(nCol) accept.
ValidFields(t) == IF t.mpaszResults = NULL THEN {} ELSE 0..(t.mnCols - 1)

-----------------------------------------------------------------------------
(* CppSQLite3Binary                                                         *)

\* Mutant: two codes are swapped.
EscapedSwapped(c) == CASE c = 0 -> <<1, 2>> [] c = 1 -> <<1, 1>> [] c = Quote -> <<1, 3>> [] OTHER -> <<c>>

\* How a byte is written after the offset was subtracted.
Escaped(c) == CASE c = 0 -> <<1, 1>> [] c = 1 -> <<1, 2>> [] c = Quote -> <<1, 3>> [] OTHER -> <<c>>

\* How many bytes of s an offset makes escaped.
Escapes(s, i) == Len(SelectSeq(s, LAMBDA b : b \in {i, (i + 1) % ByteMod, (i + Quote) % ByteMod}))

\* The first offset with the fewest escapes.
Offset(s) ==
    LET offsets == (1..(ByteMod - 1)) \ {Quote}
        fewest == Min({Escapes(s, i) : i \in offsets})
    IN  Min({i \in offsets : Escapes(s, i) = fewest})

\* The text before its terminator; the mark alone when there is nothing to encode.
sqlite3_encode_binary(s) ==
    IF s = <<>> THEN <<EmptyMark>>
    ELSE LET e == Offset(s)
         IN  <<e>> \o FlattenSeq([k \in 1..Len(s) |-> Escaped((s[k] - e) % ByteMod)])

\* Decoding buf, which ends in 0, from position k on and writing to position i
\* of the same buffer: the buffer afterwards and the number of bytes, or -1.
RECURSIVE Decode(_, _, _, _)
Decode(buf, e, k, i) ==
    LET c == buf[k]
        esc == IF c = 1 THEN buf[k + 1] ELSE 0
        b == IF c # 1 THEN c ELSE CASE esc = 1 -> 0 [] esc = 2 -> 1 [] esc = 3 -> Quote [] OTHER -> -1
    IN  IF c = 0 THEN [buf |-> buf, len |-> i - 1]
        ELSE IF b = -1 THEN [buf |-> buf, len |-> -1]
        ELSE Decode([buf EXCEPT ![i] = (b + e) % ByteMod], e, IF c = 1 THEN k + 2 ELSE k + 1, i + 1)

sqlite3_decode_binary(buf) == Decode(buf, buf[1], 2, 1)

NoBinary == [mpBuf |-> NULL, mnBinaryLen |-> 0, mnBufferLen |-> 0, mbEncoded |-> FALSE]

Bytes == 0..(ByteMod - 1)

\* A buffer of n bytes that starts with s; what follows is never read.
Filled(n, s) == [k \in 1..n |-> IF k <= Len(s) THEN s[k] ELSE 0]

\* mnBufferLen of allocBuffer(n): 3 + (257*n)/254.
BufferLen(n) == 3 + ((ByteMod + 1) * n) \div (ByteMod - 2)

\* setBinary() clears the object, whatever it held, and copies the bytes.
SetBinary(s) ==
    /\ subject = "binary"
    /\ bin' = [mpBuf |-> Filled(BufferLen(Len(s)), s), mnBinaryLen |-> Len(s),
               mnBufferLen |-> BufferLen(Len(s)), mbEncoded |-> FALSE]
    /\ content' = s
    /\ UNCHANGED <<subject, rowVars, tableVars, fault>>

\* clear() leaves mbEncoded as it was.
ClearBinary ==
    /\ subject = "binary"
    /\ bin' = IF bin.mpBuf = NULL THEN bin
              ELSE [bin EXCEPT !.mpBuf = NULL, !.mnBinaryLen = 0, !.mnBufferLen = 0]
    /\ content' = NULL
    /\ UNCHANGED <<subject, rowVars, tableVars, fault>>

\* The bytes that text is the encoding of, NULL if it is none the encoder
\* writes.
Encodings == [s \in SeqOf(Bytes, MaxBytes) |-> sqlite3_encode_binary(s)]
Meaning(text) == LET of == {s \in DOMAIN Encodings : Encodings[s] = text}
                 IN  IF of = {} THEN NULL ELSE CHOOSE s \in of : TRUE

\* setEncoded() clears the object and takes a text read back from the
\* database: the terminator is copied too.
SetEncoded(text) ==
    /\ subject = "binary"
    /\ bin' = [bin EXCEPT !.mpBuf = Append(text, 0), !.mnBinaryLen = 0,
                          !.mnBufferLen = Len(text) + 1, !.mbEncoded = TRUE]
    /\ content' = Meaning(text)
    /\ UNCHANGED <<subject, rowVars, tableVars, fault>>

Fault(what) == fault' = what /\ UNCHANGED <<subject, rowVars, tableVars, binVars>>

\* getEncoded() encodes in place from a copy.
GetEncoded ==
    /\ subject = "binary" /\ ~bin.mbEncoded
    /\ IF bin.mpBuf = NULL THEN Fault("null buffer")
       ELSE LET text == sqlite3_encode_binary(SubSeq(bin.mpBuf, 1, bin.mnBinaryLen))
            IN  IF Len(text) + 1 > bin.mnBufferLen THEN Fault("overrun")
                ELSE /\ bin' = [bin EXCEPT !.mpBuf = Filled(bin.mnBufferLen, text), !.mbEncoded = TRUE]
                     /\ UNCHANGED <<subject, rowVars, tableVars, content, fault>>

\* getBinary() and getBinaryLength() decode in place; text that is not an
\* encoding throws with the buffer half rewritten, the empty one is read past
\* its end.
GetBinary ==
    /\ subject = "binary" /\ bin.mbEncoded
    /\ IF bin.mpBuf = NULL THEN Fault("null buffer")
       ELSE IF bin.mpBuf = <<0>> THEN Fault("overrun")
       ELSE LET d == sqlite3_decode_binary(bin.mpBuf)
            IN  /\ bin' = [bin EXCEPT !.mpBuf = d.buf, !.mnBinaryLen = d.len, !.mbEncoded = (d.len = -1)]
                /\ UNCHANGED <<subject, rowVars, tableVars, content, fault>>

-----------------------------------------------------------------------------
DataInit ==
    /\ subject \in {"row", "table", "binary"}
    /\ row = [names |-> <<>>, cells |-> <<>>] /\ got = <<>>
    /\ table = [t \in Tables |-> CppSQLite3Table]
    /\ results = [a \in Results |-> [st |-> "none", cells |-> <<>>, null |-> <<>>]]
    /\ bin = NoBinary /\ content = NULL /\ fault = ""

DataNext ==
    /\ fault = ""
    /\ \/ \E r \in RowSet : row.names = <<>> /\ ShowRow(r)
       \/ \E type \in {"int", "int64", "other"}, n \in 0..(MaxCols - 1), d \in CellValues : ReadField(type, n, d)
       \/ \E t \in Tables :
             \/ \E a \in Results, rows \in 0..MaxRows, cols \in 0..MaxCols :
                   \E null \in {<<>>, <<rows - 1, 0>>} : GetTable(t, a, rows, cols, null)
             \/ \E u \in Tables : AssignTable(t, u)
             \/ FinalizeTable(t)
             \/ \E n \in 0..MaxRows : SetRow(t, n)
       \/ \E s \in SeqOf(Bytes, IF bin.mpBuf = NULL THEN MaxBytes ELSE 1) : SetBinary(s)
       \/ \E s \in SeqOf(Bytes \ {0}, IF bin.mpBuf = NULL THEN MaxBytes ELSE 1) : SetEncoded(s)
       \/ ClearBinary
       \/ GetEncoded
       \/ GetBinary

-----------------------------------------------------------------------------
(* Properties                                                               *)

TypeOKData ==
    /\ row \in RowSet /\ fault \in {"", "null buffer", "overrun"}
    /\ \A t \in Tables : table[t].mnCurrentRow \in 0..(MaxRows - 1) /\ table[t].mnCols \in 0..MaxCols
    /\ bin.mpBuf # NULL => /\ Len(bin.mpBuf) = bin.mnBufferLen
                           /\ \A k \in DOMAIN bin.mpBuf : bin.mpBuf[k] \in Bytes

\* A field read by name is the field read at the first column of that name;
\* 64-bit values and defaults only when they fit in an int (the by-name form
\* of getInt64Field goes through getIntField).
ByNameAgrees ==
    /\ got # <<>>
    /\ \A j \in 1..got.nField : row.names[j] # row.names[got.nField + 1]
    /\ got.type = "int64" => ToInt(got.at) = got.at
    => got.named = got.at

\* However tables are copied, assigned and finalized, a live array of results
\* belongs to exactly one table and no table points to a freed one.
OneTablePerResult ==
    \A a \in Results : Cardinality({t \in Tables : table[t].mpaszResults = a})
                         = IF results[a].st = "live" THEN 1 ELSE 0

\* fieldValue() of every field it accepts reads inside the array, and reads
\* the cell of the current row; the getters give the value for a null cell
\* there and nowhere else, and fieldName() reads the name.
FieldInPlace ==
    \A t \in Tables : \A f \in ValidFields(table[t]) :
        LET cells == results[table[t].mpaszResults].cells
        IN  /\ nIndex(table[t], f) \in DOMAIN cells
            /\ LET here == <<table[t].mnCurrentRow, f>>
               IN  TableField(table[t], f, "null")
                     = IF here = results[table[t].mpaszResults].null THEN "null" ELSE here
            /\ cells[f] = <<"name", f>>

\* Encoding and decoding in place, in any order and number, keep the bytes.
BinaryKept ==
    bin.mpBuf # NULL /\ content # NULL =>
        IF bin.mbEncoded THEN LET d == sqlite3_decode_binary(bin.mpBuf)
                              IN  SubSeq(d.buf, 1, d.len) = content
        ELSE SubSeq(bin.mpBuf, 1, bin.mnBinaryLen) = content

\* Encoded text can stand between quotes and ends where its terminator is:
\* "contains no instances of characters '\'' or '\000'" (CppSQLite3.cpp:1410).
EncodedIsText ==
    bin.mpBuf # NULL /\ content # NULL /\ ~bin.mbEncoded =>
        \A k \in 1..Len(sqlite3_encode_binary(content)) : sqlite3_encode_binary(content)[k] \notin {0, Quote}

\* getEncoded() never writes past the buffer, neither into the space
\* allocBuffer() reserved nor in place of a text from the database, and
\* getBinary() never reads past it, for any text the encoder writes.
EncodingFits == fault = "overrun" => content = NULL

\* After text that is not an encoding was refused, the object never gives
\* its half-decoded buffer out as binary data.
RefusedStaysEncoded == bin.mpBuf # NULL /\ bin.mnBinaryLen = -1 => bin.mbEncoded

=============================================================================
