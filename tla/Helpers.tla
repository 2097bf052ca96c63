------------------------------ MODULE Helpers -------------------------------
(***************************************************************************)
(* The helpers of util_fun and blmbase: splitting, joining, trimming,       *)
(* replacing and comparing strings, the arithmetic of Time that decides     *)
(* when a timer is due, and the filter of blmlog.                           *)
(*                                                                          *)
(* A string is a sequence of characters, and a character is its code, so    *)
(* that tolower and the comparisons are the arithmetic of the code.  One    *)
(* call at a time is made on an input and `call` holds it and its results;  *)
(* the filter keeps its state from call to call.                            *)
(***************************************************************************)
EXTENDS Integers, Sequences, FiniteSets, SequencesExt

CONSTANTS Chars,        \* the characters of strings
          MaxStr,       \* bound on the length of strings
          ListInts,     \* integers in lists
          TickBits,     \* the width of the int that holds seconds (32)
          TickSecond,   \* milliseconds in a second (1000)
          LogModules, LogLevels,
          MaxLogCalls   \* bound on calls of blmSetLog

ASSUME HelpersAssumption ==
    /\ Chars \subseteq 1..127 /\ ListInts \subseteq (-99)..99 /\ LogLevels \subseteq Nat
    /\ {MaxStr, MaxLogCalls} \subseteq Nat /\ {TickBits, TickSecond} \subseteq Nat \ {0}

VARIABLES call,            \* the last call and what it returned
          blmlog_level, blmlog_modules,
          logCalls,        \* the calls of blmSetLog so far
          shown            \* the last line given to blmlog, and whether it was shown

helperVars == <<call, blmlog_level, blmlog_modules, logCalls, shown>>
logVars == <<blmlog_level, blmlog_modules, logCalls, shown>>

Space == 32
Comma == 44
Minus == 45
Zero == 48
Strings == SeqOf(Chars, MaxStr)

-----------------------------------------------------------------------------
(* Strings                                                                  *)

\* The pieces between separators that are not empty.
splitString(cont, sep) ==
    LET flush(acc) == IF acc.cur = <<>> THEN acc ELSE [res |-> Append(acc.res, acc.cur), cur |-> <<>>]
        step(acc, c) == IF c = sep THEN flush(acc) ELSE [acc EXCEPT !.cur = Append(@, c)]
    IN  flush(FoldLeft(step, [res |-> <<>>, cur |-> <<>>], cont)).res

\* strListToStr: every piece and the delimiter after it, less the last one.
strListToStr(l, delim) ==
    LET str == FlattenSeq([i \in 1..Len(l) |-> l[i] \o delim])
    IN  IF l = <<>> THEN <<>> ELSE SubSeq(str, 1, Len(str) - Len(delim))

\* Where sub occurs in str from position pos on (from 1), 0 if nowhere.
find(str, sub, pos) ==
    LET at == {i \in pos..(Len(str) - Len(sub) + 1) : SubSeq(str, i, i + Len(sub) - 1) = sub}
    IN  IF at = {} THEN 0 ELSE Min(at)

\* strToStrList with a delimiter of several characters: empty pieces are kept,
\* except the last one.
RECURSIVE strToStrListFrom(_, _, _)
strToStrListFrom(src, delimit, last) ==
    LET index == find(src, delimit, last)
        rest == SubSeq(src, last, Len(src))
    IN  IF index = 0 THEN (IF rest = <<>> THEN <<>> ELSE <<rest>>)
        ELSE <<SubSeq(src, last, index - 1)>> \o strToStrListFrom(src, delimit, index + Len(delimit))

strToStrList(src, delimit) ==
    IF src = <<>> \/ delimit = <<>> THEN <<>> ELSE strToStrListFrom(src, delimit, 1)

\* How far the search moves on after a replacement.
replaceStep(newVal) == Len(newVal)

\* replaceAll; an empty oldVal is found everywhere and the loop has no end.
RECURSIVE replaceFrom(_, _, _, _)
replaceFrom(str, oldVal, newVal, pos) ==
    LET p == find(str, oldVal, pos)
    IN  IF pos > Len(str) \/ p = 0 THEN str
        ELSE replaceFrom(SubSeq(str, 1, p - 1) \o newVal \o SubSeq(str, p + Len(oldVal), Len(str)),
                         oldVal, newVal, p + replaceStep(newVal))

replaceAllEnds(str, oldVal) == str = <<>> \/ oldVal # <<>>
replaceAll(str, oldVal, newVal) == replaceFrom(str, oldVal, newVal, 1)

\* The scan from the end never goes below the first character.
lastChar(value) ==
    LET kept == {i \in 2..Len(value) : value[i] # Space}
    IN  IF kept # {} THEN Max(kept) ELSE IF value = <<>> THEN 0 ELSE 1

firstChar(value) ==
    LET kept == {i \in 1..Len(value) : value[i] # Space} IN  IF kept = {} THEN Len(value) + 1 ELSE Min(kept)

trimSpaces(value) ==
    IF lastChar(value) >= firstChar(value) THEN SubSeq(value, firstChar(value), lastChar(value)) ELSE <<>>

lower(c) == IF c \in 65..90 THEN c + 32 ELSE c
toLower(str) == [i \in DOMAIN str |-> lower(str[i])]
toUpper(str) == [i \in DOMAIN str |-> IF str[i] \in 97..122 THEN str[i] - 32 ELSE str[i]]

\* The character at i, the terminator behind the last one.
charAt(s, i) == IF i <= Len(s) THEN s[i] ELSE 0

\* strcmpCase: the difference at the first place where they differ or both end.
strcmpCase(s1, s2) ==
    LET diff == {i \in 1..(Len(s1) + 1) : charAt(s1, i) # charAt(s2, i)}
    IN  IF diff = {} THEN 0 ELSE charAt(s1, Min(diff)) - charAt(s2, Min(diff))

strcmpNoCase(s1, s2) ==
    LET diff == {i \in 1..(Len(s1) + 1) : lower(charAt(s1, i)) # lower(charAt(s2, i))}
    IN  IF diff = {} THEN 0 ELSE lower(charAt(s1, Min(diff))) - lower(charAt(s2, Min(diff)))

\* %d of a number of at most two digits, and atoi, which stops at the first
\* character that is no digit.
digitsOf(n) == IF n < 10 THEN <<Zero + n>> ELSE <<Zero + (n \div 10), Zero + (n % 10)>>
intToStr(i) == IF i < 0 THEN <<Minus>> \o digitsOf(-i) ELSE digitsOf(i)
strToInt(str) ==
    LET neg == str # <<>> /\ str[1] = Minus
        body == IF neg THEN Tail(str) ELSE str
        stop == Min({i \in 1..(Len(body) + 1) : charAt(body, i) \notin Zero..(Zero + 9)})
        n == FoldLeft(LAMBDA acc, c : 10 * acc + (c - Zero), 0, SubSeq(body, 1, stop - 1))
    IN  IF neg THEN -n ELSE n

intListToStr(l, delim) == strListToStr([i \in 1..Len(l) |-> intToStr(l[i])], <<delim>>)
strToIntList(str, delim) ==
    LET vs == splitString(trimSpaces(str), delim) IN  [i \in 1..Len(vs) |-> strToInt(vs[i])]

-----------------------------------------------------------------------------
(* Time                                                                     *)

Word32(n) == LET m == n % (2 ^ TickBits) IN IF m >= 2 ^ (TickBits - 1) THEN m - 2 ^ TickBits ELSE m
Ints == (-(2 ^ (TickBits - 1)))..(2 ^ (TickBits - 1) - 1)

\* Mutant: the milliseconds do not carry over.
addTickNoCarry(tv, millisec) == [sec |-> tv.sec + (millisec \div TickSecond), msec |-> (tv.msec + millisec) % TickSecond]

\* Time::addTick of an interval that is not negative.
addTick(tv, millisec) ==
    [sec |-> Word32(tv.sec + (Word32(millisec + tv.msec) \div TickSecond)), msec |-> Word32(tv.msec + millisec) % TickSecond]

\* Time::getTickDiff, the same expression as in TimerObj::operator<.
getTickDiff(tv1, tv2) == Word32(Word32(tv1.sec - tv2.sec) * TickSecond + tv1.msec - tv2.msec)

\* Milliseconds since the clock began, and the clock's value then.
Millis(tv) == tv.sec * TickSecond + tv.msec
Clock(ms) == [sec |-> ms \div TickSecond, msec |-> ms % TickSecond]
Instants == 0..((2 ^ (TickBits - 1)) * TickSecond - 1)

-----------------------------------------------------------------------------
(* Calls                                                                    *)

NoCall == [fn |-> "none"]
Calls(c) == call' = c /\ UNCHANGED logVars

SplitJoin(l, delim) ==
    Calls([fn |-> "split", l |-> l, delim |-> delim, str |-> strListToStr(l, delim),
           byChar |-> IF Len(delim) = 1 THEN splitString(strListToStr(l, delim), delim[1]) ELSE <<>>,
           byStr |-> strToStrList(strListToStr(l, delim), delim)])

IntList(l, delim) == Calls([fn |-> "ints", l |-> l, delim |-> delim, back |-> strToIntList(intListToStr(l, delim), delim)])

Trim(s) == Calls([fn |-> "trim", s |-> s, res |-> trimSpaces(s)])

Replace(s, oldVal, newVal) ==
    /\ replaceAllEnds(s, oldVal)
    /\ Calls([fn |-> "replace", s |-> s, old |-> oldVal, new |-> newVal, res |-> replaceAll(s, oldVal, newVal)])

Compare(s, t) ==
    Calls([fn |-> "compare", s |-> s, t |-> t, exact |-> strcmpCase(s, t), noCase |-> strcmpNoCase(s, t)])

\* A timer is set at one instant and looked at in another (TimerObj::resetTimer
\* and BlmIoqueue::poll).
Timer(set, millisec, now) ==
    Calls([fn |-> "timer", set |-> set, millisec |-> millisec, now |-> now,
           timeout |-> addTick(Clock(set), millisec),
           due |-> getTickDiff(addTick(Clock(set), millisec), Clock(now)) < 0])

-----------------------------------------------------------------------------
(* Logging                                                                  *)

\* blmSetLog adds its modules to those of the calls before; "" adds none.
Filter(old, modules) == old \cup modules

blmSetLog(level, modules) ==
    /\ call = NoCall /\ Len(logCalls) < MaxLogCalls
    /\ blmlog_level' = level /\ blmlog_modules' = Filter(blmlog_modules, modules)
    /\ logCalls' = Append(logCalls, [level |-> level, modules |-> modules]) /\ shown' = <<>>
    /\ UNCHANGED call

\* blmlog and blmlogDump return early for a line that is too detailed or of a
\* module that was not asked for; checkpj and checktrue log at level 0.
Shows(level, module) ==
    ~(level > blmlog_level \/ (blmlog_modules # {} /\ module \notin blmlog_modules))

blmlog(level, module) ==
    /\ call = NoCall
    /\ shown' = [level |-> level, module |-> module, out |-> Shows(level, module)]
    /\ UNCHANGED <<call, blmlog_level, blmlog_modules, logCalls>>

-----------------------------------------------------------------------------
HelpersInit == call = NoCall /\ blmlog_level = 3 /\ blmlog_modules = {} /\ logCalls = <<>> /\ shown = <<>>

HelpersNext ==
    \/ /\ call = NoCall /\ logCalls = <<>> /\ shown = <<>>
       /\ \/ \E l \in SeqOf(SeqOf({65, Comma, 98}, 2), 3), d \in {<<Comma>>, <<Comma, 98>>, <<Comma, Comma>>, <<>>} : SplitJoin(l, d)
          \/ \E l \in SeqOf(ListInts, 2), d \in {Comma, Space, Minus} : IntList(l, d)
          \/ \E s \in Strings : Trim(s)
          \/ \E s \in Strings, o \in SeqOf(Chars, 2), n \in SeqOf(Chars, 2) : Replace(s, o, n)
          \/ \E s, t \in SeqOf(Chars, MaxStr - 1) : Compare(s, t)
          \/ \E set, now \in Instants, ms \in 0..(2 ^ (TickBits - 1) - 1) : set <= now /\ Timer(set, ms, now)
    \/ \E l \in LogLevels, ms \in SUBSET LogModules : blmSetLog(l, ms)
    \/ \E l \in LogLevels, m \in LogModules : blmlog(l, m)

-----------------------------------------------------------------------------
(* Properties                                                               *)

\* Does no piece of l hold a character of delim, and is none empty?
Clean(l, delim) == \A i \in DOMAIN l : l[i] # <<>> /\ \A j \in DOMAIN l[i] : \A k \in DOMAIN delim : l[i][j] # delim[k]

\* Splitting undoes joining for lists of strings without a character of the
\* delimiter: with a single character without empty strings, with several
\* characters the last one must not be empty (util_fun.cpp:8, 171, 180, 213).
ListRoundTrip ==
    call.fn = "split" /\ call.delim # <<>> =>
        /\ Clean(call.l, call.delim) => call.byStr = call.l /\ (Len(call.delim) = 1 => call.byChar = call.l)
        /\ Clean(SelectSeq(call.l, LAMBDA p : p # <<>>), call.delim) /\ call.l # <<>> /\ Last(call.l) # <<>> =>
              /\ call.byStr = call.l
              /\ Len(call.delim) = 1 => call.byChar = SelectSeq(call.l, LAMBDA p : p # <<>>)

\* A list of integers is read back as it was, the sign included, unless the
\* delimiter is the sign (util_fun.cpp:162, 189).
IntsRoundTrip == call.fn = "ints" /\ call.delim # Minus => call.back = call.l

\* trimSpaces takes off the spaces at both ends and nothing else.
TrimExact ==
    call.fn = "trim" =>
        \E i \in 0..Len(call.s), j \in 0..Len(call.s) :
            /\ i + Len(call.res) + j = Len(call.s)
            /\ call.s = [k \in 1..i |-> Space] \o call.res \o [k \in 1..j |-> Space]
            /\ call.res # <<>> => call.res[1] # Space /\ Last(call.res) # Space

\* replaceAll replaces the occurrences from the left that do not overlap: the
\* result is what joining with newVal makes of splitting at oldVal, also when
\* newVal contains oldVal.  (strToStrList drops an empty last piece.)
ReplaceIsSplitJoin ==
    call.fn = "replace" /\ call.s # <<>> =>
        LET pieces == strToStrList(call.s, call.old)
            joined == strListToStr(pieces, call.new)
        IN  call.res \in {joined, joined \o call.new}

\* strcmpCase is 0 for equal strings only and orders them as a dictionary
\* does; strcmpNoCase is the same on the strings in lower case, whatever the
\* case they are in.
CompareOrders ==
    call.fn = "compare" =>
        /\ call.exact = 0 <=> call.s = call.t
        /\ call.exact < 0 <=> strcmpCase(call.t, call.s) > 0
        /\ call.noCase = strcmpCase(toLower(call.s), toLower(call.t))
        /\ call.noCase = strcmpNoCase(toUpper(call.s), call.t)

\* A timer is due exactly when its interval is over, as long as the seconds
\* of the clock do not overflow and it is looked at less than half the range
\* of an int (24.8 days of milliseconds) before or after that instant.
DueOnTime ==
    call.fn = "timer" /\ call.set + call.millisec \in Instants
      /\ call.millisec + (TickSecond - 1) \in Ints /\ call.now - (call.set + call.millisec) \in Ints =>
        /\ Millis(call.timeout) = call.set + call.millisec /\ call.timeout.msec \in 0..(TickSecond - 1)
        /\ call.due <=> call.now > call.set + call.millisec

\* A line is shown exactly when it is no more detailed than the last call of
\* blmSetLog asked for and its module was named by any call, or none ever was:
\* errors of checkpj and checktrue (level 0) are silenced with the rest.
ShownAsAsked ==
    shown # <<>> =>
        LET named == UNION {logCalls[i].modules : i \in DOMAIN logCalls}
            level == IF logCalls = <<>> THEN 3 ELSE Last(logCalls).level
        IN  shown.out <=> shown.level <= level /\ (named = {} \/ shown.module \in named)

=============================================================================
