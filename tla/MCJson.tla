------------------------------- MODULE MCJson -------------------------------
EXTENDS Json, TLC

Strings == {<<>>, <<"a">>, <<"\"", "a">>, <<"\\">>, <<"nl", "n">>, <<"c1">>}
Leaves == {[t |-> c] : c \in Literals \cup Numerals} \cup {Str(s) : s \in Strings}
Keys == {<<>>, <<"a">>, <<"\\", "\"">>}
Flat == {Arr(k) : k \in SeqOf(Leaves, 2)}
        \cup {Obj(k) : k \in SeqOf(Keys \X {Null, Str(<<"\\">>), Str(<<"\"", "a">>)}, 2)}
Small == {Arr(<<>>), Obj(<<>>), Arr(<<Str(<<"a">>)>>), Obj(<<<< <<"a">>, Null >>>>)}
MCDocs == Leaves \cup Flat \cup {Arr(k) : k \in SeqOf(Small, 2)}
          \cup {Obj(k) : k \in SeqOf({<<"a">>} \X Small, 2)}

Symbols == {"[", "]", "{", "}", ",", ":", "\"", "\\", "a", "n", "u", "null", "7", " ", "u0000", "u0001", "uD83D", "uDE00"}
MCTyped == SeqOf(Symbols, 3)
           \cup {<<"\"", "\\", "uD83D", "\\", c, "\"">> : c \in Symbols}
           \cup {<<"{", x, ":", y, "}">> : x, y \in Symbols}
           \cup {<<"[", x, y, z, "]">> : x, y, z \in {"a", "\"", ",", " ", "\\", "7"}}

JsonSymmetry == Permutations(Nodes) \cup Permutations(Objects)
=============================================================================
