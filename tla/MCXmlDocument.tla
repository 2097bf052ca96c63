--------------------------- MODULE MCXmlDocument ---------------------------
EXTENDS XmlDocument

MCNames == {<<"a">>, <<"b">>}
MCLeafValues == {<<"a">>}
MCTextValues == {<<"b">>, <<" ", "<">>, <<" ">>}
MCAttrValues == {<<"\"", "&">>}
MCFragments == {<<"<", "a">>, <<"<", "b">>, <<">">>, <<"/", ">">>, <<"<", "/", "a", ">">>,
                <<" ", "a", "=", "'", "b", "'">>, <<"b", " ">>, <<" ">>,
                <<"&", "lt", ";">>, <<"<", "!", "-", "-">>, <<"-", "-", ">">>, <<"BOM">>}
MCValueSymbols == {"&", "lt", ";", "b", CR, LF}
=============================================================================
