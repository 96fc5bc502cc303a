------------------------------ MODULE MCTextIO ------------------------------
(* TLC instances of TextIO: its constants.                                 *)
EXTENDS TextIO

Plain(conv, width, arg) == Directive(conv, {}, width, <<>>, "", arg)

MCValues == {0, 7, 10, 255, 65535, 123456, -1, -524288, 524287}
MCDecimals == (0 .. 1100) \cup (99990 .. 100020) \cup {k * 1013 : k \in 0 .. 1035}
MCFlagSets ==
    {{}, {"LEFT"}, {"ZEROPAD"}, {"PLUS"}, {"SPACE", "SPECIAL"},
     {"ZEROPAD", "SPECIAL"}, {"LEFT", "ZEROPAD", "PLUS"}}
MCWidths == {<<>>, <<2>>, <<-8>>, <<8>>}
MCItems ==
    {Plain("literal", <<>>, "\n"), Plain("d", <<3>>, 12), Plain("s", <<>>, <<"x", "y">>),
     Plain("n", <<>>, 0), Plain("c", <<2>>, "k"), Plain("p", <<>>, 255),
     Plain("%", <<>>, 0), Plain("q", <<>>, 0), Plain("null s", <<>>, 0)}

MCKeys == {"a", " ", "BS", "\r"}
=============================================================================
