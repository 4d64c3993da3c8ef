------------------------------- MODULE MCOSC -------------------------------
(* OSC for TLC: a list, both sizes of numbers, a string with a quote in it *)
(* and a skipped symbol among the arguments, a bundle with a bad message   *)
(* and one with a bundle in it from outside, and packets with escaped      *)
(* bytes.  Strings with a backslash, and one that begins with a quote.     *)
EXTENDS OSC

SmallArgs ==
    {<<IntArg(-1), StrArg(<<3, Quote>>), ListOpen, Skip, RealArg(<<2, 3>>), ListClose, IntArg(6)>>}

QuoteArgs == {<<StrArg(<<Quote, 3>>)>>}

BackslashArgs == {<<StrArg(<<3, Backslash>>)>>, <<StrArg(<<Backslash, 3, Quote>>), IntArg(1)>>}

Plain == [addr |-> "x", nested |-> FALSE, words |-> <<>>, tags |-> <<>>]

ForeignPackets ==
    {Bundle(<<[Plain EXCEPT !.tags = <<"t">>, !.words = <<1, 2>>], [Plain EXCEPT !.tags = <<"b">>], Plain>>),
     Bundle(<<Plain, [Plain EXCEPT !.nested = TRUE]>>)}

SmallPayloads == [c \in Conns |-> IF c = "c1" THEN <<<<"a">>, <<END>>>> ELSE <<<<ESC>>>>]
=============================================================================
