---------------------------- MODULE OSCMessage -----------------------------
(***************************************************************************)
(* How OSC.cpp writes the arguments of a message into a packet and reads   *)
(* them back, and which calls it makes of a packet.                        *)
(*                                                                         *)
(* The arguments are a sequence of tokens: values, and brackets around the *)
(* elements of a list.  A packet holds words with Word values, 2^32 in the *)
(* code; 32-bit types take one word and 64-bit types two.  Four characters *)
(* of a string take a word in the code; here each takes one, and so does   *)
(* the zero byte with its padding.  The receiver pastes strings into the   *)
(* text of a call, so that quotes and backslashes are told apart.          *)
(***************************************************************************)
EXTENDS Integers, Sequences, SequencesExt

CONSTANTS Word,
          MaxString   \* how much of a string getOSCString takes, 4096

ASSUME WordAssumption == Word \in Nat \ {0} /\ Word % 2 = 0 /\ MaxString \in Nat

IntArg(n) == [type |-> "int", val |-> n]
RealArg(x) == [type |-> "real", val |-> x]   \* x: the high and the low word
StrArg(s) == [type |-> "str", val |-> s]     \* s: its characters
Skip == [type |-> "skip", val |-> 0]         \* a symbol or a vector
Other == [type |-> "other", val |-> 0]       \* a boolean, the empty list...
ListOpen == [type |-> "[", val |-> 0]
ListClose == [type |-> "]", val |-> 0]

Quote == 1       \* characters; all others are larger
Backslash == 2

Low(n) == n % Word
High(n) == (n \div Word) % Word

\* A word read as a signed number, and two words.
Signed(w) == IF w >= Word \div 2 THEN w - Word ELSE w
SignedPair(hi, lo) == IF hi >= Word \div 2 THEN (hi - Word) * Word + lo ELSE hi * Word + lo

----------------------------------------------------------------------------
(* processArgs, with the types that the sender has set. *)

TagOf(a, types) ==
    CASE a.type = "int"  -> <<IF types.int64 THEN "h" ELSE "i">>
      [] a.type = "real" -> <<IF types.real64 THEN "d" ELSE "f">>
      [] a.type = "str"  -> <<"s">>
      [] a.type \in {"[", "]"} -> <<a.type>>
      [] OTHER -> <<>>

WordsOf(a, types) ==
    CASE a.type = "int"  -> IF types.int64 THEN <<High(a.val), Low(a.val)>> ELSE <<Low(a.val)>>
      [] a.type = "real" -> IF types.real64 THEN a.val ELSE <<a.val[1]>>
      [] a.type = "str"  -> Append(a.val, 0)
      [] OTHER -> <<>>

\* `ret' after the i-th argument: an argument of no known type leaves it as
\* it was, and the pointer moves on by it.
Moved(args, types) ==
    LET ret[i \in 0 .. Len(args)] ==
            IF i = 0 THEN 0
            ELSE IF args[i].type \in {"skip", "other"} THEN ret[i - 1]
            ELSE Len(WordsOf(args[i], types))
    IN  ret

\* What is left in the memory that the pointer moved over is anything.
Garbage == 1

DataOf(args, types) ==
    FlattenSeq([i \in DOMAIN args |->
        IF args[i].type = "other" THEN [j \in 1 .. Moved(args, types)[i] |-> Garbage]
        ELSE WordsOf(args[i], types)])

Message(addr, args, types) ==
    [addr |-> addr, nested |-> FALSE, words |-> DataOf(args, types),
     tags |-> FlattenSeq([i \in DOMAIN args |-> TagOf(args[i], types)])]

----------------------------------------------------------------------------
(* getOSCString, and what the reader of Scheme makes of its result between *)
(* two quotes.                                                             *)

\* The characters up to the zero byte, or to the limit.
StringAt(words, pos) ==
    LET zero == SelectInSubSeq(words, pos, Len(words), LAMBDA w : w = 0)
    IN  SubSeq(words, pos, (IF zero - pos <= MaxString THEN zero ELSE pos + MaxString) - 1)

\* str->at(i-1) throws for a quote at i = 0.
Throws(s) == s # <<>> /\ s[1] = Quote

\* A backslash is inserted before a quote that is not behind one.
Quoted(s, i) == i > 1 /\ s[i] = Quote /\ s[i - 1] # Backslash

\* readstrexp.  A character behind a backslash stands for itself; that n, t, r
\* and x stand for others makes no difference to whether a string is intact.
ReadChar(r, c) ==
    IF r.closed THEN r
    ELSE IF r.bsl THEN [r EXCEPT !.bsl = FALSE, !.out = Append(@, c)]
    ELSE IF c = Backslash THEN [r EXCEPT !.bsl = TRUE]
    ELSE IF c = Quote THEN [r EXCEPT !.closed = TRUE]
    ELSE [r EXCEPT !.out = Append(@, c)]

ReaderStart == [out |-> <<>>, bsl |-> FALSE, closed |-> FALSE]

Literal(s) ==
    LET read[i \in 0 .. Len(s)] ==
            IF i = 0 THEN ReaderStart
            ELSE IF Quoted(s, i) THEN ReadChar(ReadChar(read[i - 1], Backslash), s[i])
            ELSE ReadChar(read[i - 1], s[i])
    IN  read[Len(s)]

\* The literal ends before its closing quote, or has that in it.
Broken(s) == Literal(s).closed \/ Literal(s).bsl

----------------------------------------------------------------------------
(* send_scheme_call and send_scheme_process_call: reading the arguments. *)

Supported == {"i", "h", "f", "d", "s", "t", "[", "]"}

\* Mutant: a long is read as if it had the size of an int.
WidthAt_ShortLong(tag, words, pos) ==
    CASE tag \in {"i", "f", "h"} -> 1
      [] tag \in {"d", "t"} -> 2
      [] tag = "s" -> Len(StringAt(words, pos)) + 1
      [] OTHER -> 0

WidthAt(tag, words, pos) ==
    CASE tag \in {"i", "f"} -> 1
      [] tag \in {"h", "d", "t"} -> 2
      [] tag = "s" -> Len(StringAt(words, pos)) + 1
      [] OTHER -> 0

\* The position of every argument in the words, and the one after the last.
Positions(tags, words) ==
    LET pos[i \in 1 .. Len(tags) + 1] ==
            IF i = 1 THEN 1 ELSE pos[i - 1] + WidthAt(tags[i - 1], words, pos[i - 1])
    IN  pos

Argument(tag, words, pos) ==
    CASE tag = "i" -> IntArg(Signed(words[pos]))
      [] tag = "h" -> IntArg(SignedPair(words[pos], words[pos + 1]))
      [] tag = "f" -> RealArg(<<words[pos], 0>>)
      [] tag \in {"d", "t"} -> RealArg(<<words[pos], words[pos + 1]>>)   \* or a time tag
      [] tag = "s" -> StrArg(Literal(StringAt(words, pos)).out)
      [] tag = "[" -> ListOpen
      [] tag = "]" -> ListClose

Bad(m) == \E i \in DOMAIN m.tags : m.tags[i] \notin Supported

\* The strings of a message that are read before an unknown type tag.
StringsOf(m) ==
    {StringAt(m.words, Positions(m.tags, m.words)[i]) :
        i \in {j \in DOMAIN m.tags : m.tags[j] = "s" /\ \A k \in 1 .. j : m.tags[k] \in Supported}}

\* The text with a broken literal is no call of these arguments.
Garbled == <<[type |-> "garbled", val |-> 0]>>

Arguments(m) ==
    IF \E s \in StringsOf(m) : Broken(s) THEN Garbled
    ELSE [i \in DOMAIN m.tags |-> Argument(m.tags[i], m.words, Positions(m.tags, m.words)[i])]

\* Arguments that the format is made for: no type that processArgs does not
\* know, and no string with a backslash or with a quote at its beginning.
Sendable(a) ==
    /\ a.type # "other"
    /\ a.type = "str" => /\ \A i \in DOMAIN a.val : a.val[i] # Backslash
                         /\ ~ Throws(a.val) /\ Len(a.val) <= MaxString

\* What the receiver should read of what the sender was given.
Narrowed(a, types) ==
    CASE a.type = "int" /\ ~ types.int64 -> IntArg(Signed(Low(a.val)))
      [] a.type = "real" /\ ~ types.real64 -> RealArg(<<a.val[1], 0>>)
      [] OTHER -> a

Intended(args, types) ==
    FlattenSeq([i \in DOMAIN args |->
        IF args[i].type \in {"skip", "other"} THEN <<>> ELSE <<Narrowed(args[i], types)>>])

----------------------------------------------------------------------------
(* process_osc_data, and the body of osc_mesg_callback. *)

\* A packet is a message or a bundle of messages.
Single(m) == [bundle |-> FALSE, elems |-> <<m>>]
Bundle(ms) == [bundle |-> TRUE, elems |-> ms]

\* The messages of a packet that lead to a call: the loop over a bundle ends
\* at a message with an unknown type tag or at a bundle in the bundle.
CallsOf(packet) ==
    LET stop == {i \in DOMAIN packet.elems : packet.elems[i].nested \/ Bad(packet.elems[i])}
    IN  SubSeq(packet.elems, 1,
               IF stop = {} THEN Len(packet.elems)
               ELSE (CHOOSE i \in stop : \A j \in stop : i <= j) - 1)

\* A string that throws, in a message that is read.
ReadThrows(packet) ==
    \E i \in DOMAIN packet.elems :
        /\ i <= Len(CallsOf(packet)) + 1 /\ ~ packet.elems[i].nested
        /\ \E s \in StringsOf(packet.elems[i]) : Throws(s)

\* A bundle in a bundle, before any bad message, ends the whole thread of
\* osc_mesg_callback.
EndsThread(packet) ==
    LET n == Len(CallsOf(packet)) + 1
    IN  packet.bundle /\ n <= Len(packet.elems) /\ packet.elems[n].nested
=============================================================================
