------------------------------ MODULE MCInterp ------------------------------
(* Interp for TLC: programs as lists, loaded into cells as the reader does, *)
(* with what they should give, and a reference evaluator for small ones.    *)
EXTENDS Interp

L(s) == <<"list", s>>
S(name) == Sym(name)
Call(f, s) == L(<<S(f)>> \o s)
Quoted(e) == Call("quote", <<e>>)
Dotted(s, last) == <<"dotted", s, last>>   \* (s... . last)
Empty == L(<<>>)

\* The cells of a datum that start after `base', and its value.
RECURSIVE Read(_, _)
Read(e, base) ==
    IF e[1] \notin {"list", "dotted"} \/ e[2] = <<>>
    THEN [value |-> IF e[1] = "list" THEN NIL ELSE e, cells |-> <<>>]
    ELSE LET s == e[2]
             parts == FoldLeft(LAMBDA a, x :
                         LET r == Read(x, base + Len(s) + Len(a.cells))
                         IN  [cells |-> a.cells \o r.cells, values |-> Append(a.values, r.value)],
                         [cells |-> <<>>, values |-> <<>>], s)
             end == IF e[1] = "list" THEN NIL ELSE e[3]
         IN  [value |-> Ref(base + 1),
              cells |-> [i \in DOMAIN s |->
                            [type |-> "pair", car |-> parts.values[i],
                             cdr |-> IF i = Len(s) THEN end ELSE Ref(base + i + 1)]] \o parts.cells]

Load(forms) == [kind |-> "load", forms |-> forms]
Callback(f, s) == [kind |-> "call", func |-> f, args |-> s]

\* A session of the requests rs, with what each should give, and those that may be slow.
Session(rs, expect, slow) ==
    LET part(a, form) ==
            LET r == Read(form, Len(a.text))
            IN  [text |-> a.text \o r.cells, values |-> Append(a.values, r.value)]
        all == FoldLeft(LAMBDA a, r :
                   IF r.kind = "call" THEN [a EXCEPT !.requests = Append(@, r)]
                   ELSE LET b == FoldLeft(part, [text |-> a.text, values |-> <<>>], r.forms)
                        IN  [text |-> b.text,
                             requests |-> Append(a.requests, [kind |-> "load", forms |-> b.values])],
                   [text |-> <<>>, requests |-> <<>>], rs)
    IN  [text |-> all.text, requests |-> all.requests, expect |-> expect, slow |-> slow]

----------------------------------------------------------------------------
(* Small programs without assignment, and their values. *)

Lambda1(x, body) == Call("lambda", <<L(<<S(x)>>), body>>)
LetX(a, b) == Call("let", <<L(<<L(<<S("x"), a>>)>>), b>>)
AppX(a, b) == L(<<Lambda1("x", b), a>>)
AndOf(a, b) == Call("and", <<a, b>>)
OrOf(a, b) == Call("or", <<a, b>>)
BeginOf(a, b) == Call("begin", <<a, b>>)
Plus(a, b) == Call("+", <<a, b>>)
IfOf(a, b, c) == Call("if", <<a, b, c>>)
Escape(a) == Call("k", <<a>>)
CallCC(x, body) == Call("call/cc", <<Lambda1(x, body)>>)

\* Not a value: an error, or <<"escape", to where, value>>.
Abnormal(v) == v[1] \in {"fails", "escape"}

RECURSIVE Value(_, _, _)
Value(e, env, depth) ==
    LET v(i) == Value(e[2][i], env, depth)
        name == e[2][1][2] IN
    CASE e[1] = "sym" -> env[e[2]]
      [] e[1] \in {"int", "bool"} -> e
      [] e[1] = "list" /\ e[2][1][1] = "list" ->
            LET a == v(2) IN
            IF Abnormal(a) THEN a ELSE Value(e[2][1][2][3], "x" :> a @@ env, depth)
      [] e[1] = "list" /\ e[2][1][1] = "sym" ->
            CASE name = "if" -> LET a == v(2) IN
                                IF Abnormal(a) THEN a ELSE IF a # F THEN v(3) ELSE v(4)
              [] name = "and" -> LET a == v(2) IN IF Abnormal(a) \/ a = F THEN a ELSE v(3)
              [] name = "or" -> LET a == v(2) IN IF a # F THEN a ELSE v(3)
              [] name = "begin" -> LET a == v(2) IN IF Abnormal(a) THEN a ELSE v(3)
              [] name = "let" -> LET a == Value(e[2][2][2][1][2][2], env, depth) IN
                                 IF Abnormal(a) THEN a ELSE Value(e[2][3], "x" :> a @@ env, depth)
              [] name = "k" -> LET a == v(2) IN
                               IF Abnormal(a) THEN a ELSE <<"escape", env["k"], a>>
              [] name = "call/cc" ->
                    LET a == Value(e[2][2][2][3], "k" :> depth @@ env, depth + 1)
                    IN  IF a[1] = "escape" /\ a[2] = depth THEN a[3] ELSE a
              [] name = "+" -> LET a == v(2)  b == v(3) IN
                               IF Abnormal(a) THEN a ELSE IF Abnormal(b) THEN b
                               ELSE IF a[1] = "int" /\ b[1] = "int" THEN Num(a[2] + b[2]) ELSE Fails

Atoms == <<Num(1), F, S("x"), Escape(Num(2))>>

Pairs(form(_, _)) == [i \in 1 .. 16 |-> form(Atoms[((i - 1) \div 4) + 1], Atoms[((i - 1) % 4) + 1])]

Small == Atoms \o Pairs(LetX) \o Pairs(AppX) \o Pairs(AndOf) \o Pairs(OrOf) \o Pairs(BeginOf)
         \o Pairs(Plus) \o Pairs(LAMBDA a, b : IfOf(a, b, S("x")))

Contexts(e) ==
    <<Plus(Num(10), e), Plus(e, S("x")), IfOf(e, Num(5), F), LetX(e, Plus(S("x"), Num(1))),
      AppX(Num(4), e), OrOf(e, Num(6)), AndOf(Num(8), e), BeginOf(e, S("x")),
      CallCC("k", BeginOf(e, Num(9)))>>

Whole(e) == LetX(Num(3), CallCC("k", e))

SmallSessions ==
    FlattenSeq([i \in DOMAIN Small |->
        [j \in DOMAIN Contexts(Small[i]) |->
            LET e == Whole(Contexts(Small[i])[j])
            IN  Session(<<Load(<<e>>)>>, <<Value(e, <<>>, 0)>>, {})]])

----------------------------------------------------------------------------
(* Larger sessions. *)

DefineOf(x, e) == Call("define", <<S(x), e>>)
DefineFun(f, params, body) == L(<<S("define"), L(<<S(f)>> \o params)>> \o body)
SetOf(x, e) == Call("set!", <<S(x), e>>)
Less2(a, b) == Call("<", <<a, b>>)
Binding(x, e) == L(<<S(x), e>>)

\* A loop that ends, and a request after it.
Sum == Call("let", <<S("loop"), L(<<Binding("i", Num(0)), Binding("s", Num(0))>>),
                     IfOf(Less2(S("i"), Num(2)),
                          Call("loop", <<Plus(S("i"), Num(1)), Plus(S("s"), S("i"))>>), S("s"))>>)
Loops == Session(<<Load(<<Sum>>), Load(<<Plus(Num(1), Num(2)), Sum>>)>>, <<Num(1), Num(1)>>, {1, 2})

\* A loop that does not end, and a request after it.
Forever == Session(<<Load(<<Call("let", <<S("loop"), L(<<Binding("i", Num(0))>>),
                                          Plus(Num(1), Call("loop", <<S("i")>>))>>)>>),
                     Load(<<Plus(Num(1), Num(2))>>)>>, <<Num(0), Num(3)>>, {1, 2})

\* Syntax.
Forms ==
    <<DefineFun("make", <<S("n")>>, <<Call("lambda", <<Empty, SetOf("n", Plus(S("n"), Num(1))), S("n")>>)>>),
      DefineOf("c", Call("make", <<Num(5)>>)), Call("c", <<>>), Call("c", <<>>)>>
Assigns == Session(<<Load(Forms), Load(<<Call("c", <<>>)>>), Callback("c", <<>>)>>,
                   <<Num(7), Num(8), Num(9)>>, {})

One(e, v) == [form |-> e, gives |-> v]

Binds ==
    <<One(Call("letrec", <<L(<<Binding("f", Lambda1("n", IfOf(Less2(S("n"), Num(1)), Num(0),
                                                Call("f", <<Plus(S("n"), Num(-1))>>))))>>),
                           Call("f", <<Num(1)>>)>>), Num(0)),
      One(Call("let*", <<L(<<Binding("a", Num(1)), Binding("b", Plus(S("a"), Num(1)))>>),
                         Call("let*", <<Empty, Plus(S("a"), S("b"))>>)>>), Num(3)),
      One(Call("let", <<Empty>>), NIL), One(Call("if", <<F, Num(1)>>), NIL)>>

Selects ==
    <<One(Call("cond", <<L(<<Less2(Num(2), Num(1)), Num(5)>>),
                         L(<<Plus(Num(1), Num(1)), S("=>"), Lambda1("v", Plus(S("v"), Num(10)))>>),
                         L(<<S("else"), Num(0)>>)>>), Num(12)),
      One(Call("cond", <<L(<<F, Num(1)>>), L(<<S("else"), Num(2), Num(3)>>)>>), Num(3)),
      One(Call("cond", <<L(<<F, Num(1)>>)>>), NIL), One(Call("cond", <<L(<<Num(5)>>)>>), Num(5)),
      One(Call("case", <<Plus(Num(1), Num(1)), L(<<L(<<Num(1), Num(3)>>), Num(10)>>),
                         L(<<L(<<Num(2)>>), Num(20)>>), L(<<S("else"), Num(30)>>)>>), Num(20)),
      One(Call("case", <<Num(9), L(<<L(<<Num(1)>>), Num(1)>>), L(<<S("else"), Num(30)>>)>>), Num(30)),
      One(Call("case", <<Num(9), L(<<L(<<Num(1)>>), Num(1)>>)>>), NIL),
      One(Call("and", <<>>), T), One(Call("or", <<>>), F), One(AndOf(Num(1), Num(2)), Num(2))>>

Applies ==
    <<One(Call("apply", <<S("+"), Num(1), Num(2), Quoted(L(<<Num(3), Num(4)>>))>>), Num(10)),
      One(Call("apply", <<S("+"), Quoted(L(<<Num(3), Num(4)>>))>>), Num(7)),
      One(Call("eval", <<Quoted(Plus(Num(1), Num(2)))>>), Num(3)),
      One(L(<<Call("lambda", <<S("r"), Call("car", <<Call("cdr", <<S("r")>>)>>)>>), Num(1), Num(2)>>), Num(2)),
      One(L(<<Call("lambda", <<Dotted(<<S("a")>>, S("r")), Call("apply", <<S("+"), S("a"), S("r")>>)>>),
              Num(1), Num(2), Num(3)>>), Num(6)),
      One(L(<<Call("lambda", <<Empty, Num(4)>>), Num(1)>>), Num(4))>>

Pair(a, b) == Call("cons", <<a, b>>)
Scope == LetX(Num(4), Call("current-environment", <<>>))

Lists ==
    <<One(Call("let", <<L(<<Binding("l", Pair(Num(1), Pair(Num(2), Empty)))>>),
                        Call("set-car!", <<S("l"), Num(5)>>),
                        Call("set-cdr!", <<Call("cdr", <<S("l")>>), Quoted(L(<<Num(7)>>))>>),
                        Call("apply", <<S("+"), S("l")>>)>>), Num(14)),
      One(Call("apply", <<S("+"), Call("append", <<Quoted(L(<<Num(1), Num(2)>>)), Empty,
                                                  Quoted(L(<<Num(3)>>))>>)>>), Num(6)),
      One(Call("append", <<>>), NIL), One(Call("append", <<Empty, Num(3)>>), Num(3)),
      One(Call("car", <<Call("reverse", <<Quoted(L(<<Num(1), Num(2), Num(3)>>))>>)>>), Num(3)),
      One(Call("reverse", <<Empty>>), NIL),
      One(Call("length", <<Quoted(L(<<Num(1), Num(2)>>))>>), Num(2)),
      One(Call("length", <<Pair(Num(1), Num(2))>>), Fails),
      One(Call("apply", <<S("+"), Call("list*", <<Num(1), Num(2), Quoted(L(<<Num(3)>>))>>)>>), Num(6)),
      One(Call("list*", <<Num(5)>>), Num(5)), One(Call("cdr", <<Call("list*", <<Num(5), Num(6)>>)>>), Num(6)),
      One(Call("not", <<Num(1)>>), F), One(Call("null?", <<Empty>>), T),
      One(Call("eqv?", <<Num(2), Plus(Num(1), Num(1))>>), T), One(Call("<", <<Num(1), Num(3), Num(2)>>), F),
      One(Call("eval", <<Quoted(S("x")), Scope>>), Num(4)), One(Call("eval", <<Num(1), Num(2)>>), Fails),
      One(L(<<Call("make-closure", <<Quoted(Lambda1("y", Plus(S("y"), S("x")))), Scope>>), Num(1)>>), Num(5)),
      One(L(<<Call("make-closure", <<Quoted(L(<<L(<<S("y")>>), S("y")>>))>>), Num(3)>>), Num(3)),
      One(Call("defined?", <<Quoted(S("x"))>>), F),
      One(Call("defined?", <<Quoted(S("car")), Call("interaction-environment", <<>>)>>), T)>>

Errors ==
    <<One(Call("zz", <<>>), Fails), One(L(<<Call("lambda", <<L(<<S("a"), S("b")>>), S("a")>>), Num(1)>>), Fails),
      One(SetOf("zz", Num(1)), Fails), One(L(<<Quoted(S("a")), Num(1)>>), Fails),
      One(Call("apply", <<S("+"), Num(1)>>), Fails), One(Call("define", <<Num(3), Num(4)>>), Fails),
      One(Call("cond", <<>>), Fails), One(Call("let", <<L(<<S("x")>>), Num(1)>>), Fails),
      One(Call("let*", <<S("x"), Num(1)>>), Fails), One(Call("case", <<Num(1), L(<<Num(2), Num(3)>>)>>), Fails),
      One(Call("let", <<S("f"), Num(5), Num(1)>>), Fails),
      One(Call("cond", <<L(<<Num(1), S("=>")>>)>>), Fails),
      One(L(<<Call("lambda", <<Num(5), Num(1)>>), Num(1)>>), Fails), One(Call("car", <<Num(1)>>), Fails)>>

\* One session for each.
Singly(ones) ==
    [i \in DOMAIN ones |-> Session(<<Load(<<ones[i].form>>), Load(<<Plus(Num(2), Num(2))>>)>>,
                                  <<ones[i].gives, Num(4)>>, {})]

\* A foreign function, from a text and as a callback.
Foreign ==
    Session(<<Load(<<Plus(Num(1), Call("ff", <<Num(3)>>))>>), Callback("ff", <<Num(5)>>),
              Load(<<Call("apply", <<S("ff"), Quoted(L(<<Num(2)>>))>>)>>)>>,
            <<Num(4), Num(5), Num(2)>>, {})

\* Variables of compiled closures.
Dots ==
    Session(<<Load(<<DefineOf("cl", Num(1)), DefineOf("cl_xtlang_name", Str("n")), S("cl.v")>>),
              Load(<<Call("cl.v", <<Num(5)>>)>>),
              Load(<<IfOf(Less2(Call("cl.v", <<>>), Num(2)), Num(3), Num(4))>>),
              Load(<<Call("cl.w", <<>>)>>), Load(<<DefineOf("x", Num(1)), S("x.v")>>),
              Load(<<Call("list", <<>>), S("cl.w")>>), Load(<<S("cl.w")>>)>>,
            <<S("cl.v"), T, Num(3), F, Fails, Fails, S("cl.w")>>, {})

\* Promises: the body runs once.
Promises ==
    Session(<<Load(<<DefineOf("n", Num(0)),
                     DefineOf("p", Call("delay", <<SetOf("n", Plus(S("n"), Num(1)))>>)),
                     Plus(Call("force", <<S("p")>>), Call("force", <<S("p")>>))>>),
              Load(<<DefineOf("s", Call("cons-stream", <<Num(1), Plus(Num(1), Num(1))>>)),
                     Plus(Call("car", <<S("s")>>), Call("force", <<Call("cdr", <<S("s")>>)>>)),
                     Plus(Call("force", <<Num(5)>>), Call("force", <<S("p")>>))>>)>>,
            <<Num(2), Num(6)>>, {})

\* A continuation with arguments that are evaluated already, entered again
\* and again, by other requests.
Reenters ==
    Session(<<Load(<<DefineOf("k", Num(0)),
                     Call("+", <<Num(1), CallCC("c", BeginOf(SetOf("k", S("c")), Num(1))), Num(3)>>)>>),
              Load(<<Call("k", <<Num(5)>>)>>), Load(<<Call("k", <<Num(7)>>), Num(2)>>),
              Callback("k", <<Num(20)>>)>>,
            <<Num(5), Num(9), Num(2), Num(24)>>, {})

LetAgain ==
    Session(<<Load(<<DefineOf("k", Num(0)), DefineOf("i", Num(0)),
                     Call("let", <<L(<<Binding("a", Num(1)),
                                       Binding("b", CallCC("c", BeginOf(SetOf("k", S("c")), Num(2))))>>),
                                   Plus(S("a"), S("b"))>>),
                     SetOf("i", Plus(S("i"), Num(1))),
                     IfOf(Less2(S("i"), Num(2)), Call("k", <<Num(10)>>), S("i")), S("i")>>),
              Load(<<Call("k", <<Num(20)>>)>>)>>,
            <<Num(1), Num(21)>>, {})

\* A request that fails before its end, and a callback.
CutShort ==
    Session(<<Load(<<DefineFun("f", <<>>, <<Num(6)>>), Plus(Num(1), Call("car", <<Num(5)>>)), Num(5)>>),
              Callback("f", <<>>)>>, <<Fails, Num(6)>>, {})

\* sys:sleep: the rest of a request becomes a callback.
SleepSession(slow) ==
    Session(<<Load(<<DefineOf("top", Num(0)), CallCC("k", SetOf("top", S("k"))), DefineOf("r", Num(0)),
                     DefineFun("wait", <<>>, <<CallCC("c", BeginOf(SetOf("rest", S("c")), Call("top", <<Num(0)>>)))>>),
                     DefineOf("rest", Num(0))>>),
              Load(<<SetOf("r", Plus(Num(10), BeginOf(Call("wait", <<>>), Num(5)))), S("r")>>),
              Callback("rest", <<T>>), Load(<<S("r")>>), Callback("rest", <<T>>)>>,
            <<S("rest"), Num(0), Num(15), Num(15), Num(15)>>, slow)
Sleeps == SleepSession({})

\* init.xtm: list, macros and catch.
Prelude ==
    <<DefineOf("*handlers*", Empty), L(<<S("define"), Dotted(<<S("list")>>, S("x")), S("x")>>),
      DefineFun("push-handler", <<S("proc")>>,
                <<SetOf("*handlers*", Call("cons", <<S("proc"), S("*handlers*")>>))>>),
      DefineFun("pop-handler", <<>>,
                <<Call("let", <<L(<<Binding("h", Call("car", <<S("*handlers*")>>))>>),
                                SetOf("*handlers*", Call("cdr", <<S("*handlers*")>>)), S("h")>>)>>),
      DefineFun("more-handlers?", <<>>, <<Call("pair?", <<S("*handlers*")>>)>>),
      L(<<S("define"), Dotted(<<S("throw")>>, S("x")),
          IfOf(Call("more-handlers?", <<>>), Call("apply", <<Call("pop-handler", <<>>)>>),
               Call("apply", <<S("error"), S("x")>>))>>),
      Call("macro", <<Call("catch", <<S("form")>>),
          Call("list", <<Quoted(S("call/cc")),
              Call("list", <<Quoted(S("lambda")), Quoted(L(<<S("exit")>>)),
                  Call("list", <<Quoted(S("push-handler")),
                      Call("list", <<Quoted(S("lambda")), Quoted(Empty),
                          Call("list", <<Quoted(S("exit")),
                              Call("car", <<Call("cdr", <<S("form")>>)>>)>>)>>)>>),
                  Call("list", <<Quoted(S("let")),
                      Call("list", <<Call("list", <<Quoted(S("label")),
                          Call("cons", <<Quoted(S("begin")),
                              Call("cdr", <<Call("cdr", <<S("form")>>)>>)>>)>>)>>),
                      Quoted(Call("pop-handler", <<>>)), Quoted(S("label"))>>)>>)>>)>>),
      DefineOf("*error-hook*", S("throw"))>>

Catches ==
    Session(<<Load(Prelude),
              Load(<<Call("catch", <<Num(7), Plus(Num(1), Call("car", <<Num(5)>>))>>)>>),
              Load(<<Plus(Num(1), Call("catch", <<Num(10), Call("throw", <<Str("x")>>)>>))>>),
              Load(<<Call("throw", <<Str("x")>>)>>), Load(<<Call("zz", <<>>)>>),
              Load(<<Call("catch", <<Num(3), Call("catch", <<Num(4), S("zz")>>)>>)>>)>>,
            <<S("*error-hook*"), Num(7), Num(11), Fails, Fails, Num(4)>>, {})

LiveHook ==
    Session(<<Load(<<DefineOf("*error-hook*", Empty),
                     DefineOf("*livecoding-error-hook*",
                              Call("lambda", <<L(<<S("msg"), S("a")>>), Num(1)>>)),
                     Plus(Num(1), Call("car", <<Num(2)>>))>>),
              Load(<<Plus(Num(1), L(<<Quoted(S("a"))>>))>>)>>, <<Num(2), Num(2)>>, {})

AllSessions ==
    <<Loops, Forever, Assigns, Promises, Reenters, LetAgain, CutShort, Sleeps, Catches, LiveHook,
      Foreign, Dots>>
    \o Singly(Binds) \o Singly(Selects) \o Singly(Applies) \o Singly(Lists) \o Singly(Errors) \o SmallSessions

\* A catch is left by another continuation; a throw follows.
StaleHandler ==
    <<Session(<<Load(Prelude),
                Load(<<CallCC("out", Call("catch", <<Num(1), Call("out", <<Num(2)>>)>>))>>),
                Load(<<Call("throw", <<Str("x")>>)>>)>>,
              <<S("*error-hook*"), Num(2), Fails>>, {})>>

\* Programs that do not give what the language says: cons keeps its argument
\* list, append has one argument, a promise gives #f a second time.
ConsKeepsList ==
    Singly(<<One(Call("let", <<L(<<Binding("l", Pair(Num(1), Pair(Num(2), Empty)))>>),
                               Call("apply", <<S("cons"), S("l")>>),
                               Call("pair?", <<Call("cdr", <<S("l")>>)>>)>>), T)>>)
AppendOne == Singly(<<One(Call("car", <<Call("append", <<Quoted(L(<<Num(1)>>))>>)>>), Num(1))>>)
ForceFalse ==
    Singly(<<One(Call("let", <<L(<<Binding("p", Call("delay", <<F>>))>>), Call("force", <<S("p")>>),
                               IfOf(Call("force", <<S("p")>>), Num(1), Num(2))>>), Num(2))>>)

\* Definitions that throw: of an expression whose second element prints as
\* nothing, of what is no symbol; the first in a callback too.
DefineEmpty ==
    <<Session(<<Load(<<DefineFun("f", <<S("a")>>, <<Num(1)>>)>>),
                Load(<<DefineOf("x", Call("f", <<Str("")>>)), S("x")>>)>>, <<S("f"), Num(1)>>, {})>>
DefineNumber ==
    <<Session(<<Load(<<L(<<S("define"), Num(5), Call("+", <<Num(1)>>)>>)>>)>>, <<Fails>>, {})>>
EmptyCallback ==
    <<Session(<<Load(<<DefineFun("g", <<>>, <<DefineOf("x", Call("f", <<Str("")>>)), Num(1)>>)>>),
                Callback("g", <<>>)>>, <<S("g"), Num(1)>>, {})>>

\* Sessions for which a property fails: ReadsOwnText, when the request that
\* sleeps runs late, ErrorsReported, when a number is applied, and TimeLimit,
\* when an error was caught before a loop.
LateSleep == <<SleepSession({2})>>
AppliesNumber == <<Session(<<Load(<<Num(4)>>), Load(<<L(<<Num(5)>>)>>)>>, <<Num(4), Fails>>, {})>>
CaughtLoop ==
    <<Session(<<Load(<<DefineOf("*error-hook*", Empty),
                       DefineOf("*livecoding-error-hook*",
                                Call("lambda", <<L(<<S("msg"), S("a")>>), Num(1)>>)),
                       Call("car", <<Num(2)>>), Sum>>)>>, <<Num(1)>>, {1})>>
=============================================================================
