------------------------------- MODULE Interp -------------------------------
(***************************************************************************)
(* The evaluator of Scheme.cpp: a register machine with a stack of frames  *)
(* (the dump), one operation at a time, for the requests that a Scheme     *)
(* process makes one after the other (scheme_load_string, scheme_call).    *)
(*                                                                         *)
(* Lists are made of cells, so that what two lists share is visible: the   *)
(* evaluator reverses argument lists in place, and continuations hold      *)
(* frames with such lists.  A value is an atom or a Ref to a cell; code is *)
(* a list too, as the reader makes it.  Cells and environments that        *)
(* nothing reaches stay: collecting them is what Treadmill is about.       *)
(***************************************************************************)
EXTENDS Integers, Sequences, SequencesExt, TLC

CONSTANTS Sessions,  \* a sequence: the cells of a text, its requests, what they should give
          MaxSteps   \* a request that may run late does so after this many operations

VARIABLES op, args, code, value, envir,  \* the registers
          dump,     \* the frames
          cells,    \* those of the text, as the reader makes them, and the new ones
          envs,     \* the frames of variables; the first is the global one
          input,    \* what is not read yet of the text
          retcode,
          limited,  \* call_end_time is not ULLONG_MAX
          session,  \* the session that this behaviour is about
          steps,    \* operations of the current request, in a session that may run late
          late,     \* UNIV::TIME is after the end of the time that the request was given
          running,  \* Eval_Cycle runs
          done      \* how the requests ended

registers == <<op, args, code, value, envir, dump>>
memory == <<cells, envs>>
vars == <<registers, memory, input, retcode, limited, session, steps, late, running, done>>

Requests == session.requests

NIL == <<"nil">>
T == <<"bool", TRUE>>
F == <<"bool", FALSE>>
Sym(s) == <<"sym", s>>
Num(n) == <<"int", n>>
Str(s) == <<"str", s>>
Env(e) == <<"env", e>>
Ref(a) == <<"ref", a>>
Proc(o) == <<"proc", o>>

\* What a request ends with that should report an error.
Fails == <<"fails">>

Syntax == "quote" :> "QUOTE" @@ "lambda" :> "LAMBDA" @@ "define" :> "DEF0" @@ "set!" :> "SET0"
          @@ "begin" :> "BEGIN" @@ "if" :> "IF0" @@ "let" :> "LET0" @@ "let*" :> "LET0AST"
          @@ "letrec" :> "LET0REC" @@ "cond" :> "COND0" @@ "case" :> "CASE0"
          @@ "delay" :> "DELAY" @@ "and" :> "AND0" @@ "or" :> "OR0"
          @@ "cons-stream" :> "C0STREAM" @@ "macro" :> "MACRO0"

\* Built-in procedures: how many arguments they take, and of which types; the
\* last type stands for the rest.
AnyType == {"nil", "bool", "sym", "int", "str", "env", "proc", "pair", "closure", "macro",
            "promise", "cont", "foreign"}
List == {"nil", "pair"}
BuiltIn ==
    [ADD |-> <<0, 9, <<{"int"}>>>>, LESS |-> <<2, 9, <<{"int"}>>>>, CONS |-> <<2, 2, <<AnyType>>>>,
     CAR |-> <<1, 1, <<{"pair"}>>>>, CDR |-> <<1, 1, <<{"pair"}>>>>, PAIRP |-> <<1, 1, <<AnyType>>>>,
     SETCAR |-> <<2, 2, <<{"pair"}, AnyType>>>>, SETCDR |-> <<2, 2, <<{"pair"}, AnyType>>>>,
     REVERSE |-> <<1, 1, <<List>>>>, LIST_LENGTH |-> <<1, 1, <<List>>>>,
     LIST_STAR |-> <<1, 9, <<AnyType>>>>, APPEND |-> <<0, 9, <<AnyType>>>>,
     NOT |-> <<1, 1, <<AnyType>>>>, NULLP |-> <<1, 1, <<AnyType>>>>, EQV |-> <<2, 2, <<AnyType>>>>,
     PAPPLY |-> <<1, 9, <<AnyType>>>>, PEVAL |-> <<1, 2, <<AnyType, {"env"}>>>>,
     FORCE |-> <<1, 1, <<AnyType>>>>, CONTINUATION |-> <<1, 1, <<AnyType>>>>,
     MKCLOSURE |-> <<1, 2, <<{"pair"}, {"env"}>>>>, DEFP |-> <<1, 2, <<{"sym"}, {"env"}>>>>,
     CURR_ENV |-> <<0, 0, <<AnyType>>>>, INT_ENV |-> <<0, 0, <<AnyType>>>>,
     ERR0 |-> <<1, 9, <<AnyType>>>>]

Globals == "+" :> Proc("ADD") @@ "<" :> Proc("LESS") @@ "cons" :> Proc("CONS")
           @@ "car" :> Proc("CAR") @@ "cdr" :> Proc("CDR") @@ "pair?" :> Proc("PAIRP")
           @@ "set-car!" :> Proc("SETCAR") @@ "set-cdr!" :> Proc("SETCDR")
           @@ "reverse" :> Proc("REVERSE") @@ "length" :> Proc("LIST_LENGTH")
           @@ "list*" :> Proc("LIST_STAR") @@ "append" :> Proc("APPEND") @@ "not" :> Proc("NOT")
           @@ "null?" :> Proc("NULLP") @@ "eqv?" :> Proc("EQV") @@ "defined?" :> Proc("DEFP")
           @@ "apply" :> Proc("PAPPLY") @@ "eval" :> Proc("PEVAL") @@ "force" :> Proc("FORCE")
           @@ "make-closure" :> Proc("MKCLOSURE") @@ "current-environment" :> Proc("CURR_ENV")
           @@ "interaction-environment" :> Proc("INT_ENV")
           @@ "call/cc" :> Proc("CONTINUATION") @@ "error" :> Proc("ERR0") @@ "else" :> T
           @@ "ff" :> <<"foreign", "id">>

\* The names closure.variable, and what must be bound for such a name to stand
\* for a variable of a compiled closure; and those that are such variables.
DotNames == "cl.v" :> {"cl", "cl_xtlang_name"} @@ "cl.w" :> {"cl", "cl_xtlang_name"}
            @@ "x.v" :> {"x", "x_xtlang_name"}
Compiled == {"cl.v"}

----------------------------------------------------------------------------
(* Cells. *)

\* A promise that was forced to an atom is a cell that holds a copy of it.
Type(v) ==
    IF v[1] # "ref" THEN v[1]
    ELSE IF cells[v[2]].type = "atom" THEN cells[v[2]].car[1] ELSE cells[v[2]].type

IsPair(v) == Type(v) = "pair"
IsSym(v) == v[1] = "sym"
IsTrue(v) == v # F

Car(v) == IF v[1] = "ref" THEN cells[v[2]].car ELSE NIL
Cdr(v) == IF v[1] = "ref" THEN cells[v[2]].cdr ELSE NIL
Atom(v) == IF v[1] = "ref" /\ cells[v[2]].type = "atom" THEN Car(v) ELSE v

\* eqv_sc: numbers and procedures are compared by what they are.
Eqv(v, w) == IF Type(v) \in {"int", "proc"} THEN Atom(v) = Atom(w) ELSE v = w

RECURSIVE ListOf(_)
ListOf(v) == IF IsPair(v) THEN <<Car(v)>> \o ListOf(Cdr(v)) ELSE <<>>

RECURSIVE AddressesOf(_)
AddressesOf(v) == IF IsPair(v) THEN <<v[2]>> \o AddressesOf(Cdr(v)) ELSE <<>>

RECURSIVE NthCdr(_, _)
NthCdr(v, i) == IF i = 0 THEN v ELSE NthCdr(Cdr(v), i - 1)

Cell(type, a, d) == [type |-> type, car |-> a, cdr |-> d]

\* get_cell: the address of the i-th cell that is allocated from now on.
New(i) == Ref(Len(cells) + i)

\* The cells of a new list of the values s; the first of them is New(i).
ListCells(s, i) ==
    [j \in DOMAIN s |-> Cell("pair", s[j], IF j = Len(s) THEN NIL ELSE New(i + j))]

\* The cells cs after reverse_in_place of the list with the addresses at.
Reversed(cs, at) ==
    [i \in DOMAIN cs |->
        LET j == SelectInSeq(at, LAMBDA a : a = i)
        IN  IF j = 0 THEN cs[i]
            ELSE [cs[i] EXCEPT !.cdr = IF j = 1 THEN NIL ELSE Ref(at[j - 1])]]

----------------------------------------------------------------------------
(* Environments. *)

\* find_slot_in_env: the frame that binds x, or 0.
RECURSIVE FindSlot(_, _)
FindSlot(e, x) ==
    IF e = 0 THEN 0 ELSE IF x \in DOMAIN envs[e].slots THEN e ELSE FindSlot(envs[e].up, x)

\* Slots for the names xs with the values of s.
Slots(xs, s) ==
    [x \in {xs[i][2] : i \in DOMAIN xs} |-> s[SelectLastInSeq(xs, LAMBDA y : y[2] = x)]]

\* new_frame_in_env: a frame with its first slots.
NewFrame(up, slots) ==
    /\ envs' = Append(envs, [up |-> up, slots |-> slots])
    /\ envir' = Len(envs) + 1

\* set_slot_in_env and new_slot_in_env: a new slot hides an old one.
SetSlot(e, x, v) == envs' = [envs EXCEPT ![e].slots = x :> v @@ @]

----------------------------------------------------------------------------
(* The dump. *)

Calm == UNCHANGED <<input, retcode, limited>>

\* s_save
Save(o, a, c) == dump' = Append(dump, [op |-> o, args |-> a, envir |-> envir, code |-> c])

\* _s_return to the last of some frames: without a frame Eval_Cycle ends.
ReturnTo(frames, v) ==
    /\ value' = v
    /\ IF frames = <<>> THEN op' = "end" /\ UNCHANGED <<args, code, envir, dump>>
       ELSE /\ op' = Last(frames).op /\ args' = Last(frames).args
            /\ code' = Last(frames).code /\ envir' = Last(frames).envir
            /\ dump' = Front(frames)

Return(v) == ReturnTo(dump, v) /\ Calm

\* s_goto, without and with a frame that is saved before.
Goto(o, c) == op' = o /\ code' = c /\ UNCHANGED <<args, value, envir, dump, memory>> /\ Calm
SaveGoto(frame, a, rest, o, c) ==
    Save(frame, a, rest) /\ op' = o /\ code' = c /\ UNCHANGED <<args, value, envir, memory>> /\ Calm

\* Mutant: the list is shared.
Copy_Shared(v) == <<>>

\* list_copy: the values that the cells of the copy hold.  A promise is no
\* list, but its cell is copied as if it were one.
Copy(v) == IF Type(v) = "promise" THEN <<Car(v)>> ELSE ListOf(v)

\* dump_stack_copy: the values of the copied lists, args and code of each frame
\* in turn; where the cells of the k-th copy start; the cells; and the frames.
CopiedLists(frames) ==
    FlattenSeq([j \in DOMAIN frames |-> <<Copy(frames[j].args), Copy(frames[j].code)>>])
Start(lists, k) == 1 + Len(FlattenSeq(SubSeq(lists, 1, k - 1)))
CopiedCells(lists) == FlattenSeq([k \in DOMAIN lists |-> ListCells(lists[k], Start(lists, k))])
CopiedFrames(frames, lists) ==
    LET copied(k, old) == IF lists[k] = <<>> THEN old ELSE New(Start(lists, k))
    IN  [j \in DOMAIN frames |->
            [frames[j] EXCEPT !.args = copied(2 * j - 1, @), !.code = copied(2 * j, @)]]

----------------------------------------------------------------------------
(* Errors. *)

Hook(e, name) == IF FindSlot(e, name) = 0 THEN NIL ELSE envs[FindSlot(e, name)].slots[name]

\* _Error_1, looking for hooks from the frame e: a call of the hook is
\* evaluated in place of what failed, and there is no limit of time from here
\* on.  a: nothing, or the value that is at fault; pre: cells that are new.
Prepare(e, a, pre) ==
    LET hook == Hook(e, "*error-hook*")
        live == Hook(e, "*livecoding-error-hook*")
        n == Len(pre)
        fault == IF hook = NIL /\ a = <<>> THEN <<F>> ELSE a
        quoted == IF fault = <<>> THEN <<>> ELSE ListCells(<<Sym("quote")>> \o fault, n + 1)
        call == <<IF hook = NIL THEN live ELSE hook, Str("message")>>
                \o (IF fault = <<>> THEN <<>> ELSE <<New(n + 1)>>)
                \o (IF hook = NIL THEN <<Num(0)>> ELSE <<>>) IN
    /\ limited' = FALSE
    /\ IF hook # NIL \/ live # NIL
       THEN /\ op' = "EVAL" /\ code' = New(n + Len(quoted) + 1) /\ UNCHANGED args
            /\ cells' = cells \o pre \o quoted \o ListCells(call, n + Len(quoted) + 1)
       ELSE /\ op' = "ERR0" /\ args' = New(n + 1) /\ UNCHANGED code
            /\ cells' = cells \o pre \o ListCells(<<Str("name")>> \o a, n + 1)
    /\ UNCHANGED <<value, input, retcode>>

Error(a) == Prepare(envir, a, <<>>) /\ UNCHANGED <<envir, envs, dump>>

\* The error is only prepared: Eval_Cycle is left, by a return or by a
\* ScmRuntimeError, which both entry points catch.
Leave ==
    /\ op' = "end" /\ limited' = FALSE
    /\ UNCHANGED <<args, code, value, envir, dump, memory, input, retcode>>

\* Nothing follows: the program has ended.
Crash == op' = "crash" /\ UNCHANGED <<args, code, value, envir, dump, memory>> /\ Calm

\* Any other exception: only scheme_load_string catches it.
ThrowStd == IF Requests[Len(done) + 1].kind = "load" THEN Leave ELSE Crash

\* Mutant: the error does not reach the return code.
Err0_Silent == op' = "end" /\ UNCHANGED <<args, code, value, envir, dump, memory, input, limited, retcode>>

\* OP_ERR0 and OP_ERR1; the arguments are printed.
Err0 ==
    /\ retcode' = -1 /\ op' = "end"
    /\ UNCHANGED <<args, code, value, envir, dump, memory, input, limited>>

----------------------------------------------------------------------------
(* The top level. *)

T0Lvl ==
    LET frame(o) == [op |-> o, args |-> NIL, envir |-> 1, code |-> NIL] IN
    /\ dump' = <<frame("T0LVL"), frame("VALUEPRINT"), frame("T1LVL")>>
    /\ envir' = 1 /\ op' = "READ"
    /\ UNCHANGED <<args, code, value, memory>> /\ Calm

\* Mutant: the end of the text is not the end of the request.
EndOfText_Again == "T0LVL"

\* OP_QUIT
EndOfText == "end"

\* OP_READ_INTERNAL, and OP_RDSEXPR with what it calls.
ReadInternal ==
    IF input = <<>> THEN Goto(EndOfText, code)
    ELSE /\ ReturnTo(dump, Head(input)) /\ input' = Tail(input)
         /\ UNCHANGED <<memory, retcode, limited>>

T1Lvl == Goto("EVAL", value)
ValuePrint == Return(value) /\ UNCHANGED memory

----------------------------------------------------------------------------
(* Evaluation and application. *)

\* llvm_check_valid_dot_symbol
ValidDot(x) == x \in DOMAIN DotNames /\ \A y \in DotNames[x] : FindSlot(envir, y) # 0

Eval ==
    LET head == Car(code) IN
    CASE Type(code) = "sym" ->
            LET e == FindSlot(envir, code[2])
            IN  IF e # 0 THEN Return(envs[e].slots[code[2]]) /\ UNCHANGED memory
                ELSE IF ValidDot(code[2]) THEN Return(code) /\ UNCHANGED memory
                ELSE Error(<<code>>)
      [] IsPair(code) ->
            IF IsSym(head) /\ head[2] \in DOMAIN Syntax THEN Goto(Syntax[head[2]], Cdr(code))
            ELSE SaveGoto("E0ARGS", NIL, code, "EVAL", head)
      [] OTHER -> Return(code) /\ UNCHANGED memory

E0Args ==
    IF Type(value) # "macro" THEN Goto("E1ARGS", Cdr(code))
    ELSE /\ Save("DOMACRO", code, NIL) /\ cells' = cells \o ListCells(<<code>>, 1)
         /\ args' = New(1) /\ code' = value /\ op' = "APPLY"
         /\ UNCHANGED <<value, envir, envs>> /\ Calm

\* The value has gone to the front of the arguments.  There is more to
\* evaluate, or the arguments are reversed and the first is what they are for.
MoreArgs(again, expr) ==
    /\ cells' = Append(cells, Cell("pair", value, args))
    /\ Save(again, New(1), Cdr(code)) /\ op' = "EVAL" /\ code' = expr /\ args' = NIL
    /\ UNCHANGED <<value, envir, envs>> /\ Calm

LastArg(next) ==
    \E at \in {<<New(1)[2]>> \o AddressesOf(args)} :
        \E cs \in {Reversed(Append(cells, Cell("pair", value, args)), at)} :
            LET first == cs[Last(at)] IN
            /\ cells' = cs
            /\ code' = first.car /\ args' = first.cdr /\ op' = next
            /\ UNCHANGED <<value, envir, dump, envs>> /\ Calm

E1Args == IF IsPair(code) THEN MoreArgs("E1ARGS", Car(code)) ELSE LastArg("APPLY")

\* A closure: its cell holds the parameters with the body, and the
\* environment.  Too many arguments are ignored.
ApplyClosure ==
    LET params == Car(Car(code))
        names == ListOf(params)
        rest == NthCdr(params, Len(names))
        given == ListOf(args)
        known == SubSeq(names, 1, Len(given))
        slots == Slots(IF Len(given) < Len(names) THEN known ELSE names, given)
        up == Cdr(code)[2] IN
    IF Len(given) < Len(names) \/ ~ (rest = NIL \/ IsSym(rest))
    THEN /\ NewFrame(up, slots) /\ UNCHANGED dump
         /\ Prepare(up, <<IF Len(given) < Len(names) THEN args ELSE rest>>, <<>>)
    ELSE /\ NewFrame(up, IF rest = NIL THEN slots
                         ELSE rest[2] :> NthCdr(args, Len(names)) @@ slots)
         /\ code' = Cdr(Car(code)) /\ args' = NIL /\ op' = "BEGIN"
         /\ UNCHANGED <<value, dump, cells>> /\ Calm

\* dump_stack_continuation_set: the frames are copied again.
Reinstate(k) ==
    \E lists \in {CopiedLists(Car(k))} :
        \E frames \in {CopiedFrames(Car(k), lists)} :
            /\ ReturnTo(frames, Car(args))
            /\ cells' = cells \o CopiedCells(lists)
            /\ UNCHANGED envs /\ Calm

\* llvm_scheme_env_set: a variable of a compiled closure is read, which
\* compiled code may have written, or set, but not to (); #f if there is no such variable.
ApplyDot(x) ==
    IF x \notin Compiled THEN Return(F)
    ELSE IF Car(args) = NIL THEN \E n \in {0, 1} : Return(Num(n)) ELSE Return(T)

\* Any other symbol is an illegal function; for what is no symbol symname
\* throws.  A foreign function returns its first argument, or throws.
Apply ==
    CASE Type(code) = "proc" -> Goto(code[2], code)
      [] Type(code) = "foreign" ->
            IF args = NIL THEN Leave ELSE Return(Car(args)) /\ UNCHANGED memory
      [] Type(code) \in {"closure", "macro", "promise"} -> ApplyClosure
      [] Type(code) = "cont" -> Reinstate(code)
      [] Type(code) = "sym" ->
            IF ValidDot(Atom(code)[2]) THEN ApplyDot(Atom(code)[2]) /\ UNCHANGED memory
            ELSE Error(<<>>)
      [] OTHER -> Leave

DoMacro == Goto("EVAL", value)

\* Return the i-th of the new cells cs.
ReturnNew(cs, i) == cells' = cells \o cs /\ Return(New(i)) /\ UNCHANGED envs

Lambda == ReturnNew(<<Cell("closure", code, Env(envir))>>, 1)
Quote == Return(Car(code)) /\ UNCHANGED memory

\* define and macro: (name . parameters) stands for a lambda.
DefineAs(next) ==
    LET name == Car(code)
        x == IF IsPair(name) THEN Car(name) ELSE name IN
    IF ~ IsSym(x) THEN Error(<<x>>)
    ELSE /\ Save(next, NIL, x) /\ op' = "EVAL"
         /\ code' = IF IsPair(name) THEN New(1) ELSE Car(Cdr(code))
         /\ cells' = IF IsPair(name)
                     THEN cells \o <<Cell("pair", Sym("lambda"), New(2)),
                                     Cell("pair", Cdr(name), Cdr(code))>>
                     ELSE cells
         /\ UNCHANGED <<args, value, envir, envs>> /\ Calm

\* define puts the name into the printed second element of an expression.  It
\* is read through what is no symbol, and inserted after a first character.
Def0 ==
    LET x == Car(code)
        e == Car(Cdr(code)) IN
    CASE IsPair(x) \/ ~ IsPair(e) -> DefineAs("DEF1")
      [] ~ IsPair(x) /\ IsPair(e) /\ ~ IsSym(x) -> Error(<<x>>) \/ ThrowStd \/ Crash
      [] IsSym(x) /\ IsPair(e) ->
            IF Atom(Car(Cdr(e))) = Str("") THEN ThrowStd ELSE DefineAs("DEF1")

Def1 == SetSlot(envir, code[2], value) /\ Return(code) /\ UNCHANGED cells

Macro1 ==
    /\ cells' = [cells EXCEPT ![value[2]].type = "macro"]
    /\ SetSlot(envir, code[2], value) /\ Return(code)

Set0 == SaveGoto("SET1", NIL, Car(code), "EVAL", Car(Cdr(code)))

\* What is no symbol has no name to look for: the global frame is read anywhere.
Set1 ==
    IF ~ IsSym(code) THEN Error(<<>>) \/ Crash
    ELSE LET e == FindSlot(envir, code[2])
         IN  IF e = 0 THEN Error(<<>>) ELSE SetSlot(e, code[2], value) /\ Return(value) /\ UNCHANGED cells

\* The first of the code is evaluated for `next', which gets the rest.
EvalFirst(next) == SaveGoto(next, NIL, Cdr(code), "EVAL", Car(code))

Begin ==
    CASE ~ IsPair(code) -> Return(code) /\ UNCHANGED memory
      [] IsPair(code) /\ Cdr(code) = NIL -> Goto("EVAL", Car(code))
      [] IsPair(code) /\ Cdr(code) # NIL -> EvalFirst("BEGIN")

----------------------------------------------------------------------------
(* The other syntax. *)

If1 == Goto("EVAL", IF IsTrue(value) THEN Car(code) ELSE Car(Cdr(code)))

\* and, or: the value, if it decides or is the last, or the next expression.
Junction(decides, next) ==
    IF decides \/ code = NIL THEN Return(value) /\ UNCHANGED memory ELSE EvalFirst(next)
JunctionStart(unit, next) == IF code = NIL THEN Return(unit) /\ UNCHANGED memory ELSE EvalFirst(next)

Bindings(c) == IF IsSym(Car(c)) THEN Car(Cdr(c)) ELSE Car(c)
Names(bs) == [i \in DOMAIN ListOf(bs) |-> Car(ListOf(bs)[i])]

Let0 ==
    /\ args' = NIL /\ value' = code /\ code' = Bindings(code) /\ op' = "LET1"
    /\ UNCHANGED <<envir, dump, memory>> /\ Calm

\* OP_LET1 and OP_LET1REC: the values of the bindings, as arguments.  Only
\* let looks whether a binding is a list.
Let1(again, end) ==
    LET wellFormed == IsPair(Car(code)) \/ again = "LET1REC" IN
    CASE ~ IsPair(code) -> LastArg(end)
      [] IsPair(code) /\ wellFormed -> MoreArgs(again, Car(Cdr(Car(code))))
      [] IsPair(code) /\ ~ wellFormed ->
            /\ Save(again, New(1), Cdr(code)) /\ UNCHANGED <<envir, envs>>
            /\ Prepare(envir, <<>>, <<Cell("pair", value, args)>>)

\* Mutant: the closure of a named let does not see its own name.
LoopEnv_Outer == envir

\* A named let binds its closure in the frame of its variables.
LoopEnv == Len(envs) + 1

Let2 ==
    \E names \in {Names(Bindings(code))} : \E slots \in {Slots(names, ListOf(args))} :
        IF ~ IsSym(Car(code))
        THEN /\ NewFrame(envir, slots) /\ code' = Cdr(code) /\ args' = NIL /\ op' = "BEGIN"
             /\ UNCHANGED <<value, dump, cells>> /\ Calm
        ELSE IF ~ IsPair(Car(Cdr(code)))
        THEN NewFrame(envir, slots) /\ Prepare(envir, <<>>, <<>>) /\ UNCHANGED dump
        ELSE /\ cells' = cells \o ListCells(names, 1)
                         \o <<Cell("pair", IF names = <<>> THEN NIL ELSE New(1), Cdr(Cdr(code))),
                              Cell("closure", New(Len(names) + 1), Env(LoopEnv))>>
             /\ NewFrame(envir, Car(code)[2] :> New(Len(names) + 2) @@ slots)
             /\ code' = Cdr(Cdr(code)) /\ args' = NIL /\ op' = "BEGIN"
             /\ UNCHANGED <<value, dump>> /\ Calm

Let0Ast ==
    CASE Car(code) = NIL ->
            /\ NewFrame(envir, <<>>) /\ op' = "BEGIN" /\ code' = Cdr(code)
            /\ UNCHANGED <<args, value, dump, cells>> /\ Calm
      [] Car(code) # NIL /\ IsPair(Car(code)) ->
            SaveGoto("LET1AST", Cdr(code), Car(code), "EVAL", Car(Cdr(Car(Car(code)))))
      [] Car(code) # NIL /\ ~ IsPair(Car(code)) ->
            Save("LET1AST", Cdr(code), Car(code)) /\ Prepare(envir, <<>>, <<>>) /\ UNCHANGED <<envir, envs>>

Let1Ast ==
    /\ NewFrame(envir, <<>>) /\ op' = "LET2AST"
    /\ UNCHANGED <<args, code, value, dump, cells>> /\ Calm

Let2Ast ==
    /\ SetSlot(envir, Car(Car(code))[2], value)
    /\ IF IsPair(Cdr(code))
       THEN Save("LET2AST", args, Cdr(code)) /\ op' = "EVAL" /\ code' = Car(Cdr(Car(Cdr(code))))
       ELSE op' = "BEGIN" /\ code' = args /\ UNCHANGED dump
    /\ args' = NIL
    /\ UNCHANGED <<value, envir, cells>> /\ Calm

Let0Rec ==
    /\ NewFrame(envir, <<>>) /\ args' = NIL /\ value' = code /\ code' = Car(code)
    /\ op' = "LET1REC" /\ UNCHANGED <<dump, cells>> /\ Calm

Let2Rec ==
    /\ envs' = [envs EXCEPT ![envir].slots = Slots(Names(Car(code)), ListOf(args)) @@ @]
    /\ code' = Cdr(code) /\ args' = NIL /\ op' = "BEGIN"
    /\ UNCHANGED <<value, envir, dump, cells>> /\ Calm

CondTest(clauses) == SaveGoto("COND1", NIL, clauses, "EVAL", Car(Car(clauses)))

Cond0 == IF IsPair(code) THEN CondTest(code) ELSE Error(<<>>)

\* (test => f) calls f with the value of the test.
Cond1 ==
    LET body == Cdr(Car(code)) IN
    IF IsTrue(value)
    THEN CASE body = NIL -> Return(value) /\ UNCHANGED memory
           [] body # NIL /\ Car(body) # Sym("=>") -> Goto("BEGIN", body)
           [] body # NIL /\ Car(body) = Sym("=>") ->
                IF ~ IsPair(Cdr(body)) THEN Error(<<>>)
                ELSE /\ cells' = cells \o ListCells(<<Sym("quote"), value>>, 1)
                                       \o ListCells(<<Car(Cdr(body)), New(1)>>, 3)
                     /\ op' = "EVAL" /\ code' = New(3)
                     /\ UNCHANGED <<args, value, envir, dump, envs>> /\ Calm
    ELSE IF Cdr(code) = NIL THEN Return(NIL) /\ UNCHANGED memory ELSE CondTest(Cdr(code))

\* A clause of case: a list of data, or else.
Case1 ==
    LET clauses == ListOf(code)
        i == SelectInSeq(clauses, LAMBDA c : \/ ~ IsPair(Car(c))
                                             \/ \E v \in Range(ListOf(Car(c))) : Eqv(v, value)) IN
    CASE i = 0 -> Return(NIL) /\ UNCHANGED memory
      [] i # 0 /\ IsPair(Car(clauses[i])) -> Goto("BEGIN", Cdr(clauses[i]))
      [] i # 0 /\ Car(clauses[i]) = Sym("else") ->
            SaveGoto("CASE2", NIL, Cdr(clauses[i]), "EVAL", Sym("else"))
      [] OTHER -> Error(<<clauses[i]>>)

Case2 == IF IsTrue(value) THEN Goto("BEGIN", code) ELSE Return(NIL) /\ UNCHANGED memory

\* A promise is a closure without parameters.
PromiseCells == <<Cell("pair", NIL, code), Cell("promise", New(1), Env(envir))>>

Delay == ReturnNew(PromiseCells, 2)
C1Stream == ReturnNew(Append(PromiseCells, Cell("pair", value, New(2))), 3)

----------------------------------------------------------------------------
(* Built-in procedures. *)

Arg(i) == Atom(ListOf(args)[i])
ReturnValue(v) == Return(v) /\ UNCHANGED memory
\* An environment as the second argument, or the current one.
EnvArg == IF Cdr(args) = NIL THEN envir ELSE Car(Cdr(args))[2]

ReturnBool(b) == ReturnValue(<<"bool", b>>)

Add == ReturnValue(Num(FoldLeft(LAMBDA s, v : s + Atom(v)[2], 0, ListOf(args))))
Less == ReturnBool(\A i \in 2 .. Len(ListOf(args)) : Arg(i - 1)[2] < Arg(i)[2])
CarOf == ReturnValue(Car(Car(args)))
CdrOf == ReturnValue(Cdr(Car(args)))
PairP == ReturnBool(IsPair(Car(args)))
Not == ReturnBool(~ IsTrue(Car(args)))
NullP == ReturnBool(Car(args) = NIL)
EqvP == ReturnBool(Eqv(Car(args), Car(Cdr(args))))
DefP == ReturnBool(FindSlot(EnvArg, Car(args)[2]) # 0)
CurrEnv == ReturnValue(Env(envir))
IntEnv == ReturnValue(Env(1))

\* The pair is the first cell of the arguments itself.
ConsPair ==
    /\ cells' = [cells EXCEPT ![args[2]].cdr = Car(Cdr(args))]
    /\ Return(args) /\ UNCHANGED envs

SetCar ==
    /\ cells' = [cells EXCEPT ![Car(args)[2]].car = Car(Cdr(args))]
    /\ Return(Car(args)) /\ UNCHANGED envs
SetCdr ==
    /\ cells' = [cells EXCEPT ![Car(args)[2]].cdr = Car(Cdr(args))]
    /\ Return(Car(args)) /\ UNCHANGED envs

ReverseOf ==
    LET s == ListOf(Car(args))
    IN  IF s = <<>> THEN ReturnValue(NIL) ELSE ReturnNew(ListCells(Reverse(s), 1), 1)

ListLength ==
    LET s == ListOf(Car(args))
    IN  IF NthCdr(Car(args), Len(s)) = NIL THEN ReturnValue(Num(Len(s))) ELSE Error(<<Car(args)>>)

\* With one argument the result is the list of that argument.
AppendOf ==
    LET lists == ListOf(args)
        front == FlattenSeq([i \in 1 .. Len(lists) - 1 |-> ListOf(lists[i])])
        new == ListCells(front, 1) IN
    CASE Len(lists) <= 1 -> ReturnValue(args)
      [] Len(lists) > 1 /\ front = <<>> -> ReturnValue(Last(lists))
      [] Len(lists) > 1 /\ front # <<>> ->
            ReturnNew([new EXCEPT ![Len(new)].cdr = Last(lists)], 1)

\* list_star: the last of the list d becomes its tail.  Only the first cell
\* is new, the others are those of d.
StarTail(d) == Car(Ref(Last(AddressesOf(d))))
StarValue(d) == IF Cdr(d) = NIL THEN Car(d) ELSE New(1)
StarCells(d) ==
    LET at == AddressesOf(d)
        n == Len(at)
        first == Cell("pair", Car(d), IF n = 2 THEN StarTail(d) ELSE Cdr(d)) IN
    CASE n <= 1 -> cells
      [] n = 2 -> Append(cells, first)
      [] n > 2 -> Append([cells EXCEPT ![at[n - 1]].cdr = StarTail(d)], first)

ListStar == cells' = StarCells(args) /\ Return(StarValue(args)) /\ UNCHANGED envs

PApply ==
    LET d == Cdr(args) IN
    IF Cdr(d) = NIL /\ Type(Car(d)) \notin List THEN Error(<<Car(d)>>)
    ELSE /\ cells' = StarCells(d) /\ args' = StarValue(d) /\ code' = Car(args) /\ op' = "APPLY"
         /\ UNCHANGED <<value, envir, dump, envs>> /\ Calm

PEval ==
    /\ envir' = EnvArg /\ code' = Car(args) /\ op' = "EVAL"
    /\ UNCHANGED <<args, value, dump, memory>> /\ Calm

MkClosure ==
    LET x == Car(args)
    IN  ReturnNew(<<Cell("closure", IF Car(x) = Sym("lambda") THEN Cdr(x) ELSE x, Env(EnvArg))>>, 1)

\* mk_continuation, with dump_stack_copy.
Continuation ==
    \E lists \in {CopiedLists(dump)} :
        LET i == Len(FlattenSeq(lists)) + 1 IN
        /\ cells' = cells \o CopiedCells(lists)
                         \o <<Cell("cont", CopiedFrames(dump, lists), NIL), Cell("pair", New(i), NIL)>>
        /\ args' = New(i + 1) /\ code' = Car(args) /\ op' = "APPLY"
        /\ UNCHANGED <<value, envir, dump, envs>> /\ Calm

Force ==
    LET p == Car(args) IN
    IF Type(p) # "promise" THEN ReturnValue(p)
    ELSE /\ Save("SAVE_FORCED", NIL, p) /\ code' = p /\ args' = NIL /\ op' = "APPLY"
         /\ UNCHANGED <<value, envir, memory>> /\ Calm

\* The cell of the promise becomes a copy of the value; the links and the
\* colours, which are copied too, are a matter of Treadmill (MayForce).
SaveForced ==
    /\ cells' = [cells EXCEPT ![code[2]] =
                    IF value[1] = "ref" THEN cells[value[2]] ELSE Cell("atom", value, NIL)]
    /\ Return(value) /\ UNCHANGED envs

----------------------------------------------------------------------------
(* Requests and time. *)

Init ==
    /\ session \in Range(Sessions)
    /\ op = "end" /\ args = NIL /\ code = NIL /\ value = NIL /\ envir = 1 /\ dump = <<>>
    /\ cells = session.text /\ envs = <<[up |-> 0, slots |-> Globals]>>
    /\ input = <<>> /\ retcode = 0 /\ limited = FALSE
    /\ steps = 0 /\ late = FALSE /\ running = FALSE /\ done = <<>>

\* Mutant: the stack of the last request is kept.
FreshDump_Kept == dump

\* dump_stack_reset
FreshDump == <<>>

\* scheme_load_string, or scheme_call of what a global variable holds.
Begins(r) ==
    \/ /\ r.kind = "load"
       /\ input' = r.forms /\ op' = "T0LVL" /\ UNCHANGED <<args, code, cells>>
    \/ /\ r.kind = "call"
       /\ cells' = cells \o ListCells(r.args, 1)
       /\ args' = IF r.args = <<>> THEN NIL ELSE New(1)
       /\ code' = envs[1].slots[r.func] /\ op' = "APPLY" /\ UNCHANGED input

Request ==
    /\ ~ running /\ Len(done) < Len(Requests)
    /\ running' = TRUE
    /\ Begins(Requests[Len(done) + 1])
    /\ dump' = FreshDump /\ envir' = 1 /\ retcode' = 0 /\ limited' = TRUE
    /\ steps' = 0 /\ late' = FALSE
    /\ UNCHANGED <<value, envs, session, done>>

\* What is printed of a value: the atoms only.
Shown(v) == IF IsPair(v) THEN <<"pair">> ELSE Atom(v)

\* Eval_Cycle has returned; the caller looks at the return code and the value.
Finish ==
    /\ running /\ op = "end"
    /\ running' = FALSE
    /\ done' = Append(done, [value |-> Shown(value), retcode |-> retcode, late |-> late])
    /\ limited' = FALSE
    /\ UNCHANGED <<registers, memory, input, retcode, session, steps, late>>

MayBeLate == Len(done) + 1 \in session.slow

\* The clock passes the end of the time that the request has.
Tick ==
    /\ running /\ MayBeLate /\ ~ late
    /\ late' = TRUE
    /\ UNCHANGED <<registers, memory, input, retcode, limited, session, steps, running, done>>

Evaluates == running /\ op \notin {"end", "crash"}

\* The error is prepared, and Eval_Cycle returns.
TimeUp ==
    /\ Evaluates /\ late /\ limited
    /\ Leave
    /\ UNCHANGED <<session, steps, late, running, done>>

TypesAt(types, i) == IF i > Len(types) THEN Last(types) ELSE types[i]

\* The arguments of a built-in procedure have their number and their types.
Fit ==
    op \in DOMAIN BuiltIn =>
        /\ Len(ListOf(args)) \in BuiltIn[op][1] .. BuiltIn[op][2]
        /\ \A i \in DOMAIN ListOf(args) : Type(ListOf(args)[i]) \in TypesAt(BuiltIn[op][3], i)

\* A turn of the loop of Eval_Cycle.
Turn ==
    /\ running /\ ~ (late /\ limited)
    /\ MayBeLate /\ ~ late => steps < MaxSteps
    /\ steps' = IF MayBeLate THEN steps + 1 ELSE 0
    /\ UNCHANGED <<session, late, running, done>>

BadArguments == Evaluates /\ Turn /\ ~ Fit /\ Error(<<code>>)

Op(name) == op = name /\ Turn /\ Fit

TopLevel ==
    \/ (Op("T0LVL") /\ T0Lvl) \/ (Op("READ") /\ ReadInternal)
    \/ (Op("T1LVL") /\ T1Lvl) \/ (Op("VALUEPRINT") /\ ValuePrint)

Evaluation ==
    \/ (Op("EVAL") /\ Eval) \/ (Op("E0ARGS") /\ E0Args) \/ (Op("E1ARGS") /\ E1Args)
    \/ (Op("APPLY") /\ Apply) \/ (Op("DOMACRO") /\ DoMacro) \/ (Op("LAMBDA") /\ Lambda)
    \/ (Op("QUOTE") /\ Quote) \/ (Op("DEF0") /\ Def0) \/ (Op("DEF1") /\ Def1)
    \/ (Op("MACRO0") /\ DefineAs("MACRO1")) \/ (Op("MACRO1") /\ Macro1)
    \/ (Op("SET0") /\ Set0) \/ (Op("SET1") /\ Set1) \/ (Op("BEGIN") /\ Begin)

Binders ==
    \/ (Op("LET0") /\ Let0) \/ (Op("LET1") /\ Let1("LET1", "LET2")) \/ (Op("LET2") /\ Let2)
    \/ (Op("LET0AST") /\ Let0Ast) \/ (Op("LET1AST") /\ Let1Ast) \/ (Op("LET2AST") /\ Let2Ast)
    \/ (Op("LET0REC") /\ Let0Rec) \/ (Op("LET1REC") /\ Let1("LET1REC", "LET2REC"))
    \/ (Op("LET2REC") /\ Let2Rec)

Choice ==
    \/ (Op("IF0") /\ EvalFirst("IF1")) \/ (Op("IF1") /\ If1)
    \/ (Op("COND0") /\ Cond0) \/ (Op("COND1") /\ Cond1)
    \/ (Op("AND0") /\ JunctionStart(T, "AND1")) \/ (Op("AND1") /\ Junction(value = F, "AND1"))
    \/ (Op("OR0") /\ JunctionStart(F, "OR1")) \/ (Op("OR1") /\ Junction(IsTrue(value), "OR1"))
    \/ (Op("CASE0") /\ EvalFirst("CASE1")) \/ (Op("CASE1") /\ Case1) \/ (Op("CASE2") /\ Case2)

Promise ==
    \/ (Op("DELAY") /\ Delay) \/ (Op("FORCE") /\ Force) \/ (Op("SAVE_FORCED") /\ SaveForced)
    \/ (Op("C0STREAM") /\ EvalFirst("C1STREAM")) \/ (Op("C1STREAM") /\ C1Stream)

ListProcedure ==
    \/ (Op("CONS") /\ ConsPair) \/ (Op("CAR") /\ CarOf) \/ (Op("CDR") /\ CdrOf)
    \/ (Op("SETCAR") /\ SetCar) \/ (Op("SETCDR") /\ SetCdr) \/ (Op("REVERSE") /\ ReverseOf)
    \/ (Op("LIST_LENGTH") /\ ListLength) \/ (Op("LIST_STAR") /\ ListStar)
    \/ (Op("APPEND") /\ AppendOf)

Procedure ==
    \/ (Op("ADD") /\ Add) \/ (Op("LESS") /\ Less) \/ (Op("PAIRP") /\ PairP) \/ (Op("NOT") /\ Not)
    \/ (Op("NULLP") /\ NullP) \/ (Op("EQV") /\ EqvP) \/ (Op("DEFP") /\ DefP)
    \/ (Op("PAPPLY") /\ PApply) \/ (Op("PEVAL") /\ PEval) \/ (Op("MKCLOSURE") /\ MkClosure)
    \/ (Op("CURR_ENV") /\ CurrEnv) \/ (Op("INT_ENV") /\ IntEnv)
    \/ (Op("CONTINUATION") /\ Continuation) \/ (Op("ERR0") /\ Err0)

Operation == TopLevel \/ Evaluation \/ Binders \/ Choice \/ Promise \/ ListProcedure \/ Procedure

Interpreter == Request \/ Finish \/ TimeUp \/ BadArguments \/ Operation

Next == Tick \/ Interpreter

\* The thread of the process runs, and so does the clock.
Spec == Init /\ [][Next]_vars /\ WF_vars(Interpreter) /\ WF_vars(Tick)

----------------------------------------------------------------------------
(* Properties. *)

Expected(i) == session.expect[i]

\* Every request that is not late gives what the language says, however the
\* requests before it ended: in time, with an error or in the middle of any
\* operation; also when it goes on with what an earlier request left in a
\* continuation, more than once.
Correct ==
    \A i \in DOMAIN done :
        ~ done[i].late /\ Expected(i) # Fails =>
            done[i].retcode = 0 /\ done[i].value = Expected(i)

\* A request that raises an error outside any catch fails (init.xtm: "If used
\* outside a (catch ...), reverts to (error "message)").
ErrorsReported ==
    \A i \in DOMAIN done :
        ~ done[i].late /\ Expected(i) = Fails => done[i].retcode = -1

\* The values that a list in a frame holds, with the cells cs.
RECURSIVE Held(_, _)
Held(cs, v) ==
    IF v[1] # "ref" THEN <<v>>
    ELSE LET c == cs[v[2]]
         IN  IF c.type = "pair" THEN <<c.car>> \o Held(cs, c.cdr) ELSE <<v>>

\* The frames of a continuation never change after it was made, although the
\* evaluator reverses argument lists in place and continues from the frames.
ContinuationsStable ==
    [][\A i \in DOMAIN cells : cells[i].type = "cont" =>
          \A j \in DOMAIN cells[i].car :
              LET frame == cells[i].car[j]
              IN  /\ cells'[i] = cells[i]
                  /\ Held(cells', frame.args) = Held(cells, frame.args)
                  /\ Held(cells', frame.code) = Held(cells, frame.code)]_cells

\* Once its time is up, the next step of a request is its last.  Not so when an
\* error was caught before: the time is not limited any more.
TimeLimit == [][late /\ running /\ op # "end" => op' = "end"]_vars

\* Text is read only by the request that brought it: when the request is
\* over, the string is deleted.
ReadsOwnText ==
    [][running => Requests[Len(done) + 1].kind = "load"]_input

\* Every request ends: programs that end by themselves, programs that fail,
\* and loops because of the limit of time.
Ends == running ~> ~ running
=============================================================================
