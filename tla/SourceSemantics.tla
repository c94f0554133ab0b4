-------------------------- MODULE SourceSemantics ---------------------------
(***************************************************************************)
(* What a statement of the language means: an abstract machine that runs a *)
(* statement tree directly.  Its state is the sequence of what is left to  *)
(* do.  Data is abstracted to events: straight-line actions, choices that  *)
(* go either way, and the two ways in which a function ends.               *)
(***************************************************************************)
EXTENDS Naturals, Sequences, SequencesExt, Expressions

VARIABLES
  rest,   \* what is left to run, in the order in which it runs
  result  \* running, returned or failed

sourceVars == <<rest, result>>

Todo(op, arg)         == [op |-> op, arg |-> arg]
Choice(tag, yes, no)  == Todo("choose", [tag |-> tag, yes |-> yes, no |-> no])
Event(tag)            == Todo("do", tag)
Fail(message)         == Todo("fail", message)

Events == {"do", "choose", "fail", "return"}

-----------------------------------------------------------------------------
(* The meaning of compound things, one level at a time.                    *)

Operand(arg) == <<Todo("expr", arg.expr), Todo("print", arg.depth)>>

StatementMeaning(s) ==
  LET value == Todo("expr", s.expr)
  IN  CASE s.kind = "expression"  -> <<value>>
        [] s.kind = "declaration" -> <<value, Event(s.var)>>
        [] s.kind = "dealloc"     -> <<value, Event("free data"), Event("free array")>>
        [] s.kind = "return"      -> <<value, Todo("return", "")>>
        [] s.kind = "block"       -> [i \in 1..Len(s.body) |-> Todo("stmt", s.body[i])]
        [] s.kind = "if"          ->
             <<value, Choice("if", <<Todo("stmt", s.then)>>,
                             [i \in 1..Len(s.else) |-> Todo("stmt", s.else[i])])>>
        [] s.kind = "while"       ->
             <<value, Choice("while", <<Todo("stmt", s.body), Todo("stmt", s)>>, <<>>)>>
        [] s.kind = "for"         -> <<Todo("stmt", s.init), Todo("for", s)>>
        [] s.kind = "print"       ->
             FlattenSeq([i \in 1..Len(s.args) |-> Operand(s.args[i])])
               \o (IF s.ln THEN <<Event("newline")>> ELSE <<>>)

ForMeaning(s) ==
  <<Todo("expr", s.expr),
    Choice("for", <<Todo("stmt", s.body), Todo("expr", s.step), Todo("for", s)>>, <<>>)>>

\* Effects that cannot be seen from outside are left out.
EffectMeaning(e) ==
  CASE e.op = "do"     -> <<Event(e.tag)>>
    [] e.op = "check"  -> <<Choice(e.tag, <<Fail(e.tag)>>, <<>>)>>
    [] e.op = "gcd"    -> <<Event("gcd arguments")>>
    [] e.op = "lambda" -> <<>>

\* An array prints as [e, ..., e]; the elements of depth d are printed alike.
PrintMeaning(d) ==
  IF d = 0 THEN <<Event("value")>>
  ELSE <<Event("open"), Choice("empty", <<>>, <<Todo("elements", d - 1)>>), Event("close")>>

ElementsMeaning(d) ==
  <<Choice("more", <<Todo("print", d), Event("comma"), Event("space"), Todo("elements", d)>>,
                   <<Todo("print", d)>>)>>

Meaning(t) ==
  CASE t.op = "stmt"     -> StatementMeaning(t.arg)
    [] t.op = "for"      -> ForMeaning(t.arg)
    [] t.op = "expr"     -> IF t.arg = <<>> THEN <<>>
                            ELSE EffectMeaning(Head(t.arg)) \o <<Todo("expr", Tail(t.arg))>>
    [] t.op = "print"    -> PrintMeaning(t.arg)
    [] t.op = "elements" -> ElementsMeaning(t.arg)
    [] t.op = "end"      -> IF t.arg = "nonvoid"
                            THEN <<Fail(MissingReturn)>>
                            ELSE <<Todo("return", "")>>

-----------------------------------------------------------------------------
(* The machine.                                                            *)

AtEvent == result = "running" /\ Head(rest).op \in Events

Start(kind, body) ==
  /\ rest' = <<Todo("stmt", body), Todo("end", kind)>>
  /\ result' = "running"

Unfold ==
  /\ result = "running"
  /\ ~AtEvent
  /\ rest' = Meaning(Head(rest)) \o Tail(rest)
  /\ UNCHANGED result

Perform(tag) ==
  /\ AtEvent
  /\ Head(rest).op = "do"
  /\ Head(rest).arg = tag
  /\ rest' = Tail(rest)
  /\ UNCHANGED result

Choose(tag, yes) ==
  /\ AtEvent
  /\ Head(rest).op = "choose"
  /\ Head(rest).arg.tag = tag
  /\ rest' = (IF yes THEN Head(rest).arg.yes ELSE Head(rest).arg.no) \o Tail(rest)
  /\ UNCHANGED result

Stop(op, how) ==
  /\ AtEvent
  /\ Head(rest).op = op
  /\ rest' = <<>>
  /\ result' = how
=============================================================================
