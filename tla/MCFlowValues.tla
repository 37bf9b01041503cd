----------------------------- MODULE MCFlowValues -----------------------------
(* Instances of FlowValues for TLC: the statements of programs over a few  *)
(* variables of each kind.                                                 *)
EXTENDS FlowValues

Flat(seqs) == FoldLeft(LAMBDA all, s : all \o s, << >>, seqs)

Nothing == <<[expr |-> "none"]>>
Literal(type, value) == <<[expr |-> "literal", type |-> type, value |-> value]>>
Path(path) == <<[expr |-> "path", path |-> path]>>
Dict(keys, members) == Flat(members) \o <<[expr |-> "dictionary", keys |-> keys]>>
List(members) == Flat(members) \o <<[expr |-> "array", size |-> Len(members)]>>
CallOf(path, args) ==
  <<[expr |-> "callable", path |-> path]>> \o Flat(args)
    \o <<[expr |-> "call", path |-> path, names |-> [i \in DOMAIN args |-> Unnamed]]>>
BinaryOf(left, op, right) == left \o right \o <<[expr |-> "binary", op |-> op]>>
UnaryOf(op, operand) == operand \o <<[expr |-> "unary", op |-> op]>>
IsOf(operand, type) == operand \o <<[expr |-> "is", type |-> type]>>

DeclareOf(type, name, value) == [do |-> "declare", type |-> type, name |-> name, value |-> value]
AssignOf(path, value) == [do |-> "assign", value |-> Path(path) \o value]
Do(do, value) == [do |-> do, value |-> value]
AskOf(type, name, value) == [do |-> "ask", type |-> type, name |-> name, value |-> value]
CallWorkflow(type, name, args) ==
  [do |-> "call", workflow |-> "f", type |-> type, name |-> name,
   names |-> [i \in DOMAIN args |-> Unnamed], args |-> Flat(args)]

a == Path(<<"a">>)
d == Path(<<"d">>)
s == Path(<<"s">>)

MCPlaceholders == "{1}" :> 1

MCWorkflow ==
  "f" :> [inputs |-> <<[name |-> "n", type |-> "integer"], [name |-> "d", type |-> "dictionary"]>>,
          result |-> "integer"]

MCStatements ==
  { DeclareOf("integer", "a", Nothing), DeclareOf("integer", "b", BinaryOf(a, "/", a)),
    DeclareOf("integer", "c", UnaryOf("+", a)), DeclareOf("integer", "b", d),
    DeclareOf("string", "s", Nothing), DeclareOf("string", "t", Literal("string", "k")),
    DeclareOf("string", "t", CallOf(<<"str_format">>, <<Literal("string", "{1}"), d>>)),
    DeclareOf("boolean", "o", BinaryOf(Path(<<"t">>), "in", d)),
    DeclareOf("boolean", "o", IsOf(d, "dictionary")),
    DeclareOf("dictionary", "d", Dict(<<"k", "l">>, <<Literal("boolean", TRUE), List(<<a>>)>>)),
    DeclareOf("action", "q", d), DeclareOf("dictionary", "e", Path(<<"d", "m">>)),
    DeclareOf("array", "l", List(<<d, Literal("duration", 1)>>)),
    DeclareOf("array", "l", Nothing),
    AssignOf(<<"a">>, Literal("real", 3)), AssignOf(<<"n">>, Literal("integer", 2)),
    AssignOf(<<"s">>, Literal("string", "x")), AssignOf(<<"l">>, List(<<Path(<<"l">>), a>>)),
    AssignOf(<<"d", "k">>, Literal("boolean", FALSE)),
    Do("expression", CallOf(<<"d", "insert">>, <<Path(<<"t">>), Path(<<"l">>)>>)),
    Do("expression", CallOf(<<"d", "insert">>, <<Literal("string", "m"), d>>)),
    Do("expression", CallOf(<<"d", "insert">>, <<Literal("string", "m"), Dict(<<"i">>, <<a>>)>>)),
    Do("expression", CallOf(<<"println">>, <<Literal("string", "{1}"), Path(<<"l">>)>>)),
    Do("delay", Literal("duration", 1)), Do("delay", a), Do("condition", BinaryOf(a, "==", Literal("real", 0))), Do("condition", d),
    Do("expression", BinaryOf(a, "<", d)),
    CallWorkflow("integer", "r", <<a, d>>), CallWorkflow("dictionary", "r", <<a, d>>),
    CallWorkflow("integer", "r", <<d, a>>), CallWorkflow("integer", "a", <<a, d>>),
    Do("return", Path(<<"n">>)), Do("return", BinaryOf(Path(<<"n">>), "+", a)),
    Do("return", s), Do("raise", s), Do("raise", a), Do("expression", CallOf(<<"panic">>, <<s>>)),
    AskOf("action_reply", "p", Path(<<"q">>)) }
===============================================================================
