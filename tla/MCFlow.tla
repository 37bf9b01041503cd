--------------------------------- MODULE MCFlow ---------------------------------
(* Instances of Flow for TLC: all the programs of a shape.  The program    *)
(* defines two workflows and has two statements of interest; "task" has    *)
(* one and a return, "sub" and the blocks are chosen from a few.           *)
EXTENDS Flow

Literal(kind) == [part |-> "literal", kind |-> kind]
Name(name) == [part |-> "name", name |-> name]
Await(name, args, try) == [part |-> "await", name |-> name, args |-> args, try |-> try]

DeclareAs(name, type, parts) == [do |-> "declare", name |-> name, type |-> type, parts |-> parts]
DefineOf(name) == [do |-> "define", name |-> name, parts |-> << >>]
AssignTo(name, parts) == [do |-> "assign", name |-> name, parts |-> parts]
Do(do, parts) == [do |-> do, parts |-> parts]
IfElse(branches, else) ==
  [do |-> "if", parts |-> <<Literal("boolean")>>, branches |-> branches, else |-> else]
RepeatOf(block) == [do |-> "repeat", block |-> block, parts |-> << >>]

DoDelay == Do("delay", <<Literal("duration")>>)
DoBreak == Do("break", << >>)
DoReturn == Do("return", <<Literal("integer")>>)

(* task takes an integer and returns one; sub does neither.                *)
Signatures ==
  [w \in {"task", "sub"} |->
     IF w = "task" THEN [inputs |-> <<[name |-> "n", kind |-> "integer"]>>, result |-> "integer"]
     ELSE [inputs |-> << >>, result |-> "void"]]

MainStatements ==
  << Do("expression", <<Await("task", <<"x">>, FALSE)>>),
    Do("expression", <<Await("task", <<"x">>, TRUE), Await("sub", << >>, FALSE)>>),
    DeclareAs("r", "integer", <<Await("task", <<"x">>, FALSE)>>),
    RepeatOf("outer"),
    DeclareAs("x", "integer", << >>),
    Do("expression", <<Await("x", << >>, FALSE)>>),
    Do("expression", <<Await("task", << >>, TRUE)>>) >>

LastStatements == <<DoDelay, RepeatOf("outer"), Do("expression", <<Await("sub", << >>, TRUE)>>)>>

OuterBlocks ==
  << <<Do("expression", <<Await("task", <<"x">>, TRUE)>>), DoBreak>>,
    <<DeclareAs("y", "integer", << >>), IfElse(<<"inner">>, None)>> >>

TaskStatements ==
  << Do("expression", <<Await("sub", << >>, FALSE)>>),
    Do("expression", <<Await("sub", << >>, TRUE), Name("n")>>),
    DeclareAs("r", "reply", <<Await("req", << >>, TRUE)>>),
    RepeatOf("inner"),
    IfElse(<<"inner">>, None) >>

SubBodies ==
  << <<DoDelay>>, <<DoDelay, Do("raise", <<Literal("string")>>)>>,
    <<DeclareAs("z", "integer", <<Name("n")>>), DoDelay>>, <<DoReturn>> >>

InnerBlocks ==
  << <<DoReturn>>, <<DoBreak>>, <<DoDelay>>,
    <<DeclareAs("z", "integer", << >>), DoDelay>>,
    <<Do("expression", <<Await("sub", << >>, TRUE)>>), DoReturn>>,
    <<AssignTo("x", <<Literal("string")>>), IfElse(<<"leaf">>, "leaf")>> >>

Leaves == << <<DoReturn>>, <<DoBreak, DoDelay>>, <<Do("expression", <<Literal(None)>>)>> >>

(* A program is told by its choices from the above; one that would not use *)
(* a block has the first of them.                                          *)
SomePrograms ==
  LET choices == [main : DOMAIN MainStatements, last : DOMAIN LastStatements,
                  outer : DOMAIN OuterBlocks, task : DOMAIN TaskStatements,
                  sub : DOMAIN SubBodies, inner : DOMAIN InnerBlocks, leaf : DOMAIN Leaves]
  IN {p \in choices : /\ p.main > 4 => p.task = 1 /\ p.sub = 1 /\ p.inner = 1 /\ p.last = 1
                      /\ p.main # 4 /\ p.last # 2 => p.outer = 1
                      /\ p.inner # 6 => p.leaf = 1}

(* Programs that break out of a repeat, and not otherwise.                 *)
LoopPrograms == {p \in SomePrograms : p.main = 4 /\ p.outer = 2 /\ p.inner \in {2, 6}}

BodyOf(p, block) ==
  CASE block = "main"  -> <<DefineOf("task"), DefineOf("sub"), DeclareAs("x", "integer", << >>),
                            DeclareAs("req", "request", << >>), MainStatements[p.main],
                            LastStatements[p.last]>>
    [] block = "outer" -> OuterBlocks[p.outer]
    [] block = "task"  -> <<TaskStatements[p.task], DoReturn>>
    [] block = "sub"   -> SubBodies[p.sub]
    [] block = "inner" -> InnerBlocks[p.inner]
    [] block = "leaf"  -> Leaves[p.leaf]
=============================================================================
