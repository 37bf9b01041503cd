---------------------------------- MODULE Flow ----------------------------------
(***************************************************************************)
(* The interpreter of ez.flow: one coroutine tree that evaluates a         *)
(* program statement by statement, with workflows and requests that are    *)
(* awaited under a timeout.                                                *)
(*                                                                         *)
(* A program has blocks: "main", the bodies of its workflows, named like   *)
(* them, and the blocks of its statements.  The expression of a statement  *)
(* is a sequence of parts, literals, names and awaits, evaluated in order; *)
(* more than one part make an array.  Of a value only the kind is kept,    *)
(* and conditions are free.  frames is the stack of suspended coroutines,  *)
(* scopes the EvaluationScope that they share.  Under an await that times  *)
(* out, and under an exception, frames are destroyed from the innermost    *)
(* outwards; a block's scope guard pops a scope, a call's frame does not.  *)
(*                                                                         *)
(* An awaited task that ends before it ever suspends resumes its awaiter   *)
(* inside when_any's start_tasks, which then goes on in a frame that is    *)
(* gone: status deadFrame, after which nothing is known.                   *)
(*                                                                         *)
(* A definition without a comment that precedes another one is a variant   *)
(* of it with a plausible mistake; the README's table of mutants says      *)
(* which property finds it.                                                *)
(***************************************************************************)
EXTENDS FlowScopes

CONSTANTS
  Programs,     (* the programs                                            *)
  Body(_, _),   (* the statements of a block of a program                  *)
  Signature,    (* the inputs and the result of each workflow              *)
  MaxLoop       (* options.max_loop_count                                  *)

ASSUME FlowAssumption == MaxLoop \in Nat

VARIABLES
  program,      (* the program under evaluation, chosen at the start       *)
  scopes,       (* the interpreter's evaluation_scope                      *)
  frames,       (* the coroutine frames, the outermost first               *)
  status,       (* of the evaluation                                       *)
  target,       (* while frames are destroyed: how many of them will stay  *)
  cut           (* history: whether the frame of a call was destroyed      *)

vars == <<program, scopes, frames, status, target, cut>>

Workflows == DOMAIN Signature

(* at is the number of scopes when the frame's own scope, if it has one,   *)
(* had been pushed.                                                        *)
BlockFrame(kind, type, block, at) ==
  [kind |-> kind, at |-> at, type |-> type, block |-> block, pc |-> 1, got |-> << >>]

RepeatFrame(block, at) == [kind |-> "repeat", at |-> at, block |-> block, left |-> MaxLoop]

CallFrame(workflow, at) == [kind |-> "call", at |-> at, workflow |-> workflow]

AwaitFrame(try, at) ==
  [kind |-> "await", at |-> at, try |-> try, suspended |-> FALSE, result |-> None]

Leaf(kind, at) == [kind |-> kind, at |-> at]

Init ==
  /\ program \in Programs
  /\ scopes = BaseScope
  /\ frames = <<BlockFrame("program", "Function", "main", 1)>>
  /\ status = "running"
  /\ target = 0
  /\ cut = FALSE

------------------------------------------------------------------------------
(* Helpers                                                                 *)

Top == Last(frames)

Running(kind) == status = "running" /\ Top.kind \in kind

Blocks == {"program", "block"}

Statements == Body(program, Top.block)

Statement == Statements[Top.pc]

Ending == Current(scopes).policy # "Stay"

(* The block on top is between two statements, and none is left or may run.*)
BlockEnds == Top.got = << >> /\ (Ending \/ Top.pc > Len(Statements))

(* The value of the statement's expression, once its parts are evaluated.  *)
Value == CASE Top.got = << >>   -> "void"
           [] Len(Top.got) = 1  -> Top.got[1]
           [] OTHER             -> "array"

(* What a constructor makes of its argument; None if it refuses it.        *)
Construct(type, kind) ==
  CASE kind \in {"void", type}                 -> type
    [] type = "reply" /\ kind = "error"        -> "error"
    [] OTHER                                   -> None

NextStatement == [Top EXCEPT !.pc = @ + 1, !.got = << >>]

(* The block on top goes on to its next statement, with more frames on it. *)
Advance(above) == frames' = Append(Front(frames), NextStatement) \o above

(* All awaits suspend with the frames above them.                          *)
Suspend(stack) ==
  [i \in DOMAIN stack |->
     IF stack[i].kind = "await" THEN [stack[i] EXCEPT !.suspended = TRUE] ELSE stack[i]]

Awaits == {i \in DOMAIN frames : frames[i].kind = "await"}

(* An exception: it leaves all frames, and Engine::eval catches it.  If it *)
(* leaves a task that an await has just started, the await's frame dies.   *)
Throw ==
  /\ IF Awaits # {} /\ ~frames[Max(Awaits)].suspended
     THEN status' = "deadFrame"
     ELSE status' = "unwinding"
  /\ target' = 0
  /\ UNCHANGED <<program, scopes, frames, cut>>

------------------------------------------------------------------------------
(* The parts of an expression                                              *)

Got(kind) == frames' = [frames EXCEPT ![Len(frames)].got = Append(@, kind)]

(* A declaration of a name that the current scope has, or an assignment to *)
(* one that no scope has, is refused before its expression is evaluated.   *)
Refused ==
  \/ Statement.do \in {"declare", "define"} /\ Statement.name \in DOMAIN Current(scopes).names
  \/ Statement.do = "assign" /\ FindEntity(scopes, Statement.name) = None

RefuseStatement ==
  /\ Running(Blocks)
  /\ ~BlockEnds
  /\ Top.got = << >> /\ Refused
  /\ Throw

InStatement ==
  /\ Running(Blocks)
  /\ ~BlockEnds
  /\ Top.got = << >> => ~Refused

Part == Statement.parts[Len(Top.got) + 1]

Eval(kind) ==
  /\ InStatement
  /\ Len(Top.got) < Len(Statement.parts)
  /\ Part.part = kind

(* A literal stands for any expression of operators, whose members may be  *)
(* missing: that is an exception.                                          *)
EvalLiteral ==
  /\ Eval("literal")
  /\ IF Part.kind = None
     THEN Throw
     ELSE Got(Part.kind) /\ UNCHANGED <<program, scopes, status, target, cut>>

EvalName ==
  /\ Eval("name")
  /\ IF FindEntity(scopes, Part.name) = None
     THEN Throw
     ELSE Got(FindEntity(scopes, Part.name)) /\ UNCHANGED <<program, scopes, status, target, cut>>

Arguments == [k \in DOMAIN Part.args |-> FindEntity(scopes, Part.args[k])]

(* An awaitable that is not declared, or not one; an undeclared argument.  *)
AwaitNothing ==
  /\ Eval("await")
  /\ \/ FindEntity(scopes, Part.name) \notin {"workflow", "request"}
     \/ \E k \in DOMAIN Part.args : Arguments[k] = None
  /\ Throw

Awaited(kind) ==
  /\ Eval("await")
  /\ FindEntity(scopes, Part.name) = kind
  /\ \A k \in DOMAIN Part.args : Arguments[k] # None

(* The arguments are not those that the workflow declares: an exception    *)
(* from a task that the await has just started.                            *)
RefuseCall ==
  /\ Awaited("workflow")
  /\ Arguments # [k \in DOMAIN Signature[Part.name].inputs |->
                            Signature[Part.name].inputs[k].kind]
  /\ status' = "deadFrame"
  /\ UNCHANGED <<program, scopes, frames, target, cut>>

(* A workflow gets a function scope with its arguments, its body another.  *)
StartCall ==
  LET inputs == Signature[Part.name].inputs
      names  == {inputs[k].name : k \in DOMAIN inputs}
      bound  == [n \in names |-> LET k == CHOOSE k \in DOMAIN inputs : inputs[k].name = n
                                 IN inputs[k].kind]
      called == Push(scopes, "Function")
  IN /\ Awaited("workflow")
     /\ Arguments = [k \in DOMAIN inputs |-> inputs[k].kind]
     /\ scopes' = Push([called EXCEPT ![Len(called)].names = bound], "Local")
     /\ frames' = frames \o <<AwaitFrame(Part.try, Len(scopes)),
                              CallFrame(Part.name, Len(scopes) + 1),
                              BlockFrame("block", "Local", Part.name, Len(scopes) + 2)>>
     /\ UNCHANGED <<program, status, target, cut>>

(* The delegate's task suspends.                                           *)
StartRequest ==
  /\ Awaited("request")
  /\ frames' = Suspend(frames \o <<AwaitFrame(Part.try, Len(scopes)),
                                   Leaf("request", Len(scopes))>>)
  /\ UNCHANGED <<program, scopes, status, target, cut>>

(* The delegate's task ends, or fails, without suspending.                 *)
AnswerAtOnce ==
  /\ Awaited("request")
  /\ status' = "deadFrame"
  /\ UNCHANGED <<program, scopes, frames, target, cut>>

------------------------------------------------------------------------------
(* The statements                                                          *)

Execute(do) ==
  /\ InStatement
  /\ Len(Top.got) = Len(Statement.parts)
  /\ Statement.do = do

Declare ==
  /\ Execute("declare")
  /\ IF Construct(Statement.type, Value) = None
     THEN Throw
     ELSE /\ scopes' = Add(scopes, Statement.name, Construct(Statement.type, Value))
          /\ Advance(<< >>)
          /\ UNCHANGED <<program, status, target, cut>>

Define ==
  /\ Execute("define")
  /\ scopes' = Add(scopes, Statement.name, "workflow")
  /\ Advance(<< >>)
  /\ UNCHANGED <<program, status, target, cut>>

(* The outcome of an assignment is ignored, and it changes no kind; an     *)
(* expression alone has no effect of its own.                              *)
Assign ==
  /\ Execute("assign") \/ Execute("expression")
  /\ Advance(<< >>)
  /\ UNCHANGED <<program, scopes, status, target, cut>>

Delay ==
  /\ Execute("delay")
  /\ IF Value # "duration"
     THEN Throw
     ELSE /\ frames' = Suspend(Append(Front(frames), NextStatement)
                                \o <<Leaf("delay", Len(scopes))>>)
          /\ UNCHANGED <<program, scopes, status, target, cut>>

Return ==
  /\ Execute("return")
  /\ scopes' = ReturnValue(scopes, Value)
  /\ Advance(<< >>)
  /\ UNCHANGED <<program, status, target, cut>>

Break ==
  /\ Execute("break")
  /\ scopes' = BreakLoop(scopes)
  /\ Advance(<< >>)
  /\ UNCHANGED <<program, status, target, cut>>

Raise ==
  /\ Execute("raise")
  /\ IF Value \notin {"string", "error"}
     THEN Throw
     ELSE /\ scopes' = ReturnValue(scopes, "error")
          /\ Advance(<< >>)
          /\ UNCHANGED <<program, status, target, cut>>

(* The first branch whose condition holds, the else block, or nothing.     *)
If ==
  /\ Execute("if")
  /\ IF Value # "boolean"
     THEN Throw
     ELSE \E b \in Range(Statement.branches) \union {Statement.else} :
            /\ IF b = None
               THEN Advance(<< >>) /\ UNCHANGED scopes
               ELSE /\ Advance(<<BlockFrame("block", "Local", b, Len(scopes) + 1)>>)
                    /\ scopes' = Push(scopes, "Local")
            /\ UNCHANGED <<program, status, target, cut>>

Repeat ==
  /\ Execute("repeat")
  /\ Advance(<<RepeatFrame(Statement.block, Len(scopes))>>)
  /\ UNCHANGED <<program, scopes, status, target, cut>>

------------------------------------------------------------------------------
(* Loops, and the ends of blocks, calls and awaits                         *)

IterateForEver ==
  /\ Running({"repeat"})
  /\ ~Ending /\ Top.left > 0
  /\ frames' = Append(frames, BlockFrame("block", "Loop", Top.block, Len(scopes) + 1))
  /\ scopes' = Push(scopes, "Loop")
  /\ UNCHANGED <<program, status, target, cut>>

(* The loop goes on unless its last iteration was left.                    *)
Iterate ==
  /\ Running({"repeat"})
  /\ ~Ending /\ Top.left > 0
  /\ frames' = Append([frames EXCEPT ![Len(frames)].left = @ - 1],
                      BlockFrame("block", "Loop", Top.block, Len(scopes) + 1))
  /\ scopes' = Push(scopes, "Loop")
  /\ UNCHANGED <<program, status, target, cut>>

EndLoop ==
  /\ Running({"repeat"})
  /\ Ending \/ Top.left = 0
  /\ frames' = Front(frames)
  /\ UNCHANGED <<program, scopes, status, target, cut>>

EndBlock ==
  /\ Running({"block"})
  /\ BlockEnds
  /\ scopes' = Pop(scopes)
  /\ frames' = Front(frames)
  /\ UNCHANGED <<program, status, target, cut>>

EndProgram ==
  /\ Running({"program"})
  /\ BlockEnds
  /\ status' = "finished"
  /\ UNCHANGED <<program, scopes, frames, target, cut>>

(* The await below gets a result.                                          *)
Resolve(stack, kind) == [stack EXCEPT ![Len(stack)].result = kind]

EndCallWithoutPop ==
  LET value  == scopes[Top.at].value
      result == IF value = None THEN "void" ELSE value
  IN /\ Running({"call"})
     /\ IF result \notin {Signature[Top.workflow].result, "error"}
        THEN Throw
        ELSE /\ frames' = Resolve(Front(frames), result)
             /\ UNCHANGED <<program, scopes, status, target, cut>>

(* A workflow's result is void unless it returned one, and must have the   *)
(* type it declares or be an error.                                        *)
EndCall ==
  LET value  == scopes[Top.at].value
      result == IF value = None THEN "void" ELSE value
  IN /\ Running({"call"})
     /\ IF result \notin {Signature[Top.workflow].result, "error"}
        THEN Throw
        ELSE /\ frames' = Resolve(Front(frames), result)
             /\ scopes' = Pop(scopes)
             /\ UNCHANGED <<program, status, target, cut>>

(* try returns an error from the workflow around it, and its expression    *)
(* goes on with the error all the same.                                    *)
EndAwait ==
  /\ Running({"await"})
  /\ IF ~Top.suspended
     THEN status' = "deadFrame" /\ UNCHANGED <<scopes, frames>>
     ELSE /\ frames' = [Front(frames) EXCEPT ![Len(frames) - 1].got = Append(@, Top.result)]
          /\ scopes' = IF Top.try /\ Top.result = "error"
                       THEN ReturnValue(scopes, "error") ELSE scopes
          /\ UNCHANGED status
  /\ UNCHANGED <<program, target, cut>>

------------------------------------------------------------------------------
(* While all is suspended                                                  *)

DelayExpires ==
  /\ Running({"delay"})
  /\ frames' = Front(frames)
  /\ UNCHANGED <<program, scopes, status, target, cut>>

RequestAnswers ==
  /\ Running({"request"})
  /\ frames' = Resolve(Front(frames), "reply")
  /\ UNCHANGED <<program, scopes, status, target, cut>>

RequestFails ==
  /\ Running({"request"})
  /\ Throw

(* The timer of any of the awaits may expire first.                        *)
Timeout(i) ==
  /\ Running({"delay", "request"})
  /\ i \in Awaits
  /\ status' = "unwinding"
  /\ target' = i
  /\ UNCHANGED <<program, scopes, frames, cut>>

(* One more frame is destroyed.                                            *)
Unwind ==
  /\ status = "unwinding" /\ Len(frames) > target
  /\ frames' = Front(frames)
  /\ scopes' = IF Top.kind = "block" THEN Pop(scopes) ELSE scopes
  /\ cut' = (cut \/ Top.kind = "call")
  /\ UNCHANGED <<program, status, target>>

TimeoutReturns ==
  /\ status = "unwinding" /\ Len(frames) = target /\ target > 0
  /\ frames' = Resolve(frames, "error")
  /\ status' = "running"
  /\ target' = 0
  /\ UNCHANGED <<program, scopes, cut>>

Fail ==
  /\ status = "unwinding" /\ Len(frames) = target /\ target = 0
  /\ status' = "failed"
  /\ UNCHANGED <<program, scopes, frames, target, cut>>

------------------------------------------------------------------------------

Next ==
  \/ RefuseStatement
  \/ EvalLiteral \/ EvalName
  \/ AwaitNothing \/ RefuseCall \/ StartCall \/ StartRequest \/ AnswerAtOnce
  \/ Declare \/ Define \/ Assign \/ Delay \/ Return \/ Break \/ Raise \/ If \/ Repeat
  \/ Iterate \/ EndLoop \/ EndBlock \/ EndProgram \/ EndCall \/ EndAwait
  \/ DelayExpires \/ RequestAnswers \/ RequestFails
  \/ \E i \in DOMAIN frames : Timeout(i)
  \/ Unwind \/ TimeoutReturns \/ Fail

Spec == Init /\ [][Next]_vars

(* One thread runs the coroutines, and the timers they wait for expire.    *)
FairSpec == Spec /\ WF_vars(Next)

------------------------------------------------------------------------------
(* Properties                                                              *)

Scoped == {"program", "block", "call"}

ScopeType(f) == IF f.kind = "call" THEN "Function" ELSE f.type

(* The scopes are those of the frames (EvaluationScope::push and pop): a   *)
(* frame's own scope is there as long as the frame, above those of the     *)
(* frames below; and until a call was destroyed there are no others, and   *)
(* each has the type it was pushed with.                                   *)
ScopesMatchFrames ==
  /\ frames # << >> => frames[1].at = 1 /\ Top.at <= Len(scopes)
  /\ \A i \in 2..Len(frames) :
       frames[i].at >= frames[i - 1].at + (IF frames[i].kind \in Scoped THEN 1 ELSE 0)
  /\ ~cut =>
       /\ frames # << >> => Top.at = Len(scopes)
       /\ \A i \in 2..Len(frames) :
            frames[i].at = frames[i - 1].at + (IF frames[i].kind \in Scoped THEN 1 ELSE 0)
       /\ \A i \in DOMAIN frames :
            frames[i].kind \in Scoped => scopes[frames[i].at].type = ScopeType(frames[i])

(* A return, a raise or the error of a try ends its workflow: once there   *)
(* is a return value no block of that workflow begins another statement    *)
(* (EvaluationScope::return_value and pop, the checks of the policy). This *)
(* holds until an await's timeout destroys a call.                         *)
ReturnEnds ==
  [][\A i \in DOMAIN frames \intersect DOMAIN frames' :
       (/\ ~cut
        /\ frames[i].kind \in Blocks /\ frames[i].got = << >>
        /\ scopes[scopes[frames[i].at].home].value # None)
       => frames'[i] = frames[i]]_vars

(* A workflow leaves the scopes below its own as they are, in its body, at *)
(* its end and when it is destroyed (eval of WorkflowInvocation): neither  *)
(* its return nor its declarations reach its caller.                       *)
CallersUntouched ==
  [][\A i \in DOMAIN frames :
       frames[i].kind = "call" => SubSeq(scopes', 1, frames[i].at - 1)
                                    = SubSeq(scopes, 1, frames[i].at - 1)]_vars

Declared(block, pc) ==
  LET body == Body(program, block)
  IN {body[k].name : k \in {k \in 1..pc - 1 : body[k].do \in {"declare", "define"}}}

(* A name is in the scope of the block that declares it, as soon and as    *)
(* long as the block has evaluated the declaration (Scope::add, the scope  *)
(* guard of a block), until a call is destroyed.                           *)
NamesAreOwn ==
  ~cut => \A i \in DOMAIN frames :
            frames[i].kind \in Blocks =>
              DOMAIN scopes[frames[i].at].names = Declared(frames[i].block, frames[i].pc)

(* A break ends the loop around it and nothing else (break_loop): outside  *)
(* a loop no scope is left by it.                                          *)
BreakStaysInLoop ==
  \A i \in DOMAIN scopes :
    scopes[i].policy = "Break" =>
      \E j \in scopes[i].home..i : scopes[j].type = "Loop"

(* Every evaluation ends, in one way or another: loops are bounded, and    *)
(* an await waits no longer than its timeout.                              *)
Terminates == <>(status \in {"finished", "failed", "deadFrame"})
=============================================================================
