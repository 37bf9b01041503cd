------------------------------ MODULE FlowValues ------------------------------
(***************************************************************************)
(* The evaluation of a flow program, statement by statement, as far as it  *)
(* reads, shares and changes values (module Flow has its control flow).    *)
(* Workflows are called with arguments and return, or raise, a value;      *)
(* requests are answered.  The statements are chosen freely, inside of the *)
(* workflows too.                                                          *)
(*                                                                         *)
(* A definition without a comment that precedes another one is a variant   *)
(* of it with a plausible mistake.                                         *)
(***************************************************************************)
EXTENDS FlowScopes, FlowEntities

CONSTANTS
  Statements,      (* the statements a program is made of                  *)
  Workflow,        (* the inputs and the result type of each workflow      *)
  MaxStatements,   (* bound: statements executed                           *)
  MaxDepth         (* bound: workflows called in each other                *)

VARIABLES
  heap,            (* the storage of all values                            *)
  scopes,          (* evaluation_scope; a name is bound to a cell          *)
  pending,         (* the declarations that await a workflow's result      *)
  status,          (* of the program                                       *)
  last,            (* history: the statement executed last                 *)
  executed         (* the number of statements executed                    *)

vars == <<heap, scopes, pending, status, last, executed>>

(* A new evaluation: the default values, and a scope with the instance's   *)
(* identifier and the functions.                                           *)
Builtins == <<"instance_id", "println", "panic", "str_format">>

BuiltinCell ==
  [n \in ToSet(Builtins) |->
     <<Len(SimpleTypes) + CHOOSE i \in DOMAIN Builtins : Builtins[i] = n>>]

BuiltinHeap ==
  [c \in {BuiltinCell[n] : n \in ToSet(Builtins)} |->
     LET name == Builtins[c[1] - Len(SimpleTypes)]
     IN  IF name = "instance_id" THEN [type |-> "integer", value |-> 0]
         ELSE [type |-> "free function", value |-> name]]

Init ==
  /\ heap = With(DefaultHeap, BuiltinHeap)
  /\ scopes = [BaseScope EXCEPT ![1].names = BuiltinCell]
  /\ pending = << >>
  /\ status = "running"
  /\ last = [do |-> "start"]
  /\ executed = 0

(* The cells that a scope binds, of all scopes, and with the defaults.     *)
BoundIn(scope) == {scope.names[n] : n \in DOMAIN scope.names}

Roots(stack) ==
  {Defaults[t] : t \in Simple} \union UNION {BoundIn(stack[i]) : i \in DOMAIN stack}

Declared(name) == \E i \in DOMAIN scopes : name \in DOMAIN scopes[i].names

-------------------------------------------------------------------------------
(* Expressions                                                             *)

(* An expression is the sequence of its operations in the order in which   *)
(* they are evaluated: operands come before the operation that takes their *)
(* values.  values are those that no operation has taken yet.              *)

(* A path: a name, then properties.                                        *)
EvalPath(path, h) ==
  LET at[k \in 1..Len(path)] ==
        IF k = 1
        THEN IF Declared(path[1]) THEN Share(h, FindEntity(scopes, path[1])) ELSE Fail(h)
        ELSE LET r == at[k - 1]
             IN  IF r.status = "ok" THEN GetProperty(r.heap, r.cell, path[k]) ELSE r
  IN  at[Len(path)]

(* The callable is looked up first, a member function's object once more,  *)
(* before the arguments are evaluated.  No variable has a function's type. *)
Callee(callable, self) ==
  [status |-> self.status, heap |-> self.heap, values |-> <<callable.cell, self.cell>>]

(* What a call's path, which led to callable, calls.                       *)
CalleeOf(callable, path, h) ==
  LET type == callable.heap[callable.cell].type
  IN  CASE callable.status = "ok" /\ type = "free function" -> Callee(callable, callable)
        [] callable.status = "ok" /\ type = "member function" /\ Len(path) > 1 ->
             Callee(callable, EvalPath(Front(path), callable.heap))
        [] OTHER -> [status |-> "failed", heap |-> h, values |-> <<NoCell, NoCell>>]

(* The first operation of a call.                                          *)
EvalCallable(path, h) == CalleeOf(EvalPath(path, h), path, h)

EvalCall(e, taken, h) ==
  LET args == [i \in DOMAIN e.names |-> [name |-> e.names[i], cell |-> taken[i + 2]]]
  IN  IF h[taken[1]].type = "free function"
      THEN CallFunction(h, h[taken[1]].value, args)
      ELSE CallMember(h, taken[2], Last(e.path), args)

EvalLiteral(e, h) == New(h, e.type, e.value)

EvalArray(taken, h) == New(h, "array", taken)

(* The first of two members with the same key stays.                       *)
EvalDictionary(e, taken, h) ==
  New(h, "dictionary",
      [k \in ToSet(e.keys) |-> taken[Min({i \in DOMAIN e.keys : e.keys[i] = k})]])

EvalIs(e, c, h) ==
  IF e.type \in Types THEN New(h, "boolean", SameType(h[c].type, e.type)) ELSE Fail(h)

(* A declaration without a value has void for it.                          *)
Eval(e, taken, h) ==
  CASE e.expr = "literal"    -> EvalLiteral(e, h)
    [] e.expr = "path"       -> EvalPath(e.path, h)
    [] e.expr = "call"       -> EvalCall(e, taken, h)
    [] e.expr = "array"      -> EvalArray(taken, h)
    [] e.expr = "dictionary" -> EvalDictionary(e, taken, h)
    [] e.expr = "unary"      -> Unary(h, e.op, taken[1])
    [] e.expr = "binary"     -> Binary(h, e.op, taken[1], taken[2])
    [] e.expr = "is"         -> EvalIs(e, taken[1], h)
    [] e.expr = "none"       -> New(h, "void", << >>)

(* How many values an operation takes, and gives.                          *)
Takes(e) ==
  CASE e.expr = "call"             -> Len(e.names) + 2
    [] e.expr = "array"            -> e.size
    [] e.expr = "dictionary"       -> Len(e.keys)
    [] e.expr = "binary"           -> 2
    [] e.expr \in {"unary", "is"} -> 1
    [] OTHER                       -> 0

Gives(e) == IF e.expr = "callable" THEN 2 ELSE 1

(* One operation: what it takes is on top.                                 *)
Operate(e, r) ==
  LET left  == Len(r.values) - Takes(e)
      given == IF e.expr = "callable" THEN EvalCallable(e.path, r.heap)
               ELSE LET v == Eval(e, SubSeq(r.values, left + 1, Len(r.values)), r.heap)
                    IN  [status |-> v.status, heap |-> v.heap, values |-> <<v.cell>>]
  IN  [given EXCEPT !.values = SubSeq(r.values, 1, left) \o @]

(* The operations of expressions in order, until one fails.                *)
Run(code, h) ==
  LET after[k \in 0..Len(code)] ==
        IF k = 0 THEN [status |-> "ok", heap |-> h, values |-> << >>]
        ELSE LET r == after[k - 1] IN IF r.status = "ok" THEN Operate(code[k], r) ELSE r
  IN  after

EvalAll(code, h) == Run(code, h)[Len(code)]

(* What the operations of a single expression leave.                       *)
Result(r) == [status |-> r.status, heap |-> r.heap, cell |-> Last(r.values)]

(* A single expression.                                                    *)
Value(code, h) == Result(EvalAll(code, h))

(* What the parser makes of expressions, one of which leaves one value.    *)
Paths == Seq(STRING) \ {<< >>}

IsOperation(e) ==
  \/ e.expr = "literal" /\ e.type \in Simple \ {"void", "array"}
  \/ e.expr \in {"path", "callable"} /\ e.path \in Paths
  \/ e.expr = "call" /\ e.path \in Paths /\ e.names \in Seq(STRING)
  \/ e.expr = "array" /\ e.size \in Nat
  \/ e.expr = "dictionary" /\ e.keys \in Seq(STRING)
  \/ e.expr \in {"unary", "binary", "is", "none"}

(* How many values there are after each operation.                         *)
Height(code) ==
  LET after[k \in 0..Len(code)] ==
        IF k = 0 THEN 0 ELSE after[k - 1] - Takes(code[k]) + Gives(code[k])
  IN  after

Leaves(code, n) ==
  /\ code \in Seq(ToSet(code))
  /\ \A k \in DOMAIN code : IsOperation(code[k]) /\ Takes(code[k]) <= Height(code)[k - 1]
  /\ Height(code)[Len(code)] = n

ASSUME FlowValuesAssumption ==
  /\ \A s \in Statements :
       CASE s.do = "call"   -> /\ s.workflow \in DOMAIN Workflow
                               /\ s.names \in Seq(STRING)
                               /\ Leaves(s.args, Len(s.names))
         [] s.do = "assign" -> Leaves(s.value, 2)
         [] OTHER           -> Leaves(s.value, 1)
  /\ \A w \in DOMAIN Workflow : Workflow[w].inputs \in Seq(ToSet(Workflow[w].inputs))

-------------------------------------------------------------------------------
(* Statements                                                              *)

Execute(s) ==
  /\ status = "running"
  /\ executed < MaxStatements
  /\ executed' = executed + 1
  /\ last' = s

(* A statement that throws ends the program.                               *)
End(how) == status' = how /\ UNCHANGED <<heap, scopes, pending>>

(* The scopes, with the declarations still to come, and the values that    *)
(* they lead to.                                                           *)
Continue(h, stack, declarations) ==
  /\ scopes' = stack
  /\ pending' = declarations
  /\ heap' = Live(h, Roots(stack))
  /\ UNCHANGED status

CanDeclare(s) == s.name \notin DOMAIN Current(scopes).names /\ s.type \in Types

(* The declared variable gets a copy of the value, as its type constructs  *)
(* it, in the stack's current scope.                                       *)
Bind(s, r, stack, declarations) ==
  LET copy == Copy(r.heap, r.cell, Roots(stack))
      made == Construct(copy.heap, s.type, copy.cell)
  IN  IF made.status = "ok"
      THEN Continue(made.heap, Add(stack, s.name, made.cell), declarations)
      ELSE End("failed")

Declare(s) ==
  LET r == Value(s.value, heap) IN
  /\ s.do = "declare"
  /\ Execute(s)
  /\ IF ~CanDeclare(s) THEN End("failed")
     ELSE IF r.status # "ok" THEN End(r.status)
     ELSE Bind(s, r, scopes, pending)

(* The values of both sides, the left one first.  An assignment that is    *)
(* refused has no effect, and nobody is told.                              *)
AssignTo(s) ==
  LET r == EvalAll(s.value, heap) IN
  /\ s.do = "assign"
  /\ Execute(s)
  /\ IF r.status = "ok"
     THEN Continue(Assign(r.heap, r.values[1], r.values[2]).heap, scopes, pending)
     ELSE End(r.status)

(* An expression alone, a delay, which wants a duration, or a condition,   *)
(* which is converted to a boolean.                                        *)
Evaluated(s, r) ==
  IF r.status # "ok" THEN End(r.status)
  ELSE CASE s.do = "delay" /\ r.heap[r.cell].type # "duration" -> End("failed")
         [] s.do = "condition" /\ Convert(r.heap, r.cell, "boolean").status # "ok" -> End("failed")
         [] OTHER -> Continue(r.heap, scopes, pending)

(* A statement without effect but for that of its expression.              *)
Evaluate(s) ==
  /\ s.do \in {"expression", "delay", "condition"}
  /\ Execute(s)
  /\ Evaluated(s, Value(s.value, heap))

(* A named argument, or that at the input's place.                         *)
ArgumentFor(s, i) ==
  LET named == {j \in DOMAIN s.names : s.names[j] = Workflow[s.workflow].inputs[i].name}
  IN  IF named = {} THEN i ELSE Min(named)

(* T name = await workflow(arguments): the inputs share the arguments'     *)
(* storage.                                                                *)
Call(s) ==
  LET r      == EvalAll(s.args, heap)
      inputs == Workflow[s.workflow].inputs
      called == Push(scopes, "Function")
      match  == /\ Len(s.names) = Len(inputs)
                /\ \A i \in DOMAIN inputs :
                     SameType(r.heap[r.values[ArgumentFor(s, i)]].type, inputs[i].type)
      names  == {inputs[i].name : i \in DOMAIN inputs}
      bound  == [n \in names |->
                   r.values[ArgumentFor(s, CHOOSE i \in DOMAIN inputs : inputs[i].name = n)]]
  IN  /\ s.do = "call"
      /\ Len(pending) < MaxDepth
      /\ Execute(s)
      /\ IF ~CanDeclare(s) THEN End("failed")
         ELSE IF r.status # "ok" THEN End(r.status)
         ELSE IF ~match THEN End("failed")
         ELSE Continue(r.heap, Push([called EXCEPT ![Len(called)].names = bound], "Local"),
                       Append(pending, s))

(* The workflow's scopes are popped; the awaiting declaration goes on.  An *)
(* error passes for every result type.                                     *)
Leave(r) ==
  LET s      == Last(pending)
      stack  == Pop(Pop(ReturnValue(scopes, r.cell)))
      result == Workflow[s.workflow].result
  IN  IF SameType(r.heap[r.cell].type, result) \/ r.heap[r.cell].type = "error"
      THEN Bind(s, r, stack, Front(pending))
      ELSE End("failed")

(* In the program itself a return only ends it.                            *)
Return(s) ==
  LET r == Value(s.value, heap) IN
  /\ s.do = "return"
  /\ Execute(s)
  /\ IF r.status # "ok" THEN End(r.status)
     ELSE IF pending = << >> THEN End("ended")
     ELSE Leave(r)

(* An error, made of a text if need be, leaves like a returned value.      *)
Raised(r) ==
  LET type == r.heap[r.cell].type
      what == IF type = "error" THEN r ELSE New(r.heap, "error", r.heap[r.cell].value)
  IN  IF r.status # "ok" THEN End(r.status)
      ELSE IF type \notin {"string", "error"} THEN End("failed")
      ELSE IF pending = << >> THEN End("ended")
      ELSE Leave(what)

(* In the program itself it only ends it.                                  *)
Raise(s) ==
  /\ s.do = "raise"
  /\ Execute(s)
  /\ Raised(Value(s.value, heap))

(* T name = await request: the delegate gets the request as JSON and       *)
(* answers, here with what it got, or too late.                            *)
Asked(s, r, late) ==
  LET type  == r.heap[r.cell].type
      data  == WithoutOthers(r.heap)
      reply == FromJson(r.heap, ToJson(data, r.cell))
      typed == New(reply.heap, IF type = "action" THEN "action_reply" ELSE "http_reply",
                   reply.heap[reply.cell].value)
  IN  IF ~CanDeclare(s) THEN End("failed")
      ELSE IF r.status # "ok" THEN End(r.status)
      ELSE IF type \notin {"action", "http_request"} THEN End("failed")
      ELSE IF Cyclic(data, r.cell) THEN End("overflow")
      ELSE IF late THEN Bind(s, New(r.heap, "error", "Operation timeout"), scopes, pending)
      ELSE Bind(s, typed, scopes, pending)

(* The whole statement, with the request's value.                          *)
Ask(s, late) ==
  /\ s.do = "ask"
  /\ Execute(s)
  /\ Asked(s, Value(s.value, heap), late)

Next ==
  \E s \in Statements :
    \/ Declare(s) \/ AssignTo(s) \/ Evaluate(s) \/ Call(s) \/ Return(s) \/ Raise(s)
    \/ \E late \in BOOLEAN : Ask(s, late)

Spec == Init /\ [][Next]_vars

-------------------------------------------------------------------------------
(* A declaration copies: two variables never share their storage, whatever *)
(* was declared from, inserted in or returned by what.  Only the inputs of *)
(* a workflow share that of the arguments, and variables that were given   *)
(* no value share the default value of their type (entity.cpp:39-46).      *)
IsInput(i) == i > 1 /\ scopes[i].type = "Function"

VariablesApart ==
  \A i, j \in DOMAIN scopes :
    \A m \in DOMAIN scopes[i].names : \A n \in DOMAIN scopes[j].names :
      scopes[i].names[m] = scopes[j].names[n] =>
        \/ <<i, m>> = <<j, n>>
        \/ IsInput(i) \/ IsInput(j)
        \/ \E t \in Simple : scopes[i].names[m] = Defaults[t]

(* The default values are what they were at the start, so that a variable  *)
(* that is given no value always starts with the same one, but for the two *)
(* types that assign into the storage: integers and arrays                 *)
(* (entity_utils.hpp:43-44).                                               *)
DefaultsStay ==
  \A t \in Simple \ {"integer", "array"} : heap[Defaults[t]].value = InitialValue[t]

(* The elements that JSON can tell; arrays keep their order.               *)
Tellable(h) == {c \in DOMAIN h : h[c].type \in JsonScalars \union {"array", "dictionary"}}

Told(h, c) ==
  LET v == h[c].value IN
  CASE h[c].type = "array" -> Among(v, Tellable(h))
    [] h[c].type \in Dictionaries -> [k \in {k \in DOMAIN v : v[k] \in Tellable(h)} |-> v[k]]
    [] OTHER -> v

Alike(h, c, g, d) ==
  CASE h[c].type = "array" -> g[d].type = "array" /\ DOMAIN g[d].value = DOMAIN Told(h, c)
    [] h[c].type \in Dictionaries ->
         g[d].type \in Dictionaries /\ DOMAIN g[d].value = DOMAIN Told(h, c)
    [] OTHER -> g[d] = h[c]

(* What is at the same places in c and d, which n steps lead to.           *)
Partners(h, c, g, d) ==
  LET at[n \in 0..Depth(h) + 1] ==
        IF n = 0 THEN {<<c, d>>}
        ELSE LET before == at[n - 1]
             IN  UNION {{<<Told(h, p[1])[k], g[p[2]].value[k]>> : k \in Keys(g[p[2]])} : p \in before}
  IN  at

(* The same data: at the same places are containers with the same keys or  *)
(* equal values, and there are only finitely many places.                  *)
SameData(h, c, g, d) ==
  /\ \A n \in 0..Depth(h) : \A p \in Partners(h, c, g, d)[n] : Alike(h, p[1], g, p[2])
  /\ Partners(h, c, g, d)[Depth(h) + 1] = {}

(* A delegate that answers with what it was asked gives a reply with the   *)
(* request's data, in storage that nothing else shares                     *)
(* (conversion/json.hpp:14-95).                                            *)
RepliesAreData ==
  [][last'.do = "ask" /\ status' = "running" =>
       LET request == Value(last'.value, heap)
           reply   == Current(scopes').names[last'.name]
           others  == [scopes' EXCEPT ![Len(scopes)].names =
                         [n \in DOMAIN @ \ {last'.name} |-> @[n]]]
       IN  heap'[reply].type # "error" =>
             /\ SameData(request.heap, request.cell, heap', reply)
             /\ Reach(heap', {reply}) \intersect Reach(heap', Roots(others)) = {}]_vars
===============================================================================
