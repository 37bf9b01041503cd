------------------------------ MODULE FlowScopes ------------------------------
(***************************************************************************)
(* The scopes of a flow program under evaluation (EvaluationScope): a      *)
(* stack of function, loop and local scopes.  Each has the names declared  *)
(* in it and a policy that says whether the statements around it go on.    *)
(* A loop or local scope shares the return value of the scope below it;    *)
(* home is the scope that owns the value.                                  *)
(*                                                                         *)
(* A definition without a comment that precedes another one is a variant   *)
(* of it with a plausible mistake.                                         *)
(***************************************************************************)
EXTENDS Naturals, SequencesExt, FiniteSetsExt

ScopeTypes == {"Function", "Loop", "Local"}

Policies == {"Stay", "Return", "Break"}

(* What the control flow can tell of an entity.                            *)
Kinds == {"void", "boolean", "integer", "string", "duration", "array",
          "request", "reply", "workflow", "error"}

None == "none"

NoNames == << >>

Scope(type, home) ==
  [type |-> type, policy |-> "Stay", home |-> home, value |-> None, names |-> NoNames]

(* A new evaluation has one function scope, that of the program.           *)
BaseScope == <<Scope("Function", 1)>>

Current(scopes) == Last(scopes)

PushWithoutType(scopes, type) == Append(scopes, Scope("Local", Current(scopes).home))

(* A scope shares the return value of the one below, except a function's.  *)
Push(scopes, type) ==
  Append(scopes, Scope(type, IF type = "Function" THEN Len(scopes) + 1 ELSE Current(scopes).home))

PopOfLocal(scopes) ==
  IF Current(scopes).policy = "Stay" \/ Current(scopes).type # "Local" THEN Front(scopes)
  ELSE [Front(scopes) EXCEPT ![Len(scopes) - 1].policy = Current(scopes).policy]

(* A policy other than Stay passes on to the scope below, unless it ends a *)
(* function.                                                               *)
Pop(scopes) ==
  IF Current(scopes).policy = "Stay" \/ Current(scopes).type = "Function" THEN Front(scopes)
  ELSE [Front(scopes) EXCEPT ![Len(scopes) - 1].policy = Current(scopes).policy]

(* return_value: the value goes to the function, the current scope ends.   *)
ReturnValue(scopes, kind) ==
  [scopes EXCEPT ![Current(scopes).home].value = kind, ![Len(scopes)].policy = "Return"]

(* break_loop                                                              *)
BreakLoop(scopes) == [scopes EXCEPT ![Len(scopes)].policy = "Break"]

AddToFunction(scopes, name, kind) ==
  [scopes EXCEPT ![Current(scopes).home].names =
     [n \in DOMAIN @ \union {name} |-> IF n = name THEN kind ELSE @[n]]]

(* A name is declared in the current scope.                                *)
Add(scopes, name, kind) ==
  [scopes EXCEPT ![Len(scopes)].names =
     [n \in DOMAIN @ \union {name} |-> IF n = name THEN kind ELSE @[n]]]

(* The innermost scope that has the name, whose function it is or not.     *)
FindEntity(scopes, name) ==
  LET holders == {i \in DOMAIN scopes : name \in DOMAIN scopes[i].names}
  IN IF holders = {} THEN None ELSE scopes[Max(holders)].names[name]
=============================================================================
