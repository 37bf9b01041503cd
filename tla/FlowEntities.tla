----------------------------- MODULE FlowEntities -----------------------------
(***************************************************************************)
(* The values of a flow program.  An Entity is a handle: it shares its     *)
(* storage, a Shared, with its copies until one is detached.  A heap maps  *)
(* each storage, a cell, to its type and content; a container's content is *)
(* made of handles again.  A cell that no handle leads to is gone.  It is  *)
(* a number or, when it was made of JSON, a number and a place.            *)
(*                                                                         *)
(* An operation returns its status, the heap and the resulting cell.  fail *)
(* stands for the exceptions that end the program, overflow for the end of *)
(* the stack under a recursion through a container that contains itself.   *)
(* Real numbers are counted in halves, durations in milliseconds.          *)
(*                                                                         *)
(* A definition without a comment that precedes another one is a variant   *)
(* of it with a plausible mistake.                                         *)
(***************************************************************************)
EXTENDS Integers, SequencesExt, FiniteSetsExt

CONSTANTS
  Placeholders,    (* how many placeholders a text has, if any             *)
  Formatted        (* stands for the texts that formatting makes           *)

(* Types that make_constructor makes, and the kinds of dictionaries.       *)
SimpleTypes == <<"void", "boolean", "integer", "real", "string", "duration", "array">>

Simple == ToSet(SimpleTypes)

Dictionaries == {"dictionary", "action", "action_reply", "http_request", "http_reply"}

Types == Simple \union Dictionaries \union {"error", "free function", "member function", "workflow"}

(* The types of functions and workflows have no identifier of their own.   *)
TypeId(type) ==
  IF type \in {"free function", "member function", "workflow"} THEN "undefined" ELSE type

SameType(s, t) == TypeId(s) = TypeId(t)

-----------------------------------------------------------------------------
(* Shared                                                                  *)

NoCell == << >>

Fresh(heap) ==
  <<Min((1..Cardinality(DOMAIN heap) + 1) \ {c[1] : c \in DOMAIN heap})>>

(* A handle of a cell, as a copy or an assignment of a handle makes it.    *)
Share(heap, cell) == [status |-> "ok", heap |-> heap, cell |-> cell]

Fail(heap) == [status |-> "failed", heap |-> heap, cell |-> NoCell]

Overflow(heap) == [status |-> "overflow", heap |-> heap, cell |-> NoCell]

(* A heap and more cells, which it does not have.                          *)
With(heap, more) ==
  [c \in DOMAIN heap \union DOMAIN more |-> IF c \in DOMAIN heap THEN heap[c] ELSE more[c]]

(* A new handle with storage of its own.                                   *)
New(heap, type, value) ==
  LET c == Fresh(heap)
  IN  Share(With(heap, [x \in {c} |-> [type |-> type, value |-> value]]), c)

(* value() = ...                                                           *)
Write(heap, c, value) == Share([heap EXCEPT ![c].value = value], c)

(* The handles that a container holds, by index or key.                    *)
Keys(content) ==
  IF content.type \in Dictionaries \union {"array"} THEN DOMAIN content.value ELSE {}

Elements(content) == {content.value[k] : k \in Keys(content)}

(* A way that passes no container twice has no more steps than this.       *)
Depth(heap) == Cardinality({c \in DOMAIN heap : Keys(heap[c]) # {}})

(* Where n steps from container to element lead.                           *)
Steps(heap, cells) ==
  LET at[n \in 0 .. Depth(heap) + 1] ==
        IF n = 0 THEN cells
        ELSE LET before == at[n - 1] IN UNION {Elements(heap[c]) : c \in before}
  IN  at

Reach(heap, cells) == UNION {Steps(heap, cells)[n] : n \in 0..Depth(heap)}

Cyclic(heap, c) == Steps(heap, {c})[Depth(heap) + 1] # {}

(* What is left when no handles but roots, and those in containers, are.   *)
Live(heap, roots) == [c \in Reach(heap, roots) |-> heap[c]]

IsUnique(heap, c, roots) ==
  c \notin roots /\ \A x \in Reach(heap, roots \union {c}) : c \notin Elements(heap[x])

Detach(heap, c) == New(heap, heap[c].type, heap[c].value)

CopyOfHandle(heap, c, roots) == Share(heap, c)

(* Entity::copy() of a temporary handle, next to the handles in roots.     *)
Copy(heap, c, roots) == IF IsUnique(heap, c, roots) THEN Share(heap, c) ELSE Detach(heap, c)

-----------------------------------------------------------------------------
(* Construction and assignment                                             *)

InitialValue ==
  [t \in Simple |->
     CASE t = "boolean"                          -> FALSE
       [] t \in {"integer", "real", "duration"}  -> 0
       [] t = "string"                           -> ""
       [] OTHER                                  -> << >>]

(* The static constructors keep a default_value each: the first cells.     *)
Defaults == [t \in Simple |-> <<CHOOSE n \in DOMAIN SimpleTypes : SimpleTypes[n] = t>>]

DefaultHeap ==
  [c \in {Defaults[t] : t \in Simple} |->
     LET t == SimpleTypes[c[1]] IN [type |-> t, value |-> InitialValue[t]]]

(* make_constructor: nothing gives a copy of the default_value's handle.   *)
ConstructSimple(heap, type, arg) ==
  IF heap[arg].type = "void" THEN Share(heap, Defaults[type])
  ELSE IF heap[arg].type = type THEN Share(heap, arg)
  ELSE Fail(heap)

(* A dictionary of one kind can be made of a plain one; an error passes.   *)
ConstructDictionary(heap, type, arg) ==
  CASE heap[arg].type = "void"            -> New(heap, type, << >>)
    [] heap[arg].type \in {type, "error"} -> Share(heap, arg)
    [] heap[arg].type = "dictionary" /\ type # "dictionary" ->
         New(heap, type, heap[arg].value)
    [] OTHER                              -> Fail(heap)

(* The other types have no constructor, the call throws.                   *)
Construct(heap, type, arg) ==
  CASE type \in Simple       -> ConstructSimple(heap, type, arg)
    [] type \in Dictionaries -> ConstructDictionary(heap, type, arg)
    [] OTHER                 -> Fail(heap)

(* No type has a conversion of its own, so that a value keeps its type.    *)
Convert(heap, c, type) == IF SameType(heap[c].type, type) THEN Share(heap, c) ELSE Fail(heap)

(* A real is cut to an integer, towards zero.                              *)
Truncated(halves) == IF halves >= 0 THEN halves \div 2 ELSE -((-halves) \div 2)

AssignInteger(heap, l, r) ==
  CASE heap[r].type = "integer" -> Write(heap, l, heap[r].value)
    [] heap[r].type = "real"    -> Write(heap, l, Truncated(heap[r].value))
    [] OTHER                    -> Fail(heap)

AssignArray(heap, l, r) ==
  IF heap[r].type = "array" THEN Write(heap, l, heap[r].value) ELSE Fail(heap)

AssignByValue(heap, l, r) ==
  IF SameType(heap[l].type, heap[r].type) THEN Write(heap, l, heap[r].value) ELSE Fail(heap)

(* Without an assignment of its own, a type's handle is made to share the  *)
(* other value: the handle that the interpreter has for the left side, and *)
(* no variable.                                                            *)
AssignHandle(heap, l, r) ==
  IF SameType(heap[l].type, heap[r].type) \/ heap[r].type = "error" THEN Share(heap, r) ELSE Fail(heap)

Assign(heap, l, r) ==
  CASE heap[l].type = "integer" -> AssignInteger(heap, l, r)
    [] heap[l].type = "array"   -> AssignArray(heap, l, r)
    [] OTHER                    -> AssignHandle(heap, l, r)

-----------------------------------------------------------------------------
(* Properties, member functions and operators                              *)

Size(heap, c) ==
  LET v == heap[c].value
  IN  New(heap, "integer", IF heap[c].type = "array" THEN Len(v) ELSE Cardinality(DOMAIN v))

MemberFunction(heap, name) == New(heap, "member function", name)

ElementOf(heap, c, key) ==
  IF key \in DOMAIN heap[c].value THEN Share(heap, heap[c].value[key]) ELSE Fail(heap)

(* Static properties hide the elements of the same name, as do member      *)
(* functions.                                                              *)
GetProperty(heap, c, name) ==
  LET type == heap[c].type
  IN  CASE type \in Dictionaries \union {"array"} /\ name = "size" -> Size(heap, c)
        [] type \in Dictionaries /\ name = "insert" -> MemberFunction(heap, name)
        [] type \in Dictionaries /\ name \notin {"size", "insert"} -> ElementOf(heap, c, name)
        [] OTHER -> Fail(heap)

(* An argument is a name, or Unnamed, and a handle.  Named arguments are   *)
(* refused.  The key is moved out of its storage, and a key that is there  *)
(* keeps its value.                                                        *)
Unnamed == ""

Insert(heap, self, args) ==
  IF \/ Len(args) # 2
     \/ \E i \in DOMAIN args : args[i].name # Unnamed
     \/ ~SameType(heap[args[1].cell].type, "string")
  THEN Fail(heap)
  ELSE LET key   == heap[args[1].cell].value
           moved == Write(heap, args[1].cell, "").heap
           dict  == moved[self].value
           more  == [k \in DOMAIN dict \union {key} |->
                       IF k \in DOMAIN dict THEN dict[k] ELSE args[2].cell]
       IN  New(Write(moved, self, more).heap, "void", << >>)

(* call_mem_function looks in the type of the object once more.            *)
CallMember(heap, self, name, args) ==
  IF heap[self].type \in Dictionaries /\ name = "insert" THEN Insert(heap, self, args) ELSE Fail(heap)

(* A text and the values that its placeholders show, as many as it has; a  *)
(* text alone is itself.  A value is shown before it is one too many.      *)
Format(heap, args) ==
  LET n       == Len(args) - 1
      text    == heap[args[1].cell].value
      takes   == IF text \in DOMAIN Placeholders THEN Placeholders[text] ELSE 0
      visited == {args[i].cell : i \in 2 .. Min({n, takes + 1}) + 1}
  IN  IF n = -1 \/ heap[args[1].cell].type # "string" THEN Fail(heap)
      ELSE IF n = 0 THEN New(heap, "string", text)
      ELSE IF \E c \in visited : Cyclic(heap, c) THEN Overflow(heap)
      ELSE IF n = takes THEN New(heap, "string", Formatted)
      ELSE Fail(heap)

(* A text that cannot be formatted is replaced by a complaint.             *)
Println(heap, args) ==
  LET text == Format(heap, args)
  IN  IF text.status = "overflow" THEN text ELSE New(heap, "void", << >>)

(* All arguments are shown, then it throws.                                *)
Panic(heap, args) ==
  IF \E i \in DOMAIN args : Cyclic(heap, args[i].cell) THEN Overflow(heap) ELSE Fail(heap)

CallFunction(heap, name, args) ==
  CASE name = "println"    -> Println(heap, args)
    [] name = "str_format" -> Format(heap, args)
    [] OTHER               -> Panic(heap, args)

Halves(content) == IF content.type = "integer" THEN 2 * content.value ELSE content.value

(* What the operators of integers compute, from numbers in halves.  The    *)
(* entry of * compares and that of / multiplies.                           *)
Arithmetic(op, l, r) ==
  CASE op = "+" -> l + r
    [] op = "-" -> l - r
    [] op = "/" -> (l * r) \div 2

Comparison(op, l, r) ==
  CASE op \in {"*", "=="} -> l = r
    [] op = "!="          -> l # r
    [] op = "<"           -> l < r
    [] op = "<="          -> l <= r
    [] op = ">"           -> l > r
    [] op = ">="          -> l >= r

IntegerBinary(heap, op, l, r) ==
  LET x == Halves(heap[l])
      y == Halves(heap[r])
      n == Arithmetic(op, x, y)
  IN  IF heap[r].type \notin {"integer", "real"} THEN Fail(heap)
      ELSE CASE op \in {"+", "-", "/"} ->
                  New(heap, heap[r].type, IF heap[r].type = "integer" THEN n \div 2 ELSE n)
             [] op \in {"*", "==", "!=", "<", "<=", ">", ">="} ->
                  New(heap, "boolean", Comparison(op, x, y))
             [] OTHER -> Fail(heap)

HasKey(heap, dictionary, key) ==
  IF heap[key].type = "string"
  THEN New(heap, "boolean", heap[key].value \in DOMAIN heap[dictionary].value)
  ELSE Fail(heap)

(* Only integers have arithmetic and comparisons, only dictionaries have   *)
(* in, on their right; no type has and, or, not.                           *)
Binary(heap, op, l, r) ==
  CASE op = "in" /\ heap[r].type \in Dictionaries  -> HasKey(heap, r, l)
    [] op # "in" /\ heap[l].type = "integer"       -> IntegerBinary(heap, op, l, r)
    [] OTHER                                       -> Fail(heap)

(* Plus gives the same handle.                                             *)
Unary(heap, op, c) ==
  CASE heap[c].type = "integer" /\ op = "+" -> Share(heap, c)
    [] heap[c].type = "integer" /\ op = "-" -> New(heap, "integer", -heap[c].value)
    [] OTHER                                -> Fail(heap)

-----------------------------------------------------------------------------
(* Conversion to and from JSON                                             *)

JsonScalars == {"boolean", "integer", "real", "string"}

ConvertibleScalar(type) == type \in JsonScalars \union {"array"}

(* Elements of other types, dictionaries of special kinds among them, are  *)
(* dropped.                                                                *)
Convertible(type) == type \in JsonScalars \union {"array", "dictionary"}

(* The elements of a sequence that are in chosen, in their order.          *)
Among(v, chosen) ==
  LET upto[n \in 0..Len(v)] ==
        IF n = 0 THEN << >>
        ELSE IF v[n] \in chosen THEN Append(upto[n - 1], v[n]) ELSE upto[n - 1]
  IN  upto[Len(v)]

WithoutOthers(heap) ==
  LET kept == {c \in DOMAIN heap : Convertible(heap[c].type)} IN
  [c \in DOMAIN heap |->
     LET v == heap[c].value IN
     [type  |-> heap[c].type,
      value |->
        CASE heap[c].type = "array" -> Among(v, kept)
          [] heap[c].type \in Dictionaries -> [k \in {k \in DOMAIN v : v[k] \in kept} |-> v[k]]
          [] OTHER -> v]]

(* The cells in the value of c, by the indices and keys that lead there.   *)
PlacesAt(heap, c) ==
  LET at[n \in 0..Depth(heap)] ==
        IF n = 0 THEN [p \in {<< >>} |-> c]
        ELSE LET before == at[n - 1]
             IN  [p \in UNION {{Append(q, k) : k \in Keys(heap[before[q]])} : q \in DOMAIN before} |->
                    heap[before[Front(p)]].value[Last(p)]]
  IN  at

Places(heap, c) ==
  LET at == PlacesAt(heap, c)
  IN  [p \in UNION {DOMAIN at[n] : n \in 0..Depth(heap)} |-> at[Len(p)][p]]

(* JSON is what is at each place: the keys of an array or object, or the   *)
(* value.  Over a heap without others, and for a cell that is not cyclic   *)
(* there.                                                                  *)
ToJson(heap, c) ==
  LET cell == Places(heap, c) IN
  [p \in DOMAIN cell |->
     LET content == heap[cell[p]] IN
     CASE content.type = "array"          -> [json |-> "array", value |-> DOMAIN content.value]
       [] content.type \in Dictionaries  -> [json |-> "object", value |-> DOMAIN content.value]
       [] OTHER                           -> [json |-> content.type, value |-> content.value]]

(* A new cell for each place.                                              *)
FromJson(heap, j) ==
  LET root == Fresh(heap)
      made == [c \in {root \o p : p \in DOMAIN j} |->
                 LET at == j[Tail(c)] IN
                 CASE at.json = "array" ->
                        [type |-> "array", value |-> [k \in at.value |-> Append(c, k)]]
                   [] at.json = "object" ->
                        [type |-> "dictionary", value |-> [k \in at.value |-> Append(c, k)]]
                   [] OTHER -> [type |-> at.json, value |-> at.value]]
  IN  Share(With(heap, made), root)
===============================================================================
