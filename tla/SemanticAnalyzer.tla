-------------------------- MODULE SemanticAnalyzer --------------------------
(***************************************************************************)
(* The semantic analyser (core/semantic_analyzer.c) behind the frontend:   *)
(* a first pass gives every node a type and widens values to what they are *)
(* stored in, a second one checks what is stored, passed and returned.     *)
(*                                                                         *)
(* Both passes look names up in the tables as the parser left them at the  *)
(* end of the file.  Neither stops at an error; a null type that is looked *)
(* into ends the program.                                                  *)
(*                                                                         *)
(* The type of a text, "*char", is looked up and never made: a text has    *)
(* none unless the file has spelled that type, or has taken the address of *)
(* a character before.                                                     *)
(*                                                                         *)
(* Left out: what becomes of the address of a call or a loop, and of a     *)
(* call of an array, where the code reads one member of a union as         *)
(* another.                                                                *)
(***************************************************************************)
EXTENDS Frontend

VARIABLES
    typed,          \* the statements behind the first pass, with their types
    analyzed,       \* the number of statements behind the second pass
    marks           \* what the passes met: <<"refused">>, <<"crash">>, and
                    \* <<"taken", table, name>> for a variable moved to memory,
                    \* <<"texts">> where the type "*char" was made

semanticVars == <<frontendVars, typed, analyzed, marks>>

-----------------------------------------------------------------------------
(***************************************************************************)
(* Types.                                                                  *)
(***************************************************************************)
Integer == {"int8", "int16", "int32", "int64"}     \* these also become addresses
Wider == [bool |-> "int8", char |-> "int8", int8 |-> "int16", int16 |-> "int32",
          int32 |-> "int64"]

Plain(name) == Type(<<name>>, 0)
Bool == Plain("bool")
IsPointer(t) == t.level > 0
IsBasic(t) == ~IsPointer(t) /\ ~IsArray(t)
Decayed(t) == Type(Element(t).name, Element(t).level + 1)

(* The types on the way of promotable_type.                                *)
RECURSIVE Promotions(_)
Promotions(t) ==
    {t} \cup IF IsArray(t) THEN {Decayed(t)}
             ELSE IF t.level = 0 /\ t.name[1] \in DOMAIN Wider
             THEN Promotions(Plain(Wider[t.name[1]]))
             ELSE {}

(* type_table_can_that_promote_to                                          *)
Promotes(t, target) ==
    /\ t # Null /\ target # Null
    /\ \/ target \in Promotions(t)
       \/ IsPointer(target) /\ \E int \in Integer : Plain(int) \in Promotions(t)

(* The type of two operands together, null if they have none.              *)
Join(a, b) ==
    IF Promotes(a, b) THEN b ELSE IF Promotes(b, a) THEN a ELSE Null

(* A type below the pointers is null; what is no pointer has none.         *)
Pointee(t) == IF IsPointer(t) THEN Type(t.name, t.level - 1) ELSE Null

-----------------------------------------------------------------------------
(***************************************************************************)
(* The first pass.                                                         *)
(***************************************************************************)
Give(n, type, found) == [type |-> type, found |-> found] @@ n

(* propagate_literal_types: whatever promotes to the target takes its      *)
(* type, down both operands; only names keep theirs.                       *)
(* Faulty: the target is taken to be the type of whatever is stored.       *)
WidenUnchecked(n, target) ==
    IF n.kind = "null" \/ target = Null \/ n.kind = "identifier" THEN n
    ELSE [n EXCEPT !.type = target]

RECURSIVE Widen(_, _)
Widen(n, target) ==
    LET type == IF n.kind # "identifier" /\ Promotes(n.type, target) THEN target ELSE n.type
    IN  IF n.kind = "null" \/ target = Null THEN n
        ELSE IF n.kind \in {"binary", "unary", "assignment", "index"}
        THEN [n EXCEPT !.type = type, !.left = Widen(@, target), !.right = Widen(@, target)]
        ELSE [n EXCEPT !.type = type]

RECURSIVE Nodes(_)
NodesOf(list) == FlattenSeq([k \in DOMAIN list |-> Nodes(list[k])])
Nodes(n) ==
    <<n>> \o NodesOf(
        CASE n.kind \in {"binary", "index", "assignment"} -> <<n.left, n.right>>
          [] n.kind = "unary" -> <<n.right>>
          [] n.kind = "call" -> n.args
          [] n.kind = "block" -> n.list
          [] n.kind = "loop" -> <<n.body, n.return, n.continue>>
          [] n.kind = "declaration" -> Append(n.list, n.right)
          [] n.kind = "function" -> <<n.body>>
          [] OTHER -> <<>>)
Marks(n) ==
    LET nodes == Nodes(n)
    IN  UNION {IF "found" \in DOMAIN nodes[k] THEN nodes[k].found ELSE {} : k \in DOMAIN nodes}

GLOBAL == 1
Refuse == {<<"refused">>}
Dead == {<<"crash">>}
StarChar == {<<"texts">>}

(* struct semantic_context, behind a node: its scope, and whether the type *)
(* table has the type of texts.                                            *)
After(c, n) == [c EXCEPT !.texts = @ \/ StarChar \subseteq Marks(n)]

(* An assignment carries the symbol of the variable it assigns to.         *)
Assigned(x) == IF x.kind = "assignment" THEN x.left ELSE x

(* Unary operators, on the typed operand.                                  *)
TypedUnary(n, x) ==
    LET t == x.type
        with == [n EXCEPT !.right = x]
        Basic1(type) == IF t = Null THEN Give(with, Null, Dead)
                        ELSE IF IsArray(t) \/ (n.op # "!" /\ IsPointer(t))
                        THEN Give(with, Null, Refuse)
                        ELSE Give(with, type, {})
    IN  CASE n.op = "!" -> Basic1(Bool)
          [] n.op \in {"~", "-"} -> Basic1(t)
          [] n.op = "*" ->
                 IF t = Null THEN Give(with, Null, Refuse)
                 ELSE IF IsPointer(t) THEN Give(with, Pointee(t), {})
                 ELSE IF IsArray(t) THEN Give(with, Decayed(t), {})
                 ELSE Give(with, Null, Refuse)
          [] n.op = "&" ->
                 LET v == Assigned(x)
                 IN  IF t = Null \/ v.kind # "identifier" THEN Give(with, Null, Dead)
                     ELSE Give(with, Type(t.name, t.level + 1),
                               (IF v.home = GLOBAL THEN {} ELSE {<<"taken", v.home, v.name>>})
                                   \cup IF t = Plain("char") THEN StarChar ELSE {})

(* Adding an integer to an address makes the integer as wide as one.       *)
TypedArithmetic(n, x, y) ==
    LET a == x.type
        b == y.type
        with == [n EXCEPT !.left = x, !.right = y]
        int64 == Plain("int64")
    IN  IF a = Null \/ b = Null THEN Give(with, IF a = Null THEN b ELSE a, {})
        ELSE IF n.op \in {"+", "-"} /\ IsPointer(a) /\ IsBasic(b)
        THEN Give([with EXCEPT !.right.type = int64], a, {})
        ELSE IF n.op = "+" /\ IsBasic(a) /\ IsPointer(b)
        THEN Give([with EXCEPT !.left.type = int64], b, {})
        ELSE IF n.op = "-" /\ IsPointer(a) /\ IsPointer(b) THEN Give(with, int64, {})
        ELSE Give(with, Join(a, b), IF Join(a, b) = Null THEN Refuse ELSE {})

TypedBinary(n, x, y) ==
    LET a == x.type
        b == y.type
        with == [n EXCEPT !.left = x, !.right = y]
        unknown == a = Null \/ b = Null
    IN  IF n.op \in Operators[4]
        THEN IF unknown \/ Join(a, b) # Null THEN Give(with, Bool, {})
             ELSE Give(with, Null, Refuse)
        ELSE IF n.op \in UNION {Operators[k] : k \in {1, 2, 3, 5}}
        THEN IF unknown THEN Give(with, Null, {})
             ELSE IF IsBasic(a) /\ IsBasic(b) /\ Join(a, b) # Null
             THEN Give(with, Join(a, b), {})
             ELSE Give(with, Null, Refuse)
        ELSE TypedArithmetic(n, x, y)

TypedIndex(n, x, y) ==
    LET with == [n EXCEPT !.left = x, !.right = y]
    IN  IF x.type = Null THEN Give(with, Null, Dead)
        ELSE Give(with, IF IsArray(x.type) THEN Element(x.type) ELSE Pointee(x.type), {})

RECURSIVE Typed(_, _), TypedList(_, _)
TypedList(list, c) ==
    IF list = <<>> THEN <<>>
    ELSE With(Typed(Head(list), c), LAMBDA n : <<n>> \o TypedList(Tail(list), After(c, n)))

TypedBlock(n, c) ==
    With(TypedList(n.list, [c EXCEPT !.scope = n.scope]), LAMBDA list :
        Give([n EXCEPT !.list = list], IF list = <<>> THEN Null ELSE Last(list).type, {}))

TypedCall(n, c) ==
    LET f == LookUp(parser.scopes, c.scope, n.name)
        with == [n EXCEPT !.args = TypedList(@, c)]
    IN  IF f = Undefined THEN Give(with, Null, Refuse)
        ELSE Give(with, IF f.kind = "function" THEN f.result ELSE Null, {})

TypedDeclaration(n, c) ==
    LET type == LookUp(parser.scopes, c.scope, n.name).type
    IN  IF IsArray(type)
        THEN With(TypedList(n.list, c), LAMBDA list :
                 Give([n EXCEPT !.list = [k \in DOMAIN list |-> Widen(list[k], type)]], type, {}))
        ELSE With(Typed(n.right, c), LAMBDA value :
                 Give([n EXCEPT !.right = Widen(value, type)], type, {}))

TypedFunction(n, c) ==
    LET result == parser.scopes[1].symbols[n.name].result
    IN  With(TypedBlock(n.body, c), LAMBDA body :
            IF Promotes(body.type, result) THEN Give([n EXCEPT !.body = body], result, {})
            ELSE Give([n EXCEPT !.body = body], Null, Refuse))

(* Faulty: the block behind "continue" is forgotten.                       *)
TypedLoopUnfinished(n, c) ==
    With(TypedBlock(n.body, c), LAMBDA body :
    With(TypedBlock(n.return, After(c, body)), LAMBDA return :
        Give([n EXCEPT !.body = body, !.return = return], return.type, {})))

TypedLoop(n, c) ==
    With(TypedBlock(n.body, c), LAMBDA body :
    With(TypedBlock(n.continue, After(c, body)), LAMBDA continue :
    With(TypedBlock(n.return, After(After(c, body), continue)), LAMBDA return :
        Give([n EXCEPT !.body = body, !.continue = continue, !.return = return],
             return.type, {}))))

(* semantic_analyzer_calculate_type_infos, in context c.                   *)
Typed(n, c) ==
    LET Operands(F(_, _)) == With(Typed(n.left, c), LAMBDA x :
                                 With(Typed(n.right, After(c, x)), LAMBDA y : F(x, y)))
    IN  CASE n.kind = "number" -> Give(n, Plain("int8"), {})
          [] n.kind = "text" -> Give(n, IF c.texts THEN Type(<<"char">>, 1) ELSE Null, {})
          [] n.kind = "char" -> Give(n, Plain("char"), {})
          [] n.kind = "asm" -> Give(n, Null, {})
          [] n.kind = "identifier" ->
                 Give([n EXCEPT !.home = Home(parser.scopes, c.scope, n.name)],
                      LookUp(parser.scopes, c.scope, n.name).type, {})
          [] n.kind = "unary" -> With(Typed(n.right, c), LAMBDA x : TypedUnary(n, x))
          [] n.kind = "binary" -> Operands(LAMBDA x, y : TypedBinary(n, x, y))
          [] n.kind = "index" -> Operands(LAMBDA x, y : TypedIndex(n, x, y))
          [] n.kind = "assignment" ->
                 Operands(LAMBDA x, y :
                     Give([n EXCEPT !.left = x, !.right = Widen(y, x.type)], x.type, {}))
          [] n.kind = "call" -> TypedCall(n, c)
          [] n.kind = "block" -> TypedBlock(n, c)
          [] n.kind = "loop" -> TypedLoop(n, c)
          [] n.kind = "declaration" -> TypedDeclaration(n, c)
          [] n.kind = "function" -> TypedFunction(n, c)

-----------------------------------------------------------------------------
(***************************************************************************)
(* The second pass: what it meets in a node of scope s.  It does not go    *)
(* into loops, arguments and the elements of arrays.                       *)
(***************************************************************************)
Unless(cond) == IF cond THEN {} ELSE Refuse

(* Before purity is looked at the function's own block has been left: a    *)
(* call is looked up outside, among symbols that never are flagged pure.   *)
Purity(f) ==
    LET Impure(m) == \/ m.kind = "call"
                     \/ m.kind = "assignment" /\ m.left.kind = "unary" /\ m.left.op = "*"
        list == f.body.list
    IN  Unless(parser.scopes[GLOBAL].symbols[f.name].pure
                   => \A k \in DOMAIN list : ~Impure(list[k]))

(* A text without a type is looked up once more, in vain: a parameter that *)
(* takes texts has spelled their type.                                     *)
CheckedCall(n, s) ==
    LET f == LookUp(parser.scopes, s, n.name)
    IN  IF f = Undefined THEN Refuse
        ELSE IF f.kind # "function" THEN Dead
        ELSE Unless(/\ Len(f.params) = Len(n.args)
                    /\ \A k \in DOMAIN n.args : Promotes(n.args[k].type, f.params[k].type))

CheckedDeclaration(n, s) ==
    IF IsArray(n.type)
    THEN Unless(/\ s # GLOBAL
                /\ \A k \in DOMAIN n.list : Promotes(n.list[k].type, Element(n.type)))
    ELSE Unless(n.right.type = Null \/ Promotes(n.right.type, n.type))

RECURSIVE Checked(_, _)
CheckedList(list, s) == UNION {Checked(list[k], s) : k \in DOMAIN list}

Checked(n, s) ==
    CASE n.kind \in {"number", "text", "char", "identifier"} -> {}
      [] n.kind \in {"asm", "loop"} -> Unless(s # GLOBAL)
      [] n.kind = "unary" -> Checked(n.right, s) \cup Unless(s # GLOBAL)
      [] n.kind \in {"binary", "index"} ->
             Checked(n.left, s) \cup Checked(n.right, s) \cup Unless(s # GLOBAL)
      [] n.kind = "assignment" ->
             Checked(n.left, s) \cup Checked(n.right, s)
                 \cup Unless(s # GLOBAL /\ Promotes(n.right.type, n.left.type))
      [] n.kind = "call" -> IF s = GLOBAL THEN Refuse ELSE CheckedCall(n, s)
      [] n.kind = "declaration" ->
             CheckedDeclaration(n, s)
                 \cup IF n.right = Null THEN {} ELSE Checked(n.right, s)
      [] n.kind = "block" -> CheckedList(n.list, n.scope)
      [] n.kind = "function" -> CheckedList(n.body.list, n.body.scope) \cup Purity(n)

-----------------------------------------------------------------------------
(***************************************************************************)
(* semantic_analyzer_run_analyzer: the first pass over every statement of  *)
(* the file, then the second one.                                          *)
(***************************************************************************)
AnalysisInit == Init /\ typed = <<>> /\ analyzed = 0 /\ marks = {}

Parsing ==
    /\ Next
    /\ UNCHANGED <<typed, analyzed, marks>>

Analyzing == Accepted /\ Dead \cap marks = {}

TypeInfos ==
    /\ Analyzing
    /\ Len(typed) < Len(program)
    /\ \E n \in {Typed(program[Len(typed) + 1],
                       [scope |-> GLOBAL, texts |-> parser.texts \/ StarChar \subseteq marks])} :
           /\ typed' = Append(typed, n)
           /\ marks' = marks \cup Marks(n)
    /\ UNCHANGED <<frontendVars, analyzed>>

Analyze ==
    /\ Analyzing
    /\ Len(typed) = Len(program)
    /\ analyzed < Len(program)
    /\ analyzed' = analyzed + 1
    /\ marks' = marks \cup Checked(typed[analyzed + 1], GLOBAL)
    /\ UNCHANGED <<frontendVars, typed>>

AnalysisNext == Parsing \/ TypeInfos \/ Analyze

AnalysisSpec == AnalysisInit /\ [][AnalysisNext]_semanticVars

(* What the analyser lets through to be lowered.                           *)
Passed == Accepted /\ analyzed = Len(program) /\ (Refuse \cup Dead) \cap marks = {}

-----------------------------------------------------------------------------
(***************************************************************************)
(* What a value is, found from its leaves without a target in sight.       *)
(***************************************************************************)
Width == [bool |-> 0, char |-> 0, int8 |-> 1, int16 |-> 2, int32 |-> 3, int64 |-> 4]
IsAddress(t) == IsPointer(t) \/ IsArray(t)

RECURSIVE Natural(_)
Natural(n) ==
    LET left == Natural(n.left)
        right == Natural(n.right)
        Last2(block) == IF block.list = <<>> THEN Null ELSE Natural(Last(block.list))
    IN  CASE n.kind = "number" -> Plain("int8")
          [] n.kind = "char" -> Plain("char")
          [] n.kind = "text" -> Type(<<"char">>, 1)
          [] n.kind = "asm" -> Null
          [] n.kind = "identifier" -> parser.scopes[n.home].symbols[n.name].type
          [] n.kind = "call" -> parser.scopes[GLOBAL].symbols[n.name].result
          [] n.kind = "declaration" -> n.type
          [] n.kind = "assignment" -> left
          [] n.kind = "block" -> Last2(n)
          [] n.kind = "loop" -> Last2(n.return)
          [] n.kind = "index" -> IF IsArray(left) THEN Element(left) ELSE Pointee(left)
          [] n.kind = "unary" /\ n.op = "!" -> Bool
          [] n.kind = "unary" /\ n.op \in {"~", "-"} -> right
          [] n.kind = "unary" /\ n.op = "&" -> Type(right.name, right.level + 1)
          [] n.kind = "unary" /\ n.op = "*" ->
                 IF IsArray(right) THEN Decayed(right) ELSE Pointee(right)
          [] n.kind = "binary" ->
                 IF n.op \in Operators[4] THEN Bool
                 ELSE IF left = Null \/ right = Null THEN Null
                 ELSE IF n.op = "-" /\ IsPointer(left) /\ IsPointer(right) THEN Plain("int64")
                 ELSE IF IsAddress(left) THEN left
                 ELSE IF IsAddress(right) \/ Width[left.name[1]] < Width[right.name[1]] THEN right
                 ELSE left

Fits(value, target) ==
    IF IsPointer(value) THEN value = target
    ELSE IF IsArray(value) THEN target \in {value, Decayed(value)}
    ELSE \/ IsPointer(target)
         \/ value = target
         \/ ~IsArray(target) /\ Width[value.name[1]] < Width[target.name[1]]

(* Whether every text in a value has its type.                             *)
Told(n) == \A k \in DOMAIN Nodes(n) : Nodes(n)[k].kind = "text" => Nodes(n)[k].type # Null

(* Where values go, loops and arguments of arguments aside.                *)
Store(to, value) == [to |-> to, value |-> Natural(value), told |-> Told(value)]

RECURSIVE Stores(_)
StoresOf(list) == UNION {Stores(list[k]) : k \in DOMAIN list}
Stores(n) ==
    CASE n.kind = "declaration" /\ IsArray(n.type) ->
             {Store(Element(n.type), n.list[k]) : k \in DOMAIN n.list}
      [] n.kind = "declaration" /\ ~IsArray(n.type) -> {Store(n.type, n.right)} \cup Stores(n.right)
      [] n.kind = "assignment" ->
             {Store(Natural(n.left), n.right)} \cup Stores(n.left) \cup Stores(n.right)
      [] n.kind \in {"binary", "index"} -> Stores(n.left) \cup Stores(n.right)
      [] n.kind = "unary" -> Stores(n.right)
      [] n.kind = "call" ->
             LET params == parser.scopes[GLOBAL].symbols[n.name].params
             IN  IF Len(params) = Len(n.args)
                 THEN {Store(params[k].type, n.args[k]) : k \in DOMAIN params}
                 ELSE {[to |-> Null, value |-> Plain("int8"), told |-> TRUE]}
      [] n.kind = "block" -> StoresOf(n.list)
      [] n.kind = "function" ->
             {Store(parser.scopes[GLOBAL].symbols[n.name].result, n.body)} \cup StoresOf(n.body.list)
      [] OTHER -> {}

(* What is stored fits: an address only in a pointer to the same, a number *)
(* only in something as wide.                                              *)
AllFits(stores) == \A s \in stores : s.value # Null => s.to # Null /\ Fits(s.value, s.to)

(* Widening a value to its target before the check does not let anything   *)
(* through the check: in a program that is passed, whatever is declared,   *)
(* assigned, passed or returned outside a loop fits where it goes.  A      *)
(* value that the analyser finds no type for is not looked at: inline      *)
(* assembly, what stands below no pointer, and a text where the type table *)
(* has no "*char" (semantic_analyzer.c:237).                               *)
PassedFits ==
    Passed => \A k \in DOMAIN typed : AllFits({s \in Stores(typed[k]) : s.told})

(* The same of every text.  The code breaks it: var t: int8 = "s"; passes  *)
(* in a file that does not spell "*char".                                  *)
TextsFit ==
    Passed => \A k \in DOMAIN typed : AllFits(Stores(typed[k]))

(* "is_address_taken; // If it is true, this operand must be in the        *)
(* memory": wherever in the file the address of a variable is taken, in a  *)
(* block of a loop, an argument or an initialiser too, the variable is     *)
(* moved to memory before anything is lowered.                             *)
TakenIsInMemory ==
    Passed => \A k \in DOMAIN program :
        LET found == Nodes(program[k])
            typedNodes == Nodes(typed[k])
        IN  \A m \in DOMAIN found :
                found[m].kind = "unary" /\ found[m].op = "&" =>
                    LET variable == Assigned(typedNodes[m + 1])
                    IN  variable.home = GLOBAL
                            \/ <<"taken", variable.home, variable.name>> \in marks

(* A name means the declaration that stood before it where the parser met  *)
(* it, also when a declaration behind it shadows that one.                 *)
Homes(n) == SelectSeq(Nodes(n), LAMBDA m : m.kind = "identifier")
NamesKeepTheirDeclaration ==
    Passed => \A k \in DOMAIN program :
        LET before == Homes(program[k])
            after == Homes(typed[k])
        IN  \A m \in DOMAIN before : before[m].home = after[m].home
=============================================================================
