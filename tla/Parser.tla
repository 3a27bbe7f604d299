------------------------------- MODULE Parser -------------------------------
(***************************************************************************)
(* The recursive-descent parser (core/parser.c): from the tokens of a file *)
(* to the trees of its statements, with the symbol tables the parser       *)
(* builds on its way.                                                      *)
(*                                                                         *)
(* Every parser_parse_* function is an operator from parser state to       *)
(* parser state.  The state holds the cursor, the node the function        *)
(* returns (Null for the C null pointer), and the fields of struct         *)
(* parser_t that decide anything.  A token is the string it is written as; *)
(* whether it is a name, a number or a text is told by the constants.      *)
(* Past the last token the parser reads the zeroed slot that the           *)
(* preprocessor's output vector always keeps: type 0, "eof", no token.     *)
(*                                                                         *)
(* Left out: mangled names and the block counter in them, line numbers,    *)
(* and the "unique" flag of a variable, which nothing here reads.          *)
(***************************************************************************)
EXTENDS Integers, Sequences, FiniteSets, Functions, SequencesExt, Once

LOCAL INSTANCE Bitwise

CONSTANTS
    Names,          \* the identifiers
    Literals,       \* integer literals: token |-> value
    Chars,          \* character literals
    Texts,          \* string literals with something in them
    EmptyTexts,     \* string literals with nothing in them
    Basic           \* type_table_init_builtins: name |-> size

ASSUME TokensApart ==
    /\ Names \cap (DOMAIN Literals \cup Chars \cup Texts \cup EmptyTexts) = {}
    /\ DOMAIN Basic \subseteq Names
    /\ Range(Literals) \cup Range(Basic) \subseteq Nat

-----------------------------------------------------------------------------
(***************************************************************************)
(* Nodes and types.                                                        *)
(***************************************************************************)
Null == [kind |-> "null"]
Pending == [kind |-> "pending"]      \* what a function holds before it returns

Leaf(kind, name) == [kind |-> kind, name |-> name]
Identifier(name, home) == [kind |-> "identifier", name |-> name, home |-> home]
Pair(kind, op, left, right) == [kind |-> kind, op |-> op, left |-> left, right |-> right]

(* A type is a base name and a number of stars.  The name of an array is   *)
(* the name of its element followed by the element's stars and the count.  *)
Type(name, level) == [kind |-> "type", name |-> name, level |-> level]
IsArray(type) == Len(type.name) > 1 /\ type.level = 0
Element(type) ==
    LET n == Len(type.name) IN Type(SubSeq(type.name, 1, n - 2), type.name[n - 1])
Count(type) == type.name[Len(type.name)]

Builtin == DOMAIN Basic \cup {"fn"}

RECURSIVE SizeOf(_)
SizeOf(type) ==
    IF type.level > 0 THEN 8
    ELSE IF IsArray(type) THEN Count(type) * SizeOf(Element(type))
    ELSE IF type.name = <<"fn">> THEN 8
    ELSE Basic[type.name[1]]

-----------------------------------------------------------------------------
(***************************************************************************)
(* The state of the parser, and its cursor.  Of the type table, arrays     *)
(* says which arrays have been made, texts whether "*char" has been.       *)
(***************************************************************************)
Fresh(tokens) ==
    [ tokens |-> tokens, at |-> 1, node |-> Pending, ok |-> TRUE, crash |-> FALSE,
      scopes |-> << [parent |-> 0, symbols |-> <<>>] >>, scope |-> 1,
      arrays |-> {}, texts |-> FALSE, depth |-> 0, loops |-> 0, loop |-> 0 ]

AtEnd(p) == p.at > Len(p.tokens)
Peek(p, n) == IF p.at + n <= Len(p.tokens) THEN p.tokens[p.at + n] ELSE "eof"
Token(p) == Peek(p, 0)

Skip(p) == [p EXCEPT !.at = @ + 1]
Return(p, node) == [p EXCEPT !.node = node]
Failed(p) == p.node.kind = "null"
Fail(p) == [p EXCEPT !.node = Null, !.ok = FALSE]
Crash(p) == [p EXCEPT !.node = Null, !.ok = FALSE, !.crash = TRUE]
Ready(p) == Return(p, Pending)

(* For a function that returns at once when what it called returned null.  *)
Then(p, F(_)) == With(p, LAMBDA q : IF Failed(q) THEN q ELSE F(q))

(* EAT_OR_RETURN: a wrong token is passed as well.                         *)
Eat(p, expected) ==
    Then(p, LAMBDA q : IF Token(q) \in expected THEN Skip(q) ELSE Fail(Skip(q)))

(* calculate_pointer_level: the stars at the cursor.                       *)
Stars(p) == CHOOSE n \in 0 .. Len(p.tokens) :
                Peek(p, n) # "*" /\ \A i \in 0 .. n - 1 : Peek(p, i) = "*"
PassStars(p) == With(p, LAMBDA q : [q EXCEPT !.at = @ + Stars(q)])

(* After an error: behind the next semicolon, or at what starts or ends a  *)
(* statement, but never at the token that is there now.                    *)
Synchronize(p) ==
    LET stops == {i \in p.at + 1 .. Len(p.tokens) :
                      p.tokens[i] \in {";", "fn", "var", "{", "}"}}
    IN  IF AtEnd(p) THEN p
        ELSE IF stops = {} THEN [p EXCEPT !.at = Len(p.tokens) + 1]
        ELSE LET i == CHOOSE i \in stops : \A j \in stops : i <= j
             IN  [p EXCEPT !.at = IF p.tokens[i] = ";" THEN i + 1 ELSE i]

-----------------------------------------------------------------------------
(***************************************************************************)
(* Symbols and types.                                                      *)
(***************************************************************************)
NewScope(p) ==
    [p EXCEPT !.scopes = Append(@, [parent |-> p.scope, symbols |-> <<>>]),
              !.scope = Len(p.scopes) + 1]
(* Faulty: the block's own table stays the current one.                    *)
LeaveScopeForgotten(p) == p
LeaveScope(p) == [p EXCEPT !.scope = p.scopes[p.scope].parent]

Undefined == [kind |-> "undefined"]
Variable(type) == [kind |-> "variable", type |-> type]

(* symbol_table_define                                                     *)
Define(p, scope, name, symbol) ==
    IF name \in DOMAIN p.scopes[scope].symbols THEN Fail(p)
    ELSE [p EXCEPT !.scopes[scope].symbols =
                       [n \in DOMAIN @ \cup {name} |-> IF n = name THEN symbol ELSE @[n]]]

(* symbol_table_look_up: the innermost table that has the name, 0 if none, *)
(* and the symbol there.                                                   *)
RECURSIVE Home(_, _, _)
Home(scopes, scope, name) ==
    IF scope = 0 \/ name \in DOMAIN scopes[scope].symbols THEN scope
    ELSE Home(scopes, scopes[scope].parent, name)

LookUp(scopes, scope, name) ==
    LET home == Home(scopes, scope, name)
    IN  IF home = 0 THEN Undefined ELSE scopes[home].symbols[name]

(* type_table_get_or_create_pointer_type_info: null for an unknown name;   *)
(* with a star before it the missing pointee is written through.  What has *)
(* more stars is made behind what has fewer.                               *)
Pointer(p, name, level) ==
    IF name \in {<<b>> : b \in Builtin} \cup p.arrays
    THEN Return([p EXCEPT !.texts = @ \/ (name = <<"char">> /\ level > 0)], Type(name, level))
    ELSE IF level > 0 THEN Crash(p)
    ELSE Fail(p)

(* type_table_dereference: null below no star at all.                      *)
RECURSIVE Dereference(_, _)
Dereference(type, n) ==
    IF n = 0 \/ type = Null THEN type
    ELSE Dereference(IF IsArray(type) THEN Type(Element(type).name, Element(type).level + 1)
                     ELSE IF type.level > 0 THEN Type(type.name, type.level - 1)
                     ELSE Null, n - 1)

(* parser_evaluate_int, on the tree of an array's size.                    *)
Bit(b) == IF b THEN 1 ELSE 0

RECURSIVE Evaluate(_)
Evaluate(node) ==
    IF node.kind = "number" THEN node.name
    ELSE IF node.kind # "binary" THEN 0
    ELSE LET a == Evaluate(node.left)
             b == Evaluate(node.right)
         IN  CASE node.op = "+" -> a + b
               [] node.op = "-" -> a - b
               [] node.op = "*" -> a * b
               [] node.op = "/" -> IF b = 0 THEN 0 ELSE a \div b
               [] node.op = "%" -> IF b = 0 THEN 0 ELSE a % b
               [] node.op = "<<" -> a * 2 ^ b
               [] node.op = ">>" -> a \div 2 ^ b
               [] node.op = "&" -> a & b
               [] node.op = "|" -> a | b
               [] node.op = "^" -> a ^^ b
               [] node.op = "==" -> Bit(a = b)
               [] node.op = ">=" -> Bit(a >= b)
               [] node.op = "<=" -> Bit(a <= b)
               [] node.op = ">" -> Bit(a > b)
               [] node.op = "<" -> Bit(a < b)
               [] OTHER -> 0

-----------------------------------------------------------------------------
(***************************************************************************)
(* Expressions, from the loosest operators to the tightest.                *)
(***************************************************************************)
Operators == << {"|"}, {"^"}, {"&"}, {"==", "!=", "<=", ">=", "<", ">"},
                {"<<", ">>"}, {"+", "-"}, {"*", "/", "%"} >>
UnaryOperators == {"-", "+", "!", "*", "&", "~"}
Argument == 3       \* an argument is parsed from "&" on

RECURSIVE Level(_, _), Chain(_, _), Unary(_), Postfix(_), Factor(_), Arguments(_, _, _),
          TypeQuery(_), ArrayType(_), Elements(_, _), Loop(_), Block(_, _),
          Statements(_, _), Statement(_)

Expression(p) == Level(1, Ready(p))

(* The value may be null: the assignment is returned all the same.         *)
Assignment(p) ==
    With(Expression(Skip(p)), LAMBDA value :
        Return(value, Pair("assignment", "=", p.node, value.node)))

(* parser_parse_bitwise_or and the levels under it: an operand, then as    *)
(* many operators of the level as follow.  Only the loosest one assigns.   *)
Level(k, p) ==
    IF k > Len(Operators) THEN Unary(p)
    ELSE Then(Level(k + 1, p), LAMBDA left :
             IF k = 1 /\ Token(left) = "=" THEN Assignment(left) ELSE Chain(k, left))

(* Faulty: the right operand takes the operators of the same level.        *)
ChainToTheRight(k, p) ==
    IF Token(p) \notin Operators[k] THEN p
    ELSE Then(Level(k, Skip(p)), LAMBDA right :
             Return(right, Pair("binary", Token(p), p.node, right.node)))

Chain(k, p) ==
    IF Token(p) \notin Operators[k] THEN p
    ELSE Then(Level(k + 1, Skip(p)), LAMBDA right :
             Chain(k, Return(right, Pair("binary", Token(p), p.node, right.node))))

Unary(q) == With(q, LAMBDA p :
    IF AtEnd(p) THEN Fail(p)
    ELSE IF Token(p) \notin UnaryOperators THEN With(Factor(p), Postfix)
    ELSE Then(Unary(Skip(p)), LAMBDA operand :
             IF Token(p) = "+" THEN operand
             ELSE Return(operand, Pair("unary", Token(p), Null, operand.node))))

(* Neither the indexed node nor the index is looked at: both may be null.  *)
Postfix(p) ==
    IF Token(p) # "[" THEN p
    ELSE With(Expression(Skip(p)), LAMBDA index :
             Then(Eat(Return(index, Pair("index", "[", p.node, index.node)), {"]"}), Postfix))

Factor(p) ==
    LET token == Token(p)
    IN  CASE token \in DOMAIN Literals -> Return(Skip(p), Leaf("number", Literals[token]))
          [] token \in Texts -> Return(Skip(p), Leaf("text", token))
          [] token \in Chars -> Return(Skip(p), Leaf("char", token))
          [] token \in Names /\ Peek(p, 1) = "(" -> Arguments(Skip(Skip(p)), token, <<>>)
          [] token \in Names /\ Peek(p, 1) # "(" ->
                 LET home == Home(p.scopes, p.scope, token)
                 IN  IF home = 0 THEN Fail(Skip(p))
                     ELSE Return(Skip(p), Identifier(token, home))
          [] token = "(" ->
                 Then(Expression(Skip(p)), LAMBDA inner :
                     IF AtEnd(inner) THEN Fail(inner) ELSE Eat(inner, {")"}))
          [] token \in {"sizeof", "alignof", "typeof", "stof"} -> TypeQuery(p)
          [] token = "loop" -> Loop(p)
          [] OTHER -> Fail(Skip(p))

(* parser_parse_call, behind the parenthesis: the commas may be missing,   *)
(* and the last one may be there.                                          *)
Arguments(p, name, args) ==
    IF AtEnd(p) THEN Fail(p)
    ELSE IF Token(p) = ")"
    THEN Return(Skip(p), [kind |-> "call", name |-> name, args |-> args])
    ELSE Then(Level(Argument, Ready(p)), LAMBDA arg :
             Arguments(IF Token(arg) = "," THEN Skip(arg) ELSE arg,
                       name, Append(args, arg.node)))

(* A type at the cursor, behind its stars: an array, or a name.  Where the *)
(* parser uses a null type before it tests it, null is a crash.            *)
ArrayOf(p, stars) ==
    With(ArrayType(p), LAMBDA array :
        IF Failed(array) THEN Crash(array) ELSE Pointer(array, array.node.name, stars))
NamedType(p, stars) == Then(Eat(p, Names), LAMBDA word : Pointer(word, <<Token(p)>>, stars))

(* sizeof and alignof take a type, typeof and stof a variable behind as    *)
(* many stars as it is dereferenced.                                       *)
TypeQuery(p) ==
    LET open == Eat(Skip(p), {"("})
        at == PassStars(open)
        type == IF Token(at) = "[" THEN ArrayOf(at, Stars(open))
                ELSE With(NamedType(at, Stars(open)), LAMBDA t :
                         IF Failed(t) /\ Token(at) \in Names THEN Crash(t) ELSE t)
        symbol == LookUp(p.scopes, p.scope, Token(at))
        target == Dereference(symbol.type, Stars(open))
        \* "stof" notices a type below no star, unless more stars follow
        noticed == Token(p) = "stof" /\ Dereference(symbol.type, Stars(open) - 1) # Null
        variable == Then(Eat(at, Names), LAMBDA named :
                        IF symbol = Undefined
                        THEN IF Token(p) = "typeof" THEN Crash(named) ELSE Fail(named)
                        ELSE IF target = Null THEN IF noticed THEN Fail(named) ELSE Crash(named)
                        ELSE Return(named, target))
        OfType == Token(p) \in {"sizeof", "alignof"}
    IN  IF Failed(open) THEN open
        ELSE Then(Eat(IF OfType THEN type ELSE variable, {")"}), LAMBDA result :
                 LET size == SizeOf(result.node)
                 IN  Return(result,
                            CASE Token(p) = "typeof" -> Leaf("text", "typeof")
                              [] Token(p) = "alignof" -> Leaf("number", ((size + 7) \div 8) * 8)
                              [] OTHER -> Leaf("number", size)))

-----------------------------------------------------------------------------
(***************************************************************************)
(* Declarations.                                                           *)
(***************************************************************************)
(* parser_parse_array_declaration: nested arrays are an error, but parsed; *)
(* an unknown element is noticed behind the bracket.  An array is made     *)
(* together with the pointer to its elements.                              *)
ArrayType(p) ==
    LET open == Eat(p, {"["})
        at == PassStars(open)
        named == Pointer(at, <<Token(at)>>, Stars(open))
        element == IF Token(at) = "[" THEN ArrayOf([at EXCEPT !.ok = FALSE], Stars(open))
                   ELSE IF named.crash THEN named
                   ELSE Eat([Ready(at) EXCEPT !.texts = named.texts], Names)
        Finish(type, size) ==
            LET name == type.name \o <<type.level, Evaluate(size.node)>>
            IN  Then(Eat(Ready(size), {"]"}), LAMBDA closed :
                    IF type = Null THEN Crash(closed)
                    ELSE Return([closed EXCEPT !.arrays = @ \cup {name},
                                               !.texts = @ \/ type.name = <<"char">>],
                                Type(name, 0)))
    IN  IF Failed(open) THEN open
        ELSE Then(Eat(element, {","}), LAMBDA comma :
                 With(Expression(comma), LAMBDA size :
                     Finish(IF Token(at) = "[" THEN comma.node ELSE named.node, size)))

(* The elements of an array's initialiser: the commas count for nothing.   *)
Elements(p, list) ==
    IF Failed(p) THEN p
    ELSE IF Token(p) = "}" THEN Return(p, [kind |-> "list", list |-> list])
    ELSE IF Token(p) = "," THEN Elements(Skip(p), list)
    ELSE Then(Expression(p), LAMBDA value : Elements(value, Append(list, value.node)))

PassUnique(p) == IF Token(p) = "unique" THEN Skip(p) ELSE p

(* The symbol is defined last: the initial value does not see it.          *)
VariableDeclaration(p) ==
    LET name == Peek(p, 1)
        head == Eat(Eat(Skip(p), Names), {":"})
        at == PassStars(head)
        isArray == Token(at) = "["
        typed == IF isArray THEN ArrayOf(at, Stars(head)) ELSE NamedType(at, Stars(head))
        Declare(q, type, right, list) ==
            Then(Define(q, q.scope, name, Variable(type)), LAMBDA defined :
                Return(defined, [kind |-> "declaration", name |-> name, right |-> right,
                                 list |-> list]))
        Listed(q, type) ==
            Then(Eat(Elements(Eat(q, {"{"}), <<>>), {"}"}), LAMBDA closed :
                IF Len(closed.node.list) > (IF IsArray(type) THEN Count(type) ELSE 0)
                THEN Fail(closed)
                ELSE Declare(closed, type, Null, closed.node.list))
    IN  IF p.at + 1 > Len(p.tokens) THEN Fail(Skip(p))
        ELSE IF Failed(head) THEN head
        ELSE Then(typed, LAMBDA q :
                 LET flagged == PassUnique(q)
                     valued == Eat(flagged, {"="})
                 IN  IF isArray /\ Token(flagged) # "="
                     THEN Declare(flagged, q.node, Null, <<>>)
                     ELSE IF Failed(valued) THEN valued
                     ELSE IF isArray THEN Listed(valued, q.node)
                     ELSE Then(Expression(valued), LAMBDA value :
                              Declare(value, q.node, value.node, <<>>)))

(* parser_parse_parameters: the types are made as they are met, before     *)
(* what stands there is seen to be a name.                                 *)
RECURSIVE Parameters(_, _)
Parameters(p, list) ==
    LET head == Eat(Eat(p, Names), {":"})
        at == PassStars(head)
    IN  IF Failed(p) THEN p
        ELSE IF AtEnd(p) \/ Token(p) = ")" THEN Return(p, [kind |-> "list", list |-> list])
        ELSE Then(head, LAMBDA h :
             Then(Pointer(at, <<Token(at)>>, Stars(head)), LAMBDA type :
             Then(Eat(type, Names), LAMBDA word :
                 LET flagged == PassUnique(word)
                     longer == Append(list, [name |-> Token(p), type |-> type.node])
                 IN  IF Token(flagged) # "," THEN Parameters(flagged, longer)
                     ELSE IF Peek(flagged, 1) = ")" THEN Fail(Skip(flagged))
                     ELSE Parameters(Skip(flagged), longer))))

(* The name of the result type is taken before its stars are passed: a     *)
(* function that returns a pointer names the type "*", which none is.      *)
ResultType(p) == IF Token(p) \in Builtin THEN Eat(p, Names) ELSE Fail(PassStars(p))

(* The function's own symbol is defined behind its body.                   *)
Function(p) ==
    LET name == Peek(p, 1)
        Inner(q, params) ==
            FoldLeft(LAMBDA r, param :
                         Then(r, LAMBDA s : Define(s, Len(q.scopes) + 1, param.name,
                                                   Variable(param.type))),
                     [NewScope(q) EXCEPT !.scope = p.scope], params)
        Defined(q, self) ==
            Then(Define(q, p.scope, name, self), LAMBDA defined :
                Return(defined, [kind |-> "function", name |-> name, body |-> q.node]))
        Body(q, params, result, pure) ==
            Then(Inner(q, params), LAMBDA inner :
                With(Block([inner EXCEPT !.scope = Len(q.scopes) + 1], FALSE), LAMBDA body :
                    Then([body EXCEPT !.scope = p.scope], LAMBDA after :
                        Defined(after, [kind |-> "function", type |-> Type(<<"fn">>, 0),
                                        params |-> params, result |-> result,
                                        pure |-> pure]))))
    IN  IF p.scopes[p.scope].parent # 0 THEN Fail(p)
        ELSE Then(Parameters(Eat(Eat(Skip(p), Names), {"("}), <<>>), LAMBDA params :
             Then(Eat(Eat(params, {")"}), {":"}), LAMBDA head :
             Then(ResultType(head), LAMBDA typed :
                 LET pure == Token(typed) = "pure"
                 IN  Body(IF pure THEN Skip(typed) ELSE typed, params.node.list,
                          Type(<<Token(head)>>, 0), pure))))

-----------------------------------------------------------------------------
(***************************************************************************)
(* Statements.                                                             *)
(***************************************************************************)
(* The three blocks of a loop share the scope of the first.  An error      *)
(* leaves the scope and the loop counters as they are.                     *)
Loop(p) ==
    LET start == [Skip(p) EXCEPT !.depth = @ + 1, !.loops = @ + 1, !.loop = p.loops + 1]
        Part(q, word, scope) ==
            Then(Eat(Ready(q), {word}), LAMBDA head :
                Block([head EXCEPT !.scope = scope], FALSE))
        Closed(q, scope) == [q EXCEPT !.scope = q.scopes[scope].parent,
                                      !.depth = @ - 1, !.loop = p.loop]
    IN  \* what stands behind "approx" is passed unseen
        Then(Block(IF Token(start) = "approx" THEN Skip(Skip(start)) ELSE start, TRUE),
             LAMBDA body :
        Then(Part(body, "return", body.node.scope), LAMBDA return :
        Then(Part(return, "continue", body.node.scope), LAMBDA continue :
            Return(Closed(continue, body.node.scope),
                   [kind |-> "loop", id |-> p.loops + 1, body |-> body.node,
                    return |-> return.node, continue |-> continue.node]))))

(* parser_parse_block.  A block without its closing brace is returned all  *)
(* the same.                                                               *)
Block(p, fresh) ==
    LET Left(q) == IF fresh THEN LeaveScope(q) ELSE q
        Node(q, list) == [kind |-> "block", scope |-> q.scope, list |-> list]
    IN  IF AtEnd(p) THEN Fail(p)
        ELSE With(IF fresh THEN NewScope(p) ELSE p, LAMBDA entered :
                 IF Token(entered) # "{" THEN Left(Fail(Skip(entered)))
                 ELSE With(Statements(Skip(entered), <<>>), LAMBDA body :
                          LET block == Left(Return(body, Node(entered, body.node.list)))
                          IN  IF Token(body) = "}" THEN Skip(block)
                              ELSE [block EXCEPT !.ok = FALSE]))

(* The statements of a block, with error recovery: a statement that fails  *)
(* leaves a null in the list, unless the block ends where it recovers.     *)
Statements(p, list) ==
    LET Closed(q) == Return(q, [kind |-> "list", list |-> list])
    IN  IF AtEnd(p) \/ Token(p) = "}" \/ p.crash THEN Closed(p)
        ELSE With(Statement(p), LAMBDA next :
                 LET recovered == Synchronize(next)
                 IN  IF ~Failed(next) THEN Statements(next, Append(list, next.node))
                     ELSE IF Token(recovered) = "}" THEN Closed(recovered)
                     ELSE Statements(recovered, Append(list, Null)))

Asm(p) ==
    Then(Eat(Eat(Skip(p), Texts \cup EmptyTexts), {";"}), LAMBDA end :
        Return(end, Leaf("asm", "asm")))

Resilient(p) ==
    With(Block(Skip(p), TRUE), LAMBDA block : IF Failed(block) THEN Crash(block) ELSE block)

Statement(q) == With(Ready(q), LAMBDA p :
    CASE Token(p) = "}" -> Fail(p)
      [] Token(p) = "{" -> Block(p, TRUE)
      [] Token(p) = "resilient" -> Resilient(p)
      [] Token(p) = "fn" -> Function(p)
      [] Token(p) = "loop" -> Loop(p)
      [] Token(p) = "asm" -> Asm(p)
      [] OTHER ->
             Then(IF Token(p) = "var" THEN VariableDeclaration(p) ELSE Expression(p),
                  LAMBDA node : IF node.node.kind = "loop" THEN node ELSE Eat(node, {";"})))
=============================================================================
