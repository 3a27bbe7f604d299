------------------------------ MODULE Frontend ------------------------------
(***************************************************************************)
(* Preprocessor and parser, one behind the other as lexer_create_lexer_file*)
(* and lexer_test run them: a file becomes the trees of its statements or  *)
(* is refused.                                                             *)
(*                                                                         *)
(* parser_parse takes one statement of the file a step.                    *)
(***************************************************************************)
EXTENDS Preprocessor, Grammar

CONSTANTS
    MacroFiles,     \* files as the lexer leaves them: [tokens, lines]
    PlainFiles,     \* token sequences the preprocessor passes unchanged
    KnownNames      \* the names that the plain files of one expression declare

VARIABLES
    parser,         \* the parser's state
    program         \* the statements of the module so far

frontendVars == <<vars, parser, program>>

-----------------------------------------------------------------------------
Init ==
    /\ \/ \E f \in MacroFiles : Start(f.tokens, f.lines)
       \/ \E s \in PlainFiles :
              /\ source = s /\ lines = <<>> /\ i = 1 /\ macros = <<>>
              /\ tokens = s /\ rounds = 1 /\ stage = "done"
    /\ parser = Fresh(<<>>)
    /\ program = <<>>

Read ==
    /\ Preprocess
    /\ UNCHANGED <<parser, program>>

StartParsing ==
    /\ stage = "done"
    /\ stage' = "parse"
    /\ parser' = Fresh(tokens)
    /\ UNCHANGED <<source, lines, i, macros, tokens, rounds, program>>

(* Faulty: the cursor stays at the token that was refused.                 *)
RecoverInPlace(p) == [p EXCEPT !.ok = FALSE]

(* How parser_parse goes on behind a statement that failed.                *)
Recover(p) == Synchronize([p EXCEPT !.ok = FALSE])

ParseStatement ==
    /\ stage = "parse"
    /\ ~AtEnd(parser) /\ ~parser.crash
    /\ \E next \in {Statement(parser)} :
           /\ parser' = Ready(IF Failed(next) THEN Recover(next) ELSE next)
           /\ program' = IF Failed(next) THEN program ELSE Append(program, next.node)
    /\ UNCHANGED vars

Finish ==
    /\ stage = "parse"
    /\ AtEnd(parser) \/ parser.crash
    /\ stage' = "parsed"
    /\ UNCHANGED <<source, lines, i, macros, tokens, rounds, parser, program>>

Done == stage \in {"parsed", "died"} /\ UNCHANGED frontendVars

Next == Read \/ StartParsing \/ ParseStatement \/ Finish \/ Done

Spec == Init /\ [][Next]_frontendVars /\ WF_frontendVars(Next)

-----------------------------------------------------------------------------
Accepted == stage = "parsed" /\ parser.ok /\ ~parser.crash

(* The statement behind the declarations, for files that are the           *)
(* declaration of the known names and one statement.                       *)
RECURSIVE Declarations(_)
Declarations(names) ==
    IF names = {} THEN <<>>
    ELSE LET n == CHOOSE n \in names : TRUE
         IN  <<"var", n, ":", "int32", "=", "1", ";">> \o Declarations(names \ {n})

Prologue == Declarations(KnownNames)
IsExpressionFile ==
    /\ stage = "parsed"
    /\ Len(tokens) > Len(Prologue) + 1
    /\ SubSeq(tokens, 1, Len(Prologue)) = Prologue
    /\ Last(tokens) = ";"
    /\ \A k \in Len(Prologue) + 1 .. Len(tokens) - 1 :
           tokens[k] \in Infix \cup UnaryOperators \cup Names \cup DOMAIN Literals \cup Texts \cup Chars
                             \cup {"(", ")", "[", "]", ","}

(* Precedence and grouping: the parser accepts the expressions there are   *)
(* and no other (calls may lack commas, Pieces of Grammar), and the tree   *)
(* it builds with its cursor, eight functions deep, is the one found by    *)
(* cutting the text at its loosest operator and at its arguments.          *)
ParsesTheGrammar ==
    IsExpressionFile =>
        LET text == SubSeq(tokens, Len(Prologue) + 1, Len(tokens) - 1)
            tree == Tree(text, KnownNames)
        IN  /\ Accepted <=> tree # Null
            /\ Accepted => Last(program) = tree

(* An accepted file is well scoped: every variable is used where one of    *)
(* its declarations stands before it in an enclosing scope, and no scope   *)
(* declares a name twice; blocks, loops with their three blocks and error  *)
(* recovery have left the scope and the loop counters where they were.     *)
AcceptedIsWellScoped ==
    Accepted =>
        /\ WellScoped(tokens, KnownNames)
        /\ parser.scope = 1 /\ parser.depth = 0 /\ parser.loop = 0

(* Error recovery always moves on: whatever the file, it is read to its    *)
(* end, or the program has died on it.                                     *)
EveryFileEnds == <>(stage \in {"parsed", "died"})
=============================================================================
