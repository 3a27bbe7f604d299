---------------------------- MODULE Preprocessor ----------------------------
(***************************************************************************)
(* The preprocessor (core/preprocessor.c): the lexer's tokens go in; the   *)
(* macro definitions (# define NAME ( A , B ) body $) are taken out, and   *)
(* the uses of the macros are replaced by their bodies, all over the file  *)
(* and again, until a round finds nothing or MaxRounds have passed.        *)
(*                                                                         *)
(* A token is the string it is written as.  Content gives the text the     *)
(* lexer keeps of it: a quoted literal without its quotes.                 *)
(***************************************************************************)
EXTENDS Integers, Sequences, FiniteSets, SequencesExt, Once

CONSTANTS
    Identifiers,    \* the tokens of type IDENTIFIER
    Quoted,         \* quoted literals |-> the text between the quotes
    MaxRounds       \* 64 in the code

ASSUME RoundsAssumption == MaxRounds \in Nat \ {0}

VARIABLES
    source,         \* the tokens of the lexer
    lines,          \* the line each of them stands on
    i,              \* where the search for definitions is
    macros,         \* the table: definitions in the order of the file
    tokens,         \* the tokens left so far
    rounds,
    stage

vars == <<source, lines, i, macros, tokens, rounds, stage>>

Content(token) == IF token \in DOMAIN Quoted THEN Quoted[token] ELSE token

(* The first position from p on where Test holds, or the one past the end. *)
First(s, p, Test(_)) ==
    CHOOSE q \in p .. Len(s) + 1 :
        /\ q <= Len(s) => Test(q)
        /\ \A r \in p .. q - 1 : ~Test(r)

IsIdentifier(token) == token \in Identifiers

-----------------------------------------------------------------------------
(***************************************************************************)
(* Definitions.                                                            *)
(***************************************************************************)
(* A "(" on the line of the "#" starts parameters if only names and commas *)
(* follow up to a ")" on that line, or if nothing follows there.           *)
StartsParameters(p) ==
    LET close == First(source, p + 1,
                       LAMBDA q : source[q] = ")" \/ lines[q] # lines[i])
        inside == {source[q] : q \in p + 1 .. close - 1}
    IN  /\ p <= Len(source)
        /\ source[p] = "("
        /\ lines[p] = lines[i]
        /\ inside \subseteq Identifiers \cup {","}
        /\ inside = {} \/ (close <= Len(source) /\ source[close] = ")")

(* preprocessor_parse_define: the macro at a "#", if there is one, and     *)
(* where the file goes on.  Parameters that are never closed, like a body  *)
(* without a "$", reach to the end of the file.                            *)
Definition ==
    LET name == i + 2
        hasParams == StartsParameters(name + 1)
        close == IF hasParams THEN First(source, name + 2, LAMBDA q : source[q] = ")")
                 ELSE name
        end == IF close > Len(source) THEN close
               ELSE First(source, close + 1, LAMBDA q : source[q] = "$")
        params == IF hasParams THEN SelectSeq(SubSeq(source, name + 2, close - 1), IsIdentifier)
                  ELSE <<>>
    IN  IF i + 1 > Len(source) \/ Content(source[i + 1]) # "define"
        THEN [at |-> i + 1, macros |-> <<>>]
        ELSE IF name > Len(source) \/ source[name] \notin Identifiers
        THEN [at |-> name, macros |-> <<>>]
        ELSE [at |-> end + 1,
              macros |-> << [name |-> source[name], params |-> params,
                             body |-> SubSeq(source, close + 1, end - 1)] >>]

(* One turn of the first loop of preprocessor_run.                         *)
Collect ==
    /\ stage = "collect"
    /\ i <= Len(source)
    /\ IF source[i] = "#"
       THEN /\ macros' = macros \o Definition.macros
            /\ i' = Definition.at
            /\ UNCHANGED tokens
       ELSE /\ tokens' = Append(tokens, source[i])
            /\ i' = i + 1
            /\ UNCHANGED macros
    /\ UNCHANGED <<source, lines, rounds, stage>>

Collected ==
    /\ stage = "collect"
    /\ i > Len(source)
    /\ stage' = "expand"
    /\ UNCHANGED <<source, lines, i, macros, tokens, rounds>>

-----------------------------------------------------------------------------
(***************************************************************************)
(* Expansion.                                                              *)
(***************************************************************************)
Find(name) == SelectInSeq(macros, LAMBDA m : m.name = name)     \* 0 for none
IsMacro(token) == token \in Identifiers /\ Find(token) # 0

(* The arguments behind a "(", which end at its ")": an argument that the  *)
(* end of the file cuts off is dropped.                                    *)
RECURSIVE Split(_, _, _, _, _)
(* Faulty: a comma inside parentheses ends the argument as well.           *)
SplitAtEveryComma(s, p, depth, current, args) ==
    IF p > Len(s) THEN [at |-> p, args |-> args]
    ELSE IF s[p] = ")" /\ depth = 0 THEN [at |-> p + 1, args |-> Append(args, current)]
    ELSE IF s[p] = "," THEN Split(s, p + 1, depth, <<>>, Append(args, current))
    ELSE With(depth + (IF s[p] = "(" THEN 1 ELSE IF s[p] = ")" THEN -1 ELSE 0), LAMBDA d :
             Split(s, p + 1, d, Append(current, s[p]), args))

Split(s, p, depth, current, args) ==
    IF p > Len(s) THEN [at |-> p, args |-> args]
    ELSE IF s[p] = ")" /\ depth = 0 THEN [at |-> p + 1, args |-> Append(args, current)]
    ELSE IF s[p] = "," /\ depth = 0 THEN Split(s, p + 1, 0, <<>>, Append(args, current))
    ELSE With(depth + (IF s[p] = "(" THEN 1 ELSE IF s[p] = ")" THEN -1 ELSE 0), LAMBDA d :
             Split(s, p + 1, d, Append(current, s[p]), args))

(* expand_macro: a macro without its arguments is its body as it stands; a *)
(* missing argument is a zeroed vector and puts nothing in.                *)
ExpandMacro(s, p) ==
    LET m == macros[Find(s[p])]
        called == m.params # <<>> /\ p < Len(s) /\ s[p + 1] = "("
        Put(token, args) ==
            LET k == SelectInSeq(m.params, LAMBDA q : q = Content(token))
            IN  IF ~called \/ k = 0 THEN <<token>>
                ELSE IF k <= Len(args) THEN args[k]
                ELSE <<>>
    IN  With(IF called THEN Split(s, p + 2, 0, <<>>, <<>>) ELSE [at |-> p + 1, args |-> <<>>],
             LAMBDA call :
                 [at |-> call.at,
                  out |-> FoldLeft(LAMBDA out, token : out \o Put(token, call.args),
                                   <<>>, m.body)])

RECURSIVE Round(_, _, _)
Round(s, p, out) ==
    IF p > Len(s) THEN out
    ELSE IF IsMacro(s[p])
    THEN With(ExpandMacro(s, p), LAMBDA e : Round(s, e.at, out \o e.out))
    ELSE Round(s, p + 1, Append(out, s[p]))

(* One turn of the second loop of preprocessor_run: a round that expands   *)
(* something is followed by another.                                       *)
Expand ==
    /\ stage = "expand" /\ tokens # <<>>
    /\ tokens' = Round(tokens, 1, <<>>)
    /\ rounds' = rounds + 1
    /\ stage' = IF (\E p \in DOMAIN tokens : IsMacro(tokens[p])) /\ rounds' < MaxRounds
                THEN "expand" ELSE "done"
    /\ UNCHANGED <<source, lines, i, macros>>

(* With no token left, the vector of the round is made for none, which is  *)
(* no vector, and is used all the same.                                    *)
Die ==
    /\ stage = "expand" /\ tokens = <<>>
    /\ stage' = "died"
    /\ UNCHANGED <<source, lines, i, macros, tokens, rounds>>

-----------------------------------------------------------------------------
Start(s, l) ==
    /\ source = s /\ lines = l
    /\ i = 1 /\ macros = <<>> /\ tokens = <<>> /\ rounds = 0 /\ stage = "collect"

Preprocess == Collect \/ Collected \/ Expand \/ Die

-----------------------------------------------------------------------------
(***************************************************************************)
(* What a use of a macro means: its body with the arguments put in,        *)
(* expanded in turn together with what follows, from the left, one use at  *)
(* a time.  The code expands every use of the file in one round.           *)
(***************************************************************************)
Mentioned(ms) == {Find(token) : token \in UNION {ToSet(macros[n].body) : n \in ms}} \ {0}

RECURSIVE Reached(_)
Reached(ms) ==
    With(ms \cup Mentioned(ms), LAMBDA more : IF more = ms THEN ms ELSE Reached(more))

Recursive == \E n \in 1 .. Len(macros) : n \in Reached(Mentioned({n}))

(* The arguments behind the "(" at p: what stands between it, the commas   *)
(* outside all other parentheses, and the parenthesis that closes it.      *)
Depth(s, p, q) == Cardinality({r \in p + 1 .. q - 1 : s[r] = "("})
                      - Cardinality({r \in p + 1 .. q - 1 : s[r] = ")"})
Closing(s, p) == First(s, p + 1, LAMBDA q : s[q] = ")" /\ Depth(s, p, q) = 0)
ArgumentsAt(s, p) ==
    LET ends == {q \in p .. Closing(s, p) :
                     q <= Len(s) /\ (q = p \/ (s[q] \in {",", ")"} /\ Depth(s, p, q) = 0))}
        cuts == SetToSortSeq(ends, <)
    IN  [k \in 1 .. Len(cuts) - 1 |-> SubSeq(s, cuts[k] + 1, cuts[k + 1] - 1)]

RECURSIVE Meaning(_)
Meaning(text) == With(text, LAMBDA s :
    IF s = <<>> THEN <<>>
    ELSE IF ~IsMacro(Head(s)) THEN <<Head(s)>> \o Meaning(Tail(s))
    ELSE LET m == macros[Find(Head(s))]
             called == m.params # <<>> /\ Len(s) > 1 /\ s[2] = "("
             rest == IF called THEN SubSeq(s, Closing(s, 2) + 1, Len(s)) ELSE Tail(s)
             Value(token, args) ==
                 IF ~called \/ ~Contains(m.params, token) THEN <<token>>
                 ELSE LET k == SelectInSeq(m.params, LAMBDA q : q = token)
                      IN  IF k <= Len(args) THEN args[k] ELSE <<>>
         IN  With(IF called THEN ArgumentsAt(s, 2) ELSE <<>>, LAMBDA args :
                 Meaning(FlattenSeq([p \in DOMAIN m.body |-> Value(m.body[p], args)]) \o rest)))

(* A macro with parameters that stands without arguments takes the "(" that *)
(* a later round puts behind it; which of two uses that is, is a matter of  *)
(* the order of the rounds alone.                                           *)
Called(s) ==
    \A p \in DOMAIN s : IsMacro(s[p]) /\ macros[Find(s[p])].params # <<>> =>
                            p < Len(s) /\ s[p + 1] = "("
AlwaysCalled == Called(tokens) /\ \A n \in DOMAIN macros : Called(macros[n].body)

(* A round changes how the file is written and never what it means: no use *)
(* is lost, expanded twice or given the arguments of another, whatever the *)
(* order of the definitions and the nesting of uses in arguments.  After   *)
(* the last round the tokens are that meaning.                             *)
RoundsKeepTheMeaning ==
    [][stage = "expand" /\ AlwaysCalled /\ ~Recursive =>
           /\ Meaning(tokens') = Meaning(tokens)
           /\ stage' = "done" => tokens' = Meaning(tokens)]_vars
=============================================================================
