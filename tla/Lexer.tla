------------------------------- MODULE Lexer -------------------------------
(***************************************************************************)
(* The lexer: one turn of the loop of lexer_tokenize for each action, and  *)
(* what is made of the literals later.  A text is a sequence of characters;*)
(* the specification beside it says which strings are lexemes and takes    *)
(* the longest one at each place.                                          *)
(***************************************************************************)
EXTENDS Integers, Sequences, FiniteSets, SequencesExt, FiniteSetsExt

CONSTANTS
    Chars,       \* the characters of the texts
    Letters,     \* those that begin a word
    Code,        \* the code of each character
    Keywords,    \* the words with a type of their own
    Texts,       \* the texts to read
    Capacity,    \* the tokens that the first array holds (256 in the code)
    IntBits      \* the width of int (32 in the code)

NUL == "NUL"     \* the character behind the text

Hex == <<"0", "1", "2", "3", "4", "5", "6", "7", "8", "9",
         "a", "b", "c", "d", "e", "f">>
DigitsOf(base) == {Hex[k] : k \in 1..base}
ValueOf(c) == (CHOOSE k \in 1..16 : Hex[k] = c) - 1

\* isspace
Spaces == {" ", "\t", "\r", "\n"}

\* lexer_is_double_operator_token
Doubles == {<<"=", "=">>, <<"!", "=">>, <<"<", "=">>, <<">", "=">>,
            <<"<", "<">>, <<">", ">">>}

\* lexer_get_symbol_type: the characters that have a type.
Symbols == {"#", "$", "(", ")", "{", "}", "[", "]", ":", ";", ">", "<", "=",
            "'", "\"", ",", ".", "+", "-", "*", "&", "~", "|", "^", "/", "!", "%"}

ASSUME LexerAssumption ==
    /\ Letters \subseteq Chars \ (Spaces \cup Symbols \cup DigitsOf(10))
    /\ NUL \notin Chars /\ Texts \subseteq Seq(Chars)
    /\ Capacity \in Nat \ {0} /\ IntBits \in Nat \ {0}

VARIABLES text, pos, line, tokens, capacity

vars == <<text, pos, line, tokens, capacity>>

-----------------------------------------------------------------------------
(* The tokens.  A type is the text of its symbol or keyword, or a class.   *)

At(p) == IF p <= Len(text) THEN text[p] ELSE NUL

More == pos <= Len(text)

\* The first place from p on where no character of set stands.
Past(p, set) == Min({n \in p..Len(text) + 1 : At(n) \notin set})

WordChars == Chars \ (Spaces \cup Symbols)

\* Every turn begins with room for the token it may write.
Grow == capacity' = IF capacity <= Len(tokens) THEN 2 * capacity ELSE capacity

\* The turn writes a token and goes on at p.
Put(type, view, p) ==
    /\ tokens' = Append(tokens, [type |-> type, view |-> view, line |-> line])
    /\ pos' = p
    /\ Grow
    /\ UNCHANGED <<text, line>>

AtComment == At(pos) = "/" /\ At(pos + 1) = "/"

SkipComment ==
    /\ More
    /\ AtComment
    /\ pos' = Past(pos, Chars \ {"\n"})
    /\ Grow
    /\ UNCHANGED <<text, line, tokens>>

SkipSpace ==
    /\ More
    /\ At(pos) \in Spaces
    /\ line' = IF At(pos) = "\n" THEN line + 1 ELSE line
    /\ pos' = pos + 1
    /\ Grow
    /\ UNCHANGED <<text, tokens>>

\* get_keyword_type: a keyword is its own type.
WordType(word) == IF word \in Keywords THEN word ELSE <<"identifier">>

ReadWord ==
    /\ More
    /\ At(pos) \in Letters
    /\ LET end == Past(pos, WordChars)
           word == SubSeq(text, pos, end - 1)
       IN Put(WordType(word), word, end)

\* Digits, then x and hexadecimal digits, or b and digits of any value.
NumberEnd(p) ==
    LET n == Past(p, DigitsOf(10)) IN
    IF At(n) = "x" THEN Past(n + 1, DigitsOf(16))
    ELSE IF At(n) = "b" THEN Past(n + 1, DigitsOf(10)) ELSE n

ReadNumber ==
    /\ More
    /\ At(pos) \in DigitsOf(10)
    /\ Put(<<"number">>, SubSeq(text, pos, NumberEnd(pos) - 1), NumberEnd(pos))

\* Faulty: a string ends at the next quote, escaped or not.
StringEndAtQuote(start) ==
    Min({Past(start, Chars \ {"\""}) + 1, Len(text) + 1})

\* The place behind the quote that closes a string; a backslash takes the
\* character behind it along.
StringEnd(start) ==
    LET end[p \in start..Len(text) + 1] ==
          IF p > Len(text) THEN p
          ELSE IF text[p] = "\\" THEN end[Min({p + 2, Len(text) + 1})]
          ELSE IF text[p] = "\"" THEN p + 1
          ELSE end[p + 1]
    IN end[start]

ReadString ==
    /\ More
    /\ At(pos) = "\""
    /\ LET end == StringEnd(pos + 1) IN
       Put(<<"string">>, SubSeq(text, pos + 1, end - 2), end)

\* One character, or a backslash and one, and then whatever stands where the
\* closing quote should.
ReadChar ==
    /\ More
    /\ At(pos) = "'"
    /\ LET n == IF At(pos + 1) = "\\" THEN 2 ELSE 1
           view == [k \in 1..n |-> At(pos + k)]
       IN Put(<<"char">>, view, pos + n + 2)

ReadSymbol ==
    /\ More
    /\ At(pos) \in Symbols \ {"\"", "'"}
    /\ ~AtComment
    /\ LET two == <<At(pos), At(pos + 1)>>
           view == IF two \in Doubles THEN two ELSE <<At(pos)>>
       IN Put(view, view, pos + Len(view))

\* What nothing above takes is passed over.
SkipUnknown ==
    /\ More
    /\ At(pos) \notin Spaces \cup Letters \cup DigitsOf(10) \cup Symbols
    /\ pos' = pos + 1
    /\ Grow
    /\ UNCHANGED <<text, line, tokens>>

Next ==
    \/ SkipComment \/ SkipSpace \/ ReadWord \/ ReadNumber \/ ReadString
    \/ ReadChar \/ ReadSymbol \/ SkipUnknown

Init ==
    /\ text \in Texts
    /\ pos = 1
    /\ line = 1
    /\ tokens = <<>>
    /\ capacity = Capacity

Spec == Init /\ [][Next]_vars

-----------------------------------------------------------------------------
(* Literals, as the later passes read them.                                *)

\* int arithmetic
Wrap(n) ==
    LET r == n % 2^IntBits IN
    IF r >= 2^(IntBits - 1) THEN r - 2^IntBits ELSE r

\* The digits from place p on, up to the first that the base does not have.
Digits(view, p, base) ==
    SubSeq(view, p, Min({n \in p..Len(view) + 1 :
                           n > Len(view) \/ view[n] \notin DigitsOf(base)}) - 1)

Number(digits, base) ==
    FoldLeft(LAMBDA r, c : Wrap(r * base + ValueOf(c)), 0, digits)

\* str_view_to_int; the lexer makes a token of its own of a sign.
ToInt(view) ==
    IF IsPrefix(<<"0", "x">>, view) THEN Number(Digits(view, 3, 16), 16)
    ELSE IF IsPrefix(<<"0", "b">>, view) THEN Number(Digits(view, 3, 2), 2)
    ELSE Number(Digits(view, 1, 10), 10)

\* What an escape stands for; any other character stands for itself.
Escaped(c) ==
    CASE c = "n" -> "\n" [] c = "t" -> "\t" [] c = "r" -> "\r" [] c = "0" -> NUL
      [] OTHER -> c

\* str_view_to_char: quotes are taken off at both ends, though the lexer has
\* left them out.
ToChar(view) ==
    LET start == IF view[1] = "'" THEN 2 ELSE 1
        end == IF Len(view) >= start /\ Last(view) = "'" THEN Len(view) - 1
               ELSE Len(view)
    IN IF end < start THEN NUL
       ELSE IF view[start] = "\\" /\ end > start THEN Escaped(view[start + 1])
       ELSE view[start]

\* Faulty: 10 is given one digit, and 100 two.
DecimalDigitsLate(n) ==
    LET places == IF n > 100 THEN 3 ELSE IF n > 10 THEN 2 ELSE 1 IN
    [k \in 1..places |-> Hex[((n \div 10^(places - k)) % 10) + 1]]

\* str_view_from_char_literal: the code of the character, in decimal digits.
DecimalDigits(n) ==
    LET places == IF n > 99 THEN 3 ELSE IF n > 9 THEN 2 ELSE 1 IN
    [k \in 1..places |-> Hex[((n \div 10^(places - k)) % 10) + 1]]

FromCharLiteral(view) == DecimalDigits(Code[ToChar(view)])
-----------------------------------------------------------------------------
(* Which strings are lexemes.                                              *)

IsWord(s) == s[1] \in Letters /\ Range(s) \subseteq WordChars

\* Decimal digits, then perhaps x or b and digits behind it.  Nothing asks for
\* the 0 before x, for digits behind it, or for binary digits behind b.
IsNumber(s) ==
    \E n \in 1..Len(s) :
        /\ Range(SubSeq(s, 1, n)) \subseteq DigitsOf(10)
        /\ \/ n = Len(s)
           \/ s[n + 1] = "x" /\ Range(SubSeq(s, n + 2, Len(s))) \subseteq DigitsOf(16)
           \/ s[n + 1] = "b" /\ Range(SubSeq(s, n + 2, Len(s))) \subseteq DigitsOf(10)

\* A quote behind an odd number of backslashes closes nothing.
Closes(s, k) ==
    /\ s[k] = "\""
    /\ LET slashes == {j \in 1..k - 1 : \A l \in j..k - 1 : s[l] = "\\"}
       IN Cardinality(slashes) % 2 = 0

IsString(s) == s[1] = "\"" /\ {k \in 2..Len(s) : Closes(s, k)} = {Len(s)}

IsChar(s) ==
    /\ Len(s) > 2 /\ s[1] = "'" /\ Last(s) = "'"
    /\ Len(s) = IF s[2] = "\\" THEN 4 ELSE 3

IsSymbol(s) == s \in Doubles \cup {<<c>> : c \in Symbols \ {"\"", "'"}}

IsBlank(s) ==
    \/ s \in {<<c>> : c \in Spaces}
    \/ IsPrefix(<<"/", "/">>, s) /\ "\n" \notin Range(s)

IsLexeme(s) ==
    IsWord(s) \/ IsNumber(s) \/ IsString(s) \/ IsChar(s) \/ IsSymbol(s) \/ IsBlank(s)

\* The longest lexeme at place p of the text t; << >> where there is none.
Lexeme(t, p) ==
    LET ends == {n \in p..Len(t) : IsLexeme(SubSeq(t, p, n))}
    IN IF ends = {} THEN <<>> ELSE SubSeq(t, p, Max(ends))

LineOf(t, p) == 1 + Cardinality({k \in 1..p - 1 : t[k] = "\n"})

\* The token of a lexeme in some line.
TokenOf(s, n) ==
    LET inner == SubSeq(s, 2, Len(s) - 1)
        as(type, view) == [type |-> type, view |-> view, line |-> n]
    IN CASE IsWord(s) -> as(IF s \in Keywords THEN s ELSE <<"identifier">>, s)
         [] IsNumber(s) -> as(<<"number">>, s)
         [] IsString(s) -> as(<<"string">>, inner)
         [] IsChar(s) -> as(<<"char">>, inner)
         [] OTHER -> as(s, s)

NoToken == [type |-> <<>>, view |-> <<>>, line |-> 0]

\* The tokens of the longest lexemes from each place on.  Nothing is promised of
\* a text that has NoToken among them: where no lexeme stands, or for a line
\* break inside a literal, which is not counted (lexer.c:291-322).
Meant(t) ==
    LET from[p \in 1..Len(t) + 1] ==
          IF p > Len(t) THEN <<>>
          ELSE LET s == Lexeme(t, p) IN
               IF s = <<>> THEN <<NoToken>>
               ELSE IF IsBlank(s) THEN from[p + Len(s)]
               ELSE IF "\n" \in Range(s) THEN <<NoToken>>
               ELSE <<TokenOf(s, LineOf(t, p))>> \o from[p + Len(s)]
    IN from

-----------------------------------------------------------------------------
(* Properties.                                                             *)

\* At the end, a text made of lexemes has given one token for each, the longest that can be
\* read there, at its line; spaces and comments give none (lexer.c:197-338).
LexemesComeBack ==
    ~More => LET all == Meant(text)[1] IN NoToken \notin Range(all) => tokens = all

\* No token is written behind the end of the array.
TokensFit == Len(tokens) <= capacity

\* Reading a text keeps within the array, however often that has to grow
\* (lexer.c:206-224), and finds its lexemes.
TextIsRead == TokensFit /\ LexemesComeBack

\* The number that digits stand for.
Value(digits, base) ==
    LET n == Len(digits) IN
    MapThenSumSet(LAMBDA k : ValueOf(digits[k]) * base^(n - k), 1..n)

\* The number that a text of some base stands for, if it has the form of one.
HasBase(s, base) ==
    LET body == IF base = 10 THEN s ELSE SubSeq(s, 3, Len(s)) IN
    /\ body # <<>> /\ Range(body) \subseteq DigitsOf(base)
    /\ base = 16 => IsPrefix(<<"0", "x">>, s)
    /\ base = 2 => IsPrefix(<<"0", "b">>, s)

NumberIn(s, base) == Value(IF base = 10 THEN s ELSE SubSeq(s, 3, Len(s)), base)

Views(type) == {t.view : t \in {u \in Range(tokens) : u.type = type}}

\* The character that is written between quotes.
Written(view) == IF view[1] = "\\" THEN Escaped(view[2]) ELSE view[1]

CharsArrive(views) ==
    \A view \in views : ToInt(FromCharLiteral(view)) = Wrap(Code[Written(view)])

\* A number that int can hold is read as what its digits say in its base
\* (h_string_view.h:397-456), and a character becomes its code, through decimal
\* digits that are read again (h_string_view.h:100-394); only a quote between
\* quotes does not, see QuotesArrive.
LiteralsArrive ==
    ~More =>
        /\ \A view \in Views(<<"number">>), base \in {2, 10, 16} :
              HasBase(view, base) /\ NumberIn(view, base) < 2^(IntBits - 1) =>
                  ToInt(view) = NumberIn(view, base)
        /\ CharsArrive({view \in Views(<<"char">>) : Last(view) # "'"})

\* The same for the quote, which the escape '\'' is there for
\* (h_string_view.h:118).
QuotesArrive == ~More => CharsArrive(Views(<<"char">>))
=============================================================================
