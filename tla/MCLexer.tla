------------------------------ MODULE MCLexer ------------------------------
(***************************************************************************)
(* Every text up to a length, over all characters and over the characters  *)
(* of numbers, of literals with quotes, and of operators and comments.     *)
(***************************************************************************)
EXTENDS Lexer

MCChars ==
    {"f", "n", "x", "b", "0", "1", "2", "9", "<", "=", "/", "'", "\"", "\\", "@", " ", "\n"}

MCCode ==
    [c \in MCChars \cup {NUL} |->
        CASE c = "f" -> 102 [] c = "n" -> 110 [] c = "x" -> 120 [] c = "b" -> 98
          [] c = "0" -> 48 [] c = "1" -> 49 [] c = "2" -> 50 [] c = "9" -> 57
          [] c = "<" -> 60 [] c = "=" -> 61 [] c = "/" -> 47 [] c = "'" -> 39
          [] c = "\"" -> 34 [] c = "\\" -> 92 [] c = "@" -> 64 [] c = " " -> 32
          [] c = "\n" -> 10 [] c = NUL -> 0]

MCKeywords == {<<"f", "n">>}

TextsOf(set, n) == UNION {[1..k -> set] : k \in 0..n}

MCTexts ==
    UNION {TextsOf(MCChars, 3),
           TextsOf({"0", "1", "2", "x", "b", "f"}, 5),
           TextsOf({"\"", "'", "\\", "n", "\n"}, 5),
           TextsOf({"<", "=", "/", "\n", "f"}, 5)}

=============================================================================
