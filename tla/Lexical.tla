------------------------------ MODULE Lexical ------------------------------
(***************************************************************************)
(* What the C++ language says of a text: which characters are code, which  *)
(* comment, which literal.  The text analysers are compared with it.       *)
(*                                                                         *)
(* A text is a sequence of characters; `call' stands for a whole call of a *)
(* function of the database.  Raw strings, digit separators, preprocessor  *)
(* lines and spliced comments are left out.                                *)
(***************************************************************************)
EXTENDS Naturals, Sequences, FiniteSets

CONSTANT Texts     \* the texts considered

VARIABLE text      \* the file

Quote == "dquote"
Apostrophe == "squote"
Newline == "newline"
Escape == "backslash"
Call == "call"
Blank == "blank"
Char == {Quote, Apostrophe, Newline, Escape, Call, Blank, "/", "*"}

ASSUME LexicalConstants == Texts \subseteq Seq(Char)

Pair(t, p, c, d) == p < Len(t) /\ t[p] = c /\ t[p + 1] = d

\* The state of the lexer after the character at p, which it met in state m.
After(m, t, p) ==
  CASE m = "code"    -> IF Pair(t, p, "/", "/") THEN "line"
                        ELSE IF Pair(t, p, "/", "*") THEN "opening"
                        ELSE IF t[p] = Quote THEN "string"
                        ELSE IF t[p] = Apostrophe THEN "char" ELSE "code"
    [] m = "line"    -> IF t[p] = Newline THEN "code" ELSE "line"
    [] m = "opening" -> "block"
    [] m = "block"   -> IF Pair(t, p, "*", "/") THEN "closing" ELSE "block"
    [] m = "closing" -> "code"
    [] m = "string"  -> IF t[p] = Escape THEN "string escape"
                        ELSE IF t[p] = Quote THEN "code" ELSE "string"
    [] m = "char"    -> IF t[p] = Escape THEN "char escape"
                        ELSE IF t[p] = Apostrophe THEN "code" ELSE "char"
    [] m = "string escape" -> "string"
    [] m = "char escape"   -> "char"

\* The state in which the lexer meets each character, and the end of the text.
States(t) ==
  LET s[p \in 1 .. (Len(t) + 1)] == IF p = 1 THEN "code" ELSE After(s[p - 1], t, p - 1)
  IN  s

Literal == {"string", "char", "string escape", "char escape"}
Comment == {"line", "opening", "block", "closing"}

LineOf(t, p) == 1 + Cardinality({k \in 1 .. (p - 1) : t[k] = Newline})

CallsIn(t, modes) == {p \in DOMAIN t : t[p] = Call /\ States(t)[p] \in modes}

\* A text a compiler accepts: every comment and literal is closed.
WellFormed(t) ==
  /\ States(t)[Len(t) + 1] \in {"code", "line"}
  /\ \A p \in DOMAIN t : t[p] = Newline => States(t)[p] \notin {"string", "char"}

\* No literal looks as if a comment began in it ("http://...", "src/*.cpp"), ...
NoOpenerInLiteral(t) ==
  \A p \in DOMAIN t :
    States(t)[p] \in Literal => ~Pair(t, p, "/", "/") /\ ~Pair(t, p, "/", "*")

\* ... and none goes on in the next line.
NoSplicedLiteral(t) ==
  \A p \in DOMAIN t : t[p] = Newline => States(t)[p] \notin Literal
=============================================================================
