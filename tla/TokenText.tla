----------------------------- MODULE TokenText -----------------------------
(***************************************************************************)
(* TokenAnalyzer::analyze_file: the text goes through strip_comments, the  *)
(* result through strip_strings, and tokenize counts the lines of what is  *)
(* left.  The first pass does not know literals and the second cannot see  *)
(* what the first has removed.                                             *)
(***************************************************************************)
EXTENDS Lexical

VARIABLES
  pass,     \* "comments", "strings", "tokens" or "done"
  src,      \* what the pass reads
  here,     \* where it stands
  mode,     \* the inner loop it is in, "code" outside
  r,        \* what it has written
  found     \* the calls found: position and line

stripping == <<text, pass, src, here, mode, r, found>>

TokenBegin ==
  /\ pass = "comments"
  /\ src = text
  /\ here = 1
  /\ mode = "code"
  /\ r = <<>>
  /\ found = {}

TokenInit == text \in Texts /\ TokenBegin

\* `out' is appended, `n' characters are consumed, and the loop is `m'.
Strip(out, n, m) ==
  /\ r' = r \o out
  /\ here' = here + n
  /\ mode' = m
  /\ UNCHANGED <<text, pass, src, found>>

KeepLine(c) == IF c = Newline THEN Newline ELSE Blank

\* Newlines of a block comment blanked like the rest of it.
BugInBlockComment ==
  /\ mode = "block"
  /\ \/ Pair(src, here, "*", "/") /\ Strip(<<Blank, Blank>>, 2, "code")
     \/ ~Pair(src, here, "*", "/") /\ here < Len(src) /\ Strip(<<Blank>>, 1, "block")
     \/ here = Len(src) /\ Strip(<<>>, 0, "code")

\* The loop of a block comment stops before the last character, which is then
\* read as code when the comment is not closed.
InBlockComment ==
  /\ mode = "block"
  /\ \/ Pair(src, here, "*", "/") /\ Strip(<<Blank, Blank>>, 2, "code")
     \/ ~Pair(src, here, "*", "/") /\ here < Len(src) /\ Strip(<<KeepLine(src[here])>>, 1, "block")
     \/ here = Len(src) /\ Strip(<<>>, 0, "code")

InLineComment ==
  /\ mode = "line"
  /\ IF src[here] = Newline THEN Strip(<<>>, 0, "code") ELSE Strip(<<Blank>>, 1, "line")

OutsideComment ==
  /\ mode = "code"
  /\ \/ Pair(src, here, "/", "/") /\ Strip(<<>>, 0, "line")
     \/ Pair(src, here, "/", "*") /\ Strip(<<Blank, Blank>>, 2, "block")
     \/ /\ ~Pair(src, here, "/", "/") /\ ~Pair(src, here, "/", "*")
        /\ Strip(<<src[here]>>, 1, "code")

StripComments ==
  /\ pass = "comments"
  /\ here <= Len(src)
  /\ OutsideComment \/ InLineComment \/ InBlockComment

\* Escapes not known.
BugInString ==
  /\ mode = "string"
  /\ IF src[here] = Quote THEN Strip(<<Quote>>, 1, "code")
     ELSE Strip(<<KeepLine(src[here])>>, 1, "string")

\* An escaped character is a blank, whatever it is.
InString ==
  /\ mode = "string"
  /\ CASE src[here] = Quote  -> Strip(<<Quote>>, 1, "code")
       [] src[here] = Escape -> Strip(<<Blank, Blank>>, 2, "string")
       [] OTHER           -> Strip(<<KeepLine(src[here])>>, 1, "string")

\* Here a newline is a blank too.
InChar ==
  /\ mode = "char"
  /\ CASE src[here] = Apostrophe -> Strip(<<Apostrophe>>, 1, "code")
       [] src[here] = Escape     -> Strip(<<Blank, Blank>>, 2, "char")
       [] OTHER               -> Strip(<<Blank>>, 1, "char")

OutsideLiteral ==
  /\ mode = "code"
  /\ Strip(<<src[here]>>, 1, IF src[here] = Quote THEN "string"
                         ELSE IF src[here] = Apostrophe THEN "char" ELSE "code")

StripStrings ==
  /\ pass = "strings"
  /\ here <= Len(src)
  /\ OutsideLiteral \/ InString \/ InChar

\* The next pass starts afresh on what this one wrote.
EndPass ==
  /\ pass \in {"comments", "strings"}
  /\ here > Len(src)
  /\ pass' = IF pass = "comments" THEN "strings" ELSE "tokens"
  /\ src' = r /\ here' = 1 /\ mode' = "code" /\ r' = <<>>
  /\ UNCHANGED <<text, found>>

\* tokenize and extract_findings: every name of the database before a
\* parenthesis is a finding, at the line counted in the cleaned text.
Tokenize ==
  /\ pass = "tokens"
  /\ found' = {<<p, LineOf(src, p)>> : p \in {q \in DOMAIN src : src[q] = Call}}
  /\ pass' = "done"
  /\ UNCHANGED <<text, src, here, mode, r>>

TokenAnalysed == pass = "done" /\ UNCHANGED stripping

TokenNext == StripComments \/ StripStrings \/ EndPass \/ Tokenize \/ TokenAnalysed

TokenSpec == TokenInit /\ [][TokenNext]_stripping

(***************************************************************************)
(* Properties.                                                             *)
(***************************************************************************)
\* The passes write one character for each one they read, so a place in the
\* cleaned text is the same place in the file (the columns of findings), and
\* the first pass keeps every line where it was, inside comments too.
PlacesKept ==
  /\ pass \in {"comments", "strings"} => Len(r) = here - 1
  /\ pass = "comments" => \A p \in DOMAIN r : (r[p] = Newline) = (text[p] = Newline)

Real(t) == {<<p, LineOf(t, p)>> : p \in CallsIn(t, {"code"})}

\* The two passes are as good as a lexer, findings and line numbers, on a text
\* whose literals hold no comment opener and no spliced line: quotes in
\* comments, stars and slashes in code and escapes do not mislead them.
ExactOnPlainText ==
  pass = "done" /\ WellFormed(text) /\ NoOpenerInLiteral(text) /\ NoSplicedLiteral(text)
    => found = Real(text)
=============================================================================
