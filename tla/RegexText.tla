----------------------------- MODULE RegexText -----------------------------
(***************************************************************************)
(* RegexAnalyzer::analyze_file: line by line, comments are removed, whole  *)
(* lines of space are skipped and the patterns of one function are looked  *)
(* for in the rest.  Only in_block_comment is carried to the next line;    *)
(* literals are not known.                                                 *)
(***************************************************************************)
EXTENDS Lexical

VARIABLES
  reached,            \* where the loop over the characters stands
  in_block_comment,
  skipping,           \* the rest of the line is behind a //
  stripped,           \* what the loop keeps of the line
  seen                \* the lines of the findings

matching == <<text, reached, in_block_comment, skipping, stripped, seen>>

RegexBegin ==
  /\ reached = 1
  /\ in_block_comment = FALSE
  /\ skipping = FALSE
  /\ stripped = <<>>
  /\ seen = {}

RegexInit == text \in Texts /\ RegexBegin

Take(out, n) ==
  /\ stripped' = stripped \o out
  /\ reached' = reached + n
  /\ UNCHANGED <<text, seen>>

AtEndOfLine == IF reached <= Len(text) THEN text[reached] = Newline ELSE TRUE

\* An opener and a closer are taken as a whole, and never from two lines: a
\* newline is no character of a line.
InBlock ==
  /\ ~AtEndOfLine /\ in_block_comment
  /\ IF Pair(text, reached, "*", "/") THEN in_block_comment' = FALSE /\ Take(<<Blank>>, 2)
     ELSE UNCHANGED in_block_comment /\ Take(<<Blank>>, 1)
  /\ UNCHANGED skipping

\* The star of an opener is read again.
BugInCode ==
  /\ ~AtEndOfLine /\ ~in_block_comment /\ ~skipping
  /\ \/ /\ Pair(text, reached, "/", "*")
        /\ in_block_comment' = TRUE /\ UNCHANGED skipping
        /\ Take(<<Blank>>, 1)
     \/ /\ Pair(text, reached, "/", "/")
        /\ skipping' = TRUE /\ UNCHANGED in_block_comment
        /\ Take(<<>>, 1)
     \/ /\ ~Pair(text, reached, "/", "*") /\ ~Pair(text, reached, "/", "/")
        /\ Take(<<text[reached]>>, 1)
        /\ UNCHANGED <<in_block_comment, skipping>>

InCode ==
  /\ ~AtEndOfLine /\ ~in_block_comment /\ ~skipping
  /\ \/ /\ Pair(text, reached, "/", "*")
        /\ in_block_comment' = TRUE /\ UNCHANGED skipping
        /\ Take(<<Blank>>, 2)
     \/ /\ Pair(text, reached, "/", "/")
        /\ skipping' = TRUE /\ UNCHANGED in_block_comment
        /\ Take(<<>>, 1)
     \/ /\ ~Pair(text, reached, "/", "*") /\ ~Pair(text, reached, "/", "/")
        /\ Take(<<text[reached]>>, 1)
        /\ UNCHANGED <<in_block_comment, skipping>>

\* The loop over the characters has broken off.
BehindSlashes ==
  /\ ~AtEndOfLine /\ skipping
  /\ Take(<<>>, 1)
  /\ UNCHANGED <<in_block_comment, skipping>>

\* The patterns are tried on what is kept; one finding for each line.
EndLine ==
  /\ AtEndOfLine /\ reached <= Len(text) + 1
  /\ seen' = seen \cup {LineOf(text, reached) : p \in {q \in DOMAIN stripped : stripped[q] = Call}}
  /\ reached' = reached + 1
  /\ stripped' = <<>>
  /\ skipping' = FALSE
  /\ UNCHANGED <<text, in_block_comment>>

RegexAnalysed == reached = Len(text) + 2 /\ UNCHANGED matching

RegexNext == InBlock \/ InCode \/ BehindSlashes \/ EndLine \/ RegexAnalysed

RegexSpec == RegexInit /\ [][RegexNext]_matching

(***************************************************************************)
(* Properties.                                                             *)
(***************************************************************************)
\* The one thing the analyser does not know is literals: on such a text it
\* reports the lines of all calls in code and in literals, none of those in
\* comments, each once.
OnlyLiteralsMislead ==
  reached = Len(text) + 2 /\ WellFormed(text) /\ NoOpenerInLiteral(text) =>
    seen = {LineOf(text, p) : p \in CallsIn(text, {"code"} \cup Literal)}
=============================================================================
