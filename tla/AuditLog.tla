------------------------------ MODULE AuditLog ------------------------------
(***************************************************************************)
(* The audit journal of the sample project (Logger): a chain of hashes     *)
(* kept in memory, and the file the lines are appended to.  A hash is      *)
(* abstracted to what it covers: all bodies hashed since the genesis value *)
(* in their order, so that two hashes are equal when all they cover is.    *)
(***************************************************************************)
EXTENDS Naturals, Sequences, SequencesExt

VARIABLES
  chain_tip,   \* the hash of the last audited body
  audit_seq,   \* the number of the last audited body
  log_file,    \* the stream: "closed", "good", or "failed" for ever
  lines        \* the audit lines on disk

log == <<chain_tip, audit_seq, log_file, lines>>
memory == <<chain_tip, audit_seq, log_file>>

Genesis == <<>>
Hash(body, prev) == Append(prev, body)

\* A line of which only a part reached the disk, or all but its line end.  The
\* next process appends to it, and the two are one unreadable line, to which what
\* follows is counted too: the file does not verify any more.  (A part that ends
\* before the mark "[AUDIT]" is as good as none: the reader looks for the mark.)
Torn == [torn |-> TRUE]
Ended(l) == l # Torn /\ l.ended
Glued(ls) == IF ls # <<>> /\ ~Ended(Last(ls)) THEN Append(Front(ls), Torn) ELSE ls
Appended(ls, l) == IF ls # <<>> /\ ~Ended(Last(ls)) THEN Glued(ls) ELSE Append(ls, l)

\* The constructor of the singleton: every process starts from genesis.
FreshLogger == chain_tip' = Genesis /\ audit_seq' = 0 /\ log_file' = "closed"

\* Opening for appending.  An open stream cannot be opened again: that fails
\* the stream, and nothing is written any more.
SetLogFile ==
  /\ log_file' = IF log_file = "closed" THEN "good" ELSE "failed"
  /\ UNCHANGED <<chain_tip, audit_seq, lines>>

\* An ordinary line: the verification passes it over, unless it lands on an audit
\* line without its end; and its write may be the one that fails the stream.
PlainLine ==
  /\ log_file = "good"
  /\ \/ lines' = Glued(lines) /\ UNCHANGED log_file
     \/ lines' \in {lines, Glued(lines)} /\ log_file' = "failed"
  /\ UNCHANGED <<chain_tip, audit_seq>>

\* The tip moves on whatever becomes of the line; nobody asks the stream.
Write(line) ==
  \/ /\ log_file = "good"
     /\ lines' = Appended(lines, line) /\ UNCHANGED log_file
  \/ /\ log_file = "good" /\ log_file' = "failed"
     /\ lines' \in {lines, Appended(lines, Torn), Appended(lines, [line EXCEPT !.ended = FALSE])}
  \/ log_file # "good" /\ UNCHANGED <<lines, log_file>>

BodyOf(seq, ts, event) == [seq |-> seq, ts |-> ts, event |-> event]

Audit(ts, event) ==
  LET body == BodyOf(audit_seq + 1, ts, event)
      tip == Hash(body, chain_tip)
  IN  /\ audit_seq' = audit_seq + 1
      /\ chain_tip' = tip
      /\ Write([body |-> body, hash |-> tip, ended |-> TRUE])

\* What the reader of the file does, line by line from genesis.
BugVerifyAuditChain(ls) ==
  \A i \in 1 .. Len(ls) :
     /\ ls[i] # Torn
     /\ ls[i].hash = Hash(ls[i].body, Front(ls[i].hash))

VerifyAuditChain(ls) ==
  \A i \in 1 .. Len(ls) :
     /\ ls[i] # Torn
     /\ ls[i].hash = Hash(ls[i].body, IF i = 1 THEN Genesis ELSE ls[i - 1].hash)
=============================================================================
