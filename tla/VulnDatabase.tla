---------------------------- MODULE VulnDatabase ----------------------------
(***************************************************************************)
(* VulnDatabase: main loads the shipped database and then every --extra-db *)
(* in turn (load, merge_json).  Entries are kept in a vector; name_index_  *)
(* maps names and aliases to positions and is rebuilt only at the end of a *)
(* document, so while a document is merged its lookups see the index the   *)
(* documents before it left.                                               *)
(*                                                                         *)
(* Names stand for their lower-case form.  Of an entry only the name and   *)
(* the aliases matter here; `tag' tells apart entries with the same names. *)
(***************************************************************************)
EXTENDS Integers, Sequences, FiniteSets

CONSTANTS
  Known,       \* the names entries carry
  NoName,      \* the empty name: such an entry is skipped
  BadEntry,    \* a place in a document at which merge_json stops the program
  Databases    \* the sequences of documents considered

Definition == [name : Known \cup {NoName}, aliases : SUBSET Known, tag : Nat]

ASSUME DatabaseConstants ==
  NoName \notin Known /\ Databases \subseteq Seq(Seq(Definition \cup {BadEntry}))

VARIABLES
  docs,        \* the documents to load, in the order of the command line
  doc,         \* the number of the document being merged, or to be merged next
  merged,      \* how many of its entries have been merged
  functions,   \* functions_
  index,       \* name_index_
  loading      \* "idle", "merging", "failed" or "done"

database == <<docs, doc, merged, functions, index, loading>>

Carries(f) == {f.name} \cup f.aliases

NamesIn(fs) == UNION {Carries(fs[i]) : i \in DOMAIN fs}

\* rebuild_index assigns in the order of the vector: the last position wins.
IndexOf(fs) ==
  [n \in NamesIn(fs) |->
     CHOOSE i \in DOMAIN fs :
       n \in Carries(fs[i]) /\ \A j \in DOMAIN fs : n \in Carries(fs[j]) => j <= i]

LoadInit ==
  /\ docs \in Databases
  /\ doc = 1
  /\ merged = 0
  /\ functions = <<>>
  /\ index = [n \in {} |-> 0]
  /\ loading = "idle"

\* load: the next document is read and merge_json begins.
StartDocument ==
  /\ loading = "idle"
  /\ doc <= Len(docs)
  /\ loading' = "merging"
  /\ UNCHANGED <<docs, doc, merged, functions, index>>

\* A name the index has is kept as it is.
BugPlaced(e) ==
  IF e.name = NoName \/ e.name \in DOMAIN index THEN functions ELSE Append(functions, e)

\* The body of the loop over the functions of a document.
Placed(e) ==
  IF e.name = NoName THEN functions
  ELSE IF e.name \in DOMAIN index THEN [functions EXCEPT ![index[e.name]] = e]
  ELSE Append(functions, e)

MergeEntry ==
  /\ loading = "merging"
  /\ merged < Len(docs[doc])
  /\ docs[doc][merged + 1] # BadEntry
  /\ functions' = Placed(docs[doc][merged + 1])
  /\ merged' = merged + 1
  /\ UNCHANGED <<docs, doc, index, loading>>

\* A value of the wrong type throws, and main ends with exit code 1.  A document
\* without "libraries", or a library without "functions", is undefined behaviour of
\* the const operator[]: an assertion, where the build has them, or what lies behind
\* the map is read, which stops the program too or passes for an empty list.  The
\* first two are a BadEntry, the last is an entry without a name.
MergeStops ==
  /\ loading = "merging"
  /\ merged < Len(docs[doc])
  /\ docs[doc][merged + 1] = BadEntry
  /\ loading' = "failed"
  /\ UNCHANGED <<docs, doc, merged, functions, index>>

FinishDocument ==
  /\ loading = "merging"
  /\ merged = Len(docs[doc])
  /\ index' = IndexOf(functions)
  /\ doc' = doc + 1
  /\ merged' = 0
  /\ loading' = "idle"
  /\ UNCHANGED <<docs, functions>>

\* All documents are loaded; the analysers only read from here on.
AllLoaded ==
  /\ loading = "idle"
  /\ doc > Len(docs)
  /\ loading' = "done"
  /\ UNCHANGED <<docs, doc, merged, functions, index>>

Stopped == loading \in {"failed", "done"} /\ UNCHANGED database

LoadNext == \/ StartDocument \/ MergeEntry \/ MergeStops \/ FinishDocument \/ AllLoaded
            \/ Stopped

LoadSpec == LoadInit /\ [][LoadNext]_database

(***************************************************************************)
(* find_by_name, and the properties.                                       *)
(***************************************************************************)
Finds(n, e) == n \in DOMAIN index /\ functions[index[n]] = e

\* Between two documents a lookup answers with an entry that carries the name
\* asked for, and every name of every entry has an answer (rebuild_index).
IndexIsTrue ==
  loading \in {"idle", "done"} =>
    /\ DOMAIN index = NamesIn(functions)
    /\ \A n \in DOMAIN index : n \in Carries(functions[index[n]])

\* The named entries of the documents merged so far.
MergedAt == {p \in UNION {{d} \X DOMAIN docs[d] : d \in 1 .. doc - 1} :
               docs[p[1]][p[2]].name # NoName}
At(p) == docs[p[1]][p[2]]

Later(p, q) == p[1] > q[1] \/ (p[1] = q[1] /\ p[2] > q[2])

\* No entry has the name of another one for an alias.
AliasesPrivate ==
  \A p, q \in MergedAt : At(p).name \in At(q).aliases => At(p).name = At(q).name

\* An organisation may override an entry, also in the same document: the last
\* definition of a name is the one found, provided that no name is also an
\* alias of another entry (merge_json).
LastDefinitionWins ==
  loading \in {"idle", "done"} /\ AliasesPrivate =>
    \A p \in MergedAt :
      (\A q \in MergedAt : At(q).name = At(p).name => ~Later(q, p)) => Finds(At(p).name, At(p))

\* Whatever was merged, a name is answered with its last definition, and always
\* with an entry that carries it (rebuild_index, find_by_name).
NamesFindTheLast == IndexIsTrue /\ LastDefinitionWins
=============================================================================
