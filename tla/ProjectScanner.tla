--------------------------- MODULE ProjectScanner ---------------------------
(***************************************************************************)
(* ProjectScanner::scan: a walk over the files below a root, three plugins *)
(* that know some of them, and the inventory the analyses start from.  A   *)
(* path is a sequence of names; of a name its extension matters, as it is  *)
(* spelled and in lower case.                                              *)
(***************************************************************************)
EXTENDS Integers, Sequences, FiniteSetsExt, SequencesExt

CONSTANTS
  Ext,      \* a name's extension, as spelled
  Lower,    \* the extension or name in lower case
  Roots,    \* the paths the tool may be given
  Kinds     \* the sets of entries considered: path from the root |-> kind

CppExt == {".cpp", ".c", ".hpp", ".h"}
HeaderExt == {".hpp", ".h"}
CertExt == {".pem", ".crt", ".cer", ".der", ".p7b", ".p12", ".pfx"}
SkippedNames == {".git", "build", "third_party", "external"}
TestPrefixed == {"test_a.cpp"}

\* A tree holds the directories of its entries; an extension the C++ plugin
\* knows is in lower case.
ASSUME ScannerConstants ==
  /\ \A e \in CppExt : Lower[e] = e
  /\ Roots \subseteq Seq(DOMAIN Ext) \ {<<>>}
  /\ \A K \in Kinds :
       /\ IsFiniteSet(DOMAIN K) /\ DOMAIN K \subseteq Seq(DOMAIN Ext)
       /\ \A p \in DOMAIN K : \A k \in 1 .. Len(p) : SubSeq(p, 1, k) \in DOMAIN K

VARIABLES
  root, kinds,      \* the disk
  left,             \* entries the iterator has not come to
  files,            \* ProjectInventory::files
  language_stats,
  scanning          \* "walk", "done", or "thrown"

scan == <<root, kinds, left, files, language_stats, scanning>>

Languages == {"cpp", "cmake", "x509"}

ScannerInit ==
  /\ root \in Roots /\ kinds \in Kinds
  /\ left = DOMAIN kinds
  /\ files = <<>> /\ language_stats = [l \in Languages |-> 0]
  /\ scanning = "walk"

\* The first plugin registered that matches a path takes it.
Language(path) ==
  LET e == Ext[Last(path)]
  IN  IF e \in CppExt THEN "cpp"
      ELSE IF Last(path) = "CMakeLists.txt" \/ e = ".cmake" THEN "cmake"
      ELSE IF e \in CertExt THEN "x509" ELSE "none"

\* CppLanguagePlugin::categorize, in lower case where matches was not; the
\* other two have one category each.
Category(path) ==
  LET in_tests == \E i \in DOMAIN path : Lower[path[i]] \in {"test", "tests"}
      in_fixtures == \E i \in DOMAIN path : Lower[path[i]] \in {"fixture", "fixtures", "samples"}
  IN  CASE Language(path) = "cmake" -> "build"
        [] Language(path) = "x509" -> "certificate"
        [] Lower[Ext[Last(path)]] \in HeaderExt -> "header"
        [] OTHER -> IF ~(in_tests /\ in_fixtures) /\ (in_tests \/ Lower[Last(path)] \in TestPrefixed)
                    THEN "test" ELSE "source"

ShouldSkip(name) == name \in SkippedNames

\* Only the entry's own name is looked at.
BugSkipped(path) == ShouldSkip(Last(path))

\* Every component, those of the root as it was given too.
Skipped(path) == \E i \in DOMAIN path : ShouldSkip(path[i])

Add(path) ==
  /\ files' = Append(files, [path |-> path, category |-> Category(path),
                             language |-> Language(path)])
  /\ language_stats' = [language_stats EXCEPT ![Language(path)] = @ + 1]

AddIfKnown(path) ==
  IF Language(path) # "none" THEN Add(path) ELSE UNCHANGED <<files, language_stats>>

\* A root that is a file is asked for by name: nothing is skipped.
ScanFile ==
  /\ scanning = "walk" /\ kinds = [p \in {<<>>} |-> "file"]
  /\ AddIfKnown(root)
  /\ scanning' = "done" /\ UNCHANGED <<root, kinds, left>>

\* The iterator comes to a directory before what is in it, in no other order;
\* `continue' does not keep it from descending into a skipped one, and only one
\* it may not open is passed over.
Visit(p) ==
  /\ scanning = "walk" /\ p \in left /\ p # <<>>
  /\ Len(p) > 1 => Front(p) \notin left
  /\ left' = left \ (IF kinds[p] = "closed" THEN {q \in left : IsPrefix(p, q)} ELSE {p})
  /\ IF kinds[p] = "file" /\ ~Skipped(root \o p) THEN AddIfKnown(root \o p)
     ELSE UNCHANGED <<files, language_stats>>
  /\ UNCHANGED <<root, kinds, scanning>>

\* The root does not exist, or the iterator cannot be advanced: only its
\* constructor was given an error code.
ScanThrows ==
  /\ scanning = "walk"
  /\ scanning' = "thrown" /\ UNCHANGED <<root, kinds, left, files, language_stats>>

\* Also when the constructor fails: there is nothing to iterate over then.
ScanEnds ==
  /\ scanning = "walk" /\ <<>> \notin left /\ left \in {{}, DOMAIN kinds}
  /\ scanning' = "done" /\ UNCHANGED <<root, kinds, left, files, language_stats>>

ScannerNext == ScanFile \/ ScanThrows \/ ScanEnds \/ \E p \in left : Visit(p)

ScannerSpec == ScannerInit /\ [][ScannerNext]_scan

GetSourceFiles == {f \in ToSet(files) : f.category \in {"source", "header"}}

-----------------------------------------------------------------------------
\* The inventory is the tree: in whatever order the entries come, the files
\* listed are those met so far that a plugin knows and no skipped or unreadable
\* directory holds, each once and with its category, and only code outside of
\* tests is handed on (scan, although it descends into what it skips).
InventoryIsTheTree ==
  LET way(p) == {root[i] : i \in DOMAIN root} \cup {p[i] : i \in DOMAIN p}
      open(p) == \A k \in 1 .. Len(p) : kinds[SubSeq(p, 1, k)] # "closed"
      listed == {p \in DOMAIN kinds \ left : kinds[p] = "file" /\ open(p)
                   /\ way(p) \cap SkippedNames = {} /\ Language(root \o p) # "none"}
      in(p, names) == \E c \in way(p) : Lower[c] \in names
      tests(p) == /\ in(p, {"test", "tests"}) \/ Lower[Last(p)] \in TestPrefixed
                  /\ ~(in(p, {"test", "tests"}) /\ in(p, {"fixture", "fixtures", "samples"}))
  IN  <<>> \notin DOMAIN kinds =>
        /\ {files[i].path : i \in DOMAIN files} = {root \o p : p \in listed}
        /\ Len(files) = Cardinality(listed)
        /\ language_stats["cpp"] + language_stats["cmake"] + language_stats["x509"] = Len(files)
        /\ \A p \in listed : Ext[Last(p)] \in CppExt \ HeaderExt =>
             (tests(p) = (root \o p \notin {f.path : f \in GetSourceFiles}))
=============================================================================
