----------------------------- MODULE MCReading ------------------------------
(***************************************************************************)
(* What the tool reads: the tree of a project, a directory of              *)
(* certificates, the text of a source file by either text analyser.  The   *)
(* four share nothing but the text; a behaviour is one of them at work.    *)
(*                                                                         *)
(* Trees of up to five entries with a test, a fixture, a skipped and an    *)
(* unreadable directory; two certificate files of up to three objects; and *)
(* every text of up to Length characters that ends in a call: enough for a *)
(* comment or a literal of each kind, over lines or not, with a call       *)
(* behind it.                                                              *)
(***************************************************************************)
EXTENDS ProjectScanner, CertAnalyzer, TokenText, RegexText

CONSTANTS Length, Letters

VARIABLE reader     \* the part at work

MCTexts == {t \o <<Call>> : t \in UNION {[1 .. n -> Letters] : n \in 0 .. Length}}

Leaves == [x \in {"a.cpp", "A.CPP", "b.h", "test_a.cpp", "CMakeLists.txt", "k.p12"} |->
             CASE x \in {"a.cpp", "test_a.cpp"} -> ".cpp" [] x = "A.CPP" -> ".CPP"
               [] x = "b.h" -> ".h" [] x = "CMakeLists.txt" -> ".txt" [] x = "k.p12" -> ".p12"]
Directories == {"w", "Tests", "fixtures", "build"}
MCExt == [x \in DOMAIN Leaves \cup Directories |-> IF x \in Directories THEN "" ELSE Leaves[x]]
MCLower == [x \in DOMAIN MCExt \cup CppExt \cup {"", ".CPP", ".txt", ".p12"} |->
              CASE x = "A.CPP" -> "a.cpp" [] x = "Tests" -> "tests" [] x = ".CPP" -> ".cpp"
                [] OTHER -> x]

Places == {<<"a.cpp">>, <<"A.CPP">>, <<"b.h">>, <<"CMakeLists.txt">>, <<"k.p12">>, <<"Tests">>,
           <<"Tests", "a.cpp">>, <<"test_a.cpp">>, <<"Tests", "fixtures">>,
           <<"Tests", "fixtures", "a.cpp">>, <<"build">>, <<"build", "w">>, <<"build", "w", "a.cpp">>}
Closed == {D \in kSubset(5, Places) : \A p \in D : Len(p) > 1 => Front(p) \in D}
KindsOf(D) == {[p \in D |-> IF Last(p) \notin Directories THEN "file"
                            ELSE IF Last(p) = no THEN "closed" ELSE "dir"] : no \in {"Tests", "w"}}
MCRoots == {<<"w">>, <<"build", "w">>, <<"w", "a.cpp">>}
MCKinds == UNION {KindsOf(D) : D \in Closed} \cup {[p \in {<<>>} |-> "file"]}

O(form, has, bits, end) == [form |-> form, has |-> has, bits |-> bits, not_after |-> end]
Objects == {O("pem", {"rsa", "sha256"}, 1024, "past"), O("pem", {"sha256"}, 256, "none"),
            O("pem", {"sha1"}, 256, "future"), O("other", {}, 0, "none"), O("broken", {}, 0, "none")}
DerObject == O("der", {"gost"}, 256, "future")
MCBundles ==
  UNION {[1 .. n -> Objects] : n \in 0 .. 2}
    \cup {<<a, b, O("pem", {"sha1"}, 256, "future")>> : a, b \in {x \in Objects : x.bits # 256}}
    \cup {<<DerObject>>, <<DerObject, O("pem", {"sha1"}, 256, "future")>>}

NoScan == root = <<"w">> /\ kinds = [p \in {<<>>} |-> "file"] /\ ScannerInit
NoCert == holds = [f \in CertFile |-> <<>>] /\ CertInit
NoText == text = <<Call>> /\ TokenBegin /\ RegexBegin

Init ==
  \/ reader = "ProjectScanner" /\ ScannerInit /\ NoCert /\ NoText
     /\ (Last(root) = "a.cpp") = (<<>> \in DOMAIN kinds)
  \/ reader = "CertAnalyzer" /\ NoScan /\ CertInit /\ NoText
  \/ reader \in {"TokenAnalyzer", "RegexAnalyzer"} /\ NoScan /\ NoCert /\ TokenInit /\ RegexBegin

Next ==
  \/ reader = "ProjectScanner" /\ ScannerNext /\ UNCHANGED <<reader, certs, stripping, matching>>
  \/ reader = "CertAnalyzer" /\ CertNext /\ UNCHANGED <<reader, scan, stripping, matching>>
  \/ /\ reader = "TokenAnalyzer" /\ TokenNext
     /\ UNCHANGED <<reader, scan, certs, reached, in_block_comment, skipping, stripped, seen>>
  \/ /\ reader = "RegexAnalyzer" /\ RegexNext
     /\ UNCHANGED <<reader, scan, certs, pass, src, here, mode, r, found>>

Spec == Init /\ [][Next]_<<reader, scan, certs, stripping, matching>>
=============================================================================
