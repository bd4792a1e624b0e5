----------------------------- MODULE MCToolData -----------------------------
(***************************************************************************)
(* The parts of the tool that only work on data: the database, the risk    *)
(* assessor, the metrics and, of the AST analyser, the values of local     *)
(* variables.  They share no state; a behaviour is one of the four at work *)
(* on small inputs.                                                        *)
(*                                                                         *)
(* Metrics: up to three findings and entries of two names, lines close     *)
(* enough for entries to compete for a finding; one entry names any file,  *)
(* one any line.  Risk assessor: three files and findings in all four      *)
(* bands, on their edges and on both sides of the cap.  Database: up to    *)
(* two documents of up to two entries that share names and aliases, one    *)
(* without a name and one that does not parse.  Local values: the units of *)
(* MCLocalValues, with two levels of inlining and three of resolution.     *)
(***************************************************************************)
EXTENDS Metrics, VulnDatabase, RiskAssessor, LocalValues, MCLocalValues

CONSTANTS A, B, Any, OnlyA, N, M, C

VARIABLE part  \* the part at work

Lists(S, n) == UNION {[1 .. k -> S] : k \in 0 .. n}

MCFile == {A, B}
MCName == {N, M}
MCFragment == {Any, OnlyA}
MCContains == [s \in MCFragment |-> IF s = Any THEN MCFile ELSE {A}]

F(n, p, l) == [name |-> n, file |-> p, line |-> l]
G(n, s, l, t) == [name |-> n, file |-> s, line |-> l, tolerance |-> t]

MCFinding == {F(N, A, 1), F(N, A, 3), F(N, B, 2), F(M, A, 2)}
MCEntry == {G(N, Any, 2, 1), G(N, OnlyA, 1, 0), G(N, OnlyA, 3, 2), G(N, Any, -1, 0),
            G(M, Any, 2, 3)}
MCInputs == [findings : Lists(MCFinding, 3), gt : Lists(MCEntry, 3)]

Found(f, b, k, l) == [file |-> f, base |-> b, key |-> k, loop |-> l]
RiskFinding == {
  Found("tests/test_kdf.cpp", 1000, TRUE,  TRUE),   \* 10.16, capped
  Found("tests/test_kdf.cpp", 1000, FALSE, FALSE),  \* 7.7, the file being busy
  Found("net/server.cpp",     1000, TRUE,  TRUE),   \* capped
  Found("net/server.cpp",      400, FALSE, FALSE),  \* 5.72
  Found("app.cpp",             560, FALSE, FALSE),  \* exactly 7.0
  Found("app.cpp",             300, FALSE, FALSE)}  \* 3.75: a risk of 10 reduced by 0.3

MCScans == Lists(RiskFinding, 3)

E(n, as, t) == [name |-> n, aliases |-> as, tag |-> t]
DbEntry == {E(A, {}, 1), E(A, {}, 2), E(B, {A}, 1), E(A, {C}, 1), E(C, {}, 1),
            E(NoName, {}, 1), BadEntry}

\* (Spelled out: TLC tests membership for every initial state.)
Document == {<<>>} \cup [1 .. 1 -> DbEntry] \cup [1 .. 2 -> DbEntry]
MCDatabases == [1 .. 1 -> Document] \cup [1 .. 2 -> Document]

MCKnown == {A, B, C}
MCRatedFile == {"tests/test_kdf.cpp", "net/server.cpp", "app.cpp"}
MCTestFile == {"tests/test_kdf.cpp"}
MCNetworkFile == {"net/server.cpp"}
MCStorageFile == {"app.cpp"}
MCBusyFile == {"tests/test_kdf.cpp", "net/server.cpp"}
MCCertScores == {6000000, 18000000}

MCFunction == {"w", "g", "h"}
MCVariable == {"p", "x", "y", "z", "global"}
MCValue == {"A", "B", "C"}
MCExpr == Expressions
MCHeight == Heights
MCPrograms == Units
MCContexts == PassedTexts

NoMetrics == input = [findings |-> <<>>, gt |-> <<>>] /\ Init
NoRisk == findings = <<>> /\ certs = {} /\ AssessInit
NoDatabase == docs = << <<>> >> /\ LoadInit
NoValues == program = (CHOOSE u \in Programs : TRUE) /\ actuals = <<>> /\ ValuesInit

DataInit ==
  \/ part = "MetricsCalculator" /\ Init /\ NoRisk /\ NoDatabase /\ NoValues
  \/ part = "RiskAssessor" /\ NoMetrics /\ AssessInit /\ NoDatabase /\ NoValues
  \/ part = "VulnDatabase" /\ NoMetrics /\ NoRisk /\ LoadInit /\ NoValues
  \/ part = "ASTAnalyzer" /\ NoMetrics /\ NoRisk /\ NoDatabase /\ ValuesInit

DataNext ==
  \/ part = "MetricsCalculator" /\ Next /\ UNCHANGED <<part, risk, database, values>>
  \/ part = "RiskAssessor" /\ AssessNext /\ UNCHANGED <<part, vars, database, values>>
  \/ part = "VulnDatabase" /\ LoadNext /\ UNCHANGED <<part, vars, risk, values>>
  \/ part = "ASTAnalyzer" /\ ValuesNext /\ UNCHANGED <<part, vars, risk, database>>

DataSpec == DataInit /\ [][DataNext]_<<part, vars, risk, database, values>>
=============================================================================
