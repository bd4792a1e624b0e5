---------------------------- MODULE CertAnalyzer ----------------------------
(***************************************************************************)
(* CertAnalyzer::analyze: every certificate file below a path is read as   *)
(* PEM, object by object, and as DER when that gave nothing; each          *)
(* certificate is rated by the words in its algorithms' names.             *)
(***************************************************************************)
EXTENDS Integers, Sequences, FiniteSetsExt, SequencesExt

CONSTANTS
  Bundles,    \* what certificate files may hold: sequences of objects
  CertFile    \* the files of the directory; a set with one element is a file

\* An object is a PEM certificate, another PEM object, one that cannot be read,
\* or a DER certificate; a certificate has the words its two algorithms' names
\* hold, a key length and an end: "past", "future", or one that is no time.
Object == [form : {"pem", "other", "broken", "der"},
           has : SUBSET STRING, bits : Nat, not_after : {"past", "future", "none"}]

ASSUME CertConstants == Bundles \subseteq Seq(Object)

VARIABLES
  holds,      \* each file's contents
  waiting,    \* files not yet come to
  open,       \* the file being read, in a set; empty between files
  at,         \* where its stream stands
  infos,      \* what analyze_file has collected
  all,        \* what analyze has collected
  certifying  \* "walk", "done", or "thrown"

certs == <<holds, waiting, open, at, infos, all, certifying>>

CertInit ==
  /\ holds \in [CertFile -> Bundles]
  /\ waiting = CertFile /\ open = {} /\ at = 1 /\ infos = <<>> /\ all = <<>>
  /\ certifying = "walk"

\* assess_algorithm: the first word found decides, so that "ml-dsa" is "dsa".
AssessAlgorithm(has, bits) ==
  CASE has \cap {"rsa", "ecdsa", "ecdh", "dsa", "ec", "ed25519", "ed448", "gost", "md5"} # {} -> "high"
    [] has \cap {"sha1", "sha-1"} # {} -> "medium"
    [] has \cap {"sha256", "sha-256"} # {} -> IF bits \in 1 .. 255 THEN "medium" ELSE "low"
    [] has \cap {"sha384", "sha512"} # {} -> "low"
    [] OTHER -> "unknown"

\* compute_cert_risk, in tenths: the same words once more.
CertRisk(risk, bits, expired, has) ==
  LET base == CASE risk = "high" -> 90 [] risk = "medium" -> 55 [] risk = "low" -> 20
                [] risk = "unknown" -> 30
      short == IF risk = "high" /\ "rsa" \in has /\ bits \in 1 .. 2047 THEN 5 ELSE 0
      score == base + short - IF expired THEN 10 ELSE 0
  IN  IF score < 0 THEN 0 ELSE IF score > 100 THEN 100 ELSE score

\* fill_info.  An end that is no time leaves the difference uninitialised.
Infos(f, o) ==
  {[file_path |-> f, cert |-> o, quantum_risk |-> AssessAlgorithm(o.has, o.bits),
    is_expired |-> expired,
    risk_score |-> CertRisk(AssessAlgorithm(o.has, o.bits), o.bits, expired, o.has)] :
      expired \in IF o.not_after = "none" THEN BOOLEAN ELSE {o.not_after = "past"}}

\* A file of the directory, unless it cannot be opened.
OpenFile(f) ==
  /\ certifying = "walk" /\ open = {} /\ f \in waiting
  /\ waiting' = waiting \ {f}
  /\ open' \in {{f}, {}} /\ at' = 1 /\ infos' = <<>>
  /\ UNCHANGED <<holds, all, certifying>>

\* PEM_read_X509 passes over what is no certificate and fails at one it cannot
\* read.
NextPem(f) ==
  {i \in at .. Len(holds[f]) :
     holds[f][i].form = "pem" /\ \A j \in at .. (i - 1) : holds[f][j].form \notin {"pem", "broken"}}

ReadPem(f) ==
  /\ f \in open
  /\ \E i \in NextPem(f) :
       /\ at' = i + 1
       /\ \E info \in Infos(f, holds[f][i]) : infos' = Append(infos, info)
  /\ UNCHANGED <<holds, waiting, open, all, certifying>>

\* The file is read as DER behind its PEM certificates too.
BugCloseFile(f) ==
  /\ f \in open /\ NextPem(f) = {}
  /\ IF holds[f] # <<>> /\ Head(holds[f]).form = "der"
     THEN \E info \in Infos(f, Head(holds[f])) : all' = all \o infos \o <<info>>
     ELSE all' = all \o infos
  /\ open' = {} /\ infos' = <<>> /\ at' = 1
  /\ UNCHANGED <<holds, waiting, certifying>>

\* The loop ends at the first certificate it cannot read; the file is read
\* again as DER only when it ended at once.
CloseFile(f) ==
  /\ f \in open /\ NextPem(f) = {}
  /\ IF infos = <<>> /\ holds[f] # <<>> /\ Head(holds[f]).form = "der"
     THEN \E info \in Infos(f, Head(holds[f])) : all' = Append(all, info)
     ELSE all' = all \o infos
  /\ open' = {} /\ infos' = <<>> /\ at' = 1
  /\ UNCHANGED <<holds, waiting, certifying>>

\* Neither is_regular_file nor the iterator's increment takes the error code.
CertThrows ==
  /\ certifying = "walk" /\ open = {} /\ Cardinality(CertFile) > 1
  /\ certifying' = "thrown" /\ UNCHANGED <<holds, waiting, open, at, infos, all>>

CertEnds ==
  /\ certifying = "walk" /\ open = {} /\ waiting = {}
  /\ certifying' = "done" /\ UNCHANGED <<holds, waiting, open, at, infos, all>>

CertNext ==
  \/ \E f \in CertFile : OpenFile(f) \/ ReadPem(f) \/ CloseFile(f)
  \/ CertThrows \/ CertEnds

CertSpec == CertInit /\ [][CertNext]_certs

-----------------------------------------------------------------------------
\* What is reported of a file is one certificate for each it holds before the
\* first it cannot read, in their order, a DER one only on its own, or nothing;
\* a certificate with a date is rated the same wherever it is met, and one that
\* quantum computers break stands above every other, expired or not
\* (analyze_file, fill_info).
ReportIsEveryFilesHead ==
  LET pems(b) == {i \in DOMAIN b : b[i].form = "pem" /\ \A j \in 1 .. i : b[j].form # "broken"}
      head(b) == IF pems(b) # {} THEN pems(b) ELSE {i \in DOMAIN b : i = 1 /\ b[i].form = "der"}
      reported(f) == {i \in DOMAIN all : all[i].file_path = f}
  IN  /\ \A f \in CertFile :
           reported(f) = {} \/ \E place \in Surjection(reported(f), head(holds[f])) :
             /\ \A i \in reported(f) : all[i].cert = holds[f][place[i]]
             /\ \A i, j \in reported(f) : i < j => place[i] < place[j]
      /\ \A x, y \in ToSet(all) :
           /\ x.cert = y.cert /\ x.cert.not_after # "none" => x.risk_score = y.risk_score
           /\ x.quantum_risk = "high" /\ y.quantum_risk # "high" => x.risk_score > y.risk_score
=============================================================================
