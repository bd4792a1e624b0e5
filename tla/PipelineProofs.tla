--------------------------- MODULE PipelineProofs ---------------------------
(***************************************************************************)
(* Theorems about a run of the tool and about the four parts that read its *)
(* input: for every command line, every set of source files and every      *)
(* failure the exit code tells what was written, and nothing is written    *)
(* before all has been computed; for every tree the inventory, for every   *)
(* set of certificate files the report and for every text the findings of  *)
(* the two text analysers are what they should be.                         *)
(***************************************************************************)
EXTENDS Pipeline, ProjectScanner, CertAnalyzer, TokenText, RegexText,
        SequenceTheorems, FiniteSetTheorems, NaturalsInduction, WellFoundedInduction, TLAPS

(***************************************************************************)
(* main.  The inductive invariant says, stage by stage, what has been done *)
(* by then and what the disk holds.                                        *)
(***************************************************************************)
Stages == {"parse", "load", "analyse", "certificates", "assess", "metrics", "cbom", "report", "end"}
Contents == {"old", "empty", "cbom", "report", "cut"}

CfgTyped ==
  /\ cfg \in [s : Word \cup {None}, c : Word \cup {None}, d : Word, o : Word, cbom : Word,
              m : Word, extra : Seq(Word), include : Seq(Word), gt : Word \cup {None},
              switches : SUBSET Switches]
  /\ argv \in Seq(Word)

RunTyped ==
  /\ stage \in Stages
  /\ exit \in {Running, 0, 1, 2} /\ (exit = Running) = (stage # "end")
  /\ disk \in [Word -> Contents]

\* The optional stages, carried out if they were asked for.
CertificatesDone == cfg.c # None /\ "--skip-cert" \notin cfg.switches => "certificates" \in done
MetricsDone == "--metrics" \in cfg.switches => "metrics" \in done

StagesInOrder ==
  /\ stage = "parse" => done = {}
  /\ stage \in {"certificates", "assess", "metrics", "cbom", "report"} => toAnalyse = {}
  /\ stage \in {"assess", "metrics", "cbom", "report"} => CertificatesDone
  /\ stage \in {"metrics", "cbom", "report"} => "assess" \in done
  /\ stage \in {"cbom", "report"} => MetricsDone

\* Nothing is written before the inventory, and nothing but it before the report.
WritesInOrder ==
  /\ stage \notin {"report", "end"} => \A p \in Word : disk[p] = "old"
  /\ stage = "report" => /\ "--cbom-only" \notin cfg.switches
                         /\ disk[cfg.cbom] \in {"cbom", "cut"}
                         /\ \A p \in Word \ {cfg.cbom} : disk[p] = "old"

\* While nothing is written and main has not left, the exit code promises nothing.
Untouched == (\A p \in Word : disk[p] = "old") /\ exit = Running

RunInv == CfgTyped /\ RunTyped /\ StagesInOrder /\ WritesInOrder /\ ExitTellsOutput

LEMMA NothingPromised == Untouched /\ CfgTyped => ExitTellsOutput
BY DEF Untouched, ExitTellsOutput, Touched, Running, CfgTyped

LEMMA InitEstablishes == Init => RunInv
<1> SUFFICES ASSUME Init PROVE RunInv
  OBVIOUS
<1> USE DEF Init
<1>1. DefaultDb \in Word /\ DefaultOutput \in Word /\ DefaultCbom \in Word /\ "regex" \in Word
  BY PipelineConstants DEF Word, Modes
<1>2. CfgTyped
  <2>1. argv \in Seq(Word)
    BY PipelineConstants
  <2>2. <<>> \in Seq(Word)
    OBVIOUS
  <2> QED BY <1>1, <2>1, <2>2 DEF CfgTyped, DefaultCfg
<1>3. RunTyped
  BY DEF RunTyped, Stages, Contents, Running
<1>4. StagesInOrder
  BY DEF StagesInOrder, CertificatesDone, MetricsDone
<1>5. WritesInOrder
  BY DEF WritesInOrder
<1>6. ExitTellsOutput
  BY <1>2, NothingPromised DEF Untouched
<1> QED BY <1>2, <1>3, <1>4, <1>5, <1>6 DEF RunInv

LEMMA SwitchKeeps == RunInv /\ TakeSwitch => RunInv'
<1> SUFFICES ASSUME RunInv, TakeSwitch PROVE RunInv'
  OBVIOUS
<1> USE DEF RunInv, TakeSwitch
<1>1. Head(argv) \in Switches /\ Tail(argv) \in Seq(Word)
  BY HeadTailProperties DEF CfgTyped
<1>2. CfgTyped'
  BY <1>1 DEF CfgTyped
<1>3. RunTyped' /\ StagesInOrder' /\ WritesInOrder'
  BY DEF RunTyped, StagesInOrder, WritesInOrder
<1>4. Untouched'
  BY DEF Untouched, WritesInOrder, RunTyped
<1>5. ExitTellsOutput'
  BY <1>2, <1>4, NothingPromised, PTL
<1> QED BY <1>2, <1>3, <1>5

\* A flag's value is stored in the field of that flag (AppConfig::parse).
LEMMA ValueIsTyped ==
  ASSUME CfgTyped, Len(argv) >= 2, Head(argv) \in ValueFlags,
         cfg' = [cfg EXCEPT ![FieldOf(Head(argv))] =
                   IF Head(argv) \in ListFlags THEN Append(@, argv[2]) ELSE argv[2]],
         argv' = Tail(Tail(argv))
  PROVE  CfgTyped'
<1>1. argv[2] \in Word /\ Tail(Tail(argv)) \in Seq(Word)
  <2>1. argv \in Seq(Word) /\ Len(argv) \in Nat /\ 2 \in 1 .. Len(argv)
    BY LenProperties DEF CfgTyped
  <2>2. argv[2] \in Word
    BY <2>1, ElementOfSeq
  <2>3. argv # <<>>
    BY <2>1, EmptySeq
  <2>4. Tail(argv) \in Seq(Word) /\ Len(Tail(argv)) = Len(argv) - 1
    BY <2>1, <2>3, HeadTailProperties
  <2>5. Tail(argv) # <<>>
    <3>1. Len(Tail(argv)) # 0
      BY <2>1, <2>4
    <3>2. Len(<<>>) = 0
      OBVIOUS
    <3> QED BY <3>1, <3>2, Zenon
  <2>6. Tail(Tail(argv)) \in Seq(Word)
    BY <2>4, <2>5, HeadTailProperties
  <2> QED BY <2>2, <2>6
<1> DEFINE h == Head(argv)
<1>2. CASE h = "-s"
  BY <1>1, <1>2 DEF CfgTyped, FieldOf, ListFlags
<1>3. CASE h = "-c"
  BY <1>1, <1>3 DEF CfgTyped, FieldOf, ListFlags
<1>4. CASE h = "-d"
  BY <1>1, <1>4 DEF CfgTyped, FieldOf, ListFlags
<1>5. CASE h = "-o"
  BY <1>1, <1>5 DEF CfgTyped, FieldOf, ListFlags
<1>6. CASE h = "--cbom-output"
  BY <1>1, <1>6 DEF CfgTyped, FieldOf, ListFlags
<1>7. CASE h = "-m"
  BY <1>1, <1>7 DEF CfgTyped, FieldOf, ListFlags
<1>8. CASE h = "--ground-truth"
  BY <1>1, <1>8 DEF CfgTyped, FieldOf, ListFlags
<1>9. CASE h = "--extra-db"
  <2>1. Append(cfg.extra, argv[2]) \in Seq(Word)
    BY <1>1 DEF CfgTyped
  <2> QED BY <1>1, <1>9, <2>1 DEF CfgTyped, FieldOf, ListFlags
<1>10. CASE h = "-I"
  <2>1. Append(cfg.include, argv[2]) \in Seq(Word)
    BY <1>1 DEF CfgTyped
  <2> QED BY <1>1, <1>10, <2>1 DEF CfgTyped, FieldOf, ListFlags
<1> QED BY <1>2, <1>3, <1>4, <1>5, <1>6, <1>7, <1>8, <1>9, <1>10 DEF ValueFlags, ListFlags

LEMMA ValueKeeps == RunInv /\ TakeValue => RunInv'
<1> SUFFICES ASSUME RunInv, TakeValue PROVE RunInv'
  OBVIOUS
<1> USE DEF RunInv, TakeValue
<1>1. CfgTyped'
  BY ValueIsTyped
<1>2. RunTyped' /\ StagesInOrder' /\ WritesInOrder'
  BY DEF RunTyped, StagesInOrder, WritesInOrder
<1>3. Untouched'
  BY DEF Untouched, WritesInOrder, RunTyped
<1>4. ExitTellsOutput'
  BY <1>1, <1>3, NothingPromised, PTL
<1> QED BY <1>1, <1>2, <1>4

\* A stage that leaves before anything is written leaves with 1, or with 2
\* while it still parses.
LEMMA EarlyExitKeeps ==
  ASSUME RunInv, NEW code \in {1, 2}, Leave(code), stage \notin {"report", "end"},
         code = 2 => stage = "parse", UNCHANGED <<argv, cfg, toAnalyse, done, disk>>
  PROVE  RunInv'
<1> USE DEF RunInv
<1>1. CfgTyped' /\ RunTyped' /\ StagesInOrder' /\ WritesInOrder'
  BY DEF CfgTyped, RunTyped, StagesInOrder, WritesInOrder, Leave, Stages, Running
<1>2. \A p \in Word : disk'[p] = "old"
  BY DEF WritesInOrder
<1>3. ExitTellsOutput'
  BY <1>2 DEF ExitTellsOutput, Touched, Leave, CfgTyped, StagesInOrder
<1> QED BY <1>1, <1>3

\* A step from one stage to the next that writes nothing.
LEMMA QuietStepKeeps ==
  ASSUME RunInv, RunTyped', StagesInOrder', WritesInOrder', UNCHANGED <<argv, cfg, disk, exit>>,
         stage \notin {"report", "end"}
  PROVE  RunInv'
<1> USE DEF RunInv
<1>1. CfgTyped'
  BY DEF CfgTyped
<1>2. Untouched'
  BY DEF Untouched, WritesInOrder, RunTyped
<1>3. ExitTellsOutput'
  BY <1>1, <1>2, NothingPromised, PTL
<1> QED BY <1>1, <1>3

LEMMA ReadingKeeps ==
  ASSUME RunInv,
         \/ Reject \/ EndOfArguments \/ LoadDatabase \/ Scan \/ StageThrows
         \/ \E f \in Sources : AnalyseFile(f)
         \/ AllAnalysed \/ Certificates \/ Assess \/ Metrics
  PROVE  RunInv'
<1> USE DEF RunInv
<1>1. CASE Reject
  BY <1>1, EarlyExitKeeps DEF Reject
<1>2. CASE EndOfArguments
  <2>1. CASE Complete
    <3>1. RunTyped' /\ StagesInOrder' /\ WritesInOrder'
      BY <1>2, <2>1 DEF EndOfArguments, RunTyped, StagesInOrder, WritesInOrder, Stages
    <3> QED BY <1>2, <2>1, <3>1, QuietStepKeeps DEF EndOfArguments
  <2>2. CASE ~Complete
    BY <1>2, <2>2, EarlyExitKeeps DEF EndOfArguments
  <2> QED BY <2>1, <2>2
<1>3. CASE LoadDatabase
  <2>1. RunTyped' /\ StagesInOrder' /\ WritesInOrder'
    BY <1>3 DEF LoadDatabase, RunTyped, StagesInOrder, WritesInOrder
  <2> QED BY <1>3, <2>1, QuietStepKeeps DEF LoadDatabase
<1>4. CASE Scan
  <2>1. RunTyped' /\ StagesInOrder' /\ WritesInOrder'
    BY <1>4 DEF Scan, RunTyped, StagesInOrder, WritesInOrder, Stages
  <2> QED BY <1>4, <2>1, QuietStepKeeps DEF Scan
<1>5. CASE StageThrows
  BY <1>5, EarlyExitKeeps DEF StageThrows
<1>6. ASSUME NEW f \in Sources, AnalyseFile(f) PROVE RunInv'
  <2>1. RunTyped' /\ StagesInOrder' /\ WritesInOrder'
    BY <1>6 DEF AnalyseFile, RunTyped, StagesInOrder, WritesInOrder
  <2> QED BY <1>6, <2>1, QuietStepKeeps DEF AnalyseFile
<1>7. CASE AllAnalysed
  <2>1. RunTyped' /\ StagesInOrder' /\ WritesInOrder'
    BY <1>7 DEF AllAnalysed, RunTyped, StagesInOrder, WritesInOrder, Stages
  <2> QED BY <1>7, <2>1, QuietStepKeeps DEF AllAnalysed
<1>8. CASE Certificates
  <2>1. RunTyped' /\ StagesInOrder' /\ WritesInOrder'
    BY <1>8 DEF Certificates, RunTyped, StagesInOrder, WritesInOrder, Stages, CertificatesDone
  <2> QED BY <1>8, <2>1, QuietStepKeeps DEF Certificates
<1>9. CASE Assess
  <2>1. RunTyped' /\ StagesInOrder' /\ WritesInOrder'
    BY <1>9 DEF Assess, RunTyped, StagesInOrder, WritesInOrder, Stages, CertificatesDone
  <2> QED BY <1>9, <2>1, QuietStepKeeps DEF Assess
<1>10. CASE Metrics
  <2>1. RunTyped' /\ StagesInOrder' /\ WritesInOrder'
    BY <1>10 DEF Metrics, RunTyped, StagesInOrder, WritesInOrder, Stages, CertificatesDone, MetricsDone
  <2> QED BY <1>10, <2>1, QuietStepKeeps DEF Metrics
<1> QED BY <1>1, <1>2, <1>3, <1>4, <1>5, <1>6, <1>7, <1>8, <1>9, <1>10

LEMMA CbomKeeps == RunInv /\ WriteCbom => RunInv'
<1> SUFFICES ASSUME RunInv, WriteCbom PROVE RunInv'
  OBVIOUS
<1> USE DEF RunInv, WriteCbom
<1>1. cfg.cbom \in Word /\ cfg.o \in Word /\ \A p \in Word : disk[p] = "old"
  BY DEF CfgTyped, WritesInOrder
<1>2. CfgTyped'
  BY DEF CfgTyped
<1>3. CASE Written(cfg.cbom, "cbom") /\ "--cbom-only" \in cfg.switches /\ Leave(0)
  <2>1. RunTyped'
    <3>1. disk' \in [Word -> Contents]
      BY <1>3 DEF Written, RunTyped, Contents
    <3>2. stage' = "end" /\ exit' = 0
      BY <1>3 DEF Leave
    <3> QED BY <3>1, <3>2 DEF RunTyped, Stages, Running
  <2>2. StagesInOrder' /\ WritesInOrder'
    BY <1>3 DEF Leave, StagesInOrder, WritesInOrder
  <2>3. ExitTellsOutput'
    BY <1>1, <1>3 DEF Written, Leave, RunTyped, ExitTellsOutput, Touched, StagesInOrder
  <2> QED BY <1>2, <2>1, <2>2, <2>3
<1>4. CASE Written(cfg.cbom, "cbom") /\ "--cbom-only" \notin cfg.switches /\ stage' = "report" /\ UNCHANGED exit
  <2>1. RunTyped' /\ StagesInOrder' /\ WritesInOrder'
    BY <1>1, <1>4 DEF Written, RunTyped, StagesInOrder, WritesInOrder, Stages, Contents, Running,
                      CertificatesDone, MetricsDone
  <2>2. ExitTellsOutput'
    BY <1>1, <1>4 DEF Written, RunTyped, ExitTellsOutput, Touched, Running
  <2> QED BY <1>2, <2>1, <2>2
<1>5. CASE NotWritten(cfg.cbom)
  <2>1. RunTyped' /\ StagesInOrder' /\ WritesInOrder'
    BY <1>5 DEF NotWritten, Leave, RunTyped, StagesInOrder, WritesInOrder, Stages, Contents, Running
  <2>2. ExitTellsOutput'
    BY <1>1, <1>5 DEF NotWritten, Leave, RunTyped, ExitTellsOutput, Touched
  <2> QED BY <1>2, <2>1, <2>2
<1> QED BY <1>3, <1>4, <1>5

LEMMA ReportKeeps == RunInv /\ WriteReport => RunInv'
<1> SUFFICES ASSUME RunInv, WriteReport PROVE RunInv'
  OBVIOUS
<1> USE DEF RunInv, WriteReport
<1>1. cfg.cbom \in Word /\ cfg.o \in Word /\ disk[cfg.cbom] \in {"cbom", "cut"}
      /\ \A p \in Word \ {cfg.cbom} : disk[p] = "old"
  BY DEF CfgTyped, WritesInOrder
<1>2. CfgTyped'
  BY DEF CfgTyped
<1>3. CASE Written(cfg.o, "report") /\ Leave(0)
  <2>1. RunTyped'
    <3>1. disk' \in [Word -> Contents]
      BY <1>3 DEF Written, RunTyped, Contents
    <3>2. stage' = "end" /\ exit' = 0
      BY <1>3 DEF Leave
    <3> QED BY <3>1, <3>2 DEF RunTyped, Stages, Running
  <2>2. StagesInOrder' /\ WritesInOrder'
    BY <1>3 DEF Leave, StagesInOrder, WritesInOrder
  <2>3. ExitTellsOutput'
    BY <1>1, <1>3 DEF Written, Leave, RunTyped, ExitTellsOutput, Touched, StagesInOrder
  <2> QED BY <1>2, <2>1, <2>2, <2>3
<1>4. CASE NotWritten(cfg.o)
  <2>1. RunTyped' /\ StagesInOrder' /\ WritesInOrder'
    BY <1>4 DEF NotWritten, Leave, RunTyped, StagesInOrder, WritesInOrder, Stages, Contents, Running
  <2>2. ExitTellsOutput'
    BY <1>1, <1>4 DEF NotWritten, Leave, RunTyped, ExitTellsOutput, Touched
  <2> QED BY <1>2, <2>1, <2>2
<1> QED BY <1>3, <1>4

LEMMA StutterKeeps == RunInv /\ UNCHANGED vars => RunInv'
<1> SUFFICES ASSUME RunInv, UNCHANGED vars PROVE RunInv'
  OBVIOUS
<1>1. CfgTyped' /\ RunTyped' /\ StagesInOrder' /\ WritesInOrder'
  BY DEF RunInv, vars, analysis, CfgTyped, RunTyped, StagesInOrder, WritesInOrder, CertificatesDone, MetricsDone
<1>2. ExitTellsOutput'
  BY DEF RunInv, vars, analysis, ExitTellsOutput, Touched
<1> QED BY <1>1, <1>2 DEF RunInv

LEMMA StepKeeps == RunInv /\ [Next]_vars => RunInv'
BY SwitchKeeps, ValueKeeps, ReadingKeeps, CbomKeeps, ReportKeeps, StutterKeeps DEF Next, Ended

\* A script can rely on the exit code, for every command line, every set of
\* source files and every failure: after 2 nothing was done, after 1 there is no
\* new report, after 0 every output asked for was written (main, generate).
THEOREM ExitIsTruthful == Spec => []ExitTellsOutput
<1>1. RunInv => ExitTellsOutput
  BY DEF RunInv
<1> QED BY <1>1, InitEstablishes, StepKeeps, PTL DEF Spec

\* No step writes to a file before all that main computes has been computed, so
\* that the files of an earlier run survive whatever fails (main, write_json).
THEOREM WritesAreLast == Spec => FilesWrittenLast
<1> DEFINE WrittenLast == disk' # disk =>
       /\ toAnalyse = {} /\ "assess" \in done
       /\ "--metrics" \in cfg.switches => "metrics" \in done
       /\ cfg.c # None /\ "--skip-cert" \notin cfg.switches => "certificates" \in done
<1>1. RunInv /\ [Next]_vars => WrittenLast
  <2> SUFFICES ASSUME RunInv, [Next]_vars, disk' # disk
               PROVE  /\ toAnalyse = {} /\ "assess" \in done
                      /\ "--metrics" \in cfg.switches => "metrics" \in done
                      /\ cfg.c # None /\ "--skip-cert" \notin cfg.switches => "certificates" \in done
    OBVIOUS
  <2>1. stage \in {"cbom", "report"}
    BY DEF Next, vars, TakeSwitch, TakeValue, Reject, EndOfArguments, LoadDatabase, Scan, StageThrows,
           AnalyseFile, AllAnalysed, Certificates, Assess, Metrics, WriteCbom, WriteReport, Ended
  <2> QED BY <2>1 DEF RunInv, StagesInOrder, CertificatesDone, MetricsDone
<1>2. RunInv /\ [Next]_vars => [WrittenLast]_vars
  BY <1>1
<1> QED BY <1>2, InitEstablishes, StepKeeps, PTL DEF Spec, FilesWrittenLast

-----------------------------------------------------------------------------
(***************************************************************************)
(* Every set of natural numbers that is not empty has a least element.     *)
(***************************************************************************)
LEMMA LeastNat ==
  ASSUME NEW T, T \subseteq Nat, T # {}
  PROVE  \E m \in T : \A k \in T : m <= k
<1> DEFINE R == OpToRel(<, Nat)
<1>1. IsWellFoundedOn(R, Nat)
  BY NatLessThanWellFounded
<1>2. \A x, y \in Nat : x < y => <<x, y>> \in R
  BY DEF OpToRel
<1> HIDE DEF R
<1>3. PICK x \in T : \A y \in T : ~ (<<y, x>> \in R)
  BY <1>1, WFMin
<1>4. ASSUME NEW k \in T PROVE x <= k
  <2>1. k \in Nat /\ x \in Nat
    OBVIOUS
  <2>2. ~(k < x)
    BY <1>2, <1>3, <2>1
  <2> QED BY <2>1, <2>2
<1> QED BY <1>4

-----------------------------------------------------------------------------
(***************************************************************************)
(* ProjectScanner.  The iterator meets a directory before what lies in it, *)
(* so what is cut away below a closed one is never met, and the files      *)
(* listed are those met so far that lead past no skipped name.             *)
(***************************************************************************)
\* A record of the inventory follows from its path.
FileEntry ==
  {[path |-> q, category |-> Category(q), language |-> Language(q)] : q \in Seq(DOMAIN Ext)}

WayTo(p) == {root[i] : i \in DOMAIN root} \cup {p[i] : i \in DOMAIN p}
Opened(p) == \A k \in 1 .. Len(p) : kinds[SubSeq(p, 1, k)] # "closed"
Listed(p) ==
  /\ kinds[p] = "file" /\ Opened(p)
  /\ WayTo(p) \cap SkippedNames = {} /\ Language(root \o p) # "none"
Met == {p \in DOMAIN kinds \ left : Listed(p)}

ScannerTyped ==
  /\ root \in Roots /\ kinds \in Kinds /\ left \subseteq DOMAIN kinds
  /\ files \in Seq(FileEntry)
  /\ language_stats \in [Languages -> Nat]

\* What leads to an entry the iterator has met it has met before; nothing below
\* a directory it may not open is left.
MetDownwards == \A p \in DOMAIN kinds \ left : \A k \in 1 .. Len(p) : SubSeq(p, 1, k) \notin left
ClosedIsCut ==
  \A p \in left : \A k \in 1 .. (Len(p) - 1) :
    SubSeq(p, 1, k) \notin left => kinds[SubSeq(p, 1, k)] # "closed"

FilesAreMet ==
  <<>> \notin DOMAIN kinds =>
    /\ {files[i].path : i \in DOMAIN files} = {root \o p : p \in Met}
    /\ Len(files) = Cardinality(Met)
    /\ language_stats["cpp"] + language_stats["cmake"] + language_stats["x509"] = Len(files)

ScannerInv == ScannerTyped /\ MetDownwards /\ ClosedIsCut /\ FilesAreMet

-----------------------------------------------------------------------------
LEMMA ParentInTree ==
  ASSUME NEW p \in Seq(DOMAIN Ext), NEW k \in 1 .. Len(p)
  PROVE  /\ SubSeq(p, 1, k) \in Seq(DOMAIN Ext) /\ Len(SubSeq(p, 1, k)) = k
         /\ \A j \in 1 .. k : SubSeq(SubSeq(p, 1, k), 1, j) = SubSeq(p, 1, j)
<1>1. SubSeq(p, 1, k) \in Seq(DOMAIN Ext) /\ Len(SubSeq(p, 1, k)) = k
      /\ \A i \in 1 .. k : SubSeq(p, 1, k)[i] = p[i]
  OBVIOUS
<1>2. ASSUME NEW j \in 1 .. k PROVE SubSeq(SubSeq(p, 1, k), 1, j) = SubSeq(p, 1, j)
  BY <1>1
<1> QED BY <1>1, <1>2

\* Of a path below a root, the last name and the names on the way.
LEMMA BelowRoot ==
  ASSUME NEW top \in Seq(DOMAIN Ext), NEW p \in Seq(DOMAIN Ext), p # <<>>
  PROVE  /\ top \o p \in Seq(DOMAIN Ext) /\ Last(top \o p) = Last(p)
         /\ {(top \o p)[i] : i \in DOMAIN (top \o p)}
              = {top[i] : i \in DOMAIN top} \cup {p[i] : i \in DOMAIN p}
<1>1. top \o p \in Seq(DOMAIN Ext) /\ Len(top \o p) = Len(top) + Len(p)
      /\ \A i \in 1 .. (Len(top) + Len(p)) :
           (top \o p)[i] = IF i <= Len(top) THEN top[i] ELSE p[i - Len(top)]
  OBVIOUS
<1>2. Len(p) \in Nat /\ Len(p) > 0 /\ Len(top) \in Nat
  BY EmptySeq
<1>3. Last(top \o p) = Last(p)
  BY <1>1, <1>2 DEF Last
<1>4. ASSUME NEW i \in DOMAIN top PROVE i \in DOMAIN (top \o p) /\ (top \o p)[i] = top[i]
  BY <1>1, <1>2
<1>5. ASSUME NEW i \in DOMAIN p
      PROVE  i + Len(top) \in DOMAIN (top \o p) /\ (top \o p)[i + Len(top)] = p[i]
  BY <1>1, <1>2
<1>6. ASSUME NEW i \in DOMAIN (top \o p)
      PROVE  (top \o p)[i] \in {top[j] : j \in DOMAIN top} \cup {p[j] : j \in DOMAIN p}
  <2>1. CASE i <= Len(top)
    BY <1>1, <1>2, <2>1
  <2>2. CASE ~(i <= Len(top))
    <3>1. i - Len(top) \in DOMAIN p
      BY <1>1, <1>2, <2>2
    <3> QED BY <1>1, <2>2, <3>1
  <2> QED BY <2>1, <2>2
<1>7. {(top \o p)[i] : i \in DOMAIN (top \o p)}
        = {top[i] : i \in DOMAIN top} \cup {p[i] : i \in DOMAIN p}
  <2>1. PICK w : w = top \o p
    OBVIOUS
  <2>2. \A i \in DOMAIN top : i \in DOMAIN w /\ w[i] = top[i]
    BY <1>4, <2>1
  <2>3. \A i \in DOMAIN p : i + Len(top) \in DOMAIN w /\ w[i + Len(top)] = p[i]
    BY <1>5, <2>1
  <2>4. \A i \in DOMAIN w : w[i] \in {top[j] : j \in DOMAIN top} \cup {p[j] : j \in DOMAIN p}
    BY <1>6, <2>1
  <2>5. {w[i] : i \in DOMAIN w} = {top[i] : i \in DOMAIN top} \cup {p[i] : i \in DOMAIN p}
    BY <2>2, <2>3, <2>4
  <2> QED BY <2>1, <2>5
<1> QED BY <1>1, <1>3, <1>7

\* Adding a file that a plugin knows.
LEMMA AddOne ==
  ASSUME ScannerTyped, NEW q \in Seq(DOMAIN Ext), Language(q) # "none", Add(q)
  PROVE  /\ files' \in Seq(FileEntry) /\ Len(files') = Len(files) + 1
         /\ {files'[i].path : i \in DOMAIN files'} = {files[i].path : i \in DOMAIN files} \cup {q}
         /\ language_stats' \in [Languages -> Nat]
         /\ language_stats'["cpp"] + language_stats'["cmake"] + language_stats'["x509"]
              = language_stats["cpp"] + language_stats["cmake"] + language_stats["x509"] + 1
<1> DEFINE e == [path |-> q, category |-> Category(q), language |-> Language(q)]
<1>1. e \in FileEntry /\ e.path = q
  BY DEF FileEntry
<1>2. files' = Append(files, e) /\ files \in Seq(FileEntry)
  BY DEF Add, ScannerTyped
<1> HIDE DEF e
<1>3. files' \in Seq(FileEntry) /\ Len(files') = Len(files) + 1 /\ files'[Len(files) + 1] = e
      /\ \A i \in 1 .. Len(files) : files'[i] = files[i]
  BY <1>1, <1>2
<1>4. DOMAIN files' = 1 .. (Len(files) + 1) /\ DOMAIN files = 1 .. Len(files) /\ Len(files) \in Nat
  BY <1>2, <1>3
<1>5. {files'[i].path : i \in DOMAIN files'} = {files[i].path : i \in DOMAIN files} \cup {q}
  <2>1. \A i \in DOMAIN files' : i \in DOMAIN files \/ i = Len(files) + 1
    BY <1>4
  <2>2. DOMAIN files \subseteq DOMAIN files' /\ Len(files) + 1 \in DOMAIN files'
    BY <1>4
  <2>3. \A i \in DOMAIN files : files'[i].path = files[i].path
    BY <1>3, <1>4
  <2>4. files'[Len(files) + 1].path = q
    BY <1>1, <1>3
  <2> QED BY <2>1, <2>2, <2>3, <2>4
<1>6. Language(q) \in Languages
  BY DEF Language, Languages
<1>7. language_stats' = [language_stats EXCEPT ![Language(q)] = @ + 1]
      /\ language_stats \in [Languages -> Nat]
  BY DEF Add, ScannerTyped
<1>8. language_stats' \in [Languages -> Nat]
  BY <1>6, <1>7
<1>9. language_stats'["cpp"] + language_stats'["cmake"] + language_stats'["x509"]
        = language_stats["cpp"] + language_stats["cmake"] + language_stats["x509"] + 1
  BY <1>6, <1>7 DEF Languages
<1> QED BY <1>3, <1>5, <1>8, <1>9

-----------------------------------------------------------------------------
LEMMA ScannerStarts == ScannerInit => ScannerInv
<1> SUFFICES ASSUME ScannerInit PROVE ScannerInv
  OBVIOUS
<1>1. ScannerTyped
  BY DEF ScannerInit, ScannerTyped, Languages
<1>2. Met = {}
  BY DEF ScannerInit, Met
<1>3. FilesAreMet
  <2>1. Cardinality({}) = 0
    BY FS_EmptySet
  <2> QED BY <1>2, <2>1 DEF ScannerInit, FilesAreMet, Languages
<1>4. MetDownwards
  BY DEF ScannerInit, MetDownwards
<1>5. ClosedIsCut
  <2> SUFFICES ASSUME NEW p \in left, NEW k \in 1 .. (Len(p) - 1)
               PROVE  SubSeq(p, 1, k) \in left
    BY DEF ClosedIsCut
  <2>1. kinds \in Kinds /\ left = DOMAIN kinds
    BY DEF ScannerInit
  <2>2. p \in Seq(DOMAIN Ext)
    BY <2>1, ScannerConstants
  <2>3. k \in 1 .. Len(p)
    BY <2>2
  <2> QED BY <2>1, <2>3, ScannerConstants
<1> QED BY <1>1, <1>3, <1>4, <1>5 DEF ScannerInv

\* What a visit takes off the list: the entry, and what is below it when it may
\* not be opened.
LEMMA VisitKeepsTheWalk ==
  ASSUME ScannerInv, NEW p \in left, Visit(p)
  PROVE  MetDownwards' /\ ClosedIsCut' /\ left' \subseteq DOMAIN kinds /\ p \notin left'
<1> DEFINE gone == IF kinds[p] = "closed" THEN {q \in left : IsPrefix(p, q)} ELSE {p}
<1>1. left' = left \ gone /\ kinds' = kinds /\ p # <<>> /\ (Len(p) > 1 => Front(p) \notin left)
  BY DEF Visit
<1>2. left \subseteq DOMAIN kinds /\ kinds \in Kinds
  BY DEF ScannerInv, ScannerTyped
<1>3. \A q \in DOMAIN kinds : q \in Seq(DOMAIN Ext)
  BY <1>2, ScannerConstants
<1>4. \A q \in DOMAIN kinds : \A k \in 1 .. Len(q) : SubSeq(q, 1, k) \in DOMAIN kinds
  BY <1>2, ScannerConstants
<1>5. p \in DOMAIN kinds /\ p \in Seq(DOMAIN Ext) /\ Len(p) \in Nat \ {0}
  BY <1>1, <1>2, <1>3, EmptySeq
<1>6. SubSeq(p, 1, Len(p)) = p
  BY <1>5
<1>7. p \in gone
  BY <1>6 DEF IsPrefix
<1>8. ASSUME NEW k \in 1 .. (Len(p) - 1) PROVE SubSeq(p, 1, k) \notin left
  <2> DEFINE u == Front(p)
  <2>1. Len(p) > 1 /\ Len(p) - 1 \in 1 .. Len(p) /\ u = SubSeq(p, 1, Len(p) - 1) /\ k \in 1 .. (Len(p) - 1)
    BY <1>5 DEF Front
  <2>2. u \notin left /\ u \in DOMAIN kinds
    BY <1>1, <1>4, <1>5, <2>1
  <2>3. Len(u) = Len(p) - 1 /\ SubSeq(u, 1, k) = SubSeq(p, 1, k)
    BY <1>5, <2>1, ParentInTree
  <2>4. SubSeq(u, 1, k) \notin left
    BY <2>1, <2>2, <2>3 DEF ScannerInv, MetDownwards
  <2> QED BY <2>3, <2>4
<1> HIDE DEF gone
<1>9. ASSUME NEW q \in gone, NEW k \in 1 .. Len(q) PROVE SubSeq(q, 1, k) \notin left'
  <2>1. CASE q = p
    <3>1. CASE k = Len(p)
      BY <1>1, <1>6, <1>7, <2>1, <3>1
    <3>2. CASE k # Len(p)
      <4>1. k \in 1 .. (Len(p) - 1)
        BY <1>5, <2>1, <3>2
      <4> QED BY <1>1, <1>8, <2>1, <4>1
    <3> QED BY <3>1, <3>2
  <2>2. CASE q # p
    <3>1. kinds[p] = "closed" /\ q \in left /\ IsPrefix(p, q)
      BY <2>2 DEF gone
    <3>2. q \in Seq(DOMAIN Ext) /\ Len(q) \in Nat /\ Len(p) <= Len(q) /\ SubSeq(q, 1, Len(p)) = p
      BY <1>2, <1>3, <1>5, <1>6, <3>1 DEF IsPrefix
    <3> DEFINE s == SubSeq(q, 1, k)
    <3>3. s \in Seq(DOMAIN Ext) /\ Len(s) = k /\ \A j \in 1 .. k : SubSeq(s, 1, j) = SubSeq(q, 1, j)
      BY <3>2, ParentInTree
    <3> HIDE DEF s
    <3>4. CASE k < Len(p)
      <4>1. Len(p) \in 1 .. Len(q) /\ k \in 1 .. Len(p)
        BY <1>5, <3>2, <3>4
      <4>2. SubSeq(SubSeq(q, 1, Len(p)), 1, k) = SubSeq(q, 1, k)
        BY <3>2, <4>1, ParentInTree
      <4>3. SubSeq(p, 1, k) = SubSeq(q, 1, k)
        BY <3>2, <4>2
      <4>4. k \in 1 .. (Len(p) - 1)
        BY <1>5, <3>4
      <4> QED BY <1>1, <1>8, <4>3, <4>4
    <3>5. CASE ~(k < Len(p))
      <4>1. Len(p) <= Len(s) /\ Len(p) \in 1 .. k
        BY <1>5, <3>3, <3>5
      <4>2. IsPrefix(p, s)
        BY <1>6, <3>2, <3>3, <4>1 DEF IsPrefix
      <4>3. s \in left => s \in gone
        BY <3>1, <4>2 DEF gone
      <4> QED BY <1>1, <4>3 DEF s
    <3> QED BY <3>2, <3>4, <3>5, <1>5
  <2> QED BY <2>1, <2>2
<1>10. MetDownwards'
  <2> SUFFICES ASSUME NEW q \in DOMAIN kinds \ left', NEW k \in 1 .. Len(q)
               PROVE  SubSeq(q, 1, k) \notin left'
    BY <1>1 DEF MetDownwards
  <2>1. CASE q \in left
    BY <1>1, <1>9, <2>1
  <2>2. CASE q \notin left
    BY <1>1, <2>2 DEF ScannerInv, MetDownwards
  <2> QED BY <2>1, <2>2
<1>11. ClosedIsCut'
  <2> SUFFICES ASSUME NEW q \in left', NEW k \in 1 .. (Len(q) - 1), SubSeq(q, 1, k) \notin left',
                      kinds[SubSeq(q, 1, k)] = "closed"
               PROVE  FALSE
    BY <1>1 DEF ClosedIsCut
  <2>1. q \in left /\ q \in Seq(DOMAIN Ext)
    BY <1>1, <1>2, <1>3
  <2>2. SubSeq(q, 1, k) \in left
    BY <2>1 DEF ScannerInv, ClosedIsCut
  <2>3. SubSeq(q, 1, k) \in gone
    BY <1>1, <2>2
  <2>5. kinds[p] = "closed" /\ IsPrefix(p, SubSeq(q, 1, k))
    BY <1>6, <2>3 DEF gone, IsPrefix
  <2>6. k \in 1 .. Len(q) /\ Len(q) \in Nat
    BY <2>1
  <2>7. Len(SubSeq(q, 1, k)) = k /\ \A j \in 1 .. k : SubSeq(SubSeq(q, 1, k), 1, j) = SubSeq(q, 1, j)
    BY <2>1, <2>6, ParentInTree
  <2>8. Len(p) \in 1 .. k /\ SubSeq(SubSeq(q, 1, k), 1, Len(p)) = p
    BY <1>5, <1>6, <2>5, <2>7 DEF IsPrefix
  <2>9. IsPrefix(p, q)
    BY <1>5, <1>6, <2>6, <2>7, <2>8 DEF IsPrefix
  <2>10. q \in gone
    BY <2>1, <2>5, <2>9 DEF gone
  <2> QED BY <1>1, <2>10
<1> QED BY <1>1, <1>2, <1>7, <1>10, <1>11

\* A file visited is listed if it is on the list of those to be listed.
LEMMA VisitKeepsTheFiles ==
  ASSUME ScannerInv, NEW p \in left, Visit(p)
  PROVE  /\ files' \in Seq(FileEntry) /\ language_stats' \in [Languages -> Nat]
         /\ FilesAreMet'
<1>1. kinds' = kinds /\ root' = root /\ p # <<>> /\ (Len(p) > 1 => Front(p) \notin left)
  BY DEF Visit
<1>2. left \subseteq DOMAIN kinds /\ kinds \in Kinds /\ ScannerTyped
  BY DEF ScannerInv, ScannerTyped
<1>3. p \in DOMAIN kinds /\ p \in Seq(DOMAIN Ext) /\ Len(p) \in Nat \ {0}
  BY <1>1, <1>2, ScannerConstants, EmptySeq
<1>4. root \in Seq(DOMAIN Ext)
  BY <1>2, ScannerConstants DEF ScannerTyped
<1>5. root \o p \in Seq(DOMAIN Ext) /\ {(root \o p)[i] : i \in DOMAIN (root \o p)} = WayTo(p)
  BY <1>1, <1>3, <1>4, BelowRoot DEF WayTo
<1>6. SubSeq(p, 1, Len(p)) = p
  BY <1>3
<1>7. Skipped(root \o p) <=> WayTo(p) \cap SkippedNames # {}
  <2>1. PICK w : w = root \o p
    OBVIOUS
  <2>2. {w[i] : i \in DOMAIN w} = WayTo(p)
    BY <1>5, <2>1
  <2>3. Skipped(w) <=> {w[i] : i \in DOMAIN w} \cap SkippedNames # {}
    BY DEF Skipped, ShouldSkip
  <2> QED BY <2>1, <2>2, <2>3
\* The directories on the way were met, and none of them is closed.
<1>8. Opened(p) <=> kinds[p] # "closed"
  <2>1. ASSUME NEW k \in 1 .. Len(p), k # Len(p) PROVE kinds[SubSeq(p, 1, k)] # "closed"
    <3>1. k \in 1 .. (Len(p) - 1) /\ Len(p) > 1 /\ Len(p) - 1 \in 1 .. Len(p)
      BY <1>3, <2>1
    <3>2. Front(p) = SubSeq(p, 1, Len(p) - 1) /\ Front(p) \in DOMAIN kinds
      BY <1>2, <1>3, <3>1, ScannerConstants DEF Front
    <3>3. Len(Front(p)) = Len(p) - 1 /\ SubSeq(Front(p), 1, k) = SubSeq(p, 1, k)
      BY <1>3, <3>1, <3>2, ParentInTree
    <3>4. Front(p) \notin left
      BY <1>1, <3>1
    <3>5. SubSeq(p, 1, k) \notin left
      BY <3>1, <3>2, <3>3, <3>4 DEF ScannerInv, MetDownwards
    <3> QED BY <3>1, <3>5 DEF ScannerInv, ClosedIsCut
  <2>2. Len(p) \in 1 .. Len(p)
    BY <1>3
  <2> QED BY <1>6, <2>1, <2>2 DEF Opened
<1>9. Listed(p) <=> kinds[p] = "file" /\ ~Skipped(root \o p) /\ Language(root \o p) # "none"
  BY <1>7, <1>8 DEF Listed
<1>10. \A q : Listed(q)' <=> Listed(q)
  BY <1>1 DEF Listed, Opened, WayTo
<1>11. Met' = IF Listed(p) THEN Met \cup {p} ELSE Met
  <2>1. CASE kinds[p] = "closed"
    <3>1. left' = left \ {q \in left : IsPrefix(p, q)}
      BY <2>1 DEF Visit
    <3>2. ASSUME NEW q \in left, IsPrefix(p, q) PROVE ~Listed(q)
      <4>1. q \in Seq(DOMAIN Ext) /\ Len(p) \in 1 .. Len(q) /\ SubSeq(q, 1, Len(p)) = p
        BY <1>2, <1>3, <1>6, <3>2, ScannerConstants DEF IsPrefix
      <4> QED BY <2>1, <4>1 DEF Listed, Opened
    <3>3. ~Listed(p)
      BY <1>9, <2>1
    <3> QED BY <1>1, <1>2, <1>10, <3>1, <3>2, <3>3 DEF Met
  <2>2. CASE kinds[p] # "closed"
    <3>1. left' = left \ {p}
      BY <2>2 DEF Visit
    <3> QED BY <1>1, <1>2, <1>3, <1>10, <3>1 DEF Met
  <2> QED BY <2>1, <2>2
<1>12. p \notin Met
  BY DEF Met
<1>13. IsFiniteSet(Met)
  <2>1. IsFiniteSet(DOMAIN kinds)
    BY <1>2, ScannerConstants
  <2> QED BY <2>1, FS_Subset DEF Met
<1>14. CASE Listed(p)
  <2>1. Add(root \o p)
    BY <1>9, <1>14 DEF Visit, AddIfKnown
  <2>2. Language(root \o p) # "none"
    BY <1>9, <1>14
  <2>3. /\ files' \in Seq(FileEntry) /\ Len(files') = Len(files) + 1
        /\ {files'[i].path : i \in DOMAIN files'}
             = {files[i].path : i \in DOMAIN files} \cup {root \o p}
        /\ language_stats' \in [Languages -> Nat]
        /\ language_stats'["cpp"] + language_stats'["cmake"] + language_stats'["x509"]
             = language_stats["cpp"] + language_stats["cmake"] + language_stats["x509"] + 1
    BY <1>2, <1>5, <2>1, <2>2, AddOne
  <2>4. Met' = Met \cup {p} /\ Cardinality(Met') = Cardinality(Met) + 1
    BY <1>11, <1>12, <1>13, <1>14, FS_AddElement
  <2>5. ASSUME <<>> \notin DOMAIN kinds
        PROVE  {files'[i].path : i \in DOMAIN files'} = {root \o q : q \in Met'}
    <3>1. {files[i].path : i \in DOMAIN files} = {root \o q : q \in Met}
      BY <2>5 DEF ScannerInv, FilesAreMet
    <3>2. {root \o q : q \in Met \cup {p}} = {root \o q : q \in Met} \cup {root \o p}
      OBVIOUS
    <3> QED BY <2>3, <2>4, <3>1, <3>2
  <2>6. ASSUME <<>> \notin DOMAIN kinds
        PROVE  /\ Len(files') = Cardinality(Met')
               /\ language_stats'["cpp"] + language_stats'["cmake"] + language_stats'["x509"]
                    = Len(files')
    BY <2>3, <2>4, <2>6 DEF ScannerInv, FilesAreMet
  <2> QED BY <1>1, <2>3, <2>5, <2>6 DEF FilesAreMet
<1>15. CASE ~Listed(p)
  <2>1. files' = files /\ language_stats' = language_stats
    BY <1>9, <1>15 DEF Visit, AddIfKnown
  <2>2. Met' = Met
    BY <1>11, <1>15
  <2> QED BY <1>1, <2>1, <2>2 DEF ScannerInv, ScannerTyped, FilesAreMet
<1> QED BY <1>14, <1>15

LEMMA ScannerGoesOn == ScannerInv /\ [ScannerNext]_scan => ScannerInv'
<1> SUFFICES ASSUME ScannerInv, [ScannerNext]_scan PROVE ScannerInv'
  OBVIOUS
<1>1. ScannerTyped
  BY DEF ScannerInv
<1>2. ASSUME files' = files, language_stats' = language_stats, left' = left, root' = root, kinds' = kinds
      PROVE  ScannerInv'
  <2>1. Met' = Met
    BY <1>2 DEF Met, Listed, Opened, WayTo
  <2>2. FilesAreMet'
    BY <1>2, <2>1 DEF ScannerInv, FilesAreMet
  <2>3. ScannerTyped' /\ MetDownwards' /\ ClosedIsCut'
    BY <1>2 DEF ScannerInv, ScannerTyped, MetDownwards, ClosedIsCut
  <2> QED BY <2>2, <2>3 DEF ScannerInv
<1>3. CASE ScanFile
  <2>1. <<>> \in DOMAIN kinds
    BY <1>3 DEF ScanFile
  <2>2. root' = root /\ kinds' = kinds /\ left' = left /\ AddIfKnown(root)
    BY <1>3 DEF ScanFile
  <2>3. root \in Seq(DOMAIN Ext)
    BY <1>1, ScannerConstants DEF ScannerTyped
  <2>4. files' \in Seq(FileEntry) /\ language_stats' \in [Languages -> Nat]
    <3>1. CASE Language(root) # "none"
      BY <1>1, <2>2, <2>3, <3>1, AddOne DEF AddIfKnown
    <3>2. CASE Language(root) = "none"
      BY <1>1, <2>2, <3>2 DEF AddIfKnown, ScannerTyped
    <3> QED BY <3>1, <3>2
  <2>5. ScannerTyped'
    BY <1>1, <2>2, <2>4 DEF ScannerTyped
  <2>6. FilesAreMet'
    BY <2>1, <2>2 DEF FilesAreMet
  <2>7. MetDownwards' /\ ClosedIsCut'
    BY <2>2 DEF ScannerInv, MetDownwards, ClosedIsCut
  <2> QED BY <2>5, <2>6, <2>7 DEF ScannerInv
<1>4. CASE ScanThrows
  BY <1>2, <1>4 DEF ScanThrows
<1>5. CASE ScanEnds
  BY <1>2, <1>5 DEF ScanEnds
<1>6. ASSUME NEW p \in left, Visit(p) PROVE ScannerInv'
  <2>1. MetDownwards' /\ ClosedIsCut' /\ left' \subseteq DOMAIN kinds
    BY <1>6, VisitKeepsTheWalk
  <2>2. files' \in Seq(FileEntry) /\ language_stats' \in [Languages -> Nat] /\ FilesAreMet'
    BY <1>6, VisitKeepsTheFiles
  <2>3. root' = root /\ kinds' = kinds
    BY <1>6 DEF Visit
  <2> QED BY <1>1, <2>1, <2>2, <2>3 DEF ScannerInv, ScannerTyped
<1>7. CASE UNCHANGED scan
  BY <1>2, <1>7 DEF scan
<1> QED BY <1>3, <1>4, <1>5, <1>6, <1>7 DEF ScannerNext

\* What the category says of a source file's path.
LEMMA SourceCategory ==
  ASSUME NEW w \in Seq(DOMAIN Ext), Ext[Last(w)] \in CppExt \ HeaderExt, NEW S,
         S = {w[i] : i \in DOMAIN w}
  PROVE  Category(w) \in {"source", "header"} <=>
           ~( /\ (\E c \in S : Lower[c] \in {"test", "tests"}) \/ Lower[Last(w)] \in TestPrefixed
              /\ ~( /\ \E c \in S : Lower[c] \in {"test", "tests"}
                    /\ \E c \in S : Lower[c] \in {"fixture", "fixtures", "samples"} ) )
<1>1. Language(w) = "cpp" /\ Lower[Ext[Last(w)]] \notin HeaderExt
  BY ScannerConstants DEF Language
<1>2. (\E c \in S : Lower[c] \in {"test", "tests"})
        <=> \E i \in DOMAIN w : Lower[w[i]] \in {"test", "tests"}
  OBVIOUS
<1>3. (\E c \in S : Lower[c] \in {"fixture", "fixtures", "samples"})
        <=> \E i \in DOMAIN w : Lower[w[i]] \in {"fixture", "fixtures", "samples"}
  OBVIOUS
<1> HIDE DEF Last
<1> QED BY <1>1, <1>2, <1>3 DEF Category

LEMMA ScannerInvSuffices == ScannerInv => InventoryIsTheTree
<1> SUFFICES ASSUME ScannerInv, <<>> \notin DOMAIN kinds PROVE InventoryIsTheTree
  BY DEF InventoryIsTheTree
<1>1. ScannerTyped /\ kinds \in Kinds /\ root \in Roots
  BY DEF ScannerInv, ScannerTyped
<1>2. root \in Seq(DOMAIN Ext) /\ DOMAIN kinds \subseteq Seq(DOMAIN Ext)
  BY <1>1, ScannerConstants
<1>3. /\ {files[i].path : i \in DOMAIN files} = {root \o p : p \in Met}
      /\ Len(files) = Cardinality(Met)
      /\ language_stats["cpp"] + language_stats["cmake"] + language_stats["x509"] = Len(files)
  BY DEF ScannerInv, FilesAreMet
<1> DEFINE in(p, names) == \E c \in WayTo(p) : Lower[c] \in names
           tests(p) == /\ in(p, {"test", "tests"}) \/ Lower[Last(p)] \in TestPrefixed
                       /\ ~(in(p, {"test", "tests"}) /\ in(p, {"fixture", "fixtures", "samples"}))
<1>4. ASSUME NEW p \in Met, Ext[Last(p)] \in CppExt \ HeaderExt
      PROVE  tests(p) <=> root \o p \notin {f.path : f \in GetSourceFiles}
  <2>1. p \in Seq(DOMAIN Ext) /\ p # <<>>
    BY <1>2 DEF Met
  <2>2. PICK w \in Seq(DOMAIN Ext) : w = root \o p
    BY <1>2, <2>1, BelowRoot
  <2>3. Last(w) = Last(p) /\ WayTo(p) = {w[i] : i \in DOMAIN w}
    <3>1. Last(root \o p) = Last(p)
      BY <1>2, <2>1, BelowRoot
    <3>2. {(root \o p)[i] : i \in DOMAIN (root \o p)} = WayTo(p)
      BY <1>2, <2>1, BelowRoot DEF WayTo
    <3> HIDE DEF Last
    <3> QED BY <2>2, <3>1, <3>2
  <2>4. Category(w) \in {"source", "header"} <=> ~tests(p)
    BY <1>4, <2>3, SourceCategory
  <2>5. PICK i \in DOMAIN files : files[i].path = w
    BY <1>3, <2>2
  <2>6. \A j \in DOMAIN files : files[j] \in FileEntry
    BY <1>1 DEF ScannerTyped
  <2>7. \A e \in FileEntry : e.category = Category(e.path)
    BY DEF FileEntry
  <2>8. \A f \in GetSourceFiles : f \in FileEntry /\ f.category \in {"source", "header"}
    BY <2>6 DEF GetSourceFiles, ToSet
  <2>9. files[i].category \in {"source", "header"} => files[i] \in GetSourceFiles
    BY DEF GetSourceFiles, ToSet
  <2>10. w \in {f.path : f \in GetSourceFiles} <=> Category(w) \in {"source", "header"}
    BY <2>5, <2>6, <2>7, <2>8, <2>9
  <2> QED BY <2>2, <2>4, <2>10
<1>5. {p \in DOMAIN kinds \ left : kinds[p] = "file" /\ Opened(p)
         /\ WayTo(p) \cap SkippedNames = {} /\ Language(root \o p) # "none"} = Met
  BY DEF Met, Listed
<1> QED BY <1>3, <1>4, <1>5 DEF InventoryIsTheTree, Opened, WayTo

\* For every root and every tree below it: in whatever order the iterator goes,
\* the inventory holds the files of the tree that lie below no skipped name and
\* no closed directory, each once, and language_stats adds up to them (scan).
THEOREM InventoryIsAlwaysTheTree == ScannerSpec => []InventoryIsTheTree
<1>1. ScannerInv => InventoryIsTheTree
  BY ScannerInvSuffices
<1> QED BY <1>1, ScannerStarts, ScannerGoesOn, PTL DEF ScannerSpec

-----------------------------------------------------------------------------
(***************************************************************************)
(* CertAnalyzer.  Of the file being read, the certificates collected are   *)
(* those before the place where the stream stands, and no broken one lies  *)
(* there; of each file that was closed, the report holds its head.         *)
(***************************************************************************)
Risks == {"high", "medium", "low", "unknown"}
Rated == UNION {Infos(f, o) : f \in CertFile, o \in Object}

Pems(b) == {i \in DOMAIN b : b[i].form = "pem" /\ \A j \in 1 .. i : b[j].form # "broken"}
Head1(b) == {i \in DOMAIN b : i = 1 /\ b[i].form = "der"}
HeadOf(b) == IF Pems(b) # {} THEN Pems(b) ELSE Head1(b)
Reported(f) == {i \in DOMAIN all : all[i].file_path = f}

\* The places D of s hold the certificates at the positions P of a file, in
\* their order.
InOrder(s, D, b, P) ==
  \E place \in Surjection(D, P) :
    /\ \A i \in D : s[i].cert = b[place[i]]
    /\ \A i, j \in D : i < j => place[i] < place[j]

CertTyped ==
  /\ holds \in [CertFile -> Bundles]
  /\ waiting \subseteq CertFile /\ at \in Nat \ {0}
  /\ infos \in Seq(Rated) /\ all \in Seq(Rated)
  /\ \/ open = {} /\ infos = <<>>
     \/ \E f \in CertFile \ waiting : open = {f}

\* What has been read of the open file: the certificates before the stream's
\* position, and none of them was unreadable.
ReadSoFar ==
  \A f \in open :
    /\ \A n \in DOMAIN infos : infos[n].file_path = f
    /\ at <= Len(holds[f]) + 1
    /\ \A j \in 1 .. (at - 1) : holds[f][j].form # "broken"
    /\ InOrder(infos, DOMAIN infos, holds[f], {j \in 1 .. (at - 1) : holds[f][j].form = "pem"})

\* Nothing has been reported of a file that is open or waiting.
ReportedOnce == \A i \in DOMAIN all : all[i].file_path \notin waiting \cup open

HeadsReported == \A f \in CertFile : Reported(f) = {} \/ InOrder(all, Reported(f), holds[f], HeadOf(holds[f]))

CertInv == CertTyped /\ ReadSoFar /\ ReportedOnce /\ HeadsReported

-----------------------------------------------------------------------------
LEMMA RiskIsOne == \A has, bits : AssessAlgorithm(has, bits) \in Risks
  BY DEF AssessAlgorithm, Risks

LEMMA HighStandsAbove ==
  ASSUME NEW bits, NEW has, NEW expired \in BOOLEAN
  PROVE  /\ CertRisk("high", bits, expired, has) \in 80 .. 95
         /\ \A risk \in Risks \ {"high"} : CertRisk(risk, bits, expired, has) \in 10 .. 55
  BY DEF CertRisk, Risks

LEMMA RatedFacts ==
  ASSUME NEW f, NEW o, NEW x \in Infos(f, o)
  PROVE  /\ x.file_path = f /\ x.cert = o /\ x.quantum_risk \in Risks
         /\ x.risk_score \in 0 .. 100
         /\ x.quantum_risk = "high" => x.risk_score >= 80
         /\ x.quantum_risk # "high" => x.risk_score <= 55
         /\ o.not_after # "none" =>
              x.risk_score = CertRisk(AssessAlgorithm(o.has, o.bits), o.bits, o.not_after = "past", o.has)
<1> DEFINE q == AssessAlgorithm(o.has, o.bits)
<1>1. PICK e \in IF o.not_after = "none" THEN BOOLEAN ELSE {o.not_after = "past"} :
        x = [file_path |-> f, cert |-> o, quantum_risk |-> q, is_expired |-> e,
             risk_score |-> CertRisk(q, o.bits, e, o.has)]
  BY DEF Infos
<1>2. e \in BOOLEAN
  OBVIOUS
<1>3. q \in Risks
  BY RiskIsOne
<1> HIDE DEF q
<1>4. x.file_path = f /\ x.cert = o /\ x.quantum_risk = q /\ x.risk_score = CertRisk(q, o.bits, e, o.has)
  BY <1>1
<1>5. q = "high" => CertRisk(q, o.bits, e, o.has) \in 80 .. 95
  BY <1>2, HighStandsAbove
<1>6. q # "high" => CertRisk(q, o.bits, e, o.has) \in 10 .. 55
  BY <1>2, <1>3, HighStandsAbove
<1>7. o.not_after # "none" => e = (o.not_after = "past")
  BY <1>1
<1>8. x.risk_score \in 0 .. 100 /\ (q = "high" => x.risk_score >= 80) /\ (q # "high" => x.risk_score <= 55)
  BY <1>4, <1>5, <1>6
<1>9. o.not_after # "none" => x.risk_score = CertRisk(q, o.bits, o.not_after = "past", o.has)
  BY <1>4, <1>7
<1> QED BY <1>3, <1>4, <1>8, <1>9 DEF q

-----------------------------------------------------------------------------
(* Lists in the order of a file.                                           *)

LEMMA OrderFromPlace ==
  ASSUME NEW s, NEW D, NEW b, NEW P, NEW place \in [D -> P],
         \A t \in P : \E i \in D : place[i] = t,
         \A i \in D : s[i].cert = b[place[i]],
         \A i, j \in D : i < j => place[i] < place[j]
  PROVE  InOrder(s, D, b, P)
  BY DEF InOrder, Surjection

LEMMA OrderEmpty == ASSUME NEW s, NEW b PROVE InOrder(s, {}, b, {})
<1> DEFINE place == [i \in {} |-> i]
<1>1. place \in [{} -> {}]
  OBVIOUS
<1> QED BY <1>1, OrderFromPlace

\* Another list that holds the same, at the same places or further on.
LEMMA OrderMoved ==
  ASSUME NEW s, NEW D, D \subseteq Nat, NEW b, NEW P, InOrder(s, D, b, P),
         NEW t, NEW n \in Nat, \A i \in D : t[n + i] = s[i], NEW E, E = {n + i : i \in D}
  PROVE  InOrder(t, E, b, P)
<1>1. PICK place \in Surjection(D, P) :
        /\ \A i \in D : s[i].cert = b[place[i]]
        /\ \A i, j \in D : i < j => place[i] < place[j]
  BY DEF InOrder
<1>2. place \in [D -> P] /\ \A p \in P : \E i \in D : place[i] = p
  BY DEF Surjection
<1> DEFINE moved == [k \in E |-> place[k - n]]
<1>3. \A k \in E : k - n \in D /\ k = n + (k - n) /\ k \in Nat
  OBVIOUS
<1>4. \A i \in D : n + i \in E /\ (n + i) - n = i
  OBVIOUS
<1>5. moved \in [E -> P]
  BY <1>2, <1>3
<1>6. \A p \in P : \E k \in E : moved[k] = p
  <2> SUFFICES ASSUME NEW p \in P PROVE \E k \in E : moved[k] = p
    OBVIOUS
  <2>1. PICK i \in D : place[i] = p
    BY <1>2
  <2>2. moved[n + i] = p
    BY <1>4, <2>1
  <2> QED BY <1>4, <2>2
<1>7. \A k \in E : t[k].cert = b[moved[k]]
  <2> SUFFICES ASSUME NEW k \in E PROVE t[k].cert = b[moved[k]]
    OBVIOUS
  <2>1. PICK i \in D : i = k - n /\ k = n + i
    BY <1>3
  <2>2. t[k] = s[i] /\ moved[k] = place[i]
    BY <2>1
  <2> QED BY <1>1, <2>2
<1>8. \A k, l \in E : k < l => moved[k] < moved[l]
  <2> SUFFICES ASSUME NEW k \in E, NEW l \in E, k < l PROVE moved[k] < moved[l]
    OBVIOUS
  <2>1. k - n \in D /\ l - n \in D /\ k - n < l - n
    BY <1>3
  <2> QED BY <1>1, <2>1
<1> HIDE DEF moved
<1> QED BY <1>5, <1>6, <1>7, <1>8, OrderFromPlace

\* One more certificate, behind those read.
LEMMA OrderExtended ==
  ASSUME NEW s \in Seq(Rated), NEW b, NEW P, P \subseteq Nat, InOrder(s, DOMAIN s, b, P),
         NEW x \in Rated, NEW k \in Nat, \A p \in P : p < k, x.cert = b[k]
  PROVE  InOrder(Append(s, x), DOMAIN Append(s, x), b, P \cup {k})
<1>1. PICK place \in Surjection(DOMAIN s, P) :
        /\ \A i \in DOMAIN s : s[i].cert = b[place[i]]
        /\ \A i, j \in DOMAIN s : i < j => place[i] < place[j]
  BY DEF InOrder
<1>2. place \in [DOMAIN s -> P] /\ \A p \in P : \E i \in DOMAIN s : place[i] = p
  BY DEF Surjection
<1>3. PICK t : t = Append(s, x)
  OBVIOUS
<1> DEFINE n == Len(s)
<1>4. /\ n \in Nat /\ DOMAIN s = 1 .. n /\ DOMAIN t = 1 .. (n + 1)
      /\ t[n + 1] = x /\ \A i \in 1 .. n : t[i] = s[i]
  BY <1>3
<1> DEFINE more == [i \in DOMAIN t |-> IF i = n + 1 THEN k ELSE place[i]]
<1> HIDE DEF n
<1>5. \A i \in DOMAIN t : i = n + 1 \/ i \in DOMAIN s
  BY <1>4
<1>6. DOMAIN s \subseteq DOMAIN t /\ n + 1 \in DOMAIN t /\ n + 1 \notin DOMAIN s
  BY <1>4
<1>7. more \in [DOMAIN t -> P \cup {k}]
  BY <1>2, <1>5
<1>8. \A p \in P \cup {k} : \E i \in DOMAIN t : more[i] = p
  BY <1>2, <1>6
<1>9. \A i \in DOMAIN t : t[i].cert = b[more[i]]
  BY <1>1, <1>4, <1>5
<1>10. \A i, j \in DOMAIN t : i < j => more[i] < more[j]
  <2> SUFFICES ASSUME NEW i \in DOMAIN t, NEW j \in DOMAIN t, i < j PROVE more[i] < more[j]
    OBVIOUS
  <2>1. i \in DOMAIN s /\ i # n + 1
    BY <1>4
  <2>2. CASE j = n + 1
    BY <1>2, <2>1, <2>2
  <2>3. CASE j # n + 1
    BY <1>1, <1>5, <2>1, <2>3
  <2> QED BY <2>2, <2>3
<1> HIDE DEF more
<1>11. InOrder(t, DOMAIN t, b, P \cup {k})
  BY <1>7, <1>8, <1>9, <1>10, OrderFromPlace
<1> QED BY <1>3, <1>11

-----------------------------------------------------------------------------
LEMMA CertStarts == CertInit => CertInv
<1> SUFFICES ASSUME CertInit PROVE CertInv
  OBVIOUS
<1>1. CertTyped
  BY DEF CertInit, CertTyped
<1>2. all = <<>> /\ open = {}
  BY DEF CertInit
<1>3. ReadSoFar /\ ReportedOnce
  BY <1>2 DEF ReadSoFar, ReportedOnce
<1>4. HeadsReported
  BY <1>2 DEF HeadsReported, Reported
<1> QED BY <1>1, <1>3, <1>4 DEF CertInv

LEMMA OpenFileKeeps ==
  ASSUME CertInv, NEW f \in CertFile, OpenFile(f)
  PROVE  CertInv'
<1>1. /\ f \in waiting /\ waiting' = waiting \ {f} /\ open = {} /\ (open' = {f} \/ open' = {})
      /\ at' = 1 /\ infos' = <<>> /\ holds' = holds /\ all' = all
  BY DEF OpenFile
<1>2. CertTyped'
  BY <1>1 DEF CertInv, CertTyped
<1>3. ReadSoFar'
  <2> SUFFICES ASSUME open' = {f}
               PROVE  /\ \A n \in DOMAIN infos' : infos'[n].file_path = f
                      /\ at' <= Len(holds[f]) + 1
                      /\ \A j \in 1 .. (at' - 1) : holds[f][j].form # "broken"
                      /\ InOrder(infos', DOMAIN infos', holds[f],
                                 {j \in 1 .. (at' - 1) : holds[f][j].form = "pem"})
    BY <1>1 DEF ReadSoFar
  <2>1. DOMAIN infos' = {} /\ 1 .. (at' - 1) = {}
    BY <1>1
  <2>2. holds[f] \in Seq(Object)
    BY CertConstants DEF CertInv, CertTyped
  <2>3. at' <= Len(holds[f]) + 1
    BY <1>1, <2>2
  <2>4. {j \in 1 .. (at' - 1) : holds[f][j].form = "pem"} = {}
    BY <2>1
  <2> QED BY <2>1, <2>3, <2>4, OrderEmpty
<1>4. ReportedOnce'
  BY <1>1 DEF CertInv, ReportedOnce
<1>5. HeadsReported'
  BY <1>1 DEF CertInv, HeadsReported, Reported
<1> QED BY <1>2, <1>3, <1>4, <1>5 DEF CertInv

LEMMA ReadPemKeeps ==
  ASSUME CertInv, NEW f \in CertFile, ReadPem(f)
  PROVE  CertInv'
<1>1. f \in open /\ holds' = holds /\ waiting' = waiting /\ open' = open /\ all' = all
  BY DEF ReadPem
<1>2. PICK i \in NextPem(f) :
        at' = i + 1 /\ \E info \in Infos(f, holds[f][i]) : infos' = Append(infos, info)
  BY DEF ReadPem
<1>3. PICK x \in Infos(f, holds[f][i]) : infos' = Append(infos, x)
  BY <1>2
<1>4. /\ at \in Nat \ {0} /\ infos \in Seq(Rated) /\ holds[f] \in Seq(Object)
      /\ open = {f} /\ f \in CertFile \ waiting
  BY <1>1, CertConstants DEF CertInv, CertTyped
<1>5. /\ i \in at .. Len(holds[f]) /\ holds[f][i].form = "pem" /\ holds[f][i] \in Object
      /\ \A j \in at .. (i - 1) : holds[f][j].form \notin {"pem", "broken"}
  BY <1>4 DEF NextPem
<1>6. x \in Rated /\ x.file_path = f /\ x.cert = holds[f][i]
  BY <1>5, RatedFacts DEF Rated
<1>7. infos' \in Seq(Rated) /\ at' \in Nat \ {0}
  BY <1>2, <1>3, <1>4, <1>5, <1>6
<1>8. CertTyped'
  BY <1>1, <1>4, <1>7 DEF CertInv, CertTyped
<1>9. ReadSoFar'
  <2> DEFINE P == {j \in 1 .. (at - 1) : holds[f][j].form = "pem"}
             Q == {j \in 1 .. i : holds[f][j].form = "pem"}
  <2>1. /\ \A n \in DOMAIN infos : infos[n].file_path = f
        /\ \A j \in 1 .. (at - 1) : holds[f][j].form # "broken"
        /\ InOrder(infos, DOMAIN infos, holds[f], P)
    BY <1>1 DEF CertInv, ReadSoFar
  <2>2. Q = P \cup {i}
    BY <1>4, <1>5
  <2>3. P \subseteq Nat /\ i \in Nat /\ \A p \in P : p < i
    BY <1>4, <1>5
  <2> HIDE DEF P, Q
  <2>4. InOrder(infos', DOMAIN infos', holds[f], Q)
    BY <1>3, <1>4, <1>6, <2>1, <2>2, <2>3, OrderExtended
  <2>5. \A n \in DOMAIN infos' : infos'[n].file_path = f
    <3>1. DOMAIN infos' = 1 .. (Len(infos) + 1) /\ DOMAIN infos = 1 .. Len(infos) /\ Len(infos) \in Nat
      BY <1>3, <1>4
    <3>2. \A n \in 1 .. Len(infos) : infos'[n] = infos[n]
      BY <1>3, <1>4
    <3>3. infos'[Len(infos) + 1] = x
      BY <1>3, <1>4
    <3>4. \A n \in DOMAIN infos' : n \in DOMAIN infos \/ n = Len(infos) + 1
      BY <3>1
    <3> QED BY <1>6, <2>1, <3>1, <3>2, <3>3, <3>4
  <2>6. 1 .. (at' - 1) = 1 .. i
    BY <1>2, <1>4, <1>5
  <2>7. \A j \in 1 .. i : holds[f][j].form # "broken"
    <3> SUFFICES ASSUME NEW j \in 1 .. i PROVE holds[f][j].form # "broken"
      OBVIOUS
    <3>1. j \in 1 .. (at - 1) \/ j \in at .. (i - 1) \/ j = i
      BY <1>4, <1>5
    <3> QED BY <1>5, <2>1, <3>1
  <2>8. at' <= Len(holds[f]) + 1
    BY <1>2, <1>4, <1>5
  <2> QED BY <1>1, <1>4, <2>4, <2>5, <2>6, <2>7, <2>8 DEF ReadSoFar, Q
<1>10. ReportedOnce' /\ HeadsReported'
  BY <1>1 DEF CertInv, ReportedOnce, HeadsReported, Reported
<1> QED BY <1>8, <1>9, <1>10 DEF CertInv

\* When no certificate is left to read, those before the stream's position are
\* all that stand before the first unreadable one.
LEMMA AllWereRead ==
  ASSUME CertInv, NEW f \in CertFile, f \in open, NextPem(f) = {}
  PROVE  Pems(holds[f]) = {j \in 1 .. (at - 1) : holds[f][j].form = "pem"}
<1>1. at \in Nat \ {0} /\ holds[f] \in Seq(Object) /\ at <= Len(holds[f]) + 1
      /\ \A j \in 1 .. (at - 1) : holds[f][j].form # "broken"
  BY CertConstants DEF CertInv, CertTyped, ReadSoFar
<1>2. DOMAIN holds[f] = 1 .. Len(holds[f]) /\ Len(holds[f]) \in Nat
  BY <1>1
<1>3. ASSUME NEW i \in Pems(holds[f]) PROVE i < at
  <2> SUFFICES ASSUME ~(i < at) PROVE FALSE
    OBVIOUS
  <2>1. i \in at .. Len(holds[f]) /\ holds[f][i].form = "pem"
        /\ \A j \in 1 .. i : holds[f][j].form # "broken"
    BY <1>1, <1>2 DEF Pems
  <2> DEFINE T == {k \in Nat : k \in at .. Len(holds[f]) /\ holds[f][k].form = "pem"}
  <2>2. T \subseteq Nat /\ i \in T
    BY <1>1, <1>2, <2>1
  <2>3. PICK m \in T : \A k \in T : m <= k
    BY <2>2, LeastNat
  <2>4. m \in Nat /\ m \in at .. Len(holds[f]) /\ holds[f][m].form = "pem" /\ m <= i
    BY <2>2, <2>3
  <2>5. \A j \in at .. (m - 1) : j \in Nat /\ j \in at .. Len(holds[f]) /\ ~(m <= j) /\ j \in 1 .. i
    BY <1>1, <1>2, <2>1, <2>4
  <2>6. \A j \in at .. (m - 1) : holds[f][j].form # "pem"
    BY <2>3, <2>5
  <2>7. m \in NextPem(f)
    BY <2>1, <2>4, <2>5, <2>6 DEF NextPem
  <2> QED BY <2>7
<1>4. ASSUME NEW i \in Pems(holds[f])
      PROVE  i \in {j \in 1 .. (at - 1) : holds[f][j].form = "pem"}
  BY <1>1, <1>2, <1>3 DEF Pems
<1>5. ASSUME NEW i \in 1 .. (at - 1), holds[f][i].form = "pem" PROVE i \in Pems(holds[f])
  BY <1>1, <1>2, <1>5 DEF Pems
<1> QED BY <1>4, <1>5

\* A file is closed: what was read of it goes behind what was reported.
LEMMA ReportFile ==
  ASSUME CertInv, NEW f \in CertFile, f \in open, NEW more \in Seq(Rated), all' = all \o more,
         \A n \in DOMAIN more : more[n].file_path = f,
         holds' = holds, waiting' = waiting, open' = {}, infos' = <<>>, at' = 1,
         more = <<>> \/ InOrder(more, DOMAIN more, holds[f], HeadOf(holds[f]))
  PROVE  CertInv'
<1>1. all \in Seq(Rated)
  BY DEF CertInv, CertTyped
<1> DEFINE n == Len(all)
<1>2. /\ n \in Nat /\ DOMAIN all = 1 .. n /\ DOMAIN more = 1 .. Len(more) /\ Len(more) \in Nat
      /\ all' \in Seq(Rated) /\ DOMAIN all' = 1 .. (n + Len(more))
      /\ \A i \in 1 .. n : all'[i] = all[i]
      /\ \A i \in DOMAIN more : all'[n + i] = more[i]
  BY <1>1
<1> HIDE DEF n
<1>3. \A i \in DOMAIN all' : i \in DOMAIN all \/ (i - n \in DOMAIN more /\ n + (i - n) = i)
  BY <1>2
<1>4. \A i \in DOMAIN more : n + i \in DOMAIN all' /\ n + i \notin DOMAIN all
  BY <1>2
<1>5. DOMAIN all \subseteq DOMAIN all'
  BY <1>2
<1>6. f \notin waiting /\ open = {f}
  BY DEF CertInv, CertTyped
<1>7. CertTyped'
  BY <1>2 DEF CertInv, CertTyped
<1>8. ReadSoFar'
  BY DEF ReadSoFar
<1>9. \A i \in DOMAIN all : all[i].file_path \notin waiting \cup {f}
  BY <1>6 DEF CertInv, ReportedOnce
<1>10. ReportedOnce'
  <2> SUFFICES ASSUME NEW i \in DOMAIN all' PROVE all'[i].file_path \notin waiting
    BY DEF ReportedOnce
  <2>1. CASE i \in DOMAIN all
    BY <1>2, <1>9, <2>1
  <2>2. CASE i - n \in DOMAIN more /\ n + (i - n) = i
    <3>1. all'[i] = more[i - n]
      BY <1>2, <2>2
    <3> QED BY <1>6, <2>2, <3>1
  <2> QED BY <1>3, <2>1, <2>2
<1>11. ASSUME NEW g \in CertFile, g # f PROVE Reported(g)' = {} \/ InOrder(all', Reported(g)', holds[g], HeadOf(holds[g]))
  <2>1. ASSUME NEW i \in DOMAIN all', all'[i].file_path = g PROVE i \in DOMAIN all
    <3>1. CASE i - n \in DOMAIN more /\ n + (i - n) = i
      <4>1. all'[i] = more[i - n]
        BY <1>2, <3>1
      <4> QED BY <1>11, <2>1, <3>1, <4>1
    <3> QED BY <1>3, <3>1
  <2>2. Reported(g)' = Reported(g)
    BY <1>2, <1>5, <2>1 DEF Reported
  <2>3. Reported(g) = {} \/ InOrder(all, Reported(g), holds[g], HeadOf(holds[g]))
    BY DEF CertInv, HeadsReported
  <2>4. CASE InOrder(all, Reported(g), holds[g], HeadOf(holds[g]))
    <3>1. Reported(g) \subseteq Nat /\ \A i \in Reported(g) : all'[0 + i] = all[i]
      BY <1>2 DEF Reported
    <3>2. Reported(g)' = {0 + i : i \in Reported(g)} /\ 0 \in Nat
      BY <2>2, <3>1
    <3>3. PICK t, E, D, b, P :
            t = all' /\ E = Reported(g)' /\ D = Reported(g) /\ b = holds[g] /\ P = HeadOf(holds[g])
      OBVIOUS
    <3>4. D \subseteq Nat /\ InOrder(all, D, b, P) /\ (\A i \in D : t[0 + i] = all[i])
          /\ E = {0 + i : i \in D}
      BY <2>4, <3>1, <3>2, <3>3
    <3>5. InOrder(t, E, b, P)
      BY <3>2, <3>4, OrderMoved
    <3> QED BY <3>3, <3>5
  <2> QED BY <2>2, <2>3, <2>4
<1>12. Reported(f)' = {} \/ InOrder(all', Reported(f)', holds[f], HeadOf(holds[f]))
  <2>1. Reported(f)' = {n + i : i \in DOMAIN more}
    <3>1. ASSUME NEW i \in Reported(f)' PROVE i \in {n + k : k \in DOMAIN more}
      <4>1. i \in DOMAIN all' /\ all'[i].file_path = f
        BY DEF Reported
      <4>2. i \notin DOMAIN all
        BY <1>2, <1>9, <4>1
      <4> QED BY <1>3, <4>1, <4>2
    <3>2. ASSUME NEW k \in DOMAIN more PROVE n + k \in Reported(f)'
      BY <1>2, <1>4 DEF Reported
    <3> QED BY <3>1, <3>2
  <2>2. CASE more = <<>>
    BY <2>1, <2>2
  <2>3. CASE InOrder(more, DOMAIN more, holds[f], HeadOf(holds[f]))
    <3>1. DOMAIN more \subseteq Nat
      BY <1>2
    <3>2. \A i \in DOMAIN more : all'[n + i] = more[i]
      BY <1>2
    <3>3. PICK t, E, D, b, P :
            t = all' /\ E = Reported(f)' /\ D = DOMAIN more /\ b = holds[f] /\ P = HeadOf(holds[f])
      OBVIOUS
    <3>4. D \subseteq Nat /\ InOrder(more, D, b, P) /\ (\A i \in D : t[n + i] = more[i])
          /\ E = {n + i : i \in D} /\ n \in Nat
      BY <1>2, <2>1, <2>3, <3>1, <3>2, <3>3
    <3>5. InOrder(t, E, b, P)
      BY <3>4, OrderMoved
    <3> QED BY <3>3, <3>5
  <2> QED BY <2>2, <2>3
<1>13. HeadsReported'
  BY <1>11, <1>12 DEF HeadsReported
<1> QED BY <1>7, <1>8, <1>10, <1>13 DEF CertInv

LEMMA CloseFileKeeps ==
  ASSUME CertInv, NEW f \in CertFile, CloseFile(f)
  PROVE  CertInv'
<1>1. /\ f \in open /\ NextPem(f) = {} /\ open' = {} /\ infos' = <<>> /\ at' = 1
      /\ holds' = holds /\ waiting' = waiting
  BY DEF CloseFile
<1>2. infos \in Seq(Rated) /\ all \in Seq(Rated) /\ holds[f] \in Seq(Object)
  BY CertConstants DEF CertInv, CertTyped
<1> DEFINE P == {j \in 1 .. (at - 1) : holds[f][j].form = "pem"}
<1>3. Pems(holds[f]) = P
  BY <1>1, AllWereRead
<1>4. InOrder(infos, DOMAIN infos, holds[f], P) /\ \A k \in DOMAIN infos : infos[k].file_path = f
  BY <1>1 DEF CertInv, ReadSoFar
<1> HIDE DEF P
<1>5. PICK place \in [DOMAIN infos -> P] : \A t \in P : \E k \in DOMAIN infos : place[k] = t
  BY <1>4 DEF InOrder, Surjection
<1>6. infos = <<>> <=> P = {}
  <2>1. infos = <<>> <=> DOMAIN infos = {}
    BY <1>2, EmptySeq
  <2> QED BY <1>5, <2>1
<1>7. CASE infos = <<>> /\ holds[f] # <<>> /\ Head(holds[f]).form = "der"
  <2>1. PICK x \in Infos(f, Head(holds[f])) : all' = Append(all, x)
    BY <1>7 DEF CloseFile
  <2>2. Head(holds[f]) \in Object /\ Head(holds[f]) = holds[f][1] /\ 1 \in DOMAIN holds[f]
    BY <1>2, <1>7
  <2>3. x \in Rated /\ x.file_path = f /\ x.cert = holds[f][1]
    BY <2>2, RatedFacts DEF Rated
  <2>4. HeadOf(holds[f]) = {1}
    BY <1>3, <1>6, <1>7, <2>2 DEF HeadOf, Head1
  <2>5. PICK more \in Seq(Rated) : more = <<x>>
    <3>1. <<x>> \in Seq(Rated)
      BY <2>3
    <3> QED BY <3>1
  <2>6. all' = all \o more /\ DOMAIN more = {1} /\ more[1] = x
    <3>1. Append(all, x) = all \o <<x>>
      BY <1>2, <2>3, AppendIsConcat
    <3>2. Len(<<x>>) = 1 /\ <<x>>[1] = x /\ DOMAIN <<x>> = 1 .. 1
      OBVIOUS
    <3> QED BY <2>1, <2>5, <3>1, <3>2
  <2> DEFINE one == [k \in {1} |-> 1]
  <2>7. one \in [{1} -> {1}] /\ one[1] = 1
    OBVIOUS
  <2> HIDE DEF one
  <2>8. InOrder(more, {1}, holds[f], {1})
    <3>1. \A t \in {1} : \E i \in {1} : one[i] = t
      BY <2>7
    <3>2. \A i \in {1} : more[i].cert = holds[f][one[i]]
      BY <2>3, <2>6, <2>7
    <3>3. \A i, j \in {1} : i < j => one[i] < one[j]
      OBVIOUS
    <3> QED BY <2>7, <3>1, <3>2, <3>3, OrderFromPlace
  <2>9. \A k \in DOMAIN more : more[k].file_path = f
    BY <2>3, <2>6
  <2> QED BY <1>1, <2>4, <2>5, <2>6, <2>8, <2>9, ReportFile
<1>8. CASE ~(infos = <<>> /\ holds[f] # <<>> /\ Head(holds[f]).form = "der")
  <2>1. all' = all \o infos
    BY <1>8 DEF CloseFile
  <2>2. infos # <<>> => HeadOf(holds[f]) = P
    BY <1>3, <1>6 DEF HeadOf
  <2> QED BY <1>1, <1>2, <1>4, <2>1, <2>2, ReportFile
<1> QED BY <1>7, <1>8

LEMMA CertGoesOn == CertInv /\ [CertNext]_certs => CertInv'
<1> SUFFICES ASSUME CertInv, [CertNext]_certs PROVE CertInv'
  OBVIOUS
<1>1. ASSUME holds' = holds, waiting' = waiting, open' = open, at' = at, infos' = infos, all' = all
      PROVE  CertInv'
  BY <1>1 DEF CertInv, CertTyped, ReadSoFar, ReportedOnce, HeadsReported, Reported
<1>2. CASE CertThrows
  BY <1>1, <1>2 DEF CertThrows
<1>3. CASE CertEnds
  BY <1>1, <1>3 DEF CertEnds
<1>4. CASE UNCHANGED certs
  BY <1>1, <1>4 DEF certs
<1> QED BY <1>2, <1>3, <1>4, OpenFileKeeps, ReadPemKeeps, CloseFileKeeps DEF CertNext

LEMMA CertInvSuffices == CertInv => ReportIsEveryFilesHead
<1> SUFFICES ASSUME CertInv PROVE ReportIsEveryFilesHead
  OBVIOUS
<1>1. \A f \in CertFile :
        Reported(f) = {} \/ \E place \in Surjection(Reported(f), HeadOf(holds[f])) :
          /\ \A i \in Reported(f) : all[i].cert = holds[f][place[i]]
          /\ \A i, j \in Reported(f) : i < j => place[i] < place[j]
  BY DEF CertInv, HeadsReported, InOrder
<1>2. ASSUME NEW x \in ToSet(all)
      PROVE  /\ x.risk_score \in 0 .. 100
             /\ x.quantum_risk = "high" => x.risk_score >= 80
             /\ x.quantum_risk # "high" => x.risk_score <= 55
             /\ x.cert.not_after # "none" =>
                  x.risk_score = CertRisk(AssessAlgorithm(x.cert.has, x.cert.bits), x.cert.bits,
                                          x.cert.not_after = "past", x.cert.has)
  <2>1. x \in Rated
    BY DEF CertInv, CertTyped, ToSet
  <2>2. PICK f \in CertFile, o \in Object : x \in Infos(f, o)
    BY <2>1 DEF Rated
  <2> QED BY <2>2, RatedFacts
<1>3. ASSUME NEW x \in ToSet(all), NEW y \in ToSet(all)
      PROVE  /\ x.cert = y.cert /\ x.cert.not_after # "none" => x.risk_score = y.risk_score
             /\ x.quantum_risk = "high" /\ y.quantum_risk # "high" => x.risk_score > y.risk_score
  <2>1. x.cert = y.cert /\ x.cert.not_after # "none" => x.risk_score = y.risk_score
    BY <1>2
  <2>2. x.quantum_risk = "high" /\ y.quantum_risk # "high" => x.risk_score > y.risk_score
    <3>1. x.risk_score \in 0 .. 100 /\ y.risk_score \in 0 .. 100
      BY <1>2
    <3>2. x.quantum_risk = "high" => x.risk_score >= 80
      BY <1>2
    <3>3. y.quantum_risk # "high" => y.risk_score <= 55
      BY <1>2
    <3> QED BY <3>1, <3>2, <3>3
  <2> QED BY <2>1, <2>2
<1> QED BY <1>1, <1>3 DEF ReportIsEveryFilesHead, Reported, HeadOf, Pems, Head1

\* Whatever the certificate files hold and in whatever order they come: of every
\* file the report holds the certificates before the first broken one, in their
\* order, each with the rating of its algorithm and date (analyze, analyze_file).
THEOREM ReportIsAlwaysTheHead == CertSpec => []ReportIsEveryFilesHead
<1>1. CertInv => ReportIsEveryFilesHead
  BY CertInvSuffices
<1> QED BY <1>1, CertStarts, CertGoesOn, PTL DEF CertSpec

-----------------------------------------------------------------------------
(* The lexer.                                                              *)

LexState == {"code"} \cup Comment \cup Literal

LEMMA AfterIsState ==
  ASSUME NEW m \in LexState, NEW t, NEW p
  PROVE  After(m, t, p) \in LexState
<1> USE DEF After, LexState, Comment, Literal
<1>1. CASE m = "code"
  BY <1>1
<1>2. CASE m \in {"line", "block"}
  BY <1>2
<1>3. CASE m \in {"string", "char"}
  BY <1>3
<1>4. CASE m \in {"opening", "closing", "string escape", "char escape"}
  BY <1>4
<1> QED BY <1>1, <1>2, <1>3, <1>4

\* s says in which state the lexer meets the first n characters of t.
Runs(s, t, n) ==
  /\ s \in [1 .. n -> LexState] /\ s[1] = "code"
  /\ \A p \in 1 .. (n - 1) : s[p + 1] = After(s[p], t, p)

\* The lexer gets through every text: there is no shortest one it does not.
LEMMA LexerRuns ==
  ASSUME NEW t, Len(t) \in Nat
  PROVE  \E s : Runs(s, t, Len(t) + 1)
<1> SUFFICES ASSUME ~\E s : Runs(s, t, Len(t) + 1) PROVE FALSE
  OBVIOUS
<1> DEFINE T == {n \in Nat : n >= 1 /\ ~\E s : Runs(s, t, n)}
<1>1. T \subseteq Nat /\ T # {}
  OBVIOUS
<1>2. PICK m \in T : \A k \in T : m <= k
  BY <1>1, LeastNat
<1>3. m \in Nat /\ m >= 1 /\ ~\E s : Runs(s, t, m)
  BY <1>2
<1>4. m # 1
  <2> SUFFICES ASSUME m = 1 PROVE FALSE
    OBVIOUS
  <2>1. Runs([p \in 1 .. 1 |-> "code"], t, 1)
    BY DEF Runs, LexState
  <2> QED BY <1>3, <2>1
<1>5. m - 1 \in Nat /\ m - 1 >= 1 /\ m - 1 \notin T
  BY <1>2, <1>3, <1>4
<1>6. PICK s : Runs(s, t, m - 1)
  BY <1>5
<1> DEFINE q == [p \in 1 .. m |-> IF p = m THEN After(s[m - 1], t, m - 1) ELSE s[p]]
<1>7. s \in [1 .. (m - 1) -> LexState] /\ s[1] = "code"
      /\ \A p \in 1 .. (m - 1 - 1) : s[p + 1] = After(s[p], t, p)
  BY <1>6 DEF Runs
<1>8. After(s[m - 1], t, m - 1) \in LexState
  BY <1>5, <1>7, AfterIsState
<1>9. \A p \in 1 .. m : p = m \/ p \in 1 .. (m - 1)
  BY <1>3
<1>10. q \in [1 .. m -> LexState]
  BY <1>7, <1>8, <1>9
<1>11. q[1] = "code"
  BY <1>3, <1>4, <1>7
<1>12. ASSUME NEW p \in 1 .. (m - 1) PROVE q[p + 1] = After(q[p], t, p)
  <2>1. p \in 1 .. m /\ p # m /\ q[p] = s[p]
    BY <1>3
  <2>2. CASE p = m - 1
    <3>1. p + 1 = m /\ m \in 1 .. m
      BY <1>3, <2>2
    <3> QED BY <2>1, <2>2, <3>1
  <2>3. CASE p # m - 1
    <3>1. p \in 1 .. (m - 1 - 1) /\ p + 1 \in 1 .. m /\ p + 1 # m
      BY <1>3, <2>3
    <3> QED BY <1>7, <2>1, <3>1
  <2> QED BY <2>2, <2>3
<1> HIDE DEF q
<1>13. Runs(q, t, m)
  BY <1>10, <1>11, <1>12 DEF Runs
<1> QED BY <1>3, <1>13

LEMMA LexerSteps == ASSUME NEW t, Len(t) \in Nat PROVE Runs(States(t), t, Len(t) + 1)
<1> DEFINE D == 1 .. (Len(t) + 1)
           s[p \in D] == IF p = 1 THEN "code" ELSE After(s[p - 1], t, p - 1)
<1>1. States(t) = s
  BY DEF States
<1>2. PICK g : Runs(g, t, Len(t) + 1)
  BY LexerRuns
<1>3. g \in [D -> LexState] /\ g[1] = "code" /\ \A p \in 1 .. Len(t) : g[p + 1] = After(g[p], t, p)
  BY <1>2 DEF Runs
<1>4. g = [p \in D |-> IF p = 1 THEN "code" ELSE After(g[p - 1], t, p - 1)]
  <2>1. ASSUME NEW p \in D, p # 1 PROVE g[p] = After(g[p - 1], t, p - 1)
    <3>1. p - 1 \in 1 .. Len(t) /\ (p - 1) + 1 = p
      BY <2>1
    <3> QED BY <1>3, <3>1
  <2> QED BY <1>3, <2>1
<1> HIDE DEF D
<1>5. s = [p \in D |-> IF p = 1 THEN "code" ELSE After(s[p - 1], t, p - 1)]
  BY <1>4, Zenon DEF s
<1> HIDE DEF s
<1>6. \A p \in D : p = 1 \/ (p - 1 \in D /\ p - 1 \in 1 .. Len(t))
  BY DEF D
<1>7. s[1] = "code" /\ \A p \in 1 .. Len(t) : s[p + 1] = After(s[p], t, p)
  <2>1. 1 \in D
    BY DEF D
  <2>2. ASSUME NEW p \in 1 .. Len(t) PROVE s[p + 1] = After(s[p], t, p)
    <3>1. p + 1 \in D /\ p + 1 # 1 /\ (p + 1) - 1 = p
      BY DEF D
    <3> QED BY <1>5, <3>1
  <2> QED BY <1>5, <2>1, <2>2
<1>8. \A p \in D : s[p] = g[p]
  <2> DEFINE T == {n \in Nat : n \in D /\ s[n] # g[n]}
  <2> SUFFICES ASSUME T # {} PROVE FALSE
    BY DEF D
  <2>1. T \subseteq Nat
    OBVIOUS
  <2>2. PICK m \in T : \A k \in T : m <= k
    BY <2>1, LeastNat
  <2>3. m \in D /\ s[m] # g[m] /\ m # 1 /\ m \in Nat
    BY <1>3, <1>7, <2>2
  <2>4. m - 1 \in 1 .. Len(t) /\ m - 1 \in D /\ m - 1 \in Nat /\ (m - 1) + 1 = m /\ ~(m <= m - 1)
    BY <1>6, <2>3
  <2>5. s[m - 1] = g[m - 1]
    BY <2>2, <2>4
  <2> QED BY <1>3, <1>7, <2>3, <2>4, <2>5
<1>9. s \in [D -> LexState]
  <2>1. s = [p \in D |-> s[p]]
    BY <1>5
  <2> QED BY <1>3, <1>8, <2>1
<1> QED BY <1>1, <1>7, <1>9 DEF Runs, D

\* What the lexer may do at p, by the state it is in.
Moves(m, next, t, p) ==
  /\ m \in LexState /\ next \in LexState
  /\ m = "code" => next = IF Pair(t, p, "/", "/") THEN "line"
                          ELSE IF Pair(t, p, "/", "*") THEN "opening"
                          ELSE IF t[p] = Quote THEN "string"
                          ELSE IF t[p] = Apostrophe THEN "char" ELSE "code"
  /\ m = "line" => next = IF t[p] = Newline THEN "code" ELSE "line"
  /\ m = "opening" => next = "block"
  /\ m = "block" => next = IF Pair(t, p, "*", "/") THEN "closing" ELSE "block"
  /\ m = "closing" => next = "code"
  /\ m = "string" => next = IF t[p] = Escape THEN "string escape"
                            ELSE IF t[p] = Quote THEN "code" ELSE "string"
  /\ m = "char" => next = IF t[p] = Escape THEN "char escape"
                          ELSE IF t[p] = Apostrophe THEN "code" ELSE "char"
  /\ m = "string escape" => next = "string"
  /\ m = "char escape" => next = "char"

LEMMA LexerMoves ==
  ASSUME NEW t \in Seq(Char), NEW p \in 1 .. Len(t), NEW q, q = p + 1
  PROVE  Moves(States(t)[p], States(t)[q], t, p)
<1> DEFINE S == States(t)
<1>1. Len(t) \in Nat
  OBVIOUS
<1>2. S \in [1 .. (Len(t) + 1) -> LexState] /\ \A k \in 1 .. Len(t) : S[k + 1] = After(S[k], t, k)
  BY <1>1, LexerSteps DEF Runs
<1> HIDE DEF S
<1>3. p \in 1 .. (Len(t) + 1) /\ q \in 1 .. (Len(t) + 1)
  BY <1>1
<1>4. S[p] \in LexState /\ S[q] \in LexState
  BY <1>2, <1>3
<1>5. S[q] = After(S[p], t, p)
  BY <1>2
<1>6. /\ After("code", t, p) = IF Pair(t, p, "/", "/") THEN "line"
                             ELSE IF Pair(t, p, "/", "*") THEN "opening"
                             ELSE IF t[p] = Quote THEN "string"
                             ELSE IF t[p] = Apostrophe THEN "char" ELSE "code"
      /\ After("line", t, p) = IF t[p] = Newline THEN "code" ELSE "line"
      /\ After("opening", t, p) = "block"
      /\ After("block", t, p) = IF Pair(t, p, "*", "/") THEN "closing" ELSE "block"
      /\ After("closing", t, p) = "code"
  BY DEF After
<1>7. /\ After("string", t, p) = IF t[p] = Escape THEN "string escape"
                               ELSE IF t[p] = Quote THEN "code" ELSE "string"
      /\ After("char", t, p) = IF t[p] = Escape THEN "char escape"
                             ELSE IF t[p] = Apostrophe THEN "code" ELSE "char"
      /\ After("string escape", t, p) = "string"
      /\ After("char escape", t, p) = "char"
  BY DEF After
<1>8. Moves(S[p], S[q], t, p)
  BY <1>4, <1>5, <1>6, <1>7 DEF Moves
<1> QED BY <1>8 DEF S

\* A literal is left for code only.
LEMMA LexerInLiteral ==
  ASSUME NEW t \in Seq(Char), NEW p \in 1 .. Len(t), States(t)[p] \in Literal
  PROVE  States(t)[p + 1] \in {"code"} \cup Literal
<1>1. PICK q : q = p + 1
  OBVIOUS
<1>2. Moves(States(t)[p], States(t)[q], t, p)
  BY <1>1, LexerMoves
<1>3. States(t)[q] \in {"code", "string", "char", "string escape", "char escape"}
  BY <1>2 DEF Moves, Literal
<1> QED BY <1>1, <1>3 DEF Literal

-----------------------------------------------------------------------------
(* RegexAnalyzer.                                                          *)

RegexPlain == WellFormed(text) /\ NoOpenerInLiteral(text)

Good == {"code"} \cup Literal

\* The places read of the current line; the end of the text ends one too.
OnLine(p) ==
  p \in DOMAIN text /\ p < reached
  /\ \A k \in p .. (reached - 1) : k <= Len(text) /\ text[k] # Newline

Counted(p) == p \in DOMAIN text /\ text[p] = Call /\ States(text)[p] \in Good

RegexTyped ==
  /\ text \in Seq(Char) /\ reached \in 1 .. (Len(text) + 2)
  /\ in_block_comment \in BOOLEAN /\ skipping \in BOOLEAN /\ stripped \in Seq(Char)

\* Where the analyser believes it is, and where it is.
Follows ==
  reached <= Len(text) + 1 =>
    /\ in_block_comment => ~skipping /\ States(text)[reached] = "block"
    /\ skipping => States(text)[reached] = "line"
    /\ ~in_block_comment /\ ~skipping => States(text)[reached] \in Good

LineInv == (\E q \in DOMAIN stripped : stripped[q] = Call) <=> \E p \in DOMAIN text : OnLine(p) /\ Counted(p)

SeenInv == seen = {LineOf(text, p) : p \in {k \in DOMAIN text : k < reached /\ Counted(k) /\ ~OnLine(k)}}

RegexInv == RegexTyped /\ (RegexPlain => Follows /\ LineInv /\ SeenInv)

LEMMA RegexStarts == RegexInit => RegexInv
<1> SUFFICES ASSUME RegexInit PROVE RegexInv
  OBVIOUS
<1>1. text \in Seq(Char) /\ Len(text) \in Nat
  BY LexicalConstants DEF RegexInit
<1>2. reached = 1 /\ in_block_comment = FALSE /\ skipping = FALSE /\ stripped = <<>> /\ seen = {}
  BY DEF RegexInit, RegexBegin
<1>3. RegexTyped
  <2>1. reached \in 1 .. (Len(text) + 2)
    BY <1>1, <1>2
  <2>2. stripped \in Seq(Char)
    BY <1>2
  <2> QED BY <1>1, <1>2, <2>1, <2>2 DEF RegexTyped
<1>4. States(text)[1] = "code"
  BY <1>1, LexerSteps DEF Runs
<1>5. Follows
  BY <1>2, <1>4 DEF Follows, Good
<1>6. \A p \in DOMAIN text : ~(p < reached)
  BY <1>1, <1>2
<1>7. LineInv
  BY <1>2, <1>6 DEF LineInv, OnLine
<1>8. SeenInv
  BY <1>2, <1>6 DEF SeenInv
<1> QED BY <1>3, <1>5, <1>7, <1>8 DEF RegexInv

\* A step within a line: n characters are read, and of them a call is kept that
\* is to be counted, and no other.
LEMMA WithinLine ==
  ASSUME RegexInv, RegexPlain, NEW n \in {1, 2}, NEW out \in Seq(Char), Take(out, n),
         reached + n <= Len(text) + 1,
         \A p \in reached .. (reached + n - 1) : text[p] # Newline,
         (\E q \in DOMAIN out : out[q] = Call) <=> \E p \in reached .. (reached + n - 1) : Counted(p)
  PROVE  LineInv' /\ SeenInv' /\ stripped' \in Seq(Char) /\ reached' \in 1 .. (Len(text) + 2)
         /\ text' = text
<1>1. /\ text \in Seq(Char) /\ reached \in Nat /\ reached >= 1 /\ Len(text) \in Nat
      /\ DOMAIN text = 1 .. Len(text) /\ stripped \in Seq(Char)
  BY DEF RegexInv, RegexTyped
<1>2. stripped' = stripped \o out /\ reached' = reached + n /\ text' = text /\ seen' = seen
  BY DEF Take
<1>3. stripped' \in Seq(Char) /\ reached' \in 1 .. (Len(text) + 2)
  BY <1>1, <1>2
<1>4. \A p : Counted(p)' <=> Counted(p)
  BY <1>2 DEF Counted
<1>5. ASSUME NEW p \in DOMAIN text
      PROVE  OnLine(p)' <=> OnLine(p) \/ p \in reached .. (reached + n - 1)
  <2> DEFINE Clean(k) == k <= Len(text) /\ text[k] # Newline
  <2>3. OnLine(p)' <=> p < reached + n /\ \A k \in p .. (reached + n - 1) : Clean(k)
    <3>1. OnLine(p)' <=> p \in DOMAIN text' /\ p < reached'
                         /\ \A k \in p .. (reached' - 1) : k <= Len(text') /\ text'[k] # Newline
      BY DEF OnLine
    <3>2. OnLine(p)' <=> p \in DOMAIN text /\ p < reached + n
                         /\ \A k \in p .. (reached + n - 1) : k <= Len(text) /\ text[k] # Newline
      <4>1. DOMAIN text' = DOMAIN text /\ Len(text') = Len(text) /\ \A k : text'[k] = text[k]
        BY <1>2
      <4>2. reached' = reached + n /\ reached' - 1 = reached + n - 1
        BY <1>1, <1>2
      <4> QED BY <3>1, <4>1, <4>2
    <3> QED BY <3>2
  <2>4. OnLine(p) <=> p < reached /\ \A k \in p .. (reached - 1) : Clean(k)
    BY DEF OnLine
  <2>5. \A k \in reached .. (reached + n - 1) : Clean(k)
    BY <1>1
  <2> HIDE DEF Clean
  <2>1. CASE p < reached
    <3>1. \A k \in p .. (reached + n - 1) : k \in p .. (reached - 1) \/ k \in reached .. (reached + n - 1)
      BY <1>1, <2>1
    <3>2. \A k \in p .. (reached - 1) : k \in p .. (reached + n - 1)
      BY <1>1, <2>1
    <3>4. ~(p \in reached .. (reached + n - 1)) /\ p < reached + n
      BY <1>1, <2>1
    <3> QED BY <2>1, <2>3, <2>4, <2>5, <3>1, <3>2, <3>4
  <2>2. CASE ~(p < reached)
    <3>1. ~OnLine(p)
      BY <2>2, <2>4
    <3>2. CASE p \in reached .. (reached + n - 1)
      <4>1. \A k \in p .. (reached + n - 1) : k \in reached .. (reached + n - 1)
        BY <1>1, <3>2
      <4>2. p < reached + n
        BY <1>1, <3>2
      <4> QED BY <2>3, <2>5, <3>2, <4>1, <4>2
    <3>3. CASE p \notin reached .. (reached + n - 1)
      <4>1. ~(p < reached + n)
        BY <1>1, <2>2, <3>3
      <4> QED BY <2>3, <3>1, <3>3, <4>1
    <3> QED BY <3>2, <3>3
  <2> QED BY <2>1, <2>2
<1>6. \A p \in reached .. (reached + n - 1) : p \in DOMAIN text
  BY <1>1
<1>7. (\E q \in DOMAIN stripped' : stripped'[q] = Call)
        <=> (\E q \in DOMAIN stripped : stripped[q] = Call) \/ \E q \in DOMAIN out : out[q] = Call
  <2>1. /\ DOMAIN stripped = 1 .. Len(stripped) /\ DOMAIN out = 1 .. Len(out) /\ Len(stripped) \in Nat
        /\ Len(out) \in Nat /\ DOMAIN stripped' = 1 .. (Len(stripped) + Len(out))
        /\ \A q \in 1 .. Len(stripped) : stripped'[q] = stripped[q]
        /\ \A q \in 1 .. Len(out) : stripped'[Len(stripped) + q] = out[q]
    BY <1>1, <1>2
  <2>2. \A q \in DOMAIN stripped' : q \in DOMAIN stripped
           \/ (q - Len(stripped) \in DOMAIN out /\ Len(stripped) + (q - Len(stripped)) = q)
    BY <2>1
  <2>3. DOMAIN stripped \subseteq DOMAIN stripped' /\ \A q \in DOMAIN out : Len(stripped) + q \in DOMAIN stripped'
    BY <2>1
  <2> QED BY <2>1, <2>2, <2>3
<1>8. LineInv'
  <2>1. (\E q \in DOMAIN stripped : stripped[q] = Call) <=> \E p \in DOMAIN text : OnLine(p) /\ Counted(p)
    BY DEF RegexInv, LineInv
  <2>2. (\E p \in DOMAIN text : OnLine(p)' /\ Counted(p)')
          <=> (\E p \in DOMAIN text : OnLine(p) /\ Counted(p))
              \/ \E p \in reached .. (reached + n - 1) : Counted(p)
    BY <1>4, <1>5, <1>6
  <2> QED BY <1>2, <1>7, <2>1, <2>2 DEF LineInv
<1>9. SeenInv'
  <2>1. ASSUME NEW k \in DOMAIN text
        PROVE  k < reached' /\ Counted(k)' /\ ~OnLine(k)' <=> k < reached /\ Counted(k) /\ ~OnLine(k)
    <3>1. k < reached' <=> k < reached \/ k \in reached .. (reached + n - 1)
      BY <1>1, <1>2
    <3>2. k \in reached .. (reached + n - 1) => ~(k < reached)
      BY <1>1
    <3> QED BY <1>4, <1>5, <3>1, <3>2
  <2>2. {k \in DOMAIN text : k < reached' /\ Counted(k)' /\ ~OnLine(k)'}
          = {k \in DOMAIN text : k < reached /\ Counted(k) /\ ~OnLine(k)}
    BY <2>1
  <2>3. seen = {LineOf(text, p) : p \in {k \in DOMAIN text : k < reached /\ Counted(k) /\ ~OnLine(k)}}
    BY DEF RegexInv, SeenInv
  <2> QED BY <1>2, <2>2, <2>3 DEF SeenInv
<1> QED BY <1>2, <1>3, <1>8, <1>9

LEMMA StepTyped ==
  ASSUME RegexInv, NEW n \in {1, 2}, NEW out \in Seq(Char), Take(out, n),
         reached + n <= Len(text) + 1, in_block_comment' \in BOOLEAN, skipping' \in BOOLEAN
  PROVE  RegexTyped'
<1>1. /\ text \in Seq(Char) /\ reached \in Nat /\ reached >= 1 /\ Len(text) \in Nat
      /\ stripped \in Seq(Char)
  BY DEF RegexInv, RegexTyped
<1>2. stripped' = stripped \o out /\ reached' = reached + n /\ text' = text
  BY DEF Take
<1>3. stripped' \in Seq(Char) /\ reached' \in 1 .. (Len(text) + 2)
  BY <1>1, <1>2
<1> QED BY <1>1, <1>2, <1>3 DEF RegexTyped

\* The analyser and the lexer go on together.
LEMMA StepInv ==
  ASSUME RegexInv, NEW n \in {1, 2}, NEW out \in Seq(Char), Take(out, n),
         reached + n <= Len(text) + 1, in_block_comment' \in BOOLEAN, skipping' \in BOOLEAN,
         \A p \in reached .. (reached + n - 1) : text[p] # Newline,
         RegexPlain =>
           /\ (\E q \in DOMAIN out : out[q] = Call) <=> \E p \in reached .. (reached + n - 1) : Counted(p)
           /\ in_block_comment' => ~skipping' /\ States(text)[reached + n] = "block"
           /\ skipping' => States(text)[reached + n] = "line"
           /\ ~in_block_comment' /\ ~skipping' => States(text)[reached + n] \in Good
  PROVE  RegexInv'
<1>1. RegexTyped'
  BY StepTyped
<1>2. reached' = reached + n /\ text' = text
  BY DEF Take
<1>3. RegexPlain' <=> RegexPlain
  BY <1>2 DEF RegexPlain
<1>4. ASSUME RegexPlain PROVE LineInv' /\ SeenInv'
  BY <1>4, WithinLine
<1>5. ASSUME RegexPlain PROVE Follows'
  BY <1>2, <1>5 DEF Follows
<1> QED BY <1>1, <1>3, <1>4, <1>5 DEF RegexInv

\* What the actions need of the text and of the state of the lexer.
LEMMA RegexSees ==
  ASSUME RegexInv, reached <= Len(text)
  PROVE  /\ text \in Seq(Char) /\ reached \in 1 .. Len(text) /\ Len(text) \in Nat
         /\ DOMAIN text = 1 .. Len(text) /\ text[reached] \in Char
         /\ in_block_comment \in BOOLEAN /\ skipping \in BOOLEAN
         /\ Moves(States(text)[reached], States(text)[reached + 1], text, reached)
         /\ reached < Len(text) =>
              Moves(States(text)[reached + 1], States(text)[reached + 2], text, reached + 1)
         /\ RegexPlain =>
              /\ in_block_comment => ~skipping /\ States(text)[reached] = "block"
              /\ skipping => States(text)[reached] = "line"
              /\ ~in_block_comment /\ ~skipping => States(text)[reached] \in Good
<1>1. text \in Seq(Char) /\ reached \in 1 .. Len(text) /\ Len(text) \in Nat /\ reached <= Len(text) + 1
  BY DEF RegexInv, RegexTyped
<1>2. DOMAIN text = 1 .. Len(text) /\ text[reached] \in Char
  BY <1>1
<1>3. Moves(States(text)[reached], States(text)[reached + 1], text, reached)
  BY <1>1, LexerMoves
<1>4. ASSUME reached < Len(text)
      PROVE  Moves(States(text)[reached + 1], States(text)[reached + 2], text, reached + 1)
  <2>1. reached + 1 \in 1 .. Len(text) /\ reached + 2 = (reached + 1) + 1
    BY <1>1, <1>4
  <2> QED BY <1>1, <2>1, LexerMoves
<1> QED BY <1>1, <1>2, <1>3, <1>4 DEF RegexInv, RegexTyped, Follows

LEMMA InBlockKeeps == ASSUME RegexInv, InBlock PROVE RegexInv'
<1>1. reached <= Len(text) /\ text[reached] # Newline /\ in_block_comment /\ skipping' = skipping
  BY DEF InBlock, AtEndOfLine
<1>2. /\ text \in Seq(Char) /\ reached \in 1 .. Len(text) /\ Len(text) \in Nat
      /\ DOMAIN text = 1 .. Len(text) /\ in_block_comment \in BOOLEAN /\ skipping \in BOOLEAN
      /\ Moves(States(text)[reached], States(text)[reached + 1], text, reached)
      /\ reached < Len(text) =>
           Moves(States(text)[reached + 1], States(text)[reached + 2], text, reached + 1)
      /\ RegexPlain => ~skipping /\ States(text)[reached] = "block"
  BY <1>1, RegexSees
<1>3. <<Blank>> \in Seq(Char) /\ ~\E q \in DOMAIN <<Blank>> : <<Blank>>[q] = Call
  BY DEF Char, Blank, Call
<1>4. CASE Pair(text, reached, "*", "/")
  <2>1. Take(<<Blank>>, 2) /\ in_block_comment' = FALSE
    BY <1>4 DEF InBlock
  <2>2. /\ reached < Len(text) /\ text[reached] = "*" /\ text[reached + 1] = "/"
        /\ reached + 1 \in 1 .. Len(text) /\ reached + 2 <= Len(text) + 1 /\ (reached + 1) + 1 = reached + 2
        /\ reached .. (reached + 2 - 1) = {reached, reached + 1}
    BY <1>2, <1>4 DEF Pair
  <2>3. \A p \in {reached, reached + 1} : text[p] # Newline /\ text[p] # Call
    BY <2>2 DEF Newline, Call
  <2>4. ASSUME RegexPlain PROVE States(text)[reached + 2] = "code"
    <3>1. States(text)[reached + 1] = "closing"
      BY <1>2, <1>4, <2>4 DEF Moves
    <3> QED BY <1>2, <2>2, <3>1 DEF Moves
  <2>5. ~\E p \in {reached, reached + 1} : Counted(p)
    BY <2>3 DEF Counted
  <2> QED BY <1>1, <1>2, <1>3, <2>1, <2>2, <2>3, <2>4, <2>5, StepInv DEF Good
<1>5. CASE ~Pair(text, reached, "*", "/")
  <2>1. Take(<<Blank>>, 1) /\ in_block_comment' = in_block_comment
    BY <1>5 DEF InBlock
  <2>2. reached .. (reached + 1 - 1) = {reached} /\ reached + 1 <= Len(text) + 1
    BY <1>2
  <2>3. ASSUME RegexPlain PROVE States(text)[reached + 1] = "block"
    BY <1>2, <1>5, <2>3 DEF Moves
  <2>4. RegexPlain => ~Counted(reached)
    BY <1>2 DEF Counted, Good, Literal
  <2> QED BY <1>1, <1>2, <1>3, <2>1, <2>2, <2>3, <2>4, StepInv
<1> QED BY <1>4, <1>5

LEMMA InCodeKeeps == ASSUME RegexInv, InCode PROVE RegexInv'
<1>1. reached <= Len(text) /\ text[reached] # Newline /\ ~in_block_comment /\ ~skipping
  BY DEF InCode, AtEndOfLine
<1>2. /\ text \in Seq(Char) /\ reached \in 1 .. Len(text) /\ Len(text) \in Nat /\ text[reached] \in Char
      /\ DOMAIN text = 1 .. Len(text) /\ in_block_comment \in BOOLEAN /\ skipping \in BOOLEAN
      /\ Moves(States(text)[reached], States(text)[reached + 1], text, reached)
      /\ reached < Len(text) =>
           Moves(States(text)[reached + 1], States(text)[reached + 2], text, reached + 1)
      /\ RegexPlain => States(text)[reached] \in Good
  BY <1>1, RegexSees
<1>3. ASSUME RegexPlain, States(text)[reached] # "code"
      PROVE  ~Pair(text, reached, "/", "/") /\ ~Pair(text, reached, "/", "*")
             /\ States(text)[reached] \in Literal /\ States(text)[reached + 1] \in Good
  <2>1. States(text)[reached] \in Literal
    BY <1>2, <1>3 DEF Good
  <2>2. ~Pair(text, reached, "/", "/") /\ ~Pair(text, reached, "/", "*")
    BY <1>2, <1>3, <2>1 DEF RegexPlain, NoOpenerInLiteral
  <2>4. States(text)[reached + 1] \in {"code"} \cup Literal
    BY <1>2, <2>1, LexerInLiteral
  <2> QED BY <2>1, <2>2, <2>4 DEF Good, Literal
<1>4. CASE Pair(text, reached, "/", "*")
  <2>1. Take(<<Blank>>, 2) /\ in_block_comment' = TRUE /\ skipping' = skipping
    BY <1>4 DEF InCode, Pair
  <2>2. /\ reached < Len(text) /\ text[reached] = "/" /\ text[reached + 1] = "*"
        /\ reached + 1 \in 1 .. Len(text) /\ reached + 2 <= Len(text) + 1 /\ (reached + 1) + 1 = reached + 2
        /\ reached .. (reached + 2 - 1) = {reached, reached + 1}
    BY <1>2, <1>4 DEF Pair
  <2>3. \A p \in {reached, reached + 1} : text[p] # Newline /\ text[p] # Call
    BY <2>2 DEF Newline, Call
  <2>4. ASSUME RegexPlain PROVE States(text)[reached + 2] = "block"
    <3>1. States(text)[reached] = "code" /\ ~Pair(text, reached, "/", "/")
      BY <1>3, <1>4, <2>2, <2>4 DEF Pair
    <3>2. States(text)[reached + 1] = "opening"
      BY <1>2, <1>4, <3>1 DEF Moves
    <3> QED BY <1>2, <2>2, <3>2 DEF Moves
  <2>5. ~\E p \in {reached, reached + 1} : Counted(p)
    BY <2>3 DEF Counted
  <2>6. <<Blank>> \in Seq(Char) /\ ~\E q \in DOMAIN <<Blank>> : <<Blank>>[q] = Call
    BY DEF Char, Blank, Call
  <2> QED BY <1>1, <1>2, <2>1, <2>2, <2>3, <2>4, <2>5, <2>6, StepInv
<1>5. CASE Pair(text, reached, "/", "/")
  <2>1. Take(<<>>, 1) /\ in_block_comment' = in_block_comment /\ skipping' = TRUE
    BY <1>5 DEF InCode, Pair
  <2>2. reached .. (reached + 1 - 1) = {reached} /\ reached + 1 <= Len(text) + 1
    BY <1>2
  <2>3. ASSUME RegexPlain PROVE States(text)[reached + 1] = "line"
    BY <1>2, <1>3, <1>5, <2>3 DEF Moves
  <2>4. ~Counted(reached)
    BY <1>5 DEF Counted, Pair, Call
  <2>5. <<>> \in Seq(Char) /\ ~\E q \in DOMAIN <<>> : <<>>[q] = Call
    OBVIOUS
  <2> QED BY <1>1, <1>2, <2>1, <2>2, <2>3, <2>4, <2>5, StepInv
<1>6. CASE ~Pair(text, reached, "/", "*") /\ ~Pair(text, reached, "/", "/")
  <2> DEFINE out == <<text[reached]>>
  <2>1. Take(out, 1) /\ in_block_comment' = in_block_comment /\ skipping' = skipping
    BY <1>6 DEF InCode
  <2>2. reached .. (reached + 1 - 1) = {reached} /\ reached + 1 <= Len(text) + 1
    BY <1>2
  <2>3. ASSUME RegexPlain PROVE States(text)[reached + 1] \in Good
    <3>1. CASE States(text)[reached] = "code"
      <4>1. States(text)[reached + 1] \in {"string", "char", "code"}
        BY <1>2, <1>6, <3>1 DEF Moves
      <4> QED BY <4>1 DEF Good, Literal
    <3>2. CASE States(text)[reached] # "code"
      BY <1>3, <2>3, <3>2
    <3> QED BY <3>1, <3>2
  <2>4. out \in Seq(Char) /\ DOMAIN out = {1} /\ out[1] = text[reached]
    BY <1>2
  <2>5. RegexPlain => (Counted(reached) <=> out[1] = Call)
    BY <1>2, <2>4 DEF Counted
  <2> HIDE DEF out
  <2>6. RegexPlain => ((\E q \in DOMAIN out : out[q] = Call) <=> \E p \in {reached} : Counted(p))
    BY <2>4, <2>5
  <2>7. \A p \in {reached} : text[p] # Newline
    BY <1>1
  <2> QED BY <1>1, <1>2, <2>1, <2>2, <2>3, <2>4, <2>6, <2>7, StepInv
<1> QED BY <1>4, <1>5, <1>6

LEMMA BehindSlashesKeeps == ASSUME RegexInv, BehindSlashes PROVE RegexInv'
<1>1. /\ reached <= Len(text) /\ text[reached] # Newline /\ skipping /\ Take(<<>>, 1)
      /\ in_block_comment' = in_block_comment /\ skipping' = skipping
  BY DEF BehindSlashes, AtEndOfLine
<1>2. /\ text \in Seq(Char) /\ reached \in 1 .. Len(text) /\ Len(text) \in Nat
      /\ in_block_comment \in BOOLEAN /\ skipping \in BOOLEAN
      /\ Moves(States(text)[reached], States(text)[reached + 1], text, reached)
      /\ RegexPlain => ~in_block_comment /\ States(text)[reached] = "line"
  BY <1>1, RegexSees
<1>3. reached .. (reached + 1 - 1) = {reached} /\ reached + 1 <= Len(text) + 1
  BY <1>2
<1>4. ASSUME RegexPlain PROVE States(text)[reached + 1] = "line"
  BY <1>1, <1>2, <1>4 DEF Moves
<1>5. RegexPlain => ~Counted(reached)
  BY <1>2 DEF Counted, Good, Literal
<1>6. <<>> \in Seq(Char) /\ ~\E q \in DOMAIN <<>> : <<>>[q] = Call
  OBVIOUS
<1> QED BY <1>1, <1>2, <1>3, <1>4, <1>5, <1>6, StepInv

\* The end of a line, or of the text: its calls go on the list with its number.
LEMMA EndLineKeeps == ASSUME RegexInv, EndLine PROVE RegexInv'
<1>1. /\ reached <= Len(text) + 1 /\ (reached <= Len(text) => text[reached] = Newline)
      /\ seen' = seen \cup {LineOf(text, reached) : p \in {q \in DOMAIN stripped : stripped[q] = Call}}
      /\ reached' = reached + 1 /\ stripped' = <<>> /\ skipping' = FALSE
      /\ text' = text /\ in_block_comment' = in_block_comment
  BY DEF EndLine, AtEndOfLine
<1>2. /\ text \in Seq(Char) /\ reached \in 1 .. (Len(text) + 1) /\ Len(text) \in Nat
      /\ DOMAIN text = 1 .. Len(text) /\ in_block_comment \in BOOLEAN
  BY <1>1 DEF RegexInv, RegexTyped
<1>3. RegexTyped'
  <2>1. reached' \in 1 .. (Len(text) + 2)
    BY <1>1, <1>2
  <2>2. stripped' \in Seq(Char)
    BY <1>1
  <2> QED BY <1>1, <1>2, <2>1, <2>2 DEF RegexTyped
<1>4. RegexPlain' <=> RegexPlain
  BY <1>1 DEF RegexPlain
<1>5. ASSUME NEW p \in DOMAIN text PROVE ~OnLine(p)'
  <2> SUFFICES ASSUME OnLine(p)' PROVE FALSE
    OBVIOUS
  <2>1. p < reached + 1 /\ \A k \in p .. reached : k <= Len(text) /\ text[k] # Newline
    BY <1>1, <1>2 DEF OnLine
  <2>2. reached \in p .. reached
    BY <1>2, <2>1
  <2> QED BY <1>1, <2>1, <2>2
<1>6. LineInv'
  BY <1>1, <1>5 DEF LineInv
<1>7. ASSUME RegexPlain PROVE Follows'
  <2> SUFFICES ASSUME reached + 1 <= Len(text) + 1
               PROVE  /\ in_block_comment => States(text)[reached + 1] = "block"
                      /\ ~in_block_comment => States(text)[reached + 1] \in Good
    BY <1>1, <1>2 DEF Follows
  <2>1. reached <= Len(text) /\ text[reached] = Newline /\ reached \in 1 .. Len(text)
    BY <1>1, <1>2
  <2>2. /\ in_block_comment => ~skipping /\ States(text)[reached] = "block"
        /\ skipping => States(text)[reached] = "line"
        /\ ~in_block_comment /\ ~skipping => States(text)[reached] \in Good
        /\ Moves(States(text)[reached], States(text)[reached + 1], text, reached)
    BY <1>7, <2>1, RegexSees
  <2>3. ~Pair(text, reached, "*", "/") /\ ~Pair(text, reached, "/", "*") /\ ~Pair(text, reached, "/", "/")
    BY <2>1 DEF Pair, Newline
  <2>4. CASE in_block_comment
    <3>1. States(text)[reached + 1] = "block"
      BY <2>2, <2>3, <2>4 DEF Moves
    <3> QED BY <2>4, <3>1
  <2>5. CASE ~in_block_comment /\ skipping
    <3>1. States(text)[reached + 1] = "code"
      BY <2>1, <2>2, <2>5 DEF Moves
    <3> QED BY <2>5, <3>1 DEF Good
  <2>6. CASE ~in_block_comment /\ ~skipping
    <3>2. States(text)[reached + 1] \in {"code"} \cup Literal
      <4>1. CASE States(text)[reached] = "code"
        BY <2>1, <2>2, <2>3, <4>1 DEF Moves, Literal
      <4>2. CASE States(text)[reached] # "code"
        <5>1. States(text)[reached] \in Literal
          BY <2>2, <2>6, <4>2 DEF Good
        <5> QED BY <1>2, <2>1, <5>1, LexerInLiteral
      <4> QED BY <4>1, <4>2
    <3> QED BY <2>6, <3>2 DEF Good, Literal
  <2> QED BY <2>4, <2>5, <2>6
<1>8. ASSUME NEW p \in DOMAIN text, OnLine(p) PROVE LineOf(text, p) = LineOf(text, reached)
  <2>1. p < reached /\ \A k \in p .. (reached - 1) : text[k] # Newline
    BY <1>8 DEF OnLine
  <2>2. \A k \in 1 .. (reached - 1) : k \in 1 .. (p - 1) \/ k \in p .. (reached - 1)
    BY <1>2, <2>1
  <2>3. \A k \in 1 .. (p - 1) : k \in 1 .. (reached - 1)
    BY <1>2, <2>1
  <2>4. {k \in 1 .. (p - 1) : text[k] = Newline} = {k \in 1 .. (reached - 1) : text[k] = Newline}
    BY <2>1, <2>2, <2>3
  <2> QED BY <2>4 DEF LineOf
<1>9. ASSUME RegexPlain PROVE SeenInv'
  <2>1. (\E q \in DOMAIN stripped : stripped[q] = Call) <=> \E p \in DOMAIN text : OnLine(p) /\ Counted(p)
    BY <1>9 DEF RegexInv, LineInv
  <2>2. seen = {LineOf(text, p) : p \in {k \in DOMAIN text : k < reached /\ Counted(k) /\ ~OnLine(k)}}
    BY <1>9 DEF RegexInv, SeenInv
  <2>3. \A k : Counted(k)' <=> Counted(k)
    BY <1>1 DEF Counted
  <2>4. ASSUME NEW k \in DOMAIN text
        PROVE  k < reached' /\ Counted(k)' /\ ~OnLine(k)' <=> k < reached /\ Counted(k)
    <3>1. k < reached' <=> k < reached \/ k = reached
      BY <1>1, <1>2
    <3>2. k = reached => ~Counted(k)
      BY <1>1, <1>2 DEF Counted, Newline, Call
    <3> QED BY <1>5, <2>3, <3>1, <3>2
  <2>5. {k \in DOMAIN text : k < reached' /\ Counted(k)' /\ ~OnLine(k)'} = {k \in DOMAIN text : k < reached /\ Counted(k)}
    BY <2>4
  <2>6. \A k \in DOMAIN text : OnLine(k) => k < reached
    BY DEF OnLine
  <2> DEFINE before == {k \in DOMAIN text : k < reached /\ Counted(k) /\ ~OnLine(k)}
             here_ == {k \in DOMAIN text : OnLine(k) /\ Counted(k)}
  <2>7. {k \in DOMAIN text : k < reached /\ Counted(k)} = before \cup here_
    BY <2>6
  <2>8. {LineOf(text, reached) : p \in {q \in DOMAIN stripped : stripped[q] = Call}}
          = {LineOf(text, p) : p \in here_}
    <3>1. \A p \in here_ : LineOf(text, p) = LineOf(text, reached)
      BY <1>8
    <3>2. (\E q \in DOMAIN stripped : stripped[q] = Call) <=> here_ # {}
      BY <2>1
    <3> HIDE DEF here_
    <3> QED BY <3>1, <3>2
  <2> HIDE DEF before, here_
  <2>9. {LineOf(text, p) : p \in before \cup here_}
          = {LineOf(text, p) : p \in before} \cup {LineOf(text, p) : p \in here_}
    OBVIOUS
  <2>10. seen = {LineOf(text, p) : p \in before}
    BY <2>2 DEF before
  <2>11. seen' = {LineOf(text, p) : p \in before \cup here_}
    BY <1>1, <2>8, <2>9, <2>10
  <2> QED BY <1>1, <2>5, <2>7, <2>11 DEF SeenInv
<1> QED BY <1>3, <1>4, <1>6, <1>7, <1>9 DEF RegexInv

LEMMA RegexGoesOn == RegexInv /\ [RegexNext]_matching => RegexInv'
<1> SUFFICES ASSUME RegexInv, [RegexNext]_matching PROVE RegexInv'
  OBVIOUS
<1>1. ASSUME UNCHANGED matching PROVE RegexInv'
  BY <1>1 DEF matching, RegexInv, RegexTyped, RegexPlain, Follows, LineInv, SeenInv, OnLine, Counted
<1>2. CASE RegexAnalysed
  BY <1>1, <1>2 DEF RegexAnalysed
<1> QED BY <1>1, <1>2, InBlockKeeps, InCodeKeeps, BehindSlashesKeeps, EndLineKeeps DEF RegexNext

LEMMA RegexInvSuffices == RegexInv => OnlyLiteralsMislead
<1> SUFFICES ASSUME RegexInv, reached = Len(text) + 2, RegexPlain
             PROVE  seen = {LineOf(text, p) : p \in CallsIn(text, {"code"} \cup Literal)}
  BY DEF OnlyLiteralsMislead, RegexPlain
<1>1. text \in Seq(Char) /\ Len(text) \in Nat /\ DOMAIN text = 1 .. Len(text)
  BY DEF RegexInv, RegexTyped
<1>2. ASSUME NEW p \in DOMAIN text PROVE p < reached /\ ~OnLine(p)
  <2>1. p < reached /\ Len(text) + 1 \in p .. (reached - 1) /\ ~(Len(text) + 1 <= Len(text))
    BY <1>1
  <2> QED BY <2>1 DEF OnLine
<1>3. {k \in DOMAIN text : k < reached /\ Counted(k) /\ ~OnLine(k)} = CallsIn(text, {"code"} \cup Literal)
  BY <1>2 DEF CallsIn, Counted, Good
<1> QED BY <1>3 DEF RegexInv, SeenInv

\* On every text: where no literal looks like the beginning of a comment,
\* analyze_file of RegexAnalyzer finds the lines with a call in code or in a
\* literal and no other.
THEOREM LiteralsAloneMislead == RegexSpec => []OnlyLiteralsMislead
<1>1. RegexInv => OnlyLiteralsMislead
  BY RegexInvSuffices
<1> QED BY <1>1, RegexStarts, RegexGoesOn, PTL DEF RegexSpec

-----------------------------------------------------------------------------
(* TokenAnalyzer.                                                          *)

TokenPlain == WellFormed(text) /\ NoOpenerInLiteral(text) /\ NoSplicedLiteral(text)

Opener(p) == Pair(text, p, "/", "/") \/ Pair(text, p, "/", "*")

\* What the first pass is to make of the character at p, ...
Cleaned(p) ==
  IF States(text)[p] \in Good /\ ~(States(text)[p] = "code" /\ Opener(p)) THEN text[p] ELSE KeepLine(text[p])

\* ... and of the outcome of the second the counting needs no more than this.
Readable(p, c) ==
  /\ c = Call <=> text[p] = Call /\ States(text)[p] = "code"
  /\ c = Newline <=> text[p] = Newline

\* c is what the pass is to write for the character at p.
Right(p, c) ==
  /\ pass = "comments" => (c = Newline) = (text[p] = Newline)
  /\ pass = "comments" /\ TokenPlain => c = Cleaned(p)
  /\ pass = "strings" /\ TokenPlain => Readable(p, c)

TokenTyped ==
  /\ text \in Seq(Char) /\ src \in Seq(Char) /\ r \in Seq(Char)
  /\ here \in Nat \ {0}
  /\ pass \in {"comments", "strings"} => Len(r) = here - 1
  /\ pass = "comments" => src = text /\ here <= Len(text) + 1

Writing == pass \in {"comments", "strings"} => \A p \in DOMAIN r : Right(p, r[p])

\* Loop m of the first pass stands at p where the lexer is in a state it means.
FirstAt(m, p) ==
  /\ m = "code" => \/ States(text)[p] \in Good
                   \/ States(text)[p] = "line" /\ text[p] = Newline
  /\ m = "line" => \/ States(text)[p] = "line"
                   \/ States(text)[p] = "code" /\ Pair(text, p, "/", "/")
  /\ m = "block" => States(text)[p] = "block"

FirstFollows == pass = "comments" /\ here <= Len(text) => FirstAt(mode, here)

\* The same of the second.
SecondAt(m, p) ==
  /\ m = "code" => States(text)[p] \in {"code"} \cup Comment
  /\ m = "string" => States(text)[p] = "string"
  /\ m = "char" => States(text)[p] = "char"

SecondFollows ==
  pass = "strings" =>
    /\ Len(src) = Len(text) /\ here <= Len(text) + 1
    /\ \A p \in DOMAIN text : src[p] = Cleaned(p)
    /\ SecondAt(mode, here)

Results ==
  /\ pass = "tokens" => Len(src) = Len(text) /\ \A p \in DOMAIN text : Readable(p, src[p])
  /\ pass = "done" => found = Real(text)

TokenInv == TokenTyped /\ Writing /\ (TokenPlain => FirstFollows /\ SecondFollows /\ Results)

LEMMA TokenStarts == TokenInit => TokenInv
<1> SUFFICES ASSUME TokenInit PROVE TokenInv
  OBVIOUS
<1>1. text \in Seq(Char) /\ Len(text) \in Nat
  BY LexicalConstants DEF TokenInit
<1>2. pass = "comments" /\ src = text /\ here = 1 /\ mode = "code" /\ r = <<>>
  BY DEF TokenInit, TokenBegin
<1>3. TokenTyped
  <2>1. r \in Seq(Char) /\ Len(r) = here - 1 /\ here \in Nat \ {0} /\ here <= Len(text) + 1
    BY <1>1, <1>2
  <2> QED BY <1>1, <1>2, <2>1 DEF TokenTyped
<1>4. Writing
  BY <1>2 DEF Writing
<1>5. States(text)[1] = "code"
  BY <1>1, LexerSteps DEF Runs
<1>6. FirstFollows /\ SecondFollows /\ Results
  BY <1>2, <1>5 DEF FirstFollows, FirstAt, SecondFollows, Results, Good
<1> QED BY <1>3, <1>4, <1>6 DEF TokenInv

LEMMA Joined ==
  ASSUME NEW a \in Seq(Char), NEW b \in Seq(Char), NEW n, n = Len(b)
  PROVE  /\ Len(a \o b) = Len(a) + n /\ a \o b \in Seq(Char)
         /\ \A p \in 1 .. Len(a) : (a \o b)[p] = a[p]
         /\ \A k \in 1 .. n : (a \o b)[Len(a) + k] = b[k]
  OBVIOUS

\* What is appended is what is to be written for the characters consumed.
LEMMA StripWrites ==
  ASSUME TokenInv, pass \in {"comments", "strings"}, NEW out \in Seq(Char), NEW n, n = Len(out), NEW m,
         Strip(out, n, m), pass = "comments" => here + n <= Len(text) + 1,
         \A k \in 1 .. n : Right(here + k - 1, out[k])
  PROVE  /\ TokenTyped' /\ Writing'
         /\ text' = text /\ pass' = pass /\ src' = src /\ here' = here + n /\ mode' = m
<1>1. /\ text' = text /\ pass' = pass /\ src' = src /\ here' = here + n /\ mode' = m
      /\ r' = r \o out
  BY DEF Strip
<1>2. /\ text \in Seq(Char) /\ src \in Seq(Char) /\ r \in Seq(Char) /\ here \in Nat \ {0}
      /\ Len(r) = here - 1 /\ (pass = "comments" => src = text)
  BY DEF TokenInv, TokenTyped
<1>3. n \in Nat /\ Len(r) \in Nat /\ Len(text) \in Nat
  BY <1>2
<1>4. /\ r \o out \in Seq(Char) /\ Len(r \o out) = here + n - 1
      /\ \A p \in 1 .. (here - 1) : (r \o out)[p] = r[p]
      /\ \A k \in 1 .. n : (r \o out)[here + k - 1] = out[k]
  <2>1. /\ Len(r \o out) = Len(r) + n /\ r \o out \in Seq(Char)
        /\ \A p \in 1 .. Len(r) : (r \o out)[p] = r[p]
        /\ \A k \in 1 .. n : (r \o out)[Len(r) + k] = out[k]
    <3>1. r \in Seq(Char)
      BY <1>2
    <3> QED BY ONLY <3>1, out \in Seq(Char), n = Len(out), Joined
  <2>2. \A k \in 1 .. n : Len(r) + k = here + k - 1
    BY <1>2, <1>3
  <2>3. Len(r) + n = here + n - 1
    BY <1>2, <1>3
  <2> QED BY <1>2, <2>1, <2>2, <2>3
<1>5. TokenTyped'
  <2>1. here + n \in Nat \ {0} /\ here + n - 1 = (here + n) - 1
    BY <1>2, <1>3
  <2> QED BY <1>1, <1>2, <1>4, <2>1 DEF TokenTyped
<1>6. \A p, c : Right(p, c)' <=> Right(p, c)
  BY <1>1 DEF Right, TokenPlain, Cleaned, Opener, Readable
<1>7. ASSUME NEW p \in DOMAIN (r \o out) PROVE Right(p, (r \o out)[p])
  <2>1. p \in 1 .. (here + n - 1)
    BY <1>4, <1>7
  <2>2. CASE p \in 1 .. (here - 1)
    <3>1. p \in DOMAIN r
      BY <1>2, <2>2
    <3> QED BY <1>4, <2>2, <3>1 DEF TokenInv, Writing
  <2>3. CASE p \notin 1 .. (here - 1)
    <3>1. PICK k : k = p - here + 1
      OBVIOUS
    <3>2. k \in 1 .. n /\ p = here + k - 1
      BY <1>2, <1>3, <2>1, <2>3, <3>1
    <3> QED BY <1>4, <3>2
  <2> QED BY <2>2, <2>3
<1>8. Writing'
  BY <1>1, <1>6, <1>7 DEF Writing
<1> QED BY <1>1, <1>5, <1>8

LEMMA FirstStep ==
  ASSUME TokenInv, pass = "comments", NEW out \in Seq(Char), NEW n, n = Len(out), NEW m,
         Strip(out, n, m), here + n <= Len(text) + 1,
         \A k \in 1 .. n : (out[k] = Newline) = (text[here + k - 1] = Newline),
         TokenPlain => \A k \in 1 .. n : out[k] = Cleaned(here + k - 1),
         TokenPlain /\ here + n <= Len(text) => FirstAt(m, here + n)
  PROVE  TokenInv'
<1>1. \A k \in 1 .. n : Right(here + k - 1, out[k])
  BY DEF Right
<1>2. /\ TokenTyped' /\ Writing'
      /\ text' = text /\ pass' = pass /\ here' = here + n /\ mode' = m
  BY <1>1, StripWrites
<1>3. TokenPlain' <=> TokenPlain
  BY <1>2 DEF TokenPlain
<1>5. ASSUME TokenPlain PROVE FirstFollows'
  BY <1>2, <1>5 DEF FirstFollows, FirstAt
<1>6. SecondFollows' /\ Results'
  BY <1>2 DEF SecondFollows, Results
<1> QED BY <1>2, <1>3, <1>5, <1>6 DEF TokenInv

LEMMA FirstSees ==
  ASSUME TokenInv, pass = "comments", here <= Len(src)
  PROVE  /\ src = text /\ text \in Seq(Char) /\ here \in 1 .. Len(text) /\ Len(text) \in Nat
         /\ DOMAIN text = 1 .. Len(text) /\ text[here] \in Char
         /\ Moves(States(text)[here], States(text)[here + 1], text, here)
         /\ here < Len(text) => Moves(States(text)[here + 1], States(text)[here + 2], text, here + 1)
         /\ TokenPlain => FirstAt(mode, here)
<1>1. src = text /\ text \in Seq(Char) /\ here \in 1 .. Len(text) /\ Len(text) \in Nat
  BY DEF TokenInv, TokenTyped
<1>2. DOMAIN text = 1 .. Len(text) /\ text[here] \in Char
  BY <1>1
<1>3. Moves(States(text)[here], States(text)[here + 1], text, here)
  BY <1>1, LexerMoves
<1>4. ASSUME here < Len(text) PROVE Moves(States(text)[here + 1], States(text)[here + 2], text, here + 1)
  <2>1. here + 1 \in 1 .. Len(text) /\ here + 2 = (here + 1) + 1
    BY <1>1, <1>4
  <2> QED BY <1>1, <2>1, LexerMoves
<1>5. TokenPlain => FirstAt(mode, here)
  BY <1>1 DEF TokenInv, FirstFollows
<1> QED BY <1>1, <1>2, <1>3, <1>4, <1>5

\* Nothing, one character or two are appended.
LEMMA FirstNone ==
  ASSUME TokenInv, pass = "comments", NEW m, Strip(<<>>, 0, m), here <= Len(text) + 1,
         TokenPlain /\ here <= Len(text) => FirstAt(m, here)
  PROVE  TokenInv'
<1>1. here \in Nat
  BY DEF TokenInv, TokenTyped
<1> DEFINE out == <<>>
<1>2. out \in Seq(Char) /\ Len(out) = 0 /\ here + 0 = here
  BY <1>1
<1>3. \A k \in 1 .. 0 : FALSE
  OBVIOUS
<1>4. Strip(out, 0, m)
  OBVIOUS
<1> HIDE DEF out
<1> QED BY <1>2, <1>3, <1>4, FirstStep

LEMMA FirstOne ==
  ASSUME TokenInv, pass = "comments", NEW m, NEW c \in Char, Strip(<<c>>, 1, m), here <= Len(text),
         (c = Newline) = (text[here] = Newline), TokenPlain => c = Cleaned(here),
         TokenPlain /\ here + 1 <= Len(text) => FirstAt(m, here + 1)
  PROVE  TokenInv'
<1>1. here \in Nat /\ Len(text) \in Nat
  BY DEF TokenInv, TokenTyped
<1> DEFINE out == <<c>>
<1>2. out \in Seq(Char) /\ Len(out) = 1 /\ out[1] = c /\ here + 1 <= Len(text) + 1 /\ here + 1 - 1 = here
  BY <1>1
<1>3. \A k \in 1 .. 1 : k = 1
  OBVIOUS
<1>4. Strip(out, 1, m)
  OBVIOUS
<1> HIDE DEF out
<1> QED BY <1>2, <1>3, <1>4, FirstStep

LEMMA FirstTwo ==
  ASSUME TokenInv, pass = "comments", NEW m, Strip(<<Blank, Blank>>, 2, m), here < Len(text),
         text[here] # Newline, text[here + 1] # Newline,
         TokenPlain => Cleaned(here) = Blank /\ Cleaned(here + 1) = Blank,
         TokenPlain /\ here + 2 <= Len(text) => FirstAt(m, here + 2)
  PROVE  TokenInv'
<1>1. here \in Nat /\ Len(text) \in Nat
  BY DEF TokenInv, TokenTyped
<1> DEFINE out == <<Blank, Blank>>
<1>2. /\ out \in Seq(Char) /\ Len(out) = 2 /\ out[1] = Blank /\ out[2] = Blank /\ Blank # Newline
      /\ here + 2 <= Len(text) + 1 /\ here + 1 - 1 = here /\ here + 2 - 1 = here + 1
  BY <1>1 DEF Char, Blank, Newline
<1>3. \A k \in 1 .. 2 : k = 1 \/ k = 2
  OBVIOUS
<1>4. Strip(out, 2, m)
  OBVIOUS
<1> HIDE DEF out
<1>5. \A k \in 1 .. 2 : (out[k] = Newline) = (text[here + k - 1] = Newline)
  BY <1>2, <1>3
<1>6. TokenPlain => \A k \in 1 .. 2 : out[k] = Cleaned(here + k - 1)
  BY <1>2, <1>3
<1> QED BY <1>2, <1>4, <1>5, <1>6, FirstStep

LEMMA OutsideCommentKeeps == ASSUME TokenInv, pass = "comments", here <= Len(src), OutsideComment PROVE TokenInv'
<1>1. /\ src = text /\ text \in Seq(Char) /\ here \in 1 .. Len(text) /\ Len(text) \in Nat
      /\ DOMAIN text = 1 .. Len(text) /\ text[here] \in Char
      /\ Moves(States(text)[here], States(text)[here + 1], text, here)
      /\ here < Len(text) => Moves(States(text)[here + 1], States(text)[here + 2], text, here + 1)
      /\ TokenPlain => FirstAt("code", here)
  BY FirstSees DEF OutsideComment
<1>2. ASSUME TokenPlain, Opener(here) PROVE States(text)[here] = "code"
  <2>1. States(text)[here] \notin Literal
    BY <1>1, <1>2 DEF TokenPlain, NoOpenerInLiteral, Opener
  <2>2. text[here] # Newline
    BY <1>2 DEF Opener, Pair, Newline
  <2> QED BY <1>1, <1>2, <2>1, <2>2 DEF FirstAt, Good
<1>3. CASE Pair(text, here, "/", "/")
  <2>1. Strip(<<>>, 0, "line")
    BY <1>1, <1>3 DEF OutsideComment, Pair
  <2>2. TokenPlain => FirstAt("line", here)
    BY <1>2, <1>3 DEF FirstAt, Opener
  <2>3. here <= Len(text) + 1
    BY <1>1
  <2> QED BY <2>1, <2>2, <2>3, FirstNone
<1>4. CASE Pair(text, here, "/", "*")
  <2>1. Strip(<<Blank, Blank>>, 2, "block")
    BY <1>1, <1>4 DEF OutsideComment, Pair
  <2>2. here < Len(text) /\ text[here] = "/" /\ text[here + 1] = "*"
    BY <1>4 DEF Pair
  <2>3. text[here] # Newline /\ text[here + 1] # Newline
    BY <2>2 DEF Newline
  <2>4. ASSUME TokenPlain
        PROVE  /\ States(text)[here] = "code" /\ States(text)[here + 1] = "opening"
               /\ States(text)[here + 2] = "block"
    <3>1. States(text)[here] = "code" /\ ~Pair(text, here, "/", "/")
      BY <1>2, <1>4, <2>2, <2>4 DEF Opener, Pair
    <3>2. States(text)[here + 1] = "opening"
      BY <1>1, <1>4, <3>1 DEF Moves
    <3>3. States(text)[here + 2] = "block"
      BY <1>1, <2>2, <3>2 DEF Moves
    <3> QED BY <3>1, <3>2, <3>3
  <2>5. ASSUME TokenPlain PROVE Cleaned(here) = Blank /\ Cleaned(here + 1) = Blank
    <3>1. "opening" \notin Good
      BY DEF Good, Literal
    <3> QED BY <1>4, <2>3, <2>4, <2>5, <3>1 DEF Cleaned, KeepLine, Opener
  <2>6. TokenPlain => FirstAt("block", here + 2)
    BY <2>4 DEF FirstAt
  <2> QED BY <2>1, <2>2, <2>3, <2>5, <2>6, FirstTwo
<1>5. CASE ~Opener(here)
  <2>1. Strip(<<text[here]>>, 1, "code")
    BY <1>1, <1>5 DEF OutsideComment, Opener
  <2>2. ASSUME TokenPlain PROVE text[here] = Cleaned(here)
    BY <1>1, <1>5, <2>2 DEF FirstAt, Cleaned, KeepLine
  <2>3. ASSUME TokenPlain PROVE FirstAt("code", here + 1)
    <3>1. CASE States(text)[here] = "code"
      <4>1. States(text)[here + 1] \in {"string", "char", "code"}
        BY <1>1, <1>5, <3>1 DEF Moves, Opener
      <4> QED BY <4>1 DEF FirstAt, Good, Literal
    <3>2. CASE States(text)[here] = "line"
      <4>1. text[here] = Newline
        BY <1>1, <2>3, <3>2 DEF FirstAt, Good, Literal
      <4>2. States(text)[here + 1] = "code"
        BY <1>1, <3>2, <4>1 DEF Moves
      <4> QED BY <4>2 DEF FirstAt, Good
    <3>3. CASE States(text)[here] \in Literal
      <4>1. States(text)[here + 1] \in {"code"} \cup Literal
        BY <1>1, <3>3, LexerInLiteral
      <4> QED BY <4>1 DEF FirstAt, Good
    <3> QED BY <1>1, <2>3, <3>1, <3>2, <3>3 DEF FirstAt, Good
  <2>4. here <= Len(text)
    BY <1>1
  <2> QED BY <1>1, <2>1, <2>2, <2>3, <2>4, FirstOne
<1> QED BY <1>3, <1>4, <1>5 DEF Opener

LEMMA InLineCommentKeeps == ASSUME TokenInv, pass = "comments", here <= Len(src), InLineComment PROVE TokenInv'
<1>1. /\ src = text /\ text \in Seq(Char) /\ here \in 1 .. Len(text) /\ Len(text) \in Nat
      /\ Moves(States(text)[here], States(text)[here + 1], text, here)
      /\ TokenPlain => FirstAt("line", here)
  BY FirstSees DEF InLineComment
<1>2. here <= Len(text) /\ here <= Len(text) + 1
  BY <1>1
<1>3. CASE text[here] = Newline
  <2>1. Strip(<<>>, 0, "code")
    BY <1>1, <1>3 DEF InLineComment
  <2>2. TokenPlain => FirstAt("code", here)
    BY <1>1, <1>3 DEF FirstAt, Pair, Newline
  <2> QED BY <1>2, <2>1, <2>2, FirstNone
<1>4. CASE text[here] # Newline
  <2>1. Strip(<<Blank>>, 1, "line")
    BY <1>1, <1>4 DEF InLineComment
  <2>2. ASSUME TokenPlain PROVE Blank = Cleaned(here)
    BY <1>1, <1>4, <2>2 DEF FirstAt, Cleaned, KeepLine, Good, Literal, Opener
  <2>3. ASSUME TokenPlain PROVE FirstAt("line", here + 1)
    <3>1. States(text)[here + 1] = "line"
      BY <1>1, <1>4, <2>3 DEF FirstAt, Moves
    <3> QED BY <3>1 DEF FirstAt
  <2>4. Blank \in Char /\ Blank # Newline
    BY DEF Char, Blank, Newline
  <2> QED BY <1>2, <1>4, <2>1, <2>2, <2>3, <2>4, FirstOne
<1> QED BY <1>3, <1>4

LEMMA InBlockCommentKeeps == ASSUME TokenInv, pass = "comments", here <= Len(src), InBlockComment PROVE TokenInv'
<1>1. /\ src = text /\ text \in Seq(Char) /\ here \in 1 .. Len(text) /\ Len(text) \in Nat
      /\ text[here] \in Char
      /\ Moves(States(text)[here], States(text)[here + 1], text, here)
      /\ here < Len(text) => Moves(States(text)[here + 1], States(text)[here + 2], text, here + 1)
      /\ TokenPlain => FirstAt("block", here)
  BY FirstSees DEF InBlockComment
<1>2. TokenPlain => States(text)[here] = "block"
  BY <1>1 DEF FirstAt
<1>3. "block" \notin Good /\ "closing" \notin Good
  BY DEF Good, Literal
<1>4. CASE Pair(text, here, "*", "/")
  <2>1. here < Len(text) /\ text[here] = "*" /\ text[here + 1] = "/"
    BY <1>4 DEF Pair
  <2>2. Strip(<<Blank, Blank>>, 2, "code")
    BY <1>1, <1>4, <2>1 DEF InBlockComment
  <2>3. text[here] # Newline /\ text[here + 1] # Newline
    BY <2>1 DEF Newline
  <2>4. TokenPlain => States(text)[here + 1] = "closing"
    BY <1>1, <1>2, <1>4 DEF Moves
  <2>5. TokenPlain => States(text)[here + 2] = "code"
    BY <1>1, <2>1, <2>4 DEF Moves
  <2>6. TokenPlain => Cleaned(here) = Blank /\ Cleaned(here + 1) = Blank
    BY <1>2, <1>3, <2>3, <2>4 DEF Cleaned, KeepLine
  <2>7. TokenPlain => FirstAt("code", here + 2)
    BY <2>5 DEF FirstAt, Good
  <2> QED BY <2>1, <2>2, <2>3, <2>6, <2>7, FirstTwo
<1>5. CASE ~Pair(text, here, "*", "/") /\ here < Len(text)
  <2>1. Strip(<<KeepLine(text[here])>>, 1, "block")
    BY <1>1, <1>5 DEF InBlockComment
  <2>2. KeepLine(text[here]) \in Char /\ (KeepLine(text[here]) = Newline) = (text[here] = Newline)
    BY DEF KeepLine, Char, Newline, Blank
  <2>3. TokenPlain => KeepLine(text[here]) = Cleaned(here)
    BY <1>2, <1>3 DEF Cleaned
  <2>4. TokenPlain => States(text)[here + 1] = "block"
    BY <1>1, <1>2, <1>5 DEF Moves
  <2>5. TokenPlain => FirstAt("block", here + 1)
    BY <2>4 DEF FirstAt
  <2>6. here <= Len(text)
    BY <1>1
  <2> QED BY <2>1, <2>2, <2>3, <2>5, <2>6, FirstOne
<1>6. CASE here = Len(text)
  <2>1. ~Pair(text, here, "*", "/") /\ here <= Len(text) + 1
    BY <1>1, <1>6 DEF Pair
  <2>2. Strip(<<>>, 0, "code")
    BY <1>1, <1>6, <2>1 DEF InBlockComment
  <2>3. ~TokenPlain
    <3>1. TokenPlain => States(text)[Len(text) + 1] = "block"
      BY <1>1, <1>2, <1>6, <2>1 DEF Moves
    <3> QED BY <3>1 DEF TokenPlain, WellFormed
  <2> QED BY <2>1, <2>2, <2>3, FirstNone
<1> QED BY <1>1, <1>4, <1>5, <1>6

LEMMA SecondStep ==
  ASSUME TokenInv, pass = "strings", NEW out \in Seq(Char), NEW n, n = Len(out), NEW m, Strip(out, n, m),
         TokenPlain => /\ \A k \in 1 .. n : Readable(here + k - 1, out[k])
                       /\ here + n <= Len(text) + 1 /\ SecondAt(m, here + n)
  PROVE  TokenInv'
<1>1. \A k \in 1 .. n : Right(here + k - 1, out[k])
  BY DEF Right
<1>2. /\ TokenTyped' /\ Writing'
      /\ text' = text /\ pass' = pass /\ src' = src /\ here' = here + n /\ mode' = m
  BY <1>1, StripWrites
<1>3. TokenPlain' <=> TokenPlain
  BY <1>2 DEF TokenPlain
<1>4. ASSUME TokenPlain PROVE SecondFollows'
  <2>1. Len(src) = Len(text) /\ \A p \in DOMAIN text : src[p] = Cleaned(p)
    BY <1>4 DEF TokenInv, SecondFollows
  <2>2. \A p : Cleaned(p)' = Cleaned(p)
    BY <1>2 DEF Cleaned, Opener
  <2>3. SecondAt(mode, here)'
    BY <1>2, <1>4 DEF SecondAt
  <2> QED BY <1>2, <1>4, <2>1, <2>2, <2>3 DEF SecondFollows
<1>5. FirstFollows' /\ Results'
  BY <1>2 DEF FirstFollows, Results
<1> QED BY <1>2, <1>3, <1>4, <1>5 DEF TokenInv

LEMMA SecondSees ==
  ASSUME TokenInv, pass = "strings", here <= Len(src)
  PROVE  /\ src[here] \in Char
         /\ TokenPlain =>
              /\ here \in 1 .. Len(text) /\ here \in DOMAIN text /\ Len(text) \in Nat
              /\ text \in Seq(Char) /\ src[here] = Cleaned(here) /\ SecondAt(mode, here)
              /\ Moves(States(text)[here], States(text)[here + 1], text, here)
              /\ here < Len(text) => Moves(States(text)[here + 1], States(text)[here + 2], text, here + 1)
<1>1. src \in Seq(Char) /\ text \in Seq(Char) /\ here \in Nat \ {0} /\ Len(text) \in Nat /\ Len(src) \in Nat
  BY DEF TokenInv, TokenTyped
<1>2. src[here] \in Char
  BY <1>1
<1>3. ASSUME TokenPlain
      PROVE  /\ here \in 1 .. Len(text) /\ here \in DOMAIN text
             /\ src[here] = Cleaned(here) /\ SecondAt(mode, here)
  <2>1. Len(src) = Len(text) /\ (\A p \in DOMAIN text : src[p] = Cleaned(p)) /\ SecondAt(mode, here)
    BY <1>3 DEF TokenInv, SecondFollows
  <2>2. here \in 1 .. Len(text) /\ here \in DOMAIN text
    BY <1>1, <2>1
  <2> QED BY <2>1, <2>2
<1>4. ASSUME TokenPlain PROVE Moves(States(text)[here], States(text)[here + 1], text, here)
  BY <1>1, <1>3, <1>4, LexerMoves
<1>5. ASSUME TokenPlain, here < Len(text)
      PROVE  Moves(States(text)[here + 1], States(text)[here + 2], text, here + 1)
  <2>1. here + 1 \in 1 .. Len(text) /\ here + 2 = (here + 1) + 1
    BY <1>1, <1>5
  <2> QED BY <1>1, <2>1, LexerMoves
<1> QED BY <1>1, <1>2, <1>3, <1>4, <1>5

LEMMA SecondOne ==
  ASSUME TokenInv, pass = "strings", NEW m, NEW c \in Char, Strip(<<c>>, 1, m),
         TokenPlain => Readable(here, c) /\ here <= Len(text) /\ SecondAt(m, here + 1)
  PROVE  TokenInv'
<1>1. here \in Nat /\ Len(text) \in Nat
  BY DEF TokenInv, TokenTyped
<1> DEFINE out == <<c>>
<1>2. /\ out \in Seq(Char) /\ Len(out) = 1 /\ out[1] = c /\ here + 1 - 1 = here
      /\ here <= Len(text) => here + 1 <= Len(text) + 1
  BY <1>1
<1>3. \A k \in 1 .. 1 : k = 1
  OBVIOUS
<1>4. Strip(out, 1, m)
  OBVIOUS
<1> HIDE DEF out
<1> QED BY <1>2, <1>3, <1>4, SecondStep

LEMMA SecondTwo ==
  ASSUME TokenInv, pass = "strings", NEW m, Strip(<<Blank, Blank>>, 2, m),
         TokenPlain => /\ Readable(here, Blank) /\ Readable(here + 1, Blank)
                       /\ here < Len(text) /\ SecondAt(m, here + 2)
  PROVE  TokenInv'
<1>1. here \in Nat /\ Len(text) \in Nat
  BY DEF TokenInv, TokenTyped
<1> DEFINE out == <<Blank, Blank>>
<1>2. /\ out \in Seq(Char) /\ Len(out) = 2 /\ out[1] = Blank /\ out[2] = Blank
      /\ here < Len(text) => here + 2 <= Len(text) + 1
      /\ here + 1 - 1 = here /\ here + 2 - 1 = here + 1
  BY <1>1 DEF Char
<1>3. \A k \in 1 .. 2 : k = 1 \/ k = 2
  OBVIOUS
<1>4. Strip(out, 2, m)
  OBVIOUS
<1> HIDE DEF out
<1>5. TokenPlain => \A k \in 1 .. 2 : Readable(here + k - 1, out[k])
  BY <1>2, <1>3
<1> QED BY <1>2, <1>4, <1>5, SecondStep

LEMMA OutsideLiteralKeeps == ASSUME TokenInv, pass = "strings", here <= Len(src), OutsideLiteral PROVE TokenInv'
<1> DEFINE m == IF src[here] = Quote THEN "string" ELSE IF src[here] = Apostrophe THEN "char" ELSE "code"
<1>1. Strip(<<src[here]>>, 1, m) /\ mode = "code" /\ src[here] \in Char
  BY SecondSees DEF OutsideLiteral
<1>2. ASSUME TokenPlain PROVE Readable(here, src[here]) /\ here <= Len(text) /\ SecondAt(m, here + 1)
  <2>1. /\ here \in 1 .. Len(text) /\ here \in DOMAIN text /\ Len(text) \in Nat
        /\ text \in Seq(Char) /\ src[here] = Cleaned(here) /\ SecondAt("code", here)
        /\ Moves(States(text)[here], States(text)[here + 1], text, here)
    BY <1>1, <1>2, SecondSees
  <2>2. here <= Len(text)
    BY <2>1
  <2>3. States(text)[here] \in {"code", "line", "opening", "block", "closing"}
    BY <2>1 DEF SecondAt, Comment
  <2>4. CASE States(text)[here] = "code" /\ ~Opener(here)
    <3>1. src[here] = text[here]
      BY <2>1, <2>4 DEF Cleaned, Good
    <3>2. Readable(here, src[here])
      BY <2>4, <3>1 DEF Readable
    <3>3. States(text)[here + 1] = m
      BY <2>1, <2>4, <3>1 DEF Moves, Opener
    <3>4. SecondAt(m, here + 1)
      BY <3>3 DEF SecondAt
    <3> QED BY <2>2, <3>2, <3>4
  <2>5. CASE States(text)[here] = "code" /\ Opener(here)
    <3>1. text[here] = "/"
      BY <2>5 DEF Opener, Pair
    <3>2. src[here] = Blank
      BY <2>1, <2>5, <3>1 DEF Cleaned, KeepLine, Newline
    <3>3. Readable(here, src[here])
      BY <3>1, <3>2 DEF Readable, Blank, Call, Newline
    <3>4. States(text)[here + 1] \in {"line", "opening"} /\ m = "code"
      BY <2>1, <2>5, <3>2 DEF Moves, Opener, Blank, Quote, Apostrophe
    <3>5. SecondAt(m, here + 1)
      BY <3>4 DEF SecondAt, Comment
    <3> QED BY <2>2, <3>3, <3>5
  <2>6. CASE States(text)[here] # "code"
    <3>1. States(text)[here] \notin Good
      BY <2>3, <2>6 DEF Good, Literal
    <3>2. src[here] = KeepLine(text[here])
      BY <2>1, <3>1 DEF Cleaned
    <3>3. Readable(here, src[here]) /\ m = "code"
      BY <2>6, <3>2 DEF Readable, KeepLine, Blank, Call, Newline, Quote, Apostrophe
    <3>4. States(text)[here + 1] \in {"code"} \cup Comment
      <4>1. CASE States(text)[here] = "line"
        BY <2>1, <4>1 DEF Moves, Comment
      <4>2. CASE States(text)[here] = "opening"
        BY <2>1, <4>2 DEF Moves, Comment
      <4>3. CASE States(text)[here] = "block"
        BY <2>1, <4>3 DEF Moves, Comment
      <4>4. CASE States(text)[here] = "closing"
        BY <2>1, <4>4 DEF Moves, Comment
      <4> QED BY <2>3, <2>6, <4>1, <4>2, <4>3, <4>4
    <3>5. SecondAt(m, here + 1)
      BY <3>3, <3>4 DEF SecondAt
    <3> QED BY <2>2, <3>3, <3>5
  <2> QED BY <2>4, <2>5, <2>6
<1> HIDE DEF m
<1> QED BY <1>1, <1>2, SecondOne

LEMMA InStringKeeps == ASSUME TokenInv, pass = "strings", here <= Len(src), InString PROVE TokenInv'
<1>1. src[here] \in Char /\ mode = "string"
  BY SecondSees DEF InString
<1>2. ASSUME TokenPlain
      PROVE  /\ here \in 1 .. Len(text) /\ here \in DOMAIN text /\ Len(text) \in Nat /\ here <= Len(text)
             /\ text \in Seq(Char) /\ src[here] = text[here] /\ States(text)[here] = "string"
             /\ Moves(States(text)[here], States(text)[here + 1], text, here)
             /\ here < Len(text) => Moves(States(text)[here + 1], States(text)[here + 2], text, here + 1)
  <2>1. /\ here \in 1 .. Len(text) /\ here \in DOMAIN text /\ Len(text) \in Nat
        /\ text \in Seq(Char) /\ src[here] = Cleaned(here) /\ SecondAt("string", here)
        /\ Moves(States(text)[here], States(text)[here + 1], text, here)
        /\ here < Len(text) => Moves(States(text)[here + 1], States(text)[here + 2], text, here + 1)
    BY <1>1, <1>2, SecondSees
  <2>2. States(text)[here] = "string"
    BY <2>1 DEF SecondAt
  <2>3. src[here] = text[here] /\ here <= Len(text)
    BY <2>1, <2>2 DEF Cleaned, Good, Literal
  <2> QED BY <2>1, <2>2, <2>3
<1>3. CASE src[here] = Quote
  <2>1. Strip(<<Quote>>, 1, "code") /\ Quote \in Char
    BY <1>3 DEF InString, Char, Quote, Escape
  <2>2. ASSUME TokenPlain PROVE Readable(here, Quote) /\ SecondAt("code", here + 1)
    <3>1. States(text)[here + 1] = "code"
      BY <1>2, <1>3, <2>2 DEF Moves, Quote, Escape
    <3>2. Readable(here, Quote)
      BY <1>2, <1>3, <2>2 DEF Readable, Quote, Call, Newline
    <3> QED BY <3>1, <3>2 DEF SecondAt
  <2> QED BY <1>2, <2>1, <2>2, SecondOne
<1>4. CASE src[here] = Escape
  <2>1. Strip(<<Blank, Blank>>, 2, "string")
    BY <1>4 DEF InString, Quote, Escape
  <2>2. ASSUME TokenPlain
        PROVE  /\ Readable(here, Blank) /\ Readable(here + 1, Blank)
               /\ here < Len(text) /\ SecondAt("string", here + 2)
    <3>1. States(text)[here + 1] = "string escape"
      BY <1>2, <1>4, <2>2 DEF Moves
    <3>2. here < Len(text)
      <4>1. here # Len(text)
        BY <2>2, <3>1 DEF TokenPlain, WellFormed
      <4> QED BY <1>2, <2>2, <4>1
    <3>3. States(text)[here + 2] = "string"
      BY <1>2, <2>2, <3>1, <3>2 DEF Moves
    <3>4. text[here + 1] # Newline
      <4>1. here + 1 \in DOMAIN text
        BY <1>2, <2>2, <3>2
      <4> QED BY <2>2, <3>1, <4>1 DEF TokenPlain, NoSplicedLiteral, Literal
    <3>5. Readable(here, Blank) /\ Readable(here + 1, Blank)
      BY <1>2, <1>4, <2>2, <3>1, <3>4 DEF Readable, Blank, Call, Newline, Escape
    <3> QED BY <3>2, <3>3, <3>5 DEF SecondAt
  <2> QED BY <2>1, <2>2, SecondTwo
<1>5. CASE src[here] # Quote /\ src[here] # Escape
  <2>1. Strip(<<KeepLine(src[here])>>, 1, "string") /\ KeepLine(src[here]) \in Char
    BY <1>5 DEF InString, KeepLine, Char
  <2>2. ASSUME TokenPlain PROVE Readable(here, KeepLine(src[here])) /\ SecondAt("string", here + 1)
    <3>1. States(text)[here + 1] = "string"
      BY <1>2, <1>5, <2>2 DEF Moves
    <3>2. Readable(here, KeepLine(src[here]))
      BY <1>2, <2>2 DEF Readable, KeepLine, Blank, Call, Newline
    <3> QED BY <3>1, <3>2 DEF SecondAt
  <2> QED BY <1>2, <2>1, <2>2, SecondOne
<1> QED BY <1>3, <1>4, <1>5

LEMMA InCharKeeps == ASSUME TokenInv, pass = "strings", here <= Len(src), InChar PROVE TokenInv'
<1>1. src[here] \in Char /\ mode = "char"
  BY SecondSees DEF InChar
<1>2. ASSUME TokenPlain
      PROVE  /\ here \in 1 .. Len(text) /\ here \in DOMAIN text /\ Len(text) \in Nat /\ here <= Len(text)
             /\ text \in Seq(Char) /\ src[here] = text[here] /\ States(text)[here] = "char"
             /\ Moves(States(text)[here], States(text)[here + 1], text, here)
             /\ here < Len(text) => Moves(States(text)[here + 1], States(text)[here + 2], text, here + 1)
  <2>1. /\ here \in 1 .. Len(text) /\ here \in DOMAIN text /\ Len(text) \in Nat
        /\ text \in Seq(Char) /\ src[here] = Cleaned(here) /\ SecondAt("char", here)
        /\ Moves(States(text)[here], States(text)[here + 1], text, here)
        /\ here < Len(text) => Moves(States(text)[here + 1], States(text)[here + 2], text, here + 1)
    BY <1>1, <1>2, SecondSees
  <2>2. States(text)[here] = "char"
    BY <2>1 DEF SecondAt
  <2>3. src[here] = text[here] /\ here <= Len(text)
    BY <2>1, <2>2 DEF Cleaned, Good, Literal
  <2> QED BY <2>1, <2>2, <2>3
<1>3. CASE src[here] = Apostrophe
  <2>1. Strip(<<Apostrophe>>, 1, "code") /\ Apostrophe \in Char
    BY <1>3 DEF InChar, Char, Apostrophe, Escape
  <2>2. ASSUME TokenPlain PROVE Readable(here, Apostrophe) /\ SecondAt("code", here + 1)
    <3>1. States(text)[here + 1] = "code"
      BY <1>2, <1>3, <2>2 DEF Moves, Apostrophe, Escape
    <3>2. Readable(here, Apostrophe)
      BY <1>2, <1>3, <2>2 DEF Readable, Apostrophe, Call, Newline
    <3> QED BY <3>1, <3>2 DEF SecondAt
  <2> QED BY <1>2, <2>1, <2>2, SecondOne
<1>4. CASE src[here] = Escape
  <2>1. Strip(<<Blank, Blank>>, 2, "char")
    BY <1>4 DEF InChar, Apostrophe, Escape
  <2>2. ASSUME TokenPlain
        PROVE  /\ Readable(here, Blank) /\ Readable(here + 1, Blank)
               /\ here < Len(text) /\ SecondAt("char", here + 2)
    <3>1. States(text)[here + 1] = "char escape"
      BY <1>2, <1>4, <2>2 DEF Moves
    <3>2. here < Len(text)
      <4>1. here # Len(text)
        BY <2>2, <3>1 DEF TokenPlain, WellFormed
      <4> QED BY <1>2, <2>2, <4>1
    <3>3. States(text)[here + 2] = "char"
      BY <1>2, <2>2, <3>1, <3>2 DEF Moves
    <3>4. text[here + 1] # Newline
      <4>1. here + 1 \in DOMAIN text
        BY <1>2, <2>2, <3>2
      <4> QED BY <2>2, <3>1, <4>1 DEF TokenPlain, NoSplicedLiteral, Literal
    <3>5. Readable(here, Blank) /\ Readable(here + 1, Blank)
      BY <1>2, <1>4, <2>2, <3>1, <3>4 DEF Readable, Blank, Call, Newline, Escape
    <3> QED BY <3>2, <3>3, <3>5 DEF SecondAt
  <2> QED BY <2>1, <2>2, SecondTwo
<1>5. CASE src[here] # Apostrophe /\ src[here] # Escape
  <2>1. Strip(<<Blank>>, 1, "char") /\ Blank \in Char
    BY <1>5 DEF InChar, Char
  <2>2. ASSUME TokenPlain PROVE Readable(here, Blank) /\ SecondAt("char", here + 1)
    <3>1. States(text)[here + 1] = "char"
      BY <1>2, <1>5, <2>2 DEF Moves
    <3>2. text[here] # Newline
      BY <1>2, <2>2 DEF TokenPlain, NoSplicedLiteral, Literal
    <3>3. Readable(here, Blank)
      BY <1>2, <2>2, <3>2 DEF Readable, Blank, Call, Newline
    <3> QED BY <3>1, <3>3 DEF SecondAt
  <2> QED BY <1>2, <2>1, <2>2, SecondOne
<1> QED BY <1>3, <1>4, <1>5

\* The next pass reads what this one has written, and begins where the lexer did.
LEMMA EndPassKeeps == ASSUME TokenInv, EndPass PROVE TokenInv'
<1>1. /\ pass \in {"comments", "strings"} /\ here > Len(src)
      /\ pass' = (IF pass = "comments" THEN "strings" ELSE "tokens")
      /\ src' = r /\ here' = 1 /\ mode' = "code" /\ r' = <<>> /\ text' = text /\ found' = found
  BY DEF EndPass
<1>2. /\ text \in Seq(Char) /\ src \in Seq(Char) /\ r \in Seq(Char) /\ here \in Nat \ {0}
      /\ Len(r) = here - 1 /\ (pass = "comments" => src = text /\ here <= Len(text) + 1)
      /\ Len(text) \in Nat /\ Len(src) \in Nat /\ DOMAIN r = 1 .. Len(r) /\ DOMAIN text = 1 .. Len(text)
  BY <1>1 DEF TokenInv, TokenTyped
<1>3. \A p \in DOMAIN r : Right(p, r[p])
  BY <1>1 DEF TokenInv, Writing
<1>4. TokenTyped'
  <2>1. r' \in Seq(Char) /\ Len(r') = here' - 1 /\ here' \in Nat \ {0}
    BY <1>1
  <2> QED BY <1>1, <1>2, <2>1 DEF TokenTyped
<1>5. Writing'
  BY <1>1 DEF Writing
<1>6. TokenPlain' <=> TokenPlain
  BY <1>1 DEF TokenPlain
<1>7. FirstFollows'
  BY <1>1 DEF FirstFollows
<1>8. CASE pass = "comments"
  <2>1. pass' = "strings" /\ Len(src') = Len(text) /\ DOMAIN r = DOMAIN text /\ 1 <= Len(text) + 1
    BY <1>1, <1>2, <1>8
  <2>2. ASSUME TokenPlain PROVE SecondFollows'
    <3>1. \A p \in DOMAIN text : r[p] = Cleaned(p)
      BY <1>3, <1>8, <2>1, <2>2 DEF Right
    <3>2. \A p : Cleaned(p)' = Cleaned(p)
      BY <1>1 DEF Cleaned, Opener
    <3>3. States(text)[1] = "code"
      BY <1>2, LexerSteps DEF Runs
    <3>4. SecondAt(mode, here)'
      BY <1>1, <3>3 DEF SecondAt
    <3> QED BY <1>1, <2>1, <3>1, <3>2, <3>4 DEF SecondFollows
  <2>3. Results'
    BY <2>1 DEF Results
  <2> QED BY <1>4, <1>5, <1>6, <1>7, <2>2, <2>3 DEF TokenInv
<1>9. CASE pass = "strings"
  <2>1. pass' = "tokens"
    BY <1>1, <1>9
  <2>2. SecondFollows'
    BY <2>1 DEF SecondFollows
  <2>3. ASSUME TokenPlain PROVE Results'
    <3>1. Len(src) = Len(text) /\ here <= Len(text) + 1
      BY <1>9, <2>3 DEF TokenInv, SecondFollows
    <3>2. Len(r) = Len(text) /\ DOMAIN r = DOMAIN text
      BY <1>1, <1>2, <3>1
    <3>3. \A p \in DOMAIN text : Readable(p, r[p])
      BY <1>3, <1>9, <2>3, <3>2 DEF Right
    <3>4. \A p, c : Readable(p, c)' <=> Readable(p, c)
      BY <1>1 DEF Readable
    <3> QED BY <1>1, <2>1, <3>2, <3>3 DEF Results, Readable
  <2> QED BY <1>4, <1>5, <1>6, <1>7, <2>2, <2>3 DEF TokenInv
<1> QED BY <1>1, <1>8, <1>9

LEMMA TokenizeKeeps == ASSUME TokenInv, Tokenize PROVE TokenInv'
<1>1. /\ pass = "tokens" /\ pass' = "done"
      /\ found' = {<<p, LineOf(src, p)>> : p \in {q \in DOMAIN src : src[q] = Call}}
      /\ text' = text /\ src' = src /\ here' = here /\ mode' = mode /\ r' = r
  BY DEF Tokenize
<1>2. TokenTyped' /\ Writing' /\ FirstFollows' /\ SecondFollows' /\ (TokenPlain' <=> TokenPlain)
  BY <1>1 DEF TokenInv, TokenTyped, Writing, FirstFollows, SecondFollows, TokenPlain
<1>3. ASSUME TokenPlain PROVE found' = Real(text)
  <2>1. text \in Seq(Char) /\ src \in Seq(Char) /\ Len(src) = Len(text) /\ \A p \in DOMAIN text : Readable(p, src[p])
    BY <1>1, <1>3 DEF TokenInv, TokenTyped, Results
  <2>2. DOMAIN src = DOMAIN text /\ DOMAIN text = 1 .. Len(text) /\ Len(text) \in Nat
    BY <2>1
  <2>3. {q \in DOMAIN src : src[q] = Call} = CallsIn(text, {"code"})
    BY <2>1, <2>2 DEF CallsIn, Readable
  <2>4. ASSUME NEW p \in CallsIn(text, {"code"}) PROVE LineOf(src, p) = LineOf(text, p)
    <3>1. \A k \in 1 .. (p - 1) : k \in DOMAIN text
      BY <2>2 DEF CallsIn
    <3>2. {k \in 1 .. (p - 1) : src[k] = Newline} = {k \in 1 .. (p - 1) : text[k] = Newline}
      BY <2>1, <3>1 DEF Readable
    <3> QED BY <3>2 DEF LineOf
  <2> DEFINE E == CallsIn(text, {"code"})
  <2>5. {q \in DOMAIN src : src[q] = Call} = E /\ \A p \in E : LineOf(src, p) = LineOf(text, p)
    BY <2>3, <2>4
  <2>6. Real(text) = {<<p, LineOf(text, p)>> : p \in E}
    BY DEF Real
  <2> HIDE DEF E
  <2> QED BY <1>1, <2>5, <2>6
<1>4. TokenPlain => Results'
  BY <1>1, <1>3 DEF Results
<1> QED BY <1>2, <1>4 DEF TokenInv

LEMMA TokenGoesOn == TokenInv /\ [TokenNext]_stripping => TokenInv'
<1> SUFFICES ASSUME TokenInv, [TokenNext]_stripping PROVE TokenInv'
  OBVIOUS
<1>1. ASSUME UNCHANGED stripping PROVE TokenInv'
  <2>1. /\ text' = text /\ pass' = pass /\ src' = src /\ here' = here /\ mode' = mode /\ r' = r
        /\ found' = found
    BY <1>1 DEF stripping
  <2>2. TokenTyped' /\ (TokenPlain' <=> TokenPlain)
    BY <2>1 DEF TokenInv, TokenTyped, TokenPlain
  <2>3. Writing' <=> Writing
    BY <2>1, <2>2 DEF Writing, Right, Cleaned, Opener, Readable
  <2>4. (FirstFollows' <=> FirstFollows) /\ (SecondFollows' <=> SecondFollows) /\ (Results' <=> Results)
    BY <2>1 DEF FirstFollows, FirstAt, SecondFollows, SecondAt, Results, Cleaned, Opener, Readable
  <2> QED BY <2>2, <2>3, <2>4 DEF TokenInv
<1>2. CASE StripComments
  BY <1>2, OutsideCommentKeeps, InLineCommentKeeps, InBlockCommentKeeps DEF StripComments
<1>3. CASE StripStrings
  BY <1>3, OutsideLiteralKeeps, InStringKeeps, InCharKeeps DEF StripStrings
<1>4. CASE TokenAnalysed
  BY <1>1, <1>4 DEF TokenAnalysed
<1> QED BY <1>1, <1>2, <1>3, <1>4, EndPassKeeps, TokenizeKeeps DEF TokenNext

\* On every text: strip_comments and strip_strings write one character for each
\* they read, and strip_comments leaves every newline where it was.
THEOREM PlacesAreAlwaysKept == TokenSpec => []PlacesKept
<1>1. ASSUME TokenInv PROVE PlacesKept
  <2>1. pass \in {"comments", "strings"} => Len(r) = here - 1
    BY <1>1 DEF TokenInv, TokenTyped
  <2>2. pass = "comments" => \A p \in DOMAIN r : (r[p] = Newline) = (text[p] = Newline)
    BY <1>1 DEF TokenInv, Writing, Right
  <2> QED BY <2>1, <2>2 DEF PlacesKept
<1>2. TokenInv => PlacesKept
  BY <1>1
<1> QED BY <1>2, TokenStarts, TokenGoesOn, PTL DEF TokenSpec

\* On every text whose literals hold neither a comment opener nor a newline the
\* two passes of TokenAnalyzer come to the calls of the code, with their lines.
THEOREM PlainTextIsReadRight == TokenSpec => []ExactOnPlainText
<1>1. TokenInv => ExactOnPlainText
  BY DEF TokenInv, Results, TokenPlain, ExactOnPlainText
<1> QED BY <1>1, TokenStarts, TokenGoesOn, PTL DEF TokenSpec
=============================================================================
