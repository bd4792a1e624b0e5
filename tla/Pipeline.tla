------------------------------ MODULE Pipeline ------------------------------
(***************************************************************************)
(* One run of the tool, as main orders it: parse the command line, load    *)
(* the databases, scan, analyse every source file, read certificates,      *)
(* assess, compare with the ground truth and write the two files.  Any     *)
(* stage may throw; main turns invalid_argument into exit code 2 and every *)
(* other exception into 1.                                                 *)
(***************************************************************************)
EXTENDS Integers, Sequences, SequencesExt

CONSTANTS
  Path,         \* the paths a command line may name
  None,         \* an option not given: the empty string
  Inputs,       \* the command lines considered
  DefaultDb, DefaultOutput, DefaultCbom,
  Sources       \* the source files the scan finds

ListFlags == {"--extra-db", "-I"}
ValueFlags == {"-s", "-c", "-d", "-o", "--cbom-output", "-m", "--ground-truth"} \cup ListFlags
Switches == {"--cbom-only", "--skip-cert", "--metrics", "-v"}
Modes == {"ast", "regex"}
Word == Path \cup ValueFlags \cup Switches \cup Modes \cup {"-h", "?"}

\* What clang_parseTranslationUnit makes of a file: a complete tree, one with
\* holes (it is told to keep going when a header is missing), or none.
Trees == {"whole", "holes", "none"}

ASSUME PipelineConstants ==
  /\ {DefaultDb, DefaultOutput, DefaultCbom} \subseteq Path /\ None \notin Word
  /\ Inputs \subseteq Seq(Word)

VARIABLES
  argv,        \* the arguments not yet parsed
  cfg,         \* AppConfig
  stage,       \* what main does next; "end" after an exit
  toLoad,      \* databases still to load
  toAnalyse,   \* source files still to analyse
  has_libclang,\* whether the tool was built with libclang
  tree,        \* what libclang makes of each file
  byTree,      \* files whose findings come from their tree
  byTokens,    \* files that TokenAnalyzer was given
  byRegex,     \* files that RegexAnalyzer was given
  done,        \* optional stages that were carried out
  disk,        \* the contents of the paths a file is written to
  exit         \* the exit code, or Running

vars == <<argv, cfg, stage, toLoad, toAnalyse, has_libclang, tree, byTree, byTokens,
          byRegex, done, disk, exit>>
analysis == <<has_libclang, tree, byTree, byTokens, byRegex>>

Running == -1

DefaultCfg ==
  [s |-> None, c |-> None, d |-> DefaultDb, o |-> DefaultOutput, cbom |-> DefaultCbom,
   m |-> "regex", extra |-> <<>>, include |-> <<>>, gt |-> None, switches |-> {}]

FieldOf(flag) ==
  CASE flag = "-s" -> "s" [] flag = "-c" -> "c" [] flag = "-d" -> "d" [] flag = "-o" -> "o"
    [] flag = "--cbom-output" -> "cbom" [] flag = "-m" -> "m" [] flag = "--ground-truth" -> "gt"
    [] flag = "--extra-db" -> "extra" [] flag = "-I" -> "include"

Init ==
  /\ argv \in Inputs
  /\ cfg = DefaultCfg
  /\ stage = "parse"
  /\ toLoad = <<>>
  /\ toAnalyse = Sources
  /\ has_libclang \in BOOLEAN
  /\ tree \in [Sources -> Trees]
  /\ byTree = {} /\ byTokens = {} /\ byRegex = {}
  /\ done = {}
  /\ disk = [p \in Word |-> "old"]
  /\ exit = Running

Leave(code) == stage' = "end" /\ exit' = code

(***************************************************************************)
(* AppConfig::parse.  A flag with a value takes whatever word follows it,  *)
(* another flag too.                                                       *)
(***************************************************************************)
TakeSwitch ==
  /\ stage = "parse" /\ argv # <<>> /\ Head(argv) \in Switches
  /\ cfg' = [cfg EXCEPT !.switches = @ \cup {Head(argv)}]
  /\ argv' = Tail(argv)
  /\ UNCHANGED <<stage, toLoad, toAnalyse, analysis, done, disk, exit>>

TakeValue ==
  /\ stage = "parse" /\ Len(argv) >= 2 /\ Head(argv) \in ValueFlags
  /\ Head(argv) = "-m" => argv[2] \in Modes
  /\ cfg' = [cfg EXCEPT ![FieldOf(Head(argv))] =
                IF Head(argv) \in ListFlags THEN Append(@, argv[2]) ELSE argv[2]]
  /\ argv' = Tail(Tail(argv))
  /\ UNCHANGED <<stage, toLoad, toAnalyse, analysis, done, disk, exit>>

\* Help, an unknown argument or mode, and a flag without its value.
Reject ==
  /\ stage = "parse" /\ argv # <<>>
  /\ \/ Head(argv) \notin ValueFlags \cup Switches
     \/ Head(argv) \in ValueFlags /\ Len(argv) = 1
     \/ Head(argv) = "-m" /\ Len(argv) >= 2 /\ argv[2] \notin Modes
  /\ Leave(2)
  /\ UNCHANGED <<argv, cfg, toLoad, toAnalyse, analysis, done, disk>>

Complete == cfg.s # None /\ ("--metrics" \in cfg.switches => cfg.gt # None)

EndOfArguments ==
  /\ stage = "parse" /\ argv = <<>>
  /\ IF Complete THEN stage' = "load" /\ UNCHANGED exit /\ toLoad' = <<cfg.d>> \o cfg.extra
     ELSE Leave(2) /\ UNCHANGED toLoad
  /\ UNCHANGED <<argv, cfg, toAnalyse, analysis, done, disk>>

(***************************************************************************)
(* The stages that read.                                                   *)
(***************************************************************************)
LoadDatabase ==
  /\ stage = "load" /\ toLoad # <<>>
  /\ toLoad' = Tail(toLoad)
  /\ UNCHANGED <<argv, cfg, stage, toAnalyse, analysis, done, disk, exit>>

Scan ==
  /\ stage = "load" /\ toLoad = <<>>
  /\ stage' = "analyse"
  /\ UNCHANGED <<argv, cfg, toLoad, toAnalyse, analysis, done, disk, exit>>

\* A database that cannot be read or merged, a source path that does not
\* exist, a directory whose iteration fails, a ground truth that cannot be
\* read: the stage throws.
StageThrows ==
  /\ \/ stage = "load"
     \/ stage = "certificates" /\ cfg.c # None /\ "--skip-cert" \notin cfg.switches
     \/ stage = "metrics" /\ "--metrics" \in cfg.switches
  /\ Leave(1)
  /\ UNCHANGED <<argv, cfg, toLoad, toAnalyse, analysis, done, disk>>

\* A file without a tree stays on the list, to be tried again.
BugRetryFile(f) ==
  /\ stage = "analyse" /\ f \in toAnalyse
  /\ toAnalyse' = toAnalyse \ {g \in {f} : tree[g] # "none"}
  /\ UNCHANGED <<argv, cfg, stage, toLoad, analysis, done, disk, exit>>

\* A file without a tree ends the run as if it were complete.
BugAnalyseFile(f) ==
  /\ stage = "analyse" /\ f \in toAnalyse
  /\ IF tree[f] = "none" THEN Leave(0) ELSE UNCHANGED <<stage, exit>>
  /\ toAnalyse' = toAnalyse \ {f}
  /\ UNCHANGED <<argv, cfg, toLoad, analysis, done, disk>>

\* RegexAnalyzer reads every file.  ASTAnalyzer::analyze_file asks libclang
\* for the tree, and when there is none the file has no findings; a build
\* without libclang gives every file to TokenAnalyzer.
AnalyseFile(f) ==
  /\ stage = "analyse" /\ f \in toAnalyse
  /\ toAnalyse' = toAnalyse \ {f}
  /\ \/ /\ cfg.m = "regex"
        /\ byRegex' = byRegex \cup {f} /\ UNCHANGED <<byTokens, byTree>>
     \/ /\ cfg.m = "ast" /\ ~has_libclang
        /\ byTokens' = byTokens \cup {f} /\ UNCHANGED <<byRegex, byTree>>
     \/ /\ cfg.m = "ast" /\ has_libclang
        /\ byTree' = byTree \cup ({f} \cap {g \in Sources : tree[g] # "none"})
        /\ UNCHANGED <<byRegex, byTokens>>
  /\ UNCHANGED <<argv, cfg, stage, toLoad, has_libclang, tree, done, disk, exit>>

AllAnalysed ==
  /\ stage = "analyse" /\ toAnalyse = {}
  /\ stage' = "certificates"
  /\ UNCHANGED <<argv, cfg, toLoad, toAnalyse, analysis, done, disk, exit>>

Certificates ==
  /\ stage = "certificates"
  /\ done' = IF cfg.c # None /\ "--skip-cert" \notin cfg.switches
             THEN done \cup {"certificates"} ELSE done
  /\ stage' = "assess"
  /\ UNCHANGED <<argv, cfg, toLoad, toAnalyse, analysis, disk, exit>>

\* The ground truth is left for later.
BugAssess ==
  /\ stage = "assess"
  /\ done' = done \cup {"assess"}
  /\ stage' = "cbom"
  /\ UNCHANGED <<argv, cfg, toLoad, toAnalyse, analysis, disk, exit>>

Assess ==
  /\ stage = "assess"
  /\ done' = done \cup {"assess"}
  /\ stage' = "metrics"
  /\ UNCHANGED <<argv, cfg, toLoad, toAnalyse, analysis, disk, exit>>

Metrics ==
  /\ stage = "metrics"
  /\ done' = IF "--metrics" \in cfg.switches THEN done \cup {"metrics"} ELSE done
  /\ stage' = "cbom"
  /\ UNCHANGED <<argv, cfg, toLoad, toAnalyse, analysis, disk, exit>>

(***************************************************************************)
(* ReportGenerator::generate and write_json.                               *)
(***************************************************************************)
\* write_json: the file is opened, and so emptied, before dump serialises the
\* document, and dump throws when a text in it is not UTF-8.
Written(path, document) ==
  \E c \in {document, "cut"} : disk' = [disk EXCEPT ![path] = c]

NotWritten(path) ==
  /\ disk' \in {disk, [disk EXCEPT ![path] = "empty"]}
  /\ Leave(1)

WriteCbom ==
  /\ stage = "cbom"
  /\ \/ /\ Written(cfg.cbom, "cbom")
        /\ IF "--cbom-only" \in cfg.switches THEN Leave(0) ELSE stage' = "report" /\ UNCHANGED exit
     \/ NotWritten(cfg.cbom)
  /\ UNCHANGED <<argv, cfg, toLoad, toAnalyse, analysis, done>>

WriteReport ==
  /\ stage = "report"
  /\ \/ Written(cfg.o, "report") /\ Leave(0)
     \/ NotWritten(cfg.o)
  /\ UNCHANGED <<argv, cfg, toLoad, toAnalyse, analysis, done>>

Ended == stage = "end" /\ UNCHANGED vars

Next ==
  \/ TakeSwitch \/ TakeValue \/ Reject \/ EndOfArguments
  \/ LoadDatabase \/ Scan \/ StageThrows
  \/ \E f \in Sources : AnalyseFile(f)
  \/ AllAnalysed \/ Certificates \/ Assess \/ Metrics \/ WriteCbom \/ WriteReport \/ Ended

Spec == Init /\ [][Next]_vars

\* One thread that nothing blocks: as long as a step remains, it is taken.
FairSpec == Spec /\ WF_vars(Next)

(***************************************************************************)
(* Properties.                                                             *)
(***************************************************************************)
Touched == {p \in Word : disk[p] # "old"}

\* A script that calls the tool can rely on the exit code (main, generate):
\* after 2 nothing was done, after 1 there is no new report, after 0 every
\* file has been analysed and every output asked for was written; no other file is
\* ever touched, and a new report never stands beside an old inventory, unless
\* the user gave both the same path.
ExitTellsOutput ==
  /\ Touched \subseteq {cfg.cbom, cfg.o}
  /\ exit = 2 => Touched = {} /\ done = {}
  /\ exit = 1 => disk[cfg.o] # "report"
  /\ exit = 0 => /\ toAnalyse = {} /\ "assess" \in done
                 /\ disk[cfg.cbom] \in {"cbom", "report", "cut"}
                 /\ "--cbom-only" \in cfg.switches \/ disk[cfg.o] \in {"report", "cut"}
  /\ disk[cfg.o] = "report" /\ cfg.o # cfg.cbom => disk[cfg.cbom] \in {"cbom", "cut"}

\* The files of an earlier run survive whatever fails before the output
\* stage: main writes only when all it computes has been computed.
FilesWrittenLast ==
  [][disk' # disk =>
       /\ toAnalyse = {} /\ "assess" \in done
       /\ "--metrics" \in cfg.switches => "metrics" \in done
       /\ cfg.c # None /\ "--skip-cert" \notin cfg.switches => "certificates" \in done]_vars

\* Every command line and every failure leads to an exit code.
RunEnds == <>(exit # Running)
=============================================================================
