----------------------------- MODULE MCPipeline -----------------------------
(***************************************************************************)
(* Command lines of up to three options after -s, over two source files;   *)
(* both outputs may be given the same path, and a flag may be swallowed as *)
(* the value of another one.                                               *)
(***************************************************************************)
EXTENDS Pipeline

MCPath == {"p", "q", "db", "report.json", "cbom.json"}

Option == {<<"-m", "ast">>, <<"-m", "p">>, <<"-c", "p">>, <<"-o", "q">>, <<"--cbom-output", "q">>,
           <<"--extra-db", "p">>, <<"--ground-truth", "p">>, <<"--cbom-only">>, <<"--skip-cert">>,
           <<"--metrics">>, <<"-h">>, <<"-o">>}

MCInputs ==
  {<<>>, <<"p">>} \cup
  {<<"-s", "p">> \o FlattenSeq(os) : os \in UNION {[1 .. n -> Option] : n \in 0 .. 3}} \cup
  {<<"-m", "ast">> \o <<"-s", "p">>, <<"--metrics", "-s">>, <<"--metrics", "-s", "p">>,
   <<"-s", "p", "-I", "q">>}
=============================================================================
