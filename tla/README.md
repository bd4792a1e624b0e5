# PQC Migration Tool: TLA+ models, checks and proofs

This directory is a verification project for the C++ program in this
repository: a command line tool that scans a source tree for calls of
cryptography that a quantum computer breaks, ranks them, and writes a CBOM and
a migration report; and the two client and server programs it is demonstrated on. Every definition
is translated from the source; the thesis
(`docs/text/ВКР.tex`), `ARCHITECTURE.md` and `README.md` are quoted only where
the program differs from them.

Paths below are relative to the root of the repository (`src/x.cpp`).

## 1. Inventory

The tool is one process with one thread. `main` calls the components in a fixed
order and hands values from one to the next; nothing is shared, there are no
callbacks except libclang's visitors, and the only things that outlive a run
are the two files it writes.

| component | state | operations | talks to |
|---|---|---|---|
| `AppConfig` (`src/config.cpp`) | the configuration being filled | `parse` | `main` |
| `main` (`src/main.cpp`) | configuration, inventory, findings, certificates, risk report, metrics | six stages, two handlers of exceptions | all |
| `VulnDatabase` (`src/vuln_database.cpp`) | `functions_`, `name_index_`, version | `load`, `merge_json`, `rebuild_index`, `find_by_name` | analysers, risk assessor |
| `ProjectScanner` (`src/project_scanner.cpp`) | list of plugins | `scan`, `should_skip`, `matches`, `categorize` | file system, analysers |
| `RegexAnalyzer` (`src/regex_analyzer.cpp`) | compiled patterns | `analyze_file`: block comment flag, pairs already seen | database |
| `TokenAnalyzer` (`src/token_analyzer.cpp`) | none | `strip_comments`, `strip_strings`, `tokenize`, `extract_findings` | database |
| `ASTAnalyzer` (`src/ast_analyzer.cpp`) | per unit: summaries, reached set, class fields, method effects, `visited`, `seen`, findings | pre-collection, fields, method effects, reachability, walk of call contexts, removal of duplicates | libclang, database |
| `CertAnalyzer` (`src/cert_analyzer.cpp`) | none | `analyze`, `analyze_file` (PEM, then DER), `assess_algorithm`, `compute_cert_risk` | OpenSSL, file system |
| `RiskAssessor` (`src/risk_assessor.cpp`) | the report being filled | `assess`: score, sort, count, summarise, overall score, verdict | database, inventory |
| `MetricsCalculator` (`src/metrics.cpp`) | matched findings, counters | `compute`, `load_from_json` | `main` |
| `ReportGenerator`, CBOM (`src/report_generator.cpp`, `src/cbom.cpp`) | none | `generate`, `write_json`, `build_cbom`, `build_full_report` | file system |

Besides the tool the repository holds two programs it is demonstrated on. They
are real programs, with threads, sockets, files and locks:

| component | state | operations | talks to |
|---|---|---|---|
| `Logger` (`src/example-project/src/common/logger.cpp`) | `chain_tip`, `audit_seq`, the stream; on disk the journal | `set_log_file`, `log`, `audit`, `verify_audit_chain` | everything, the disk |
| `KeyVault` over `EncryptedStorage` (`.../storage`) | `entries`, `master_key`; on disk one sealed file | `create`, `store_key`, `load_key`, `revoke_key`, `generate_gost_keypair`, `export_public_key`, `change_password` | `Logger`, the disk |
| `SessionManager` (`.../auth/session_manager.cpp`) | `sessions` under a mutex, two keys | `create_session`, `issue_token`, `verify_token`, `invalidate`, `cleanup_expired` | callers in threads |
| `CrlManager`, `CrlCache` (`.../pki/crl_manager.cpp`) | the list, its index; the cache of managers | `load_from_file`, `load_from_pem`, `load_from_der`, `is_revoked`, `is_expired`, `get_crl` | OpenSSL |
| `DocumentSigner`, `DocumentVerifier` (`.../document`) | none; the signed bytes | `sign`, `co_sign`, `counter_sign`, `verify`, `verify_all` | OpenSSL |
| server (`server_main.cpp`, `network/tls_server.cpp`) | a detached thread per connection with `authenticated` and `challenge`; the process's random generator and its mutex | `start`, `handle_client` | clients, `Authenticator`, `DocumentSigner` |
| client (`client_main.cpp`, `network/tls_client.cpp`) | a connection with timeouts | `connect`, `run_tls` | server |
| `gost_project` (`src/gost_project/src`) | a process per client; in the server a detached thread per connection with its locals, and the signing keys | one handshake of four messages, helpers around OpenSSL's GOST engine | each other over a socket |

What is hard in the tool is not concurrency but order and bounds:

* *Order taken from hash tables.* The AST analyser iterates
  `unordered_map`s and `unordered_set`s while it queues, visits and reports;
  `std::sort` leaves ties in any order. Results should not depend on it.
* *Searches of a graph with cycles*, cut by a depth, by a set of visited
  contexts and by a set of reported sites, each with a key of its own.
* *Partial failure.* Every stage may throw. Two files are written one after
  the other, each truncated before it is filled.
* *Text passes with a carried mode* (in a comment, in a literal), applied one
  after the other or line by line.
* *A stale index*: database documents are merged against an index that is
  rebuilt afterwards.
* *Boundaries*: scores on the bounds of the bands, the cap at 10, the
  tolerance of the metrics, the first ten actions.

In the two demonstrated programs it is what one expects of servers: threads that
share a process, a mutex and its files; peers that leave, `SIGPIPE`, exceptions
that leave a detached thread; files cut by a crash between truncation and writing;
a check made before the mutex is taken; reads below the TLS layer that race with
session tickets and timeouts; no timeout at all.

What makes each component correct:

* reachability: the reached set is the least set that holds the roots and is
  closed under calls, whatever the order;
* walk: every call site of every function is reported, reached functions first,
  with real arguments, and the walk ends;
* risk: the plan is a sorted permutation of the findings, and counters,
  summaries and verdict agree with it;
* database: the index is true and later definitions override earlier ones;
* metrics: a partition of both lists, and a matching that is not far from best;
* pipeline: the exit code tells what is on disk;
* text analysers: they see what a C++ lexer sees, at the same line;
* scanner and certificate analyser: what they list is what is there;
* journal: it verifies exactly when it is the beginning of one process's journal;
* vault: it opens whole or not at all, and what is revoked stays so;
* sessions: a token is worth what its session is worth at a moment of the call;
* revocation lists: the last readable one decides, and references stay valid;
* signed documents: the first signers' verdicts survive what is added later;
* servers: nobody is served on another's proof, and nobody waits for ever.

`PROJECT.json` lists every component, and every hazard at its line.

## 2. Modules

| module | models | composed with |
|---|---|---|
| `CallGraphReach` | abstract specification: one step decides which definitions are reached | |
| `Reachability` | `precollect_visitor`, `build_function_summary`, `compute_reachability` | implements `CallGraphReach` |
| `AnalyserProofs` | theorems about `Reachability` and `LocalValues` | |
| `Emission`, `EmissionProofs` | `drive_emission`, `walk_call_graph`, `walk_calls_in_function`, `emit_finding`, removal of duplicates, and theorems about them | starts from any reached set that is closed under calls, which is what `Reachability` ends with |
| `FieldReplay`, `FieldReplayProofs` | `collect_class_fields`, `collect_method_effects`, `initial_field_state`, `replay_method_effects` and the part of `walk_calls_in_function` that starts a replay, and theorems about them | what `Emission` takes for one field and one effect of a call |
| `LocalPrograms` | reference definition: what expressions and bodies are, and what functions do when they are run | |
| `LocalValues` | `populate_function_bodies`, `lookup_local`, `find_function_summary`, `resolve_expr` and what it calls | what `Emission` takes for the value of an argument in a context; with the next three in `MCToolData` |
| `RiskAssessor` | `RiskAssessor::assess` and all it calls | in `MCToolData` |
| `VulnDatabase` | `load`, `merge_json`, `rebuild_index`, `find_by_name` | in `MCToolData` |
| `Metrics` | `MetricsCalculator::compute` | in `MCToolData` |
| `ToolDataProofs` | theorems about `RiskAssessor`, `VulnDatabase` and `Metrics` | |
| `Pipeline` | `AppConfig::parse`, `main`, `generate`, `write_json`, the loop of `ASTAnalyzer::analyze` | |
| `PipelineProofs` | theorems about `Pipeline` and about the four parts that read the tool's input | |
| `Lexical` | reference definition: what is a comment, a literal and a call in C++ | |
| `TokenText` | `strip_comments`, `strip_strings`, `tokenize` | checked against `Lexical`, in `MCReading` |
| `RegexText` | the scan of `RegexAnalyzer::analyze_file` | checked against `Lexical`, in `MCReading` |
| `ProjectScanner` | `DefaultProjectScanner::scan`, `should_skip`, the plugins | in `MCReading` |
| `CertAnalyzer` | `analyze`, `analyze_file`, `fill_info`, the two ratings | in `MCReading` |
| `AuditLog` | `Logger::audit`, `verify_audit_chain`, the stream | in `Storage` |
| `KeyVault` | `KeyVault` and the sealed file | in `Storage` |
| `Storage` | the server's process around both: start, first key, crash, restart | in `Library` |
| `Sessions` | `SessionManager` | in `Library` |
| `Crl` | `CrlManager`, `CrlCache` | in `Library` |
| `Documents` | `DocumentSigner`, `DocumentVerifier` | in `Library` |
| `Library`, `LibraryProofs` | four parts of the sample project that share no state, one at work in each behaviour, and theorems about them | |
| `DocFlow`, `DocFlowProofs` | the accepting loop, `handle_client`, the generator's mutex, `run_tls`, other clients, and a theorem about them | |
| `GostSession`, `GostSessionProofs` | `gost_project`'s server and clients, and a theorem about them | |
| `MC...` | constants for the model checker | |

Definitions whose name starts with `Bug` are what a mutation of a definition
looks like. No specification uses them: each is put in the place of the
definition it follows, to see that a property notices.

### How state and actions correspond to the code

**Reachability.** `calls` and `linkage` are the translation unit, chosen freely
in `Init`: every way four definitions may call each other by name. `summaries`
is `VisitData::function_summaries`, keyed by `<<name, 0>>` or `<<name, line>>`
for `"name@line"`. `Register` is one call of `build_function_summary`;
`ExamineRoot` one pass of the loop over the map (in any order), `Visit` one pass
of the search loop with all its callees. The queue is a set: the code fills it
from a hash map, so its order is arbitrary anyway.

**Emission.** A function body is a sequence of call sites; a site has a line, a
callee, an argument (a literal, a parameter, a field, nothing) and an effect on
the field. `stack` is the recursion of `walk_call_graph`, one frame for each
call still to be followed, with the levels left in `depth`; `scan` is the pass of
`walk_calls_in_function` over one body; `visited`, `seen` and `findings` are the
code's own. `Value` is what `resolve_expr` makes of an argument in a context, down
to three outcomes the properties tell apart: a dangerous value, a harmless
one, a placeholder. `Emits` is the filter on arguments, `Reduced` the factor 0.3,
`Deduplicate` the last pass.

**FieldReplay.** A body is a sequence of items (assignment, copy of a field, the
three ways to call a method, a library call) in the order of the syntax tree; each
has a line and a turn, its place in execution. `class_fields` and `effects` are the
code's maps for one class; `MeetConstructor` is the handling of one constructor,
`CollectEffects` the visit of one method with its sort. In the walk of one method
`state` is `current_state`, `stack` the recursion of `replay_method_effects` with
`left` for `depth_left`, and `active` its set. `plain` says which overload has the
name without a line for its key. `Execution` is the reference: what a call makes of the
fields when calls nest at most so deep, `After` the fields after each turn. Bodies are straight lines, assignments are those
of built-in types (libclang shows an assignment of a `std::string` as a call).

**RiskAssessor.** Scores are integers, a fixed number of `Points` to one; the
multipliers are exact fractions, applied one after the other. A file is a test,
network, storage or busy file by constants. One action per loop body, `SortPlan`
chooses any descending arrangement because `std::sort` is not stable.

**VulnDatabase.** A document is a sequence of entries; one of them may be bad, and
`MergeStops` leaves the entries already merged with the old index. Nothing reads them
any more: `main` ends. A value of the wrong JSON type throws. A document without
`"libraries"`, or a library without `"functions"`, is undefined behaviour (`operator[]` of a
const object, `src/vuln_database.cpp:35`): with assertions it stops; without, as in a
Release build, what lies behind the map is read, which stops the program or passes
for an empty list. A bad entry is the first, an entry without a name the second.

**Metrics.** `Take` and `Miss` are the two ways the outer loop over the ground
truth may go, `Count` the counters at the end.

**Pipeline.** `args` is read word by word; each flag is an action of its own kind
(value, list, mode, switch, anything else). Each stage is one action, with
`StageThrows` at every stage that may throw. A file on disk is old,
truncated-and-partial, or new: `Written` and `NotWritten` are the outcomes of
`write_json`, which truncates before it serialises and does not test the stream.

**TokenText, RegexText.** A text is a short sequence of character classes: slash,
star, quote, apostrophe, backslash, line end, the opening of a vulnerable call,
blank. Each step of a pass consumes what the code's loop body consumes; `here` and
`reached` are the two loops' index `i`.

**ProjectScanner, CertAnalyzer.** `left` is what the directory iterator has not come
to: it takes entries in any order, a directory before its contents. An unreadable
directory is passed over, a failing increment throws, as in the code: only the
iterator's constructor gets an error code. A certificate file is a sequence of objects;
`Infos` is a set because a date that cannot be read leaves `is_expired` to the stack.

**AuditLog, KeyVault, Storage.** A hash is what it covers: the sequence of bodies since
genesis. A sealed blob is the key that opens it and its content. `op` is the
operation that holds the vault's mutex: first the two steps of `write_file`
(`Truncate`, `Save`), then one `AuditStep` for each event. `Crash` may come between any
two of them; the next `StartProcess` finds the two files as they are. `Torn` is a
line of which a part reached the disk, which the next process's line is glued to.
`LogInfo` is an ordinary line between two operations: the verification passes it over,
unless it lands on an audit line without its end (`Glued`), and its write may be the
one that fails the stream.

**Sessions.** `BeginVerify`, `CheckClock`, `LookUp` are the three moments of `verify_token`:
signature, clock, map under the mutex. Other threads, the cleanup, an invalidation and the
clock work in between. A token is its session and the signing key, so tokens of
earlier processes exist too. `was_live` and `ended` are history.

**Crl.** A serial number has two spellings. `LoadList`, `LoadFails`, `OpenFails` are the ways a
load may go; `handed` remembers the references `get_crl` returned. A cached manager has
no list (`CachedList`): nobody loads one into it, so it never expires.

**Documents.** A signed document is a sequence of headers, envelopes in text and CMS
structures; which of them a signer makes depends on its key and certificate (`Kinds`): both,
one of them, neither, or both and a `CMS_sign` that fails.
`order` and `covers` remember who really signed what.

**DocFlow.** One step of a thread is one message handled with its answer, which may be
lost, fail or raise `SIGPIPE` when the peer has closed (`SendOutcomes`). An exception in a
thread, and `SIGPIPE`, end the process, because nothing catches them.
`LockForVector` takes the generator's mutex; no step follows it, because the same
thread then waits for the same mutex (relocking a `std::mutex` is undefined; on the
platforms the build targets it blocks). The demo client's timeouts may fire whenever its
socket is empty. Whether the TLS library sends session tickets is a choice of each handshake. Both sides
insist on TLS 1.3, so a client is connected, and may write or leave, while the server's
thread is still in `SSL_accept` (`Connected`), and the demo's `SSL_connect` may
time out; a thread whose client has left fails its handshake or meets `SIGPIPE`. An
alert in the socket has the same effect on the demo as the end of the stream.

**LocalValues.** `Populate(f)` is one turn of the loop of `populate_function_bodies`: the
entries of `f`'s variables in the order of the tree, then the last `return`. Any function may
come next. `Walk` resolves the arguments of one body's library calls against what was
collected. An expression is a literal, a variable, a call, an implicit cast or parentheses (which
cost a level of depth), or anything else, which is shown as its source. `LookUp` is
`lookup_local`, `Inside` what the nested context of `resolve_call_expr` is bound to.
`resolve_expr` and `resolve_call_expr` call each other; the model has them as functions:
`Resolved(rc, limit, table)[depth][e]` is the text of an expression at a depth when calls of functions
of the unit become what `table` says, and `Inlined[left]` is that table when `left` more
functions may become active. With a new depth for each inlined call, as in the code, only the set of
active functions ends the recursion, so `Inlined[Cardinality(Function)]` is all of it. In
`LocalPrograms`, `Runs` and `Outcomes` say what the functions do when they are run, over both
outcomes of the condition of a branch; `calls` holds the values a call may return, and
`CallsFollowBodies` that none is missing.

**GostSession.** Each client is a process, each connection a thread. `EngineInit` to
`ReadServerAck` are the client's `main` in order, `ReadClientHello` to `CloseSocket` the thread's
`handleClient`; `thread[c]` holds its locals. `honours_ukm` is chosen per process: an
engine that does not take a UKM derives the key without it and only warns. A key
pair stands for its owner, a random value for the connection it was drawn for, a
session key for the two ends and the UKM. Throwing calls and killed processes
are bounded by `MaxFaults`. A thread's last message and its `close` are two steps
(`SendServerAck` or `SendError`, then `CloseSocket`): in between the client may have its answer
on a connection that is still open.

## 3. Runs

The tool's runs but `reading` check deadlock, with `Terminated` as a stutter at the
end of each run of the program. `reading` and `library` end when their inputs or
bounds are used up, and the two servers when all clients have left: `CHECK_DEADLOCK FALSE`
says so there.

| run | bounds | what it shows |
|---|---|---|
| `reach` | 4 definitions, 2 of them overloads, every set of callees of the list, 2 linkages | the search refines `CallGraphReach` and ends |
| `emission` | a list of programs of 3 functions, depth 6 | contexts, sites, risks and values of the walk, and that it ends |
| `field_replay` | classes of 4 methods and 2 fields with bodies from a list, 2 levels | fields start constructed, the replay is the execution, nothing is invented, it ends |
| `pipeline` | command lines from a list, 2 sources | exit code and files |
| `data` | up to 3 findings and 3 entries; up to 3 findings in 3 files, top 2, limits 1; up to 2 documents of up to 2 entries, 3 names; 3 functions with bodies from a list, 3 levels of resolution and 2 of inlining | metrics; the risk assessor; the merged database; arguments of library calls |
| `reading` | every text of up to 6 characters and a call; trees of up to 5 entries; 2 certificate files of up to 3 objects | both text analysers against the lexer; the inventory; the certificate report |
| `library` | 2 processes, 2 keys, 3 audited events each, 1 fault; 2 threads, 2 sessions, clock to 3; 4 loads, 2 serials; 2 signers, 3 parts | journal, vault, sessions, revocation, signatures |
| `docflow` | a demo client, 2 others with 2 requests, 1 fault | isolation of connections, the demo's end, answers |
| `gost` | 2 clients, 2 faults | agreement, every client's end, what happens undisturbed |

`data`, `reading` and `library` each hold parts that share no state: the first choice of a
behaviour says which of them works, the others stand still. Their properties are still
those of the single parts.

Why the bounds are enough. Reachability needs a cycle, an overload pair, a unique
and an ambiguous simple name and a root that is not `main`: four definitions hold
all of them at once. The walk needs a function with two callers, one with two
contexts, a recursion and an unreached caller: three functions. The depth 6 is
above the longest simple chain, so the cut by depth is seen as well as the cut by
`visited`; the real limit 8 is checked on one chain by `emission_chain`. In
the replay a chain of three methods below the walked one is longer than two levels,
and the lists hold recursion over one, two and three methods, an overload, and an
assignment and a call on one line. For the
local values three functions give every order of population, a call nested in a call, and two
functions that call each other; the bodies have a write above, on and below the line of a call,
in either branch and behind a return; each condition of `Traceable` has a body in the list that
needs it, the one about globals excepted, which keeps to what `Runs` can say. In the
risk model `TopN`, `HighLimit` and `MediumLimit` are scaled down from 10, 3 and 5, so
that three findings are on both sides of each. The texts are long enough for an
opener, a closer, an escape, a line end and a call in any order. The
library's bounds let a process crash in every step of every operation and the next one
work on what it left, let two calls of `verify_token` overlap with an invalidation and a
cleanup, and let a failed load follow and precede good ones. Two clients are what
it takes for one connection to disturb another; with the demo client three are at work. The
others do not ask `HELLO` and `HASH_REQUEST`, which read and change nothing of their connection;
the demo client sends the former.

**Fairness.** In the tool's runs it is weak fairness of the whole next-state relation
(`FairSpec`): the program has one thread, which keeps running. No action has
fairness of its own; which order a hash table gives is never assumed fair. In `DocFlow`
and `GostSession` each thread and each client process has weak fairness: the operating
system schedules them all, and a timeout that is due fires. Nothing is assumed of
faults, of another client's wish to ask or to leave, or of a thread that waits
for a mutex it holds. `library` states no liveness.

### Runs that find a difference

| run | the code | the document |
|---|---|---|
| `emission_chain` | a context first met on the last level is never walked again | the walk is bounded by `kMaxCallGraphDepth` (thesis, line 1407) |
| `storage_rekey` | a change of the password leaves keys wrapped under two master keys | "change of the master password with re-encryption of the vault" (`key_vault.hpp:58`) |
| `docflow_challenge` | the generator waits for its own mutex: no challenge is ever sent | "thread-safe" singleton (`gost_prng.hpp:61`), `AUTH_CHALLENGE` (`message_protocol.hpp:24`) |

All three are faults of the code. Each is an entry of `PROJECT.json` with the lines of both.

### Differences met while modelling, without a run

Of the tool:

* The test `overall_priority < HIGH` (`src/risk_assessor.cpp:212`) compares enumerators of which
  `CRITICAL` is the smallest: a file's summary priority never becomes `HIGH`, although
  it is to show the most problematic files (thesis, line 1569).
* A field the walked method has set itself is reported with its old value
  (`src/ast_analyzer.cpp:1757`), while the same assignment in a called method is seen; the
  thesis has it the other way round (line 2388) and promises the exact sequence
  (line 1324). `FieldsFollowExecution` excepts these fields by name.
* Assignments are not told apart by branch (`src/ast_analyzer.cpp:831`): below
  `if (c) alg = "A"; else alg = "B";` a call is reported with `"B"` only, also one that stands in
  another `if (c)`. The thesis (line 1287) has the value that was current before the line of the
  call; an assignment further on in the same line is taken too. A parameter assigned in a
  called function keeps the caller's value (1168), `++x`, `f(&x)` and what a
  lambda assigns are not seen, and an overload is taken for the first of its name (859).
  `Traceable` names these cases.
* Whether a variable that is given a call holds the callee's value or the text of the call
  depends on the order of a hash table (`src/ast_analyzer.cpp:2410`); never a wrong value, as
  `ArgumentsFollowExecution` shows.
* `kMaxInlineExpansionDepth` bounds no inlining: each inlined call starts with the full depth again
  (`src/ast_analyzer.cpp:1173`), and only the set of active functions ends it. The thesis
  (line 1407) has the depth of the substitution of functions bounded by a constant.
* The certificate analyser finds "dsa" anywhere in an algorithm's name
  (`src/cert_analyzer.cpp:60`): ML-DSA and SLH-DSA, which its own text recommends (lines 174-175),
  are rated high.
* An unreadable root directory gives an empty inventory and no error
  (`src/project_scanner.cpp:238`), while a failing increment further down throws.
* `merge_json` looks names up in an index that is older than the document
  (`src/vuln_database.cpp:92`). With an entry B that has the alias A, a further document that
  defines A and then B writes both to the same place and loses A; FR-11 (thesis, line 628)
  wants signatures to be added. `NamesFindTheLast` says what holds.
* A file libclang cannot parse has no findings (`src/ast_analyzer.cpp:183`); `ARCHITECTURE.md:147`
  has a graceful fallback to the token analyser.
* An in-class initialiser is kept when there are several constructors
  (`src/ast_analyzer.cpp:2016`), even if all of them override it; `InitialIsConstructed`, a part of `FieldsFollowExecution`, excepts
  that case. A member initialiser of a constructor defined outside its class is not seen.
* A call on another object of the same class is replayed into this one's fields
  (`src/ast_analyzer.cpp:1757`), `this->m()` inside a called method is not followed (2237), and a
  copy of a field is what construction left in it (2153). `Followable` names these cases.
* The thesis says both that values in fields set by another method are found (line 1302)
  and that they are not (line 2391); the code does find them.
* Overloads that start on one line share the key `name@line`
  (`src/ast_analyzer.cpp:2386`) and the later summary replaces the earlier; the thesis
  (line 1246) gives every function a summary of its own. `LinesDistinct` is the
  condition under which it does, and the theorems name it.
* A static member function is no root (`src/ast_analyzer.cpp:2368`, the storage class
  says static), although it has external linkage (thesis, line 1328).
* Which argument value is reported for a site, and which contexts fit under the
  depth, depends on the order of a hash table (`src/ast_analyzer.cpp:2488`); NFR-05
  (thesis, line 670) wants the report reproducible. `Emission` takes every order.
* The factor for test code is 0.7 (`src/risk_assessor.cpp:93`), not the 0.40 of
  `ARCHITECTURE.md:173`; with the cap at 10 a finding in test code may have the priority of
  the same finding in network code, which FR-02 (thesis, line 604) excludes.
* `--cbom-only` does not skip the risk analysis (`src/main.cpp:74`), only the report
  (`README.md:114`).
* Comments are stripped before literals (`src/token_analyzer.cpp:271`): an opener inside a
  string literal misleads both passes. `ExactOnPlainText` excludes such texts by name.
* The thesis (line 1209) says that the regex analyser may report calls inside block
  comments; `OnlyLiteralsMislead` shows that it does not, unless a literal hides an
  opener.

Of the sample project and the GOST demonstration:

* Every process starts its chain of hashes from genesis but appends to the old journal
  (`src/example-project/src/common/logger.cpp:54`): after a restart the journal does not verify.
  `VerdictIsExact` says when it does.
* A response shorter than a signature is answered `AUTH_FAIL` but leaves `authenticated` as
  it was (`src/example-project/src/server_main.cpp:146`).
* The demo client reads the socket itself, below TLS, so session tickets reach it as messages
  without the magic.
* `verify_all` lists the first two of three signatures, a "list of all signatures" by its header
  (`src/example-project/include/document/document_verifier.hpp`); a CMS structure
  made with `CMS_NOCERTS` is accepted by no verifier.
* A list that cannot be read leaves a `CrlManager` without list and with the old index
  (`src/example-project/src/pki/crl_manager.cpp:71`): it is never expired and still answers.
* `src/gost_project/src/gost_utils.cpp` does not compile as committed: `generateVKOKeyPair` declares two
  names twice (404-413), and lines 582-641 define `generateKeyPair` anew. `GostSession` models the
  definitions the headers declare.

## 4. Proofs

`AnalyserProofs`, of the search (for every set of definitions, every naming, every call graph):

* `TypeCorrect`, `WorkCorrect`, `SearchForgetsNothing`: the type invariant; `WorkInv`,
  which says that during the loop over roots a key not examined is still in the
  work set; and `SearchInvariant`. `SearchInvariant` alone is not inductive: the
  first step of the search needs to know that all roots have been examined.
* `NoSummaryIsReplaced`: under `LinesDistinct` (definitions of one qualified name
  start on different lines) every definition met keeps a key. Without it the
  later of two definitions on one line replaces the earlier one.
* `ReachedIsForced`: every set that holds the roots and is closed under calls
  holds what was reached. With `SearchForgetsNothing` this is the least closed set.
* `Refinement`: under `LinesDistinct`, `Spec => Abstract!Spec`. The mapping takes the
  unit's own call graph for the edges, `pc = "done"` for the decision. The proof
  shows that keys and definitions correspond one to one once all definitions have been met, so that resolving a name in the map and in the source agree.

`AnalyserProofs`, of the values of local variables (for every translation unit, with branches, early
returns, calls nested in arguments and in what is returned, and recursion; every order of
population; all limits of depth; everything a caller may pass):

* `ValuesInvariance`: the inductive invariant `ValuesInv`. `Populated` ties the entries of each
  variable to the items of the body (`IsHistory`): one entry for each item that is noticed, in
  their order, with the item's line, and `IsEntry` for its text: in a traceable program an entry with a
  value is one the variable may have behind its item, whenever the body is entered and whichever way the
  condition goes, provided the item is reached; in a body of literals and variables it is a
  value. An entry is written while callees may be populated or not, so nothing
  can be said of which text it is, only of what it means, which is what makes the order irrelevant.
* `ArgumentsAlwaysFollowExecution`: `ArgumentsFollowExecution`. The argument has three parts.
  `ExprIsReal` goes up the expression: if the values of the variables it reads are held
  by some run that arrives (`Shown`), so is the value it is rendered as, since each argument of a
  nested call may be passed whatever the others are (`AnyIsPassed`). `InlinedIsFaithful` goes up
  the levels of inlining: what the table says of a call is what the call may return (`Faithful`),
  because a returned expression reads parameters as they were passed and variables as written
  above the return. `EntryArrives`, `BoundArrives` and `GlobalArrives` go along the body: from the last
  entry above a use to the use nothing writes the variable, and the conditions of `Traceable` give a
  path through both (`RunsGoOn`).

`ToolDataProofs` (for every pair of lists and every tolerance; every sequence of documents; every
list of findings and certificates):

* `MetricsTyped`, `CountsAreAPartition`, `OrderOfTheFileDecides`, and
  `GreedyIsHalfOptimal`: twice the number of matched entries is at least the size of any
  matching. The inductive invariant adds to the type invariant that matched
  findings are candidates of their entry and are used once (`Held`), and that an
  entry that was passed over left no free candidate (`AllChose`). The bound follows
  from it without induction: each pair of another matching shares its entry or its
  finding with a pair of the greedy one.
* `NamesAreFound`: `NamesFindTheLast` speaks of moments between documents, when the index is that of
  the entries. While a document is merged the index is an old one; `NewestIsLast` says what still
  holds of it: under private aliases (`PrivateSoFar`, of the entries passed so far, also of those
  replaced since) it points at the last entry of each name it has, so the entry
  that is replaced is the right one, and a name it does not have goes to the end.
* `AssessmentIsSoundAlways`: `RiskInv` says of each loop over the plan what it has built from the
  actions behind its cursor, and of the plan that some permutation of the findings gives it
  (`IsOrder`). That the summaries count right at the end is a bijection between the actions and the
  findings of a file (`AsManyActions`). That the overall score is not below the mean (`HeadIsWorst`)
  is a fact about descending sequences (`MeanFalls`), for every number of actions.

`FieldReplayProofs` (for every class, every depth, every order of the sort):

* `TypeCorrect`: besides types, `active` is exactly the set of methods on the stack, no
  method is there twice, and the levels left count the frames below. It bounds the
  recursion of `replay_method_effects`.
* `ReplayInventsNothing`: a value of the map comes from construction or from an assignment
  to that field in a method that is called by name. `NothingInvented` needs the
  strengthening `Sourced`: the methods on the stack were called by name too.

* `ReplayIsFaithful`: `FieldsFollowExecution`, on every class that is `Followable`. `Follows` says
  where execution is while the replay is somewhere in its stack: there are fields `e[j]` with
  which execution enters each frame's method, each following from the one below at the place
  of its call (`ChainOK`, `EntriesOK`), and the fields at the place of the top frame are those
  of the map, but for what the walked method has set itself (`FieldsFollow`). An event taken is a turn
  taken, because the sorted events stand in the order of the body and none is left out
  (`EventByEvent`, `OrdersAreComplete`); a call the replay cuts off would have changed nothing, because
  a method lies deeper than every method on the way to it (`CallsGoDeeper`), so that neither
  `active` nor the limit is the reason (`CallFromTop`, `CallWithoutEvents`); and a copied field has what
  construction left, because no method entered changes it (`ExecutionKeeps`).
  `ConstructorsOK` is the part about construction, for whatever number of constructors is met.

`EmissionProofs` (for every program, every reached set closed under calls, every order of
the functions and every depth):

* `ContextsAreSound`: functions are visited first from the roots, only in contexts their
  callers give them, and where the contexts are few all of them are visited. `WalkInv`
  adds to the types what each part of the state stands for: a frame's levels
  (`DepthInv`), what has been followed of a function that was visited above the last level
  (`FollowInv`), which starting points are done (`StartInv`), and that a context
  whose body was scanned has each of its calls among the findings (`SeenInv`).
  That few contexts are all visited needs chains of contexts and their lengths: a shortest chain
  to a context has no context twice, so it is no longer than there are contexts.
* `NoSiteIsLost` and `ValuesAreReported`: with `SeenInv` and `StartInv` every function has
  been scanned in some context, and of the findings at one place the pass
  over duplicates keeps one with the fewest placeholders.
* `RiskIsOfTheFunction`: `RiskFollowsReach` under `LinesApart`, no line holding calls of two
  functions. On such a line the two calls share a line number, and a report is found by its line;
  every program of the run satisfies it. `ReportedCallsExist` says what holds without it.

`PipelineProofs` (for every command line over the words, every set of source files, every
failure; every root and tree; every set of certificate files; every text):

* `ExitIsTruthful` and `WritesAreLast`. Neither `ExitTellsOutput` nor `FilesWrittenLast` knows how
  far the run is; `StagesInOrder` says which computations a stage has behind it, and
  `WritesInOrder` that the disk is as it was before the inventory is written and differs by the
  inventory only before the report is. A flag swallowed as another one's value stays a
  word (`CfgTyped`).
* `InventoryIsAlwaysTheTree`: what leads to an entry the iterator has met it has met before
  (`MetDownwards`), and no entry below a closed directory it has met is left (`ClosedIsCut`); from
  these it follows that the next entry is a new one and opens on the way, so that each
  step adds the file it should (`FilesAreMet`). A path below the root keeps its last name
  and its set of names, whatever the root (`BelowRoot`).
* `ReportIsAlwaysTheHead`: of the open file, what is collected are the certificates before the place
  where the stream stands, and nothing broken lies there (`ReadSoFar`); no file is reported twice
  (`ReportedOnce`), so that what a closed file has added is all there is of it
  (`HeadsReported`). That the report keeps a file's order is an increasing bijection of
  places, extended by one with each certificate and moved when the file is closed.
* `LiteralsAloneMislead`: `Follows` says in which state the C++ lexer is where the analyser
  stands; `LineInv` that the line so far holds a call exactly if one was read on it that counts,
  `SeenInv` that the lines behind are listed exactly if they hold one.
* `PlacesAreAlwaysKept` and `PlainTextIsReadRight`: `Right` says what each pass is to write for a
  character (`Cleaned` after the first, as much as the count needs after the second), `FirstAt` and
  `SecondAt` in which state of the lexer each of its inner loops may stand. An escape or an open
  comment at the end of the text would break the second; `WellFormed` is what excludes them.
  The lexer itself is a recursive function of places: that it gets through
  every text and steps as `After` says is `LexerRuns` and `LexerSteps`.

`LibraryProofs` (for every number of threads, processes, keys, lists, signers and documents):

* `TokensAreSound`: `TokensFollowSessions` speaks of calls that have returned. What makes it
  inductive is `GoneForAReason` (a session that left the map was ended or is too old),
  that ids are numbered through and never come back, and `CallsKnow`: a call that
  found its session unexpired and meets it in the map later had met it there then
  (`was_live`), because nothing puts a session back.
* `RevocationIsSound`: the index is that of the list read last, and a cached manager is never
  replaced (`CrlInv`): it is cached without a list, and a manager without a list never
  expires (`EmptyNeverExpires`).
* `VaultIsSound`: `FilesHold` says what the sealed file opens to in terms of the process that
  wrote it last, `OperationsSave` what the operation under way has still to write: between
  two steps the file is absent, cut, or whole.
* `JournalIsSound`: `LinesAreGenuine` says of each line of the journal which process audited
  it and where, so that a chain of hashes from genesis can only be the beginning of one process's
  events; `TipIsWhole` which hash the writing process continues from.
* `SignaturesAreSound`: `MarksFollow`, the first two envelope marks in the bytes are those of the first
  two envelopes made, whatever is appended later.
* `LibraryIsSound`: a step of one part leaves the others alone, so the conjunction of
  the five invariants is one of `LibrarySpec`.

`DocFlowProofs` (for every number of clients and of faults):

* `SignaturesAreEarnedAlways`: `FlowInv` says that a connection's `authenticated` and a signature
  in its socket each mean that its client was told `AUTH_OK`; both are needed, since a signature
  is read long after the flag was.

`GostSessionProofs` (for every number of clients and of faults):

* `AgreementHolds`: an acknowledgement is accepted for its key, so the proof has to know who can
  have sealed what. `Good` is a statement about one connection: what lies in
  each direction is one of a few messages; a thread that has not answered has been
  sent nothing but a hello and its client is not past the first answer; an acknowledgement lies
  there only when the thread is over, has the client's message, and under the key it
  was sealed with. Since a step touches one connection only (`OneConnection`), the invariant is
  `Good` for every connection, and each action is one lemma.

The constants' assumptions (`ConstantsOK` and its like, `EmissionConstants`, `DatabaseConstants`, `RiskConstants`, `PipelineConstants`,
`StorageConstants`, `SessionConstants`, `GostConstants`, `DocumentConstants`, `ScannerConstants`,
`CertConstants`, `LexicalConstants`, `NoneIsNoValue`) say that an absent value is none of the
values, that bounds are positive, that a program has finitely many functions, that a
tree is finite and holds the directories of its entries, that the C++ extensions are in lower case,
that expressions are trees and the lines of a body ascend, that a name is declared before it
is read, that calls return what bodies return and texts of the analyser's own are no values
(`ExpressionsAreTrees`, `ProgramsAreWhole`, `TextsDiffer`),
and that certificate files and texts are sequences of objects and characters; the runs evaluate them. `LinesDistinct` and `LinesApart` are hypotheses of
the theorems that name them. Nothing else is assumed.

Where a proof needs induction it goes by a least counterexample: `LeastNat` (a set of natural
numbers that is not empty has a least element) takes no operator, so it can be used where
the library's induction theorems cannot. That a recursive function satisfies its defining
equation is proved the same way, from approximations on initial segments that agree
(`ChainsAre`, `TotalIs`, `LexerRuns`, once for every step given as a function in `NatRecursion` and
`TreeRecursion`, and `AfterIs`, `ExecutionIs` and `LevelIs` for the execution of a class).

Only model-checked: termination and every other liveness property (`SearchTerminates`,
`WalkTerminates`, `WalkEnds`, `RunEnds`, `DemoEnds`, `OthersAreAnswered`, `EveryClientExits`,
`UndisturbedEndsAsItShould`), because the prover has no rules for fairness. Every other
property of a passing run is stated by a theorem.

## 5. Not modelled

* Formatting: the CBOM's and the report's layout, the texts of recommendations, logs.
* libclang and OpenSSL: what they answer is chosen freely.
* The names of scopes around a call, which only decorate a finding.
* Regular expressions of the database; one call stands for a match.
* Ciphers, hashes and key derivation of the sample project: arithmetic on long words,
  checked by its test vectors. Of `src/example-project/src/crypto` only the mutex of
  `gost_prng.cpp` is modelled.
* The OCSP client, a stub; PKCS#12 and chains, which are single calls of OpenSSL; the
  demonstrations without a network and `gen_certs.cpp`, which are straight lines of prints.
* Tests, data, build files.

## 6. Plan

In this order:

1. `LocalValues` and `FieldReplay` as one walk; branches and loops in the bodies of `FieldReplay`.
2. `ProjectScanner` composed with `Pipeline`: the two spellings of a path, and the verdict
   "compliant" of a project whose root is skipped.
