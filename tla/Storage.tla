------------------------------ MODULE Storage -------------------------------
(***************************************************************************)
(* The server's process around its key vault and its audit journal: start, *)
(* first key, operations, and the end of the process at any point.  The    *)
(* two files outlive it; the chain of hashes and the entries do not.       *)
(***************************************************************************)
EXTENDS AuditLog, KeyVault

CONSTANTS
  ServerKey,   \* "server-sign-key"
  MaxKeys,     \* bound: keys ever stored
  MaxRuns,     \* bound: processes ever started
  MaxNow,      \* bound: the clock
  MaxAudits,   \* bound: events audited in one process
  MaxFaults    \* bound: writes that fail

ASSUME StorageConstants ==
  /\ ServerKey \in Ids /\ None \notin Ids \cup Passwords
  /\ Validities \subseteq Nat
  /\ \E longest \in Validities : \A v \in Validities : longest >= v
  /\ MaxRuns \in Nat \ {0}

VARIABLES
  stage,       \* what main does next
  run,         \* how many processes there have been
  \* history
  faults,      \* writes that failed
  stored,      \* keys handed to store_key: the last one's number
  audits,      \* what each process has audited
  returned,    \* keys whose store_key returned
  revoked      \* names for which revoke_key returned true

vars == <<log, vault, stage, run, faults, stored, audits, returned, revoked>>
history == <<stored, audits, returned, revoked>>

Init ==
  /\ chain_tip = Genesis /\ audit_seq = 0 /\ log_file = "closed" /\ lines = <<>>
  /\ VaultInit
  /\ stage = "down" /\ run = 0 /\ faults = 0
  /\ stored = 0 /\ audits = [r \in 1 .. MaxRuns |-> <<>>]
  /\ returned = {} /\ revoked = {}

\* A new process opens its journal first.
StartProcess ==
  /\ stage = "down" /\ run < MaxRuns
  /\ stage' = "logging" /\ run' = run + 1
  /\ FreshLogger /\ Forget
  /\ UNCHANGED <<lines, vault_file, now, history>>

OpenLog ==
  /\ stage = "logging" /\ SetLogFile
  /\ stage' \in {"demo", "create"}      \* with or without certificate files
  /\ UNCHANGED <<vault, run, history>>

Note(event) ==
  /\ Len(audits[run]) < MaxAudits
  /\ Audit(run, event)
  /\ audits' = [audits EXCEPT ![run] = Append(@, BodyOf(audit_seq + 1, run, event))]

\* Without certificates the server shows its algorithms, audits that, and ends.
Demo ==
  /\ stage = "demo" /\ Note("DEMO_COMPLETE")
  /\ stage' = "down"
  /\ UNCHANGED <<vault, run, stored, returned, revoked>>

CreateVault(password) ==
  /\ \/ stage = "create" /\ vault_file = Absent /\ BeginCreate /\ stage' = "creating"
     \/ stage = "creating" /\ EndCreate(password) /\ stage' = "open"
     \/ stage = "create" /\ vault_file # Absent /\ stage' = "open" /\ UNCHANGED vault
  /\ UNCHANGED <<log, run, history>>

\* An exception of the constructor leaves main.
OpenVault(password) ==
  /\ stage = "open"
  /\ \/ Open(password) /\ stage' = IF entries' = <<>> THEN "generate" ELSE "serve"
     \/ ~CanOpen(password) /\ stage' = "down" /\ UNCHANGED vault
  /\ UNCHANGED <<log, run, history>>

FirstKey ==
  /\ stage = "generate" /\ stored < MaxKeys
  /\ GenerateGostKeypair(ServerKey, stored + 1)
  /\ stage' = "serve" /\ stored' = stored + 1
  /\ UNCHANGED <<log, run, audits, returned, revoked>>

Store(id, validity) ==
  /\ stage = "serve" /\ stored < MaxKeys
  /\ StoreKey(id, stored + 1, validity)
  /\ stored' = stored + 1
  /\ UNCHANGED <<log, stage, run, audits, returned, revoked>>

Change(id) ==
  /\ stage = "serve"
  /\ RevokeKey(id) \/ LoadKey(id) \/ ExportPublicKey(id)
  /\ UNCHANGED <<log, stage, run, history>>

Rekey(old, new) ==
  /\ stage = "serve" /\ ChangePassword(old, new)
  /\ UNCHANGED <<log, stage, run, history>>

\* main does not catch what its first key's save throws.
SaveStep ==
  /\ stage = "serve" /\ (Truncate \/ Save)
  /\ stage' = IF op'.next = "none" /\ Len(op.left) = 2 THEN "down" ELSE stage
  /\ UNCHANGED <<log, run, history>>

AuditStep ==
  /\ stage = "serve" /\ op.next = "audit" /\ Note(Head(op.left)) /\ Audited
  /\ returned' = IF op.left = <<"KEY_STORE">> \/ Head(op.left) = "KEY_GENERATE"
                 THEN returned \cup {entries[Len(entries)].material} ELSE returned
  /\ revoked' = IF Head(op.left) = "KEY_REVOKE" THEN revoked \cup {op.id} ELSE revoked
  /\ UNCHANGED <<stage, run, stored>>

LogInfo ==
  /\ stage \in {"demo", "create", "serve"} /\ op = Idle /\ PlainLine
  /\ UNCHANGED <<vault, stage, run, history>>
Clock == stage = "serve" /\ op = Idle /\ now < MaxNow /\ Tick /\ UNCHANGED <<log, stage, run, history>>

\* The process ends, in the middle of a save too.
Crash ==
  /\ stage # "down" /\ stage' = "down"
  /\ FreshLogger /\ Forget
  /\ UNCHANGED <<lines, vault_file, now, run, history>>

\* A line, a truncation or a sealed blob that does not reach the disk.
Fault ==
  \/ log_file = "good" /\ log_file' = "failed"
  \/ op.next = "truncate" /\ op'.next = "none" /\ master_key' # None
  \/ (op.next = "write" \/ stage = "creating") /\ stage' \in {"serve", "open"} /\ vault_file' = Cut

Step ==
  \/ StartProcess \/ OpenLog \/ Demo \/ FirstKey \/ SaveStep \/ AuditStep
  \/ LogInfo \/ Clock \/ Crash
  \/ \E p \in Passwords : CreateVault(p) \/ OpenVault(p)
  \/ \E id \in Ids : Change(id) \/ \E v \in Validities : Store(id, v)
  \/ \E p, q \in Passwords : Rekey(p, q)

Next == Step /\ faults' = faults + (IF Fault THEN 1 ELSE 0) /\ faults' <= MaxFaults

Spec == Init /\ [][Next]_vars

-----------------------------------------------------------------------------
\* The journal's verification says yes exactly when the file is the beginning
\* of what one process audited: a line lost or torn, an event audited before
\* the file was open, and a second process that writes are all seen, and only
\* a missing end is not (verify_audit_chain).
VerdictIsExact ==
  VerifyAuditChain(lines) <=>
    /\ Torn \notin Range(lines)
    /\ \E r \in 1 .. MaxRuns : IsPrefix([i \in DOMAIN lines |-> lines[i].body], audits[r])

\* A vault that opens holds every key whose store_key returned, in whatever
\* process that was and wherever processes ended in between: a save that did
\* not complete makes the vault unopenable, never smaller (save, load).
VaultOpensWhole ==
  stage = "serve" => returned \subseteq {entries[i].material : i \in DOMAIN entries}

\* A name for which revoke_key has returned true is never offered again, by
\* this process or a later one, also when keys were stored twice under it
\* (load_key and revoke_key both take the first entry).
RevokedStaysRevoked == stage = "serve" => \A id \in revoked : ~Offered(id)

\* Every key in an open vault can be unwrapped with the master key: what
\* "change of the master password with re-encryption of the vault" promises.
KeysStayReadable == \A i \in DOMAIN entries : entries[i].key = master_key
=============================================================================
