------------------------------ MODULE KeyVault ------------------------------
(***************************************************************************)
(* KeyVault over EncryptedStorage: keys wrapped one by one under the       *)
(* master key, the list of them sealed under the same key in one file that *)
(* every change writes anew.  A sealed blob is abstracted to what opens it *)
(* and what is in it; opening with another key fails its HMAC and throws.  *)
(* The master key is a function of the password (the salt is fixed), so a  *)
(* password stands for it.  Identifiers are those the program uses, with   *)
(* no quote or brace in them: entry_to_json writes them as they are.       *)
(***************************************************************************)
EXTENDS Naturals, Sequences, FiniteSetsExt, Functions

CONSTANTS
  Ids,         \* identifiers of keys
  Passwords,
  Validities,  \* the validity a caller may ask for
  None         \* no master key: the vault is not open

VARIABLES
  vault_file,  \* Absent, Cut, or what encrypt made of the entries
  master_key, entries,
  op,          \* the operation that holds the mutex
  now          \* the clock

vault == <<vault_file, master_key, entries, op, now>>

Absent == [is |-> "absent"]
Cut == [is |-> "cut"]   \* truncated by write_file and not, or not wholly, written
Sealed(key, es) == [is |-> "sealed", key |-> key, entries |-> es]
Opens(file, key) == file.is = "sealed" /\ file.key = key

\* What an operation has left to do: the file first, then the events to audit.
Idle == [left |-> <<>>, id |-> None, next |-> "none"]
Saving(events, id) == [left |-> events, id |-> id, next |-> "truncate"]
Auditing(events, id) == [left |-> events, id |-> id, next |-> "audit"]

Entry(id, material, validity) ==
  [id |-> id, material |-> material, expires |-> now + validity, active |-> TRUE,
   key |-> master_key]

(***************************************************************************)
(* Reading.  Every search of the list takes the first entry of the name.   *)
(***************************************************************************)
Named(id) == {i \in DOMAIN entries : entries[i].id = id}
First(id) == Min(Named(id))
BugOffered(id) == \E i \in Named(id) : entries[i].active /\ entries[i].expires >= now
Offered(id) == Named(id) # {} /\ entries[First(id)].active /\ entries[First(id)].expires >= now
Unwraps(id) == entries[First(id)].key = master_key

\* The event is audited before the key is unwrapped: a key that cannot be
\* unwrapped has been audited as loaded, and exports nothing.
LoadKey(id) ==
  /\ op = Idle /\ Offered(id)
  /\ op' = Auditing(<<"KEY_LOAD">>, id)
  /\ UNCHANGED <<vault_file, master_key, entries, now>>

ExportPublicKey(id) ==
  /\ op = Idle /\ Offered(id)
  /\ op' = Auditing(IF Unwraps(id) THEN <<"KEY_LOAD", "KEY_EXPORT_PUB">> ELSE <<"KEY_LOAD">>, id)
  /\ UNCHANGED <<vault_file, master_key, entries, now>>

(***************************************************************************)
(* Changing.                                                               *)
(***************************************************************************)
StoreKey(id, material, validity) ==
  /\ op = Idle
  /\ entries' = Append(entries, Entry(id, material, validity))
  /\ op' = Saving(<<"KEY_STORE">>, id)
  /\ UNCHANGED <<vault_file, master_key, now>>

GenerateGostKeypair(id, material) ==
  /\ op = Idle
  /\ entries' = Append(entries, Entry(id, material, Max(Validities)))
  /\ op' = Saving(<<"KEY_STORE", "KEY_GENERATE">>, id)
  /\ UNCHANGED <<vault_file, master_key, now>>

RevokeKey(id) ==
  /\ op = Idle /\ Named(id) # {}
  /\ entries' = [entries EXCEPT ![First(id)].active = FALSE]
  /\ op' = Saving(<<"KEY_REVOKE">>, id)
  /\ UNCHANGED <<vault_file, master_key, now>>

\* The loop unwraps with master_key, which its first round already replaces:
\* from the second entry on the new key meets what the old one wrapped.
UnwrapKey(i, new) == IF i = 1 THEN master_key ELSE new
Fails(new) == {i \in DOMAIN entries : entries[i].key # UnwrapKey(i, new)}
Rewrapped(new) == IF Fails(new) = {} THEN Len(entries) ELSE Min(Fails(new)) - 1

ChangePassword(old, new) ==
  /\ op = Idle /\ old = master_key
  /\ entries' = [i \in DOMAIN entries |->
                   IF i <= Rewrapped(new) THEN [entries[i] EXCEPT !.key = new] ELSE entries[i]]
  /\ master_key' = IF Fails(new) # {} /\ Rewrapped(new) = 0 THEN master_key ELSE new
  /\ op' = IF Fails(new) = {} THEN Saving(<<"VAULT_REKEY">>, None) ELSE Idle
  /\ UNCHANGED <<vault_file, now>>

(***************************************************************************)
(* utils::write_file, in two steps, as a crash sees it.  Opening truncates *)
(* or throws; the write is never tested.                                   *)
(***************************************************************************)
Truncate ==
  /\ op.next = "truncate"
  /\ \/ vault_file' = Cut /\ op' = [op EXCEPT !.next = "write"]
     \/ op' = Idle /\ UNCHANGED vault_file
  /\ UNCHANGED <<master_key, entries, now>>

Save ==
  /\ op.next = "write"
  /\ vault_file' \in {Sealed(master_key, entries), Cut}
  /\ op' = [op EXCEPT !.next = "audit"]
  /\ UNCHANGED <<master_key, entries, now>>

\* One event of the operation is audited; after the last one it returns.
Audited ==
  /\ op.next = "audit"
  /\ op' = IF Len(op.left) = 1 THEN Idle ELSE [op EXCEPT !.left = Tail(@)]
  /\ UNCHANGED <<vault_file, master_key, entries, now>>

(***************************************************************************)
(* The static create, and the constructor: load() takes a missing file for *)
(* an empty vault, and throws on one it cannot open.                       *)
(***************************************************************************)
BeginCreate ==
  /\ vault_file' = Cut
  /\ UNCHANGED <<master_key, entries, op, now>>

EndCreate(password) ==
  /\ vault_file' \in {Sealed(password, <<>>), Cut}
  /\ UNCHANGED <<master_key, entries, op, now>>

BugCanOpen(password) == vault_file \in {Absent, Cut} \/ Opens(vault_file, password)
CanOpen(password) == vault_file = Absent \/ Opens(vault_file, password)

Open(password) ==
  /\ CanOpen(password)
  /\ master_key' = password
  /\ entries' = IF Opens(vault_file, password) THEN vault_file.entries ELSE <<>>
  /\ UNCHANGED <<vault_file, op, now>>

Forget == master_key' = None /\ entries' = <<>> /\ op' = Idle

Tick == now' = now + 1 /\ UNCHANGED <<vault_file, master_key, entries, op>>

VaultInit ==
  /\ vault_file = Absent /\ master_key = None /\ entries = <<>> /\ op = Idle /\ now = 0
=============================================================================
