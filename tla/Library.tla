------------------------------ MODULE Library -------------------------------
(***************************************************************************)
(* Four parts of the sample project's library that share no state: the     *)
(* vault and journal of the server's process, the sessions, the revocation *)
(* lists, the signed documents.  A behaviour works with one of them.       *)
(***************************************************************************)
EXTENDS Storage, Sessions, Crl, Documents

VARIABLE class   \* the class at work

LibraryInit ==
  /\ class \in {"KeyVault", "SessionManager", "CrlManager", "DocumentSigner"}
  /\ Init /\ SessionsInit /\ CrlInit /\ DocumentsInit
  /\ class # "SessionManager" => sign_key = "empty" /\ verify_key = "empty"
  /\ class # "DocumentSigner" => kind = [s \in Signers |-> "cms"]

LibraryNext ==
  \/ class = "KeyVault" /\ Next /\ UNCHANGED <<class, sess, crls, docs>>
  \/ class = "SessionManager" /\ SessionsNext /\ UNCHANGED <<class, vars, crls, docs>>
  \/ class = "CrlManager" /\ CrlNext /\ UNCHANGED <<class, vars, sess, docs>>
  \/ class = "DocumentSigner" /\ DocumentsNext /\ UNCHANGED <<class, vars, sess, crls>>

LibrarySpec == LibraryInit /\ [][LibraryNext]_<<class, vars, sess, crls, docs>>
=============================================================================
