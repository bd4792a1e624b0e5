----------------------------- MODULE MCDocFlow ------------------------------
(***************************************************************************)
(* One demo client and two other clients.  A connection whose challenge    *)
(* never came still has the empty one, None.  HELLO and HASH_REQUEST read  *)
(* and change nothing of their connection; the demo client sends HELLO.    *)
(***************************************************************************)
EXTENDS DocFlow

Proof(trusted, over) == [type |-> "AUTH_RESPONSE", trusted |-> trusted, over |-> over]
Upload(valid) == [type |-> "DOCUMENT_UPLOAD", valid |-> valid]

const_Requests ==
  {Msg("AUTH_REQUEST"), Msg("SHORT_RESPONSE"), Proof(TRUE, None), Proof(FALSE, None),
   Upload(TRUE)}
=============================================================================
