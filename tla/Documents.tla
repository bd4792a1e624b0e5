----------------------------- MODULE Documents ------------------------------
(***************************************************************************)
(* DocumentSigner and DocumentVerifier.  A signed document is a sequence   *)
(* of parts: headers of co-signing, envelopes in text, and CMS structures. *)
(* A hash is abstracted to what it covers.                                 *)
(***************************************************************************)
EXTENDS Naturals, Sequences, SequencesExt

CONSTANTS
  Texts,        \* documents
  Signers,      \* subjects of certificates
  Unknown,      \* "CN=Unknown", the subject without a certificate
  NoText,       \* the empty document: no original given
  MaxParts      \* bound: signatures in one signed document

ASSUME DocumentConstants == NoText \notin Texts

VARIABLES
  cms_data,     \* the signed document
  kind,         \* of each signer, what its key and certificate let it do
  \* history
  covers,       \* what the first envelope in the document was made for
  order         \* who made its envelopes, in order

docs == <<cms_data, kind, covers, order>>

\* A key and a certificate: a CMS structure, unless CMS_sign cannot use them,
\* and then an envelope.  A key alone: an envelope of nobody.  A certificate
\* alone: an envelope with an empty signature.  Neither: both.
Kinds == {"cms", "envelope", "anonymous", "unsigned", "empty"}
Keyless == {"unsigned", "empty"}
Nameless == {"anonymous", "empty"}

Header == [is |-> "header"]
Subject(s) == IF kind[s] \in Nameless THEN Unknown ELSE s
Part(s, doc) ==
  [is |-> IF kind[s] = "cms" THEN "cms" ELSE "envelope", signer |-> Subject(s), hash |-> doc,
   signed |-> kind[s] \notin Keyless]

DocumentsInit ==
  /\ cms_data = <<>> /\ kind \in [Signers -> Kinds]
  /\ covers = NoText /\ order = <<>>

Signatures(data) == ToSet(data) \ {Header}
Envelope(p) == p.is = "envelope"
Noted(s) == IF kind[s] = "cms" THEN order ELSE Append(order, s)

Sign(s, doc) ==
  /\ cms_data = <<>>
  /\ cms_data' = <<Part(s, doc)>>
  /\ order' = Noted(s) /\ covers' = IF kind[s] = "cms" THEN NoText ELSE doc
  /\ UNCHANGED kind

\* The document may be another one than the first signer's.
BugCoSigned(s, doc) == <<Header>> \o <<Part(s, doc)>> \o cms_data
CoSigned(s, doc) == <<Header>> \o cms_data \o <<Part(s, doc)>>

CoSign(s, doc) ==
  /\ cms_data # <<>> /\ Len(cms_data) < 2 * MaxParts - 1
  /\ cms_data' = CoSigned(s, doc)
  /\ order' = Noted(s) /\ covers' = IF order = <<>> /\ kind[s] # "cms" THEN doc ELSE covers
  /\ UNCHANGED kind

\* A signature of the signed document takes its place.  Bound: a countersignature
\* is not countersigned again.
CounterSign(s) ==
  /\ cms_data # <<>> /\ \A p \in Signatures(cms_data) : p.hash \in Texts
  /\ cms_data' = <<Part(s, cms_data)>>
  /\ order' = IF kind[s] = "cms" THEN <<>> ELSE <<s>>
  /\ covers' = IF kind[s] = "cms" THEN NoText ELSE cms_data
  /\ UNCHANGED kind

\* Where the marks of envelopes stand in the signed bytes.
Marks(data) == {i \in DOMAIN data : Envelope(data[i])}
FirstMark(data) == Min(Marks(data))
LaterMarks(data) == Marks(data) \ {FirstMark(data)}
SecondMark(data) == Min(LaterMarks(data))

\* parse_gost_envelope finds the fields of the first envelope; the signature is
\* taken for good when there is one.
ParseGostEnvelope(data, original) ==
  LET e == data[FirstMark(data)]
  IN  [valid |-> Marks(data) # {} /\ e.signed /\ (original = NoText \/ original = e.hash),
       signer |-> IF Marks(data) # {} THEN e.signer ELSE NoText]

\* What begins with a CMS structure is parsed as one.  The signer left its
\* certificate out and the verifier has none: CMS_verify fails.
Verify(data, original) ==
  IF data # <<>> /\ Head(data).is = "cms" THEN [valid |-> FALSE, signer |-> NoText]
  ELSE ParseGostEnvelope(data, original)

\* From the first mark to the second, and from the second to the end.
VerifyAll(data) ==
  IF Header \notin ToSet(data) \/ Marks(data) = {} THEN <<Verify(data, NoText)>>
  ELSE IF LaterMarks(data) = {}
       THEN <<Verify(SubSeq(data, FirstMark(data), Len(data)), NoText)>>
       ELSE <<Verify(SubSeq(data, FirstMark(data), SecondMark(data) - 1), NoText),
              Verify(SubSeq(data, SecondMark(data), Len(data)), NoText)>>

DocumentsNext ==
  \E s \in Signers : CounterSign(s) \/ \E t \in Texts : Sign(s, t) \/ CoSign(s, t)

-----------------------------------------------------------------------------
\* With an original at hand a document is good only if it is what the maker of
\* the earliest envelope was given, whatever was added since; and of a co-signed
\* document verify_all names the first signers in the order they signed, each
\* with its own verdict (verify, verify_all, co_sign, counter_sign).
VerdictsAreOfTheFirstSigners ==
  /\ \A t \in Texts : Verify(cms_data, t).valid => covers = t
  /\ Header \in ToSet(cms_data) /\ order # <<>> =>
       LET r == VerifyAll(cms_data)
       IN  /\ Len(r) = IF Len(order) = 1 THEN 1 ELSE 2
           /\ \A i \in DOMAIN r :
                r[i] = [valid |-> kind[order[i]] \notin Keyless, signer |-> Subject(order[i])]
=============================================================================
