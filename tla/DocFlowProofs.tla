---------------------------- MODULE DocFlowProofs ----------------------------
(***************************************************************************)
(* SignedOnlyAfterOk for every number of clients, every set of requests    *)
(* and every number of faults.  What makes it inductive is the reason the  *)
(* handler gives a signature: its own flag `authenticated`, which only an  *)
(* answer AUTH_OK on the same connection has set.                          *)
(***************************************************************************)
EXTENDS DocFlow, TLAPS

Answers ==
  {Msg(type) : type \in {"noise", "HELLO", "HASH_RESPONSE", "AUTH_OK", "AUTH_FAIL",
                         "DOCUMENT_SIGNED", "ERROR"}}

Typed ==
  /\ down \in [Clients -> Seq(Answers)]
  /\ authenticated \in [Clients -> BOOLEAN]

\* The flag of a connection says no more than its client was told.
FlagsAreEarned == \A c \in Clients : authenticated[c] => c \in accepted

\* And so does what waits in its socket.
SignaturesAreEarned ==
  \A c \in Clients : \A i \in DOMAIN down[c] : down[c][i] = Msg("DOCUMENT_SIGNED") => c \in accepted

FlowInv == Typed /\ FlagsAreEarned /\ SignaturesAreEarned

LEMMA FlowStarts == Init => FlowInv
<1> SUFFICES ASSUME Init PROVE FlowInv
  OBVIOUS
<1>1. Typed
  BY DEF Init, Typed
<1> QED BY <1>1 DEF Init, FlowInv, FlagsAreEarned, SignaturesAreEarned

\* What a queue gains at its end or loses at its head.
LEMMA QueueSteps ==
  ASSUME NEW S, NEW q \in Seq(S), NEW m \in S
  PROVE  /\ Append(q, m) \in Seq(S)
         /\ \A i \in DOMAIN Append(q, m) : Append(q, m)[i] = m \/ \E j \in DOMAIN q : Append(q, m)[i] = q[j]
         /\ q # <<>> => Tail(q) \in Seq(S) /\ \A i \in DOMAIN Tail(q) : \E j \in DOMAIN q : Tail(q)[i] = q[j]
<1>1. \A i \in DOMAIN Append(q, m) : Append(q, m)[i] = m \/ \E j \in DOMAIN q : Append(q, m)[i] = q[j]
  OBVIOUS
<1>2. ASSUME q # <<>> PROVE Tail(q) \in Seq(S) /\ \A i \in DOMAIN Tail(q) : \E j \in DOMAIN q : Tail(q)[i] = q[j]
  <2>1. /\ Tail(q) \in Seq(S) /\ DOMAIN Tail(q) = 1 .. Len(q) - 1 /\ Len(q) \in Nat
        /\ \A i \in 1 .. Len(q) - 1 : Tail(q)[i] = q[i + 1]
    BY <1>2
  <2>2. ASSUME NEW i \in DOMAIN Tail(q) PROVE \E j \in DOMAIN q : Tail(q)[i] = q[j]
    <3>1. i + 1 \in DOMAIN q /\ Tail(q)[i] = q[i + 1]
      BY <2>1
    <3> QED BY <3>1
  <2> QED BY <2>1, <2>2
<1> QED BY <1>1, <1>2

\* A step that changes one queue, by what its client was told AUTH_OK for.
OneQueueChanges(c) ==
  /\ down' \in [Clients -> Seq(Answers)]
  /\ \A d \in Clients \ {c} : down'[d] = down[d]
  /\ \A i \in DOMAIN down'[c] : \/ \E j \in DOMAIN down[c] : down'[c][i] = down[c][j]
                                \/ down'[c][i] # Msg("DOCUMENT_SIGNED")
                                \/ c \in accepted'

LEMMA SendKeeps ==
  ASSUME FlowInv, NEW c \in Clients, OneQueueChanges(c),
         authenticated' \in [Clients -> BOOLEAN], accepted \subseteq accepted', FlagsAreEarned'
  PROVE  FlowInv'
<1>1. Typed'
  BY DEF Typed, OneQueueChanges
<1>2. ASSUME NEW d \in Clients, NEW i \in DOMAIN down'[d], down'[d][i] = Msg("DOCUMENT_SIGNED")
      PROVE  d \in accepted'
  <2>1. CASE d = c
    BY <1>2, <2>1 DEF FlowInv, SignaturesAreEarned, OneQueueChanges
  <2>2. CASE d # c
    <3>1. down'[d] = down[d]
      BY <2>2 DEF OneQueueChanges
    <3> QED BY <1>2, <3>1 DEF FlowInv, SignaturesAreEarned
  <2> QED BY <2>1, <2>2
<1> QED BY <1>1, <1>2 DEF FlowInv, SignaturesAreEarned

LEMMA QuietKeeps ==
  ASSUME FlowInv, UNCHANGED <<down, authenticated, accepted>>
  PROVE  FlowInv'
BY DEF FlowInv, Typed, FlagsAreEarned, SignaturesAreEarned

LEMMA TakeKeeps ==
  ASSUME FlowInv, NEW c \in Clients, down[c] # <<>>, down' = [down EXCEPT ![c] = Tail(@)],
         UNCHANGED <<authenticated, accepted>>
  PROVE  FlowInv'
<1> DEFINE q == Tail(down[c])
<1>1. down[c] \in Seq(Answers) /\ authenticated \in [Clients -> BOOLEAN]
  BY DEF FlowInv, Typed
<1>2. q \in Seq(Answers) /\ \A i \in DOMAIN q : \E j \in DOMAIN down[c] : q[i] = down[c][j]
  <2>1. Noise \in Answers
    BY DEF Noise, Answers
  <2> QED BY <1>1, <2>1, QueueSteps
<1>3. FlagsAreEarned'
  BY DEF FlowInv, FlagsAreEarned
<1> HIDE DEF q
<1>4. down' = [down EXCEPT ![c] = q]
  BY DEF q
<1>5. authenticated' \in [Clients -> BOOLEAN] /\ accepted \subseteq accepted'
  BY <1>1
<1>6. OneQueueChanges(c)
  BY <1>2, <1>4 DEF OneQueueChanges, FlowInv, Typed
<1> QED BY <1>3, <1>5, <1>6, SendKeeps

LEMMA HandshakeKeeps ==
  ASSUME FlowInv, NEW c \in Clients, Handshake(c)
  PROVE  FlowInv'
<1>0. UNCHANGED <<authenticated, accepted>>
  BY DEF Handshake
<1>1. CASE UNCHANGED down
  BY <1>0, <1>1, QuietKeeps
<1>2. CASE down' = [down EXCEPT ![c] = <<Noise, Noise>>]
  <2>1. Noise \in Answers /\ Noise # Msg("DOCUMENT_SIGNED")
    BY DEF Noise, Msg, Answers
  <2> DEFINE q == <<Noise, Noise>>
  <2>2. q \in Seq(Answers) /\ \A i \in DOMAIN q : q[i] # Msg("DOCUMENT_SIGNED")
    BY <2>1
  <2>3. UNCHANGED <<authenticated, accepted>>
    BY DEF Handshake
  <2>4. authenticated' \in [Clients -> BOOLEAN] /\ FlagsAreEarned'
    BY <2>3 DEF FlowInv, Typed, FlagsAreEarned
  <2> HIDE DEF q
  <2>5. down' = [down EXCEPT ![c] = q]
    BY <1>2 DEF q
  <2>6. OneQueueChanges(c)
    BY <2>2, <2>5 DEF OneQueueChanges, FlowInv, Typed
  <2> QED BY <2>3, <2>4, <2>6, SendKeeps
<1>3. UNCHANGED down \/ down' = [down EXCEPT ![c] = <<Noise, Noise>>]
  BY DEF Handshake
<1> QED BY <1>1, <1>2, <1>3

\* The handler's answer: a signature only with its flag, AUTH_OK and the flag
\* for the same response.
LEMMA ServeKeeps ==
  ASSUME FlowInv, NEW c \in Clients, Serve(c)
  PROVE  FlowInv'
<1> DEFINE m == Head(up[c])
           r == Response(c, m)
<1>1. /\ authenticated' = IF m.type = "AUTH_RESPONSE" THEN AuthenticatedBy(c, m) ELSE authenticated
      /\ accepted' = IF r = "AUTH_OK" THEN accepted \cup {c} ELSE accepted
      /\ \E outcome : down' = [down EXCEPT ![c] = IF outcome = "sent" THEN Append(@, Msg(r)) ELSE @]
  BY DEF Serve
<1>2. down \in [Clients -> Seq(Answers)] /\ authenticated \in [Clients -> BOOLEAN]
  BY DEF FlowInv, Typed
<1>3. Msg(r) \in Answers
  BY DEF Response, Verdict, Answers
<1>4. Msg(r) = Msg("DOCUMENT_SIGNED") => r = "DOCUMENT_SIGNED"
  BY DEF Msg
<1>5. r = "DOCUMENT_SIGNED" => authenticated[c]
  BY DEF Response, Verdict
<1>6. m.type = "AUTH_RESPONSE" => (r = "AUTH_OK" <=> VerifyResponse(c, m))
  BY DEF Response, Verdict
<1> HIDE DEF m, r
<1>7. accepted \subseteq accepted'
  BY <1>1
<1>8. authenticated' \in [Clients -> BOOLEAN]
  BY <1>1, <1>2 DEF AuthenticatedBy, VerifyResponse
<1>9. FlagsAreEarned'
  <2> SUFFICES ASSUME NEW d \in Clients, authenticated'[d] PROVE d \in accepted'
    BY DEF FlagsAreEarned
  <2>1. CASE m.type = "AUTH_RESPONSE" /\ d = c
    <3>1. authenticated'[c] = VerifyResponse(c, m)
      BY <1>1, <1>2, <2>1 DEF AuthenticatedBy
    <3> QED BY <1>1, <1>6, <2>1, <3>1
  <2>2. CASE ~(m.type = "AUTH_RESPONSE" /\ d = c)
    <3>1. authenticated'[d] = authenticated[d]
      BY <1>1, <1>2, <2>2 DEF AuthenticatedBy
    <3> QED BY <1>7, <3>1 DEF FlowInv, FlagsAreEarned
  <2> QED BY <2>1, <2>2
<1>10. CASE down' = [down EXCEPT ![c] = Append(@, Msg(r))]
  <2> DEFINE q == Append(down[c], Msg(r))
  <2>1. q \in Seq(Answers) /\ \A i \in DOMAIN q : q[i] = Msg(r) \/ \E j \in DOMAIN down[c] : q[i] = down[c][j]
    BY <1>2, <1>3, QueueSteps
  <2>2. Msg(r) = Msg("DOCUMENT_SIGNED") => c \in accepted'
    BY <1>4, <1>5, <1>7 DEF FlowInv, FlagsAreEarned
  <2> HIDE DEF q
  <2>3. down' = [down EXCEPT ![c] = q]
    BY <1>10 DEF q
  <2>4. OneQueueChanges(c)
    BY <1>2, <2>1, <2>2, <2>3 DEF OneQueueChanges
  <2> QED BY <1>7, <1>8, <1>9, <2>4, SendKeeps
<1>11. CASE down' = [down EXCEPT ![c] = @]
  <2>1. down' = [down EXCEPT ![c] = down[c]] /\ down[c] \in Seq(Answers)
    BY <1>2, <1>11
  <2>2. OneQueueChanges(c)
    BY <1>2, <2>1 DEF OneQueueChanges
  <2> QED BY <1>7, <1>8, <1>9, <2>2, SendKeeps
<1> QED
  <2>1. PICK outcome : down' = [down EXCEPT ![c] = IF outcome = "sent" THEN Append(@, Msg(r)) ELSE @]
    BY <1>1
  <2>2. CASE outcome = "sent"
    BY <1>10, <2>1, <2>2
  <2>3. CASE outcome # "sent"
    BY <1>11, <2>1, <2>3
  <2> QED BY <2>2, <2>3

LEMMA FlowKeeps == FlowInv /\ [Next]_vars => FlowInv'
<1> SUFFICES ASSUME FlowInv, [Next]_vars PROVE FlowInv'
  OBVIOUS
<1>1. CASE StartServer
  BY <1>1, QuietKeeps DEF StartServer, conn
<1>2. ASSUME NEW c \in Clients, ThreadSteps(c) PROVE FlowInv'
  <2>1. CASE Handshake(c)
    BY <2>1, HandshakeKeeps
  <2>2. CASE Serve(c)
    BY <2>2, ServeKeeps
  <2>3. CASE ~Handshake(c) /\ ~Serve(c)
    BY <1>2, <2>3, QuietKeeps
    DEF ThreadSteps, Accept, HandlerThrows, BeginChallenge, LockForVector, ClientLeft, Shutdown, conn
  <2> QED BY <2>1, <2>2, <2>3
<1>3. ASSUME NEW c \in Clients, Connect(c) \/ Connected(c) PROVE FlowInv'
  BY <1>3, QuietKeeps DEF Connect, Connected, ClientOnly
<1>4. ASSUME NEW c \in Demos, DemoSteps(c) PROVE FlowInv'
  <2>1. CASE DemoReads(c)
    <3>1. UNCHANGED <<authenticated, accepted>> /\ c \in Clients
      BY <2>1 DEF DemoReads, ClientOnly, Clients
    <3> QED BY <2>1, <3>1, TakeKeeps, QuietKeeps DEF DemoReads
  <2>2. CASE DemoSends(c) \/ TimesOut(c)
    BY <2>2, QuietKeeps DEF DemoSends, TimesOut, ClientOnly
  <2> QED BY <1>4, <2>1, <2>2 DEF DemoSteps
<1>5. ASSUME NEW c \in Others, OtherSteps(c) PROVE FlowInv'
  <2>1. CASE TakesAnswer(c)
    <3>1. UNCHANGED <<authenticated, accepted>> /\ c \in Clients
      BY <2>1 DEF TakesAnswer, OtherOnly, conn, Clients
    <3> QED BY <2>1, <3>1, TakeKeeps DEF TakesAnswer
  <2>2. CASE Leaves(c) \/ \E m \in Requests : Asks(c, m)
    BY <2>2, QuietKeeps DEF Leaves, Asks, OtherOnly, conn
  <2> QED BY <1>5, <2>1, <2>2 DEF OtherSteps
<1>6. CASE UNCHANGED vars
  BY <1>6, QuietKeeps DEF vars, conn
<1> QED BY <1>1, <1>2, <1>3, <1>4, <1>5, <1>6 DEF Next

LEMMA FlowInvSuffices == FlowInv => SignedOnlyAfterOk
BY DEF FlowInv, SignaturesAreEarned, SignedOnlyAfterOk

\* A signed document is sent to no connection that was not itself told AUTH_OK
\* before, however many connect, whatever they send, lose or throw, and
\* whichever threads hang in the generator (handle_client).
THEOREM SignaturesAreEarnedAlways == Spec => []SignedOnlyAfterOk
BY FlowStarts, FlowKeeps, FlowInvSuffices, PTL DEF Spec
=============================================================================
