------------------------------ MODULE DocFlow -------------------------------
(***************************************************************************)
(* The document server of the sample project and its clients: a TLS        *)
(* handshake, then messages written to and read from the socket itself.    *)
(* The server runs a detached thread per connection; the threads share the *)
(* process and the generator of random bytes with its mutex.               *)
(***************************************************************************)
EXTENDS Naturals, Sequences, FiniteSets

CONSTANTS
  Demos,        \* runs of the demo client (run_tls)
  Others,       \* other programs that use the protocol, a request at a time
  None,
  Requests,     \* what the others ask
  MaxRequests,  \* bound: requests of all of them
  MaxFaults     \* bound: refused handshakes and handlers that throw

Clients == Demos \cup Others

VARIABLES
  server,       \* "starting", "listening" or "ended"
  thread,       \* of each connection: what its thread does next
  authenticated, challenge,   \* and its locals; None is the empty vector
  lock,         \* the thread that holds the generator's mutex, or None
  client,       \* of each client: what it does next
  up, down,     \* the two directions of each connection
  asked,        \* requests of the others so far
  open,         \* of each of them: the request it has no answer to
  accepted,     \* history: clients that were sent AUTH_OK
  faults

conn == <<thread, authenticated, challenge>>
user == <<client, asked, open>>
vars == <<server, conn, lock, user, up, down, accepted, faults>>

Msg(type) == [type |-> type]
Noise == Msg("noise")     \* bytes that do not begin with the magic

Init ==
  /\ server = "starting" /\ lock = None /\ faults = 0 /\ accepted = {}
  /\ thread = [c \in Clients |-> "none"]
  /\ authenticated = [c \in Clients |-> FALSE] /\ challenge = [c \in Clients |-> None]
  /\ client = [c \in Clients |-> "start"] /\ asked = 0
  /\ open = [c \in Others |-> None]
  /\ up = [c \in Clients |-> <<>>] /\ down = [c \in Clients |-> <<>>]

Fault == faults < MaxFaults /\ faults' = faults + 1
ClientGone(c) == client[c] = "done"
ServerGone(c) == thread[c] = "closed" \/ server = "ended"

\* send_message to a peer that has closed: the bytes may be lost, write may
\* fail, or SIGPIPE, which nobody handles, ends the process.
SendOutcomes(peer_gone) == IF peer_gone THEN {"lost", "fails", "pipe"} ELSE {"sent"}

-----------------------------------------------------------------------------
(* The server. *)

\* The constructor throws without its certificate, start() without its port.
StartServer ==
  /\ server = "starting"
  /\ \/ server' = "listening" /\ UNCHANGED faults
     \/ server' = "ended" /\ Fault
  /\ UNCHANGED <<conn, lock, user, up, down, accepted>>

BugAccept(c) ==
  /\ server = "listening" /\ thread[c] = "backlog"
  /\ \A d \in Clients : thread[d] \in {"none", "backlog", "closed"}
  /\ thread' = [thread EXCEPT ![c] = "handshake"]
  /\ UNCHANGED <<server, authenticated, challenge, lock, user, up, down, accepted, faults>>

Accept(c) ==
  /\ server = "listening" /\ thread[c] = "backlog"
  /\ thread' = [thread EXCEPT ![c] = "handshake"]
  /\ UNCHANGED <<server, authenticated, challenge, lock, user, up, down, accepted, faults>>

Runs(c, step) == server = "listening" /\ thread[c] = step

\* SSL_accept.  Session tickets, if the TLS library sends any, lie in the socket
\* before the first answer: a client that reads the socket itself takes them for
\* messages.  A client that gave up lets the call fail, or its socket raises SIGPIPE.
Handshake(c) ==
  /\ Runs(c, "handshake")
  /\ \/ /\ thread' = [thread EXCEPT ![c] = "recv"]
        /\ UNCHANGED down \/ (c \in Demos /\ down' = [down EXCEPT ![c] = <<Noise, Noise>>])
        /\ UNCHANGED <<server, faults>>
     \/ /\ thread' = [thread EXCEPT ![c] = "closed"] /\ UNCHANGED <<server, down>>
        /\ Fault \/ (ClientGone(c) /\ UNCHANGED faults)
     \/ ClientGone(c) /\ server' = "ended" /\ UNCHANGED <<thread, down, faults>>
  /\ UNCHANGED <<authenticated, challenge, lock, user, up, accepted>>

\* Authenticator::verify_response: a certificate in force and trusted, and a
\* signature of this thread's challenge.
VerifyResponse(c, m) == m.trusted /\ m.over = challenge[c]

BugAuthenticatedBy(c, m) == [d \in Clients |-> VerifyResponse(c, m)]
AuthenticatedBy(c, m) == [authenticated EXCEPT ![c] = VerifyResponse(c, m)]

Verdict(good) == IF good THEN "AUTH_OK" ELSE "AUTH_FAIL"

Response(c, m) ==
  CASE m.type = "HELLO" -> "HELLO"
    [] m.type = "HASH_REQUEST" -> "HASH_RESPONSE"
    [] m.type = "SHORT_RESPONSE" -> "AUTH_FAIL"
    [] m.type = "AUTH_RESPONSE" -> Verdict(VerifyResponse(c, m))
    [] m.type = "DOCUMENT_UPLOAD" ->
         IF authenticated[c] /\ m.valid THEN "DOCUMENT_SIGNED" ELSE "ERROR"
    [] OTHER -> "ERROR"

\* One round of handle_client.  A response shorter than a signature leaves
\* `authenticated` as it was.
Serve(c) ==
  /\ Runs(c, "recv") /\ up[c] # <<>> /\ Head(up[c]).type # "AUTH_REQUEST"
  /\ LET m == Head(up[c])
         r == Response(c, m)
     IN  /\ authenticated' = IF m.type = "AUTH_RESPONSE" THEN AuthenticatedBy(c, m) ELSE authenticated
         /\ accepted' = IF r = "AUTH_OK" THEN accepted \cup {c} ELSE accepted
         /\ \E outcome \in SendOutcomes(ClientGone(c)) :
              /\ down' = [down EXCEPT ![c] = IF outcome = "sent" THEN Append(@, Msg(r)) ELSE @]
              /\ server' = IF outcome = "pipe" THEN "ended" ELSE server
              /\ thread' = [thread EXCEPT ![c] = IF outcome = "fails" THEN "shutdown" ELSE @]
  /\ up' = [up EXCEPT ![c] = Tail(@)]
  /\ UNCHANGED <<challenge, lock, user, faults>>

\* An exception leaves the detached thread, and with it the process.
HandlerThrows(c) ==
  /\ Runs(c, "recv") /\ up[c] # <<>> /\ Head(up[c]).type \in {"AUTH_RESPONSE", "DOCUMENT_UPLOAD"}
  /\ server' = "ended" /\ Fault
  /\ UNCHANGED <<conn, lock, user, up, down, accepted>>

\* generate_challenge: GostPrng::generate(size_t) locks the mutex and calls
\* generate(buf, n), which locks the same, non-recursive mutex again.
BeginChallenge(c) ==
  /\ Runs(c, "recv") /\ up[c] # <<>> /\ Head(up[c]).type = "AUTH_REQUEST"
  /\ up' = [up EXCEPT ![c] = Tail(@)]
  /\ thread' = [thread EXCEPT ![c] = "generate"]
  /\ UNCHANGED <<server, authenticated, challenge, lock, user, down, accepted, faults>>

LockForVector(c) ==
  /\ Runs(c, "generate") /\ lock = None
  /\ lock' = c /\ thread' = [thread EXCEPT ![c] = "generate_buf"]
  /\ UNCHANGED <<server, authenticated, challenge, user, up, down, accepted, faults>>

\* Recv returns nothing at the end of the stream, and the loop ends.
ClientLeft(c) ==
  /\ Runs(c, "recv") /\ up[c] = <<>> /\ ClientGone(c)
  /\ thread' = [thread EXCEPT ![c] = "shutdown"]
  /\ UNCHANGED <<server, authenticated, challenge, lock, user, up, down, accepted, faults>>

\* SSL_shutdown writes its alert to a socket that may be reset.
Shutdown(c) ==
  /\ Runs(c, "shutdown")
  /\ \/ thread' = [thread EXCEPT ![c] = "closed"] /\ UNCHANGED server
     \/ ClientGone(c) /\ server' = "ended" /\ UNCHANGED thread
  /\ UNCHANGED <<authenticated, challenge, lock, user, up, down, accepted, faults>>

-----------------------------------------------------------------------------
(* The demo client, run_tls. *)

Goes(c, step) == client' = [client EXCEPT ![c] = step]
ClientOnly == UNCHANGED <<server, authenticated, challenge, lock, asked, open, accepted, faults>>

\* Without certificates main shows the algorithms and connects to nobody.
Connect(c) ==
  /\ client[c] = "start"
  /\ \/ c \in Demos /\ Goes(c, "done") /\ UNCHANGED thread
     \/ /\ server = "listening" /\ thread' = [thread EXCEPT ![c] = "backlog"]
        /\ Goes(c, "connect")
     \/ server = "ended" /\ Goes(c, "done") /\ UNCHANGED thread
  /\ ClientOnly /\ UNCHANGED <<up, down>>

\* SSL_connect.  Both sides insist on TLS 1.3, where the client is through when the
\* server's thread has answered, and writes while that is still in SSL_accept, or
\* has refused it.  The demo sets SO_RCVTIMEO before it calls.
Connected(c) ==
  /\ client[c] = "connect"
  /\ \/ thread[c] # "backlog" /\ Goes(c, "hello")
     \/ ServerGone(c) /\ Goes(c, "done")
     \/ c \in Demos /\ thread[c] \in {"backlog", "handshake"} /\ Goes(c, "done")
  /\ ClientOnly /\ UNCHANGED <<thread, up, down>>

\* Each request and what the client makes of the message it reads next: after
\* HELLO it goes on whatever comes, a challenge must be one.
Script ==
  [hello |-> "HELLO", auth |-> "AUTH_REQUEST", hash |-> "HASH_REQUEST"]
Waiting == [hello |-> "wait_hello", auth |-> "wait_challenge", hash |-> "wait_hash"]
After(step, type) ==
  CASE step = "wait_hello" -> "auth"
    [] step = "wait_challenge" /\ type = "AUTH_CHALLENGE" -> "hash"
    [] OTHER -> "done"

DemoSends(c) ==
  /\ client[c] \in DOMAIN Script
  /\ \E outcome \in SendOutcomes(ServerGone(c)) :
       /\ up' = [up EXCEPT ![c] = IF outcome = "sent" THEN Append(@, Msg(Script[client[c]])) ELSE @]
       /\ Goes(c, IF outcome \in {"fails", "pipe"} THEN "done" ELSE Waiting[client[c]])
  /\ ClientOnly /\ UNCHANGED <<thread, down>>

DemoWaits(c) == client[c] \in {"wait_hello", "wait_challenge", "wait_hash"}

DemoReads(c) ==
  /\ DemoWaits(c)
  /\ \/ /\ down[c] # <<>> /\ down' = [down EXCEPT ![c] = Tail(@)]
        /\ Goes(c, After(client[c], Head(down[c]).type))
     \/ down[c] = <<>> /\ ServerGone(c) /\ Goes(c, After(client[c], "nothing")) /\ UNCHANGED down
  /\ ClientOnly /\ UNCHANGED <<thread, up>>

\* SO_RCVTIMEO.
BugTimesOut(c) == FALSE /\ UNCHANGED vars
TimesOut(c) ==
  /\ DemoWaits(c) /\ down[c] = <<>> /\ Goes(c, After(client[c], "nothing"))
  /\ ClientOnly /\ UNCHANGED <<thread, up, down>>

-----------------------------------------------------------------------------
(* Other clients: a request, its answer, and leaving at any time. *)

OtherOnly == UNCHANGED <<server, conn, lock, accepted, faults>>

Asks(c, m) ==
  /\ client[c] = "hello" /\ open[c] = None /\ asked < MaxRequests /\ ~ServerGone(c)
  /\ up' = [up EXCEPT ![c] = Append(@, m)]
  /\ asked' = asked + 1 /\ open' = [open EXCEPT ![c] = m]
  /\ OtherOnly /\ UNCHANGED <<client, down>>

TakesAnswer(c) ==
  /\ client[c] = "hello" /\ down[c] # <<>>
  /\ down' = [down EXCEPT ![c] = Tail(@)] /\ open' = [open EXCEPT ![c] = None]
  /\ OtherOnly /\ UNCHANGED <<client, asked, up>>

Leaves(c) ==
  /\ client[c] = "hello" /\ Goes(c, "done") /\ open' = [open EXCEPT ![c] = None]
  /\ OtherOnly /\ UNCHANGED <<asked, up, down>>

ThreadSteps(c) ==
  \/ Accept(c) \/ Handshake(c) \/ Serve(c) \/ HandlerThrows(c) \/ BeginChallenge(c)
  \/ LockForVector(c) \/ ClientLeft(c) \/ Shutdown(c)
DemoSteps(c) == DemoSends(c) \/ DemoReads(c) \/ TimesOut(c)
OtherSteps(c) == TakesAnswer(c) \/ Leaves(c) \/ \E m \in Requests : Asks(c, m)

Next ==
  \/ StartServer
  \/ \E c \in Clients : ThreadSteps(c) \/ Connect(c) \/ Connected(c)
  \/ \E c \in Demos : DemoSteps(c)
  \/ \E c \in Others : OtherSteps(c)

\* The operating system runs every thread and every process, and a timeout
\* that is due fires.  Nothing makes another client ask, or leave.
Fairness ==
  /\ WF_vars(StartServer)
  /\ \A c \in Clients : WF_vars(ThreadSteps(c)) /\ WF_vars(Connect(c) \/ Connected(c))
  /\ \A c \in Demos : WF_vars(DemoSteps(c))
  /\ \A c \in Others : WF_vars(TakesAnswer(c))

Spec == Init /\ [][Next]_vars /\ Fairness

-----------------------------------------------------------------------------
\* The demo client ends its run, through its timeouts if need be: with tickets
\* in the socket, without an answer, with the server gone (run_tls, connect).
DemoEnds == \A c \in Demos : <>[](client[c] = "done")

Answered(c) == open[c] = None \/ server = "ended" \/ thread[c] \in {"shutdown", "closed"}
Unanswered(c) == open[c] # None /\ open[c].type # "AUTH_REQUEST" /\ ~Answered(c)

\* Nobody waits for ever: whoever connects gets through, and a request that needs
\* no challenge is answered while the server lives, also when threads of other
\* connections hang for ever (detached threads, no lock around the handler).
OthersAreAnswered == \A c \in Others : []<>(client[c] # "connect" /\ ~Unanswered(c))

\* A document is signed for no connection that was not itself told AUTH_OK,
\* whatever the other connections proved (handle_client).
SignedOnlyAfterOk ==
  \A c \in Clients : Msg("DOCUMENT_SIGNED") \in {down[c][i] : i \in DOMAIN down[c]} => c \in accepted

\* AUTH_REQUEST brings a challenge: what the protocol's list of messages and
\* the "thread-safe singleton" of the generator promise.
ChallengesCome ==
  \A c \in Others :
    (open[c] # None /\ open[c].type = "AUTH_REQUEST" /\ thread[c] = "recv") ~> Answered(c)
=============================================================================
