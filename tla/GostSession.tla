---------------------------- MODULE GostSession -----------------------------
(***************************************************************************)
(* The GOST demonstration: a server that serves each connection in a       *)
(* thread of its own, and clients that run one handshake and exit.         *)
(*                                                                         *)
(*   client -> ClientHello -> server      keys, client nonce               *)
(*   server -> ServerHello -> client      keys, UKM, server nonce, signed  *)
(*   client -> ClientFinish -> server     signature, sealed message        *)
(*   server -> ServerAck -> client        sealed echo, or an error         *)
(*                                                                         *)
(* A key is abstracted to whose it is, a random value to the connection it *)
(* was drawn for, a signature to its signer and what it covers, a sealed   *)
(* text with its HMAC to its key and its content.                          *)
(***************************************************************************)
EXTENDS Naturals, Sequences, FiniteSets

CONSTANTS
  Clients,    \* client processes, each with one connection
  Server,     \* the server process
  None,       \* no value yet
  MaxFaults   \* bound: library calls that throw, processes that are killed

ASSUME GostConstants == Server \notin Clients /\ None \notin Clients \cup {Server}

VARIABLES
  server,     \* "starting", "listening" or "ended"
  client,     \* of each client: its next step, session key and exit code
  thread,     \* of each connection: the next step of its thread, and its locals
  up, down,   \* the two directions of each connection
  honours_ukm,\* whether a process's engine takes a UKM (EVP_PKEY_CTRL_SET_IV)
  faults

vars == <<server, client, thread, up, down, honours_ukm, faults>>

Processes == Clients \cup {Server}
Fault == faults < MaxFaults /\ faults' = faults + 1

Init ==
  /\ server = "starting" /\ faults = 0
  /\ client = [c \in Clients |-> [pc |-> "engine", key |-> None, nonce |-> None, exit |-> None]]
  /\ thread = [c \in Clients |-> [pc |-> "none", hello |-> None, ukm |-> None, key |-> None,
                               got |-> None]]
  /\ up = [c \in Clients |-> <<>>] /\ down = [c \in Clients |-> <<>>]
  /\ honours_ukm \in [Processes -> BOOLEAN]

-----------------------------------------------------------------------------
(* gost_utils: what the cryptographic calls return. *)

\* Every process makes one key pair to sign with and one to agree on keys.
KeyPair(owner) == [of |-> "sign", owner |-> owner]
VKOKeyPair(owner) == [of |-> "vko", owner |-> owner]

Signed(by, data) == [by |-> by, data |-> data]
SignatureHolds(pub, data, sig) == sig = Signed(pub, data)

SessionKeys ==
  [ends : SUBSET {VKOKeyPair(p) : p \in Processes}, ukm : Clients \cup {None}]
ASSUME NoneIsNoValue == None \notin SessionKeys /\ None # "0"

\* Without support for a UKM the call warns and goes on without it.
DeriveSharedKey(mine, peer, ukm) ==
  [ends |-> {VKOKeyPair(mine), peer}, ukm |-> IF honours_ukm[mine] THEN ukm ELSE None]

Encrypted(key, text) == [key |-> key, text |-> text]
HmacHolds(key, box) == box.key = key

ClientHello(c) == [type |-> "CLIENT_HELLO", sign_pubkey |-> KeyPair(c),
                   vko_pubkey |-> VKOKeyPair(c), nonce |-> c]
ServerHello(c, ukm, client_nonce) ==
  [type |-> "SERVER_HELLO", sign_pubkey |-> KeyPair(Server), vko_pubkey |-> VKOKeyPair(Server),
   ukm |-> ukm, server_nonce |-> c,
   signature |-> Signed(KeyPair(Server), <<VKOKeyPair(Server), ukm, client_nonce>>)]
ClientFinish(c, server_nonce, key, message) ==
  [type |-> "CLIENT_FINISH", signature |-> Signed(KeyPair(c), server_nonce),
   cipher |-> Encrypted(key, message)]
ServerAck(key, message) == [type |-> "SERVER_ACK", ok |-> TRUE, cipher |-> Encrypted(key, message)]
ServerError == [type |-> "SERVER_ACK", ok |-> FALSE]

-----------------------------------------------------------------------------
(* sendAll and recvAll. *)

\* A peer that has closed: the bytes may be taken and lost, the call may fail,
\* or SIGPIPE, which neither program handles, ends the process.
SendOutcomes(peer_gone) == IF peer_gone THEN {"lost", "fails", "pipe"} ELSE {"sent"}

\* A thread that has sent its last message, before and after its close.
Over == {"closing", "closed"}
ClientGone(c) == client[c].exit # None
ServerGone(c) == thread[c].pc = "closed" \/ server = "ended"

\* recvAll returns "" at the end of the stream, and after a reset.
BugAtEnd(c) == FALSE
AtEnd(c) == (down[c] = <<>> /\ ServerGone(c)) \/ server = "ended"

-----------------------------------------------------------------------------
(* client.cpp *)

Exits(c, code) == client' = [client EXCEPT ![c].pc = "done", ![c].exit = code]
UnchangedServer == UNCHANGED <<server, thread, honours_ukm>>

\* The engine of this process: found by its name or in one of the known places,
\* or not at all.
EngineInit(c) ==
  /\ client[c].pc = "engine"
  /\ \/ client' = [client EXCEPT ![c].pc = "init"] /\ UNCHANGED faults
     \/ Exits(c, "1") /\ Fault
  /\ UnchangedServer /\ UNCHANGED <<up, down>>

\* Keys and the demonstrations; the throws here are outside the try.
Prepare(c) ==
  /\ client[c].pc = "init"
  /\ client' = [client EXCEPT ![c].pc = "connect"]
  /\ UnchangedServer /\ UNCHANGED <<up, down, faults>>

Connect(c) ==
  /\ client[c].pc = "connect"
  /\ IF server = "listening"
     THEN /\ client' = [client EXCEPT ![c].pc = "hello"]
          /\ thread' = [thread EXCEPT ![c].pc = "backlog"]
     ELSE Exits(c, "1") /\ UNCHANGED thread
  /\ UNCHANGED <<server, up, down, honours_ukm, faults>>

ClientSends(c, m, next) ==
  \E outcome \in SendOutcomes(ServerGone(c)) :
     /\ up' = [up EXCEPT ![c] = IF outcome = "sent" THEN Append(@, m) ELSE @]
     /\ CASE outcome = "fails" -> Exits(c, "1")
          [] outcome = "pipe" -> Exits(c, "signal")
          [] OTHER -> client' = [client EXCEPT ![c].pc = next]

SendClientHello(c) ==
  /\ client[c].pc = "hello" /\ ClientSends(c, ClientHello(c), "wait_hello")
  /\ UnchangedServer /\ UNCHANGED <<down, faults>>

\* A ServerAck that comes instead has none of the fields: the empty PEM throws.
AcceptsHello(c, m) ==
  /\ m.type = "SERVER_HELLO"
  /\ SignatureHolds(m.sign_pubkey, <<m.vko_pubkey, m.ukm, c>>, m.signature)

ReadServerHello(c) ==
  /\ client[c].pc = "wait_hello"
  /\ \/ /\ AtEnd(c) /\ Exits(c, "1") /\ UNCHANGED down
     \/ /\ down[c] # <<>> /\ down' = [down EXCEPT ![c] = Tail(@)]
        /\ LET m == Head(down[c])
           IN  IF AcceptsHello(c, m)
               THEN client' = [client EXCEPT ![c].pc = "finish", ![c].nonce = m.server_nonce,
                                 ![c].key = DeriveSharedKey(c, m.vko_pubkey, m.ukm)]
               ELSE Exits(c, "1")
  /\ UnchangedServer /\ UNCHANGED <<up, faults>>

SendClientFinish(c) ==
  /\ client[c].pc = "finish"
  /\ ClientSends(c, ClientFinish(c, client[c].nonce, client[c].key, c), "wait_ack")
  /\ UnchangedServer /\ UNCHANGED <<down, faults>>

BugAcceptsAck(c, m) == m.type = "SERVER_ACK"
AcceptsAck(c, m) == m.type = "SERVER_ACK" /\ m.ok /\ HmacHolds(client[c].key, m.cipher)

ReadServerAck(c) ==
  /\ client[c].pc = "wait_ack"
  /\ \/ AtEnd(c) /\ Exits(c, "1") /\ UNCHANGED down
     \/ /\ down[c] # <<>> /\ down' = [down EXCEPT ![c] = Tail(@)]
        /\ Exits(c, IF AcceptsAck(c, Head(down[c])) THEN "0" ELSE "1")
  /\ UnchangedServer /\ UNCHANGED <<up, faults>>

-----------------------------------------------------------------------------
(* server.cpp *)

\* Engine, keys, self-test, socket, bind, listen: any of them may end main.
StartServer ==
  /\ server = "starting" /\ server' = "listening"
  /\ UNCHANGED <<client, thread, up, down, honours_ukm, faults>>

Accept(c) ==
  /\ server = "listening" /\ thread[c].pc = "backlog"
  /\ thread' = [thread EXCEPT ![c].pc = "hello"]
  /\ UNCHANGED <<server, client, up, down, honours_ukm, faults>>

Runs(c, step) == server = "listening" /\ thread[c].pc = step
UnchangedClient == UNCHANGED <<client, honours_ukm, faults>>

Goes(c, step) == thread' = [thread EXCEPT ![c].pc = step]

BugReadClientHello(c) ==
  /\ Runs(c, "hello") /\ UnchangedClient /\ UNCHANGED <<server, down>>
  /\ \/ /\ up[c] # <<>> /\ up' = [up EXCEPT ![c] = Tail(@)]
        /\ thread' = [d \in Clients |->
             IF d # c THEN [thread[d] EXCEPT !.ukm = c]
             ELSE [thread[c] EXCEPT !.pc = "send_hello", !.hello = Head(up[c]), !.ukm = c,
                     !.key = DeriveSharedKey(Server, Head(up[c]).vko_pubkey, c)]]
     \/ up[c] = <<>> /\ ClientGone(c) /\ Goes(c, "catch") /\ UNCHANGED up

ReadClientHello(c) ==
  /\ Runs(c, "hello") /\ UnchangedClient /\ UNCHANGED <<server, down>>
  /\ \/ /\ up[c] # <<>> /\ up' = [up EXCEPT ![c] = Tail(@)]
        /\ thread' = [thread EXCEPT ![c].pc = "send_hello", ![c].hello = Head(up[c]), ![c].ukm = c,
                         ![c].key = DeriveSharedKey(Server, Head(up[c]).vko_pubkey, c)]
     \/ up[c] = <<>> /\ ClientGone(c) /\ Goes(c, "catch") /\ UNCHANGED up

\* A failing send throws into the handler, which itself sends; a failing send
\* of the handler is not looked at.
ThreadSends(c, m, locals, failed) ==
  \E outcome \in SendOutcomes(ClientGone(c)) :
     /\ down' = [down EXCEPT ![c] = IF outcome = "sent" THEN Append(@, m) ELSE @]
     /\ server' = IF outcome = "pipe" THEN "ended" ELSE server
     /\ thread' = [thread EXCEPT ![c] = IF outcome = "fails" THEN [@ EXCEPT !.pc = failed]
                                        ELSE locals]

SendServerHello(c) ==
  /\ Runs(c, "send_hello")
  /\ ThreadSends(c, ServerHello(c, thread[c].ukm, thread[c].hello.nonce),
       [thread[c] EXCEPT !.pc = "finish"], "catch")
  /\ UnchangedClient /\ UNCHANGED up

\* Any other message has an empty signature.
AcceptsFinish(c, m) ==
  /\ m.type = "CLIENT_FINISH"
  /\ SignatureHolds(thread[c].hello.sign_pubkey, c, m.signature)
  /\ HmacHolds(thread[c].key, m.cipher)

ReadClientFinish(c) ==
  /\ Runs(c, "finish") /\ UnchangedClient /\ UNCHANGED <<server, down>>
  /\ \/ /\ up[c] # <<>> /\ up' = [up EXCEPT ![c] = Tail(@)]
        /\ thread' = [thread EXCEPT ![c] =
             IF AcceptsFinish(c, Head(up[c]))
             THEN [@ EXCEPT !.pc = "send_ack", !.got = Head(up[c]).cipher.text]
             ELSE [@ EXCEPT !.pc = "catch"]]
     \/ up[c] = <<>> /\ ClientGone(c) /\ Goes(c, "catch") /\ UNCHANGED up

SendServerAck(c) ==
  /\ Runs(c, "send_ack")
  /\ ThreadSends(c, ServerAck(thread[c].key, thread[c].got), [thread[c] EXCEPT !.pc = "closing"],
       "catch")
  /\ UnchangedClient /\ UNCHANGED up

\* The handler: an error instead of whatever the client waits for.
SendError(c) ==
  /\ Runs(c, "catch")
  /\ ThreadSends(c, ServerError, [thread[c] EXCEPT !.pc = "closing"], "closing")
  /\ UnchangedClient /\ UNCHANGED up

CloseSocket(c) ==
  /\ Runs(c, "closing") /\ Goes(c, "closed")
  /\ UnchangedClient /\ UNCHANGED <<server, up, down>>

-----------------------------------------------------------------------------
(* What may go wrong around them. *)

\* A call of gost_utils throws: in main outside the try, in main inside it, in
\* the thread of a connection.
ClientThrows(c) ==
  /\ client[c].pc \notin {"engine", "connect", "done"}
  /\ Exits(c, IF client[c].pc = "init" THEN "abort" ELSE "1") /\ Fault
  /\ UnchangedServer /\ UNCHANGED <<up, down>>

ThreadThrows(c) ==
  /\ server = "listening" /\ thread[c].pc \in {"send_hello", "send_ack"}
  /\ thread' = [thread EXCEPT ![c].pc = "catch"] /\ Fault
  /\ UNCHANGED <<server, client, up, down, honours_ukm>>

ClientKilled(c) ==
  /\ client[c].pc # "done" /\ Exits(c, "signal") /\ Fault
  /\ UnchangedServer /\ UNCHANGED <<up, down>>

\* The engine is missing, the port is taken, or somebody ends the process.
ServerEnds ==
  /\ server # "ended" /\ server' = "ended" /\ Fault
  /\ UNCHANGED <<client, thread, up, down, honours_ukm>>

ClientSteps(c) ==
  EngineInit(c) \/ Prepare(c) \/ Connect(c) \/ SendClientHello(c) \/ ReadServerHello(c)
  \/ SendClientFinish(c) \/ ReadServerAck(c)
ThreadSteps(c) ==
  Accept(c) \/ ReadClientHello(c) \/ SendServerHello(c) \/ ReadClientFinish(c)
  \/ SendServerAck(c) \/ SendError(c) \/ CloseSocket(c)
Faults == ServerEnds \/ \E c \in Clients : ClientThrows(c) \/ ThreadThrows(c) \/ ClientKilled(c)

Next == StartServer \/ Faults \/ \E c \in Clients : ClientSteps(c) \/ ThreadSteps(c)

\* Every process and every thread is scheduled; nothing makes a fault happen.
Fairness ==
  WF_vars(StartServer) /\ \A c \in Clients : WF_vars(ClientSteps(c)) /\ WF_vars(ThreadSteps(c))

Spec == Init /\ [][Next]_vars /\ Fairness

-----------------------------------------------------------------------------
\* A client that exits with success has run its whole session with its own
\* thread: that thread holds the same session key and has the client's own
\* message, whatever other clients, errors and deaths happened in between
\* (client.cpp 275-305, server.cpp 158-217).
SuccessMeansAgreement ==
  \A c \in Clients : client[c].exit = "0" =>
     /\ thread[c].pc \in Over /\ thread[c].got = c
     /\ thread[c].key = client[c].key /\ client[c].key # None

\* Nobody waits for ever: there are no timeouts, yet every client exits,
\* because each side's end closes the connection for the other (close in
\* handleClient on every path).
EveryClientExits == \A c \in Clients : <>(client[c].exit # None)

\* With nothing thrown and nobody killed, a client of a listening server whose
\* engine treats a UKM as its own does succeeds; with engines that differ it
\* does not, and is told so.
Alike(c) == honours_ukm[c] = honours_ukm[Server]
UndisturbedEndsAsItShould ==
  \A c \in Clients :
     (client[c].pc = "hello") ~> (faults > 0 \/ client[c].exit = IF Alike(c) THEN "0" ELSE "1")
=============================================================================
