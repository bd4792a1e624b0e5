------------------------- MODULE GostSessionProofs --------------------------
(***************************************************************************)
(* SuccessMeansAgreement for every number of clients and faults.  A step   *)
(* touches one connection only, so the invariant is one statement about a  *)
(* connection: what lies in its two directions fits what its thread has    *)
(* done, a thread that has not answered has been sent nothing but a hello, *)
(* and an acknowledgement lies there only when its thread is over and has  *)
(* the client's message under the key the acknowledgement is sealed with.  *)
(***************************************************************************)
EXTENDS GostSession, SequenceTheorems, TLAPS

Optional(S) == S \cup {None}

ClientStep == {"engine", "init", "connect", "hello", "wait_hello", "finish", "wait_ack", "done"}
Exit == {"0", "1", "signal", "abort"}
ThreadStep ==
  {"none", "backlog", "hello", "send_hello", "finish", "send_ack", "catch"} \cup Over

ClientRecord ==
  [pc : ClientStep, key : Optional(SessionKeys), nonce : Optional(Clients), exit : Optional(Exit)]
ThreadRecord ==
  [pc : ThreadStep, hello : Optional({ClientHello(c) : c \in Clients}), ukm : Optional(Clients),
   key : Optional(SessionKeys), got : Optional(Clients)]

Finishes(c) == {ClientFinish(c, n, k, c) : n \in Optional(Clients), k \in SessionKeys}
UpMessage(c) == {ClientHello(c)} \cup Finishes(c)

Hellos(c) == {ServerHello(c, u, n) : u \in Optional(Clients), n \in Clients}
Acks(c, th) == IF th.pc \in Over /\ th.got = c THEN {ServerAck(th.key, c)} ELSE {}
DownMessage(c, th) == Hellos(c) \cup {ServerError} \cup Acks(c, th)

\* The thread has not answered yet.
Early == {"none", "backlog", "hello", "send_hello"}

Good(c, cl, th, u, d) ==
  /\ cl \in ClientRecord /\ th \in ThreadRecord
  /\ u \in Seq(UpMessage(c)) /\ d \in Seq(DownMessage(c, th))
  /\ cl.pc \in {"engine", "init", "connect"} => th.pc = "none"
  /\ th.pc \in Early => d = <<>> /\ u \in Seq({ClientHello(c)}) /\ cl.pc \notin {"finish", "wait_ack"}
  /\ th.pc = "send_hello" => th.hello = ClientHello(c)
  /\ th.pc = "send_ack" => th.got = c /\ th.key \in SessionKeys
  /\ cl.pc \in {"finish", "wait_ack"} => cl.key \in SessionKeys
  /\ cl.exit = "0" => /\ cl.pc = "done" /\ th.pc \in Over /\ th.got = c
                      /\ th.key = cl.key /\ cl.key \in SessionKeys

Of(f) == f = [c \in Clients |-> f[c]]
Functions == Of(client) /\ Of(thread) /\ Of(up) /\ Of(down)

IInv == Functions /\ \A c \in Clients : Good(c, client[c], thread[c], up[c], down[c])

USE DEF Over

LEMMA UpdateIsFunction ==
  ASSUME NEW f, Of(f), NEW c \in Clients, NEW v, NEW g, g = [f EXCEPT ![c] = v]
  PROVE  Of(g) /\ g[c] = v /\ \A e \in Clients : e # c => g[e] = f[e]
BY DEF Of

\* A step of connection c leaves the others alone.
LEMMA OneConnection ==
  ASSUME IInv, NEW c \in Clients, Functions',
         \A e \in Clients \ {c} : /\ client'[e] = client[e] /\ thread'[e] = thread[e]
                                  /\ up'[e] = up[e] /\ down'[e] = down[e],
         Good(c, client'[c], thread'[c], up'[c], down'[c])
  PROVE  IInv'
BY DEF IInv

LEMMA InitEstablishes == Init => IInv
<1> SUFFICES ASSUME Init PROVE IInv
  OBVIOUS
<1>1. Functions
  BY DEF Init, Functions, Of
<1>2. ASSUME NEW c \in Clients PROVE Good(c, client[c], thread[c], up[c], down[c])
  <2>1. client[c] = [pc |-> "engine", key |-> None, nonce |-> None, exit |-> None]
    BY DEF Init
  <2>2. thread[c] = [pc |-> "none", hello |-> None, ukm |-> None, key |-> None, got |-> None]
    BY DEF Init
  <2>3. up[c] = <<>> /\ down[c] = <<>>
    BY DEF Init
  <2>4. client[c] \in ClientRecord
    <3>1. None \in Optional(SessionKeys) /\ None \in Optional(Clients) /\ None \in Optional(Exit)
      BY DEF Optional
    <3> QED BY <2>1, <3>1 DEF ClientRecord, ClientStep
  <2>5. thread[c] \in ThreadRecord
    <3>1. /\ None \in Optional(SessionKeys) /\ None \in Optional(Clients)
          /\ None \in Optional({ClientHello(e) : e \in Clients})
      BY DEF Optional
    <3> QED BY <2>2, <3>1 DEF ThreadRecord, ThreadStep
  <2> QED BY <2>1, <2>2, <2>3, <2>4, <2>5, NoneIsNoValue DEF Good
<1> QED BY <1>1, <1>2 DEF IInv

\* A step gives connection c a new state; what it leaves alone it gives again.
LEMMA SameIsUpdate ==
  ASSUME NEW f, Of(f), NEW c \in Clients
  PROVE  f = [f EXCEPT ![c] = f[c]]
BY DEF Of

LEMMA StepOf ==
  ASSUME IInv, NEW c \in Clients, NEW cl, NEW th, NEW u, NEW d,
         client' = [client EXCEPT ![c] = cl], thread' = [thread EXCEPT ![c] = th],
         up' = [up EXCEPT ![c] = u], down' = [down EXCEPT ![c] = d],
         Good(c, cl, th, u, d)
  PROVE  IInv'
<1>1. Of(client) /\ Of(thread) /\ Of(up) /\ Of(down)
  BY DEF IInv, Functions
<1>2. Of(client') /\ client'[c] = cl /\ \A e \in Clients : e # c => client'[e] = client[e]
  BY <1>1, UpdateIsFunction DEF Of
<1>3. Of(thread') /\ thread'[c] = th /\ \A e \in Clients : e # c => thread'[e] = thread[e]
  BY <1>1, UpdateIsFunction DEF Of
<1>4. Of(up') /\ up'[c] = u /\ \A e \in Clients : e # c => up'[e] = up[e]
  BY <1>1, UpdateIsFunction DEF Of
<1>5. Of(down') /\ down'[c] = d /\ \A e \in Clients : e # c => down'[e] = down[e]
  BY <1>1, UpdateIsFunction DEF Of
<1>6. Functions'
  BY <1>2, <1>3, <1>4, <1>5 DEF Functions, Of
<1> QED BY <1>2, <1>3, <1>4, <1>5, <1>6, OneConnection

\* The same for steps of the client's process, and of the connection's thread.
LEMMA ClientStepOf ==
  ASSUME IInv, NEW c \in Clients, NEW cl, NEW u, NEW d,
         client' = [client EXCEPT ![c] = cl], thread' = thread,
         up' = [up EXCEPT ![c] = u] \/ (up' = up /\ u = up[c]),
         down' = [down EXCEPT ![c] = d] \/ (down' = down /\ d = down[c]),
         Good(c, cl, thread[c], u, d)
  PROVE  IInv'
<1>1. thread' = [thread EXCEPT ![c] = thread[c]]
  BY SameIsUpdate DEF IInv, Functions
<1>2. up' = [up EXCEPT ![c] = u]
  BY SameIsUpdate DEF IInv, Functions
<1>3. down' = [down EXCEPT ![c] = d]
  BY SameIsUpdate DEF IInv, Functions
<1> QED BY <1>1, <1>2, <1>3, StepOf

LEMMA ThreadStepOf ==
  ASSUME IInv, NEW c \in Clients, NEW th, NEW u, NEW d,
         thread' = [thread EXCEPT ![c] = th], client' = client,
         up' = [up EXCEPT ![c] = u] \/ (up' = up /\ u = up[c]),
         down' = [down EXCEPT ![c] = d] \/ (down' = down /\ d = down[c]),
         Good(c, client[c], th, u, d)
  PROVE  IInv'
<1>1. client' = [client EXCEPT ![c] = client[c]]
  BY SameIsUpdate DEF IInv, Functions
<1>2. up' = [up EXCEPT ![c] = u]
  BY SameIsUpdate DEF IInv, Functions
<1>3. down' = [down EXCEPT ![c] = d]
  BY SameIsUpdate DEF IInv, Functions
<1> QED BY <1>1, <1>2, <1>3, StepOf

LEMMA KeyIsTyped ==
  ASSUME NEW p \in Processes, NEW q \in Processes, NEW ukm \in Optional(Clients)
  PROVE  DeriveSharedKey(p, VKOKeyPair(q), ukm) \in SessionKeys
BY DEF DeriveSharedKey, SessionKeys, Optional

\* A thread that is not over has sent no acknowledgement.
LEMMA DownWidens ==
  ASSUME NEW c, NEW th, NEW th2, th.pc \notin Over, NEW d \in Seq(DownMessage(c, th))
  PROVE  d \in Seq(DownMessage(c, th2))
<1>1. DownMessage(c, th) \subseteq DownMessage(c, th2)
  BY DEF DownMessage, Acks
<1> QED BY <1>1, SeqMonotonic

LEMMA ExitIsGood ==
  ASSUME NEW c, NEW cl, NEW th, NEW u, NEW d, Good(c, cl, th, u, d), NEW code \in Exit \ {"0"}
  PROVE  Good(c, [cl EXCEPT !.pc = "done", !.exit = code], th, u, d)
<1> DEFINE cl2 == [cl EXCEPT !.pc = "done", !.exit = code]
<1>1. code \in Optional(Exit) /\ code # "0"
  BY DEF Optional
<1>2. cl2 \in ClientRecord /\ cl2.pc = "done" /\ cl2.exit = code
  BY <1>1 DEF Good, ClientRecord, ClientStep
<1> HIDE DEF cl2
<1>3. Good(c, cl2, th, u, d)
  BY <1>1, <1>2 DEF Good
<1> QED BY <1>3 DEF cl2

\* A step of the thread that neither begins to answer nor acknowledges.
LEMMA MoveIsGood ==
  ASSUME NEW c, NEW cl, NEW th, NEW u, NEW d, Good(c, cl, th, u, d),
         th.pc \notin {"none"} \cup Over, NEW step \in {"finish", "catch", "closing"}
  PROVE  Good(c, cl, [th EXCEPT !.pc = step], u, d)
<1> DEFINE th2 == [th EXCEPT !.pc = step]
<1>1. th2 \in ThreadRecord /\ th2.pc = step
  BY DEF Good, ThreadRecord, ThreadStep
<1>2. d \in Seq(DownMessage(c, th2))
  BY DownWidens DEF Good
<1> HIDE DEF th2
<1>3. Good(c, cl, th2, u, d)
  BY <1>1, <1>2 DEF Good, Early
<1> QED BY <1>3 DEF th2

-----------------------------------------------------------------------------
(* What the messages of the two directions are told apart by. *)

LEMMA UpIsHelloOrFinish ==
  ASSUME NEW c \in Clients, NEW m \in UpMessage(c), m.type = "CLIENT_FINISH"
  PROVE  m.cipher.text = c /\ m.cipher.key \in SessionKeys
<1>1. m # ClientHello(c)
  BY DEF ClientHello
<1>2. PICK n \in Optional(Clients), k \in SessionKeys : m = ClientFinish(c, n, k, c)
  BY <1>1 DEF UpMessage, Finishes
<1> QED BY <1>2 DEF ClientFinish, Encrypted

LEMMA DownHello ==
  ASSUME NEW c \in Clients, NEW th, NEW m \in DownMessage(c, th), m.type = "SERVER_HELLO"
  PROVE  m.ukm \in Optional(Clients) /\ m.vko_pubkey = VKOKeyPair(Server)
         /\ m.server_nonce \in Optional(Clients)
<1>1. m # ServerError /\ m \notin Acks(c, th)
  BY DEF ServerError, Acks, ServerAck
<1>2. PICK u \in Optional(Clients), n \in Clients : m = ServerHello(c, u, n)
  BY <1>1 DEF DownMessage, Hellos
<1> QED BY <1>2 DEF ServerHello, Optional

LEMMA DownAck ==
  ASSUME NEW c \in Clients, NEW th, NEW m \in DownMessage(c, th), m.type = "SERVER_ACK", m.ok
  PROVE  th.pc \in Over /\ th.got = c /\ m.cipher.key = th.key
<1>1. m # ServerError
  BY DEF ServerError
<1>2. ASSUME m \in Hellos(c) PROVE FALSE
  <2>1. PICK u \in Optional(Clients), n \in Clients : m = ServerHello(c, u, n)
    BY <1>2 DEF Hellos
  <2>2. m.type = "SERVER_HELLO"
    BY <2>1 DEF ServerHello
  <2> QED BY <2>2
<1>3. m \in Acks(c, th)
  BY <1>1, <1>2 DEF DownMessage
<1> QED BY <1>3 DEF Acks, ServerAck, Encrypted

LEMMA TailsAreGood ==
  ASSUME NEW c, NEW cl, NEW th, NEW u, NEW d, Good(c, cl, th, u, d)
  PROVE  /\ u # <<>> => Good(c, cl, th, Tail(u), d)
         /\ d # <<>> => Good(c, cl, th, u, Tail(d))
<1>1. u # <<>> => Tail(u) \in Seq(UpMessage(c))
  BY HeadTailProperties DEF Good
<1>2. u # <<>> /\ th.pc \in Early => Tail(u) \in Seq({ClientHello(c)})
  BY HeadTailProperties DEF Good
<1>3. d # <<>> => Tail(d) \in Seq(DownMessage(c, th))
  BY HeadTailProperties DEF Good
<1> QED BY <1>1, <1>2, <1>3 DEF Good

LEMMA ExitStep ==
  ASSUME IInv, NEW c \in Clients, NEW code \in Exit \ {"0"}, Exits(c, code), thread' = thread,
         up' = up, down' = down \/ (down[c] # <<>> /\ down' = [down EXCEPT ![c] = Tail(@)])
  PROVE  IInv'
<1> DEFINE cl == [client[c] EXCEPT !.pc = "done", !.exit = code]
           d == IF down' = down THEN down[c] ELSE Tail(down[c])
<1>1. Good(c, client[c], thread[c], up[c], d)
  BY TailsAreGood DEF IInv
<1>2. client' = [client EXCEPT ![c] = cl]
  BY DEF Exits, IInv, Functions, Of
<1> HIDE DEF cl
<1>3. down' = [down EXCEPT ![c] = d] \/ (down' = down /\ d = down[c])
  OBVIOUS
<1> HIDE DEF d
<1>4. Good(c, cl, thread[c], up[c], d)
  BY <1>1, ExitIsGood DEF cl
<1> QED BY <1>2, <1>3, <1>4, ClientStepOf

\* Before its wait for the acknowledgement a client may go on as it is.
LEMMA NextIsGood ==
  ASSUME NEW c, NEW cl, NEW th, NEW u, NEW d, Good(c, cl, th, u, d),
         NEW step \in ClientStep, cl.pc # "done",
         step \in {"engine", "init", "connect"} => th.pc = "none",
         step \in {"finish", "wait_ack"} => th.pc \notin Early /\ cl.key \in SessionKeys
  PROVE  Good(c, [cl EXCEPT !.pc = step], th, u, d)
<1> DEFINE cl2 == [cl EXCEPT !.pc = step]
<1>1. cl2 \in ClientRecord /\ cl2.pc = step /\ cl2.key = cl.key /\ cl2.exit = cl.exit
  BY DEF Good, ClientRecord
<1> HIDE DEF cl2
<1>2. Good(c, cl2, th, u, d)
  BY <1>1 DEF Good
<1> QED BY <1>2 DEF cl2

LEMMA EngineInitKeeps == ASSUME IInv, NEW c \in Clients, EngineInit(c) PROVE IInv'
<1>1. CASE Exits(c, "1")
  BY <1>1, ExitStep DEF EngineInit, UnchangedServer, Exit
<1>2. CASE client' = [client EXCEPT ![c].pc = "init"]
  <2>1. Good(c, client[c], thread[c], up[c], down[c]) /\ client[c].pc = "engine"
    BY DEF IInv, EngineInit
  <2>2. thread[c].pc = "none"
    BY <2>1 DEF Good
  <2>3. Good(c, [client[c] EXCEPT !.pc = "init"], thread[c], up[c], down[c])
    BY <2>1, <2>2, NextIsGood DEF ClientStep
  <2> QED BY <1>2, <2>3, ClientStepOf DEF EngineInit, UnchangedServer
<1> QED BY <1>1, <1>2 DEF EngineInit

LEMMA PrepareKeeps == ASSUME IInv, NEW c \in Clients, Prepare(c) PROVE IInv'
<1>1. Good(c, client[c], thread[c], up[c], down[c]) /\ client[c].pc = "init"
  BY DEF IInv, Prepare
<1>2. thread[c].pc = "none"
  BY <1>1 DEF Good
<1>3. Good(c, [client[c] EXCEPT !.pc = "connect"], thread[c], up[c], down[c])
  BY <1>1, <1>2, NextIsGood DEF ClientStep
<1> QED BY <1>3, ClientStepOf DEF Prepare, UnchangedServer

LEMMA ConnectKeeps == ASSUME IInv, NEW c \in Clients, Connect(c) PROVE IInv'
<1>1. CASE server = "listening"
  <2> DEFINE cl == [client[c] EXCEPT !.pc = "hello"]
             th == [thread[c] EXCEPT !.pc = "backlog"]
  <2>0. Good(c, client[c], thread[c], up[c], down[c])
    BY DEF IInv
  <2>1. client[c].pc = "connect" /\ thread[c].pc = "none"
    BY <2>0 DEF Connect, Good
  <2>2. Good(c, cl, thread[c], up[c], down[c])
    BY <2>0, <2>1, NextIsGood DEF ClientStep
  <2>3. cl.pc = "hello"
    BY <2>0 DEF Good, ClientRecord
  <2>4. th \in ThreadRecord /\ th.pc = "backlog"
    BY <2>0 DEF Good, ThreadRecord, ThreadStep
  <2>5. client' = [client EXCEPT ![c] = cl] /\ thread' = [thread EXCEPT ![c] = th]
    BY <1>1 DEF Connect
  <2>6. up' = [up EXCEPT ![c] = up[c]] /\ down' = [down EXCEPT ![c] = down[c]]
    BY SameIsUpdate DEF Connect, IInv, Functions
  <2>7. down[c] \in Seq(DownMessage(c, th))
    BY <2>0, <2>1, DownWidens DEF Good
  <2> HIDE DEF cl, th
  <2>8. Good(c, cl, th, up[c], down[c])
    BY <2>1, <2>2, <2>3, <2>4, <2>7 DEF Good, Early
  <2> QED BY <2>5, <2>6, <2>8, StepOf
<1>2. CASE server # "listening"
  BY <1>2, ExitStep DEF Connect, Exit
<1> QED BY <1>1, <1>2

\* What a client sends when its thread, if it waits for a hello, is sent one.
LEMMA ClientSendsKeeps ==
  ASSUME IInv, NEW c \in Clients, NEW m \in UpMessage(c), NEW step \in ClientStep,
         ClientSends(c, m, step), thread' = thread, down' = down, client[c].pc # "done",
         thread[c].pc \in Early => m = ClientHello(c),
         step = "wait_hello" \/ (step = "wait_ack" /\ thread[c].pc \notin Early
                                 /\ client[c].key \in SessionKeys)
  PROVE  IInv'
<1> USE DEF SendOutcomes
<1>1. PICK outcome \in {"sent", "lost", "fails", "pipe"} :
         /\ up' = [up EXCEPT ![c] = IF outcome = "sent" THEN Append(@, m) ELSE @]
         /\ CASE outcome = "fails" -> Exits(c, "1")
              [] outcome = "pipe" -> Exits(c, "signal")
              [] OTHER -> client' = [client EXCEPT ![c].pc = step]
  BY DEF ClientSends
<1>2. Good(c, client[c], thread[c], up[c], down[c])
  BY DEF IInv
<1>3. CASE outcome \in {"fails", "pipe"}
  <2>1. up' = up
    BY <1>1, <1>3 DEF IInv, Functions, Of
  <2>2. Exits(c, "1") \/ Exits(c, "signal")
    BY <1>1, <1>3
  <2> QED BY <2>1, <2>2, ExitStep DEF Exit
<1>4. CASE outcome \in {"sent", "lost"}
  <2> DEFINE u == IF outcome = "sent" THEN Append(up[c], m) ELSE up[c]
             cl == [client[c] EXCEPT !.pc = step]
  <2>1. client' = [client EXCEPT ![c] = cl] /\ up' = [up EXCEPT ![c] = u]
    BY <1>1, <1>4
  <2>2. u \in Seq(UpMessage(c))
    BY <1>2, AppendProperties DEF Good
  <2>3. thread[c].pc \in Early => u \in Seq({ClientHello(c)})
    BY <1>2, AppendProperties DEF Good
  <2>4. Good(c, cl, thread[c], up[c], down[c])
    BY <1>2, NextIsGood
  <2> HIDE DEF u, cl
  <2>5. Good(c, cl, thread[c], u, down[c])
    BY <2>2, <2>3, <2>4 DEF Good
  <2> QED BY <2>1, <2>5, ClientStepOf
<1> QED BY <1>1, <1>3, <1>4

LEMMA SendClientHelloKeeps == ASSUME IInv, NEW c \in Clients, SendClientHello(c) PROVE IInv'
<1>1. ClientHello(c) \in UpMessage(c)
  BY DEF UpMessage
<1> QED BY <1>1, ClientSendsKeeps DEF SendClientHello, UnchangedServer, ClientStep

LEMMA SendClientFinishKeeps == ASSUME IInv, NEW c \in Clients, SendClientFinish(c) PROVE IInv'
<1>1. Good(c, client[c], thread[c], up[c], down[c]) /\ client[c].pc = "finish"
  BY DEF IInv, SendClientFinish
<1>2. thread[c].pc \notin Early /\ client[c].key \in SessionKeys
      /\ client[c].nonce \in Optional(Clients)
  BY <1>1 DEF Good, ClientRecord
<1>3. ClientFinish(c, client[c].nonce, client[c].key, c) \in UpMessage(c)
  BY <1>2 DEF UpMessage, Finishes
<1> QED BY <1>1, <1>2, <1>3, ClientSendsKeeps DEF SendClientFinish, UnchangedServer, ClientStep

LEMMA ReadServerHelloKeeps == ASSUME IInv, NEW c \in Clients, ReadServerHello(c) PROVE IInv'
<1>1. Good(c, client[c], thread[c], up[c], down[c]) /\ client[c].pc = "wait_hello"
  BY DEF IInv, ReadServerHello
<1>2. CASE AtEnd(c) /\ Exits(c, "1") /\ UNCHANGED down
  BY <1>2, ExitStep DEF ReadServerHello, UnchangedServer, Exit
<1>3. CASE down[c] # <<>> /\ down' = [down EXCEPT ![c] = Tail(@)] /\ Exits(c, "1")
  BY <1>3, ExitStep DEF ReadServerHello, UnchangedServer, Exit
<1>4. CASE /\ down[c] # <<>> /\ down' = [down EXCEPT ![c] = Tail(@)]
           /\ AcceptsHello(c, Head(down[c]))
           /\ client' = [client EXCEPT ![c].pc = "finish",
                           ![c].nonce = Head(down[c]).server_nonce,
                           ![c].key = DeriveSharedKey(c, Head(down[c]).vko_pubkey,
                                                      Head(down[c]).ukm)]
  <2> DEFINE m == Head(down[c])
             key == DeriveSharedKey(c, m.vko_pubkey, m.ukm)
             cl == [client[c] EXCEPT !.pc = "finish", !.nonce = m.server_nonce, !.key = key]
  <2>1. m \in DownMessage(c, thread[c])
    BY <1>1, <1>4, HeadTailProperties DEF Good
  <2>2. /\ m.ukm \in Optional(Clients) /\ m.vko_pubkey = VKOKeyPair(Server)
        /\ m.server_nonce \in Optional(Clients)
    BY <2>1, <1>4, DownHello DEF AcceptsHello
  <2>3. key \in SessionKeys
    BY <2>2, KeyIsTyped DEF Processes
  <2>4. client' = [client EXCEPT ![c] = cl]
    BY <1>4 DEF IInv, Functions, Of
  <2>5. down' = [down EXCEPT ![c] = Tail(down[c])] /\ thread' = thread /\ up' = up
    BY <1>4 DEF ReadServerHello, UnchangedServer
  <2>6. Good(c, client[c], thread[c], up[c], Tail(down[c])) /\ thread[c].pc \notin Early
    <3>1. thread[c].pc \notin Early
      BY <1>1, <1>4 DEF Good
    <3> QED BY <3>1, <1>1, <1>4, TailsAreGood
  <2> HIDE DEF key, m
  <2>7. cl \in ClientRecord /\ cl.pc = "finish" /\ cl.key \in SessionKeys
        /\ cl.exit = client[c].exit
    BY <1>1, <2>2, <2>3 DEF Good, ClientRecord, ClientStep, Optional
  <2> HIDE DEF cl
  <2>8. Good(c, cl, thread[c], up[c], Tail(down[c]))
    BY <1>1, <2>6, <2>7 DEF Good
  <2> QED BY <2>4, <2>5, <2>8, ClientStepOf
<1> QED BY <1>2, <1>3, <1>4 DEF ReadServerHello

LEMMA ReadServerAckKeeps == ASSUME IInv, NEW c \in Clients, ReadServerAck(c) PROVE IInv'
<1>1. Good(c, client[c], thread[c], up[c], down[c]) /\ client[c].pc = "wait_ack"
  BY DEF IInv, ReadServerAck
<1>2. CASE AtEnd(c) /\ Exits(c, "1") /\ UNCHANGED down
  BY <1>2, ExitStep DEF ReadServerAck, UnchangedServer, Exit
<1>3. CASE down[c] # <<>> /\ down' = [down EXCEPT ![c] = Tail(@)] /\ Exits(c, "1")
  BY <1>3, ExitStep DEF ReadServerAck, UnchangedServer, Exit
<1>4. CASE /\ down[c] # <<>> /\ down' = [down EXCEPT ![c] = Tail(@)]
           /\ AcceptsAck(c, Head(down[c])) /\ Exits(c, "0")
  <2> DEFINE m == Head(down[c])
             cl == [client[c] EXCEPT !.pc = "done", !.exit = "0"]
  <2>1. m \in DownMessage(c, thread[c])
    BY <1>1, <1>4, HeadTailProperties DEF Good
  <2>2. m.type = "SERVER_ACK" /\ m.ok /\ m.cipher.key = client[c].key
    BY <1>4 DEF AcceptsAck, HmacHolds
  <2>3. thread[c].pc \in Over /\ thread[c].got = c /\ thread[c].key = client[c].key
    BY <2>1, <2>2, DownAck
  <2>4. client[c].key \in SessionKeys
    BY <1>1 DEF Good
  <2>5. client' = [client EXCEPT ![c] = cl]
    BY <1>4 DEF Exits, IInv, Functions, Of
  <2>6. down' = [down EXCEPT ![c] = Tail(down[c])] /\ thread' = thread /\ up' = up
    BY <1>4 DEF ReadServerAck, UnchangedServer
  <2>7. Good(c, client[c], thread[c], up[c], Tail(down[c]))
    BY <1>1, <1>4, TailsAreGood
  <2>8. cl \in ClientRecord /\ cl.pc = "done" /\ cl.key = client[c].key
    BY <1>1 DEF Good, ClientRecord, ClientStep, Optional, Exit
  <2> HIDE DEF cl
  <2>9. Good(c, cl, thread[c], up[c], Tail(down[c]))
    BY <2>3, <2>4, <2>7, <2>8 DEF Good, Early
  <2> QED BY <2>5, <2>6, <2>9, ClientStepOf
<1> QED BY <1>2, <1>3, <1>4 DEF ReadServerAck

LEMMA ClientThrowsKeeps == ASSUME IInv, NEW c \in Clients, ClientThrows(c) PROVE IInv'
BY ExitStep DEF ClientThrows, UnchangedServer, Exit

LEMMA ClientKilledKeeps == ASSUME IInv, NEW c \in Clients, ClientKilled(c) PROVE IInv'
BY ExitStep DEF ClientKilled, UnchangedServer, Exit

-----------------------------------------------------------------------------
(* The thread of a connection. *)

\* A thread that works may give up, after reading a message or without.
LEMMA ThreadMoves ==
  ASSUME IInv, NEW c \in Clients, NEW step \in {"finish", "catch", "closing"},
         thread[c].pc \notin {"none"} \cup Over, thread' = [thread EXCEPT ![c].pc = step],
         client' = client, down' = down,
         up' = up \/ (up[c] # <<>> /\ up' = [up EXCEPT ![c] = Tail(@)])
  PROVE  IInv'
<1> DEFINE th == [thread[c] EXCEPT !.pc = step]
           u == IF up' = up THEN up[c] ELSE Tail(up[c])
<1>1. Good(c, client[c], thread[c], u, down[c])
  BY TailsAreGood DEF IInv
<1>2. up' = [up EXCEPT ![c] = u] \/ (up' = up /\ u = up[c])
  OBVIOUS
<1>3. thread' = [thread EXCEPT ![c] = th]
  OBVIOUS
<1> HIDE DEF u
<1>4. Good(c, client[c], th, u, down[c])
  BY <1>1, MoveIsGood
<1> HIDE DEF th
<1> QED BY <1>2, <1>3, <1>4, ThreadStepOf

LEMMA AcceptKeeps == ASSUME IInv, NEW c \in Clients, Accept(c) PROVE IInv'
<1> DEFINE th == [thread[c] EXCEPT !.pc = "hello"]
<1>1. Good(c, client[c], thread[c], up[c], down[c]) /\ thread[c].pc = "backlog"
  BY DEF IInv, Accept
<1>2. client[c].pc \notin {"engine", "init", "connect"}
  BY <1>1 DEF Good
<1>3. th \in ThreadRecord /\ th.pc = "hello"
  BY <1>1 DEF Good, ThreadRecord, ThreadStep
<1>4. down[c] \in Seq(DownMessage(c, th))
  BY <1>1, DownWidens DEF Good
<1>5. thread' = [thread EXCEPT ![c] = th]
  BY DEF Accept
<1> HIDE DEF th
<1>6. Good(c, client[c], th, up[c], down[c])
  BY <1>1, <1>2, <1>3, <1>4 DEF Good, Early
<1> QED BY <1>5, <1>6, ThreadStepOf DEF Accept

LEMMA ReadClientHelloKeeps == ASSUME IInv, NEW c \in Clients, ReadClientHello(c) PROVE IInv'
<1>1. Good(c, client[c], thread[c], up[c], down[c]) /\ thread[c].pc = "hello"
  BY DEF IInv, ReadClientHello, Runs
<1>2. CASE up[c] = <<>> /\ ClientGone(c) /\ Goes(c, "catch") /\ UNCHANGED up
  BY <1>1, <1>2, ThreadMoves DEF ReadClientHello, UnchangedClient, Goes
<1>3. CASE /\ up[c] # <<>> /\ up' = [up EXCEPT ![c] = Tail(@)]
           /\ thread' = [thread EXCEPT ![c].pc = "send_hello", ![c].hello = Head(up[c]),
                            ![c].ukm = c,
                            ![c].key = DeriveSharedKey(Server, Head(up[c]).vko_pubkey, c)]
  <2> DEFINE m == Head(up[c])
             key == DeriveSharedKey(Server, m.vko_pubkey, c)
             th == [thread[c] EXCEPT !.pc = "send_hello", !.hello = m, !.ukm = c, !.key = key]
  <2>1. up[c] \in Seq({ClientHello(c)})
    BY <1>1 DEF Good, Early
  <2>2. m = ClientHello(c)
    BY <2>1, <1>3, HeadTailProperties
  <2>3. m.vko_pubkey = VKOKeyPair(c)
    BY <2>2 DEF ClientHello
  <2>4. key \in SessionKeys
    BY <2>3, KeyIsTyped DEF Processes, Optional
  <2>5. thread' = [thread EXCEPT ![c] = th]
    BY <1>3 DEF IInv, Functions, Of
  <2>6. Good(c, client[c], thread[c], Tail(up[c]), down[c])
    BY <1>1, <1>3, TailsAreGood
  <2>7. up' = [up EXCEPT ![c] = Tail(up[c])] /\ client' = client /\ down' = down
    BY <1>3 DEF ReadClientHello, UnchangedClient
  <2>8. down[c] \in Seq(DownMessage(c, th))
    BY <1>1, DownWidens DEF Good
  <2>9. m \in Optional({ClientHello(e) : e \in Clients})
    BY <2>2 DEF Optional
  <2> HIDE DEF key, m
  <2>10. th \in ThreadRecord /\ th.pc = "send_hello" /\ th.hello = m
    BY <1>1, <2>4, <2>9 DEF Good, ThreadRecord, ThreadStep, Optional
  <2> HIDE DEF th
  <2>11. Good(c, client[c], th, Tail(up[c]), down[c])
    BY <1>1, <2>2, <2>6, <2>8, <2>10 DEF Good, Early
  <2> QED BY <2>5, <2>7, <2>11, ThreadStepOf
<1> QED BY <1>2, <1>3 DEF ReadClientHello

LEMMA ReadClientFinishKeeps == ASSUME IInv, NEW c \in Clients, ReadClientFinish(c) PROVE IInv'
<1>1. Good(c, client[c], thread[c], up[c], down[c]) /\ thread[c].pc = "finish"
  BY DEF IInv, ReadClientFinish, Runs
<1>2. CASE up[c] = <<>> /\ ClientGone(c) /\ Goes(c, "catch") /\ UNCHANGED up
  BY <1>1, <1>2, ThreadMoves DEF ReadClientFinish, UnchangedClient, Goes
<1>3. CASE /\ up[c] # <<>> /\ up' = [up EXCEPT ![c] = Tail(@)]
           /\ thread' = [thread EXCEPT ![c] = [@ EXCEPT !.pc = "catch"]]
  <2>1. thread' = [thread EXCEPT ![c].pc = "catch"]
    BY <1>3
  <2> QED BY <1>1, <1>3, <2>1, ThreadMoves DEF ReadClientFinish, UnchangedClient
<1>4. CASE /\ up[c] # <<>> /\ up' = [up EXCEPT ![c] = Tail(@)]
           /\ AcceptsFinish(c, Head(up[c]))
           /\ thread' = [thread EXCEPT ![c] = [@ EXCEPT !.pc = "send_ack",
                                                  !.got = Head(up[c]).cipher.text]]
  <2> DEFINE m == Head(up[c])
             th == [thread[c] EXCEPT !.pc = "send_ack", !.got = m.cipher.text]
  <2>1. m \in UpMessage(c)
    BY <1>1, <1>4, HeadTailProperties DEF Good
  <2>2. m.type = "CLIENT_FINISH" /\ m.cipher.key = thread[c].key
    BY <1>4 DEF AcceptsFinish, HmacHolds
  <2>3. m.cipher.text = c /\ thread[c].key \in SessionKeys
    BY <2>1, <2>2, UpIsHelloOrFinish
  <2>4. thread' = [thread EXCEPT ![c] = th]
    BY <1>4
  <2>5. Good(c, client[c], thread[c], Tail(up[c]), down[c])
    BY <1>1, <1>4, TailsAreGood
  <2>6. up' = [up EXCEPT ![c] = Tail(up[c])] /\ client' = client /\ down' = down
    BY <1>4 DEF ReadClientFinish, UnchangedClient
  <2>7. down[c] \in Seq(DownMessage(c, th))
    BY <1>1, DownWidens DEF Good
  <2> HIDE DEF m
  <2>8. th \in ThreadRecord /\ th.pc = "send_ack" /\ th.got = c /\ th.key \in SessionKeys
    BY <1>1, <2>3 DEF Good, ThreadRecord, ThreadStep, Optional
  <2> HIDE DEF th
  <2>9. Good(c, client[c], th, Tail(up[c]), down[c])
    BY <1>1, <2>5, <2>7, <2>8 DEF Good, Early
  <2> QED BY <2>4, <2>6, <2>9, ThreadStepOf
<1> QED BY <1>2, <1>3, <1>4 DEF ReadClientFinish

\* What a thread that is not over sends: the locals it goes on with must fit
\* with the message sent and without.
LEMMA ThreadSendsKeeps ==
  ASSUME IInv, NEW c \in Clients, NEW m, NEW th, NEW failed \in {"catch", "closing"},
         ThreadSends(c, m, th, failed), thread[c].pc \notin {"none"} \cup Over,
         client' = client, up' = up,
         Good(c, client[c], th, up[c], down[c]), th.pc \notin Early, m \in DownMessage(c, th)
  PROVE  IInv'
<1> USE DEF SendOutcomes
<1>1. PICK outcome \in {"sent", "lost", "fails", "pipe"} :
         /\ down' = [down EXCEPT ![c] = IF outcome = "sent" THEN Append(@, m) ELSE @]
         /\ thread' = [thread EXCEPT ![c] = IF outcome = "fails"
                                            THEN [@ EXCEPT !.pc = failed] ELSE th]
  BY DEF ThreadSends
<1>2. CASE outcome = "fails"
  <2>1. down' = down
    BY <1>1, <1>2 DEF IInv, Functions, Of
  <2>2. thread' = [thread EXCEPT ![c].pc = failed]
    BY <1>1, <1>2
  <2> QED BY <2>1, <2>2, ThreadMoves
<1>3. CASE outcome # "fails"
  <2> DEFINE d == IF outcome = "sent" THEN Append(down[c], m) ELSE down[c]
  <2>1. thread' = [thread EXCEPT ![c] = th] /\ down' = [down EXCEPT ![c] = d]
    BY <1>1, <1>3
  <2>2. d \in Seq(DownMessage(c, th))
    BY AppendProperties DEF Good
  <2> HIDE DEF d
  <2>3. Good(c, client[c], th, up[c], d)
    BY <2>2 DEF Good
  <2> QED BY <2>1, <2>3, ThreadStepOf
<1> QED BY <1>2, <1>3

LEMMA SendServerHelloKeeps == ASSUME IInv, NEW c \in Clients, SendServerHello(c) PROVE IInv'
<1> DEFINE th == [thread[c] EXCEPT !.pc = "finish"]
           m == ServerHello(c, thread[c].ukm, thread[c].hello.nonce)
<1>1. Good(c, client[c], thread[c], up[c], down[c]) /\ thread[c].pc = "send_hello"
  BY DEF IInv, SendServerHello, Runs
<1>2. Good(c, client[c], th, up[c], down[c])
  BY <1>1, MoveIsGood
<1>3. thread[c].ukm \in Optional(Clients) /\ thread[c].hello = ClientHello(c)
      /\ th.pc = "finish"
  BY <1>1 DEF Good, ThreadRecord
<1>4. thread[c].hello.nonce = c
  BY <1>3 DEF ClientHello
<1>5. m \in DownMessage(c, th)
  BY <1>3, <1>4 DEF DownMessage, Hellos
<1>6. ThreadSends(c, m, th, "catch") /\ client' = client /\ up' = up
  BY DEF SendServerHello, UnchangedClient
<1> HIDE DEF th, m
<1> QED BY <1>1, <1>2, <1>3, <1>5, <1>6, ThreadSendsKeeps DEF Early

LEMMA SendErrorKeeps == ASSUME IInv, NEW c \in Clients, SendError(c) PROVE IInv'
<1> DEFINE th == [thread[c] EXCEPT !.pc = "closing"]
<1>1. Good(c, client[c], thread[c], up[c], down[c]) /\ thread[c].pc = "catch"
  BY DEF IInv, SendError, Runs
<1>2. Good(c, client[c], th, up[c], down[c])
  BY <1>1, MoveIsGood
<1>3. ServerError \in DownMessage(c, th) /\ th.pc = "closing"
  BY <1>1 DEF DownMessage, Good, ThreadRecord
<1>4. ThreadSends(c, ServerError, th, "closing") /\ client' = client /\ up' = up
  BY DEF SendError, UnchangedClient
<1> HIDE DEF th
<1> QED BY <1>1, <1>2, <1>3, <1>4, ThreadSendsKeeps DEF Early

LEMMA SendServerAckKeeps == ASSUME IInv, NEW c \in Clients, SendServerAck(c) PROVE IInv'
<1> DEFINE th == [thread[c] EXCEPT !.pc = "closing"]
           m == ServerAck(thread[c].key, thread[c].got)
<1>1. Good(c, client[c], thread[c], up[c], down[c]) /\ thread[c].pc = "send_ack"
  BY DEF IInv, SendServerAck, Runs
<1>2. Good(c, client[c], th, up[c], down[c])
  BY <1>1, MoveIsGood
<1>3. thread[c].got = c
  BY <1>1 DEF Good
<1>4. th.pc = "closing" /\ th.got = thread[c].got /\ th.key = thread[c].key
  BY <1>1 DEF Good, ThreadRecord
<1>5. m \in DownMessage(c, th)
  BY <1>3, <1>4 DEF DownMessage, Acks
<1>6. ThreadSends(c, m, th, "catch") /\ client' = client /\ up' = up
  BY DEF SendServerAck, UnchangedClient
<1> HIDE DEF th, m
<1> QED BY <1>1, <1>2, <1>4, <1>5, <1>6, ThreadSendsKeeps DEF Early

\* The close leaves what was sent, an acknowledgement among it, to be read.
LEMMA CloseSocketKeeps == ASSUME IInv, NEW c \in Clients, CloseSocket(c) PROVE IInv'
<1> DEFINE th == [thread[c] EXCEPT !.pc = "closed"]
<1>1. Good(c, client[c], thread[c], up[c], down[c]) /\ thread[c].pc = "closing"
  BY DEF IInv, CloseSocket, Runs
<1>2. /\ th \in ThreadRecord /\ th.pc = "closed"
      /\ th.got = thread[c].got /\ th.key = thread[c].key
  BY <1>1 DEF Good, ThreadRecord, ThreadStep
<1>3. thread' = [thread EXCEPT ![c] = th] /\ UNCHANGED <<client, up, down>>
  BY DEF CloseSocket, Goes, UnchangedClient
<1> HIDE DEF th
<1>4. DownMessage(c, th) = DownMessage(c, thread[c])
  BY <1>1, <1>2 DEF DownMessage, Acks
<1>5. Good(c, client[c], th, up[c], down[c])
  BY <1>1, <1>2, <1>4 DEF Good, Early
<1> QED BY <1>3, <1>5, ThreadStepOf

LEMMA ThreadThrowsKeeps == ASSUME IInv, NEW c \in Clients, ThreadThrows(c) PROVE IInv'
BY ThreadMoves DEF ThreadThrows

-----------------------------------------------------------------------------
LEMMA StepKeeps == IInv /\ [Next]_vars => IInv'
<1> SUFFICES ASSUME IInv, [Next]_vars PROVE IInv'
  OBVIOUS
<1>1. CASE UNCHANGED <<client, thread, up, down>>
  BY <1>1 DEF IInv, Functions, Of, Good
<1>2. CASE StartServer \/ ServerEnds \/ UNCHANGED vars
  BY <1>1, <1>2 DEF StartServer, ServerEnds, vars
<1>3. ASSUME NEW c \in Clients, ClientSteps(c) PROVE IInv'
  BY <1>3, EngineInitKeeps, PrepareKeeps, ConnectKeeps, SendClientHelloKeeps,
     ReadServerHelloKeeps, SendClientFinishKeeps, ReadServerAckKeeps DEF ClientSteps
<1>4. ASSUME NEW c \in Clients, ThreadSteps(c) PROVE IInv'
  BY <1>4, AcceptKeeps, ReadClientHelloKeeps, SendServerHelloKeeps, ReadClientFinishKeeps,
     SendServerAckKeeps, SendErrorKeeps, CloseSocketKeeps DEF ThreadSteps
<1>5. ASSUME NEW c \in Clients, ClientThrows(c) \/ ThreadThrows(c) \/ ClientKilled(c) PROVE IInv'
  BY <1>5, ClientThrowsKeeps, ThreadThrowsKeeps, ClientKilledKeeps
<1> QED BY <1>2, <1>3, <1>4, <1>5 DEF Next, Faults

\* However many clients there are, and whatever throws, is killed or is sent to
\* a closed connection: a client that exits with success and its own thread hold
\* the same key, and the thread has this client's message (client.cpp 275-305,
\* server.cpp 158-217).
THEOREM AgreementHolds == Spec => []SuccessMeansAgreement
<1>1. IInv => SuccessMeansAgreement
  <2> SUFFICES ASSUME IInv, NEW c \in Clients, client[c].exit = "0"
               PROVE  /\ thread[c].pc \in Over /\ thread[c].got = c
                      /\ thread[c].key = client[c].key /\ client[c].key # None
    BY DEF SuccessMeansAgreement
  <2>1. Good(c, client[c], thread[c], up[c], down[c])
    BY DEF IInv
  <2> QED BY <2>1, NoneIsNoValue DEF Good
<1> QED BY InitEstablishes, StepKeeps, <1>1, PTL DEF Spec
=============================================================================
