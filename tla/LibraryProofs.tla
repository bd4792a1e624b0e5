---------------------------- MODULE LibraryProofs ----------------------------
(***************************************************************************)
(* Theorems about the parts of the sample project's library, for every     *)
(* number of keys, processes, lists and documents.                         *)
(***************************************************************************)
EXTENDS Library, FiniteSetTheorems, WellFoundedInduction, SequenceTheorems, TLAPS

-----------------------------------------------------------------------------
(* Sessions.  The property speaks of calls that have returned; what makes it *)
(* inductive is that a session which left the map left it for one of the two *)
(* reasons a refusal may have, and that no id comes back: a call that found  *)
(* its session unexpired and meets it in the map later has met it there all  *)
(* along.                                                                    *)

Call == [id : Nat, stage : {"none", "clock", "lookup", "returned"},
         accepted : BOOLEAN, was_live : BOOLEAN]

\* Ids are numbered through: the next one is new.
SessionsTyped ==
  /\ time \in Nat
  /\ \E n \in Nat : expires_at \in [1 .. n -> Nat]
  /\ sessions \subseteq Created
  /\ call \in [Threads -> Call]

\* A session that is no longer in the map was ended, or is too old.
GoneForAReason == \A id \in Created \ sessions : id \in ended \/ ~Unexpired(id)

\* A call on its way to the map has passed the signature and knows what it saw.
CallsKnow ==
  \A t \in Threads :
    /\ call[t].stage # "none" => call[t].id \in Created
    /\ call[t].stage \in {"clock", "lookup"} => ~call[t].accepted
    /\ call[t].stage = "lookup" => (call[t].id \in sessions => call[t].was_live)

SessionsInv == SessionsTyped /\ GoneForAReason /\ CallsKnow /\ TokensFollowSessions

\* The number of sessions created is the largest id (create_session).
LEMMA NextIdIsNew ==
  ASSUME NEW n \in Nat, expires_at \in [1 .. n -> Nat]
  PROVE  Created = 1 .. n /\ Cardinality(Created) = n
<1>1. Created = 1 .. n
  BY DEF Created
<1>2. Cardinality(1 .. n) = n
  BY FS_Interval
<1> QED BY <1>1, <1>2

LEMMA SessionsStarts == SessionsInit => SessionsInv
<1> SUFFICES ASSUME SessionsInit PROVE SessionsInv
  OBVIOUS
<1> USE DEF SessionsInit
<1>1. expires_at \in [1 .. 0 -> Nat]
  OBVIOUS
<1>2. Created = {}
  BY DEF Created
<1>3. NoCall \in Call
  BY DEF NoCall, Call
<1>4. SessionsTyped
  BY <1>1, <1>2, <1>3 DEF SessionsTyped
<1>5. GoneForAReason
  BY <1>2 DEF GoneForAReason
<1>6. CallsKnow
  BY DEF CallsKnow, NoCall
<1>7. TokensFollowSessions
  BY DEF TokensFollowSessions, Verifying, NoCall
<1> QED BY <1>4, <1>5, <1>6, <1>7 DEF SessionsInv

LEMMA CreateKeeps ==
  ASSUME SessionsInv, CreateSession
  PROVE  SessionsInv'
<1> USE SessionConstants
<1> DEFINE id == Cardinality(Created) + 1
<1>1. PICK n \in Nat : expires_at \in [1 .. n -> Nat]
  BY DEF SessionsInv, SessionsTyped
<1>2. Created = 1 .. n /\ id = n + 1
  BY <1>1, NextIdIsNew
<1>3. /\ expires_at' = [i \in Created \cup {id} |-> IF i = id THEN time + Ttl ELSE expires_at[i]]
      /\ sessions' = sessions \cup {id}
      /\ UNCHANGED <<keys, time, call, ended>>
  BY DEF CreateSession
<1> HIDE DEF id
<1>4. Created \cup {id} = 1 .. (n + 1) /\ id \notin Created
  BY <1>2
<1>5. time \in Nat /\ time + Ttl \in Nat
  BY DEF SessionsInv, SessionsTyped
<1>6. expires_at' \in [1 .. (n + 1) -> Nat]
  BY <1>1, <1>2, <1>3, <1>4, <1>5
<1>7. Created' = Created \cup {id} /\ \A i \in Created : expires_at'[i] = expires_at[i]
  BY <1>3, <1>4 DEF Created
<1>8. SessionsTyped'
  <2>1. n + 1 \in Nat /\ sessions' \subseteq Created'
    BY <1>3, <1>7 DEF SessionsInv, SessionsTyped
  <2>2. \E k \in Nat : expires_at' \in [1 .. k -> Nat]
    BY <1>6, <2>1
  <2> QED BY <1>3, <2>1, <2>2 DEF SessionsInv, SessionsTyped
<1>9. GoneForAReason'
  BY <1>3, <1>4, <1>7 DEF SessionsInv, GoneForAReason, Unexpired
<1>10. \A t \in Threads : call[t].stage # "none" => call[t].id \in Created
  BY DEF SessionsInv, CallsKnow
<1>11. CallsKnow'
  BY <1>3, <1>4, <1>7, <1>10 DEF SessionsInv, CallsKnow
<1>12. TokensFollowSessions'
  BY <1>3, <1>7, <1>10 DEF SessionsInv, TokensFollowSessions, TokenVerdict, Verifying, Unexpired,
     SignaturePasses, IssuedSigned, keys
<1> QED BY <1>8, <1>9, <1>11, <1>12 DEF SessionsInv

\* Steps that neither create a session nor touch a call: ids leave the map for
\* a reason, and time passes.
LEMMA QuietStepKeeps ==
  ASSUME SessionsInv, UNCHANGED <<keys, expires_at, call>>,
         time' \in Nat, time <= time', sessions' \subseteq sessions, ended \subseteq ended',
         \A id \in sessions \ sessions' : id \in ended' \/ ~(time' < expires_at[id])
  PROVE  SessionsInv'
<1>1. Created' = Created
  BY DEF Created
<1>2. \A id \in Created : ~Unexpired(id) => ~Unexpired(id)'
  <2> TAKE id \in Created
  <2>1. PICK n \in Nat : expires_at \in [1 .. n -> Nat]
    BY DEF SessionsInv, SessionsTyped
  <2>2. expires_at[id] \in Nat /\ time \in Nat
    BY <2>1 DEF Created, SessionsInv, SessionsTyped
  <2> QED BY <2>2 DEF Unexpired
<1>3. SessionsTyped'
  BY <1>1 DEF SessionsInv, SessionsTyped
<1>4. GoneForAReason'
  BY <1>1, <1>2 DEF SessionsInv, GoneForAReason, Unexpired
<1>5. CallsKnow'
  BY <1>1 DEF SessionsInv, CallsKnow
<1>6. TokensFollowSessions'
  <2> SUFFICES ASSUME NEW t \in Threads, Verifying(t, "returned")'
               PROVE  TokenVerdict(t)'
    BY DEF TokensFollowSessions
  <2>1. TokenVerdict(t) /\ call[t].id \in Created
    BY DEF SessionsInv, TokensFollowSessions, CallsKnow, Verifying
  <2>2. ~Unexpired(call[t].id) => ~Unexpired(call[t].id)'
    BY <1>2, <2>1
  <2> QED BY <2>1, <2>2 DEF TokenVerdict, Unexpired, SignaturePasses, IssuedSigned, keys
<1> QED BY <1>3, <1>4, <1>5, <1>6 DEF SessionsInv

\* A step of one call: the others stay what they were.
LEMMA CallStepKeeps ==
  ASSUME SessionsInv, NEW t \in Threads, NEW c \in Call, Sets(t, c),
         c.stage # "none", c.id \in Created,
         c.stage \in {"clock", "lookup"} => ~c.accepted,
         c.stage = "lookup" => (c.id \in sessions => c.was_live),
         c.stage = "returned" =>
           IF c.accepted THEN c.was_live
           ELSE ~SignaturePasses \/ ~Unexpired(c.id) \/ c.id \in ended
  PROVE  SessionsInv'
<1>1. call' = [call EXCEPT ![t] = c] /\ UNCHANGED <<keys, sessions, expires_at, time, ended>>
  BY DEF Sets
<1>2. call \in [Threads -> Call]
  BY DEF SessionsInv, SessionsTyped
<1>3. call'[t] = c /\ \A u \in Threads : u # t => call'[u] = call[u]
  BY <1>1, <1>2
<1>4. Created' = Created /\ SignaturePasses' = SignaturePasses
  BY <1>1 DEF Created, SignaturePasses, IssuedSigned, keys
<1>5. SessionsTyped'
  BY <1>1, <1>2, <1>4 DEF SessionsInv, SessionsTyped
<1>6. GoneForAReason'
  BY <1>1, <1>4 DEF SessionsInv, GoneForAReason, Unexpired
<1>7. CallsKnow'
  BY <1>1, <1>3, <1>4 DEF SessionsInv, CallsKnow
<1>8. TokensFollowSessions'
  <2> SUFFICES ASSUME NEW u \in Threads, Verifying(u, "returned")'
               PROVE  TokenVerdict(u)'
    BY DEF TokensFollowSessions
  <2>1. CASE u = t
    BY <1>1, <1>3, <1>4, <2>1 DEF TokenVerdict, Verifying, Unexpired
  <2>2. CASE u # t
    <3>1. TokenVerdict(u)
      BY <1>3, <2>2 DEF SessionsInv, TokensFollowSessions, Verifying
    <3> QED BY <1>1, <1>3, <1>4, <2>2, <3>1 DEF TokenVerdict, Unexpired
  <2> QED BY <2>1, <2>2
<1> QED BY <1>5, <1>6, <1>7, <1>8 DEF SessionsInv

LEMMA BeginVerifyKeeps ==
  ASSUME SessionsInv, NEW t \in Threads, NEW id \in Created, BeginVerify(t, id)
  PROVE  SessionsInv'
<1> DEFINE c == [id |-> id, stage |-> IF SignaturePasses THEN "clock" ELSE "returned",
                 accepted |-> FALSE, was_live |-> FALSE]
<1>1. id \in Nat
  BY DEF SessionsInv, SessionsTyped, Created
<1>2. c \in Call /\ Sets(t, c)
  BY <1>1 DEF Call, BeginVerify
<1> QED BY <1>2, CallStepKeeps

LEMMA CheckClockKeeps ==
  ASSUME SessionsInv, NEW t \in Threads, CheckClock(t)
  PROVE  SessionsInv'
<1> DEFINE id == call[t].id
           c == [call[t] EXCEPT !.stage = IF Unexpired(id) THEN "lookup" ELSE "returned",
                                !.was_live = Unexpired(id) /\ id \in sessions]
<1>1. call[t] \in Call /\ call[t].stage = "clock" /\ id \in Created
  BY DEF SessionsInv, SessionsTyped, CallsKnow, CheckClock, Verifying
<1>2. (Unexpired(id) /\ id \in sessions) \in BOOLEAN
  OBVIOUS
<1>3. c \in Call /\ Sets(t, c)
  BY <1>1, <1>2 DEF Call, CheckClock
<1>4. ~call[t].accepted
  BY <1>1 DEF SessionsInv, CallsKnow
<1>5. c.stage = "lookup" => (c.id \in sessions => c.was_live)
  BY <1>1 DEF Call
<1>6. c.stage = "returned" => ~Unexpired(c.id)
  BY <1>1 DEF Call
<1>7. c.id = id /\ c.accepted = call[t].accepted /\ c.stage # "none"
  BY <1>1 DEF Call
<1> HIDE DEF c, id
<1> QED BY <1>1, <1>3, <1>4, <1>5, <1>6, <1>7, CallStepKeeps

LEMMA LookUpKeeps ==
  ASSUME SessionsInv, NEW t \in Threads, LookUp(t)
  PROVE  SessionsInv'
<1> DEFINE id == call[t].id
           c == [call[t] EXCEPT !.stage = "returned", !.accepted = id \in sessions]
<1>1. call[t] \in Call /\ call[t].stage = "lookup" /\ id \in Created
  BY DEF SessionsInv, SessionsTyped, CallsKnow, LookUp, Verifying
<1>2. (id \in sessions) \in BOOLEAN
  OBVIOUS
<1>3. c \in Call /\ Sets(t, c)
  BY <1>1, <1>2 DEF Call, LookUp
<1>4. id \in sessions => call[t].was_live
  BY <1>1 DEF SessionsInv, CallsKnow
<1>5. id \notin sessions => id \in ended \/ ~Unexpired(id)
  BY <1>1 DEF SessionsInv, GoneForAReason
<1>6. /\ c.id = id /\ c.stage = "returned" /\ c.was_live = call[t].was_live
      /\ c.accepted = (id \in sessions)
  BY <1>1 DEF Call
<1> HIDE DEF c, id
<1> QED BY <1>1, <1>3, <1>4, <1>5, <1>6, CallStepKeeps

\* A restart forgets the calls with the map.
LEMMA RestartKeeps ==
  ASSUME SessionsInv, Restart
  PROVE  SessionsInv'
<1> USE DEF Restart
<1>1. Created' = Created
  BY DEF Created
<1>2. NoCall \in Call
  BY DEF NoCall, Call
<1>3. SessionsTyped'
  BY <1>1, <1>2 DEF SessionsInv, SessionsTyped
<1>4. GoneForAReason'
  BY <1>1 DEF SessionsInv, GoneForAReason, Unexpired
<1>5. CallsKnow'
  BY DEF CallsKnow, NoCall
<1>6. TokensFollowSessions'
  BY DEF TokensFollowSessions, Verifying, NoCall
<1> QED BY <1>3, <1>4, <1>5, <1>6 DEF SessionsInv

LEMMA SessionsKeeps == SessionsInv /\ [SessionsNext]_sess => SessionsInv'
<1> SUFFICES ASSUME SessionsInv, [SessionsNext]_sess PROVE SessionsInv'
  OBVIOUS
<1>0. time \in Nat
  BY DEF SessionsInv, SessionsTyped
<1>1. CASE CreateSession
  BY <1>1, CreateKeeps
<1>2. CASE CleanupExpired
  <2>1. /\ sessions' = {id \in sessions : ~(expires_at[id] < time)}
        /\ UNCHANGED <<keys, expires_at, time, call, ended>>
    BY <1>2 DEF CleanupExpired
  <2>2. \A id \in sessions \ sessions' : ~(time' < expires_at[id])
    <3> TAKE id \in sessions \ sessions'
    <3>1. PICK n \in Nat : expires_at \in [1 .. n -> Nat]
      BY DEF SessionsInv, SessionsTyped
    <3>2. expires_at[id] \in Nat /\ expires_at[id] < time
      BY <2>1, <3>1 DEF SessionsInv, SessionsTyped, Created
    <3> QED BY <1>0, <2>1, <3>2
  <2> QED BY <1>0, <2>1, <2>2, QuietStepKeeps DEF keys
<1>3. CASE PassTime
  BY <1>0, <1>3, QuietStepKeeps DEF PassTime, keys
<1>4. CASE Restart
  BY <1>4, RestartKeeps
<1>5. CASE \E id \in Created : Invalidate(id)
  BY <1>0, <1>5, QuietStepKeeps DEF Invalidate, keys
<1>6. CASE \E id \in Created : \E t \in Threads : BeginVerify(t, id)
  BY <1>6, BeginVerifyKeeps
<1>7. CASE \E t \in Threads : CheckClock(t)
  BY <1>7, CheckClockKeeps
<1>8. CASE \E t \in Threads : LookUp(t)
  BY <1>8, LookUpKeeps
<1>9. CASE UNCHANGED sess
  BY <1>0, <1>9, QuietStepKeeps DEF sess, keys
<1> QED BY <1>1, <1>2, <1>3, <1>4, <1>5, <1>6, <1>7, <1>8, <1>9 DEF SessionsNext

\* A token is accepted only for a session that was in the map and unexpired at
\* one moment of the call, and refused only for its signature, its age or the
\* end of its session, however many threads verify, invalidate and clean up at
\* once and whenever the process restarts (verify_token).
THEOREM TokensAreSound == SessionsSpec => []TokensFollowSessions
<1>1. SessionsInit => SessionsInv
  BY SessionsStarts
<1>2. SessionsInv /\ [SessionsNext]_sess => SessionsInv'
  BY SessionsKeeps
<1>3. SessionsInv => TokensFollowSessions
  BY DEF SessionsInv
<1> QED BY <1>1, <1>2, <1>3, PTL DEF SessionsSpec

-----------------------------------------------------------------------------
(* Revocation lists.  The index is that of the last list that was loaded, *)
(* and a cached manager is never replaced.                                 *)

CrlSpec == CrlInit /\ [][CrlNext]_crls

IndexIsOfLast == revoked_map = BuildIndex(last)

CacheKeepsItsOwn ==
  /\ loads \in Nat
  /\ cache \in [Urls -> Nat]
  /\ \A r \in handed : r[1] \in Urls /\ r[2] # 0 /\ cache[r[1]] = r[2]

CrlInv == IndexIsOfLast /\ CacheKeepsItsOwn

LEMMA CrlStarts == CrlInit => CrlInv
BY DEF CrlInit, CrlInv, IndexIsOfLast, CacheKeepsItsOwn, BuildIndex, NoList

\* An empty manager has no next update and is not expired (is_expired).
LEMMA EmptyNeverExpires == ~IsExpired(NoList)
BY DEF IsExpired, NextUpdate, NoList

LEMMA GetCrlKeeps ==
  ASSUME CrlInv, NEW url \in Urls, GetCrl(url)
  PROVE  CrlInv'
<1> DEFINE fresh == IF cache[url] = 0 THEN loads + 1 ELSE cache[url]
<1>1. /\ loads' = loads + 1 /\ cache' = [cache EXCEPT ![url] = fresh]
      /\ handed' = handed \cup {<<url, fresh>>}
      /\ UNCHANGED <<revoked_map, last>>
  BY EmptyNeverExpires DEF GetCrl, CountLoad, CachedList
<1>2. loads \in Nat /\ cache \in [Urls -> Nat]
  BY DEF CrlInv, CacheKeepsItsOwn
<1>3. fresh \in Nat \ {0}
  BY <1>2
<1> HIDE DEF fresh
<1>4. cache' \in [Urls -> Nat] /\ cache'[url] = fresh
  BY <1>1, <1>2, <1>3
<1>5. ASSUME NEW r \in handed' PROVE r[1] \in Urls /\ r[2] # 0 /\ cache'[r[1]] = r[2]
  <2>1. CASE r \in handed
    <3>1. r[1] \in Urls /\ r[2] # 0 /\ cache[r[1]] = r[2]
      BY <2>1 DEF CrlInv, CacheKeepsItsOwn
    <3>2. r[1] = url => fresh = cache[url]
      BY <3>1 DEF fresh
    <3> QED BY <1>1, <1>2, <3>1, <3>2
  <2>2. CASE r = <<url, fresh>>
    BY <1>3, <1>4, <2>2
  <2> QED BY <1>1, <2>1, <2>2
<1>6. CacheKeepsItsOwn'
  BY <1>1, <1>2, <1>4, <1>5 DEF CacheKeepsItsOwn
<1>7. IndexIsOfLast'
  BY <1>1 DEF CrlInv, IndexIsOfLast, BuildIndex
<1> QED BY <1>6, <1>7 DEF CrlInv

LEMMA CrlKeeps == CrlInv /\ [CrlNext]_crls => CrlInv'
<1> SUFFICES ASSUME CrlInv, [CrlNext]_crls PROVE CrlInv'
  OBVIOUS
<1> USE DEF CrlInv, IndexIsOfLast, CacheKeepsItsOwn, BuildIndex
<1>1. ASSUME NEW list, LoadList(list) PROVE CrlInv'
  BY <1>1 DEF LoadList, CountLoad
<1>2. CASE LoadFails
  BY <1>2 DEF LoadFails, CountLoad
<1>3. CASE OpenFails
  BY <1>3 DEF OpenFails, CountLoad
<1>4. CASE NextDay
  BY <1>4 DEF NextDay
<1>5. ASSUME NEW url \in Urls, GetCrl(url) PROVE CrlInv'
  BY <1>5, GetCrlKeeps
<1>6. CASE UNCHANGED crls
  BY <1>6 DEF crls
<1> QED BY <1>1, <1>2, <1>3, <1>4, <1>5, <1>6 DEF CrlNext, LoadFromFile, LoadFromMemory

LEMMA CrlInvSuffices == CrlInv => RevocationFollowsLastList /\ ReferencesStayValid
<1> SUFFICES ASSUME CrlInv PROVE RevocationFollowsLastList /\ ReferencesStayValid
  OBVIOUS
<1>1. ASSUME NEW s PROVE BN_bn2hex(s) \in BuildIndex(last) <=> s \in last.serials
  BY DEF BuildIndex, BN_bn2hex, Spelled
<1>2. RevocationFollowsLastList
  BY <1>1 DEF CrlInv, IndexIsOfLast, RevocationFollowsLastList, IsRevoked, IsRevokedSpelled
<1>3. ReferencesStayValid
  BY DEF CrlInv, CacheKeepsItsOwn, ReferencesStayValid
<1> QED BY <1>2, <1>3

\* Whatever is loaded, fails to load and is asked for, in any order: a
\* certificate is revoked as the last readable list says, and a reference into
\* the cache stays valid (CrlManager::load_from_*, is_revoked, CrlCache::get_crl).
THEOREM RevocationIsSound == CrlSpec => [](RevocationFollowsLastList /\ ReferencesStayValid)
BY CrlStarts, CrlKeeps, CrlInvSuffices, PTL DEF CrlSpec

-----------------------------------------------------------------------------
(* The vault.  What the sealed file holds, and what an open vault holds,   *)
(* never loses a key whose store_key returned nor the mark on a revoked    *)
(* one; an operation that has events left to audit has saved what it did.  *)

Stores == {<<"KEY_STORE">>, <<"KEY_STORE", "KEY_GENERATE">>, <<"KEY_GENERATE">>}
Writes == Stores \cup {<<"KEY_REVOKE">>, <<"VAULT_REKEY">>}
Reads == {<<"KEY_LOAD">>, <<"KEY_LOAD", "KEY_EXPORT_PUB">>, <<"KEY_EXPORT_PUB">>}

VaultEntry == [id : Ids, material : Nat, expires : Nat, active : BOOLEAN, key : Passwords]
Blob == [is : {"sealed"}, key : Passwords, entries : Seq(VaultEntry)]
Operation ==
  [left : Writes \cup Reads, id : Ids \cup {None}, next : {"truncate", "write", "audit"}]
Stage == {"down", "logging", "demo", "create", "creating", "open", "generate", "serve"}
Loaded == stage \in {"generate", "serve"}

VaultTyped ==
  /\ stage \in Stage
  /\ vault_file \in {Absent, Cut} \cup Blob
  /\ entries \in Seq(VaultEntry)
  /\ op \in Operation \cup {Idle}
  /\ now \in Nat /\ stored \in Nat
  /\ Loaded => master_key \in Passwords

Materials(es) == {es[i].material : i \in DOMAIN es}

\* The first entry of the name is not active: no later one counts.
Dead(es, id) ==
  \E i \in DOMAIN es :
    es[i].id = id /\ ~es[i].active /\ \A j \in DOMAIN es : j < i => es[j].id # id

Holds(es) == returned \subseteq Materials(es) /\ \A id \in revoked : Dead(es, id)

FilesHold ==
  /\ Loaded => Holds(entries)
  /\ vault_file.is = "sealed" => Holds(vault_file.entries)
  /\ vault_file = Absent \/ stage = "creating" => returned = {} /\ revoked = {}
  /\ Loaded \/ stage = "open" => vault_file # Absent

OperationsSave ==
  /\ stage # "serve" => op = Idle
  /\ op.next \in {"truncate", "write"} => op.left \in Writes
  /\ op.left \in Stores => entries # <<>>
  /\ op.left = <<"KEY_REVOKE">> => Dead(entries, op.id)
  /\ op.next = "audit" /\ op.left \in Writes => vault_file \in {Sealed(master_key, entries), Cut}

VaultInv == VaultTyped /\ FilesHold /\ OperationsSave

\* Every set of natural numbers that is not empty has a least element.
LEMMA LeastNat ==
  ASSUME NEW T, T \subseteq Nat, T # {}
  PROVE  \E m \in T : \A k \in T : m <= k
<1> DEFINE R == OpToRel(<, Nat)
<1>1. IsWellFoundedOn(R, Nat)
  BY NatLessThanWellFounded
<1>2. \A x, y \in Nat : x < y => <<x, y>> \in R
  BY DEF OpToRel
<1> HIDE DEF R
<1>3. PICK x \in T : \A y \in T : ~ (<<y, x>> \in R)
  BY <1>1, WFMin
<1>4. ASSUME NEW k \in T PROVE x <= k
  <2>1. k \in Nat /\ x \in Nat
    OBVIOUS
  <2>2. ~(k < x)
    BY <1>2, <1>3, <2>1
  <2> QED BY <2>1, <2>2
<1> QED BY <1>4

LEMMA MinIsLeast ==
  ASSUME NEW T, T \subseteq Nat, T # {}
  PROVE  Min(T) \in T /\ \A k \in T : Min(T) <= k
BY LeastNat DEF Min

LEMMA LeastIsMin ==
  ASSUME NEW T, T \subseteq Nat, NEW m \in T, \A k \in T : m <= k
  PROVE  Min(T) = m
<1>1. Min(T) \in T /\ Min(T) <= m
  BY MinIsLeast
<1>2. m <= Min(T) /\ m \in Nat /\ Min(T) \in Nat
  BY <1>1
<1> QED BY <1>1, <1>2

\* Every search of the list finds the first entry of the name.
LEMMA FirstIsFirst ==
  ASSUME entries \in Seq(VaultEntry), NEW id, Named(id) # {}
  PROVE  /\ First(id) \in DOMAIN entries /\ entries[First(id)].id = id
         /\ \A j \in DOMAIN entries : j < First(id) => entries[j].id # id
<1>1. Named(id) \subseteq Nat
  BY DEF Named
<1>2. First(id) \in Named(id) /\ \A k \in Named(id) : First(id) <= k
  BY <1>1, MinIsLeast DEF First
<1>3. ASSUME NEW j \in DOMAIN entries, j < First(id) PROVE entries[j].id # id
  <2>1. j \notin Named(id)
    BY <1>1, <1>2, <1>3
  <2> QED BY <2>1 DEF Named
<1> QED BY <1>2, <1>3 DEF Named

\* A dead name is not offered (load_key).
LEMMA DeadIsNotOffered ==
  ASSUME entries \in Seq(VaultEntry), NEW id, Dead(entries, id)
  PROVE  ~Offered(id)
<1>1. PICK i \in DOMAIN entries : /\ entries[i].id = id /\ ~entries[i].active
                                  /\ \A j \in DOMAIN entries : j < i => entries[j].id # id
  BY DEF Dead
<1>2. i \in Named(id)
  BY <1>1 DEF Named
<1>3. /\ First(id) \in DOMAIN entries /\ entries[First(id)].id = id
      /\ \A j \in DOMAIN entries : j < First(id) => entries[j].id # id
  BY <1>2, FirstIsFirst
<1>4. First(id) = i
  <2>1. i \in Nat /\ First(id) \in Nat
    BY <1>3
  <2> QED BY <1>1, <1>3, <2>1
<1> QED BY <1>1, <1>4 DEF Offered

\* fs has the entries of es at their places, at most deactivated, and perhaps more.
Grows(es, fs) ==
  /\ DOMAIN es \subseteq DOMAIN fs
  /\ \A i \in DOMAIN es : /\ fs[i].id = es[i].id /\ fs[i].material = es[i].material
                          /\ fs[i].active => es[i].active

LEMMA GrowthKeepsDead ==
  ASSUME NEW es \in Seq(VaultEntry), NEW fs \in Seq(VaultEntry), Grows(es, fs),
         NEW id, Dead(es, id)
  PROVE  Dead(fs, id)
<1>1. PICK i \in DOMAIN es : /\ es[i].id = id /\ ~es[i].active
                             /\ \A j \in DOMAIN es : j < i => es[j].id # id
  BY DEF Dead
<1>2. i \in DOMAIN fs /\ fs[i].id = id /\ ~fs[i].active
  BY <1>1 DEF Grows
<1>3. ASSUME NEW j \in DOMAIN fs, j < i PROVE fs[j].id # id
  <2>1. j \in DOMAIN es
    BY <1>3
  <2> QED BY <1>1, <1>3, <2>1 DEF Grows
<1> QED BY <1>2, <1>3 DEF Dead

LEMMA GrowthKeepsMaterials ==
  ASSUME NEW es, NEW fs, Grows(es, fs)
  PROVE  Materials(es) \subseteq Materials(fs)
BY DEF Materials, Grows

LEMMA GrowthHolds ==
  ASSUME NEW es \in Seq(VaultEntry), NEW fs \in Seq(VaultEntry), Grows(es, fs), Holds(es)
  PROVE  Holds(fs)
BY GrowthKeepsDead, GrowthKeepsMaterials DEF Holds

\* A list that is empty holds what was never handed out.
LEMMA NothingHeld ==
  ASSUME returned = {}, revoked = {}, NEW es
  PROVE  Holds(es)
BY DEF Holds

LEMMA VaultStarts == Init => VaultInv
<1> SUFFICES ASSUME Init PROVE VaultInv
  OBVIOUS
<1>1. VaultTyped
  BY DEF Init, VaultInit, VaultTyped, Loaded, Stage
<1>2. FilesHold
  BY DEF Init, VaultInit, FilesHold, Loaded, Absent
<1>3. OperationsSave
  BY DEF Init, VaultInit, OperationsSave, Idle, Stores
<1> QED BY <1>1, <1>2, <1>3 DEF VaultInv

\* What is true of an operation, and of none.
LEMMA IdleIsSaved ==
  ASSUME op = Idle
  PROVE  OperationsSave
BY DEF OperationsSave, Idle, Stores, Writes

LEMMA IdleIsNoOperation ==
  ASSUME op \in Operation
  PROVE  op # Idle /\ op.next # "none" /\ op.left # <<>>
BY DEF Operation, Idle, Writes, Stores, Reads

\* A step that only moves main on, or makes the process forget what it held.
LEMMA MainMovesOn ==
  ASSUME VaultInv, UNCHANGED <<vault, stored, returned, revoked>>, stage # "serve",
         stage' \in Stage \ {"creating", "generate", "serve"},
         stage' = "open" => vault_file # Absent
  PROVE  VaultInv'
<1>1. UNCHANGED <<vault_file, master_key, entries, op, now, stored, returned, revoked>>
  BY DEF vault
<1>2. op = Idle
  BY DEF VaultInv, OperationsSave
<1>3. VaultTyped'
  BY <1>1 DEF VaultInv, VaultTyped, Loaded, Stage
<1>4. FilesHold'
  BY <1>1 DEF VaultInv, FilesHold, Loaded, Holds, Dead
<1>5. OperationsSave'
  BY <1>1, <1>2 DEF OperationsSave, Idle, Stores, Writes
<1> QED BY <1>3, <1>4, <1>5 DEF VaultInv

LEMMA ForgetKeeps ==
  ASSUME VaultInv, Forget, UNCHANGED <<vault_file, now, stored, returned, revoked>>,
         stage' \in {"down", "logging"}
  PROVE  VaultInv'
<1>1. entries' = <<>> /\ op' = Idle
  BY DEF Forget
<1>2. VaultTyped'
  BY <1>1 DEF VaultInv, VaultTyped, Loaded, Stage
<1>3. FilesHold'
  BY DEF VaultInv, FilesHold, Loaded, Holds, Dead
<1>4. OperationsSave'
  BY <1>1 DEF OperationsSave, Idle, Stores, Writes
<1> QED BY <1>2, <1>3, <1>4 DEF VaultInv

LEMMA CreateVaultKeeps ==
  ASSUME VaultInv, NEW p \in Passwords, CreateVault(p)
  PROVE  VaultInv'
<1>1. UNCHANGED <<stored, returned, revoked>>
  BY DEF CreateVault, history
<1>2. CASE stage = "create" /\ vault_file = Absent /\ BeginCreate /\ stage' = "creating"
  <2>1. vault_file' = Cut /\ UNCHANGED <<master_key, entries, op, now>> /\ op = Idle
    BY <1>2 DEF BeginCreate, VaultInv, OperationsSave
  <2>2. returned = {} /\ revoked = {}
    BY <1>2 DEF VaultInv, FilesHold
  <2>3. VaultTyped'
    BY <1>1, <1>2, <2>1 DEF VaultInv, VaultTyped, Loaded, Stage
  <2>4. FilesHold'
    BY <1>1, <1>2, <2>1, <2>2 DEF FilesHold, Loaded, Cut
  <2>5. OperationsSave'
    BY <2>1 DEF OperationsSave, Idle, Stores, Writes
  <2> QED BY <2>3, <2>4, <2>5 DEF VaultInv
<1>3. CASE stage = "creating" /\ EndCreate(p) /\ stage' = "open"
  <2>1. /\ vault_file' \in {Sealed(p, <<>>), Cut} /\ UNCHANGED <<master_key, entries, op, now>>
        /\ op = Idle
    BY <1>3 DEF EndCreate, VaultInv, OperationsSave
  <2>2. returned' = {} /\ revoked' = {}
    BY <1>1, <1>3 DEF VaultInv, FilesHold
  <2>3. Sealed(p, <<>>) \in Blob
    BY DEF Sealed, Blob
  <2>4. VaultTyped'
    BY <1>1, <1>3, <2>1, <2>3 DEF VaultInv, VaultTyped, Loaded, Stage
  <2>5. FilesHold'
    BY <1>3, <2>1, <2>2 DEF FilesHold, Loaded, Cut, Sealed, Absent, Holds
  <2>6. OperationsSave'
    BY <2>1 DEF OperationsSave, Idle, Stores, Writes
  <2> QED BY <2>4, <2>5, <2>6 DEF VaultInv
<1>4. CASE stage = "create" /\ vault_file # Absent /\ stage' = "open" /\ UNCHANGED vault
  BY <1>1, <1>4, MainMovesOn DEF Stage
<1> QED BY <1>2, <1>3, <1>4 DEF CreateVault

LEMMA OpenKeeps ==
  ASSUME VaultInv, NEW p \in Passwords, OpenVault(p)
  PROVE  VaultInv'
<1>1. stage = "open" /\ UNCHANGED <<stored, returned, revoked>> /\ vault_file # Absent
  BY DEF OpenVault, history, VaultInv, FilesHold
<1>2. CASE Open(p) /\ stage' = IF entries' = <<>> THEN "generate" ELSE "serve"
  <2>1. Opens(vault_file, p)
    BY <1>1, <1>2 DEF Open, CanOpen
  <2>2. vault_file.is = "sealed" /\ vault_file \in Blob
    BY <2>1 DEF Opens, VaultInv, VaultTyped, Absent, Cut
  <2>3. /\ entries' = vault_file.entries /\ master_key' = p /\ op = Idle
        /\ UNCHANGED <<vault_file, op, now>>
    BY <1>1, <1>2, <2>1 DEF Open, VaultInv, OperationsSave
  <2>4. entries' \in Seq(VaultEntry)
    BY <2>2, <2>3 DEF Blob
  <2>5. stage' \in {"generate", "serve"}
    BY <1>2
  <2>6. VaultTyped'
    BY <1>1, <2>3, <2>4, <2>5 DEF VaultInv, VaultTyped, Loaded, Stage
  <2>7. FilesHold'
    BY <1>1, <2>2, <2>3, <2>5 DEF VaultInv, FilesHold, Holds, Dead
  <2>8. OperationsSave'
    BY <2>3 DEF OperationsSave, Idle, Stores, Writes
  <2> QED BY <2>6, <2>7, <2>8 DEF VaultInv
<1>3. CASE ~CanOpen(p) /\ stage' = "down" /\ UNCHANGED vault
  BY <1>1, <1>3, MainMovesOn DEF Stage
<1> QED BY <1>2, <1>3 DEF OpenVault

\* An operation on an open vault begins: the list grows, the file waits.
LEMMA ChangeKeeps ==
  ASSUME VaultInv, Loaded, stage' = "serve",
         UNCHANGED <<vault_file, now, returned, revoked>>, stored' \in Nat,
         master_key' \in Passwords, entries' \in Seq(VaultEntry), Grows(entries, entries'),
         op' = Idle \/ (op' \in Operation /\ op'.next = "truncate" /\ op'.left \in Writes),
         op'.left \in Stores => entries' # <<>>,
         op'.left = <<"KEY_REVOKE">> => Dead(entries', op'.id)
  PROVE  VaultInv'
<1>1. VaultTyped'
  BY DEF VaultInv, VaultTyped, Loaded, Stage
<1>2. Holds(entries)'
  <2>1. Holds(entries)
    BY DEF VaultInv, FilesHold
  <2>2. entries \in Seq(VaultEntry)
    BY DEF VaultInv, VaultTyped
  <2>3. returned \subseteq Materials(entries') /\ \A id \in revoked : Dead(entries', id)
    BY <2>1, <2>2, GrowthKeepsDead, GrowthKeepsMaterials DEF Holds
  <2>4. Materials(entries)' = Materials(entries')
    BY DEF Materials
  <2>5. ASSUME NEW id PROVE Dead(entries, id)' = Dead(entries', id)
    BY DEF Dead
  <2> QED BY <2>3, <2>4, <2>5 DEF Holds
<1>3. FilesHold'
  BY <1>2 DEF VaultInv, FilesHold, Loaded, Holds, Dead
<1>4. OperationsSave'
  BY DEF OperationsSave, Idle, Stores, Writes, Dead
<1> QED BY <1>1, <1>3, <1>4 DEF VaultInv

\* A new key goes to the end of the list (store_key, generate_gost_keypair).
LEMMA AppendGrows ==
  ASSUME VaultInv, Loaded, NEW id \in Ids, NEW v \in Nat
  PROVE  LET e == Entry(id, stored + 1, v)
         IN  /\ Append(entries, e) \in Seq(VaultEntry) /\ Append(entries, e) # <<>>
             /\ Grows(entries, Append(entries, e))
<1> DEFINE e == Entry(id, stored + 1, v)
<1>1. entries \in Seq(VaultEntry) /\ e \in VaultEntry
  BY DEF VaultInv, VaultTyped, Entry, VaultEntry
<1> HIDE DEF e
<1>2. /\ Append(entries, e) \in Seq(VaultEntry) /\ Len(Append(entries, e)) = Len(entries) + 1
      /\ \A i \in 1 .. Len(entries) : Append(entries, e)[i] = entries[i]
  BY <1>1
<1>3. DOMAIN entries = 1 .. Len(entries) /\ DOMAIN Append(entries, e) = 1 .. Len(entries) + 1
  BY <1>1, <1>2
<1>4. Grows(entries, Append(entries, e))
  BY <1>1, <1>2, <1>3 DEF Grows
<1>5. Append(entries, e) # <<>>
  <2>1. Len(Append(entries, e)) # 0
    BY <1>1, <1>2
  <2> QED BY <2>1
<1> QED BY <1>2, <1>4, <1>5 DEF e

LEMMA FirstKeyKeeps ==
  ASSUME VaultInv, FirstKey
  PROVE  VaultInv'
<1> DEFINE longest == Max(Validities)
<1>1. longest \in Nat
  BY StorageConstants DEF Max
<1> HIDE DEF longest
<1>2. Loaded /\ ServerKey \in Ids /\ stored \in Nat /\ master_key \in Passwords
  BY StorageConstants DEF FirstKey, Loaded, VaultInv, VaultTyped
<1>3. /\ entries' = Append(entries, Entry(ServerKey, stored + 1, longest))
      /\ op' = Saving(<<"KEY_STORE", "KEY_GENERATE">>, ServerKey)
      /\ stage' = "serve" /\ stored' = stored + 1
      /\ UNCHANGED <<vault_file, master_key, now, returned, revoked>>
  BY DEF FirstKey, GenerateGostKeypair, longest
<1>4. /\ entries' \in Seq(VaultEntry) /\ entries' # <<>> /\ Grows(entries, entries')
  BY <1>1, <1>2, <1>3, AppendGrows
<1>5. op' \in Operation /\ op'.next = "truncate" /\ op'.left \in Writes /\ op'.left # <<"KEY_REVOKE">>
  BY <1>2, <1>3 DEF Saving, Operation, Writes, Stores
<1> QED BY <1>2, <1>3, <1>4, <1>5, ChangeKeeps

LEMMA StoreKeeps ==
  ASSUME VaultInv, NEW id \in Ids, NEW v \in Validities, Store(id, v)
  PROVE  VaultInv'
<1>1. v \in Nat
  BY StorageConstants
<1>2. Loaded /\ stored \in Nat /\ master_key \in Passwords
  BY DEF Store, Loaded, VaultInv, VaultTyped
<1>3. /\ entries' = Append(entries, Entry(id, stored + 1, v))
      /\ op' = Saving(<<"KEY_STORE">>, id)
      /\ stage' = "serve" /\ stored' = stored + 1
      /\ UNCHANGED <<vault_file, master_key, now, returned, revoked>>
  BY DEF Store, StoreKey
<1>4. /\ entries' \in Seq(VaultEntry) /\ entries' # <<>> /\ Grows(entries, entries')
  BY <1>1, <1>2, <1>3, AppendGrows
<1>5. op' \in Operation /\ op'.next = "truncate" /\ op'.left \in Writes /\ op'.left # <<"KEY_REVOKE">>
  BY <1>3 DEF Saving, Operation, Writes, Stores
<1> QED BY <1>2, <1>3, <1>4, <1>5, ChangeKeeps

\* The first entry of the name is marked, and with it the name (revoke_key).
LEMMA RevokeKeeps ==
  ASSUME VaultInv, NEW id \in Ids, stage = "serve", RevokeKey(id), UNCHANGED <<stage, history>>
  PROVE  VaultInv'
<1> DEFINE f == First(id)
<1>1. entries \in Seq(VaultEntry) /\ Loaded /\ stored \in Nat /\ master_key \in Passwords
  BY DEF Loaded, VaultInv, VaultTyped
<1>2. /\ f \in DOMAIN entries /\ entries[f].id = id
      /\ \A j \in DOMAIN entries : j < f => entries[j].id # id
  BY <1>1, FirstIsFirst DEF RevokeKey
<1>3. /\ entries' = [entries EXCEPT ![f].active = FALSE]
      /\ op' = Saving(<<"KEY_REVOKE">>, id)
      /\ UNCHANGED <<vault_file, master_key, now, stored, returned, revoked>>
  BY DEF RevokeKey, history
<1> HIDE DEF f
<1>4. DOMAIN entries' = DOMAIN entries
  BY <1>3
<1>5. \A i \in DOMAIN entries : entries'[i] = IF i = f THEN [entries[i] EXCEPT !.active = FALSE] ELSE entries[i]
  BY <1>1, <1>3
<1>6. \A i \in DOMAIN entries : entries[i] \in VaultEntry
  BY <1>1
<1>7. entries' \in Seq(VaultEntry)
  <2>1. [entries[f] EXCEPT !.active = FALSE] \in VaultEntry
    BY <1>2, <1>6 DEF VaultEntry
  <2> QED BY <1>1, <1>2, <1>3, <2>1
<1>8. Grows(entries, entries')
  BY <1>4, <1>5, <1>6 DEF Grows, VaultEntry
<1>9. Dead(entries', id)
  <2>1. ~entries'[f].active /\ entries'[f].id = id
    BY <1>2, <1>5, <1>6 DEF VaultEntry
  <2>2. \A j \in DOMAIN entries : entries'[j].id = entries[j].id
    BY <1>8 DEF Grows
  <2> QED BY <1>2, <1>4, <2>1, <2>2 DEF Dead
<1>10. /\ op' \in Operation /\ op'.next = "truncate" /\ op'.left \in Writes /\ op'.id = id
       /\ op'.left \notin Stores
  BY <1>3 DEF Saving, Operation, Writes, Stores
<1> QED BY <1>1, <1>3, <1>7, <1>8, <1>9, <1>10, ChangeKeeps

\* However far the loop over the keys comes, it changes nothing but what wraps
\* them (change_password).
LEMMA RekeyKeeps ==
  ASSUME VaultInv, NEW p \in Passwords, NEW q \in Passwords, Rekey(p, q)
  PROVE  VaultInv'
<1> DEFINE n == Rewrapped(q)
<1>1. entries \in Seq(VaultEntry) /\ Loaded /\ stored \in Nat /\ master_key \in Passwords
  BY DEF Loaded, VaultInv, VaultTyped, Rekey
<1>2. /\ stage' = "serve"
      /\ entries' = [i \in DOMAIN entries |-> IF i <= n THEN [entries[i] EXCEPT !.key = q] ELSE entries[i]]
      /\ master_key' \in {master_key, q}
      /\ op' \in {Saving(<<"VAULT_REKEY">>, None), Idle}
      /\ UNCHANGED <<vault_file, now, stored, returned, revoked>>
  BY DEF Rekey, ChangePassword, history
<1> HIDE DEF n
<1>3. \A i \in DOMAIN entries : entries[i] \in VaultEntry
  BY <1>1
<1>4. \A i \in DOMAIN entries : [entries[i] EXCEPT !.key = q] \in VaultEntry
  BY <1>3 DEF VaultEntry
<1>5. DOMAIN entries = 1 .. Len(entries) /\ Len(entries) \in Nat
  BY <1>1
<1>6. entries' \in Seq(VaultEntry)
  BY <1>2, <1>3, <1>4, <1>5
<1>7. Grows(entries, entries')
  BY <1>2, <1>3 DEF Grows, VaultEntry
<1>8. op' = Idle \/ (op' \in Operation /\ op'.next = "truncate" /\ op'.left \in Writes)
  BY <1>2 DEF Saving, Operation, Writes, Stores
<1>9. op'.left \notin Stores /\ op'.left # <<"KEY_REVOKE">>
  BY <1>2, SMTT(30) DEF Saving, Idle, Stores
<1> QED BY <1>1, <1>2, <1>6, <1>7, <1>8, <1>9, ChangeKeeps

\* Nothing is written by a reading operation; it has only events to audit.
LEMMA ReadKeeps ==
  ASSUME VaultInv, stage = "serve", op' \in Operation, op'.left \in Reads, op'.next = "audit",
         UNCHANGED <<stage, vault_file, master_key, entries, now, stored, returned, revoked>>
  PROVE  VaultInv'
<1>1. VaultTyped'
  BY DEF VaultInv, VaultTyped, Loaded, Stage
<1>2. FilesHold'
  BY DEF VaultInv, FilesHold, Loaded, Holds, Dead
<1>3. op'.left \notin Writes
  BY DEF Reads, Writes, Stores
<1>4. OperationsSave'
  BY <1>3 DEF OperationsSave, Idle, Writes
<1> QED BY <1>1, <1>2, <1>4 DEF VaultInv

LEMMA OperateKeeps ==
  ASSUME VaultInv, NEW id \in Ids, Change(id)
  PROVE  VaultInv'
<1>1. stage = "serve" /\ UNCHANGED <<stage, history>>
  BY DEF Change
<1>2. CASE RevokeKey(id)
  BY <1>1, <1>2, RevokeKeeps
<1>3. CASE LoadKey(id)
  <2>1. op' = Auditing(<<"KEY_LOAD">>, id)
    BY <1>3 DEF LoadKey
  <2>2. op' \in Operation /\ op'.left \in Reads /\ op'.next = "audit"
    BY <2>1 DEF Auditing, Operation, Reads
  <2> QED BY <1>1, <1>3, <2>2, ReadKeeps DEF LoadKey, history
<1>4. CASE ExportPublicKey(id)
  <2>1. op' \in {Auditing(<<"KEY_LOAD", "KEY_EXPORT_PUB">>, id), Auditing(<<"KEY_LOAD">>, id)}
    BY <1>4 DEF ExportPublicKey
  <2>2. op' \in Operation /\ op'.left \in Reads /\ op'.next = "audit"
    BY <2>1 DEF Auditing, Operation, Reads
  <2> QED BY <1>1, <1>4, <2>2, ReadKeeps DEF ExportPublicKey, history
<1> QED BY <1>2, <1>3, <1>4 DEF Change

\* What has been written is what is in memory, or nothing that opens (save).
LEMMA SaveKeeps ==
  ASSUME VaultInv, SaveStep
  PROVE  VaultInv'
<1>1. stage = "serve" /\ Loaded /\ UNCHANGED <<stored, returned, revoked>>
  BY DEF SaveStep, Loaded, history
<1>2. op.next # "none" /\ op \in Operation /\ op.left \in Writes /\ Holds(entries)
  <2>1. op.next \in {"truncate", "write"}
    BY DEF SaveStep, Truncate, Save
  <2>2. op # Idle
    BY <2>1 DEF Idle
  <2> QED BY <1>1, <2>1, <2>2 DEF VaultInv, VaultTyped, OperationsSave, FilesHold
<1>3. CASE Truncate /\ vault_file' = Cut /\ op' = [op EXCEPT !.next = "write"]
  <2>1. UNCHANGED <<master_key, entries, now>>
    BY <1>3 DEF Truncate
  <2>2. /\ op' \in Operation /\ op'.next = "write" /\ op'.left = op.left /\ op'.id = op.id
    BY <1>2, <1>3 DEF Operation
  <2>3. stage' = "serve"
    BY <1>1, <2>2 DEF SaveStep
  <2>4. VaultTyped'
    BY <1>1, <1>3, <2>1, <2>2, <2>3 DEF VaultInv, VaultTyped, Loaded
  <2>5. FilesHold'
    BY <1>1, <1>2, <1>3, <2>1, <2>3 DEF FilesHold, Loaded, Cut, Absent, Holds, Dead
  <2>6. OperationsSave'
    BY <1>2, <2>1, <2>2, <2>3 DEF VaultInv, OperationsSave, Dead
  <2> QED BY <2>4, <2>5, <2>6 DEF VaultInv
<1>4. CASE Truncate /\ op' = Idle /\ UNCHANGED vault_file
  <2>1. UNCHANGED <<vault_file, master_key, entries, now>> /\ stage' \in {"down", "serve"}
    BY <1>1, <1>4 DEF Truncate, SaveStep
  <2>2. VaultTyped'
    BY <1>1, <1>4, <2>1 DEF VaultInv, VaultTyped, Loaded, Stage
  <2>3. FilesHold'
    BY <1>1, <1>2, <2>1 DEF VaultInv, FilesHold, Loaded, Holds, Dead
  <2>4. OperationsSave'
    BY <1>4 DEF OperationsSave, Idle, Stores, Writes
  <2> QED BY <2>2, <2>3, <2>4 DEF VaultInv
<1>5. CASE Save
  <2>1. /\ vault_file' \in {Sealed(master_key, entries), Cut} /\ op' = [op EXCEPT !.next = "audit"]
        /\ UNCHANGED <<master_key, entries, now>>
    BY <1>5 DEF Save
  <2>2. /\ op' \in Operation /\ op'.next = "audit" /\ op'.left = op.left /\ op'.id = op.id
    BY <1>2, <2>1 DEF Operation
  <2>3. stage' = "serve"
    BY <1>1, <2>2 DEF SaveStep
  <2>4. Sealed(master_key, entries) \in Blob
    BY <1>1 DEF VaultInv, VaultTyped, Sealed, Blob
  <2>5. VaultTyped'
    BY <1>1, <2>1, <2>2, <2>3, <2>4 DEF VaultInv, VaultTyped, Loaded
  <2>6. FilesHold'
    BY <1>1, <1>2, <2>1, <2>3 DEF FilesHold, Loaded, Cut, Sealed, Absent, Holds, Dead
  <2>7. OperationsSave'
    BY <1>2, <2>1, <2>2, <2>3 DEF VaultInv, OperationsSave, Dead, Sealed
  <2> QED BY <2>5, <2>6, <2>7 DEF VaultInv
<1> QED BY <1>3, <1>4, <1>5 DEF SaveStep, Truncate

\* When the last event of a storing operation is audited its key is the last of
\* the list, and whatever the file holds is this list.
LEMMA AuditKeeps ==
  ASSUME VaultInv, AuditStep
  PROVE  VaultInv'
<1>1. /\ stage = "serve" /\ op.next = "audit" /\ Loaded
      /\ UNCHANGED <<stage, stored, vault_file, master_key, entries, now>>
      /\ op' = IF Len(op.left) = 1 THEN Idle ELSE [op EXCEPT !.left = Tail(@)]
  BY DEF AuditStep, Audited, Loaded
<1>2. op \in Operation /\ entries \in Seq(VaultEntry)
  BY <1>1 DEF VaultInv, VaultTyped, Idle
<1>3. /\ returned' = IF op.left = <<"KEY_STORE">> \/ Head(op.left) = "KEY_GENERATE"
                     THEN returned \cup {entries[Len(entries)].material} ELSE returned
      /\ revoked' = IF Head(op.left) = "KEY_REVOKE" THEN revoked \cup {op.id} ELSE revoked
  BY DEF AuditStep
<1>4. Head(op.left) = "KEY_REVOKE" => op.left = <<"KEY_REVOKE">>
  BY <1>2 DEF Operation, Writes, Stores, Reads
<1>5. op.left = <<"KEY_STORE">> \/ Head(op.left) = "KEY_GENERATE" => op.left \in Stores
  BY <1>2 DEF Operation, Writes, Stores, Reads
<1>6. Holds(entries)'
  <2>1. op.left \in Stores => entries[Len(entries)].material \in Materials(entries)
    <3>1. op.left \in Stores => entries # <<>>
      BY DEF VaultInv, OperationsSave
    <3>2. entries # <<>> => Len(entries) \in DOMAIN entries
      BY <1>2
    <3> QED BY <3>1, <3>2 DEF Materials
  <2>2. returned' \subseteq Materials(entries)
    BY <1>1, <1>3, <1>5, <2>1 DEF VaultInv, FilesHold, Holds
  <2>3. \A id \in revoked' : Dead(entries, id)
    BY <1>1, <1>3, <1>4 DEF VaultInv, FilesHold, OperationsSave, Holds
  <2> QED BY <1>1, <2>2, <2>3 DEF Holds, Materials, Dead
<1>7. vault_file'.is = "sealed" => Holds(vault_file.entries)'
  <2>1. CASE op.left \in Writes
    <3>1. vault_file'.is = "sealed" => vault_file' = Sealed(master_key, entries) /\ vault_file'.entries = entries'
      BY <1>1, <2>1 DEF VaultInv, OperationsSave, Cut, Sealed
    <3> QED BY <1>6, <3>1 DEF Holds, Materials, Dead
  <2>2. CASE op.left \notin Writes
    <3>1. returned' = returned /\ revoked' = revoked
      BY <1>3, <1>4, <1>5, <2>2 DEF Writes
    <3> QED BY <1>1, <3>1 DEF VaultInv, FilesHold, Holds, Dead
  <2> QED BY <2>1, <2>2
<1>8. FilesHold'
  BY <1>1, <1>6, <1>7 DEF VaultInv, FilesHold, Loaded
<1>9. op' = Idle \/ /\ op' \in Operation /\ op'.next = "audit" /\ op'.id = op.id
                    /\ op'.left \in {<<"KEY_GENERATE">>, <<"KEY_EXPORT_PUB">>}
                    /\ op'.left \in Writes => op.left \in Writes
                    /\ op'.left \in Stores => op.left \in Stores
  <2>1. CASE Len(op.left) = 1
    BY <1>1, <2>1
  <2>2. CASE Len(op.left) # 1
    <3>1. op.left \in {<<"KEY_STORE", "KEY_GENERATE">>, <<"KEY_LOAD", "KEY_EXPORT_PUB">>}
      BY <1>2, <2>2 DEF Operation, Writes, Stores, Reads
    <3>2. op' = [op EXCEPT !.left = Tail(op.left)]
      BY <1>1, <2>2
    <3>3. CASE op.left = <<"KEY_STORE", "KEY_GENERATE">>
      <4>1. Tail(op.left) = <<"KEY_GENERATE">>
        BY <3>3
      <4> QED BY <1>1, <1>2, <3>2, <3>3, <4>1 DEF Operation, Writes, Stores, Reads
    <3>4. CASE op.left = <<"KEY_LOAD", "KEY_EXPORT_PUB">>
      <4>1. Tail(op.left) = <<"KEY_EXPORT_PUB">>
        BY <3>4
      <4> QED BY <1>1, <1>2, <3>2, <3>4, <4>1 DEF Operation, Writes, Stores, Reads
    <3> QED BY <3>1, <3>3, <3>4
  <2> QED BY <2>1, <2>2
<1>10. VaultTyped'
  BY <1>1, <1>9 DEF VaultInv, VaultTyped, Loaded
<1>11. OperationsSave'
  <2>1. CASE op' = Idle
    BY <2>1 DEF OperationsSave, Idle, Stores, Writes
  <2>2. CASE op' # Idle
    <3>1. op'.left # <<"KEY_REVOKE">> /\ op'.next = "audit"
      BY <1>9, <2>2
    <3> QED BY <1>1, <1>9, <2>2, <3>1 DEF VaultInv, OperationsSave
  <2> QED BY <2>1, <2>2
<1> QED BY <1>8, <1>10, <1>11 DEF VaultInv

\* The clock and the plain lines of the journal.
LEMMA OtherStepsKeep ==
  ASSUME VaultInv, LogInfo \/ Clock \/ UNCHANGED vars
  PROVE  VaultInv'
<1>1. UNCHANGED <<stage, vault_file, master_key, entries, op, stored, returned, revoked>> /\ now' \in Nat
  BY DEF LogInfo, Clock, Tick, vars, vault, history, VaultInv, VaultTyped
<1>2. VaultTyped'
  BY <1>1 DEF VaultInv, VaultTyped, Loaded
<1>3. FilesHold'
  BY <1>1 DEF VaultInv, FilesHold, Loaded, Holds, Dead
<1>4. OperationsSave'
  BY <1>1 DEF VaultInv, OperationsSave, Dead
<1> QED BY <1>2, <1>3, <1>4 DEF VaultInv

LEMMA MainStepsKeep ==
  ASSUME VaultInv, StartProcess \/ OpenLog \/ Demo \/ Crash
  PROVE  VaultInv'
<1>1. CASE StartProcess
  BY <1>1, ForgetKeeps DEF StartProcess, history
<1>2. CASE OpenLog
  BY <1>2, MainMovesOn DEF OpenLog, history, Stage
<1>3. CASE Demo
  BY <1>3, MainMovesOn DEF Demo, Stage
<1>4. CASE Crash
  BY <1>4, ForgetKeeps DEF Crash, history
<1> QED BY <1>1, <1>2, <1>3, <1>4

LEMMA VaultKeeps == VaultInv /\ [Next]_vars => VaultInv'
<1> SUFFICES ASSUME VaultInv, [Next]_vars PROVE VaultInv'
  OBVIOUS
<1>1. CASE StartProcess \/ OpenLog \/ Demo \/ Crash
  BY <1>1, MainStepsKeep
<1>2. CASE LogInfo \/ Clock \/ UNCHANGED vars
  BY <1>2, OtherStepsKeep
<1>3. CASE FirstKey
  BY <1>3, FirstKeyKeeps
<1>4. CASE SaveStep
  BY <1>4, SaveKeeps
<1>5. CASE AuditStep
  BY <1>5, AuditKeeps
<1>6. ASSUME NEW p \in Passwords, CreateVault(p) \/ OpenVault(p) PROVE VaultInv'
  BY <1>6, CreateVaultKeeps, OpenKeeps
<1>7. ASSUME NEW id \in Ids, Change(id) \/ \E v \in Validities : Store(id, v) PROVE VaultInv'
  BY <1>7, OperateKeeps, StoreKeeps
<1>8. ASSUME NEW p \in Passwords, NEW q \in Passwords, Rekey(p, q) PROVE VaultInv'
  BY <1>8, RekeyKeeps
<1> QED BY <1>1, <1>2, <1>3, <1>4, <1>5, <1>6, <1>7, <1>8 DEF Next, Step

LEMMA VaultInvSuffices == VaultInv => VaultOpensWhole /\ RevokedStaysRevoked
<1> SUFFICES ASSUME VaultInv, stage = "serve"
             PROVE  /\ returned \subseteq Materials(entries)
                    /\ \A id \in revoked : ~Offered(id)
  BY DEF VaultOpensWhole, RevokedStaysRevoked, Materials
<1>1. Holds(entries) /\ entries \in Seq(VaultEntry)
  BY DEF VaultInv, FilesHold, VaultTyped, Loaded
<1> QED BY <1>1, DeadIsNotOffered DEF Holds

\* However many processes work on the vault one after the other, and wherever
\* each of them ends: an open vault holds every key whose store_key returned, and
\* offers none that revoke_key has revoked (KeyVault, EncryptedStorage).
THEOREM VaultIsSound == Spec => [](VaultOpensWhole /\ RevokedStaysRevoked)
BY VaultStarts, VaultKeeps, VaultInvSuffices, PTL DEF Spec

-----------------------------------------------------------------------------
(* The journal.  Every line on disk that can be read is a body some        *)
(* process audited, with the hash of all that process had audited by then; *)
(* the tip in memory is the whole of what this process has audited.        *)

Event ==
  {"KEY_STORE", "KEY_GENERATE", "KEY_REVOKE", "VAULT_REKEY", "KEY_LOAD", "KEY_EXPORT_PUB",
   "DEMO_COMPLETE"}
Body == [seq : Nat, ts : Nat, event : Event]
Line == [body : Body, hash : Seq(Body), ended : BOOLEAN]

\* What a process audited is numbered through and bears its mark.
Numbered(s, r) == \A k \in 1 .. Len(s) : s[k].seq = k /\ s[k].ts = r

GenuineIn(l, s) ==
  /\ Len(l.hash) \in 1 .. Len(s) /\ l.body = s[Len(l.hash)]
  /\ \A i \in 1 .. Len(l.hash) : l.hash[i] = s[i]
Genuine(l) == \E r \in 1 .. MaxRuns : GenuineIn(l, audits[r])

Audits ==
  /\ run \in 0 .. MaxRuns
  /\ audits \in [1 .. MaxRuns -> Seq(Body)]
  /\ \A r \in 1 .. MaxRuns : Numbered(audits[r], r) /\ (r > run => audits[r] = <<>>)

TipIsWhole == stage # "down" => run > 0 /\ chain_tip = audits[run] /\ audit_seq = Len(audits[run])

LinesAreGenuine ==
  /\ lines \in Seq(Line \cup {Torn})
  /\ \A i \in 1 .. Len(lines) : lines[i] # Torn => Genuine(lines[i])

JournalInv == Audits /\ TipIsWhole /\ LinesAreGenuine

LEMMA JournalStarts == Init => JournalInv
<1> SUFFICES ASSUME Init PROVE JournalInv
  OBVIOUS
<1>1. MaxRuns \in Nat
  BY StorageConstants
<1>2. Audits
  BY <1>1 DEF Init, Audits, Numbered
<1>3. TipIsWhole
  BY DEF Init, TipIsWhole
<1>4. LinesAreGenuine
  BY DEF Init, LinesAreGenuine
<1> QED BY <1>2, <1>3, <1>4 DEF JournalInv

LEMMA TornIsNoLine == Torn \notin Line
<1>1. ASSUME NEW l \in Line PROVE DOMAIN l = {"body", "hash", "ended"}
  BY DEF Line
<1>2. DOMAIN Torn = {"torn"}
  BY DEF Torn
<1> QED BY <1>1, <1>2

\* All but the last element of a sequence.
LEMMA FrontIs ==
  ASSUME NEW S, NEW s \in Seq(S), s # <<>>
  PROVE  /\ Front(s) \in Seq(S) /\ Len(Front(s)) = Len(s) - 1
         /\ \A i \in 1 .. Len(s) - 1 : Front(s)[i] = s[i]
<1> DEFINE n == Len(s) - 1
<1>1. Len(s) \in Nat /\ Len(s) # 0
  OBVIOUS
<1>2. n \in Nat /\ \A i \in 1 .. n : s[i] \in S
  BY <1>1
<1> HIDE DEF n
<1>3. /\ SubSeq(s, 1, n) \in Seq(S) /\ Len(SubSeq(s, 1, n)) = n
      /\ \A i \in 1 .. n : SubSeq(s, 1, n)[i] = s[i]
  BY <1>2, SubSeqProperties
<1> QED BY <1>3 DEF n, Front

\* What an unfinished last line is glued to makes that line torn and leaves the
\* other ones alone.
LEMMA GluedIs ==
  ASSUME NEW ls \in Seq(Line \cup {Torn})
  PROVE  /\ Glued(ls) \in Seq(Line \cup {Torn})
         /\ \A i \in 1 .. Len(Glued(ls)) :
              \/ i \in 1 .. Len(ls) /\ Glued(ls)[i] = ls[i]
              \/ Glued(ls)[i] = Torn
<1>1. CASE ls # <<>> /\ ~Ended(Last(ls))
  <2> DEFINE fr == Front(ls)
  <2>1. Glued(ls) = Append(fr, Torn)
    BY <1>1 DEF Glued
  <2>2. Len(ls) \in Nat /\ Len(ls) # 0
    BY <1>1
  <2>3. /\ fr \in Seq(Line \cup {Torn}) /\ Len(fr) = Len(ls) - 1
        /\ \A i \in 1 .. Len(fr) : fr[i] = ls[i]
    BY <1>1, FrontIs
  <2> HIDE DEF fr
  <2>4. /\ Append(fr, Torn) \in Seq(Line \cup {Torn}) /\ Len(Append(fr, Torn)) = Len(fr) + 1
        /\ \A i \in 1 .. Len(fr) : Append(fr, Torn)[i] = fr[i]
        /\ Append(fr, Torn)[Len(fr) + 1] = Torn
    BY <2>3
  <2> QED BY <2>1, <2>2, <2>3, <2>4
<1>2. CASE ~(ls # <<>> /\ ~Ended(Last(ls)))
  BY <1>2 DEF Glued
<1> QED BY <1>1, <1>2

\* A line that is appended adds itself, or makes the last one torn.
LEMMA AppendedIs ==
  ASSUME NEW ls \in Seq(Line \cup {Torn}), NEW l \in Line \cup {Torn}
  PROVE  /\ Appended(ls, l) \in Seq(Line \cup {Torn})
         /\ \A i \in 1 .. Len(Appended(ls, l)) :
              \/ i \in 1 .. Len(ls) /\ Appended(ls, l)[i] = ls[i]
              \/ Appended(ls, l)[i] \in {l, Torn}
<1>1. CASE ls # <<>> /\ ~Ended(Last(ls))
  BY <1>1, GluedIs DEF Appended
<1>2. CASE ~(ls # <<>> /\ ~Ended(Last(ls)))
  <2>1. Appended(ls, l) = Append(ls, l)
    BY <1>2 DEF Appended
  <2>2. /\ Append(ls, l) \in Seq(Line \cup {Torn}) /\ Len(Append(ls, l)) = Len(ls) + 1
        /\ \A i \in 1 .. Len(ls) : Append(ls, l)[i] = ls[i]
        /\ Append(ls, l)[Len(ls) + 1] = l
    OBVIOUS
  <2> QED BY <2>1, <2>2
<1> QED BY <1>1, <1>2

\* A step that audits nothing.
LEMMA JournalStays ==
  ASSUME JournalInv, UNCHANGED <<run, audits, lines>>,
         stage' # "down" => stage # "down" /\ UNCHANGED <<chain_tip, audit_seq>>
  PROVE  JournalInv'
<1>1. Audits'
  BY DEF JournalInv, Audits, Numbered
<1>2. TipIsWhole'
  BY DEF JournalInv, TipIsWhole
<1>3. LinesAreGenuine'
  BY DEF JournalInv, LinesAreGenuine, Genuine, GenuineIn
<1> QED BY <1>1, <1>2, <1>3 DEF JournalInv

\* An ordinary line leaves the audit lines alone, or tears the last one.
LEMMA LogInfoKeepsJournal ==
  ASSUME JournalInv, LogInfo
  PROVE  JournalInv'
<1>1. /\ UNCHANGED <<stage, run, audits, chain_tip, audit_seq>>
      /\ lines' \in {lines, Glued(lines)}
  BY DEF LogInfo, PlainLine, history
<1>2. CASE lines' = lines
  BY <1>1, <1>2, JournalStays
<1>3. CASE lines' = Glued(lines)
  <2>1. Audits'
    BY <1>1 DEF JournalInv, Audits, Numbered
  <2>2. TipIsWhole'
    BY <1>1 DEF JournalInv, TipIsWhole
  <2>3. /\ lines' \in Seq(Line \cup {Torn})
        /\ \A i \in 1 .. Len(lines') : (i \in 1 .. Len(lines) /\ lines'[i] = lines[i]) \/ lines'[i] = Torn
    BY <1>3, GluedIs DEF JournalInv, LinesAreGenuine
  <2>4. ASSUME NEW i \in 1 .. Len(lines'), lines'[i] # Torn
        PROVE  Genuine(lines'[i])
    <3>1. i \in 1 .. Len(lines) /\ lines'[i] = lines[i]
      BY <2>3, <2>4
    <3> QED BY <2>4, <3>1 DEF JournalInv, LinesAreGenuine
  <2>5. \A i \in 1 .. Len(lines') : lines'[i] # Torn => \E r \in 1 .. MaxRuns : GenuineIn(lines'[i], audits'[r])
    BY <1>1, <2>4 DEF Genuine
  <2>6. LinesAreGenuine'
    BY <2>3, <2>5 DEF LinesAreGenuine, Genuine, GenuineIn
  <2> QED BY <2>1, <2>2, <2>6 DEF JournalInv
<1> QED BY <1>1, <1>2, <1>3

LEMMA StartKeepsJournal ==
  ASSUME JournalInv, StartProcess
  PROVE  JournalInv'
<1>1. /\ run < MaxRuns /\ run' = run + 1 /\ chain_tip' = <<>> /\ audit_seq' = 0
      /\ UNCHANGED <<audits, lines>>
  BY DEF StartProcess, FreshLogger, Genesis, history
<1>2. MaxRuns \in Nat /\ run \in Nat
  BY StorageConstants DEF JournalInv, Audits
<1>3. run + 1 \in 1 .. MaxRuns
  BY <1>1, <1>2
<1>4. audits[run + 1] = <<>>
  BY <1>2, <1>3 DEF JournalInv, Audits
<1>5. Audits'
  BY <1>1, <1>2, <1>3 DEF JournalInv, Audits, Numbered
<1>6. TipIsWhole'
  BY <1>1, <1>2, <1>4 DEF TipIsWhole
<1>7. LinesAreGenuine'
  BY <1>1 DEF JournalInv, LinesAreGenuine, Genuine, GenuineIn
<1> QED BY <1>5, <1>6, <1>7 DEF JournalInv

\* An event is audited: memory moves on, the file may or may not follow.
LEMMA NoteKeepsJournal ==
  ASSUME JournalInv, stage # "down", NEW event \in Event, Note(event), UNCHANGED run
  PROVE  JournalInv'
<1> DEFINE s == audits[run]
           b == BodyOf(audit_seq + 1, run, event)
           t == Append(s, b)
           line == [body |-> b, hash |-> t, ended |-> TRUE]
<1>1. /\ run \in 1 .. MaxRuns /\ MaxRuns \in Nat
      /\ s \in Seq(Body) /\ chain_tip = s /\ audit_seq = Len(s)
  BY StorageConstants DEF JournalInv, Audits, TipIsWhole
<1>2. /\ audits' = [audits EXCEPT ![run] = t]
      /\ audit_seq' = Len(s) + 1 /\ chain_tip' = t /\ Write(line)
  BY <1>1 DEF Note, Audit, Hash
<1>3. b \in Body /\ b.seq = Len(s) + 1 /\ b.ts = run
  BY <1>1 DEF BodyOf, Body
<1> HIDE DEF b
<1>4. /\ t \in Seq(Body) /\ Len(t) = Len(s) + 1 /\ t[Len(s) + 1] = b
      /\ \A i \in 1 .. Len(s) : t[i] = s[i]
  BY <1>1, <1>3
<1>5. line \in Line /\ [line EXCEPT !.ended = FALSE] \in Line
  BY <1>3, <1>4 DEF Line
<1>6. GenuineIn(line, t) /\ GenuineIn([line EXCEPT !.ended = FALSE], t)
  <2>1. line.body = b /\ line.hash = t /\ [line EXCEPT !.ended = FALSE].body = b
        /\ [line EXCEPT !.ended = FALSE].hash = t
    OBVIOUS
  <2> QED BY <1>1, <1>4, <2>1 DEF GenuineIn
<1> DEFINE torn_line == [line EXCEPT !.ended = FALSE]
<1> HIDE DEF s, t, line, torn_line
<1>7. audits'[run] = t /\ \A r \in 1 .. MaxRuns : r # run => audits'[r] = audits[r]
  BY <1>1, <1>2 DEF JournalInv, Audits
<1>8. Numbered(t, run)
  <2>1. Numbered(s, run)
    BY <1>1 DEF JournalInv, Audits, s
  <2> QED BY <1>1, <1>3, <1>4, <2>1 DEF Numbered
<1>9. Audits'
  <2>1. audits' \in [1 .. MaxRuns -> Seq(Body)]
    BY <1>2, <1>4 DEF JournalInv, Audits
  <2>2. ASSUME NEW r \in 1 .. MaxRuns PROVE Numbered(audits'[r], r) /\ (r > run => audits'[r] = <<>>)
    <3>1. CASE r = run
      BY <1>1, <1>7, <1>8, <3>1
    <3>2. CASE r # run
      <4>1. audits'[r] = audits[r]
        BY <1>7, <3>2
      <4>2. Numbered(audits[r], r) /\ (r > run => audits[r] = <<>>)
        BY DEF JournalInv, Audits
      <4> QED BY <4>1, <4>2
    <3> QED BY <3>1, <3>2
  <2>3. run' = run /\ run \in 0 .. MaxRuns
    BY DEF JournalInv, Audits
  <2>4. \A r \in 1 .. MaxRuns : Numbered(audits[r], r)' = Numbered(audits'[r], r)
    BY DEF Numbered
  <2> QED BY <2>1, <2>2, <2>3 DEF Audits, Numbered
<1>10. TipIsWhole'
  BY <1>1, <1>2, <1>4, <1>7 DEF TipIsWhole
<1>11. ASSUME NEW l, Genuine(l) PROVE \E r \in 1 .. MaxRuns : GenuineIn(l, audits'[r])
  <2>1. PICK r \in 1 .. MaxRuns : GenuineIn(l, audits[r])
    BY <1>11 DEF Genuine
  <2>2. CASE r # run
    BY <1>7, <2>1, <2>2
  <2>3. CASE r = run
    <3>1. GenuineIn(l, s)
      BY <2>1, <2>3 DEF s
    <3>2. GenuineIn(l, t)
      BY <1>1, <1>4, <3>1 DEF GenuineIn
    <3> QED BY <1>1, <1>7, <3>2
  <2> QED BY <2>2, <2>3
<1>12. /\ lines' \in {lines, Appended(lines, Torn), Appended(lines, line), Appended(lines, torn_line)}
  BY <1>2 DEF Write, torn_line
<1>13. ASSUME NEW l \in {Torn, line, torn_line}, lines' = Appended(lines, l)
       PROVE  LinesAreGenuine'
  <2>1. l \in Line \cup {Torn} /\ (l # Torn => GenuineIn(l, t))
    BY <1>5, <1>6, <1>13 DEF torn_line
  <2>2. /\ lines' \in Seq(Line \cup {Torn})
        /\ \A i \in 1 .. Len(lines') :
             (i \in 1 .. Len(lines) /\ lines'[i] = lines[i]) \/ lines'[i] \in {l, Torn}
    BY <1>13, <2>1, AppendedIs DEF JournalInv, LinesAreGenuine
  <2>3. ASSUME NEW i \in 1 .. Len(lines'), lines'[i] # Torn
        PROVE  \E r \in 1 .. MaxRuns : GenuineIn(lines'[i], audits'[r])
    <3>1. CASE i \in 1 .. Len(lines) /\ lines'[i] = lines[i]
      <4>1. Genuine(lines[i])
        BY <2>3, <3>1 DEF JournalInv, LinesAreGenuine
      <4> QED BY <1>11, <3>1, <4>1
    <3>2. CASE lines'[i] = l
      BY <1>1, <1>7, <2>1, <2>3, <3>2
    <3> QED BY <2>2, <2>3, <3>1, <3>2
  <2> QED BY <2>2, <2>3 DEF LinesAreGenuine, Genuine, GenuineIn
<1>14. ASSUME lines' = lines PROVE LinesAreGenuine'
  <2>1. \A i \in 1 .. Len(lines) : lines[i] # Torn => \E r \in 1 .. MaxRuns : GenuineIn(lines[i], audits'[r])
    BY <1>11 DEF JournalInv, LinesAreGenuine
  <2> QED BY <1>14, <2>1 DEF JournalInv, LinesAreGenuine, Genuine, GenuineIn
<1> QED BY <1>9, <1>10, <1>12, <1>13, <1>14 DEF JournalInv

LEMMA PrefixPointwise ==
  ASSUME NEW S, NEW s \in Seq(S), NEW t \in Seq(S)
  PROVE  IsPrefix(s, t) <=> Len(s) <= Len(t) /\ \A i \in 1 .. Len(s) : s[i] = t[i]
<1>1. Len(s) \in Nat /\ Len(t) \in Nat /\ \A i \in 1 .. Len(s) : s[i] \in S
  OBVIOUS
<1>2. /\ SubSeq(s, 1, Len(s)) \in Seq(S) /\ Len(SubSeq(s, 1, Len(s))) = Len(s)
      /\ \A i \in 1 .. Len(s) : SubSeq(s, 1, Len(s))[i] = s[i]
  BY <1>1, SubSeqProperties
<1>3. CASE Len(s) <= Len(t)
  <2>1. /\ SubSeq(t, 1, Len(s)) \in Seq(S) /\ Len(SubSeq(t, 1, Len(s))) = Len(s)
        /\ \A i \in 1 .. Len(s) : SubSeq(t, 1, Len(s))[i] = t[i]
    <3>1. \A i \in 1 .. Len(s) : t[i] \in S
      BY <1>1, <1>3
    <3> QED BY <1>1, <3>1, SubSeqProperties
  <2>2. SubSeq(s, 1, Len(s)) = SubSeq(t, 1, Len(s)) <=> \A i \in 1 .. Len(s) : s[i] = t[i]
    BY <1>1, <1>2, <2>1, SeqEqual
  <2> QED BY <1>3, <2>2 DEF IsPrefix
<1> QED BY <1>1, <1>3 DEF IsPrefix

\* The hash of the i-th line of a verified file covers the first i bodies.
LEMMA VerifiedCovers ==
  ASSUME JournalInv, VerifyAuditChain(lines), NEW i \in 1 .. Len(lines)
  PROVE  Len(lines[i].hash) = i /\ \A j \in 1 .. i : lines[i].hash[j] = lines[j].body
<1> DEFINE Covers(n) == Len(lines[n].hash) = n /\ \A j \in 1 .. n : lines[n].hash[j] = lines[j].body
           T == {n \in 1 .. Len(lines) : ~Covers(n)}
<1>1. Len(lines) \in Nat
  BY DEF JournalInv, LinesAreGenuine
<1>2. \A n \in 1 .. Len(lines) : lines[n] # Torn
  BY DEF VerifyAuditChain
<1>3. \A n \in 1 .. Len(lines) : lines[n] \in Line
  BY <1>2 DEF JournalInv, LinesAreGenuine
<1>4. \A n \in 1 .. Len(lines) : lines[n].hash \in Seq(Body) /\ lines[n].body \in Body
  BY <1>3 DEF Line
<1>5. ASSUME NEW m \in 1 .. Len(lines), \A k \in 1 .. Len(lines) : k < m => Covers(k)
      PROVE  Covers(m)
  <2> DEFINE prev == IF m = 1 THEN Genesis ELSE lines[m - 1].hash
  <2>1. lines[m].hash = Append(prev, lines[m].body)
    BY DEF VerifyAuditChain, Hash
  <2>2. prev \in Seq(Body) /\ Len(prev) = m - 1 /\ \A j \in 1 .. m - 1 : prev[j] = lines[j].body
    <3>1. CASE m = 1
      BY <3>1 DEF Genesis
    <3>2. CASE m # 1
      <4>1. m - 1 \in 1 .. Len(lines) /\ m - 1 < m
        BY <1>1, <3>2
      <4>2. Covers(m - 1)
        BY <1>5, <4>1
      <4> QED BY <1>4, <3>2, <4>1, <4>2
    <3> QED BY <3>1, <3>2
  <2> HIDE DEF prev
  <2>3. /\ Len(Append(prev, lines[m].body)) = m /\ Append(prev, lines[m].body)[m] = lines[m].body
        /\ \A j \in 1 .. m - 1 : Append(prev, lines[m].body)[j] = prev[j]
    BY <1>1, <1>4, <2>2
  <2> QED BY <1>1, <2>1, <2>2, <2>3
<1> HIDE DEF Covers
<1>6. T = {}
  <2>1. SUFFICES ASSUME T # {} PROVE FALSE
    OBVIOUS
  <2>2. T \subseteq Nat
    BY <1>1
  <2>3. PICK m \in T : \A k \in T : m <= k
    BY <2>1, <2>2, LeastNat
  <2>4. \A k \in 1 .. Len(lines) : k < m => Covers(k)
    BY <1>1, <2>3
  <2> QED BY <1>5, <2>3, <2>4
<1>7. Covers(i)
  BY <1>6
<1> QED BY <1>7 DEF Covers

\* What the verification accepts is the beginning of one process's events ...
LEMMA VerifiedIsPrefix ==
  ASSUME JournalInv, VerifyAuditChain(lines)
  PROVE  /\ Torn \notin Range(lines)
         /\ \E r \in 1 .. MaxRuns : IsPrefix([i \in DOMAIN lines |-> lines[i].body], audits[r])
<1> DEFINE bodies == [i \in DOMAIN lines |-> lines[i].body]
           n == Len(lines)
<1>1. n \in Nat /\ DOMAIN lines = 1 .. n
  BY DEF JournalInv, LinesAreGenuine
<1>2. \A i \in 1 .. n : lines[i] # Torn
  BY DEF VerifyAuditChain
<1>3. Torn \notin Range(lines)
  BY <1>1, <1>2 DEF Range
<1>4. \A i \in 1 .. n : lines[i] \in Line
  BY <1>2 DEF JournalInv, LinesAreGenuine
<1>5. bodies \in Seq(Body) /\ Len(bodies) = n /\ \A i \in 1 .. n : bodies[i] = lines[i].body
  <2>1. \A i \in 1 .. n : lines[i].body \in Body
    BY <1>4 DEF Line
  <2> QED BY <1>1, <2>1
<1>6. \E r \in 1 .. MaxRuns : Len(bodies) <= Len(audits[r]) /\ \A i \in 1 .. n : bodies[i] = audits[r][i]
  <2>1. CASE n = 0
    <3>1. 1 \in 1 .. MaxRuns
      BY StorageConstants
    <3>2. Len(audits[1]) \in Nat
      BY <3>1 DEF JournalInv, Audits
    <3> QED BY <1>5, <2>1, <3>1, <3>2
  <2>2. CASE n # 0
    <3>1. n \in 1 .. n
      BY <1>1, <2>2
    <3>2. PICK r \in 1 .. MaxRuns : GenuineIn(lines[n], audits[r])
      BY <1>2, <3>1 DEF JournalInv, LinesAreGenuine, Genuine
    <3>3. Len(lines[n].hash) = n /\ \A j \in 1 .. n : lines[n].hash[j] = lines[j].body
      BY <3>1, VerifiedCovers
    <3>4. n <= Len(audits[r]) /\ \A i \in 1 .. n : bodies[i] = audits[r][i]
      BY <1>5, <3>2, <3>3 DEF GenuineIn
    <3> QED BY <1>5, <3>4
  <2> QED BY <2>1, <2>2
<1> HIDE DEF bodies, n
<1>7. PICK r \in 1 .. MaxRuns : Len(bodies) <= Len(audits[r]) /\ \A i \in 1 .. n : bodies[i] = audits[r][i]
  BY <1>6
<1>8. audits[r] \in Seq(Body)
  BY DEF JournalInv, Audits
<1>9. IsPrefix(bodies, audits[r])
  BY <1>5, <1>7, <1>8, PrefixPointwise
<1> QED BY <1>3, <1>9 DEF bodies

\* ... and the other way round.
LEMMA PrefixIsVerified ==
  ASSUME JournalInv, Torn \notin Range(lines), NEW r \in 1 .. MaxRuns,
         IsPrefix([i \in DOMAIN lines |-> lines[i].body], audits[r])
  PROVE  VerifyAuditChain(lines)
<1> DEFINE bodies == [i \in DOMAIN lines |-> lines[i].body]
           n == Len(lines)
<1>1. n \in Nat /\ DOMAIN lines = 1 .. n
  BY DEF JournalInv, LinesAreGenuine
<1>2. \A i \in 1 .. n : lines[i] # Torn
  BY <1>1 DEF Range
<1>3. \A i \in 1 .. n : lines[i] \in Line
  BY <1>2 DEF JournalInv, LinesAreGenuine
<1>4. bodies \in Seq(Body) /\ Len(bodies) = n /\ \A i \in 1 .. n : bodies[i] = lines[i].body
  <2>1. \A i \in 1 .. n : lines[i].body \in Body
    BY <1>3 DEF Line
  <2> QED BY <1>1, <2>1
<1>5. audits[r] \in Seq(Body) /\ \A q \in 1 .. MaxRuns : audits[q] \in Seq(Body) /\ Numbered(audits[q], q)
  BY DEF JournalInv, Audits
<1>6. n <= Len(audits[r]) /\ \A i \in 1 .. n : lines[i].body = audits[r][i]
  <2> HIDE DEF bodies, n
  <2> QED BY <1>4, <1>5, PrefixPointwise DEF bodies
<1>7. ASSUME NEW i \in 1 .. n
      PROVE  Len(lines[i].hash) = i /\ \A j \in 1 .. i : lines[i].hash[j] = audits[r][j]
  <2>1. PICK q \in 1 .. MaxRuns : GenuineIn(lines[i], audits[q])
    BY <1>2 DEF JournalInv, LinesAreGenuine, Genuine
  <2> DEFINE k == Len(lines[i].hash)
  <2>2. k \in 1 .. Len(audits[q]) /\ lines[i].body = audits[q][k]
    BY <2>1 DEF GenuineIn
  <2>3. lines[i].body.ts = q /\ lines[i].body.seq = k
    BY <1>5, <2>2 DEF Numbered
  <2>4. i \in 1 .. Len(audits[r])
    BY <1>1, <1>5, <1>6
  <2>5. lines[i].body.ts = r /\ lines[i].body.seq = i
    BY <1>5, <1>6, <2>4 DEF Numbered
  <2> QED BY <2>1, <2>3, <2>5 DEF GenuineIn
<1>8. ASSUME NEW i \in 1 .. n
      PROVE  lines[i].hash = Hash(lines[i].body, IF i = 1 THEN Genesis ELSE lines[i - 1].hash)
  <2> DEFINE prev == IF i = 1 THEN Genesis ELSE lines[i - 1].hash
  <2>1. prev \in Seq(Body) /\ Len(prev) = i - 1 /\ \A j \in 1 .. i - 1 : prev[j] = audits[r][j]
    <3>1. CASE i = 1
      BY <3>1 DEF Genesis
    <3>2. CASE i # 1
      <4>1. i - 1 \in 1 .. n
        BY <1>1, <3>2
      <4>2. lines[i - 1].hash \in Seq(Body)
        BY <1>3, <4>1 DEF Line
      <4> QED BY <1>7, <3>2, <4>1, <4>2
    <3> QED BY <3>1, <3>2
  <2>2. lines[i].hash \in Seq(Body) /\ lines[i].body \in Body /\ lines[i].body = audits[r][i]
    BY <1>3, <1>6 DEF Line
  <2> HIDE DEF prev
  <2>3. /\ Append(prev, lines[i].body) \in Seq(Body) /\ Len(Append(prev, lines[i].body)) = i
        /\ \A j \in 1 .. i - 1 : Append(prev, lines[i].body)[j] = prev[j]
        /\ Append(prev, lines[i].body)[i] = lines[i].body
    BY <1>1, <2>1, <2>2
  <2>4. \A j \in 1 .. i : Append(prev, lines[i].body)[j] = lines[i].hash[j]
    BY <1>1, <1>7, <2>1, <2>2, <2>3, SMTT(30)
  <2>5. lines[i].hash = Append(prev, lines[i].body)
    BY <1>7, <2>2, <2>3, <2>4, SeqEqual
  <2> QED BY <2>5 DEF prev, Hash
<1> QED BY <1>2, <1>8 DEF VerifyAuditChain

LEMMA JournalInvSuffices == JournalInv => VerdictIsExact
BY VerifiedIsPrefix, PrefixIsVerified DEF VerdictIsExact

LEMMA JournalKeeps == VaultInv /\ JournalInv /\ [Next]_vars => JournalInv'
<1> SUFFICES ASSUME VaultInv, JournalInv, [Next]_vars PROVE JournalInv'
  OBVIOUS
<1> USE JournalStays DEF log, memory, history
<1>1. CASE StartProcess
  BY <1>1, StartKeepsJournal
<1>2. CASE OpenLog
  BY <1>2 DEF OpenLog, SetLogFile
<1>3. CASE Demo
  BY <1>3, NoteKeepsJournal DEF Demo, Event
<1>4. CASE Crash
  BY <1>4 DEF Crash
<1>5. CASE AuditStep
  <2>1. op \in Operation
    BY <1>5 DEF AuditStep, VaultInv, VaultTyped, Idle
  <2>2. Head(op.left) \in Event
    BY <2>1 DEF Operation, Writes, Stores, Reads, Event
  <2> QED BY <1>5, <2>2, NoteKeepsJournal DEF AuditStep
<1>6. CASE LogInfo
  BY <1>6, LogInfoKeepsJournal
<1>7. CASE FirstKey \/ SaveStep \/ Clock
  BY <1>7 DEF FirstKey, SaveStep, Clock
<1>8. ASSUME NEW p \in Passwords, CreateVault(p) \/ OpenVault(p) PROVE JournalInv'
  BY <1>8 DEF CreateVault, OpenVault
<1>9. ASSUME NEW id \in Ids, Change(id) \/ \E v \in Validities : Store(id, v) PROVE JournalInv'
  BY <1>9 DEF Change, Store
<1>10. ASSUME NEW p \in Passwords, NEW q \in Passwords, Rekey(p, q) PROVE JournalInv'
  BY <1>10 DEF Rekey
<1>11. CASE UNCHANGED vars
  BY <1>11 DEF vars
<1> QED BY <1>1, <1>2, <1>3, <1>4, <1>5, <1>6, <1>7, <1>8, <1>9, <1>10, <1>11 DEF Next, Step

\* Whatever fails to reach the disk, wherever processes end and however many
\* write to the file: the verification says yes exactly to the beginning of what
\* one process audited (Logger::audit, verify_audit_chain).
THEOREM JournalIsSound == Spec => []VerdictIsExact
<1>1. Init => VaultInv /\ JournalInv
  BY VaultStarts, JournalStarts
<1>2. VaultInv /\ JournalInv /\ [Next]_vars => (VaultInv /\ JournalInv)'
  BY VaultKeeps, JournalKeeps
<1> QED BY <1>1, <1>2, JournalInvSuffices, PTL DEF Spec

-----------------------------------------------------------------------------
(* Signed documents.  The first two marks in the bytes are those of the    *)
(* first two envelopes made, whatever stands between them.                 *)

Made(p, s) == Envelope(p) /\ p.signed = (kind[s] \notin Keyless) /\ p.signer = Subject(s)

MarksFollow(data, ord, cov) ==
  /\ (Marks(data) = {}) <=> (ord = <<>>)
  /\ Marks(data) # {} =>
       /\ Made(data[FirstMark(data)], ord[1]) /\ data[FirstMark(data)].hash = cov
       /\ (LaterMarks(data) = {}) <=> (Len(ord) = 1)
       /\ LaterMarks(data) # {} => Made(data[SecondMark(data)], ord[2])

DocumentsInv ==
  /\ cms_data \in Seq(ToSet(cms_data))
  /\ kind \in [Signers -> Kinds]
  /\ order \in Seq(Signers)
  /\ MarksFollow(cms_data, order, covers)

DocumentsSpec == DocumentsInit /\ [][DocumentsNext]_docs

LEMMA PartIs ==
  ASSUME NEW s, NEW doc
  PROVE  /\ Part(s, doc) # Header /\ Part(s, doc).hash = doc
         /\ kind[s] = "cms" => ~Envelope(Part(s, doc))
         /\ kind[s] # "cms" => Made(Part(s, doc), s)
<1>1. Part(s, doc).is # "header" /\ Header.is = "header"
  BY DEF Part, Header
<1> QED BY <1>1 DEF Part, Made, Envelope

\* A document of one part.
LEMMA OnePart ==
  ASSUME DocumentsInv, NEW s \in Signers, NEW doc
  PROVE  LET data == <<Part(s, doc)>>
         IN  /\ data \in Seq(ToSet(data))
             /\ kind[s] = "cms" => \A cov : MarksFollow(data, <<>>, cov)
             /\ kind[s] # "cms" => MarksFollow(data, <<s>>, doc)
<1> DEFINE p == Part(s, doc)
           data == <<p>>
<1>1. /\ kind[s] = "cms" => ~Envelope(p)
      /\ kind[s] # "cms" => Made(p, s) /\ Envelope(p)
      /\ p.hash = doc
  BY PartIs DEF Made
<1> HIDE DEF p
<1>2. DOMAIN data = {1} /\ data[1] = p /\ Len(data) = 1
  OBVIOUS
<1>3. p \in ToSet(data)
  BY <1>2 DEF ToSet
<1>4. data \in Seq(ToSet(data))
  BY <1>2, <1>3
<1>5. CASE kind[s] = "cms"
  <2>1. Marks(data) = {}
    BY <1>1, <1>2, <1>5 DEF Marks
  <2> QED BY <1>4, <1>5, <2>1 DEF MarksFollow, p
<1>6. CASE kind[s] # "cms"
  <2>1. Marks(data) = {1}
    BY <1>1, <1>2, <1>6 DEF Marks
  <2>2. FirstMark(data) = 1
    BY <2>1 DEF FirstMark, Min
  <2>3. LaterMarks(data) = {}
    BY <2>1, <2>2 DEF LaterMarks
  <2>4. <<s>> # <<>> /\ Len(<<s>>) = 1 /\ <<s>>[1] = s
    OBVIOUS
  <2>5. MarksFollow(data, <<s>>, doc)
    BY <1>1, <1>2, <1>6, <2>1, <2>2, <2>3, <2>4 DEF MarksFollow
  <2> QED BY <1>4, <1>6, <2>5 DEF p
<1> QED BY <1>5, <1>6

LEMMA CoSignedIs ==
  ASSUME NEW S, NEW data \in Seq(S), NEW p, ~Envelope(Header)
  PROVE  LET all == <<Header>> \o data \o <<p>>
         IN  /\ all \in Seq(ToSet(all)) /\ Len(all) = Len(data) + 2
             /\ all[1] = Header /\ all[Len(data) + 2] = p
             /\ \A i \in 1 .. Len(data) : all[i + 1] = data[i]
             /\ Marks(all) = {i + 1 : i \in Marks(data)} \cup (IF Envelope(p) THEN {Len(data) + 2} ELSE {})
<1> DEFINE T == S \cup {Header, p}
           all == <<Header>> \o data \o <<p>>
<1>1. <<Header>> \in Seq(T) /\ data \in Seq(T) /\ <<p>> \in Seq(T) /\ Len(data) \in Nat
  OBVIOUS
<1> DEFINE some == <<Header>> \o data
<1>2. /\ some \in Seq(T) /\ Len(some) = Len(data) + 1 /\ some[1] = Header
      /\ \A i \in 1 .. Len(data) : some[i + 1] = data[i]
  BY <1>1
<1> HIDE DEF some
<1>3. /\ all \in Seq(T) /\ Len(all) = Len(data) + 2 /\ all[Len(data) + 2] = p
      /\ \A i \in 1 .. Len(data) + 1 : all[i] = some[i]
  <2>1. all = some \o <<p>>
    BY DEF some
  <2> HIDE DEF all
  <2> QED BY <1>1, <1>2, <2>1
<1> HIDE DEF all
<1>4. all[1] = Header /\ \A i \in 1 .. Len(data) : all[i + 1] = data[i]
  BY <1>1, <1>2, <1>3
<1>5. DOMAIN all = 1 .. Len(data) + 2 /\ DOMAIN data = 1 .. Len(data)
  BY <1>1, <1>3
<1>6. all \in Seq(ToSet(all))
  BY <1>3, <1>5 DEF ToSet
<1>7. ASSUME NEW j
      PROVE  j \in Marks(all) <=> \/ \E i \in Marks(data) : j = i + 1
                                  \/ Envelope(p) /\ j = Len(data) + 2
  <2>1. ASSUME j \in Marks(all) PROVE j - 1 \in Marks(data) \/ (Envelope(p) /\ j = Len(data) + 2)
    <3>1. j \in 1 .. Len(data) + 2 /\ Envelope(all[j]) /\ j # 1
      BY <1>4, <1>5, <2>1 DEF Marks
    <3>2. CASE j = Len(data) + 2
      BY <1>3, <3>1, <3>2
    <3>3. CASE j # Len(data) + 2
      <4>1. j - 1 \in 1 .. Len(data) /\ (j - 1) + 1 = j
        BY <1>1, <3>1, <3>3
      <4>2. all[j] = data[j - 1]
        BY <1>4, <4>1
      <4> QED BY <1>5, <3>1, <4>1, <4>2 DEF Marks
    <3> QED BY <3>2, <3>3
  <2>2. ASSUME NEW i \in Marks(data) PROVE i + 1 \in Marks(all)
    <3>1. i \in 1 .. Len(data) /\ Envelope(data[i])
      BY <1>5 DEF Marks
    <3> QED BY <1>1, <1>4, <1>5, <3>1 DEF Marks
  <2>3. Envelope(p) => Len(data) + 2 \in Marks(all)
    BY <1>1, <1>3, <1>5 DEF Marks
  <2>4. j \in Marks(all) => j \in Nat
    BY <1>5 DEF Marks
  <2> QED BY <2>1, <2>2, <2>3, <2>4
<1>8. Marks(all) = {i + 1 : i \in Marks(data)} \cup (IF Envelope(p) THEN {Len(data) + 2} ELSE {})
  BY <1>7
<1> QED BY <1>3, <1>4, <1>6, <1>8 DEF all

\* The header shifts the marks, and a new envelope adds the last one.
LEMMA CoSignedFollows ==
  ASSUME NEW S, NEW data \in Seq(S), NEW p, ~Envelope(Header), NEW ord \in Seq(Signers),
         NEW cov, MarksFollow(data, ord, cov), NEW all, all = <<Header>> \o data \o <<p>>
  PROVE  /\ ~Envelope(p) => MarksFollow(all, ord, cov)
         /\ \A s \in Signers : Made(p, s) =>
              MarksFollow(all, Append(ord, s), IF ord = <<>> THEN p.hash ELSE cov)
<1> DEFINE M == Marks(data)
           z == Len(data) + 2
           new == IF Envelope(p) THEN {z} ELSE {}
<1>1. /\ Len(data) \in Nat /\ M \subseteq 1 .. Len(data)
      /\ all[z] = p /\ \A i \in 1 .. Len(data) : all[i + 1] = data[i]
      /\ Marks(all) = {i + 1 : i \in M} \cup new
  BY CoSignedIs DEF Marks
<1>2. z \in Nat /\ new \subseteq {z} /\ (Envelope(p) => new = {z}) /\ (~Envelope(p) => new = {})
  BY <1>1
<1>3. \A s : Made(p, s) => Envelope(p)
  BY DEF Made
<1> HIDE DEF z, new
<1>4. \A i \in M : i \in Nat /\ i + 1 \in Nat /\ i + 1 < z /\ all[i + 1] = data[i]
  BY <1>1 DEF z
<1>5. Marks(all) \subseteq Nat
  BY <1>1, <1>2, <1>4
<1>6. CASE M = {}
  <2>1. ord = <<>> /\ Marks(all) = new
    BY <1>1, <1>6 DEF MarksFollow
  <2>2. ~Envelope(p) => MarksFollow(all, ord, cov)
    BY <1>2, <2>1 DEF MarksFollow
  <2>3. ASSUME NEW s \in Signers, Made(p, s) PROVE MarksFollow(all, <<s>>, p.hash)
    <3>1. Marks(all) = {z}
      BY <1>2, <1>3, <2>1, <2>3
    <3>2. {z} \subseteq Nat /\ \A i \in {z} : z <= i
      BY <1>2
    <3>4. FirstMark(all) = z /\ LaterMarks(all) = {}
      BY <3>1, <3>2, LeastIsMin DEF FirstMark, LaterMarks
    <3>3. <<s>> # <<>> /\ Len(<<s>>) = 1 /\ <<s>>[1] = s
      OBVIOUS
    <3> QED BY <1>1, <2>3, <3>1, <3>4, <3>3 DEF MarksFollow
  <2> QED BY <2>1, <2>2, <2>3
<1>7. CASE M # {}
  <2> DEFINE f == FirstMark(data)
             L == LaterMarks(data)
  <2>1. f \in M /\ \A i \in M : f <= i
    <3>1. M \subseteq Nat
      BY <1>4
    <3> QED BY <1>7, <3>1, MinIsLeast DEF FirstMark
  <2> HIDE DEF M, f, L
  <2>2. f + 1 \in Marks(all) /\ \A j \in Marks(all) : f + 1 <= j
    <3>1. f + 1 \in Marks(all)
      BY <1>1, <2>1
    <3>2. ASSUME NEW j \in Marks(all) PROVE f + 1 <= j
      <4>1. CASE j \in new
        BY <1>2, <1>4, <2>1, <4>1
      <4>2. CASE j \notin new
        <5>1. PICK i \in M : j = i + 1
          BY <1>1, <3>2, <4>2
        <5> QED BY <1>4, <2>1, <5>1
      <4> QED BY <4>1, <4>2
    <3> QED BY <3>1, <3>2
  <2>3. FirstMark(all) = f + 1 /\ all[f + 1] = data[f]
    <3>1. FirstMark(all) = f + 1
      BY <1>5, <2>2, LeastIsMin DEF FirstMark
    <3> QED BY <1>4, <2>1, <3>1
  <2>4. LaterMarks(all) = {i + 1 : i \in L} \cup new
    <3>1. ASSUME NEW j PROVE j \in LaterMarks(all) <=> (\E i \in L : j = i + 1) \/ j \in new
      <4>1. j \in LaterMarks(all) <=> ((\E i \in M : j = i + 1) \/ j \in new) /\ j # f + 1
        BY <1>1, <2>3 DEF LaterMarks
      <4>2. \A i : i \in L <=> i \in M /\ i # f
        BY DEF L, M, f, LaterMarks
      <4>3. j \in new => j # f + 1
        BY <1>2, <1>4, <2>1
      <4>4. \A i \in M : i + 1 = f + 1 <=> i = f
        BY <1>4, <2>1
      <4> QED BY <4>1, <4>2, <4>3, <4>4
    <3> QED BY <3>1
  <2>5. /\ ord # <<>> /\ Made(data[f], ord[1]) /\ data[f].hash = cov
        /\ (L = {}) <=> (Len(ord) = 1)
        /\ L # {} => Made(data[SecondMark(data)], ord[2])
    BY <1>7 DEF MarksFollow, M, f, L
  <2>6. Marks(all) # {}
    BY <2>2
  <2>7. L # {} => /\ SecondMark(all) = SecondMark(data) + 1
                  /\ all[SecondMark(all)] = data[SecondMark(data)] /\ LaterMarks(all) # {}
    <3> SUFFICES ASSUME L # {} PROVE /\ SecondMark(all) = SecondMark(data) + 1
                  /\ all[SecondMark(all)] = data[SecondMark(data)] /\ LaterMarks(all) # {}
      OBVIOUS
    <3> DEFINE g == SecondMark(data)
    <3>1. L \subseteq M /\ L \subseteq Nat
      BY <1>4 DEF LaterMarks, L, M
    <3>2. g \in L /\ \A i \in L : g <= i
      BY <3>1, MinIsLeast DEF SecondMark, L
    <3> HIDE DEF g
    <3>3. LaterMarks(all) \subseteq Nat
      BY <1>5 DEF LaterMarks
    <3>4. g + 1 \in LaterMarks(all) /\ \A j \in LaterMarks(all) : g + 1 <= j
      <4>1. \A i \in L : g + 1 <= i + 1
        BY <1>4, <3>1, <3>2
      <4>2. \A j \in new : g + 1 <= j
        BY <1>2, <1>4, <3>1, <3>2
      <4> QED BY <2>4, <3>2, <4>1, <4>2
    <3>5. SecondMark(all) = g + 1
      BY <3>3, <3>4, LeastIsMin DEF SecondMark
    <3> QED BY <1>4, <3>1, <3>2, <3>4, <3>5 DEF g
  <2>8. ASSUME ~Envelope(p) PROVE MarksFollow(all, ord, cov)
    <3>1. LaterMarks(all) = {i + 1 : i \in L}
      BY <1>2, <2>4, <2>8
    <3>2. LaterMarks(all) = {} <=> L = {}
      BY <3>1
    <3> QED BY <2>3, <2>5, <2>6, <2>7, <3>2 DEF MarksFollow
  <2>9. ASSUME NEW s \in Signers, Made(p, s) PROVE MarksFollow(all, Append(ord, s), cov)
    <3>1. new = {z}
      BY <1>2, <1>3, <2>9
    <3>2. Len(ord) \in Nat \ {0}
      BY <2>5
    <3>3. /\ Append(ord, s) # <<>> /\ Append(ord, s)[1] = ord[1] /\ Len(Append(ord, s)) = Len(ord) + 1
          /\ Append(ord, s)[Len(ord) + 1] = s
          /\ Len(ord) > 1 => Append(ord, s)[2] = ord[2]
      <4>1. /\ Len(Append(ord, s)) = Len(ord) + 1 /\ Append(ord, s)[Len(ord) + 1] = s
            /\ \A i \in 1 .. Len(ord) : Append(ord, s)[i] = ord[i]
        OBVIOUS
      <4>2. Append(ord, s) # <<>>
        <5>1. Len(Append(ord, s)) # 0
          BY <3>2, <4>1
        <5> QED BY <5>1
      <4> QED BY <3>2, <4>1, <4>2
    <3>4. z \in LaterMarks(all) /\ Len(Append(ord, s)) # 1
      <4>1. z \in LaterMarks(all)
        BY <2>4, <3>1
      <4>2. Len(Append(ord, s)) # 1
        BY <3>2, <3>3
      <4> QED BY <4>1, <4>2
    <3>5. Made(all[SecondMark(all)], Append(ord, s)[2])
      <4>1. CASE L # {}
        <5>1. Len(ord) > 1
          BY <2>5, <3>2, <4>1
        <5> QED BY <2>5, <2>7, <3>3, <4>1, <5>1
      <4>2. CASE L = {}
        <5>1. LaterMarks(all) = {z} /\ Len(ord) = 1
          BY <2>4, <2>5, <3>1, <4>2
        <5>2. SecondMark(all) = z
          <6>1. {z} \subseteq Nat /\ \A i \in {z} : z <= i
            BY <1>2
          <6> QED BY <5>1, <6>1, LeastIsMin DEF SecondMark
        <5>3. Append(ord, s)[2] = s
          BY <3>3, <5>1
        <5> QED BY <1>1, <2>9, <5>2, <5>3
      <4> QED BY <4>1, <4>2
    <3> QED BY <2>3, <2>5, <2>6, <3>3, <3>4, <3>5 DEF MarksFollow
  <2> QED BY <2>5, <2>8, <2>9
<1> QED BY <1>6, <1>7

LEMMA DocumentsStart == DocumentsInit => DocumentsInv
<1> SUFFICES ASSUME DocumentsInit PROVE DocumentsInv
  OBVIOUS
<1>1. Marks(cms_data) = {}
  BY DEF DocumentsInit, Marks
<1> QED BY <1>1 DEF DocumentsInit, DocumentsInv, MarksFollow

\* Made and with it MarksFollow read what never changes.
LEMMA KindsStay ==
  ASSUME DocumentsInv, UNCHANGED kind, order' \in Seq(Signers), cms_data' \in Seq(ToSet(cms_data')),
         MarksFollow(cms_data', order', covers')
  PROVE  DocumentsInv'
<1>1. (cms_data \in Seq(ToSet(cms_data)))' /\ kind' \in [Signers -> Kinds]
  BY DEF ToSet, DocumentsInv, Kinds
<1>2. MarksFollow(cms_data, order, covers)'
  BY DEF MarksFollow, Made, Subject, FirstMark, SecondMark, LaterMarks, Marks
<1> QED BY <1>1, <1>2 DEF DocumentsInv, Kinds

LEMMA SignKeeps ==
  ASSUME DocumentsInv, NEW s \in Signers, NEW doc, Sign(s, doc)
  PROVE  DocumentsInv'
<1>1. cms_data = <<>> /\ cms_data' = <<Part(s, doc)>> /\ UNCHANGED kind /\ order' = Noted(s)
      /\ covers' = IF kind[s] = "cms" THEN NoText ELSE doc
  BY DEF Sign
<1>2. order = <<>>
  <2>1. Marks(cms_data) = {}
    BY <1>1 DEF Marks
  <2> QED BY <2>1 DEF DocumentsInv, MarksFollow
<1>3. order' = IF kind[s] = "cms" THEN <<>> ELSE <<s>>
  BY <1>1, <1>2 DEF Noted
<1>4. order' \in Seq(Signers)
  BY <1>3
<1> QED BY <1>1, <1>3, <1>4, OnePart, KindsStay

LEMMA CounterSignKeeps ==
  ASSUME DocumentsInv, NEW s \in Signers, CounterSign(s)
  PROVE  DocumentsInv'
<1>1. /\ cms_data' = <<Part(s, cms_data)>> /\ UNCHANGED kind
      /\ order' = IF kind[s] = "cms" THEN <<>> ELSE <<s>>
      /\ covers' = IF kind[s] = "cms" THEN NoText ELSE cms_data
  BY DEF CounterSign
<1>2. order' \in Seq(Signers)
  BY <1>1
<1> QED BY <1>1, <1>2, OnePart, KindsStay

LEMMA CoSignKeeps ==
  ASSUME DocumentsInv, NEW s \in Signers, NEW doc, CoSign(s, doc)
  PROVE  DocumentsInv'
<1> DEFINE p == Part(s, doc)
<1>1. /\ cms_data' = <<Header>> \o cms_data \o <<p>> /\ UNCHANGED kind /\ order' = Noted(s)
      /\ covers' = IF order = <<>> /\ kind[s] # "cms" THEN doc ELSE covers
  BY DEF CoSign, CoSigned
<1>2. /\ kind[s] = "cms" => ~Envelope(p)
      /\ kind[s] # "cms" => Made(p, s)
      /\ p.hash = doc /\ ~Envelope(Header)
  BY PartIs DEF Envelope, Header
<1> HIDE DEF p
<1>3. cms_data' \in Seq(ToSet(cms_data'))
  BY <1>1, <1>2, CoSignedIs DEF DocumentsInv
<1>4. /\ kind[s] = "cms" => MarksFollow(cms_data', order, covers)
      /\ kind[s] # "cms" => MarksFollow(cms_data', Append(order, s), IF order = <<>> THEN doc ELSE covers)
  BY <1>1, <1>2, CoSignedFollows DEF DocumentsInv
<1>5. order' \in Seq(Signers) /\ MarksFollow(cms_data', order', covers')
  BY <1>1, <1>4 DEF Noted, DocumentsInv
<1> QED BY <1>1, <1>3, <1>5, KindsStay

LEMMA DocumentsKeep == DocumentsInv /\ [DocumentsNext]_docs => DocumentsInv'
<1> SUFFICES ASSUME DocumentsInv, [DocumentsNext]_docs PROVE DocumentsInv'
  OBVIOUS
<1>1. CASE UNCHANGED docs
  <2>1. order' \in Seq(Signers) /\ cms_data' \in Seq(ToSet(cms_data')) /\ MarksFollow(cms_data', order', covers')
    BY <1>1 DEF docs, DocumentsInv
  <2> QED BY <1>1, <2>1, KindsStay DEF docs
<1> QED BY <1>1, SignKeeps, CoSignKeeps, CounterSignKeeps DEF DocumentsNext

\* What stands between two places of a sequence, from its first element.
LEMMA PieceIs ==
  ASSUME NEW S, NEW s \in Seq(S), NEW m \in 1 .. Len(s), NEW n \in m .. Len(s)
  PROVE  LET piece == SubSeq(s, m, n)
         IN  piece \in Seq(S) /\ piece # <<>> /\ piece[1] = s[m] /\ Head(piece) = s[m]
<1> DEFINE piece == SubSeq(s, m, n)
<1>1. Len(s) \in Nat /\ m \in Int /\ n \in Int /\ m <= n
  OBVIOUS
<1>2. \A i \in m .. n : s[i] \in S
  <2>1. m .. n \subseteq 1 .. Len(s)
    BY <1>1
  <2> QED BY <2>1
<1>3. piece \in Seq(S) /\ Len(piece) = n - m + 1 /\ \A i \in 1 .. n - m + 1 : piece[i] = s[m + i - 1]
  BY <1>1, <1>2, SubSeqProperties
<1> HIDE DEF piece
<1>4. piece # <<>> /\ 1 \in 1 .. n - m + 1
  BY <1>1, <1>3
<1>5. piece[1] = s[m]
  <2>1. piece[1] = s[m + 1 - 1]
    BY <1>3, <1>4
  <2> QED BY <1>1, <2>1
<1> QED BY <1>3, <1>4, <1>5 DEF piece

\* verify of bytes that begin with an envelope is about that envelope.
LEMMA VerdictOfEnvelope ==
  ASSUME NEW S, NEW data \in Seq(S), data # <<>>, NEW s, Made(data[1], s), Head(data) = data[1]
  PROVE  Verify(data, NoText) = [valid |-> kind[s] \notin Keyless, signer |-> Subject(s)]
<1>1. 1 \in Marks(data) /\ Marks(data) \subseteq Nat /\ \A i \in Marks(data) : 1 <= i
  BY DEF Marks, Made
<1>2. FirstMark(data) = 1
  BY <1>1, LeastIsMin DEF FirstMark
<1>3. Head(data).is # "cms"
  BY DEF Made, Envelope
<1>4. Verify(data, NoText) = ParseGostEnvelope(data, NoText)
  BY <1>3 DEF Verify
<1>5. data[1].signed = (kind[s] \notin Keyless) /\ data[1].signer = Subject(s)
  BY DEF Made
<1> QED BY <1>1, <1>2, <1>4, <1>5 DEF ParseGostEnvelope

\* verify with an original at hand.
LEMMA OriginalIsCovered ==
  ASSUME DocumentsInv, NEW t \in Texts, Verify(cms_data, t).valid
  PROVE  covers = t
<1>1. t # NoText
  BY DocumentConstants
<1>2. Verify(cms_data, t) = ParseGostEnvelope(cms_data, t)
  BY DEF Verify
<1>3. Marks(cms_data) # {} /\ t = cms_data[FirstMark(cms_data)].hash
  <2> DEFINE e == cms_data[FirstMark(cms_data)]
  <2> DEFINE ok == Marks(cms_data) # {} /\ e.signed /\ (t = NoText \/ t = e.hash)
             name == IF Marks(cms_data) # {} THEN e.signer ELSE NoText
  <2>1. ParseGostEnvelope(cms_data, t) = [valid |-> ok, signer |-> name]
    BY Zenon DEF ParseGostEnvelope
  <2> HIDE DEF ok, name
  <2>2. ok
    BY <1>2, <2>1
  <2>3. Marks(cms_data) # {} /\ e.signed /\ (t = NoText \/ t = e.hash)
    BY <2>2, Zenon DEF ok
  <2> QED BY <1>1, <2>3
<1> QED BY <1>3 DEF DocumentsInv, MarksFollow

LEMMA DocumentsInvSuffices == DocumentsInv => VerdictsAreOfTheFirstSigners
<1> SUFFICES ASSUME DocumentsInv, Header \in ToSet(cms_data), order # <<>>
             PROVE  LET r == VerifyAll(cms_data)
                    IN  /\ Len(r) = IF Len(order) = 1 THEN 1 ELSE 2
                        /\ \A i \in DOMAIN r :
                             r[i] = [valid |-> kind[order[i]] \notin Keyless,
                                     signer |-> Subject(order[i])]
  BY OriginalIsCovered DEF VerdictsAreOfTheFirstSigners
<1> DEFINE data == cms_data
           f == FirstMark(data)
           g == SecondMark(data)
           n == Len(data)
           verdict(s) == [valid |-> kind[s] \notin Keyless, signer |-> Subject(s)]
<1>1. /\ Marks(data) # {}
      /\ Made(data[f], order[1])
      /\ (LaterMarks(data) = {}) <=> (Len(order) = 1)
      /\ LaterMarks(data) # {} => Made(data[g], order[2])
  BY DEF DocumentsInv, MarksFollow
<1>2. data \in Seq(ToSet(data)) /\ n \in Nat /\ Marks(data) \subseteq 1 .. n
  BY DEF DocumentsInv, Marks
<1>3. f \in 1 .. n /\ f \in Marks(data) /\ n \in f .. n /\ \A i \in Marks(data) : f <= i
  <2>1. Marks(data) \subseteq Nat
    BY <1>2
  <2>2. f \in Marks(data) /\ \A i \in Marks(data) : f <= i
    BY <1>1, <2>1, MinIsLeast DEF FirstMark
  <2> QED BY <1>2, <2>2
<1> HIDE DEF data, f, g, n
<1>4. CASE LaterMarks(data) = {}
  <2> DEFINE all == SubSeq(data, f, n)
  <2>1. all \in Seq(ToSet(data)) /\ all # <<>> /\ all[1] = data[f] /\ Head(all) = data[f]
    BY <1>2, <1>3, PieceIs DEF n
  <2> HIDE DEF all
  <2>2. Verify(all, NoText) = verdict(order[1])
    BY <1>1, <2>1, VerdictOfEnvelope
  <2>3. VerifyAll(cms_data) = <<Verify(all, NoText)>>
    BY <1>1, <1>4 DEF VerifyAll, all, f, n, data
  <2> QED BY <1>1, <1>4, <2>2, <2>3
<1>5. CASE LaterMarks(data) # {}
  <2>1. g \in LaterMarks(data) /\ g \in 1 .. n /\ f < g
    <3>1. LaterMarks(data) \subseteq Nat
      BY <1>2 DEF LaterMarks
    <3>2. g \in LaterMarks(data)
      BY <1>5, <3>1, MinIsLeast DEF SecondMark, g
    <3>3. g \in Marks(data) /\ g # f
      BY <3>2 DEF LaterMarks, f
    <3> QED BY <1>2, <1>3, <3>2, <3>3
  <2>2. g - 1 \in f .. n /\ n \in g .. n
    BY <1>2, <1>3, <2>1
  <2> DEFINE first == SubSeq(data, f, g - 1)
             second == SubSeq(data, g, n)
  <2>3. first \in Seq(ToSet(data)) /\ first # <<>> /\ first[1] = data[f] /\ Head(first) = data[f]
    BY <1>2, <1>3, <2>2, PieceIs DEF n
  <2>4. second \in Seq(ToSet(data)) /\ second # <<>> /\ second[1] = data[g] /\ Head(second) = data[g]
    BY <1>2, <2>1, <2>2, PieceIs DEF n
  <2> HIDE DEF first, second
  <2>5. Verify(first, NoText) = verdict(order[1]) /\ Verify(second, NoText) = verdict(order[2])
    BY <1>1, <1>5, <2>3, <2>4, VerdictOfEnvelope
  <2>6. VerifyAll(cms_data) = <<Verify(first, NoText), Verify(second, NoText)>>
    BY <1>1, <1>5 DEF VerifyAll, first, second, f, g, n, data
  <2>7. \A i \in {1, 2} : <<Verify(first, NoText), Verify(second, NoText)>>[i] = verdict(order[i])
    BY <2>5
  <2> QED BY <1>1, <1>5, <2>6, <2>7
<1> QED BY <1>4, <1>5

\* Whoever signs, co-signs and countersigns, in any order and with any keys, and
\* however many: a document verifies with its original only if the first envelope
\* was made for it, and verify_all names the first signers of a co-signed document
\* in order (DocumentSigner, DocumentVerifier).
THEOREM SignaturesAreSound == DocumentsSpec => []VerdictsAreOfTheFirstSigners
BY DocumentsStart, DocumentsKeep, DocumentsInvSuffices, PTL DEF DocumentsSpec

-----------------------------------------------------------------------------
(* The library.  A step of one class is a step of its specification and    *)
(* leaves the state of the others alone, so each property carries over.    *)

LibraryInv == VaultInv /\ JournalInv /\ SessionsInv /\ CrlInv /\ DocumentsInv

LEMMA LibraryKeeps ==
  LibraryInv /\ [LibraryNext]_<<class, vars, sess, crls, docs>> => LibraryInv'
<1> SUFFICES ASSUME LibraryInv, [LibraryNext]_<<class, vars, sess, crls, docs>> PROVE LibraryInv'
  OBVIOUS
<1>1. [Next]_vars /\ [SessionsNext]_sess /\ [CrlNext]_crls /\ [DocumentsNext]_docs
  BY DEF LibraryNext
<1> QED BY <1>1, VaultKeeps, JournalKeeps, SessionsKeeps, CrlKeeps, DocumentsKeep DEF LibraryInv

\* Every class of the library keeps its promises while the others are at work.
THEOREM LibraryIsSound ==
  LibrarySpec => [](/\ VerdictIsExact /\ VaultOpensWhole /\ RevokedStaysRevoked
                    /\ TokensFollowSessions
                    /\ RevocationFollowsLastList /\ ReferencesStayValid
                    /\ VerdictsAreOfTheFirstSigners)
<1>1. LibraryInit => LibraryInv
  BY VaultStarts, JournalStarts, SessionsStarts, CrlStarts, DocumentsStart DEF LibraryInit, LibraryInv
<1>2. LibraryInv => /\ VerdictIsExact /\ VaultOpensWhole /\ RevokedStaysRevoked
                    /\ TokensFollowSessions
                    /\ RevocationFollowsLastList /\ ReferencesStayValid
                    /\ VerdictsAreOfTheFirstSigners
  BY VaultInvSuffices, JournalInvSuffices, CrlInvSuffices, DocumentsInvSuffices DEF LibraryInv, SessionsInv
<1> QED BY <1>1, <1>2, LibraryKeeps, PTL DEF LibrarySpec
=============================================================================
