------------------------------ MODULE Sessions ------------------------------
(***************************************************************************)
(* SessionManager: sessions in memory, and tokens that outlive them.  A    *)
(* token is determined by its session and the signing key, so that the     *)
(* tokens in the world are those of all sessions ever created, by earlier  *)
(* processes too.  verify_token looks at the clock before it takes the     *)
(* mutex: other threads work in between.                                   *)
(***************************************************************************)
EXTENDS Naturals, FiniteSets

CONSTANTS
  Threads,      \* threads that verify tokens
  Ttl,          \* session_ttl_sec
  MaxSessions,  \* bound: sessions ever created
  MaxTime       \* bound: the clock

ASSUME SessionConstants == Ttl \in Nat

VARIABLES
  sign_key, verify_key,  \* "empty", "usable", or bytes that are no key: "broken"
  sessions,     \* ids in the map
  expires_at,   \* of every session ever created, which its token repeats
  time,
  call,         \* of each thread: its verify_token
  ended         \* history: sessions invalidated, or lost with their process

sess == <<sign_key, verify_key, sessions, expires_at, time, call, ended>>
keys == <<sign_key, verify_key>>

NoCall == [id |-> 0, stage |-> "none", accepted |-> FALSE, was_live |-> FALSE]
Created == DOMAIN expires_at
Unexpired(id) == time < expires_at[id]

SessionsInit ==
  /\ sign_key \in {"empty", "usable", "broken"} /\ verify_key \in {"empty", "usable", "broken"}
  /\ sessions = {} /\ expires_at = <<>> /\ time = 0 /\ ended = {}
  /\ call = [t \in Threads |-> NoCall]

CreateSession ==
  /\ Cardinality(Created) < MaxSessions
  /\ LET id == Cardinality(Created) + 1
     IN  /\ expires_at' = [i \in Created \cup {id} |-> IF i = id THEN time + Ttl ELSE expires_at[i]]
         /\ sessions' = sessions \cup {id}
  /\ UNCHANGED <<keys, time, call, ended>>

\* Without a usable key the token carries the bare digest instead.
IssuedSigned == sign_key = "usable"

\* A verifying key that is missing, or that throws, checks nothing.
SignaturePasses == verify_key # "usable" \/ IssuedSigned

Verifying(t, stage) == call[t].stage = stage
Sets(t, record) == call' = [call EXCEPT ![t] = record] /\ UNCHANGED <<keys, sessions, expires_at, time, ended>>

BeginVerify(t, id) ==
  /\ call[t].stage \in {"none", "returned"}
  /\ Sets(t, [id |-> id, stage |-> IF SignaturePasses THEN "clock" ELSE "returned",
              accepted |-> FALSE, was_live |-> FALSE])

\* is_valid, before the mutex.  was_live is history: the map at this moment.
CheckClock(t) ==
  /\ Verifying(t, "clock")
  /\ LET id == call[t].id
     IN  Sets(t, [call[t] EXCEPT !.stage = IF Unexpired(id) THEN "lookup" ELSE "returned",
                                 !.was_live = Unexpired(id) /\ id \in sessions])

BugLookUp(t) ==
  /\ Verifying(t, "lookup")
  /\ Sets(t, [call[t] EXCEPT !.stage = "returned", !.accepted = call[t].id \in Created])

LookUp(t) ==
  /\ Verifying(t, "lookup")
  /\ Sets(t, [call[t] EXCEPT !.stage = "returned", !.accepted = call[t].id \in sessions])

Invalidate(id) ==
  /\ sessions' = sessions \ {id} /\ ended' = ended \cup (sessions \cap {id})
  /\ UNCHANGED <<keys, expires_at, time, call>>

CleanupExpired ==
  /\ sessions' = {id \in sessions : ~(expires_at[id] < time)}
  /\ UNCHANGED <<keys, expires_at, time, call, ended>>

PassTime == time < MaxTime /\ time' = time + 1 /\ UNCHANGED <<keys, sessions, expires_at, call, ended>>

\* The next process has the same keys and an empty map.
Restart ==
  /\ sessions' = {} /\ ended' = ended \cup sessions
  /\ call' = [t \in Threads |-> NoCall]
  /\ UNCHANGED <<keys, expires_at, time>>

SessionsNext ==
  \/ CreateSession \/ CleanupExpired \/ PassTime \/ Restart
  \/ \E id \in Created : Invalidate(id) \/ \E t \in Threads : BeginVerify(t, id)
  \/ \E t \in Threads : CheckClock(t) \/ LookUp(t)

SessionsSpec == SessionsInit /\ [][SessionsNext]_sess

-----------------------------------------------------------------------------
\* A token is accepted only if its session was in the map and unexpired at one
\* moment of the call, and is refused only for a signature, for its age, or
\* because its session was ended: the cleanup never costs a session its last
\* moment, and no token survives an invalidation or a restart that came before
\* the call (verify_token, cleanup_expired).
TokenVerdict(t) ==
  LET c == call[t]
  IN  IF c.accepted THEN c.was_live
      ELSE ~SignaturePasses \/ ~Unexpired(c.id) \/ c.id \in ended
TokensFollowSessions == \A t \in Threads : Verifying(t, "returned") => TokenVerdict(t)
=============================================================================
