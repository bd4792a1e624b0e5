-------------------------------- MODULE Crl ---------------------------------
(***************************************************************************)
(* CrlManager and CrlCache: lists of revoked certificates that are made,   *)
(* loaded, and asked.  A serial number has several spellings in hex;       *)
(* BN_bn2hex, which writes the index and Certificate::serial_hex alike,    *)
(* knows one of them.                                                      *)
(***************************************************************************)
EXTENDS Naturals, FiniteSets

CONSTANTS
  Serials,      \* serial numbers
  Urls,         \* distribution points asked of the cache
  MaxLoads,     \* bound: loads and requests to the cache
  MaxDay        \* bound: the clock

VARIABLES
  crl,          \* the list held, or NoList
  revoked_map,  \* its index: spelled serial numbers
  cache,        \* url -> number of the manager cached for it; 0: none
  day,
  loads,        \* loads and requests so far
  last,         \* history: the last list that was loaded
  handed        \* history: references get_crl returned

crls == <<crl, revoked_map, cache, day, loads, last, handed>>

NoList == [serials |-> {}, next |-> 0, held |-> FALSE]
Spelled(serial, spelling) == <<serial, spelling>>
BN_bn2hex(serial) == Spelled(serial, "upper")

\* create_gost_crl: BN_hex2bn reads every spelling of the caller's entries.
CreateGostCrl(entries, validity) ==
  [serials |-> {e[1] : e \in entries}, next |-> day + validity, held |-> TRUE]

\* A list need not tell its next update.
Endless(list) == [list EXCEPT !.next = 0]
Lists ==
  {CreateGostCrl({Spelled(s, "lower") : s \in S}, 1) : S \in SUBSET Serials}
    \cup {Endless(CreateGostCrl({Spelled(s, "upper") : s \in S}, 1)) : S \in SUBSET Serials}

CrlInit ==
  /\ crl = NoList /\ revoked_map = {} /\ last = NoList
  /\ cache = [u \in Urls |-> 0] /\ day = 1 /\ loads = 0 /\ handed = {}

\* BuildIndex clears first.
BugBuildIndex(list) == revoked_map \cup {BN_bn2hex(s) : s \in list.serials}
BuildIndex(list) == {BN_bn2hex(s) : s \in list.serials}

CountLoad == loads < MaxLoads /\ loads' = loads + 1

LoadList(list) ==
  /\ crl' = list /\ last' = list /\ revoked_map' = BuildIndex(list) /\ CountLoad
  /\ UNCHANGED <<cache, day, handed>>

\* Not a list: the old one is freed already, its index stays, and it throws.
LoadFails ==
  /\ crl' = NoList /\ CountLoad
  /\ UNCHANGED <<revoked_map, cache, day, last, handed>>

\* load_from_file: a file that cannot be opened throws first; else PEM, then DER.
OpenFails == CountLoad /\ UNCHANGED <<crl, revoked_map, cache, day, last, handed>>
LoadFromFile == OpenFails \/ LoadFails \/ \E list \in Lists : LoadList(list)

\* load_from_pem, load_from_der.
LoadFromMemory == LoadFails \/ \E list \in Lists : LoadList(list)

NextUpdate(list) == IF list.held THEN list.next ELSE 0
BugIsExpired(list) == day > NextUpdate(list)
IsExpired(list) == NextUpdate(list) > 0 /\ day > NextUpdate(list)
IsRevokedSpelled(spelled) == spelled \in revoked_map
IsRevoked(serial) == IsRevokedSpelled(BN_bn2hex(serial))

\* The list of a cached manager: it is made without one, and nobody loads one
\* into it.
CachedList(url) == NoList

\* A cached manager is handed out as it is, or a new one in its place.
GetCrl(url) ==
  /\ CountLoad
  /\ LET fresh == IF cache[url] = 0 \/ IsExpired(CachedList(url)) THEN loads' ELSE cache[url]
     IN  cache' = [cache EXCEPT ![url] = fresh] /\ handed' = handed \cup {<<url, fresh>>}
  /\ UNCHANGED <<crl, revoked_map, day, last>>

NextDay == day < MaxDay /\ day' = day + 1 /\ UNCHANGED <<crl, revoked_map, cache, loads, last, handed>>

CrlNext == LoadFromFile \/ LoadFromMemory \/ NextDay \/ \E url \in Urls : GetCrl(url)

-----------------------------------------------------------------------------
\* A certificate is revoked exactly when the last list that could be read says
\* so, however its maker spelled the number and whatever failed to load since
\* (build_index, load_from_*, is_revoked).
RevocationFollowsLastList == \A s \in Serials : IsRevoked(s) <=> s \in last.serials

\* A reference that get_crl returned is still that of a cached manager: no
\* entry is replaced while somebody may hold it (CrlCache::get_crl).
ReferencesStayValid == \A r \in handed : cache[r[1]] = r[2]
=============================================================================
