------------------------------ MODULE SessionDb ------------------------------
(***************************************************************************)
(* The session DB of the authentication page, of the kind that serve       *)
(* (main.go) makes by the parameter asessDbType: in memory or in redis.    *)
(* Either has to keep what asession.Db (SessionStore) promises.            *)
(***************************************************************************)
EXTENDS Integers

CONSTANTS
    Id,         \* session IDs
    Client,     \* handlers at work
    Idp,        \* IdPs that a session may be bound to
    Keep,       \* how long a session is to be kept: sessDbExpIn
    MaxNow,     \* bound of the time
    MaxStamp,   \* bound of the number of dates handed out
    None

ASSUME StoreAssumption ==
    /\ Keep \in Nat \ {0}
    /\ MaxNow \in Nat
    /\ MaxStamp \in Nat
    /\ Client \cap Id = {}

VARIABLES
    type,                               \* asessDbType
    heap, idToElem, idToExp, held,      \* see SessionMemoryDb
    memClient,                          \* its client
    body, date, expIn,                  \* see SessionRedisDb
    redClient,                          \* its client
    unused, now, stamp                  \* see SessionStore

memVars == <<heap, idToElem, idToExp, held, memClient>>
redVars == <<body, date, expIn, redClient>>
vars == <<type, memVars, redVars, unused, now, stamp>>

Memory == INSTANCE SessionMemoryDb WITH client <- memClient
Redis == INSTANCE SessionRedisDb WITH client <- redClient

(* What is not there is told apart from everything that may be.            *)
ASSUME NoneAssumption ==
    /\ None \notin Id \cup Idp \cup Client
    /\ None \notin [elem : Redis!Elem, exp : Nat]
    /\ None \notin [json : Redis!Json, exp : Nat]
    /\ None \notin [date : Nat, exp : Nat]

TypeOK == type \in {"memory", "redis"} /\ Memory!TypeOK /\ Redis!TypeOK

Init ==
    /\ type \in {"memory", "redis"}
    /\ Memory!Init
    /\ Redis!Init

Next ==
    /\ UNCHANGED type
    /\ \/ type = "memory" /\ Memory!Next /\ UNCHANGED redVars
       \/ type = "redis" /\ Redis!Next /\ UNCHANGED memVars

Spec == Init /\ [][Next]_vars

(* A session found in redis tells the same date as its date key, which     *)
(* lives at least as long, so that of a session that is still there no     *)
(* reader is told "invalid date" (that is, "reused user session") unless   *)
(* somebody else took it.                                                  *)
KeysAgree == Redis!KeysAgree

Promise == INSTANCE SessionStore
    WITH store <- IF type = "memory" THEN Memory!stored ELSE Redis!stored,
         client <- IF type = "memory" THEN Memory!elems ELSE redClient

(* Either kind keeps the promise of asession.Db: what a handler does to    *)
(* its copy never shows in the DB, a session is found as it was saved      *)
(* until its retention time is over, and Replace lets one reader of a      *)
(* version through, in redis in the presence of lost connections and of    *)
(* keys that expire between any two commands.                              *)
KeepsPromise == Promise!Spec

(* Hence a version of a session that is stored is replaced once, whoever   *)
(* else read it, and what is stored under an ID is invalid from then on    *)
(* and lives no more than a millisecond longer.                            *)
OnlyNewer == Promise!StoredGetsNewer
=============================================================================
