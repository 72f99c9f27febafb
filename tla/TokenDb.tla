------------------------------ MODULE TokenDb ------------------------------
(***************************************************************************)
(* token.Db (database/token): the access tokens under their tags, each     *)
(* with its own expiry and kept until the end of its retention.  serve     *)
(* (main.go) makes it in memory or in redis by the parameter tokDbType.    *)
(***************************************************************************)
EXTENDS Integers

CONSTANTS
    Tag,
    Keep,       \* tokDbExpIn: how long an access token is to be kept
    None

VARIABLES
    tokDbType,
    tokDb,      \* [Tag -> ..]: the expiry of the token, the end of the retention
    now

TypeOK ==
    /\ tokDbType \in {"memory", "redis"}
    /\ tokDb \in [Tag -> [exp : Int, until : Nat] \cup {None}]

Init ==
    /\ tokDbType \in {"memory", "redis"}
    /\ tokDb = [t \in Tag |-> None]

Outdated(t, time) == tokDb[t] # None /\ time > tokDb[t].until

(* redis counts the lifetime from when the command arrives, which may be   *)
(* later.                                                                  *)
Late == IF tokDbType = "redis" THEN 0 .. 1 ELSE {0}

(* redis takes no lifetime of 0 or less.                                   *)
Refused(kept) == tokDbType = "redis" /\ kept <= now

(* Db.Save of a token that expires at exp, to be kept until the time kept. *)
Save(t, exp, kept) ==
    /\ ~Refused(kept)
    /\ \E late \in Late : tokDb' = [tokDb EXCEPT ![t] = [exp |-> exp, until |-> kept + late]]

(* Db.GetByTag finds the token.                                            *)
Found(t) == tokDb[t] # None /\ ~Outdated(t, now)

(* Db.GetByTag deletes an outdated entry from memory.                      *)
Forget(t) ==
    /\ tokDbType = "memory"
    /\ Outdated(t, now)
    /\ tokDb' = [tokDb EXCEPT ![t] = None]

(* Outdated keys go from redis by themselves.                              *)
Age(time) ==
    tokDb' = [t \in Tag |-> IF tokDbType = "redis" /\ Outdated(t, time) THEN None ELSE tokDb[t]]

(* What is left after a restart of the server.                             *)
Restart == tokDb' = IF tokDbType = "memory" THEN [t \in Tag |-> None] ELSE tokDb
=============================================================================
