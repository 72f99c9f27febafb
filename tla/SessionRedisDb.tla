--------------------------- MODULE SessionRedisDb ---------------------------
(***************************************************************************)
(* asession.Db in redis (database/asession/database_redis.go).  A session  *)
(* takes two keys, the element and its date, each with an expiry of its    *)
(* own.  Save sets both in one MULTI with a lifetime computed before; a    *)
(* script replaces both if the date key still holds the date read.  Any    *)
(* exchange with redis may fail, before or after it took effect.           *)
(***************************************************************************)
EXTENDS Integers

CONSTANTS Id, Client, Idp, Keep, MaxNow, MaxStamp, None

VARIABLES
    body,       \* [Id -> ..]: the key tag+id, JSON of the element
    date,       \* [Id -> ..]: the key tag+"date"+id
    expIn,      \* [Client -> ..]: the lifetime computed by a Save under way
    unused, now, stamp, client  \* as in SessionStore

vars == <<body, date, expIn, unused, now, stamp, client>>

Elem == [inv : BOOLEAN, date : Nat, idp : Idp \cup {None}]

(* The JSON object of an element: the IdP is left out if there is none.    *)
Json == [inv : BOOLEAN, date : Nat] \cup [inv : BOOLEAN, date : Nat, idp : Idp]
MarshalJSON(e) == IF e.idp = None THEN [inv |-> e.inv, date |-> e.date] ELSE e

(* A mutant: the update time is not read back, so that it is the zero time *)
(* of Go, which is before all dates.                                       *)
UnmarshalJSONUndated(j) ==
    [inv |-> j.inv, date |-> -1, idp |-> IF "idp" \in DOMAIN j THEN j.idp ELSE None]

(* What the object does not have gets the zero value of its type.          *)
UnmarshalJSON(j) ==
    [inv |-> j.inv, date |-> j.date, idp |-> IF "idp" \in DOMAIN j THEN j.idp ELSE None]

ClientState ==
    [op : {"idle", "new", "got", "stamped", "ok", "lost", "missing", "error"},
     id : Id \cup {None}, elem : Elem \cup {None}, read : Nat, exp : Nat]
Idle == [op |-> "idle", id |-> None, elem |-> None, read |-> 0, exp |-> 0]

TypeOK ==
    /\ body \in [Id -> [json : Json, exp : Nat] \cup {None}]
    /\ date \in [Id -> [date : Nat, exp : Nat] \cup {None}]
    /\ expIn \in [Client -> Int \cup {None}]
    /\ unused \in SUBSET Id
    /\ now \in Nat /\ stamp \in Nat
    /\ client \in [Client -> ClientState]

Init ==
    /\ body = [i \in Id |-> None]
    /\ date = [i \in Id |-> None]
    /\ expIn = [c \in Client |-> None]
    /\ unused = Id
    /\ now = 0
    /\ stamp = 0
    /\ client = [c \in Client |-> Idle]

(* redis drops the keys whose time has passed.                             *)
Alive(keys, t) == [i \in Id |-> IF keys[i] # None /\ t > keys[i].exp THEN None ELSE keys[i]]

Tick ==
    /\ now < MaxNow
    /\ now' = now + 1
    /\ body' = Alive(body, now')
    /\ date' = Alive(date, now')
    /\ UNCHANGED <<expIn, unused, stamp, client>>

Ends(c, op) == client' = [client EXCEPT ![c] = [Idle EXCEPT !.op = op]]

Rest(c) ==
    /\ client[c].op \in {"ok", "lost", "missing", "error"}
    /\ Ends(c, "idle")
    /\ UNCHANGED <<body, date, expIn, unused, now, stamp>>

New(c, i, p) ==
    /\ client[c].op = "idle"
    /\ i \in unused
    /\ stamp < MaxStamp
    /\ unused' = unused \ {i}
    /\ stamp' = stamp + 1
    /\ client' = [client EXCEPT ![c] =
           [op |-> "new", id |-> i, elem |-> [inv |-> FALSE, date |-> stamp, idp |-> p],
            read |-> 0, exp |-> now + Keep]]
    /\ UNCHANGED <<body, date, expIn, now>>

(* The first half of Save: the lifetime is what is left by now.            *)
SaveStarts(c) ==
    /\ client[c].op = "new"
    /\ expIn[c] = None
    /\ expIn' = [expIn EXCEPT ![c] = client[c].exp - now]
    /\ UNCHANGED <<body, date, unused, now, stamp, client>>

(* Mutants: the date key is set first; a lifetime is taken for a time.     *)
BothSetDateFirst(i, e, life) ==
    \E d \in 0 .. 1 : \E b \in d .. 1 :
        /\ date' = [date EXCEPT ![i] = [date |-> e.date, exp |-> now + life + d]]
        /\ body' = [body EXCEPT ![i] = [json |-> MarshalJSON(e), exp |-> now + life + b]]
BothSetAbsolute(i, e, life) ==
    /\ body' = [body EXCEPT ![i] = [json |-> MarshalJSON(e), exp |-> life - now]]
    /\ date' = [date EXCEPT ![i] = [date |-> e.date, exp |-> life - now]]

(* Both keys get the lifetime, counted by each SET from when it runs.  The *)
(* clock may go on by a millisecond before the one or between the two, so  *)
(* the date key, set last, may live longer than the body key.              *)
BothSet(i, e, life) ==
    \E b \in 0 .. 1 : \E d \in b .. 1 :
        /\ body' = [body EXCEPT ![i] = [json |-> MarshalJSON(e), exp |-> now + life + b]]
        /\ date' = [date EXCEPT ![i] = [date |-> e.date, exp |-> now + life + d]]

(* The second half: EXEC.  redis refuses a lifetime that is not positive,  *)
(* but inside the reply of EXEC, where Save does not look.                 *)
SaveExec(c) ==
    LET s == client[c]
    IN  /\ s.op = "new"
        /\ expIn[c] # None
        /\ expIn' = [expIn EXCEPT ![c] = None]
        /\ \/ expIn[c] > 0 /\ BothSet(s.id, s.elem, expIn[c]) /\ Ends(c, "ok")
           \/ expIn[c] > 0 /\ BothSet(s.id, s.elem, expIn[c]) /\ Ends(c, "error")
           \/ expIn[c] <= 0 /\ UNCHANGED <<body, date>> /\ Ends(c, "ok")
           \/ UNCHANGED <<body, date>> /\ Ends(c, "error")
        /\ UNCHANGED <<unused, now, stamp>>

Get(c, i) ==
    /\ client[c].op = "idle"
    /\ \/ /\ body[i] # None
          /\ LET e == UnmarshalJSON(body[i].json)
             IN  client' = [client EXCEPT ![c] =
                     [op |-> "got", id |-> i, elem |-> e, read |-> e.date, exp |-> 0]]
       \/ body[i] = None /\ Ends(c, "missing")
       \/ Ends(c, "error")
    /\ UNCHANGED <<body, date, expIn, unused, now, stamp>>

Invalidate(c) ==
    /\ client[c].op = "got"
    /\ stamp < MaxStamp
    /\ stamp' = stamp + 1
    /\ client' = [client EXCEPT ![c].op = "stamped",
                                ![c].elem.inv = TRUE, ![c].elem.date = stamp]
    /\ UNCHANGED <<body, date, expIn, unused, now>>

(* A mutant: any date will do.                                             *)
DateUnchecked(i, d) == date[i] # None

(* The script reads the date key first.                                    *)
DateMatches(i, d) == date[i] # None /\ date[i].date = d

(* pttl of the body key: redis takes no lifetime of 0 or less, so that the *)
(* script fails in the last millisecond and when only the date key is left.*)
Pttl(i) == IF body[i] = None THEN -2 ELSE body[i].exp - now

Replace(c) ==
    LET i == client[c].id
        ok == DateMatches(i, client[c].read)
    IN  /\ client[c].op = "stamped"
        /\ \/ ok /\ Pttl(i) > 0 /\ BothSet(i, client[c].elem, Pttl(i)) /\ Ends(c, "ok")
           \/ ok /\ Pttl(i) > 0 /\ BothSet(i, client[c].elem, Pttl(i)) /\ Ends(c, "error")
           \/ ok /\ Pttl(i) <= 0 /\ UNCHANGED <<body, date>> /\ Ends(c, "error")
           \/ ~ok /\ UNCHANGED <<body, date>> /\ Ends(c, "lost")
           \/ UNCHANGED <<body, date>> /\ Ends(c, "error")
        /\ UNCHANGED <<expIn, unused, now, stamp>>

Next ==
    \/ Tick
    \/ \E c \in Client, i \in Id, p \in Idp \cup {None} : New(c, i, p)
    \/ \E c \in Client, i \in Id : Get(c, i)
    \/ \E c \in Client : SaveStarts(c) \/ SaveExec(c) \/ Invalidate(c) \/ Replace(c) \/ Rest(c)

Spec == Init /\ [][Next]_vars

(* The element tells the same date as its date key, which is there when    *)
(* the element is.  A reader is so told "invalid date" (that is, "reused   *)
(* user session") only if somebody replaced the version that it read, or   *)
(* if the date key expired before Replace.                                 *)
KeysAgree ==
    \A i \in Id : body[i] # None =>
        /\ date[i] # None
        /\ date[i].date = body[i].json.date
        /\ date[i].exp >= body[i].exp

(* What the keys mean.                                                     *)
stored == [i \in Id |->
    IF body[i] = None THEN None
    ELSE [elem |-> UnmarshalJSON(body[i].json), exp |-> body[i].exp]]
=============================================================================
