---------------------------- MODULE SessionStore ----------------------------
(***************************************************************************)
(* What asession.Db (database/asession/database.go) promises to the        *)
(* handlers of the user authentication page, and how they use it: a        *)
(* session is saved under a new ID until some time; a handler that gets it *)
(* holds a copy of its own, invalidates the copy, and may put it back only *)
(* if the session is still the version that it read.                       *)
(*                                                                         *)
(* Of a session only the flag inv, the update time date and the IdP, the   *)
(* one field that may be empty, are kept; every date is one reading of a   *)
(* clock that never shows a time twice.                                    *)
(***************************************************************************)
EXTENDS Integers

CONSTANTS
    Id,         \* session IDs
    Client,     \* handlers at work
    Idp,        \* IdPs that a session may be bound to
    Keep,       \* how long a session is to be kept: sessDbExpIn
    MaxNow,     \* bound of the time
    MaxStamp,   \* bound of the number of dates handed out
    None

VARIABLES
    store,      \* [Id -> ..]: the session saved and the end of its retention
    unused,     \* IDs that no session has had
    now,        \* time, in milliseconds
    stamp,      \* the next date
    client      \* [Client -> ..]: what each handler is doing

vars == <<store, unused, now, stamp, client>>

Elem == [inv : BOOLEAN, date : Nat, idp : Idp \cup {None}]

(* "new": holds a session to save until exp.  "got": holds a copy of a     *)
(* session read with date read.  "stamped": has invalidated it.  Then the  *)
(* outcome of the last operation.                                          *)
ClientState ==
    [op : {"idle", "new", "got", "stamped", "ok", "lost", "missing", "error"},
     id : Id \cup {None}, elem : Elem \cup {None}, read : Nat, exp : Nat]

Idle == [op |-> "idle", id |-> None, elem |-> None, read |-> 0, exp |-> 0]

TypeOK ==
    /\ store \in [Id -> [elem : Elem, exp : Nat] \cup {None}]
    /\ unused \in SUBSET Id
    /\ now \in Nat
    /\ stamp \in Nat
    /\ client \in [Client -> ClientState]

Init ==
    /\ store = [i \in Id |-> None]
    /\ unused = Id
    /\ now = 0
    /\ stamp = 0
    /\ client = [c \in Client |-> Idle]

(* Sessions whose time is over may go.                                     *)
Tick ==
    /\ now < MaxNow
    /\ now' = now + 1
    /\ \E gone \in SUBSET {i \in Id : store[i] # None /\ store[i].exp <= now'} :
          store' = [i \in Id |-> IF i \in gone THEN None ELSE store[i]]
    /\ UNCHANGED <<unused, stamp, client>>

(* A client is through with an operation.                                  *)
Ends(c, op) == client' = [client EXCEPT ![c] = [Idle EXCEPT !.op = op]]

Rest(c) ==
    /\ client[c].op \in {"ok", "lost", "missing", "error"}
    /\ Ends(c, "idle")
    /\ UNCHANGED <<store, unused, now, stamp>>

New(c, i, p) ==
    /\ client[c].op = "idle"
    /\ i \in unused
    /\ stamp < MaxStamp
    /\ unused' = unused \ {i}
    /\ stamp' = stamp + 1
    /\ client' = [client EXCEPT ![c] =
           [op |-> "new", id |-> i, elem |-> [inv |-> FALSE, date |-> stamp, idp |-> p],
            read |-> 0, exp |-> now + Keep]]
    /\ UNCHANGED <<store, now>>

Saved(c, x) == [store EXCEPT ![client[c].id] = [elem |-> client[c].elem, exp |-> x]]

(* The session is kept until exp at least, so not at all if that is over.  *)
(* An error leaves it open whether it was saved.                           *)
Save(c) ==
    /\ client[c].op = "new"
    /\ \/ now >= client[c].exp /\ store' = store /\ Ends(c, "ok")
       \/ \E x \in client[c].exp .. MaxNow + Keep + 1 : store' = Saved(c, x) /\ Ends(c, "ok")
       \/ store' = store /\ Ends(c, "error")
       \/ \E x \in client[c].exp .. MaxNow + Keep + 1 : store' = Saved(c, x) /\ Ends(c, "error")
    /\ UNCHANGED <<unused, now, stamp>>

(* A session is found unless it was never saved or its time is over.       *)
Get(c, i) ==
    /\ client[c].op = "idle"
    /\ \/ /\ store[i] # None
          /\ client' = [client EXCEPT ![c] =
                 [op |-> "got", id |-> i, elem |-> store[i].elem,
                  read |-> store[i].elem.date, exp |-> 0]]
          /\ UNCHANGED store
       \/ /\ store[i] = None
          /\ Ends(c, "missing")
          /\ UNCHANGED store
       \/ /\ store[i] # None
          /\ now >= store[i].exp
          /\ store' = [store EXCEPT ![i] = None]
          /\ Ends(c, "missing")
       \/ Ends(c, "error") /\ UNCHANGED store
    /\ UNCHANGED <<unused, now, stamp>>

Invalidate(c) ==
    /\ client[c].op = "got"
    /\ stamp < MaxStamp
    /\ stamp' = stamp + 1
    /\ client' = [client EXCEPT ![c].op = "stamped",
                                ![c].elem.inv = TRUE, ![c].elem.date = stamp]
    /\ UNCHANGED <<store, unused, now>>

Current(c) ==
    LET s == store[client[c].id] IN s # None /\ s.elem.date = client[c].read

(* The copy is put back if and only if the version read is still there,    *)
(* and is kept as long as that was, or a millisecond longer.               *)
Replaced(c, late) == Saved(c, store[client[c].id].exp + late)

Replace(c) ==
    /\ client[c].op = "stamped"
    /\ \/ Current(c) /\ \E late \in 0 .. 1 : store' = Replaced(c, late) /\ Ends(c, "ok")
       \/ ~Current(c) /\ UNCHANGED store /\ Ends(c, "lost")
       \/ UNCHANGED store /\ Ends(c, "error")
       \/ Current(c) /\ \E late \in 0 .. 1 : store' = Replaced(c, late) /\ Ends(c, "error")
    /\ UNCHANGED <<unused, now, stamp>>

Next ==
    \/ Tick
    \/ \E c \in Client, i \in Id, p \in Idp \cup {None} : New(c, i, p)
    \/ \E c \in Client, i \in Id : Get(c, i)
    \/ \E c \in Client : Save(c) \/ Invalidate(c) \/ Replace(c) \/ Rest(c)

Spec == Init /\ [][Next]_vars

(* A version of a session is replaced once: no other handler that read it  *)
(* puts its copy back, and what is stored gets newer, is invalid and lives *)
(* no more than a millisecond longer.                                      *)
StoredGetsNewer ==
    [][\A i \in Id :
           store[i] # None /\ store'[i] # None /\ store'[i] # store[i] =>
               /\ store'[i].elem.date > store[i].elem.date
               /\ store'[i].elem.inv
               /\ store'[i].exp \in store[i].exp .. store[i].exp + 1]_vars
=============================================================================
