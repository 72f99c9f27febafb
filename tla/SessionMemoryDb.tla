-------------------------- MODULE SessionMemoryDb --------------------------
(***************************************************************************)
(* asession.Db in memory (database/asession/database_memory.go).  A mutex  *)
(* makes each operation atomic.  Elements are handled by pointer, so the   *)
(* heap is modelled: a handler changes the element that it holds, and the  *)
(* copies made by the DB keep it from changing the one that is stored.     *)
(***************************************************************************)
EXTENDS Integers

CONSTANTS Id, Client, Idp, Keep, MaxNow, MaxStamp, None

VARIABLES
    heap,       \* [Ptr -> ..]: the elements in memory
    idToElem,   \* [Id -> ..]: memoryDb.idToElem, pointers
    idToExp,    \* [Id -> ..]: memoryDb.idToExp
    held,       \* [Client -> ..]: the pointer that a handler holds
    unused, now, stamp,
    client      \* as in SessionStore, the element left out

vars == <<heap, idToElem, idToExp, held, unused, now, stamp, client>>

(* An allocation by handler c yields pointer c, and a copy made for the    *)
(* map entry of i pointer i: neither is referred to any more by then.      *)
Ptr == Client \cup Id

Elem == [inv : BOOLEAN, date : Nat, idp : Idp \cup {None}]
ClientState ==
    [op : {"idle", "new", "got", "stamped", "ok", "lost", "missing"},
     id : Id \cup {None}, read : Nat, exp : Nat]
Idle == [op |-> "idle", id |-> None, read |-> 0, exp |-> 0]

TypeOK ==
    /\ heap \in [Ptr -> Elem \cup {None}]
    /\ idToElem \in [Id -> Ptr \cup {None}]
    /\ idToExp \in [Id -> Nat]
    /\ held \in [Client -> Ptr \cup {None}]
    /\ unused \in SUBSET Id
    /\ now \in Nat /\ stamp \in Nat
    /\ client \in [Client -> ClientState]

Init ==
    /\ heap = [p \in Ptr |-> None]
    /\ idToElem = [i \in Id |-> None]
    /\ idToExp = [i \in Id |-> 0]
    /\ held = [c \in Client |-> None]
    /\ unused = Id
    /\ now = 0
    /\ stamp = 0
    /\ client = [c \in Client |-> Idle]

Tick ==
    /\ now < MaxNow
    /\ now' = now + 1
    /\ UNCHANGED <<heap, idToElem, idToExp, held, unused, stamp, client>>

(* The handler lets go of its element.                                     *)
Ends(c, op) ==
    /\ client' = [client EXCEPT ![c] = [Idle EXCEPT !.op = op]]
    /\ held' = [held EXCEPT ![c] = None]

Rest(c) ==
    /\ client[c].op \in {"ok", "lost", "missing"}
    /\ Ends(c, "idle")
    /\ UNCHANGED <<heap, idToElem, idToExp, unused, now, stamp>>

New(c, i, p) ==
    /\ client[c].op = "idle"
    /\ i \in unused
    /\ stamp < MaxStamp
    /\ unused' = unused \ {i}
    /\ stamp' = stamp + 1
    /\ heap' = [heap EXCEPT ![c] = [inv |-> FALSE, date |-> stamp, idp |-> p]]
    /\ held' = [held EXCEPT ![c] = c]
    /\ client' = [client EXCEPT ![c] = [op |-> "new", id |-> i, read |-> 0, exp |-> now + Keep]]
    /\ UNCHANGED <<idToElem, idToExp, now>>

(* A mutant: no copy is passed on.                                         *)
PassedUncopied(p, q) == p

(* The element at p is copied to q and the copy is what is passed on.      *)
CopyTo(p, q) == [heap EXCEPT ![q] = heap[p]]
Passed(p, q) == q

Save(c) ==
    LET i == client[c].id
    IN  /\ client[c].op = "new"
        /\ heap' = CopyTo(held[c], i)
        /\ idToElem' = [idToElem EXCEPT ![i] = Passed(held[c], i)]
        /\ idToExp' = [idToExp EXCEPT ![i] = client[c].exp]
        /\ Ends(c, "ok")
        /\ UNCHANGED <<unused, now, stamp>>

Expired(i) == now > idToExp[i]

(* An expired entry is deleted when it is asked for.                       *)
Get(c, i) ==
    /\ client[c].op = "idle"
    /\ \/ /\ idToElem[i] = None
          /\ Ends(c, "missing")
          /\ UNCHANGED <<heap, idToElem, idToExp>>
       \/ /\ idToElem[i] # None
          /\ Expired(i)
          /\ idToElem' = [idToElem EXCEPT ![i] = None]
          /\ idToExp' = [idToExp EXCEPT ![i] = 0]
          /\ Ends(c, "missing")
          /\ UNCHANGED heap
       \/ /\ idToElem[i] # None
          /\ ~Expired(i)
          /\ heap' = CopyTo(idToElem[i], c)
          /\ held' = [held EXCEPT ![c] = Passed(idToElem[i], c)]
          /\ client' = [client EXCEPT ![c] =
                 [op |-> "got", id |-> i, read |-> heap[idToElem[i]].date, exp |-> 0]]
          /\ UNCHANGED <<idToElem, idToExp>>
    /\ UNCHANGED <<unused, now, stamp>>

(* Element.Invalidate, through the pointer.                                *)
Invalidate(c) ==
    /\ client[c].op = "got"
    /\ stamp < MaxStamp
    /\ stamp' = stamp + 1
    /\ heap' = [heap EXCEPT ![held[c]].inv = TRUE, ![held[c]].date = stamp]
    /\ client' = [client EXCEPT ![c].op = "stamped"]
    /\ UNCHANGED <<idToElem, idToExp, held, unused, now>>

DateEquals(i, d) == idToElem[i] # None /\ heap[idToElem[i]].date = d

(* The retention time is neither checked nor changed.                      *)
Replace(c) ==
    LET i == client[c].id
        ok == DateEquals(i, client[c].read)
    IN  /\ client[c].op = "stamped"
        /\ \/ /\ ok
              /\ heap' = CopyTo(held[c], i)
              /\ idToElem' = [idToElem EXCEPT ![i] = Passed(held[c], i)]
              /\ Ends(c, "ok")
           \/ /\ ~ok
              /\ Ends(c, "lost")
              /\ UNCHANGED <<heap, idToElem>>
        /\ UNCHANGED <<idToExp, unused, now, stamp>>

Next ==
    \/ Tick
    \/ \E c \in Client, i \in Id, p \in Idp \cup {None} : New(c, i, p)
    \/ \E c \in Client, i \in Id : Get(c, i)
    \/ \E c \in Client : Save(c) \/ Invalidate(c) \/ Replace(c) \/ Rest(c)

Spec == Init /\ [][Next]_vars

(* What the handlers and the map mean, the pointers followed.              *)
elems == [c \in Client |->
    [op |-> client[c].op, id |-> client[c].id, read |-> client[c].read,
     exp |-> client[c].exp, elem |-> IF held[c] = None THEN None ELSE heap[held[c]]]]
stored == [i \in Id |->
    IF idToElem[i] = None THEN None
    ELSE [elem |-> heap[idToElem[i]], exp |-> idToExp[i]]]

=============================================================================
