--------------------------- MODULE SessionDbProofs ---------------------------
(***************************************************************************)
(* Proofs about the session DB, of either kind, for any number of sessions *)
(* and handlers: type correctness, that the keys in redis agree, and that  *)
(* either kind implements the promise of asession.Db step by step.         *)
(***************************************************************************)
EXTENDS SessionDb, TLAPS

Busy == {"new", "got", "stamped"}

(***************************************************************************)
(* The DB in redis.                                                        *)
(***************************************************************************)
(* A handler at work has an element.  The lifetime that a Save has         *)
(* computed reaches to the end of the retention at least, counted from any *)
(* later time, and is no longer than a session is to be kept.              *)
RedShape ==
    \A c \in Client :
        /\ redClient[c].op \in Busy => redClient[c].elem \in Redis!Elem /\ redClient[c].id \in Id
        /\ redClient[c].exp <= now + Keep
        /\ expIn[c] # None =>
              /\ redClient[c].op = "new"
              /\ expIn[c] <= Keep
              /\ now + expIn[c] >= redClient[c].exp

RedInv == Redis!TypeOK /\ now <= MaxNow /\ RedShape /\ Redis!KeysAgree

(* An element comes out of JSON as it went in.                             *)
LEMMA RoundTrip ==
    ASSUME NEW e \in Redis!Elem
    PROVE  /\ Redis!MarshalJSON(e) \in Redis!Json
           /\ Redis!MarshalJSON(e).date = e.date
           /\ Redis!UnmarshalJSON(Redis!MarshalJSON(e)) = e
<1>1. CASE e.idp = None
  <2>1. Redis!MarshalJSON(e) = [inv |-> e.inv, date |-> e.date]
    BY <1>1 DEF Redis!MarshalJSON
  <2>2. e = [inv |-> e.inv, date |-> e.date, idp |-> None]
    BY <1>1 DEF Redis!Elem
  <2>3. "idp" \notin DOMAIN [inv |-> e.inv, date |-> e.date]
    OBVIOUS
  <2>4. QED BY <2>1, <2>2, <2>3 DEF Redis!Elem, Redis!Json, Redis!UnmarshalJSON
<1>2. CASE e.idp # None
  <2>1. Redis!MarshalJSON(e) = e
    BY <1>2 DEF Redis!MarshalJSON
  <2>2. e \in [inv : BOOLEAN, date : Nat, idp : Idp]
    BY <1>2 DEF Redis!Elem
  <2>3. "idp" \in DOMAIN e
    BY <2>2
  <2>4. e = [inv |-> e.inv, date |-> e.date, idp |-> e.idp]
    BY <2>2
  <2>5. QED BY <2>1, <2>2, <2>3, <2>4 DEF Redis!Json, Redis!UnmarshalJSON
<1>3. QED BY <1>1, <1>2

(* Whatever JSON there is makes an element.                                *)
LEMMA FromJson ==
    ASSUME NEW j \in Redis!Json
    PROVE  Redis!UnmarshalJSON(j) \in Redis!Elem /\ Redis!UnmarshalJSON(j).date = j.date
<1>1. CASE j \in [inv : BOOLEAN, date : Nat]
  <2>1. "idp" \notin DOMAIN j
    BY <1>1
  <2>2. QED BY <1>1, <2>1 DEF Redis!UnmarshalJSON, Redis!Elem
<1>2. CASE j \in [inv : BOOLEAN, date : Nat, idp : Idp]
  <2>1. "idp" \in DOMAIN j
    BY <1>2
  <2>2. QED BY <1>2, <2>1 DEF Redis!UnmarshalJSON, Redis!Elem
<1>3. QED BY <1>1, <1>2 DEF Redis!Json

(* redis starts empty, with no handler in a call.                          *)
LEMMA RedInit == Redis!Init => RedInv
<1> SUFFICES ASSUME Redis!Init PROVE RedInv
  OBVIOUS
<1> USE DEF Redis!Init, Redis!Idle
<1>1. Redis!TypeOK
  BY DEF Redis!TypeOK, Redis!ClientState
<1>2. RedShape
  BY StoreAssumption DEF RedShape, Busy
<1>3. QED BY <1>1, <1>2, StoreAssumption DEF RedInv, Redis!KeysAgree

(* The parts of RedInv about the keys and about handlers.                  *)
Keys ==
    /\ body \in [Id -> [json : Redis!Json, exp : Nat] \cup {None}]
    /\ date \in [Id -> [date : Nat, exp : Nat] \cup {None}]
    /\ Redis!KeysAgree

Handlers ==
    /\ expIn \in [Client -> Int \cup {None}]
    /\ redClient \in [Client -> Redis!ClientState]
    /\ RedShape

(* The invariant of the redis kind by its parts.                           *)
LEMMA RedParts ==
    RedInv <=> /\ Keys /\ Handlers
               /\ unused \in SUBSET Id /\ now \in Nat /\ stamp \in Nat /\ now <= MaxNow
BY DEF RedInv, Keys, Handlers, Redis!TypeOK

(* Its parts in the next state make it hold there.                         *)
LEMMA RedPartsNext ==
    /\ Keys' /\ Handlers'
    /\ unused' \in SUBSET Id /\ now' \in Nat /\ stamp' \in Nat /\ now' <= MaxNow
    => RedInv'
BY DEF RedInv, Keys, Handlers, Redis!TypeOK

(* What a pair of SETs leaves behind.                                      *)
LEMMA BothSetKeys ==
    ASSUME Keys, now \in Nat, NEW i \in Id, NEW e \in Redis!Elem, NEW life \in Nat,
           Redis!BothSet(i, e, life)
    PROVE  /\ Keys'
           /\ \E late \in 0 .. 1 :
                 Redis!stored' = [Redis!stored EXCEPT ![i] = [elem |-> e, exp |-> now + life + late]]
<1>1. PICK m \in 0 .. 1, n \in 0 .. 1 :
         /\ m <= n
         /\ body' = [body EXCEPT ![i] = [json |-> Redis!MarshalJSON(e), exp |-> now + life + m]]
         /\ date' = [date EXCEPT ![i] = [date |-> e.date, exp |-> now + life + n]]
  <2>1. PICK m \in 0 .. 1 : \E n \in m .. 1 :
           /\ body' = [body EXCEPT ![i] = [json |-> Redis!MarshalJSON(e), exp |-> now + life + m]]
           /\ date' = [date EXCEPT ![i] = [date |-> e.date, exp |-> now + life + n]]
    BY Zenon DEF Redis!BothSet
  <2>2. PICK n \in m .. 1 :
           /\ body' = [body EXCEPT ![i] = [json |-> Redis!MarshalJSON(e), exp |-> now + life + m]]
           /\ date' = [date EXCEPT ![i] = [date |-> e.date, exp |-> now + life + n]]
    BY <2>1
  <2>3. n \in 0 .. 1 /\ m <= n
    OBVIOUS
  <2> QED BY <2>2, <2>3, Zenon
<1>2. m \in Nat /\ n \in Nat /\ m <= n
  BY <1>1
<1> DEFINE b == [json |-> Redis!MarshalJSON(e), exp |-> now + life + m]
           d == [date |-> e.date, exp |-> now + life + n]
<1>3. b \in [json : Redis!Json, exp : Nat] /\ b # None
  BY <1>2, RoundTrip, NoneAssumption
<1>4. d \in [date : Nat, exp : Nat] /\ d # None /\ d.exp >= b.exp
  BY <1>2, NoneAssumption DEF Redis!Elem
<1>5. b.json.date = d.date /\ Redis!UnmarshalJSON(b.json) = e /\ b.exp = now + life + m
  BY RoundTrip
<1>6. body' = [body EXCEPT ![i] = b] /\ date' = [date EXCEPT ![i] = d]
  BY <1>1
<1> HIDE DEF b, d
<1>7. Keys'
  BY <1>3, <1>4, <1>5, <1>6 DEF Keys, Redis!KeysAgree
<1>8. Redis!stored' = [Redis!stored EXCEPT ![i] = [elem |-> e, exp |-> now + life + m]]
  BY <1>3, <1>5, <1>6 DEF Redis!stored, Keys
<1>9. QED BY <1>7, <1>8

(* A handler that ends has nothing to keep to.                             *)
LEMMA RedEnds ==
    ASSUME Handlers, NEW c \in Client, NEW op \in {"idle", "ok", "lost", "missing", "error"},
           Redis!Ends(c, op), now \in Nat, UNCHANGED now,
           expIn' = [expIn EXCEPT ![c] = None] \/ (UNCHANGED expIn /\ expIn[c] = None)
    PROVE  Handlers'
<1>1. redClient' \in [Client -> Redis!ClientState]
  BY DEF Handlers, Redis!Ends, Redis!Idle, Redis!ClientState
<1>2. expIn' \in [Client -> Int \cup {None}] /\ expIn'[c] = None
  BY DEF Handlers
<1>3. redClient'[c].op = op /\ redClient'[c].exp = 0
  BY DEF Handlers, Redis!Ends, Redis!Idle
<1>4. \A d \in Client \ {c} : redClient'[d] = redClient[d] /\ expIn'[d] = expIn[d]
  BY DEF Handlers, Redis!Ends
<1>5. RedShape'
  BY <1>2, <1>3, <1>4, StoreAssumption DEF Handlers, RedShape, Busy
<1>6. QED BY <1>1, <1>2, <1>5 DEF Handlers

(* The same step of the promise.                                           *)
Simulates == Promise!Next \/ UNCHANGED Promise!vars

(* In redis a handler ends as it does by the promise.                      *)
LEMMA RedEndsPromise ==
    ASSUME type = "redis", UNCHANGED type, NEW c \in Client, NEW op, Redis!Ends(c, op)
    PROVE  Promise!Ends(c, op)
BY DEF Promise!Ends, Promise!Idle, Redis!Ends, Redis!Idle

(* Time passes: redis drops what has expired.                              *)
LEMMA RedTick ==
    ASSUME RedInv, type = "redis", UNCHANGED type, Redis!Tick
    PROVE  RedInv' /\ Simulates
<1> USE RedParts, RedPartsNext DEF Keys, Redis!Tick, Redis!Alive
<1>1. Keys'
  BY DEF Redis!KeysAgree
<1>2. now' \in Nat /\ now' <= MaxNow
  BY StoreAssumption
<1>3. Handlers'
  BY StoreAssumption DEF Handlers, RedShape, Redis!ClientState
<1>4. Promise!Tick
  <2> DEFINE gone == {i \in Id : body[i] # None /\ now' > body[i].exp}
  <2>1. \A i \in Id : body[i] # None => Redis!stored[i] # None /\ Redis!stored[i].exp = body[i].exp
    BY NoneAssumption, FromJson DEF Redis!stored
  <2>2. gone \in SUBSET {i \in Id : Redis!stored[i] # None /\ Redis!stored[i].exp <= now'}
    BY <2>1, <1>2
  <2>3. \A i \in Id : body'[i] = IF i \in gone THEN None ELSE body[i]
    OBVIOUS
  <2>4. Redis!stored' = [i \in Id |-> IF i \in gone THEN None ELSE Redis!stored[i]]
    BY <2>3 DEF Redis!stored
  <2> HIDE DEF gone
  <2>5. QED BY <2>2, <2>4, StoreAssumption DEF Promise!Tick
<1>5. QED BY <1>1, <1>2, <1>3, <1>4 DEF Simulates, Promise!Next

(* A handler done with its element lets go of it.                          *)
LEMMA RedRest ==
    ASSUME RedInv, type = "redis", UNCHANGED type, NEW c \in Client, Redis!Rest(c)
    PROVE  RedInv' /\ Simulates
<1> USE RedParts, RedPartsNext DEF Redis!Rest
<1>1. Handlers'
  <2>1. expIn[c] = None
    BY DEF Handlers, RedShape
  <2>2. QED BY <2>1, RedEnds
<1>2. Keys'
  BY DEF Keys, Redis!KeysAgree
<1>3. Promise!Rest(c)
  BY DEF Promise!Rest, Promise!Ends, Promise!Idle, Redis!Ends, Redis!Idle, Redis!stored
<1>4. QED BY <1>1, <1>2, <1>3 DEF Simulates, Promise!Next

(* A new element in the hands of a handler of the redis kind.              *)
LEMMA RedNew ==
    ASSUME RedInv, type = "redis", UNCHANGED type,
           NEW c \in Client, NEW i \in Id, NEW p \in Idp \cup {None}, Redis!New(c, i, p)
    PROVE  RedInv' /\ Simulates
<1> USE RedParts, RedPartsNext DEF Redis!New
<1>1. Handlers'
  <2> USE DEF Handlers
  <2>1. expIn[c] = None /\ expIn' = expIn
    BY DEF RedShape
  <2>2. [inv |-> FALSE, date |-> stamp, idp |-> p] \in Redis!Elem /\ now + Keep \in Nat
    BY StoreAssumption DEF Redis!Elem
  <2>3. redClient'[c] \in Redis!ClientState
    BY <2>2 DEF Redis!ClientState
  <2>4. redClient' \in [Client -> Redis!ClientState]
    BY <2>3
  <2>5. RedShape'
    BY <2>1, <2>2, <2>4, StoreAssumption DEF RedShape, Busy
  <2>6. QED BY <2>1, <2>4, <2>5
<1>2. Keys'
  BY DEF Keys, Redis!KeysAgree
<1>3. Promise!New(c, i, p)
  BY DEF Promise!New, Redis!stored
<1>4. unused' \in SUBSET Id /\ stamp' \in Nat
  OBVIOUS
<1>5. QED BY <1>1, <1>2, <1>3, <1>4 DEF Simulates, Promise!Next

(* redisDb.Save up to the Exec of its two SETs.                            *)
LEMMA RedSaveStarts ==
    ASSUME RedInv, type = "redis", UNCHANGED type, NEW c \in Client, Redis!SaveStarts(c)
    PROVE  RedInv' /\ Simulates
<1> USE RedParts, RedPartsNext DEF Redis!SaveStarts
<1>1. Handlers'
  <2> USE DEF Handlers
  <2>1. now \in Nat /\ redClient[c].exp \in Nat /\ redClient[c].exp <= now + Keep
    BY DEF RedShape, Redis!ClientState
  <2>2. redClient[c].exp - now \in Int /\ redClient[c].exp - now <= Keep
    BY <2>1, StoreAssumption
  <2>3. expIn' \in [Client -> Int \cup {None}] /\ UNCHANGED <<redClient, now>>
    BY <2>2
  <2>4. expIn'[c] = redClient[c].exp - now /\ \A d \in Client \ {c} : expIn'[d] = expIn[d]
    OBVIOUS
  <2>5. now + expIn'[c] >= redClient[c].exp
    BY <2>1, <2>4
  <2>6. RedShape'
    BY <2>2, <2>3, <2>4, <2>5 DEF RedShape
  <2>7. QED BY <2>3, <2>6
<1>2. Keys'
  BY DEF Keys, Redis!KeysAgree
<1>3. UNCHANGED Promise!vars
  BY DEF Promise!vars, Redis!stored
<1>4. QED BY <1>1, <1>2, <1>3 DEF Simulates

(* The Exec of redisDb.Save.                                               *)
LEMMA RedSaveExec ==
    ASSUME RedInv, type = "redis", UNCHANGED type, NEW c \in Client, Redis!SaveExec(c)
    PROVE  RedInv' /\ Simulates
<1> DEFINE s == redClient[c]
<1> USE RedParts, RedPartsNext
<1>1. /\ s.op = "new" /\ expIn[c] # None /\ expIn' = [expIn EXCEPT ![c] = None]
      /\ UNCHANGED <<unused, now, stamp>>
      /\ s.elem \in Redis!Elem /\ s.id \in Id
      /\ expIn[c] \in Int /\ s.exp \in Nat
      /\ expIn[c] <= Keep /\ now + expIn[c] >= s.exp
  BY DEF Redis!SaveExec, Handlers, RedShape, Busy, Redis!ClientState
<1>2. PICK op \in {"ok", "error"} : Redis!Ends(c, op)
  BY DEF Redis!SaveExec
<1>3. Handlers'
  BY <1>1, <1>2, RedEnds
<1>4. Promise!Ends(c, op)
  BY <1>2 DEF Promise!Ends, Promise!Idle, Redis!Ends, Redis!Idle
<1>5. CASE expIn[c] > 0 /\ Redis!BothSet(s.id, s.elem, expIn[c])
  <2>1. PICK late \in 0 .. 1 :
           /\ Keys'
           /\ Redis!stored' = [Redis!stored EXCEPT ![s.id] =
                 [elem |-> s.elem, exp |-> now + expIn[c] + late]]
    BY <1>1, <1>5, BothSetKeys
  <2>2. now + expIn[c] + late \in s.exp .. MaxNow + Keep + 1
    BY <1>1, StoreAssumption
  <2>3. Promise!Save(c)
    BY <1>1, <1>2, <1>4, <2>1, <2>2 DEF Promise!Save, Promise!Saved
  <2>4. QED BY <1>1, <1>3, <2>1, <2>3 DEF Simulates, Promise!Next
<1>6. CASE UNCHANGED <<body, date>> /\ (op = "ok" => expIn[c] <= 0)
  <2>1. Keys' /\ Redis!stored' = Redis!stored
    BY <1>6 DEF Keys, Redis!KeysAgree, Redis!stored
  <2>2. Promise!Save(c)
    BY <1>1, <1>2, <1>4, <1>6, <2>1 DEF Promise!Save
  <2>3. QED BY <1>1, <1>3, <2>1, <2>2 DEF Simulates, Promise!Next
<1>7. QED
  <2>1. redClient'[c].op = op
    BY <1>2 DEF Redis!Ends, Redis!Idle, Handlers
  <2>2. \A o : Redis!Ends(c, o) => redClient'[c].op = o
    BY DEF Redis!Ends, Redis!Idle, Handlers
  <2>3. QED BY <1>5, <1>6, <2>1, <2>2 DEF Redis!SaveExec

(* redisDb.Get, with an element, without one or with an error.             *)
LEMMA RedGet ==
    ASSUME RedInv, type = "redis", UNCHANGED type, NEW c \in Client, NEW i \in Id,
           Redis!Get(c, i)
    PROVE  RedInv' /\ Simulates
<1> USE RedParts, RedPartsNext
<1>1. redClient[c].op = "idle" /\ UNCHANGED <<body, date, expIn, unused, now, stamp>>
  BY DEF Redis!Get
<1>2. expIn[c] = None
  BY <1>1 DEF Handlers, RedShape
<1>3. Keys' /\ Redis!stored' = Redis!stored
  BY <1>1 DEF Keys, Redis!KeysAgree, Redis!stored
<1>4. CASE body[i] # None /\ redClient' = [redClient EXCEPT ![c] =
                [op |-> "got", id |-> i, elem |-> Redis!UnmarshalJSON(body[i].json),
                 read |-> Redis!UnmarshalJSON(body[i].json).date, exp |-> 0]]
  <2> DEFINE e == Redis!UnmarshalJSON(body[i].json)
  <2>1. e \in Redis!Elem /\ e.date \in Nat
    BY <1>4, FromJson DEF Keys, Redis!Elem
  <2>2. Redis!stored[i] = [elem |-> e, exp |-> body[i].exp] /\ Redis!stored[i] # None
    BY <1>4, <2>1, NoneAssumption DEF Keys, Redis!stored
  <2> HIDE DEF e
  <2>3. redClient' = [redClient EXCEPT ![c] =
            [op |-> "got", id |-> i, elem |-> e, read |-> e.date, exp |-> 0]]
    BY <1>4 DEF e
  <2>4. Handlers'
    <3>1. redClient' \in [Client -> Redis!ClientState]
      BY <2>1, <2>3 DEF Handlers, Redis!ClientState
    <3>2. RedShape'
      BY <1>1, <1>2, <2>1, <2>3, StoreAssumption DEF Handlers, RedShape, Busy
    <3>3. QED BY <1>1, <3>1, <3>2 DEF Handlers
  <2>5. Promise!Get(c, i)
    <3> DEFINE store == IF type = "memory" THEN Memory!stored ELSE Redis!stored
               client == IF type = "memory" THEN Memory!elems ELSE redClient
    <3>1. store[i] # None /\ store[i].elem = e /\ UNCHANGED store
      BY <1>3, <2>2
    <3>2. client[c].op = "idle"
      BY <1>1
    <3>3. client' = [client EXCEPT ![c] =
              [op |-> "got", id |-> i, elem |-> store[i].elem,
               read |-> store[i].elem.date, exp |-> 0]]
      BY <2>3, <3>1
    <3>4. QED BY <1>1, <3>1, <3>2, <3>3 DEF Promise!Get
  <2>6. QED BY <1>1, <1>3, <2>4, <2>5 DEF Simulates, Promise!Next
<1>5. CASE body[i] = None /\ Redis!Ends(c, "missing")
  <2>1. Handlers'
    BY <1>1, <1>2, <1>5, RedEnds
  <2>2. Promise!Ends(c, "missing") /\ Redis!stored[i] = None
    BY <1>5, RedEndsPromise DEF Redis!stored
  <2>3. /\ (IF type = "memory" THEN Memory!stored ELSE Redis!stored)[i] = None
        /\ UNCHANGED IF type = "memory" THEN Memory!stored ELSE Redis!stored
        /\ (IF type = "memory" THEN Memory!elems ELSE redClient)[c].op = "idle"
    BY <1>1, <1>3, <2>2
  <2>4. Promise!Get(c, i)
    BY <1>1, <2>2, <2>3 DEF Promise!Get
  <2>5. QED BY <1>1, <1>3, <2>1, <2>4 DEF Simulates, Promise!Next
<1>6. CASE Redis!Ends(c, "error")
  <2>1. Handlers'
    BY <1>1, <1>2, <1>6, RedEnds
  <2>2. Promise!Ends(c, "error")
    BY <1>6, RedEndsPromise
  <2>3. UNCHANGED IF type = "memory" THEN Memory!stored ELSE Redis!stored
    BY <1>3
  <2>4. (IF type = "memory" THEN Memory!elems ELSE redClient)[c].op = "idle"
    BY <1>1
  <2>5. Promise!Get(c, i)
    BY <1>1, <2>2, <2>3, <2>4 DEF Promise!Get
  <2>6. QED BY <1>1, <1>3, <2>1, <2>5 DEF Simulates, Promise!Next
<1>7. QED BY <1>4, <1>5, <1>6 DEF Redis!Get

(* A handler invalidates its own copy of the element.                      *)
LEMMA RedInvalidate ==
    ASSUME RedInv, type = "redis", UNCHANGED type, NEW c \in Client, Redis!Invalidate(c)
    PROVE  RedInv' /\ Simulates
<1> USE RedParts, RedPartsNext DEF Redis!Invalidate
<1>1. Handlers'
  <2> USE DEF Handlers
  <2>1. redClient[c].elem \in Redis!Elem /\ redClient[c].id \in Id /\ expIn[c] = None
    BY DEF RedShape, Busy
  <2>2. [redClient[c].elem EXCEPT !.inv = TRUE, !.date = stamp] \in Redis!Elem
    BY <2>1 DEF Redis!Elem
  <2> DEFINE s == redClient[c]
             t == [s EXCEPT !.op = "stamped", !.elem.inv = TRUE, !.elem.date = stamp]
  <2>3. redClient' = [redClient EXCEPT ![c] = t] /\ s \in Redis!ClientState
    OBVIOUS
  <2>4. redClient'[c] \in Redis!ClientState
    BY <2>2, <2>3 DEF Redis!ClientState
  <2>5. redClient' \in [Client -> Redis!ClientState]
        /\ \A d \in Client \ {c} : redClient'[d] = redClient[d]
    BY <2>4
  <2>6. /\ redClient'[c].op = "stamped" /\ redClient'[c].exp = redClient[c].exp
        /\ redClient'[c].id = redClient[c].id /\ redClient'[c].elem \in Redis!Elem
    BY <2>2, <2>3 DEF Redis!ClientState
  <2>7. RedShape'
    BY <2>1, <2>5, <2>6 DEF RedShape, Busy
  <2>8. QED BY <2>5, <2>7
<1>2. Keys'
  BY DEF Keys, Redis!KeysAgree
<1>3. Promise!Invalidate(c)
  BY DEF Promise!Invalidate, Redis!stored
<1>4. stamp' \in Nat
  OBVIOUS
<1>5. QED BY <1>1, <1>2, <1>3, <1>4 DEF Simulates, Promise!Next

(* redisDb.Replace, by its script.                                         *)
LEMMA RedReplace ==
    ASSUME RedInv, type = "redis", UNCHANGED type, NEW c \in Client, Redis!Replace(c)
    PROVE  RedInv' /\ Simulates
<1> DEFINE i == redClient[c].id
           e == redClient[c].elem
           ok == Redis!DateMatches(i, redClient[c].read)
<1> USE RedParts, RedPartsNext
<1>1. /\ redClient[c].op = "stamped" /\ i \in Id /\ e \in Redis!Elem /\ expIn[c] = None
      /\ UNCHANGED <<expIn, unused, now, stamp>>
  BY DEF Redis!Replace, Handlers, RedShape, Busy
<1>2. Redis!stored[i] # None <=> body[i] # None
  BY <1>1, NoneAssumption, FromJson DEF Redis!stored, Keys
<1>3. body[i] # None =>
        /\ Redis!stored[i] = [elem |-> Redis!UnmarshalJSON(body[i].json), exp |-> body[i].exp]
        /\ Redis!stored[i].elem.date = date[i].date
        /\ date[i] # None /\ body[i].exp \in Nat
  BY <1>1, FromJson DEF Redis!stored, Keys, Redis!KeysAgree
<1>4. Promise!Current(c) <=> body[i] # None /\ ok
  BY <1>1, <1>2, <1>3 DEF Promise!Current, Redis!DateMatches
<1>5. CASE /\ ok /\ Redis!Pttl(i) > 0 /\ Redis!BothSet(i, e, Redis!Pttl(i))
           /\ Redis!Ends(c, "ok") \/ Redis!Ends(c, "error")
  <2>1. body[i] # None /\ Redis!Pttl(i) = body[i].exp - now
    BY <1>5 DEF Redis!Pttl
  <2>2. Redis!Pttl(i) \in Nat /\ now + Redis!Pttl(i) = body[i].exp
    BY <1>3, <1>5, <2>1
  <2>3. PICK late \in 0 .. 1 :
           /\ Keys'
           /\ Redis!stored' = [Redis!stored EXCEPT ![i] = [elem |-> e, exp |-> body[i].exp + late]]
    BY <1>1, <1>5, <2>2, BothSetKeys
  <2>4. Redis!stored' = Promise!Replaced(c, late)
    <3>1. Redis!stored[i].exp = body[i].exp
      BY <1>3, <2>1
    <3> QED BY <2>3, <3>1 DEF Promise!Replaced, Promise!Saved
  <2>5. Handlers'
    BY <1>1, <1>5, RedEnds
  <2>6. Promise!Replace(c)
    BY <1>1, <1>4, <1>5, <2>1, <2>4
       DEF Promise!Replace, Promise!Ends, Promise!Idle, Redis!Ends, Redis!Idle
  <2>7. QED BY <1>1, <2>3, <2>5, <2>6 DEF Simulates, Promise!Next
<1>6. CASE UNCHANGED <<body, date>> /\ (Redis!Ends(c, "error") \/ (~ok /\ Redis!Ends(c, "lost")))
  <2>1. Keys' /\ Redis!stored' = Redis!stored
    BY <1>6 DEF Keys, Redis!KeysAgree, Redis!stored
  <2>2. Handlers'
    BY <1>1, <1>6, RedEnds
  <2>3. Promise!Replace(c)
    BY <1>1, <1>4, <1>6, <2>1
       DEF Promise!Replace, Promise!Ends, Promise!Idle, Redis!Ends, Redis!Idle
  <2>4. QED BY <1>1, <2>1, <2>2, <2>3 DEF Simulates, Promise!Next
<1>7. QED BY <1>5, <1>6 DEF Redis!Replace

(* Every step of the redis kind keeps its invariant and the promise.       *)
LEMMA RedStep ==
    ASSUME RedInv, type = "redis", UNCHANGED type, Redis!Next
    PROVE  RedInv' /\ Simulates
<1>1. CASE Redis!Tick
  BY <1>1, RedTick
<1>2. CASE \E c \in Client, i \in Id, p \in Idp \cup {None} : Redis!New(c, i, p)
  BY <1>2, RedNew
<1>3. CASE \E c \in Client, i \in Id : Redis!Get(c, i)
  BY <1>3, RedGet
<1>4. ASSUME NEW c \in Client,
             \/ Redis!SaveStarts(c) \/ Redis!SaveExec(c)
             \/ Redis!Invalidate(c) \/ Redis!Replace(c) \/ Redis!Rest(c)
      PROVE  RedInv' /\ Simulates
  BY <1>4, RedSaveStarts, RedSaveExec, RedInvalidate, RedReplace, RedRest
<1>5. QED BY <1>1, <1>2, <1>3, <1>4 DEF Redis!Next

(***************************************************************************)
(* The DB in memory.                                                       *)
(***************************************************************************)
(* A handler at work holds an element of its own, and the map entry of a   *)
(* session points to a copy that nobody else holds.                        *)
Owns(c) ==
    /\ memClient[c].exp <= MaxNow + Keep
    /\ IF memClient[c].op \in Busy
          THEN held[c] = c /\ heap[c] \in Memory!Elem /\ memClient[c].id \in Id
          ELSE held[c] = None
Entry(i) == idToElem[i] = None \/ (idToElem[i] = i /\ heap[i] \in Memory!Elem)

Owners ==
    /\ held \in [Client -> Memory!Ptr \cup {None}]
    /\ memClient \in [Client -> Memory!ClientState]
    /\ \A c \in Client : Owns(c)
Entries ==
    /\ idToElem \in [Id -> Memory!Ptr \cup {None}]
    /\ idToExp \in [Id -> Nat]
    /\ \A i \in Id : Entry(i)
Cells == heap \in [Memory!Ptr -> Memory!Elem \cup {None}]
Counters == unused \in SUBSET Id /\ now \in Nat /\ stamp \in Nat /\ now <= MaxNow

MemInv == Owners /\ Entries /\ Cells /\ Counters

(* An operation of one handler leaves the others what they hold.           *)
LEMMA OthersKeep ==
    ASSUME Owners, NEW c \in Client, Owns(c)',
           held' \in [Client -> Memory!Ptr \cup {None}],
           memClient' \in [Client -> Memory!ClientState],
           \A d \in Client \ {c} :
               held'[d] = held[d] /\ memClient'[d] = memClient[d] /\ heap'[d] = heap[d]
    PROVE  Owners' /\ Memory!elems' = [Memory!elems EXCEPT ![c] = Memory!elems'[c]]
<1>1. \A d \in Client : d # c => Owns(d)' /\ Memory!elems'[d] = Memory!elems[d]
  BY NoneAssumption DEF Owners, Owns, Memory!elems
<1>2. Owners'
  BY <1>1 DEF Owners
<1>3. Memory!elems = [d \in Client |-> Memory!elems[d]]
      /\ Memory!elems' = [d \in Client |-> Memory!elems'[d]]
  BY DEF Memory!elems
<1>4. QED BY <1>1, <1>2, <1>3

(* An operation on one session leaves the others as they are.              *)
LEMMA OthersStay ==
    ASSUME Entries, NEW i \in Id, Entry(i)',
           idToElem' \in [Id -> Memory!Ptr \cup {None}],
           idToExp' \in [Id -> Nat],
           \A j \in Id \ {i} :
               idToElem'[j] = idToElem[j] /\ idToExp'[j] = idToExp[j] /\ heap'[j] = heap[j]
    PROVE  Entries' /\ Memory!stored' = [Memory!stored EXCEPT ![i] = Memory!stored'[i]]
<1>1. \A j \in Id : j # i => Entry(j)' /\ Memory!stored'[j] = Memory!stored[j]
  BY NoneAssumption DEF Entries, Entry, Memory!stored
<1>2. Entries'
  BY <1>1 DEF Entries
<1>3. Memory!stored = [j \in Id |-> Memory!stored[j]]
      /\ Memory!stored' = [j \in Id |-> Memory!stored'[j]]
  BY DEF Memory!stored
<1>4. QED BY <1>1, <1>2, <1>3

(* An operation of a handler on no session leaves all of them.             *)
LEMMA AllStay ==
    ASSUME Entries, UNCHANGED <<idToElem, idToExp>>, \A i \in Id : heap'[i] = heap[i]
    PROVE  Entries' /\ Memory!stored' = Memory!stored
BY DEF Entries, Entry, Memory!stored

(* A handler that ends holds nothing.                                      *)
LEMMA MemEnds ==
    ASSUME Owners, NEW c \in Client, NEW op \in {"idle", "ok", "lost", "missing"},
           Memory!Ends(c, op), \A d \in Client : heap'[d] = heap[d]
    PROVE  /\ Owners'
           /\ Memory!elems' = [Memory!elems EXCEPT ![c] =
                 [op |-> op, id |-> None, elem |-> None, read |-> 0, exp |-> 0]]
<1> DEFINE t == [op |-> op, id |-> None, read |-> 0, exp |-> 0]
<1>1. memClient' = [memClient EXCEPT ![c] = t] /\ held' = [held EXCEPT ![c] = None]
  <2>1. [Memory!Idle EXCEPT !.op = op] = t
    BY DEF Memory!Idle
  <2>2. QED BY <2>1 DEF Memory!Ends
<1>2. t \in Memory!ClientState /\ t.op \notin Busy /\ t.exp <= MaxNow + Keep
  BY StoreAssumption DEF Memory!ClientState, Busy
<1> HIDE DEF t
<1>3. held' \in [Client -> Memory!Ptr \cup {None}] /\ memClient' \in [Client -> Memory!ClientState]
  BY <1>1, <1>2 DEF Owners
<1>4. Owns(c)'
  BY <1>1, <1>2 DEF Owns, Owners
<1>5. Owners' /\ Memory!elems' = [Memory!elems EXCEPT ![c] = Memory!elems'[c]]
  BY <1>1, <1>3, <1>4, OthersKeep DEF Owners
<1>6. Memory!elems'[c] = [op |-> op, id |-> None, elem |-> None, read |-> 0, exp |-> 0]
  BY <1>1 DEF Memory!elems, Owners, t
<1>7. QED BY <1>5, <1>6

(* In memory a handler ends as it does by the promise.                     *)
LEMMA MemEndsPromise ==
    ASSUME type = "memory", UNCHANGED type, NEW c \in Client, NEW op,
           Memory!elems' = [Memory!elems EXCEPT ![c] =
               [op |-> op, id |-> None, elem |-> None, read |-> 0, exp |-> 0]]
    PROVE  Promise!Ends(c, op)
BY DEF Promise!Ends, Promise!Idle

(* The map starts empty.                                                   *)
LEMMA MemInit == Memory!Init => MemInv
<1> SUFFICES ASSUME Memory!Init PROVE MemInv
  OBVIOUS
<1> USE DEF Memory!Init, Memory!Idle
<1>1. Owners
  BY StoreAssumption DEF Owners, Owns, Busy, Memory!ClientState
<1>2. Entries /\ Cells /\ Counters
  BY StoreAssumption DEF Entries, Entry, Cells, Counters
<1>3. QED BY <1>1, <1>2 DEF MemInv

(* Time passes: to its users what has expired in the map is gone.         *)
LEMMA MemTick ==
    ASSUME MemInv, type = "memory", UNCHANGED type, Memory!Tick
    PROVE  MemInv' /\ Simulates
<1> USE DEF MemInv, Memory!Tick
<1>1. Owners' /\ Memory!elems' = Memory!elems
  BY DEF Owners, Owns, Memory!elems
<1>2. Entries' /\ Memory!stored' = Memory!stored
  BY AllStay
<1>3. Cells' /\ Counters'
  BY StoreAssumption DEF Cells, Counters
<1>4. Memory!stored' = [i \in Id |-> IF i \in {} THEN None ELSE Memory!stored[i]]
  BY <1>2 DEF Memory!stored
<1>5. Promise!Tick
  <2> DEFINE store == IF type = "memory" THEN Memory!stored ELSE Redis!stored
             over == {i \in Id : store[i] # None /\ store[i].exp <= now'}
  <2>1. {} \in SUBSET over /\ store' = [i \in Id |-> IF i \in {} THEN None ELSE store[i]]
    BY <1>4
  <2>2. \E gone \in SUBSET over : store' = [i \in Id |-> IF i \in gone THEN None ELSE store[i]]
    BY <2>1
  <2>3. QED BY <1>1, <2>2 DEF Promise!Tick
<1>6. QED BY <1>1, <1>2, <1>3, <1>5 DEF Simulates, Promise!Next

(* A handler done with its element lets go of it.                          *)
LEMMA MemRest ==
    ASSUME MemInv, type = "memory", UNCHANGED type, NEW c \in Client, Memory!Rest(c)
    PROVE  MemInv' /\ Simulates
<1> USE DEF MemInv, Memory!Rest
<1>1. /\ Owners'
      /\ Memory!elems' = [Memory!elems EXCEPT ![c] =
            [op |-> "idle", id |-> None, elem |-> None, read |-> 0, exp |-> 0]]
  BY MemEnds
<1>2. Entries' /\ Memory!stored' = Memory!stored
  BY AllStay
<1>3. Cells' /\ Counters'
  BY DEF Cells, Counters
<1>4. Promise!Ends(c, "idle")
  BY <1>1, MemEndsPromise
<1>5. Memory!elems[c].op \in {"ok", "lost", "missing", "error"}
  BY DEF Memory!elems
<1>6. Promise!Rest(c)
  BY <1>2, <1>4, <1>5 DEF Promise!Rest
<1>7. QED BY <1>1, <1>2, <1>3, <1>6 DEF Simulates, Promise!Next

(* A new element in the hands of a handler of the memory kind.             *)
LEMMA MemNew ==
    ASSUME MemInv, type = "memory", UNCHANGED type,
           NEW c \in Client, NEW i \in Id, NEW p \in Idp \cup {None}, Memory!New(c, i, p)
    PROVE  MemInv' /\ Simulates
<1> DEFINE e == [inv |-> FALSE, date |-> stamp, idp |-> p]
           t == [op |-> "new", id |-> i, read |-> 0, exp |-> now + Keep]
<1>1. /\ memClient[c].op = "idle" /\ i \in unused /\ stamp < MaxStamp
      /\ unused' = unused \ {i} /\ stamp' = stamp + 1
      /\ heap' = [heap EXCEPT ![c] = e] /\ held' = [held EXCEPT ![c] = c]
      /\ memClient' = [memClient EXCEPT ![c] = t]
      /\ UNCHANGED <<idToElem, idToExp, now>>
  BY DEF Memory!New
<1>2. e \in Memory!Elem /\ now + Keep \in Nat /\ now + Keep <= MaxNow + Keep
  BY StoreAssumption DEF MemInv, Counters, Memory!Elem
<1>3. t \in Memory!ClientState
  BY <1>2 DEF Memory!ClientState
<1>4. c \in Memory!Ptr /\ c # None /\ c \notin Id
  BY StoreAssumption, NoneAssumption DEF Memory!Ptr
<1> HIDE DEF e
<1>5. /\ held' \in [Client -> Memory!Ptr \cup {None}]
      /\ memClient' \in [Client -> Memory!ClientState]
      /\ heap'[c] = e /\ held'[c] = c /\ memClient'[c] = t
      /\ Cells' /\ Counters'
  BY <1>1, <1>2, <1>3, <1>4 DEF MemInv, Owners, Cells, Counters
<1>6. Owns(c)'
  BY <1>2, <1>5 DEF Owns, Busy
<1>7. \A d \in Client \ {c} :
          held'[d] = held[d] /\ memClient'[d] = memClient[d] /\ heap'[d] = heap[d]
  BY <1>1 DEF MemInv, Owners, Cells, Memory!Ptr
<1>8. Owners' /\ Memory!elems' = [Memory!elems EXCEPT ![c] = Memory!elems'[c]]
  BY <1>5, <1>6, <1>7, OthersKeep DEF MemInv
<1>9. Memory!elems'[c] = [op |-> "new", id |-> i, elem |-> e, read |-> 0, exp |-> now + Keep]
  BY <1>4, <1>5 DEF Memory!elems
<1>10. Entries' /\ Memory!stored' = Memory!stored
  BY <1>1, <1>4, AllStay DEF MemInv, Cells, Memory!Ptr
<1>11. Memory!elems[c].op = "idle"
  BY <1>1 DEF Memory!elems
<1>12. Promise!New(c, i, p)
  BY <1>1, <1>8, <1>9, <1>10, <1>11 DEF Promise!New, e
<1>13. QED BY <1>5, <1>8, <1>10, <1>12 DEF MemInv, Simulates, Promise!Next

(* A handler invalidates its own copy, never the one in the map.           *)
LEMMA MemInvalidate ==
    ASSUME MemInv, type = "memory", UNCHANGED type, NEW c \in Client, Memory!Invalidate(c)
    PROVE  MemInv' /\ Simulates
<1> DEFINE e == [heap[c] EXCEPT !.inv = TRUE, !.date = stamp]
           t == [memClient[c] EXCEPT !.op = "stamped"]
<1>1. /\ memClient[c].op = "got" /\ stamp < MaxStamp /\ stamp' = stamp + 1
      /\ held[c] = c /\ heap[c] \in Memory!Elem /\ memClient[c] \in Memory!ClientState
      /\ memClient[c].id \in Id /\ memClient[c].exp <= MaxNow + Keep
      /\ UNCHANGED <<idToElem, idToExp, held, unused, now>>
  BY DEF Memory!Invalidate, MemInv, Owners, Owns, Busy
<1>2. memClient' = [memClient EXCEPT ![c] = t]
  BY DEF Memory!Invalidate
<1>3. heap' = [heap EXCEPT ![c] = e]
  BY <1>1 DEF Memory!Invalidate
<1>4. c \in Memory!Ptr /\ c # None /\ c \notin Id
  BY StoreAssumption, NoneAssumption DEF Memory!Ptr
<1>5. e \in Memory!Elem
  BY <1>1 DEF Memory!Elem, MemInv, Counters
<1>6. /\ t \in Memory!ClientState /\ t.op = "stamped" /\ t.id = memClient[c].id
      /\ t.exp = memClient[c].exp /\ t.read = memClient[c].read
  BY <1>1 DEF Memory!ClientState
<1>7. /\ held' \in [Client -> Memory!Ptr \cup {None}]
      /\ memClient' \in [Client -> Memory!ClientState]
      /\ heap'[c] = e /\ held'[c] = c /\ memClient'[c] = t
      /\ Cells' /\ Counters'
  BY <1>1, <1>2, <1>3, <1>4, <1>5, <1>6 DEF MemInv, Owners, Cells, Counters
<1>8. Owns(c)'
  BY <1>1, <1>5, <1>6, <1>7 DEF Owns, Busy
<1>9. \A d \in Client \ {c} :
          held'[d] = held[d] /\ memClient'[d] = memClient[d] /\ heap'[d] = heap[d]
  BY <1>1, <1>2, <1>3 DEF MemInv, Owners, Cells, Memory!Ptr
<1>10. Owners' /\ Memory!elems' = [Memory!elems EXCEPT ![c] = Memory!elems'[c]]
  BY <1>7, <1>8, <1>9, OthersKeep DEF MemInv
<1> DEFINE r == [op |-> memClient[c].op, id |-> memClient[c].id, read |-> memClient[c].read,
                 exp |-> memClient[c].exp, elem |-> heap[c]]
<1>11. Memory!elems[c] = r /\ r.op = "got" /\ r.elem = heap[c]
  BY <1>1, <1>4 DEF Memory!elems
<1>12. Memory!elems'[c] = [op |-> "stamped", id |-> memClient[c].id, read |-> memClient[c].read,
                           exp |-> memClient[c].exp, elem |-> e]
  BY <1>4, <1>6, <1>7 DEF Memory!elems
<1>13. Entries' /\ Memory!stored' = Memory!stored
  BY <1>1, <1>3, <1>4, AllStay DEF MemInv, Cells, Memory!Ptr
<1>14. Memory!elems' = [Memory!elems EXCEPT ![c].op = "stamped",
                                            ![c].elem.inv = TRUE, ![c].elem.date = stamp]
  <2> DEFINE u == [r EXCEPT !.op = "stamped", !.elem = e]
             State == [op : {"got", "stamped"}, id : Id, read : Nat, exp : Nat,
                       elem : Memory!Elem]
  <2>1. r \in State
    BY <1>1 DEF Memory!ClientState
  <2>2. /\ u \in State /\ u.op = "stamped" /\ u.elem = e
        /\ u.id = r.id /\ u.read = r.read /\ u.exp = r.exp
    <3> HIDE DEF r, e
    <3>1. QED BY <1>5, <2>1
  <2>3. u = [r EXCEPT !.op = "stamped", !.elem.inv = TRUE, !.elem.date = stamp]
    <3>1. r.elem = heap[c]
      BY <1>11
    <3> HIDE DEF r
    <3>2. QED BY <2>1, <3>1
  <2> HIDE DEF u, e
  <2>4. u = [op |-> "stamped", id |-> r.id, read |-> r.read, exp |-> r.exp, elem |-> e]
    <3> HIDE DEF r
    <3>1. QED BY <2>2
  <2>5. Memory!elems'[c] = u
    BY <1>12, <2>4
  <2> HIDE DEF r
  <2>6. Memory!elems = [d \in Client |-> Memory!elems[d]]
    BY DEF Memory!elems
  <2>7. [Memory!elems EXCEPT ![c] = u]
            = [Memory!elems EXCEPT ![c].op = "stamped",
                                   ![c].elem.inv = TRUE, ![c].elem.date = stamp]
    BY <1>11, <2>3, <2>6
  <2>8. QED BY <1>10, <2>5, <2>7
<1>15. Promise!Invalidate(c)
  BY <1>1, <1>11, <1>13, <1>14 DEF Promise!Invalidate
<1>16. QED BY <1>7, <1>10, <1>13, <1>15 DEF MemInv, Simulates, Promise!Next

(* What a copy of the handler's element in the map leaves behind.          *)
LEMMA CopyStored ==
    ASSUME MemInv, NEW c \in Client, NEW i \in Id, NEW x \in Nat,
           held[c] = c, heap[c] \in Memory!Elem,
           heap' = Memory!CopyTo(held[c], i),
           idToElem' = [idToElem EXCEPT ![i] = Memory!Passed(held[c], i)],
           idToExp' = [idToExp EXCEPT ![i] = x]
    PROVE  /\ Entries' /\ Cells'
           /\ Memory!stored' = [Memory!stored EXCEPT ![i] = [elem |-> heap[c], exp |-> x]]
           /\ \A d \in Client : heap'[d] = heap[d]
<1>1. heap' = [heap EXCEPT ![i] = heap[c]] /\ idToElem' = [idToElem EXCEPT ![i] = i]
  BY DEF Memory!CopyTo, Memory!Passed
<1>2. i \in Memory!Ptr /\ i # None /\ i \notin Client
  BY StoreAssumption, NoneAssumption DEF Memory!Ptr
<1>3. /\ Cells' /\ heap'[i] = heap[c] /\ idToElem'[i] = i /\ idToExp'[i] = x
      /\ idToElem' \in [Id -> Memory!Ptr \cup {None}] /\ idToExp' \in [Id -> Nat]
  BY <1>1, <1>2 DEF MemInv, Entries, Cells
<1>4. /\ \A d \in Client : heap'[d] = heap[d]
      /\ \A j \in Id \ {i} :
            idToElem'[j] = idToElem[j] /\ idToExp'[j] = idToExp[j] /\ heap'[j] = heap[j]
  BY <1>1, <1>2 DEF MemInv, Entries, Cells, Memory!Ptr
<1>5. Entries' /\ Memory!stored' = [Memory!stored EXCEPT ![i] = Memory!stored'[i]]
  BY <1>3, <1>4, OthersStay DEF MemInv, Entry
<1>6. Memory!stored'[i] = [elem |-> heap[c], exp |-> x]
  BY <1>2, <1>3 DEF Memory!stored
<1>7. QED BY <1>3, <1>4, <1>5, <1>6

(* memoryDb.Save.                                                          *)
LEMMA MemSave ==
    ASSUME MemInv, type = "memory", UNCHANGED type, NEW c \in Client, Memory!Save(c)
    PROVE  MemInv' /\ Simulates
<1> DEFINE i == memClient[c].id
           x == memClient[c].exp
<1>1. /\ memClient[c].op = "new" /\ held[c] = c /\ heap[c] \in Memory!Elem
      /\ i \in Id /\ x \in Nat /\ x <= MaxNow + Keep
      /\ Memory!Ends(c, "ok") /\ UNCHANGED <<unused, now, stamp>>
  BY DEF Memory!Save, MemInv, Owners, Owns, Busy, Memory!ClientState
<1>2. /\ Entries' /\ Cells' /\ \A d \in Client : heap'[d] = heap[d]
      /\ Memory!stored' = [Memory!stored EXCEPT ![i] = [elem |-> heap[c], exp |-> x]]
  <2>1. /\ heap' = Memory!CopyTo(held[c], i)
        /\ idToElem' = [idToElem EXCEPT ![i] = Memory!Passed(held[c], i)]
        /\ idToExp' = [idToExp EXCEPT ![i] = x]
    BY DEF Memory!Save
  <2> HIDE DEF i, x
  <2>2. QED BY <1>1, <2>1, CopyStored
<1>3. /\ Owners'
      /\ Memory!elems' = [Memory!elems EXCEPT ![c] =
            [op |-> "ok", id |-> None, elem |-> None, read |-> 0, exp |-> 0]]
  BY <1>1, <1>2, MemEnds DEF MemInv
<1>4. /\ Memory!elems[c].op = "new" /\ Memory!elems[c].elem = heap[c]
      /\ Memory!elems[c].id = i /\ Memory!elems[c].exp = x
  BY <1>1, NoneAssumption DEF Memory!elems
<1>5. Promise!Ends(c, "ok")
  BY <1>3, MemEndsPromise
<1>6. x \in x .. MaxNow + Keep + 1
  BY <1>1, StoreAssumption
<1>7. Promise!Save(c)
  <2> DEFINE store == IF type = "memory" THEN Memory!stored ELSE Redis!stored
  <2>1. store' = Promise!Saved(c, x)
    BY <1>2, <1>4 DEF Promise!Saved
  <2>2. QED BY <1>1, <1>4, <1>5, <1>6, <2>1 DEF Promise!Save
<1>8. QED BY <1>1, <1>2, <1>3, <1>7 DEF MemInv, Counters, Simulates, Promise!Next

(* memoryDb.Replace.                                                       *)
LEMMA MemReplace ==
    ASSUME MemInv, type = "memory", UNCHANGED type, NEW c \in Client, Memory!Replace(c)
    PROVE  MemInv' /\ Simulates
<1> DEFINE i == memClient[c].id
           ok == Memory!DateEquals(i, memClient[c].read)
           store == IF type = "memory" THEN Memory!stored ELSE Redis!stored
<1>1. /\ memClient[c].op = "stamped" /\ held[c] = c /\ heap[c] \in Memory!Elem /\ i \in Id
      /\ UNCHANGED <<idToExp, unused, now, stamp>> /\ idToExp[i] \in Nat
  BY DEF Memory!Replace, MemInv, Owners, Owns, Busy, Entries
<1>2. /\ Memory!elems[c].op = "stamped" /\ Memory!elems[c].elem = heap[c]
      /\ Memory!elems[c].id = i /\ Memory!elems[c].read = memClient[c].read
  BY <1>1, NoneAssumption DEF Memory!elems
<1>3. idToElem[i] # None =>
          /\ Memory!stored[i] = [elem |-> heap[idToElem[i]], exp |-> idToExp[i]]
          /\ Memory!stored[i] # None
  BY <1>1, NoneAssumption DEF MemInv, Entries, Entry, Memory!stored, Memory!Elem, Redis!Elem
<1>4. idToElem[i] = None => Memory!stored[i] = None
  BY <1>1 DEF Memory!stored
<1>5. Promise!Current(c) <=> ok
  BY <1>2, <1>3, <1>4 DEF Promise!Current, Memory!DateEquals
<1>6. CASE /\ ok /\ heap' = Memory!CopyTo(held[c], i) /\ Memory!Ends(c, "ok")
           /\ idToElem' = [idToElem EXCEPT ![i] = Memory!Passed(held[c], i)]
  <2>1. idToExp' = [idToExp EXCEPT ![i] = idToExp[i]]
    BY <1>1 DEF MemInv, Entries
  <2>2. /\ Entries' /\ Cells' /\ \A d \in Client : heap'[d] = heap[d]
        /\ Memory!stored' =
              [Memory!stored EXCEPT ![i] = [elem |-> heap[c], exp |-> idToExp[i]]]
    <3> DEFINE x == idToExp[i]
    <3>1. /\ i \in Id /\ x \in Nat /\ held[c] = c /\ heap[c] \in Memory!Elem
          /\ heap' = Memory!CopyTo(held[c], i)
          /\ idToElem' = [idToElem EXCEPT ![i] = Memory!Passed(held[c], i)]
          /\ idToExp' = [idToExp EXCEPT ![i] = x]
      BY <1>1, <1>6, <2>1
    <3> HIDE DEF i, ok, x, store
    <3>2. /\ Entries' /\ Cells' /\ \A d \in Client : heap'[d] = heap[d]
          /\ Memory!stored' = [Memory!stored EXCEPT ![i] = [elem |-> heap[c], exp |-> x]]
      BY <3>1, CopyStored
    <3>3. QED BY <3>2 DEF x
  <2>3. /\ Owners'
        /\ Memory!elems' = [Memory!elems EXCEPT ![c] =
              [op |-> "ok", id |-> None, elem |-> None, read |-> 0, exp |-> 0]]
    BY <1>6, <2>2, MemEnds DEF MemInv
  <2>4. Promise!Ends(c, "ok")
    BY <2>3, MemEndsPromise
  <2>5. store' = Promise!Replaced(c, 0)
    <3>1. store[i].exp + 0 = idToExp[i]
      BY <1>1, <1>3, <1>6 DEF Memory!DateEquals
    <3> QED BY <1>2, <2>2, <3>1 DEF Promise!Replaced, Promise!Saved
  <2>6. Promise!Replace(c)
    BY <1>1, <1>2, <1>5, <1>6, <2>4, <2>5 DEF Promise!Replace
  <2>7. QED BY <1>1, <2>2, <2>3, <2>6 DEF MemInv, Counters, Simulates, Promise!Next
<1>7. CASE ~ok /\ Memory!Ends(c, "lost") /\ UNCHANGED <<heap, idToElem>>
  <2>1. Entries' /\ Memory!stored' = Memory!stored
    BY <1>1, <1>7, AllStay DEF MemInv
  <2>2. /\ Owners'
        /\ Memory!elems' = [Memory!elems EXCEPT ![c] =
              [op |-> "lost", id |-> None, elem |-> None, read |-> 0, exp |-> 0]]
    BY <1>7, MemEnds DEF MemInv
  <2>3. Promise!Ends(c, "lost")
    BY <2>2, MemEndsPromise
  <2>4. Promise!Replace(c)
    BY <1>1, <1>2, <1>5, <1>7, <2>1, <2>3 DEF Promise!Replace
  <2>5. QED BY <1>1, <1>7, <2>1, <2>2, <2>4 DEF MemInv, Cells, Counters, Simulates, Promise!Next
<1>8. QED BY <1>6, <1>7 DEF Memory!Replace

(* memoryDb.Get.                                                           *)
LEMMA MemGet ==
    ASSUME MemInv, type = "memory", UNCHANGED type, NEW c \in Client, NEW i \in Id,
           Memory!Get(c, i)
    PROVE  MemInv' /\ Simulates
<1> DEFINE store == IF type = "memory" THEN Memory!stored ELSE Redis!stored
           client == IF type = "memory" THEN Memory!elems ELSE redClient
           t == [op |-> "got", id |-> i, read |-> heap[i].date, exp |-> 0]
<1>1. memClient[c].op = "idle" /\ UNCHANGED <<unused, now, stamp>> /\ Counters'
  BY DEF Memory!Get, MemInv, Counters
<1>2. client[c].op = "idle"
  BY <1>1 DEF Memory!elems
<1>3. CASE idToElem[i] = None /\ Memory!Ends(c, "missing") /\ UNCHANGED <<heap, idToElem, idToExp>>
  <2>1. Entries' /\ Memory!stored' = Memory!stored /\ Cells'
    BY <1>3, AllStay DEF MemInv, Cells
  <2>2. /\ Owners'
        /\ Memory!elems' = [Memory!elems EXCEPT ![c] =
              [op |-> "missing", id |-> None, elem |-> None, read |-> 0, exp |-> 0]]
    BY <1>3, MemEnds DEF MemInv
  <2>3. Promise!Ends(c, "missing") /\ store[i] = None /\ UNCHANGED store
    BY <1>3, <2>1, <2>2, MemEndsPromise DEF Memory!stored
  <2>4. Promise!Get(c, i)
    BY <1>1, <1>2, <2>3 DEF Promise!Get
  <2>5. QED BY <1>1, <2>1, <2>2, <2>4 DEF MemInv, Simulates, Promise!Next
<1>4. CASE /\ idToElem[i] # None /\ Memory!Expired(i) /\ Memory!Ends(c, "missing")
           /\ idToElem' = [idToElem EXCEPT ![i] = None]
           /\ idToExp' = [idToExp EXCEPT ![i] = 0] /\ UNCHANGED heap
  <2>1. /\ idToElem' \in [Id -> Memory!Ptr \cup {None}] /\ idToExp' \in [Id -> Nat]
        /\ Entry(i)' /\ Cells'
        /\ \A j \in Id \ {i} : idToElem'[j] = idToElem[j] /\ idToExp'[j] = idToExp[j]
    BY <1>4 DEF MemInv, Entries, Entry, Cells
  <2>2. Entries' /\ Memory!stored' = [Memory!stored EXCEPT ![i] = Memory!stored'[i]]
    BY <1>4, <2>1, OthersStay DEF MemInv
  <2>3. Memory!stored'[i] = None
    BY <1>4 DEF Memory!stored, MemInv, Entries
  <2>4. /\ Owners'
        /\ Memory!elems' = [Memory!elems EXCEPT ![c] =
              [op |-> "missing", id |-> None, elem |-> None, read |-> 0, exp |-> 0]]
    BY <1>4, MemEnds DEF MemInv
  <2>5. Promise!Ends(c, "missing") /\ store' = [store EXCEPT ![i] = None]
    BY <2>2, <2>3, <2>4, MemEndsPromise
  <2>6. Memory!stored[i] = [elem |-> heap[i], exp |-> idToExp[i]] /\ heap[i] \in Memory!Elem
    BY <1>4 DEF Memory!stored, MemInv, Entries, Entry
  <2>7. Memory!stored[i] # None /\ now >= Memory!stored[i].exp
    BY <1>4, <2>6, NoneAssumption
       DEF Memory!Expired, MemInv, Entries, Counters, Memory!Elem, Redis!Elem
  <2>8. store[i] # None /\ now >= store[i].exp
    BY <2>7
  <2>9. Promise!Get(c, i)
    BY <1>1, <1>2, <2>5, <2>8 DEF Promise!Get
  <2>10. QED BY <1>1, <2>1, <2>2, <2>4, <2>9 DEF MemInv, Simulates, Promise!Next
<1>5. CASE /\ idToElem[i] # None /\ heap' = Memory!CopyTo(idToElem[i], c)
           /\ held' = [held EXCEPT ![c] = Memory!Passed(idToElem[i], c)]
           /\ memClient' = [memClient EXCEPT ![c] =
                 [op |-> "got", id |-> i, read |-> heap[idToElem[i]].date, exp |-> 0]]
           /\ UNCHANGED <<idToElem, idToExp>>
  <2>1. idToElem[i] = i /\ heap[i] \in Memory!Elem /\ heap[i].date \in Nat
    BY <1>5 DEF MemInv, Entries, Entry, Memory!Elem
  <2>2. /\ heap' = [heap EXCEPT ![c] = heap[i]] /\ held' = [held EXCEPT ![c] = c]
        /\ memClient' = [memClient EXCEPT ![c] = t]
    BY <1>5, <2>1 DEF Memory!CopyTo, Memory!Passed
  <2>3. c \in Memory!Ptr /\ c # None /\ c \notin Id
    BY StoreAssumption, NoneAssumption DEF Memory!Ptr
  <2>4. t \in Memory!ClientState /\ t.exp <= MaxNow + Keep
    BY <2>1, StoreAssumption DEF Memory!ClientState
  <2>5. /\ held' \in [Client -> Memory!Ptr \cup {None}]
        /\ memClient' \in [Client -> Memory!ClientState]
        /\ heap'[c] = heap[i] /\ held'[c] = c /\ memClient'[c] = t /\ Cells'
    BY <2>1, <2>2, <2>3, <2>4 DEF MemInv, Owners, Cells
  <2>6. Owns(c)'
    BY <2>1, <2>4, <2>5 DEF Owns, Busy
  <2>7. \A d \in Client \ {c} :
            held'[d] = held[d] /\ memClient'[d] = memClient[d] /\ heap'[d] = heap[d]
    BY <2>2 DEF MemInv, Owners, Cells, Memory!Ptr
  <2>8. Owners' /\ Memory!elems' = [Memory!elems EXCEPT ![c] = Memory!elems'[c]]
    BY <2>5, <2>6, <2>7, OthersKeep DEF MemInv
  <2>9. Memory!elems'[c] =
            [op |-> "got", id |-> i, elem |-> heap[i], read |-> heap[i].date, exp |-> 0]
    BY <2>3, <2>5 DEF Memory!elems
  <2>10. Entries' /\ Memory!stored' = Memory!stored
    BY <1>5, <2>2, <2>3, AllStay DEF MemInv, Cells, Memory!Ptr
  <2>11. Memory!stored[i] = [elem |-> heap[i], exp |-> idToExp[i]]
    BY <1>5, <2>1 DEF Memory!stored
  <2>12. Memory!stored[i] # None /\ Memory!stored[i].elem = heap[i]
    BY <2>1, <2>11, NoneAssumption DEF MemInv, Entries, Memory!Elem, Redis!Elem
  <2>13. store[i] # None /\ store[i].elem = heap[i] /\ UNCHANGED store
    BY <2>10, <2>12
  <2>14. client' = [client EXCEPT ![c] =
             [op |-> "got", id |-> i, elem |-> store[i].elem,
              read |-> store[i].elem.date, exp |-> 0]]
    BY <2>8, <2>9, <2>13
  <2>15. Promise!Get(c, i)
    BY <1>1, <1>2, <2>13, <2>14 DEF Promise!Get
  <2>16. QED BY <1>1, <2>5, <2>8, <2>10, <2>15 DEF MemInv, Simulates, Promise!Next
<1>6. QED BY <1>3, <1>4, <1>5 DEF Memory!Get

(* Every step of the memory kind keeps its invariant and the promise.      *)
LEMMA MemStep ==
    ASSUME MemInv, type = "memory", UNCHANGED type, Memory!Next
    PROVE  MemInv' /\ Simulates
<1>1. CASE Memory!Tick
  BY <1>1, MemTick
<1>2. CASE \E c \in Client, i \in Id, p \in Idp \cup {None} : Memory!New(c, i, p)
  BY <1>2, MemNew
<1>3. CASE \E c \in Client, i \in Id : Memory!Get(c, i)
  BY <1>3, MemGet
<1>4. ASSUME NEW c \in Client,
             \/ Memory!Save(c) \/ Memory!Invalidate(c) \/ Memory!Replace(c) \/ Memory!Rest(c)
      PROVE  MemInv' /\ Simulates
  BY <1>4, MemSave, MemInvalidate, MemReplace, MemRest
<1>5. QED BY <1>1, <1>2, <1>3, <1>4 DEF Memory!Next

(***************************************************************************)
(* Either DB: the one that is not in use stays as it was.                  *)
(***************************************************************************)
Inv ==
    /\ TypeOK
    /\ Redis!KeysAgree
    /\ type = "memory" => MemInv
    /\ type = "redis" => RedInv

(* The invariant of the memory kind says what its state is made of.        *)
LEMMA MemTyped == MemInv => Memory!TypeOK
BY DEF MemInv, Owners, Entries, Cells, Counters, Memory!TypeOK

(* Either kind starts as the promise does.                                 *)
LEMMA InvInit == Init => Inv /\ Promise!Init
<1> SUFFICES ASSUME Init PROVE Inv /\ Promise!Init
  OBVIOUS
<1>1. RedInv /\ MemInv
  BY RedInit, MemInit DEF Init
<1>2. Inv
  BY <1>1, MemTyped DEF Inv, RedInv, TypeOK, Init
<1> DEFINE store == IF type = "memory" THEN Memory!stored ELSE Redis!stored
           client == IF type = "memory" THEN Memory!elems ELSE redClient
           idle == [op |-> "idle", id |-> None, elem |-> None, read |-> 0, exp |-> 0]
<1>3. Memory!stored = [i \in Id |-> None] /\ Redis!stored = [i \in Id |-> None]
  BY DEF Init, Memory!Init, Redis!Init, Memory!stored, Redis!stored
<1>4. Memory!elems = [c \in Client |-> idle] /\ redClient = [c \in Client |-> idle]
  BY DEF Init, Memory!Init, Redis!Init, Memory!Idle, Redis!Idle, Memory!elems
<1>5. store = [i \in Id |-> None]
  BY <1>3
<1>6. client = [c \in Client |-> idle]
  BY <1>4
<1>7. unused = Id /\ now = 0 /\ stamp = 0
  BY DEF Init, Redis!Init
<1>8. QED BY <1>2, <1>5, <1>6, <1>7 DEF Promise!Init, Promise!Idle

(* A step of either kind is one of the promise or changes nothing of it.   *)
LEMMA InvStep == Inv /\ [Next]_vars => Inv' /\ [Promise!Next]_(Promise!vars)
<1> SUFFICES ASSUME Inv, [Next]_vars PROVE Inv' /\ [Promise!Next]_(Promise!vars)
  OBVIOUS
<1>1. CASE type = "redis" /\ Redis!Next /\ UNCHANGED <<type, memVars>>
  <2>1. RedInv' /\ Simulates
    BY <1>1, RedStep DEF Inv
  <2>2. Memory!TypeOK'
    BY <1>1, <2>1 DEF Inv, TypeOK, memVars, RedInv, Redis!TypeOK, Memory!TypeOK
  <2>3. Inv'
    BY <1>1, <2>1, <2>2 DEF Inv, TypeOK, RedInv
  <2>4. QED BY <2>1, <2>3 DEF Simulates
<1>2. CASE type = "memory" /\ Memory!Next /\ UNCHANGED <<type, redVars>>
  <2>1. MemInv' /\ Simulates
    BY <1>2, MemStep DEF Inv
  <2>2. Memory!TypeOK'
    BY <2>1, MemTyped DEF MemInv, Owners, Entries, Cells, Counters, Memory!TypeOK
  <2>3. Redis!TypeOK' /\ Redis!KeysAgree'
    BY <1>2, <2>2 DEF Inv, TypeOK, redVars, Memory!TypeOK, Redis!TypeOK, Redis!KeysAgree
  <2>4. Inv'
    BY <1>2, <2>1, <2>2, <2>3 DEF Inv, TypeOK
  <2>5. QED BY <2>1, <2>4 DEF Simulates
<1>3. CASE UNCHANGED vars
  <2> USE <1>3 DEF vars, memVars, redVars
  <2>1. TypeOK' /\ Redis!KeysAgree'
    BY DEF Inv, TypeOK, Memory!TypeOK, Redis!TypeOK, Redis!KeysAgree
  <2>2. type = "memory" => MemInv'
    BY DEF Inv, MemInv, Owners, Owns, Entries, Entry, Cells, Counters
  <2>3. type = "redis" => RedInv'
    BY <2>1 DEF Inv, RedInv, RedShape, TypeOK
  <2>4. UNCHANGED Promise!vars
    BY DEF Promise!vars, Memory!stored, Memory!elems, Redis!stored
  <2>5. QED BY <2>1, <2>2, <2>3, <2>4 DEF Inv
<1>4. QED BY <1>1, <1>2, <1>3 DEF Next

(* The invariants of both kinds hold throughout.                           *)
LEMMA Invariance == Spec => []Inv
<1>1. QED BY InvInit, InvStep, PTL DEF Spec

(* The variables of either kind keep their types: asessDbType is what it   *)
(* was at the start, the maps of memoryDb and the keys in redis hold       *)
(* elements, and a handler is where its calls have brought it.             *)
THEOREM TypeCorrect == Spec => []TypeOK
<1>1. Inv => TypeOK
  BY DEF Inv
<1>2. QED BY <1>1, Invariance, PTL

(* The two keys of a session in redis do not disagree: whenever the        *)
(* element is found, its date key is there, tells the same date and lives  *)
(* at least as long (redisDb.Save and the script of redisDb.Replace).      *)
THEOREM AgreeingKeys == Spec => []KeysAgree
<1>1. Inv => KeysAgree
  BY DEF Inv, KeysAgree
<1>2. QED BY <1>1, Invariance, PTL

(* Either kind implements the promise of asession.Db: every step of        *)
(* memoryDb and of redisDb, errors, lost replies and expiries included, is *)
(* one that the promise allows, or none that its users could tell.         *)
THEOREM PromiseKept == Spec => KeepsPromise
<1>1. QED BY InvInit, InvStep, PTL DEF Spec, KeepsPromise, Promise!Spec

(* The module with the proofs about the promise, mapped as the promise is. *)
Store == INSTANCE SessionStoreProofs
    WITH store <- IF type = "memory" THEN Memory!stored ELSE Redis!stored,
         client <- IF type = "memory" THEN Memory!elems ELSE redClient

(* It is the same promise.                                                 *)
LEMMA SamePromise ==
    /\ Promise!Init => Store!Init
    /\ [Promise!Next]_(Promise!vars) => [Store!Next]_(Store!vars)
<1>1. Promise!Init => Store!Init
  BY Zenon DEF Promise!Init, Store!Init, Promise!Idle, Store!Idle
<1> USE DEF Promise!Idle, Store!Idle, Promise!Ends, Store!Ends
<1>2. Promise!Tick => Store!Tick
  BY Zenon DEF Promise!Tick, Store!Tick
<1>3. ASSUME NEW c \in Client PROVE Promise!Rest(c) => Store!Rest(c)
  BY Zenon DEF Promise!Rest, Store!Rest
<1>4. ASSUME NEW c \in Client, NEW i \in Id, NEW p \in Idp \cup {None}
      PROVE  Promise!New(c, i, p) => Store!New(c, i, p)
  BY Zenon DEF Promise!New, Store!New
<1>5. ASSUME NEW c \in Client PROVE Promise!Save(c) => Store!Save(c)
  BY Zenon DEF Promise!Save, Store!Save, Promise!Saved, Store!Saved
<1>6. ASSUME NEW c \in Client, NEW i \in Id PROVE Promise!Get(c, i) => Store!Get(c, i)
  BY Zenon DEF Promise!Get, Store!Get
<1>7. ASSUME NEW c \in Client PROVE Promise!Invalidate(c) => Store!Invalidate(c)
  BY Zenon DEF Promise!Invalidate, Store!Invalidate
<1>8. ASSUME NEW c \in Client PROVE Promise!Replace(c) => Store!Replace(c)
  BY Zenon DEF Promise!Replace, Store!Replace, Promise!Current, Store!Current,
               Promise!Replaced, Store!Replaced, Promise!Saved, Store!Saved
<1>9. Promise!Next => Store!Next
  BY <1>2, <1>3, <1>4, <1>5, <1>6, <1>7, <1>8 DEF Promise!Next, Store!Next
<1>10. UNCHANGED Promise!vars => UNCHANGED Store!vars
  BY DEF Promise!vars, Store!vars
<1>11. QED BY <1>1, <1>9, <1>10

(* What follows from the promise holds of either kind, so that of those    *)
(* who read one version of a session one at most gets its copy past        *)
(* Replace.                                                                *)
THEOREM ReplacedOnce == Spec => OnlyNewer
<1>1. Store!Bounds
  BY StoreAssumption DEF Store!Bounds
<1>2. Promise!Spec => Store!Spec
  BY SamePromise, PTL DEF Promise!Spec, Store!Spec
<1>3. Store!Spec => Store!StoredGetsNewer
  BY <1>1, Store!NewerOnly
<1>4. Store!StoredGetsNewer => OnlyNewer
  BY DEF OnlyNewer, Promise!StoredGetsNewer, Store!StoredGetsNewer, Promise!vars, Store!vars
<1>5. QED BY PromiseKept, <1>2, <1>3, <1>4 DEF KeepsPromise
=============================================================================
