-------------------------- MODULE SessionStoreProofs --------------------------
(***************************************************************************)
(* Proof that whatever keeps the promise of asession.Db replaces each      *)
(* version of a session once, for any number of sessions and handlers.     *)
(***************************************************************************)
EXTENDS SessionStore, TLAPS

Bounds == Keep \in Nat /\ MaxNow \in Nat

(* A session not yet saved is in the hands of the one handler that made it.*)
NotSavedYet ==
    /\ \A i \in unused : store[i] = None
    /\ \A c \in Client : client[c].op = "new" =>
          /\ client[c].id \in Id \ unused
          /\ client[c].elem \in Elem
          /\ client[c].elem.date < stamp
          /\ store[client[c].id] = None
          /\ \A d \in Client \ {c} : client[d].op = "new" => client[d].id # client[c].id

(* What is stored, read or put on a copy was handed out by the clock, and  *)
(* an invalidated copy is newer than the version it was read from.         *)
DatedInOrder ==
    /\ \A i \in Id : store[i] # None => store[i].elem.date < stamp
    /\ \A c \in Client :
          /\ client[c].op = "got" => client[c].read < stamp
          /\ client[c].op = "stamped" =>
                client[c].elem.inv /\ client[c].read < client[c].elem.date
          /\ client[c].op \in {"got", "stamped"} =>
                /\ client[c].id \in Id /\ client[c].elem \in Elem
                /\ client[c].elem.date < stamp

Inv == TypeOK /\ NotSavedYet /\ DatedInOrder

(* What StoredGetsNewer says of a step.                                    *)
GetsNewer ==
    \A i \in Id :
        store[i] # None /\ store'[i] # None /\ store'[i] # store[i] =>
            /\ store'[i].elem.date > store[i].elem.date
            /\ store'[i].elem.inv
            /\ store'[i].exp \in store[i].exp .. store[i].exp + 1

(* Nothing is saved at first.                                              *)
LEMMA InvInit == Init => Inv
<1> SUFFICES ASSUME Init PROVE Inv
  OBVIOUS
<1> USE DEF Init, Idle
<1>1. TypeOK
  BY DEF TypeOK, ClientState
<1>2. QED BY <1>1 DEF Inv, NotSavedYet, DatedInOrder

(* A handler that ends leaves the others and their sessions alone.         *)
LEMMA EndKeepsInv ==
    ASSUME Inv, NEW c \in Client, NEW op \in {"idle", "ok", "lost", "missing", "error"},
           Ends(c, op), UNCHANGED <<unused, now, stamp>>,
           store' \in [Id -> [elem : Elem, exp : Nat] \cup {None}],
           \A i \in Id : store'[i] # store[i] =>
               \/ store'[i] = None
               \/ /\ store'[i].elem.date < stamp
                  /\ i \notin unused
                  /\ \A d \in Client \ {c} : client[d].op = "new" => client[d].id # i
    PROVE  Inv'
<1>1. [Idle EXCEPT !.op = op] \in ClientState /\ [Idle EXCEPT !.op = op].op = op
  BY DEF Idle, ClientState
<1>2. client' \in [Client -> ClientState] /\ client'[c].op = op
      /\ \A d \in Client \ {c} : client'[d] = client[d]
  BY <1>1 DEF Ends, Inv, TypeOK
<1>3. TypeOK'
  BY <1>2 DEF Inv, TypeOK
<1>4. NotSavedYet'
  BY <1>2 DEF Inv, TypeOK, NotSavedYet
<1>5. DatedInOrder'
  BY <1>2 DEF Inv, TypeOK, DatedInOrder
<1>6. QED BY <1>3, <1>4, <1>5 DEF Inv

(* Time only takes sessions away.                                          *)
LEMMA TickStep == ASSUME Inv, Tick PROVE Inv' /\ GetsNewer
<1> USE DEF Inv, TypeOK, Tick
<1>1. PICK gone \in SUBSET Id : store' = [i \in Id |-> IF i \in gone THEN None ELSE store[i]]
  OBVIOUS
<1>2. TypeOK' /\ GetsNewer
  BY <1>1 DEF GetsNewer
<1>3. NotSavedYet' /\ DatedInOrder'
  BY <1>1 DEF NotSavedYet, DatedInOrder
<1>4. QED BY <1>2, <1>3

(* A handler that lets go of its element leaves the sessions alone.        *)
LEMMA RestStep == ASSUME Inv, NEW c \in Client, Rest(c) PROVE Inv' /\ GetsNewer
BY EndKeepsInv DEF Rest, GetsNewer, Inv, TypeOK

(* A new element has an ID that no session has yet.                        *)
LEMMA NewStep ==
    ASSUME Inv, Bounds, NEW c \in Client, NEW i \in Id, NEW p \in Idp \cup {None}, New(c, i, p)
    PROVE  Inv' /\ GetsNewer
<1> DEFINE e == [inv |-> FALSE, date |-> stamp, idp |-> p]
           t == [op |-> "new", id |-> i, elem |-> e, read |-> 0, exp |-> now + Keep]
<1>1. /\ i \in unused /\ unused' = unused \ {i} /\ stamp' = stamp + 1
      /\ client' = [client EXCEPT ![c] = t] /\ UNCHANGED <<store, now>>
  BY DEF New
<1>2. e \in Elem /\ t \in ClientState
  BY DEF Bounds, Inv, TypeOK, Elem, ClientState
<1>3. TypeOK' /\ client'[c] = t /\ \A d \in Client \ {c} : client'[d] = client[d]
  BY <1>1, <1>2 DEF Inv, TypeOK
<1>4. stamp \in Nat /\ \A x \in Elem : x.date \in Nat
  BY DEF Inv, TypeOK, Elem
<1>5. NotSavedYet'
  BY <1>1, <1>2, <1>3, <1>4 DEF Inv, TypeOK, NotSavedYet
<1>6. DatedInOrder'
  BY <1>1, <1>3, <1>4 DEF Inv, TypeOK, DatedInOrder, ClientState
<1>7. QED BY <1>1, <1>3, <1>5, <1>6 DEF Inv, GetsNewer

(* Save stores the session of an ID that has had none.                     *)
LEMMA SaveStep ==
    ASSUME Inv, Bounds, NEW c \in Client, Save(c) PROVE Inv' /\ GetsNewer
<1> DEFINE i == client[c].id
<1>1. /\ i \in Id \ unused /\ client[c].elem \in Elem /\ client[c].elem.date < stamp
      /\ store[i] = None /\ client[c].exp \in Nat /\ UNCHANGED <<unused, now, stamp>>
      /\ \A d \in Client \ {c} : client[d].op = "new" => client[d].id # i
  BY DEF Save, Inv, NotSavedYet, TypeOK, ClientState
<1>2. PICK op \in {"ok", "error"} : Ends(c, op)
  BY DEF Save
<1>3. CASE UNCHANGED store
  BY <1>1, <1>2, <1>3, EndKeepsInv DEF Inv, TypeOK, GetsNewer
<1>4. ASSUME NEW x \in client[c].exp .. MaxNow + Keep + 1, store' = Saved(c, x)
      PROVE  Inv' /\ GetsNewer
  <2>1. x \in Nat
    BY <1>1 DEF Bounds
  <2>2. store' = [store EXCEPT ![i] = [elem |-> client[c].elem, exp |-> x]]
    BY <1>4 DEF Saved
  <2>3. /\ store' \in [Id -> [elem : Elem, exp : Nat] \cup {None}]
        /\ store'[i].elem.date < stamp /\ \A j \in Id \ {i} : store'[j] = store[j]
    BY <1>1, <2>1, <2>2 DEF Inv, TypeOK
  <2>4. QED BY <1>1, <1>2, <2>3, EndKeepsInv DEF GetsNewer
<1>5. QED BY <1>3, <1>4 DEF Save

(* Get gives out what is stored and changes nothing.                       *)
LEMMA GetStep == ASSUME Inv, NEW c \in Client, NEW i \in Id, Get(c, i) PROVE Inv' /\ GetsNewer
<1>1. UNCHANGED <<unused, now, stamp>>
  BY DEF Get
<1>2. CASE store[i] # None /\ UNCHANGED store /\ client' = [client EXCEPT ![c] =
                [op |-> "got", id |-> i, elem |-> store[i].elem,
                 read |-> store[i].elem.date, exp |-> 0]]
  <2> DEFINE e == store[i].elem
             t == [op |-> "got", id |-> i, elem |-> e, read |-> e.date, exp |-> 0]
  <2>1. e \in Elem /\ e.date \in Nat /\ e.date < stamp
    BY <1>2 DEF Inv, TypeOK, DatedInOrder, Elem
  <2>2. t \in ClientState
    BY <2>1 DEF ClientState
  <2>3. client' \in [Client -> ClientState] /\ client'[c] = t
        /\ \A d \in Client \ {c} : client'[d] = client[d]
    BY <1>2, <2>2 DEF Inv, TypeOK
  <2> HIDE DEF e
  <2>4. TypeOK' /\ NotSavedYet'
    BY <1>1, <1>2, <2>3 DEF Inv, TypeOK, NotSavedYet
  <2>5. DatedInOrder'
    BY <1>1, <1>2, <2>1, <2>3 DEF Inv, DatedInOrder
  <2>6. QED BY <1>2, <2>4, <2>5 DEF Inv, GetsNewer
<1>3. CASE (Ends(c, "missing") \/ Ends(c, "error")) /\ UNCHANGED store
  BY <1>1, <1>3, EndKeepsInv DEF Inv, TypeOK, GetsNewer
<1>4. CASE Ends(c, "missing") /\ store' = [store EXCEPT ![i] = None]
  <2>1. /\ store' \in [Id -> [elem : Elem, exp : Nat] \cup {None}]
        /\ \A j \in Id : store'[j] # store[j] => store'[j] = None
    BY <1>4 DEF Inv, TypeOK
  <2>2. QED BY <1>1, <1>4, <2>1, EndKeepsInv DEF GetsNewer
<1>5. QED BY <1>2, <1>3, <1>4 DEF Get

(* What a handler does to its own copy is not stored yet.                  *)
LEMMA InvalidateStep ==
    ASSUME Inv, NEW c \in Client, Invalidate(c) PROVE Inv' /\ GetsNewer
<1> DEFINE s == client[c]
           t == [s EXCEPT !.op = "stamped", !.elem.inv = TRUE, !.elem.date = stamp]
<1>1. /\ s.op = "got" /\ s \in ClientState /\ s.elem \in Elem /\ s.id \in Id
      /\ s.read \in Nat /\ s.read < stamp /\ stamp \in Nat /\ stamp' = stamp + 1
      /\ client' = [client EXCEPT ![c] = t] /\ UNCHANGED <<store, unused, now>>
  BY DEF Invalidate, Inv, TypeOK, DatedInOrder, ClientState
<1>2. [s.elem EXCEPT !.inv = TRUE, !.date = stamp] \in Elem
  BY <1>1 DEF Elem
<1>3. /\ t \in ClientState /\ t.op = "stamped" /\ t.id = s.id /\ t.read = s.read
      /\ t.elem \in Elem /\ t.elem.inv /\ t.elem.date = stamp
  BY <1>1, <1>2 DEF ClientState, Elem
<1> HIDE DEF t
<1>4. client' \in [Client -> ClientState] /\ client'[c] = t
      /\ \A d \in Client \ {c} : client'[d] = client[d]
  BY <1>1, <1>3 DEF Inv, TypeOK
<1>5. \A x \in Elem : x.date \in Nat
  BY DEF Elem
<1>6. TypeOK' /\ NotSavedYet'
  BY <1>1, <1>3, <1>4, <1>5 DEF Inv, TypeOK, NotSavedYet
<1>7. DatedInOrder'
  BY <1>1, <1>3, <1>4, <1>5 DEF Inv, TypeOK, DatedInOrder, ClientState
<1>8. QED BY <1>1, <1>6, <1>7 DEF Inv, GetsNewer

(* Replace stores the newer element over the one it was read from.         *)
LEMMA ReplaceStep == ASSUME Inv, NEW c \in Client, Replace(c) PROVE Inv' /\ GetsNewer
<1> DEFINE i == client[c].id
           e == client[c].elem
<1>1. /\ i \in Id /\ e \in Elem /\ e.inv /\ client[c].read < e.date /\ e.date < stamp
      /\ UNCHANGED <<unused, now, stamp>>
  BY DEF Replace, Inv, DatedInOrder
<1>2. PICK op \in {"ok", "lost", "error"} : Ends(c, op)
  BY DEF Replace
<1>3. CASE UNCHANGED store
  BY <1>1, <1>2, <1>3, EndKeepsInv DEF Inv, TypeOK, GetsNewer
<1>4. ASSUME NEW late \in 0 .. 1, Current(c), store' = Replaced(c, late)
      PROVE  Inv' /\ GetsNewer
  <2>1. store[i] # None /\ store[i].elem.date = client[c].read
        /\ store[i] \in [elem : Elem, exp : Nat]
    BY <1>1, <1>4 DEF Current, Inv, TypeOK
  <2>2. /\ store' \in [Id -> [elem : Elem, exp : Nat] \cup {None}]
        /\ store'[i].elem = e /\ store'[i].exp = store[i].exp + late
        /\ \A j \in Id \ {i} : store'[j] = store[j]
    BY <1>1, <1>4, <2>1 DEF Replaced, Saved, Inv, TypeOK
  <2>3. i \notin unused /\ \A d \in Client \ {c} : client[d].op = "new" => client[d].id # i
    BY <2>1 DEF Inv, NotSavedYet
  <2>4. Inv'
    <3> HIDE DEF i, e
    <3>1. QED BY <1>1, <1>2, <2>2, <2>3, EndKeepsInv
  <2>5. GetsNewer
    BY <1>1, <2>1, <2>2 DEF GetsNewer, Elem, ClientState, Inv, TypeOK
  <2>6. QED BY <2>4, <2>5
<1>5. QED BY <1>3, <1>4 DEF Replace

(* Every step keeps the invariant and only makes a session newer.          *)
LEMMA InvStep ==
    ASSUME Bounds, Inv, [Next]_vars
    PROVE  Inv' /\ [GetsNewer]_vars
<1>1. CASE Tick
  BY <1>1, TickStep
<1>2. CASE \E c \in Client, i \in Id, p \in Idp \cup {None} : New(c, i, p)
  BY <1>2, NewStep
<1>3. CASE \E c \in Client, i \in Id : Get(c, i)
  BY <1>3, GetStep
<1>4. CASE \E c \in Client : Save(c) \/ Invalidate(c) \/ Replace(c) \/ Rest(c)
  BY <1>4, SaveStep, InvalidateStep, ReplaceStep, RestStep
<1>5. CASE UNCHANGED vars
  BY <1>5 DEF vars, Inv, TypeOK, NotSavedYet, DatedInOrder
<1>6. QED BY <1>1, <1>2, <1>3, <1>4, <1>5 DEF Next

(* Of those that read one version of a session one at most puts its copy   *)
(* back, in whatever way the DB keeps its promise: what is stored under an *)
(* ID only gets newer, is invalid from then on and lives on as long as     *)
(* before, or a millisecond longer.                                        *)
THEOREM NewerOnly ==
    ASSUME Bounds
    PROVE  Spec => StoredGetsNewer
<1>1. Inv /\ [Next]_vars => Inv' /\ [GetsNewer]_vars
  BY InvStep
<1>2. Spec => [][GetsNewer]_vars
  BY InvInit, <1>1, PTL DEF Spec
<1>3. QED BY <1>2 DEF StoredGetsNewer, GetsNewer
===============================================================================
