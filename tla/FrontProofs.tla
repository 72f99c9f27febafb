---------------------------- MODULE FrontProofs ----------------------------
(***************************************************************************)
(* Proofs about the frontends over redis and the backends' token DB, for   *)
(* any number of requests, at any pace of the clock, whatever fails.       *)
(***************************************************************************)
EXTENDS Front, TLAPS

(***************************************************************************)
(* The invariant.                                                          *)
(***************************************************************************)
(* A request that is in has come to a frontend; one with a session has it  *)
(* from its cookie, and the others have what the backend got for them.     *)
Place(r) ==
    /\ pc[r] \in {"idle", "get", "exchange"} => got[r] = Nothing
    /\ pc[r] \in {"save", "answer"} => got[r].answer = None /\ got[r].cookie = None
    /\ pc[r] = "idle" => form[r] = "none" /\ shown[r] = None
    /\ pc[r] \in {"exchange", "save", "answer", "front", "set"} =>
          /\ kind[r] \in {"callback", "api"}
          /\ form[r] # "session" /\ shown[r] = None
    /\ pc[r] = "get" => form[r] = "session"

(* The session that a request declares was handed out by the frontend that *)
(* it comes to.                                                            *)
Declared(r) ==
    form[r] = "session" =>
        \/ kind[r] = "page" /\ sess[r] \in Handed("callback")
        \/ kind[r] = "api" /\ sess[r] \in Handed("api")

(* The answer of the backend names the access token and its expiry.        *)
Answered(r) ==
    /\ got[r].answer.user = [of |-> r, at_tag |-> r, at_exp |-> Floor(got[r].exp)]
    /\ kind[r] = "callback" =>
          got[r].answer = [user |-> got[r].answer.user, tag |-> None, from |-> None, users |-> None]

(* The access token has its whole lifetime ahead when it is saved.         *)
Expiry(r) ==
    pc[r] = "save" =>
        /\ got[r].exp <= now + got[r].life
        /\ kind[r] = "api" => got[r].exp - got[r].life \in Nat

(* A token that does not outlive its retention is kept until it expires.   *)
Kept(r) ==
    got[r].life <= TokDbExpIn =>
        \/ tokDb[r] # None /\ got[r].exp <= tokDb[r].until
        \/ now > got[r].exp
        \/ r \in lost

(* What the backend answered on the way to the client.                     *)
Backed(r) ==
    /\ pc[r] \in {"front", "set"} => got[r].answer # None
    /\ got[r].answer # None => Answered(r)
    /\ pc[r] = "answer" \/ got[r].answer # None => Kept(r)
    /\ got[r].cookie # None =>
          /\ got[r].answer # None
          /\ kind[r] = "api" => got[r].cookie = Floor(got[r].exp)

(* The session about to be saved will live as long as its cookie, and as   *)
(* one of a cooperation not much longer than its access token.             *)
Sent(r) ==
    pc[r] = "set" =>
        /\ got[r].cookie # None
        /\ got[r].cookie <= now + got[r].expIn
        /\ kind[r] = "api" =>
              got[r].sentBy + got[r].expIn < Floor(got[r].exp) + Lag + Sec

(* A session in redis.                                                     *)
Stored(r) ==
    \A p \in {"asession", "csession"} : store[p][r] # None =>
        /\ pc[r] = "done" /\ kind[r] = IF p = "asession" THEN "callback" ELSE "api"
        /\ now <= store[p][r].until
        /\ got[r].cookie # None => Replay(p, store[p][r].value) = got[r].answer
        /\ p = "csession" => store[p][r].until < store[p][r].value.user.at_exp + Lag + Sec

(* A session that was handed out is in redis until its cookie expires.     *)
HandedOut(r) ==
    pc[r] = "done" /\ got[r].cookie # None =>
        \/ now > got[r].cookie
        \/ store[Prefix(r)][r] # None /\ got[r].cookie <= store[Prefix(r)][r].until

(* Whoever is passed on is passed on with an answer of the backend.        *)
Shown(r) ==
    shown[r] # None =>
        /\ pc[r] = "done"
        /\ shown[r] \in PassedOn(r, got[IF form[r] = "session" THEN sess[r] ELSE r].answer)

Own(r) ==
    Place(r) /\ Expiry(r) /\ Backed(r) /\ Sent(r) /\ Stored(r) /\ HandedOut(r)

Inv == TypeOK /\ \A r \in Request : Own(r) /\ Declared(r) /\ Shown(r)

(***************************************************************************)
(* Types.                                                                  *)
(***************************************************************************)
(* A time in whole seconds, as in at_exp and Expires.                      *)
LEMMA FloorBounds ==
    ASSUME NEW t \in Int
    PROVE  Floor(t) \in Int /\ Floor(t) <= t /\ t < Floor(t) + Sec
BY TimeAssumption DEF Floor

(* The types hold at the start.                                            *)
LEMMA TypeInit == Init => TypeOK
<1> SUFFICES ASSUME Init PROVE TypeOK
  OBVIOUS
<1>1. Nothing \in Got
  BY DEF Nothing, Got
<1>2. Tokens!TypeOK
  BY DEF Init, Tokens!Init, Tokens!TypeOK
<1> QED BY <1>1, <1>2, TimeAssumption DEF Init, TypeOK

(* What the backends got is typed.                                         *)
LEMMA GotType == TypeOK => got \in [Request -> Got]
BY DEF TypeOK

(* What the backend got changes two fields at a time.                      *)
LEMMA GotAccess ==
    ASSUME got \in [Request -> Got], NEW r \in Request, NEW l \in Nat, NEW e \in Int,
           got' = [got EXCEPT ![r].life = l, ![r].exp = e]
    PROVE  got'[r] = [got[r] EXCEPT !.life = l, !.exp = e] /\ got' \in [Request -> Got]
<1>1. got' = [got EXCEPT ![r] = [got[r] EXCEPT !.life = l, !.exp = e]]
  OBVIOUS
<1>2. got[r] \in Got
  OBVIOUS
<1>3. [got[r] EXCEPT !.life = l, !.exp = e] \in Got
  BY <1>2 DEF Got
<1> QED BY <1>1, <1>3

LEMMA GotAnswer ==
    ASSUME got \in [Request -> Got], NEW r \in Request, NEW a \in Headers, NEW c \in Int \cup {None},
           got' = [got EXCEPT ![r].answer = a, ![r].cookie = c]
    PROVE  got'[r] = [got[r] EXCEPT !.answer = a, !.cookie = c] /\ got' \in [Request -> Got]
<1>1. got' = [got EXCEPT ![r] = [got[r] EXCEPT !.answer = a, !.cookie = c]]
  OBVIOUS
<1>2. got[r] \in Got
  OBVIOUS
<1>3. [got[r] EXCEPT !.answer = a, !.cookie = c] \in Got
  BY <1>2 DEF Got
<1> QED BY <1>1, <1>3

LEMMA GotLifetime ==
    ASSUME got \in [Request -> Got], NEW r \in Request, NEW l \in Nat, NEW b \in Nat,
           got' = [got EXCEPT ![r].expIn = l, ![r].sentBy = b]
    PROVE  got'[r] = [got[r] EXCEPT !.expIn = l, !.sentBy = b] /\ got' \in [Request -> Got]
<1>1. got' = [got EXCEPT ![r] = [got[r] EXCEPT !.expIn = l, !.sentBy = b]]
  OBVIOUS
<1>2. got[r] \in Got
  OBVIOUS
<1>3. [got[r] EXCEPT !.expIn = l, !.sentBy = b] \in Got
  BY <1>2 DEF Got
<1> QED BY <1>1, <1>3

(* A request that ends keeps its place and its status typed.               *)
LEMMA Ending ==
    ASSUME TypeOK, NEW r \in Request, NEW st \in {200, 302, 400, 403, 500}, Ends(r, st)
    PROVE  /\ pc' \in [Request -> {"idle", "exchange", "save", "answer", "front", "set", "get", "done"}]
           /\ status' \in [Request -> {0, 200, 302, 400, 403, 500}]
BY DEF Ends, Goto, TypeOK

(* Requests that come in keep the types.                                   *)
LEMMA TypeArrival ==
    ASSUME TypeOK, NEW r \in Request, ReceivePage(r) \/ ReceiveCallback(r) \/ ReceiveApi(r)
    PROVE  TypeOK'
<1>1. Tokens!TypeOK'
  BY DEF TypeOK, Tokens!TypeOK, ReceivePage, ReceiveCallback, ReceiveApi
<1>2. CASE ReceivePage(r)
  BY <1>1, <1>2 DEF ReceivePage, Arrives, Ends, Goto, Handed, TypeOK
<1>3. CASE ReceiveCallback(r)
  BY <1>1, <1>3 DEF ReceiveCallback, Arrives, Goto, TypeOK
<1>4. CASE ReceiveApi(r)
  BY <1>1, <1>4 DEF ReceiveApi, Arrives, Ends, Goto, Handed, Reaches, TypeOK
<1> QED BY <1>2, <1>3, <1>4

(* A request that fails is left with an empty, but typed, record.          *)
LEMMA TypeFailure ==
    ASSUME TypeOK, NEW r \in Request, NEW st \in {400, 500}, Fails(r, st)
    PROVE  /\ pc' \in [Request -> {"idle", "exchange", "save", "answer", "front", "set", "get", "done"}]
           /\ status' \in [Request -> {0, 200, 302, 400, 403, 500}]
           /\ got' \in [Request -> Got]
<1>1. Nothing \in Got
  BY DEF Nothing, Got
<1> QED BY <1>1, Ending DEF Fails, TypeOK

(* The backends keep the types; a retention never ends before time 0.      *)
LEMMA TypeBackend ==
    ASSUME Inv, NEW r \in Request, Exchange(r) \/ SaveToken(r) \/ Answer(r) \/ BackendFails(r)
    PROVE  TypeOK'
<1> USE TimeAssumption
<1>0. TypeOK /\ Own(r)
  BY DEF Inv
<1>1. CASE Exchange(r)
  <2>1. PICK l \in TokLife : got' = [got EXCEPT ![r].life = l,
                             ![r].exp = IF kind[r] = "callback" /\ l = 0 THEN -Sec ELSE now + l]
    BY <1>1 DEF Exchange
  <2>2. l \in Nat /\ -Sec \in Int /\ now + l \in Int
    <3>1. now \in Nat
      BY <1>0 DEF TypeOK
    <3> QED BY <3>1
  <2>3. PICK e \in Int : got' = [got EXCEPT ![r].life = l, ![r].exp = e]
    BY <2>1, <2>2
  <2>5. got' \in [Request -> Got]
    BY <1>0, <2>2, <2>3, GotAccess, GotType
  <2>4. Tokens!TypeOK'
    BY <1>0, <1>1 DEF TypeOK, Tokens!TypeOK, Exchange
  <2> QED BY <1>0, <1>1, <2>4, <2>5 DEF Exchange, Goto, TypeOK
<1>2. CASE SaveToken(r)
  <2>1. now \in Nat /\ got[r] \in Got
    BY <1>0 DEF TypeOK
  <2>2. KeptUntil(r) \in Nat
    BY <1>0, <1>2, <2>1 DEF SaveToken, KeptUntil, Own, Expiry, Place, Got
  <2>3. CASE Tokens!Save(r, got[r].exp, KeptUntil(r)) /\ Goto(r, "answer") /\ UNCHANGED <<got, status>>
    <3>1. PICK late \in Tokens!Late :
             tokDb' = [tokDb EXCEPT ![r] = [exp |-> got[r].exp, until |-> KeptUntil(r) + late]]
      BY <2>3 DEF Tokens!Save
    <3>2. KeptUntil(r) + late \in Nat /\ got[r].exp \in Int
      BY <2>1, <2>2 DEF Tokens!Late, Got
    <3>3. Tokens!TypeOK'
      BY <1>0, <1>2, <3>1, <3>2 DEF TypeOK, Tokens!TypeOK, SaveToken
    <3> QED BY <1>0, <1>2, <2>3, <3>3 DEF SaveToken, Goto, TypeOK
  <2>4. CASE Fails(r, 500) /\ UNCHANGED tokDb
    BY <1>0, <1>2, <2>4, TypeFailure DEF SaveToken, TypeOK, Tokens!TypeOK
  <2> QED BY <1>2, <2>3, <2>4 DEF SaveToken
<1>3. CASE Answer(r)
  <2>1. PICK u \in Users(r), c \in Cookies(r) :
           got' = [got EXCEPT ![r].answer = AnswerTo(r, u), ![r].cookie = c]
    BY <1>3 DEF Answer
  <2>2. now \in Nat /\ got[r] \in Got
    BY <1>0 DEF TypeOK
  <2>3. Floor(got[r].exp) \in Int /\ Floor(now + FsessExpIn) \in Int
    BY <2>2, FloorBounds DEF Got
  <2>4. c \in Int \cup {None}
    BY <2>3 DEF Cookies
  <2>5. u \in Value
    BY DEF Users, Value
  <2>6. AnswerTo(r, u) \in Headers
    BY <2>3, <2>5 DEF AnswerTo, Headers, User, Value
  <2>7. got' \in [Request -> Got]
    <3> HIDE DEF AnswerTo
    <3> QED BY <1>0, <2>1, <2>4, <2>6, GotAnswer, GotType
  <2>8. Tokens!TypeOK'
    BY <1>0, <1>3 DEF TypeOK, Tokens!TypeOK, Answer
  <2> QED BY <1>0, <1>3, <2>7, <2>8 DEF Answer, Goto, TypeOK
<1>4. CASE BackendFails(r)
  BY <1>0, <1>4, TypeFailure DEF BackendFails, TypeOK, Tokens!TypeOK
<1> QED BY <1>1, <1>2, <1>3, <1>4

(* Headers that are passed on are typed.                                   *)
LEMMA TypePassed ==
    ASSUME NEW r \in Request, NEW h \in Headers
    PROVE  PassedOn(r, h) \subseteq Headers
<1>1. ASSUME NEW v \in Value PROVE HeaderOf(r, v) \subseteq Value
  BY DEF HeaderOf, Value
<1> QED BY <1>1 DEF PassedOn, Headers

(* The frontends keep the types; a lifetime they save is positive.         *)
LEMMA TypeFront ==
    ASSUME Inv, NEW r \in Request, Front(r) \/ SetSession(r) \/ GetSession(r)
    PROVE  TypeOK'
<1>0. TypeOK /\ Own(r) /\ Declared(r)
  BY DEF Inv
<1>1. Tokens!TypeOK'
  BY <1>0 DEF TypeOK, Tokens!TypeOK, Front, SetSession, GetSession
<1>2. now \in Nat /\ got[r] \in Got
  BY <1>0 DEF TypeOK
<1>3. CASE Front(r)
  <2>1. got[r].answer \in Headers
    BY <1>0, <1>2, <1>3 DEF Own, Backed, Front, Got
  <2>2. CASE /\ Savable(r) /\ Goto(r, "set") /\ UNCHANGED <<status, shown>>
             /\ got' = [got EXCEPT ![r].expIn = Remaining(r), ![r].sentBy = now + Lag]
    <3>1. Remaining(r) \in Nat /\ now + Lag \in Nat
      BY <1>2, <2>2, FloorBounds, TimeAssumption DEF Savable, Remaining, Got
    <3>2. got' \in [Request -> Got]
      <4> HIDE DEF Remaining
      <4> QED BY <1>0, <2>2, <3>1, GotLifetime, GotType
    <3> QED BY <1>0, <1>1, <1>3, <2>2, <3>2 DEF Front, Goto, TypeOK
  <2>3. CASE Fails(r, 400) /\ UNCHANGED shown
    BY <1>0, <1>1, <1>3, <2>3, TypeFailure DEF Front, TypeOK
  <2>4. CASE /\ \E h \in PassedOn(r, got[r].answer) : shown' = [shown EXCEPT ![r] = h]
             /\ got' = [got EXCEPT ![r].cookie = None] /\ Ends(r, 200)
    <3>1. got' \in [Request -> Got]
      BY <1>0, <2>4 DEF TypeOK, Got
    <3>2. shown' \in [Request -> Headers \cup {None}]
      BY <1>0, <2>1, <2>4, TypePassed DEF TypeOK
    <3> QED BY <1>0, <1>1, <1>3, <2>4, <3>1, <3>2, Ending DEF Front, TypeOK
  <2> QED BY <1>3, <2>2, <2>3, <2>4 DEF Front
<1>4. CASE SetSession(r)
  <2>0. got[r].answer \in Headers
    BY <1>0, <1>2, <1>4 DEF Own, Backed, SetSession, Got
  <2>1. now + got[r].expIn \in Nat
    BY <1>2 DEF Got
  <2>2. Prefix(r) \in {"asession", "csession"}
    BY DEF Prefix
  <2>3. DOMAIN SessionSet(r) = {"asession", "csession"}
    BY <1>0 DEF SessionSet, TypeOK
  <2>4. ASSUME NEW s \in {"asession", "csession"}
        PROVE  SessionSet(r)[s] \in [Request -> Session(s) \cup {None}]
    BY <1>0, <2>0, <2>1, <2>2 DEF SessionSet, Prefix, CoopSession, Session, Headers, TypeOK
  <2>5. /\ DOMAIN store' = {"asession", "csession"}
        /\ \A s \in {"asession", "csession"} : store'[s] \in [Request -> Session(s) \cup {None}]
    BY <1>0, <1>4, <2>3, <2>4 DEF SetSession, TypeOK
  <2>6. CASE Succeeds(r)
    <3>1. got' \in [Request -> Got]
      BY <1>0, <2>6, GotLifetime, GotType DEF Succeeds
    <3>2. shown' \in [Request -> Headers \cup {None}]
      BY <1>0, <2>0, <2>6, TypePassed DEF Succeeds, TypeOK
    <3>3. PICK st \in {200, 302} : Ends(r, st)
      BY <2>6 DEF Succeeds
    <3> QED BY <1>0, <1>1, <1>4, <2>5, <3>1, <3>2, <3>3, Ending DEF SetSession, TypeOK
  <2>7. CASE NotSaved(r)
    BY <1>0, <1>1, <1>4, <2>5, <2>7, TypeFailure DEF SetSession, NotSaved, TypeOK
  <2> QED BY <1>4, <2>6, <2>7 DEF SetSession
<1>5. CASE GetSession(r)
  <2> DEFINE p == IF kind[r] = "page" THEN "asession" ELSE "csession"
  <2>1. sess[r] \in Request
    BY <1>0, <1>5 DEF GetSession, Own, Place, Declared, Handed
  <2>2. store[p][sess[r]] \in Session(p) \cup {None}
    BY <1>0, <2>1 DEF TypeOK
  <2>3. store[p][sess[r]] # None => Replay(p, store[p][sess[r]].value) \in Headers
    BY <2>2 DEF Session, Replay, Headers, Value
  <2>4. shown' \in [Request -> Headers \cup {None}]
    <3>1. CASE shown' = shown
      BY <1>0, <3>1 DEF TypeOK
    <3>2. CASE /\ store[p][sess[r]] # None
               /\ \E h \in PassedOn(r, Replay(p, store[p][sess[r]].value)) : shown' = [shown EXCEPT ![r] = h]
      <4>1. PICK h \in Headers : shown' = [shown EXCEPT ![r] = h]
        BY <2>3, <3>2, TypePassed
      <4> QED BY <1>0, <4>1 DEF TypeOK
    <3> QED BY <1>5, <3>1, <3>2 DEF GetSession
  <2>5. PICK st \in {200, 302, 403, 500} : Ends(r, st)
    BY <1>5 DEF GetSession
  <2> QED BY <1>0, <1>1, <1>5, <2>4, <2>5, Ending DEF GetSession, TypeOK
<1> QED BY <1>3, <1>4, <1>5

(* Time, lookups and restarts keep the types.                              *)
LEMMA TypeEnvironment ==
    ASSUME TypeOK, Tick \/ Crash \/ \E t \in Request : GetByTag(t)
    PROVE  TypeOK'
<1>1. CASE Tick
  <2>1. Tokens!TypeOK'
    BY <1>1 DEF TypeOK, Tokens!TypeOK, Tick, Tokens!Age
  <2> QED BY <1>1, <2>1 DEF TypeOK, Tick, reqVars
<1>2. CASE Crash
  <2>1. Tokens!TypeOK'
    BY <1>2 DEF TypeOK, Tokens!TypeOK, Crash, Tokens!Restart
  <2>2. Nothing \in Got
    BY DEF Nothing, Got
  <2> QED BY <1>2, <2>1, <2>2 DEF TypeOK, Crash
<1>3. ASSUME NEW t \in Request, GetByTag(t) PROVE TypeOK'
  <2>1. Tokens!TypeOK'
    BY <1>3 DEF TypeOK, Tokens!TypeOK, GetByTag, Tokens!Forget
  <2> QED BY <1>3, <2>1 DEF TypeOK, GetByTag, reqVars
<1> QED BY <1>1, <1>2, <1>3

(* Every step keeps the types.                                             *)
LEMMA TypeStep == Inv /\ [Next]_vars => TypeOK'
<1>1. Inv /\ UNCHANGED vars => TypeOK'
  BY DEF Inv, TypeOK, Tokens!TypeOK, vars, reqVars
<1>2. Inv /\ Next => TypeOK'
  BY TypeArrival, TypeBackend, TypeFront, TypeEnvironment DEF Inv, Next
<1> QED BY <1>1, <1>2

(***************************************************************************)
(* What a step of one request leaves alone.                                *)
(***************************************************************************)
(* The steps of request r.                                                 *)
Step(r) ==
    \/ ReceivePage(r) \/ ReceiveCallback(r) \/ ReceiveApi(r)
    \/ Exchange(r) \/ SaveToken(r) \/ Answer(r) \/ BackendFails(r)
    \/ Front(r) \/ SetSession(r) \/ GetSession(r)

(* Nothing of request q changes but its status.                            *)
Same(q) ==
    /\ pc'[q] = pc[q] /\ kind'[q] = kind[q] /\ form'[q] = form[q] /\ sess'[q] = sess[q]
    /\ got'[q] = got[q] /\ shown'[q] = shown[q]
    /\ tokDb'[q] = tokDb[q]
    /\ \A p \in {"asession", "csession"} : store'[p][q] = store[p][q]

(* A request that was answered stays as it is.                             *)
Final(q) ==
    /\ pc'[q] = "done" /\ kind'[q] = kind[q] /\ form'[q] = form[q] /\ sess'[q] = sess[q]
    /\ got'[q] = got[q] /\ shown'[q] = shown[q]

(* A step of one request touches nothing of another one.                   *)
LEMMA Elsewhere ==
    ASSUME TypeOK, NEW r \in Request, Step(r), NEW q \in Request \ {r}
    PROVE  Same(q) /\ now' = now /\ lost' = lost
<1> USE DEF Same, TypeOK, Tokens!TypeOK
<1>1. CASE ReceivePage(r)
  BY <1>1 DEF ReceivePage, Arrives, Ends, Goto
<1>2. CASE ReceiveCallback(r)
  BY <1>2 DEF ReceiveCallback, Arrives, Goto
<1>3. CASE ReceiveApi(r)
  BY <1>3 DEF ReceiveApi, Arrives, Ends, Goto
<1>4. CASE Exchange(r)
  BY <1>4 DEF Exchange, Goto
<1>5. CASE SaveToken(r)
  BY <1>5 DEF SaveToken, Tokens!Save, Goto, Fails, Ends
<1>6. CASE Answer(r)
  BY <1>6 DEF Answer, Goto
<1>7. CASE BackendFails(r)
  BY <1>7 DEF BackendFails, Fails, Ends, Goto
<1>8. CASE Front(r)
  BY <1>8 DEF Front, Fails, Ends, Goto
<1>9. CASE SetSession(r)
  <2>1. \A p \in {"asession", "csession"} : SessionSet(r)[p][q] = store[p][q]
    BY DEF SessionSet, Prefix
  <2>2. \A p \in {"asession", "csession"} : store'[p][q] = store[p][q]
    BY <1>9, <2>1 DEF SetSession
  <2>3. CASE Succeeds(r)
    BY <1>9, <2>2, <2>3 DEF SetSession, Succeeds, Ends, Goto
  <2>4. CASE NotSaved(r)
    BY <1>9, <2>2, <2>4 DEF SetSession, NotSaved, Fails, Ends, Goto
  <2> QED BY <1>9, <2>3, <2>4 DEF SetSession
<1>10. CASE GetSession(r)
  BY <1>10 DEF GetSession, Ends, Goto
<1> QED BY <1>1, <1>2, <1>3, <1>4, <1>5, <1>6, <1>7, <1>8, <1>9, <1>10 DEF Step

(* A request that was answered takes no more steps.                        *)
LEMMA NotDone ==
    ASSUME NEW r \in Request, Step(r)
    PROVE  pc[r] # "done"
BY DEF Step, ReceivePage, ReceiveCallback, ReceiveApi, Arrives, Exchange, SaveToken, Answer,
       BackendFails, AtBackend, Front, SetSession, GetSession

(* A step is one of a request or of the environment.                       *)
LEMMA NextIs ==
    ASSUME [Next]_vars
    PROVE  (\E r \in Request : Step(r)) \/ Tick \/ Crash \/ (\E t \in Request : GetByTag(t)) \/ UNCHANGED vars
BY DEF Next, Step

(* Whatever happens, an answered request stays as it is.                   *)
LEMMA DoneStays ==
    ASSUME TypeOK, [Next]_vars, NEW q \in Request, pc[q] = "done"
    PROVE  Final(q)
<1>1. ASSUME NEW r \in Request, Step(r) PROVE Final(q)
  BY <1>1, Elsewhere, NotDone DEF Same, Final
<1>2. CASE Tick \/ \E t \in Request : GetByTag(t)
  BY <1>2 DEF Tick, GetByTag, reqVars, Final
<1>3. CASE Crash
  BY <1>3 DEF Crash, AtBackend, TypeOK, Final
<1>4. CASE UNCHANGED vars
  BY <1>4 DEF vars, reqVars, Final
<1> QED BY <1>1, <1>2, <1>3, <1>4, NextIs

(* What is known of a request does not change while it is left alone.      *)
LEMMA SameOwn ==
    ASSUME NEW q \in Request, Own(q), Same(q), now' = now, lost' = lost
    PROVE  Own(q)'
<1> USE DEF Same, Own
<1>1. Place(q)' /\ Expiry(q)'
  BY DEF Place, Expiry
<1>2. Kept(q) => Kept(q)'
  BY DEF Kept
<1>3. Answered(q) => Answered(q)'
  BY DEF Answered
<1>4. Backed(q)'
  BY <1>2, <1>3 DEF Backed
<1>5. Sent(q)'
  BY DEF Sent
<1>6. Stored(q)'
  BY DEF Stored
<1>7. HandedOut(q)'
  BY DEF HandedOut, Prefix
<1> QED BY <1>1, <1>4, <1>5, <1>6, <1>7

(***************************************************************************)
(* Steps of the environment.                                               *)
(***************************************************************************)
(* Redis drops only sessions and tokens whose time is over.               *)
LEMMA OwnTick ==
    ASSUME TypeOK, Tick, NEW q \in Request, Own(q)
    PROVE  Own(q)'
<1>1. /\ now \in Nat /\ now' = now + 1 /\ lost' = lost
      /\ pc'[q] = pc[q] /\ kind'[q] = kind[q] /\ form'[q] = form[q] /\ got'[q] = got[q] /\ shown'[q] = shown[q]
      /\ got[q] \in Got
  BY DEF TypeOK, Tick, reqVars
<1>3. tokDb[q] # None => tokDb[q].until \in Nat
  BY DEF TypeOK, Tokens!TypeOK
<1>2. tokDb'[q] = tokDb[q] \/ (tokDb[q] # None /\ now' > tokDb[q].until)
  <2>1. tokDb'[q] = IF tokDbType = "redis" /\ Tokens!Outdated(q, now') THEN None ELSE tokDb[q]
    BY DEF Tick, Tokens!Age
  <2> QED BY <2>1 DEF Tokens!Outdated
<1>4. ASSUME NEW p \in {"asession", "csession"}
      PROVE  store'[p][q] = IF store[p][q] # None /\ now' > store[p][q].until THEN None ELSE store[p][q]
  BY DEF TypeOK, Tick
<1>5. ASSUME NEW p \in {"asession", "csession"}, store[p][q] # None
      PROVE  store[p][q].until \in Nat
  BY <1>5 DEF TypeOK, Session
<1>6. TimeAssumption
  BY TimeAssumption
<1> USE DEF Own
<1>7. Place(q)'
  BY <1>1 DEF Place
<1>8. Expiry(q)'
  BY <1>1 DEF Expiry, Got
<1>9. Kept(q) => Kept(q)'
  BY <1>1, <1>2, <1>3 DEF Kept, Got
<1>10. Answered(q) => Answered(q)'
  BY <1>1 DEF Answered
<1>11. Backed(q)'
  BY <1>1, <1>9, <1>10 DEF Backed
<1>12. Sent(q)'
  BY <1>1 DEF Sent, Got
<1>13. Stored(q)'
  BY <1>1, <1>4, <1>5 DEF Stored
<1>14. HandedOut(q)'
  BY <1>1, <1>4, <1>5 DEF HandedOut, Prefix, Got
<1> QED BY <1>7, <1>8, <1>11, <1>12, <1>13, <1>14

(* The DB in memory forgets only tokens whose retention is over.           *)
LEMMA OwnForget ==
    ASSUME TypeOK, NEW t \in Request, GetByTag(t), NEW q \in Request, Own(q)
    PROVE  Own(q)'
<1>1. /\ now \in Nat /\ now' = now /\ lost' = lost /\ store' = store
      /\ pc' = pc /\ kind' = kind /\ form' = form /\ got' = got /\ shown' = shown
      /\ got[q] \in Got
  BY DEF TypeOK, GetByTag, reqVars
<1>2. tokDb'[q] = tokDb[q] \/ (tokDb[q] # None /\ now > tokDb[q].until)
  <2>1. tokDb' = [tokDb EXCEPT ![t] = None] /\ tokDb \in [Request -> [exp : Int, until : Nat] \cup {None}]
    BY DEF TypeOK, Tokens!TypeOK, GetByTag, Tokens!Forget
  <2>2. tokDb[t] # None /\ now > tokDb[t].until
    BY DEF GetByTag, Tokens!Forget, Tokens!Outdated
  <2>3. CASE q = t
    BY <2>2, <2>3
  <2>4. CASE q # t
    BY <2>1, <2>4
  <2> QED BY <2>3, <2>4
<1>3. tokDb[q] # None => tokDb[q].until \in Nat
  BY DEF TypeOK, Tokens!TypeOK
<1> USE DEF Own
<1>4. Kept(q) => Kept(q)'
  BY <1>1, <1>2, <1>3 DEF Kept, Got
<1>5. Backed(q)'
  BY <1>1, <1>4 DEF Backed, Answered
<1> QED BY <1>1, <1>5 DEF Place, Expiry, Sent, Stored, HandedOut, Prefix

(* Nothing is left of a request that the backend is at when it stops, and  *)
(* nothing of the access tokens in a DB in memory.                         *)
LEMMA OwnCrash ==
    ASSUME TypeOK, Crash, NEW q \in Request, Own(q)
    PROVE  Own(q)'
<1>1. now' = now /\ store' = store /\ kind' = kind /\ form' = form /\ shown' = shown
  BY DEF Crash
<1>2. Kept(q) /\ got'[q] = got[q] => Kept(q)'
  <2>1. tokDb'[q] = tokDb[q] \/ (tokDb[q] # None /\ tokDb'[q] = None)
    BY DEF TypeOK, Tokens!TypeOK, Crash, Tokens!Restart
  <2>2. lost' = lost \cup {t \in Request : tokDb[t] # None /\ tokDb'[t] = None}
    BY DEF Crash
  <2>3. tokDb'[q] = tokDb[q] \/ q \in lost'
    BY <2>1, <2>2
  <2>4. q \in lost => q \in lost'
    BY <2>2
  <2> QED BY <1>1, <2>3, <2>4 DEF Kept
<1> USE DEF Own
<1>3. CASE q \in AtBackend
  <2>1. pc'[q] = "done" /\ got'[q] = Nothing
    BY <1>3 DEF Crash
  <2>2. \A p \in {"asession", "csession"} : store[p][q] = None
    BY <1>3 DEF Stored, AtBackend
  <2> QED BY <1>1, <2>1, <2>2 DEF Place, Expiry, Backed, Sent, Stored, HandedOut, Nothing
<1>4. CASE q \notin AtBackend
  <2>1. pc'[q] = pc[q] /\ got'[q] = got[q]
    BY <1>4 DEF Crash
  <2>2. Backed(q)'
    BY <1>1, <1>2, <2>1 DEF Backed, Answered
  <2> QED BY <1>1, <2>1, <2>2 DEF Place, Expiry, Sent, Stored, HandedOut, Prefix
<1> QED BY <1>3, <1>4

(***************************************************************************)
(* Steps of a request.                                                     *)
(***************************************************************************)
(* A request that fails is left with nothing of the backend.               *)
LEMMA OwnFails ==
    ASSUME TypeOK, NEW q \in Request, Own(q), NEW st \in {400, 500}, Fails(q, st), pc[q] # "done",
           \A p \in {"asession", "csession"} : store'[p][q] = store[p][q],
           kind' = kind
    PROVE  Own(q)'
<1>1. pc'[q] = "done" /\ got'[q] = Nothing
  BY DEF TypeOK, Fails, Ends, Goto
<1>2. \A p \in {"asession", "csession"} : store'[p][q] = None
  BY DEF Own, Stored
<1> QED BY <1>1, <1>2 DEF Own, Place, Expiry, Backed, Sent, Stored, HandedOut, Nothing

(* A request that comes in has nothing of a backend yet.                   *)
LEMMA OwnArrival ==
    ASSUME TypeOK, NEW r \in Request, Own(r), ReceivePage(r) \/ ReceiveCallback(r) \/ ReceiveApi(r)
    PROVE  Own(r)'
<1>1. /\ pc[r] = "idle" /\ got'[r] = got[r] /\ store' = store /\ shown' = shown
      /\ pc'[r] \in {"get", "exchange", "done"}
      /\ pc'[r] = "get" => form'[r] = "session"
      /\ pc'[r] = "exchange" => kind'[r] \in {"callback", "api"} /\ form'[r] # "session"
  <2> USE DEF TypeOK, Arrives, Ends, Goto, Reaches
  <2>1. CASE ReceivePage(r)
    BY <2>1 DEF ReceivePage
  <2>2. CASE ReceiveCallback(r)
    BY <2>2 DEF ReceiveCallback, Own, Place
  <2>3. CASE ReceiveApi(r)
    BY <2>3 DEF ReceiveApi
  <2> QED BY <2>1, <2>2, <2>3
<1>2. got'[r] = Nothing /\ shown'[r] = None
  BY <1>1 DEF Own, Place
<1>3. \A p \in {"asession", "csession"} : store'[p][r] = None
  BY <1>1 DEF Own, Stored
<1> QED BY <1>1, <1>2, <1>3 DEF Own, Place, Expiry, Backed, Sent, Stored, HandedOut, Nothing

(* The expiry is at most the told lifetime away.                           *)
LEMMA OwnExchange ==
    ASSUME TypeOK, NEW r \in Request, Own(r), Exchange(r)
    PROVE  Own(r)'
<1>1. PICK l \in TokLife : got' = [got EXCEPT ![r].life = l,
                           ![r].exp = IF kind[r] = "callback" /\ l = 0 THEN -Sec ELSE now + l]
  BY DEF Exchange
<1>2. l \in Nat /\ -Sec \in Int /\ now + l \in Int /\ now \in Nat /\ Sec \in Nat
  <2>1. now \in Nat
    BY DEF TypeOK
  <2> QED BY <2>1, TimeAssumption
<1>3. PICK e \in Int : /\ got' = [got EXCEPT ![r].life = l, ![r].exp = e]
                       /\ e <= now + l
                       /\ kind[r] = "api" => e = now + l
  <2>1. CASE kind[r] = "callback" /\ l = 0
    <3>1. got' = [got EXCEPT ![r].life = l, ![r].exp = -Sec] /\ kind[r] # "api"
      BY <1>1, <2>1
    <3>2. -Sec <= now + l
      BY <1>2
    <3> QED BY <1>2, <3>1, <3>2, Zenon
  <2>2. CASE ~(kind[r] = "callback" /\ l = 0)
    <3>1. got' = [got EXCEPT ![r].life = l, ![r].exp = now + l]
      BY <1>1, <2>2
    <3>2. now + l <= now + l
      BY <1>2
    <3> QED BY <1>2, <3>1, <3>2, Zenon
  <2> QED BY <2>1, <2>2
<1>4. got'[r] = [got[r] EXCEPT !.life = l, !.exp = e] /\ got[r] \in Got
  BY <1>2, <1>3, GotAccess, GotType
<1>5. /\ pc[r] = "exchange" /\ pc'[r] = "save"
      /\ now' = now /\ store' = store /\ kind' = kind /\ form' = form /\ shown' = shown
  BY DEF Exchange, Goto, TypeOK
<1>6. got'[r].life = l /\ got'[r].exp = e /\ got'[r].answer = got[r].answer /\ got'[r].cookie = got[r].cookie
  BY <1>4 DEF Got
<1>7. Expiry(r)'
  BY <1>2, <1>3, <1>5, <1>6 DEF Expiry
<1>8. got'[r].answer = None /\ got'[r].cookie = None
  BY <1>5, <1>6 DEF Own, Place, Nothing
<1>9. \A p \in {"asession", "csession"} : store'[p][r] = None
  BY <1>5 DEF Own, Stored
<1> QED BY <1>5, <1>7, <1>8, <1>9 DEF Own, Place, Backed, Sent, Stored, HandedOut

(* An access token is kept from its save on as long as the retention says. *)
LEMMA OwnSave ==
    ASSUME TypeOK, NEW r \in Request, Own(r), SaveToken(r)
    PROVE  Own(r)'
<1>1. /\ pc[r] = "save" /\ got[r] \in Got /\ now \in Nat
      /\ now' = now /\ lost' = lost /\ store' = store /\ kind' = kind /\ form' = form /\ shown' = shown
  BY DEF SaveToken, TypeOK
<1>2. CASE Tokens!Save(r, got[r].exp, KeptUntil(r)) /\ Goto(r, "answer") /\ UNCHANGED <<got, status>>
  <2>1. PICK late \in Tokens!Late :
           tokDb' = [tokDb EXCEPT ![r] = [exp |-> got[r].exp, until |-> KeptUntil(r) + late]]
    BY <1>2 DEF Tokens!Save
  <2>2. late \in Nat
    BY DEF Tokens!Late
  <2>3. kind[r] \in {"callback", "api"}
    BY <1>1 DEF Own, Place
  <2>4. got[r].exp \in Int /\ got[r].life \in Nat /\ TokDbExpIn \in Nat
    BY <1>1, TimeAssumption DEF Got
  <2>5. KeptUntil(r) \in Int /\ (got[r].life <= TokDbExpIn => got[r].exp <= KeptUntil(r))
    <3>1. CASE kind[r] = "callback"
      <4>1. KeptUntil(r) = now + TokDbExpIn
        BY <3>1 DEF KeptUntil
      <4>2. got[r].exp <= now + got[r].life
        BY <1>1 DEF Own, Expiry
      <4> QED BY <1>1, <2>4, <4>1, <4>2
    <3>2. CASE kind[r] = "api"
      <4>1. KeptUntil(r) = got[r].exp - got[r].life + TokDbExpIn
        BY <3>2 DEF KeptUntil
      <4> QED BY <2>4, <4>1
    <3> QED BY <2>3, <3>1, <3>2
  <2>6. tokDb'[r] = [exp |-> got[r].exp, until |-> KeptUntil(r) + late]
    BY <2>1 DEF TypeOK, Tokens!TypeOK
  <2>7. tokDb'[r] # None
    <3>1. tokDb'[r] \in [exp : Int, until : Int]
      BY <2>2, <2>4, <2>5, <2>6
    <3>2. KeptUntil(r) \in Nat
      BY <1>1, <2>3, <2>4 DEF KeptUntil, Own, Expiry
    <3>3. tokDb'[r] \in [exp : Int, until : Nat]
      BY <2>2, <2>4, <2>6, <3>2
    <3> QED BY <3>3, RecordAssumption
  <2>8. got' = got /\ pc'[r] = "answer"
    BY <1>2 DEF Goto, TypeOK
  <2>9. Kept(r)'
    BY <2>2, <2>4, <2>5, <2>6, <2>7, <2>8 DEF Kept
  <2>10. got[r].answer = None /\ got[r].cookie = None
    BY <1>1 DEF Own, Place
  <2>11. \A p \in {"asession", "csession"} : store'[p][r] = None
    BY <1>1 DEF Own, Stored
  <2> QED BY <1>1, <2>8, <2>9, <2>10, <2>11 DEF Own, Place, Expiry, Backed, Sent, Stored, HandedOut
<1>3. CASE Fails(r, 500) /\ UNCHANGED tokDb
  BY <1>1, <1>3, OwnFails
<1> QED BY <1>2, <1>3 DEF SaveToken

(* The answer names the saved access token and its expiry.                 *)
LEMMA OwnAnswer ==
    ASSUME TypeOK, NEW r \in Request, Own(r), Answer(r)
    PROVE  Own(r)'
<1>1. PICK u \in Users(r), c \in Cookies(r) :
         got' = [got EXCEPT ![r].answer = AnswerTo(r, u), ![r].cookie = c]
  BY DEF Answer
<1>2. /\ pc[r] = "answer" /\ pc'[r] = "front" /\ got[r] \in Got /\ now \in Nat
      /\ now' = now /\ lost' = lost /\ tokDb' = tokDb
      /\ store' = store /\ kind' = kind /\ form' = form /\ shown' = shown
  BY DEF Answer, Goto, TypeOK
<1>3. Floor(got[r].exp) \in Int /\ Floor(now + FsessExpIn) \in Int
  BY <1>2, FloorBounds, TimeAssumption DEF Got
<1>4. c \in Int \cup {None}
  BY <1>3 DEF Cookies
<1>5. AnswerTo(r, u) \in Headers
  BY <1>3 DEF AnswerTo, Users, Headers, User, Value
<1>6. got'[r] = [got[r] EXCEPT !.answer = AnswerTo(r, u), !.cookie = c]
  <2> HIDE DEF AnswerTo
  <2> QED BY <1>1, <1>4, <1>5, GotAnswer, GotType
<1>7. /\ got'[r].exp = got[r].exp /\ got'[r].life = got[r].life
      /\ got'[r].answer = AnswerTo(r, u) /\ got'[r].cookie = c
  BY <1>2, <1>6 DEF Got
<1>8. AnswerTo(r, u) # None
  BY <1>5, RecordAssumption
<1>9. kind[r] \in {"callback", "api"}
  BY <1>2 DEF Own, Place
<1>10. Answered(r)'
  <2>1. kind[r] = "callback" => u = None
    BY DEF Users
  <2> QED BY <1>2, <1>7, <2>1 DEF Answered, AnswerTo
<1>11. Kept(r)'
  <2>1. Kept(r)
    BY <1>2 DEF Own, Backed
  <2> QED BY <1>2, <1>7, <2>1 DEF Kept
<1>12. kind[r] = "api" /\ c # None => c = Floor(got[r].exp)
  BY DEF Cookies
<1>13. Backed(r)'
  BY <1>2, <1>7, <1>8, <1>10, <1>11, <1>12 DEF Backed
<1>14. \A p \in {"asession", "csession"} : store'[p][r] = None
  BY <1>2 DEF Own, Stored
<1>15. Place(r)'
  BY <1>2 DEF Own, Place
<1> QED BY <1>2, <1>13, <1>14, <1>15 DEF Own, Expiry, Sent, Stored, HandedOut

(* The lifetime is counted from the second the clock is in.                *)
LEMMA OwnFront ==
    ASSUME TypeOK, NEW r \in Request, Own(r), Front(r)
    PROVE  Own(r)'
<1>1. /\ pc[r] = "front" /\ got[r] \in Got /\ now \in Nat
      /\ now' = now /\ lost' = lost /\ tokDb' = tokDb
      /\ store' = store /\ kind' = kind /\ form' = form
  BY DEF Front, TypeOK
<1>2. \A p \in {"asession", "csession"} : store'[p][r] = None
  BY <1>1 DEF Own, Stored
<1>3. /\ kind[r] \in {"callback", "api"} /\ form[r] # "session" /\ shown[r] = None
      /\ Backed(r) /\ got[r].answer # None /\ Kept(r) /\ Answered(r)
  BY <1>1 DEF Own, Place, Backed
<1>4. CASE /\ Savable(r) /\ Goto(r, "set") /\ UNCHANGED <<status, shown>>
           /\ got' = [got EXCEPT ![r].expIn = Remaining(r), ![r].sentBy = now + Lag]
  <2>1. got[r].cookie \in Int /\ Remaining(r) \in Nat /\ now + Lag \in Nat /\ Lag \in Nat /\ Sec \in Nat
    BY <1>1, <1>4, FloorBounds, TimeAssumption DEF Savable, Remaining, Got
  <2>2. got'[r] = [got[r] EXCEPT !.expIn = Remaining(r), !.sentBy = now + Lag]
    <3> HIDE DEF Remaining
    <3> QED BY <1>4, <2>1, GotLifetime, GotType
  <2>3. /\ got'[r].exp = got[r].exp /\ got'[r].life = got[r].life
        /\ got'[r].answer = got[r].answer /\ got'[r].cookie = got[r].cookie
        /\ got'[r].expIn = Remaining(r) /\ got'[r].sentBy = now + Lag
    BY <1>1, <2>2 DEF Got
  <2>4. pc'[r] = "set" /\ shown' = shown
    BY <1>4 DEF Goto, TypeOK
  <2>5. Backed(r)'
    BY <1>1, <1>3, <2>3, <2>4 DEF Backed, Answered, Kept
  <2>6. got[r].cookie # None
    BY <1>4 DEF Savable
  <2>7. Floor(now) \in Int /\ Floor(now) <= now /\ now < Floor(now) + Sec
    BY <1>1, FloorBounds
  <2>8. got[r].cookie <= now + Remaining(r)
    BY <1>1, <2>1, <2>7 DEF Remaining
  <2>9. kind[r] = "api" => now + Lag + Remaining(r) < Floor(got[r].exp) + Lag + Sec
    <3> SUFFICES ASSUME kind[r] = "api"
                 PROVE  now + Lag + Remaining(r) < Floor(got[r].exp) + Lag + Sec
      OBVIOUS
    <3>1. Floor(got[r].exp) = got[r].cookie
      BY <1>3, <2>6 DEF Backed
    <3> QED BY <1>1, <2>1, <2>7, <3>1 DEF Remaining
  <2>10. Sent(r)'
    BY <1>1, <2>3, <2>4, <2>6, <2>8, <2>9 DEF Sent
  <2>11. Place(r)'
    BY <1>1, <1>3, <2>4 DEF Place
  <2> QED BY <1>1, <1>2, <2>4, <2>5, <2>10, <2>11 DEF Own, Expiry, Stored, HandedOut
<1>5. CASE Fails(r, 400)
  BY <1>1, <1>5, OwnFails
<1>6. CASE got' = [got EXCEPT ![r].cookie = None] /\ Ends(r, 200)
  <2>1. /\ got'[r].exp = got[r].exp /\ got'[r].life = got[r].life
        /\ got'[r].answer = got[r].answer /\ got'[r].cookie = None
    BY <1>1, <1>6 DEF Got, TypeOK
  <2>2. pc'[r] = "done"
    BY <1>6 DEF Ends, Goto, TypeOK
  <2>3. Backed(r)'
    BY <1>1, <1>3, <2>1, <2>2 DEF Backed, Answered, Kept
  <2> QED BY <1>1, <1>2, <2>1, <2>2, <2>3 DEF Own, Place, Expiry, Sent, Stored, HandedOut
<1> QED BY <1>4, <1>5, <1>6 DEF Front

(* The session saved stands for the answer, as long as its cookie says.    *)
LEMMA SavedSession ==
    ASSUME TypeOK, NEW r \in Request, Own(r), pc[r] = "set", now <= got[r].sentBy,
           NEW p \in {"asession", "csession"}, SessionSet(r)[p][r] # None
    PROVE  LET s == SessionSet(r)[p][r]
           IN  /\ p = Prefix(r) /\ kind[r] = IF p = "asession" THEN "callback" ELSE "api"
               /\ now <= s.until
               /\ got[r].cookie <= s.until
               /\ Replay(p, s.value) = got[r].answer
               /\ p = "csession" => s.until < s.value.user.at_exp + Lag + Sec
<1>1. store[p][r] = None
  BY DEF Own, Stored
<1>2. p = Prefix(r)
  BY <1>1 DEF SessionSet, Prefix, TypeOK
<1>3. kind[r] \in {"callback", "api"}
  BY DEF Own, Place
<1>4. SessionSet(r)[p][r] =
         [value |-> IF kind[r] = "callback" THEN got[r].answer.user ELSE got[r].answer,
          until |-> now + got[r].expIn]
  BY <1>2 DEF SessionSet, CoopSession, TypeOK
<1>5. now \in Nat /\ got[r].expIn \in Nat /\ got[r].sentBy \in Nat /\ got[r].exp \in Int /\ Lag \in Nat /\ Sec \in Nat
  BY TimeAssumption DEF TypeOK, Got
<1>6. /\ got[r].cookie # None /\ got[r].cookie <= now + got[r].expIn
      /\ kind[r] = "api" => got[r].sentBy + got[r].expIn < Floor(got[r].exp) + Lag + Sec
  BY DEF Own, Sent
<1>7. Answered(r)
  BY DEF Own, Backed
<1>8. CASE kind[r] = "callback"
  <2>1. p = "asession"
    BY <1>2, <1>8 DEF Prefix
  <2>2. Replay(p, SessionSet(r)[p][r].value) = got[r].answer
    BY <1>4, <1>7, <1>8, <2>1 DEF Replay, Answered
  <2> QED BY <1>2, <1>4, <1>5, <1>6, <1>8, <2>1, <2>2
<1>9. CASE kind[r] = "api"
  <2>1. p = "csession"
    BY <1>2, <1>9 DEF Prefix
  <2>2. Replay(p, SessionSet(r)[p][r].value) = got[r].answer
    BY <1>4, <1>9, <2>1 DEF Replay
  <2>3. Floor(got[r].exp) \in Int
    BY <1>5, FloorBounds
  <2>4. got[r].answer.user.at_exp = Floor(got[r].exp)
    BY <1>7 DEF Answered
  <2>5. now + got[r].expIn < Floor(got[r].exp) + Lag + Sec
    BY <1>5, <1>6, <1>9, <2>3
  <2> QED BY <1>2, <1>4, <1>5, <1>6, <1>9, <2>1, <2>2, <2>4, <2>5
<1> QED BY <1>3, <1>8, <1>9

(* A session is handed out only after it was saved.                        *)
LEMMA OwnSet ==
    ASSUME TypeOK, NEW r \in Request, Own(r), SetSession(r)
    PROVE  Own(r)'
<1>1. /\ pc[r] = "set" /\ got[r] \in Got /\ now \in Nat
      /\ now' = now /\ lost' = lost /\ tokDb' = tokDb /\ kind' = kind /\ form' = form
  BY DEF SetSession, TypeOK
<1>2. \A p \in {"asession", "csession"} : store[p][r] = None
  BY <1>1 DEF Own, Stored
<1>3. /\ kind[r] \in {"callback", "api"} /\ form[r] # "session"
      /\ Backed(r) /\ got[r].answer # None /\ Kept(r) /\ Answered(r) /\ got[r].cookie # None
  BY <1>1 DEF Own, Place, Backed, Sent
<1>4. CASE now <= got[r].sentBy /\ store' = SessionSet(r) /\ Succeeds(r)
  <2>1. got' = [got EXCEPT ![r].expIn = 0, ![r].sentBy = 0]
    BY <1>4 DEF Succeeds
  <2>2. got'[r] = [got[r] EXCEPT !.expIn = 0, !.sentBy = 0]
    BY <2>1, GotLifetime, GotType
  <2>3. /\ got'[r].exp = got[r].exp /\ got'[r].life = got[r].life
        /\ got'[r].answer = got[r].answer /\ got'[r].cookie = got[r].cookie
    BY <1>1, <2>2 DEF Got
  <2>4. pc'[r] = "done"
    BY <1>4 DEF Succeeds, Ends, Goto, TypeOK
  <2>5. Place(r)' /\ Expiry(r)' /\ Sent(r)'
    BY <2>4 DEF Place, Expiry, Sent
  <2>6. Backed(r)'
    BY <1>1, <1>3, <2>3, <2>4 DEF Backed, Answered, Kept
  <2>7. Stored(r)'
    BY <1>1, <1>4, <2>3, <2>4, SavedSession DEF Stored
  <2>8. HandedOut(r)'
    <3>1. Prefix(r) \in {"asession", "csession"} /\ Prefix(r)' = Prefix(r)
      BY <1>1 DEF Prefix
    <3>2. SessionSet(r)[Prefix(r)][r] # None
      <4>1. SessionSet(r)[Prefix(r)][r] =
               [value |-> IF kind[r] = "callback" THEN got[r].answer.user ELSE CoopSession(got[r].answer),
                until |-> now + got[r].expIn]
        BY <3>1 DEF SessionSet, TypeOK
      <4>2. got[r].answer \in Headers /\ now + got[r].expIn \in Nat
        BY <1>1, <1>3 DEF Got
      <4>3. SessionSet(r)[Prefix(r)][r] \in Session(Prefix(r))
        <5>1. CASE kind[r] = "callback"
          <6>1. Prefix(r) = "asession" /\ got[r].answer.user \in User
            BY <4>2, <5>1 DEF Prefix, Headers
          <6>2. SessionSet(r)[Prefix(r)][r] = [value |-> got[r].answer.user, until |-> now + got[r].expIn]
            BY <4>1, <5>1
          <6> QED BY <4>2, <6>1, <6>2 DEF Session
        <5>2. CASE kind[r] = "api"
          <6>1. Prefix(r) = "csession"
            BY <5>2 DEF Prefix
          <6>2. SessionSet(r)[Prefix(r)][r] = [value |-> got[r].answer, until |-> now + got[r].expIn]
            BY <4>1, <5>2 DEF CoopSession
          <6> QED BY <4>2, <6>1, <6>2 DEF Session
        <5> QED BY <1>3, <5>1, <5>2
      <4> QED BY <3>1, <4>3, RecordAssumption
    <3>3. got[r].cookie <= SessionSet(r)[Prefix(r)][r].until
      BY <1>1, <1>4, <3>1, <3>2, SavedSession
    <3> QED BY <1>4, <2>3, <3>1, <3>2, <3>3 DEF HandedOut
  <2> QED BY <2>5, <2>6, <2>7, <2>8 DEF Own
<1>5. CASE /\ store' \in {store} \cup (IF now <= got[r].sentBy THEN {SessionSet(r)} ELSE {})
           /\ NotSaved(r)
  <2>1. pc'[r] = "done" /\ got'[r] = Nothing
    BY <1>5 DEF NotSaved, Fails, Ends, Goto, TypeOK
  <2>2. Place(r)' /\ Expiry(r)' /\ Backed(r)' /\ Sent(r)' /\ HandedOut(r)'
    BY <2>1 DEF Place, Expiry, Backed, Sent, HandedOut, Nothing
  <2>3. store' = store \/ (store' = SessionSet(r) /\ now <= got[r].sentBy)
    BY <1>5
  <2>4. Stored(r)'
    BY <1>1, <1>2, <2>1, <2>3, SavedSession DEF Stored, Nothing
  <2> QED BY <2>2, <2>4 DEF Own
<1> QED BY <1>4, <1>5 DEF SetSession

(* Looking a session up makes and loses none.                              *)
LEMMA OwnGet ==
    ASSUME TypeOK, NEW r \in Request, Own(r), GetSession(r)
    PROVE  Own(r)'
<1>1. pc[r] = "get" /\ pc'[r] = "done" /\ got' = got /\ store' = store
  BY DEF GetSession, Ends, Goto, TypeOK
<1>2. got'[r] = Nothing
  BY <1>1 DEF Own, Place
<1>3. \A p \in {"asession", "csession"} : store'[p][r] = None
  BY <1>1 DEF Own, Stored
<1> QED BY <1>1, <1>2, <1>3 DEF Own, Place, Expiry, Backed, Sent, Stored, HandedOut, Nothing

(* Every step keeps what is known of each request.                         *)
LEMMA OwnStep ==
    ASSUME TypeOK, [Next]_vars, NEW q \in Request, Own(q)
    PROVE  Own(q)'
<1>1. ASSUME Step(q) PROVE Own(q)'
  <2>1. CASE BackendFails(q)
    BY <2>1, OwnFails DEF BackendFails, AtBackend
  <2> QED BY <1>1, <2>1, OwnArrival, OwnExchange, OwnSave, OwnAnswer, OwnFront, OwnSet, OwnGet DEF Step
<1>2. ASSUME NEW r \in Request \ {q}, Step(r) PROVE Own(q)'
  BY <1>2, Elsewhere, SameOwn
<1>3. ASSUME UNCHANGED vars PROVE Own(q)'
  BY <1>3, SameOwn DEF vars, reqVars, Same
<1> QED BY <1>1, <1>2, <1>3, NextIs, OwnTick, OwnCrash, OwnForget

(***************************************************************************)
(* What requests know of each other.                                       *)
(***************************************************************************)
(* A session once handed out is never taken back.                          *)
LEMMA HandedStays ==
    ASSUME TypeOK, [Next]_vars, NEW k
    PROVE  Handed(k) \subseteq Handed(k)'
BY DoneStays DEF Handed, Final

(* A declared session is one that the same frontend handed out.            *)
LEMMA DeclaredStep ==
    ASSUME TypeOK, [Next]_vars, NEW q \in Request, Declared(q), Own(q)
    PROVE  Declared(q)'
<1>1. Handed("callback") \subseteq Handed("callback")' /\ Handed("api") \subseteq Handed("api")'
  BY HandedStays
<1>2. ASSUME kind'[q] = kind[q], form'[q] = form[q], sess'[q] = sess[q] PROVE Declared(q)'
  BY <1>1, <1>2 DEF Declared
<1>3. CASE ReceivePage(q)
  <2>1. pc[q] = "idle" /\ kind'[q] = "page" /\ form[q] = "none"
    BY <1>3 DEF ReceivePage, Arrives, Own, Place, TypeOK
  <2>2. form'[q] = "session" => sess'[q] \in Handed("callback")
    BY <1>3, <2>1 DEF ReceivePage, TypeOK
  <2> QED BY <1>1, <2>1, <2>2 DEF Declared
<1>4. CASE ReceiveApi(q)
  <2>1. pc[q] = "idle" /\ kind'[q] = "api" /\ form[q] = "none"
    BY <1>4 DEF ReceiveApi, Arrives, Own, Place, TypeOK
  <2>2. form'[q] = "session" => sess'[q] \in Handed("api")
    BY <1>4, <2>1 DEF ReceiveApi, TypeOK
  <2> QED BY <1>1, <2>1, <2>2 DEF Declared
<1>5. CASE ReceiveCallback(q)
  <2>1. form'[q] = "none"
    BY <1>5 DEF ReceiveCallback, Arrives, Own, Place
  <2> QED BY <2>1 DEF Declared
<1>6. CASE Exchange(q) \/ SaveToken(q) \/ Answer(q) \/ BackendFails(q)
           \/ Front(q) \/ SetSession(q) \/ GetSession(q)
  BY <1>2, <1>6 DEF Exchange, SaveToken, Answer, BackendFails, Front, SetSession, GetSession
<1>7. ASSUME NEW r \in Request \ {q}, Step(r) PROVE Declared(q)'
  BY <1>2, <1>7, Elsewhere DEF Same
<1>8. CASE Tick \/ Crash \/ (\E t \in Request : GetByTag(t)) \/ UNCHANGED vars
  BY <1>2, <1>8 DEF Tick, Crash, GetByTag, vars, reqVars
<1> QED BY <1>3, <1>4, <1>5, <1>6, <1>7, <1>8, NextIs DEF Step

(* The headers shown are those answered when the session was made.         *)
LEMMA ShownStep ==
    ASSUME Inv, [Next]_vars, NEW q \in Request
    PROVE  Shown(q)'
<1>0. TypeOK /\ Own(q) /\ Declared(q) /\ Shown(q)
  BY DEF Inv
<1>1. ASSUME pc[q] = "done" PROVE Shown(q)'
  <2>1. Final(q)
    BY <1>0, <1>1, DoneStays
  <2>2. form[q] = "session" => got'[sess[q]] = got[sess[q]]
    <3> SUFFICES ASSUME form[q] = "session" PROVE got'[sess[q]] = got[sess[q]]
      OBVIOUS
    <3>1. sess[q] \in Request /\ pc[sess[q]] = "done"
      BY <1>0 DEF Declared, Handed
    <3> QED BY <1>0, <3>1, DoneStays DEF Final
  <2> QED BY <1>0, <2>1, <2>2 DEF Shown, Final
<1>2. ASSUME pc[q] # "done", shown'[q] = shown[q] PROVE Shown(q)'
  BY <1>0, <1>2 DEF Shown
<1>3. CASE Front(q)
  <2>1. pc[q] = "front" /\ form[q] # "session" /\ shown[q] = None /\ form' = form
    BY <1>0, <1>3 DEF Front, Own, Place
  <2>2. CASE shown' = shown
    BY <1>2, <2>1, <2>2
  <2>3. CASE /\ \E h \in PassedOn(q, got[q].answer) : shown' = [shown EXCEPT ![q] = h]
             /\ got' = [got EXCEPT ![q].cookie = None] /\ Ends(q, 200)
    <3>1. PICK h \in PassedOn(q, got[q].answer) : shown' = [shown EXCEPT ![q] = h]
      BY <2>3
    <3>2. shown'[q] = h /\ pc'[q] = "done" /\ got'[q].answer = got[q].answer
      BY <1>0, <2>3, <3>1 DEF Ends, Goto, TypeOK, Got
    <3> QED BY <2>1, <3>2 DEF Shown
  <2> QED BY <1>3, <2>2, <2>3 DEF Front
<1>4. CASE SetSession(q)
  <2>1. pc[q] = "set" /\ form[q] # "session" /\ shown[q] = None /\ form' = form
    BY <1>0, <1>4 DEF SetSession, Own, Place
  <2>2. CASE shown' = shown
    BY <1>2, <2>1, <2>2
  <2>3. CASE Succeeds(q) /\ \E h \in PassedOn(q, got[q].answer) : shown' = [shown EXCEPT ![q] = h]
    <3>1. got' = [got EXCEPT ![q].expIn = 0, ![q].sentBy = 0] /\ pc'[q] = "done"
      BY <1>0, <2>3 DEF Succeeds, Ends, Goto, TypeOK
    <3>2. got'[q] = [got[q] EXCEPT !.expIn = 0, !.sentBy = 0] /\ got[q] \in Got
      BY <1>0, <3>1, GotLifetime, GotType
    <3>3. got'[q].answer = got[q].answer
      BY <3>2 DEF Got
    <3>4. shown'[q] \in PassedOn(q, got[q].answer)
      BY <1>0, <2>3 DEF TypeOK
    <3> QED BY <2>1, <3>1, <3>3, <3>4 DEF Shown
  <2> QED BY <1>4, <2>2, <2>3 DEF SetSession, Succeeds, NotSaved
<1>5. CASE GetSession(q)
  <2> DEFINE p == IF kind[q] = "page" THEN "asession" ELSE "csession"
             s == sess[q]
  <2>1. pc[q] = "get" /\ pc'[q] = "done" /\ form[q] = "session" /\ form' = form /\ sess' = sess /\ got' = got
    BY <1>0, <1>5 DEF GetSession, Ends, Goto, TypeOK, Own, Place
  <2>2. CASE shown' = shown
    BY <1>2, <2>1, <2>2
  <2>3. CASE /\ store[p][s] # None
             /\ \E h \in PassedOn(q, Replay(p, store[p][s].value)) : shown' = [shown EXCEPT ![q] = h]
    <3>1. s \in Request /\ got[s].cookie # None
      BY <1>0, <2>1 DEF Declared, Handed
    <3>2. Own(s) /\ p \in {"asession", "csession"}
      BY <3>1 DEF Inv
    <3>3. Replay(p, store[p][s].value) = got[s].answer
      BY <2>3, <3>1, <3>2 DEF Own, Stored
    <3>4. shown'[q] \in PassedOn(q, got[s].answer)
      BY <1>0, <2>3, <3>3 DEF TypeOK
    <3> QED BY <2>1, <3>4 DEF Shown
  <2> QED BY <1>5, <2>2, <2>3 DEF GetSession
<1>6. ASSUME ReceivePage(q) \/ ReceiveCallback(q) \/ ReceiveApi(q) \/ Exchange(q)
             \/ SaveToken(q) \/ Answer(q) \/ BackendFails(q)
      PROVE  Shown(q)'
  <2>1. shown'[q] = shown[q]
    BY <1>6 DEF ReceivePage, ReceiveCallback, ReceiveApi, Exchange, SaveToken, Answer, BackendFails
  <2>2. Step(q)
    BY <1>6 DEF Step
  <2> QED BY <1>2, <2>1, <2>2, NotDone
<1>7. ASSUME NEW r \in Request \ {q}, Step(r) PROVE Shown(q)'
  BY <1>0, <1>1, <1>2, <1>7, Elsewhere DEF Same
<1>8. CASE Tick \/ Crash \/ (\E t \in Request : GetByTag(t)) \/ UNCHANGED vars
  BY <1>1, <1>2, <1>8 DEF Tick, Crash, GetByTag, vars, reqVars
<1> QED BY <1>3, <1>4, <1>5, <1>6, <1>7, <1>8, NextIs DEF Step

(***************************************************************************)
(* The invariant holds.                                                    *)
(***************************************************************************)
(* The invariant holds at the start.                                       *)
LEMMA InitInv == Init => Inv
<1> SUFFICES ASSUME Init PROVE Inv
  OBVIOUS
<1>1. ASSUME NEW r \in Request PROVE Own(r) /\ Declared(r) /\ Shown(r)
  <2>1. /\ pc[r] = "idle" /\ form[r] = "none" /\ shown[r] = None /\ got[r] = Nothing
        /\ \A p \in {"asession", "csession"} : store[p][r] = None
    BY DEF Init
  <2> QED BY <2>1 DEF Own, Place, Expiry, Backed, Sent, Stored, HandedOut, Nothing, Declared, Shown
<1> QED BY <1>1, TypeInit DEF Inv

(* Every step keeps the invariant.                                         *)
LEMMA InvStep == Inv /\ [Next]_vars => Inv'
BY TypeStep, OwnStep, DeclaredStep, ShownStep DEF Inv

(* So it always holds.                                                     *)
LEMMA Invariance == Spec => []Inv
BY InitInv, InvStep, PTL DEF Spec

(* Every variable keeps its type, the ends of sessions and of retentions   *)
(* their sign.                                                             *)
THEOREM TypeCorrect == Spec => []TypeOK
<1>1. Inv => TypeOK
  BY DEF Inv
<1> QED BY <1>1, Invariance, PTL

(* Whoever is passed on to a page or an API is passed on with the headers  *)
(* that the backend answered for the session or the codes declared, and    *)
(* with its own where the backend answered none.                           *)
THEOREM PassedOnAsAnswered == Spec => []ShownAsAnswered
<1>1. Inv => ShownAsAnswered
  BY DEF Inv, Shown, ShownAsAnswered, PassedOn, HeaderOf
<1> QED BY <1>1, Invariance, PTL

(* What the headers of a session in redis say, for the proofs below.       *)
LEMMA UserOfSession ==
    ASSUME Inv, NEW r \in Request, got[r].cookie # None, store[Prefix(r)][r] # None
    PROVE  /\ UserOf(r) = [of |-> r, at_tag |-> r, at_exp |-> Floor(got[r].exp)]
           /\ Kept(r)
<1>1. Own(r) /\ Prefix(r) \in {"asession", "csession"}
  BY DEF Inv, Prefix
<1>2. /\ kind[r] = IF Prefix(r) = "asession" THEN "callback" ELSE "api"
      /\ Replay(Prefix(r), store[Prefix(r)][r].value) = got[r].answer
      /\ Answered(r) /\ Kept(r)
  BY <1>1 DEF Own, Stored, Backed
<1>3. UserOf(r) = got[r].answer.user
  BY <1>1, <1>2 DEF UserOf, Replay, Prefix
<1> QED BY <1>2, <1>3 DEF Answered

(* While at_exp of a session that a client holds has not come, at_tag is   *)
(* in the token DB, for tokens that do not outlive the retention.          *)
THEOREM GoodTag == Spec => []GoodTagResolves
<1>1. ASSUME Inv PROVE GoodTagResolves
  <2> SUFFICES ASSUME NEW r \in Handed("callback") \cup Handed("api"), store[Prefix(r)][r] # None,
                      now < UserOf(r).at_exp, got[UserOf(r).at_tag].life <= TokDbExpIn,
                      UserOf(r).at_tag \notin lost
               PROVE  Tokens!Found(UserOf(r).at_tag)
    BY DEF GoodTagResolves
  <2>1. r \in Request /\ got[r].cookie # None
    BY DEF Handed
  <2>2. UserOf(r).at_tag = r /\ UserOf(r).at_exp = Floor(got[r].exp) /\ Kept(r)
    BY <1>1, <2>1, UserOfSession
  <2>3. now \in Nat /\ got[r].exp \in Int /\ (tokDb[r] # None => tokDb[r].until \in Nat)
    BY <1>1, <2>1 DEF Inv, TypeOK, Tokens!TypeOK, Got
  <2>4. Floor(got[r].exp) \in Int /\ Floor(got[r].exp) <= got[r].exp
    BY <2>3, FloorBounds
  <2>5. now < got[r].exp
    BY <2>2, <2>3, <2>4
  <2>6. tokDb[r] # None /\ got[r].exp <= tokDb[r].until
    BY <2>2, <2>3, <2>5 DEF Kept
  <2> QED BY <2>2, <2>3, <2>5, <2>6 DEF Tokens!Found, Tokens!Outdated
<1> QED BY <1>1, Invariance, PTL

(* The session of a cooperation outlives its access token by less than a   *)
(* second and the way to redis.                                            *)
THEOREM EndsWithToken == Spec => []SessionEndsWithToken
<1>1. ASSUME Inv PROVE SessionEndsWithToken
  <2> SUFFICES ASSUME NEW r \in Request, store["csession"][r] # None
               PROVE  now < UserOf(r).at_exp + Lag + Sec
    BY DEF SessionEndsWithToken
  <2>1. /\ kind[r] = "api" /\ now <= store["csession"][r].until
        /\ store["csession"][r].until < store["csession"][r].value.user.at_exp + Lag + Sec
    BY <1>1 DEF Inv, Own, Stored
  <2>2. UserOf(r) = store["csession"][r].value.user
    BY <2>1 DEF UserOf, Prefix
  <2>3. store["csession"][r] \in Session("csession")
    BY <1>1 DEF Inv, TypeOK
  <2>4. now \in Nat /\ store["csession"][r].until \in Nat /\ store["csession"][r].value.user.at_exp \in Int
    BY <1>1, <2>3 DEF Inv, TypeOK, Session, Headers, User
  <2> QED BY <2>1, <2>2, <2>4, TimeAssumption
<1> QED BY <1>1, Invariance, PTL

(* As long as the cookie that a client got has not expired, redis has the  *)
(* session that it names.                                                  *)
THEOREM CookieNames == Spec => []CookieNamesSession
<1>1. ASSUME Inv PROVE CookieNamesSession
  <2> SUFFICES ASSUME NEW r \in Handed("callback") \cup Handed("api"), now <= got[r].cookie
               PROVE  store[Prefix(r)][r] # None
    BY DEF CookieNamesSession
  <2>1. r \in Request /\ pc[r] = "done" /\ got[r].cookie # None
    BY DEF Handed
  <2>2. now \in Nat /\ got[r].cookie \in Int
    BY <1>1, <2>1 DEF Inv, TypeOK, Got
  <2> QED BY <1>1, <2>1, <2>2 DEF Inv, Own, HandedOut
<1> QED BY <1>1, Invariance, PTL
=============================================================================
