------------------------ MODULE AuthPageOriginProofs ------------------------
(***************************************************************************)
(* More proofs about the user authentication page: where sessions, codes,  *)
(* ID tokens and access tokens come from, and what follows for the users   *)
(* that are signed in with them.  Cookies, states, nonces, codes and       *)
(* issuers of different authentications may meet in one callback; the      *)
(* invariant says at which place of the handler they are known to belong   *)
(* together.                                                               *)
(***************************************************************************)
EXTENDS AuthPageProofs

(***************************************************************************)
(* What a session and a code are made of.                                  *)
(***************************************************************************)
(* The call of HandleAuth is over, and its data stay as they are.          *)
Over(a) == authPc[a] \in {"redirected", "failed"}

(* The session is that of authentication a and says what its redirect says.*)
MadeFor(e, a) ==
    /\ e.stat = a /\ e.nonc = a
    /\ e.idp = authIdp[a]
    /\ e.ta = Location(a).ta /\ e.redi = Location(a).redi

SessionOrigin ==
    \A a \in Auth : sessDb[a] # None => Over(a) /\ MadeFor(sessDb[a], a)

BoundOrigin ==
    \A a \in Auth :
        /\ authPc[a] \in {"idle", "search"} => authIdp[a] = None
        /\ authIdp[a] # None => authReq[a].uri.ep = authIdp[a]

(* An ID token is from the IdP of its login, unless IdPs get that wrong.   *)
FromIdp(t, i) ==
    /\ "iss" \notin Fault => t.iss = i
    /\ "sign" \notin Fault => t.sign = i

LoginOrigin ==
    \A c \in Code : login[c] # None =>
        /\ Location(login[c].auth).ep \in {login[c].idp, Selector}
        /\ login[c].idTok # None => FromIdp(login[c].idTok, login[c].idp)

(***************************************************************************)
(* What a callback has established where it is.                            *)
(***************************************************************************)
(* The call is at one of the places, or has signed its user in.            *)
Past(r, places) == pc[r] \in places \/ status[r] = 302

CopyOf(r) ==
    Holds(r) => Over(req[r].sessId) /\ MadeFor(sess[r], req[r].sessId) /\ sess[r].inv

SentAs(r) ==
    pc[r] # "idle" /\ req[r].code # None =>
        /\ req[r].stat = login[req[r].code].auth
        /\ req[r].idTok = login[req[r].code].idTok

StateCompared(r) ==
    Past(r, {"resolve", "token", "save", "verify", "account"}) =>
        req[r].code # None /\ req[r].stat = sess[r].stat

Resolved(r) ==
    Past(r, {"token", "save", "verify", "account"}) =>
        IF sess[r].idp # None THEN idp[r] = sess[r].idp
        ELSE req[r].idTok # None /\ idp[r] = req[r].idTok.iss /\ FrontTokenValid(r)

(* The IdP had issued the code; whatever tokens it answers with.           *)
Answered(r) ==
    Past(r, {"save", "verify", "account"}) /\ resp[r].tok # None =>
        /\ login[req[r].code].idp = idp[r]
        /\ resp[r].tok \in Code /\ login[resp[r].tok] # None
        /\ "tok" \notin Fault => resp[r].tok = req[r].code
        /\ AtHash /\ "hash" \notin Fault /\ resp[r].idTok # None =>
               resp[r].idTok.hash = req[r].code

Kept(r) ==
    Past(r, {"verify", "account"}) =>
        resp[r].tok # None /\ (Durable => tokDb[r] = NewToken(r))

Verified(r) == Past(r, {"account"}) => BackTokenValid(r)

Described(r) == status[r] = 302 => user[r] \subseteq Merged(r, {login[resp[r].tok].auth})

CallOrigin(r) ==
    /\ CopyOf(r) /\ SentAs(r) /\ StateCompared(r) /\ Resolved(r)
    /\ Answered(r) /\ Kept(r) /\ Verified(r) /\ Described(r)

Origin ==
    /\ SessionOrigin /\ BoundOrigin /\ LoginOrigin
    /\ \A r \in Callback : CallOrigin(r)

(***************************************************************************)
(* What steps leave alone.                                                 *)
(***************************************************************************)
(* A code keeps its login and a finished call of HandleAuth its data.      *)
LEMMA KnownStays ==
    ASSUME TypeInv, [Next]_vars
    PROVE  /\ \A c \in Code : login[c] # None => login'[c] = login[c]
           /\ \A a \in Auth : Over(a) =>
                  Over(a)' /\ authReq'[a] = authReq[a] /\ authIdp'[a] = authIdp[a]
<1> USE DEF Over
<1>1. /\ authPc \in [Auth -> {"idle", "search", "save", "redirected", "failed"}]
      /\ authReq \in [Auth -> AuthRequest \cup {None}]
      /\ authIdp \in [Auth -> Idp \cup {None}]
      /\ login \in [Code -> Login \cup {None}]
  BY DEF TypeInv, TypeOK
<1>2. ASSUME NEW a \in Auth, HandleAuth(a)
      PROVE  /\ UNCHANGED login
             /\ \A x \in Auth : Over(x) =>
                    Over(x)' /\ authReq'[x] = authReq[x] /\ authIdp'[x] = authIdp[x]
  BY <1>1, <1>2 DEF HandleAuth, ReceiveAuth, AuthSearch, AuthSave, AuthGoto, idpVars
<1>3. ASSUME NEW r \in Callback, HandleCallback(r) PROVE UNCHANGED <<authVars, login>>
  BY <1>3 DEF HandleCallback, CbGet, CbReplace, CbCheck, CbResolve, IdpToken, CbSaveToken,
     CbVerify, CbAccount, idpVars
<1>4. ASSUME NEW a \in Auth, NEW i \in Idp, NEW c \in Code, Authorize(a, i, c)
      PROVE  UNCHANGED authVars /\ \A d \in Code : login[d] # None => login'[d] = login[d]
  <2>1. \E l : login[c] = None /\ login' = [login EXCEPT ![c] = l]
    BY <1>4, Zenon DEF Authorize
  <2> QED
    BY <1>1, <1>4, <2>1 DEF Authorize
<1>5. ASSUME Outside, \A a \in Auth, i \in Idp, c \in Code : ~Authorize(a, i, c), ~Crash
      PROVE  UNCHANGED <<authVars, login>>
  BY <1>5 DEF Outside, SendCallback, SendDenied, Send, SyncIdp, Expire, idpVars
<1>6. CASE Crash
  BY <1>1, <1>6 DEF Crash, authInFlight, idpVars
<1>7. CASE UNCHANGED vars
  BY <1>7 DEF vars, authVars, idpVars
<1> QED
  BY <1>2, <1>3, <1>4, <1>5, <1>6, <1>7 DEF Next, authVars

(* A step of a callback leaves the others as they are.                     *)
LEMMA CbElsewhere ==
    ASSUME TypeInv, NEW r \in Callback, NEW q \in Callback \ {r}, HandleCallback(r)
    PROVE  UNCHANGED <<pc[q], req[q], sess[q], idp[q], resp[q], status[q], user[q], tokDb[q]>>
<1> USE DEF HandleCallback
<1>1. pc'[q] = pc[q]
  <2>1. \E l : pc' = [pc EXCEPT ![r] = l]
    BY Zenon DEF CbGet, CbReplace, CbCheck, CbResolve, IdpToken, CbSaveToken, CbVerify,
       CbAccount, Goto, Refuse
  <2> QED
    BY <2>1 DEF TypeInv, TypeOK
<1>2. status'[q] = status[q]
  <2>1. \/ UNCHANGED status \/ status' = [status EXCEPT ![r] = 302]
        \/ Refuse(r, 400) \/ Refuse(r, 403) \/ Refuse(r, 500)
    BY Zenon DEF CbGet, CbReplace, CbCheck, CbResolve, IdpToken, CbSaveToken, CbVerify,
       CbAccount
  <2> QED
    BY <2>1 DEF TypeInv, TypeOK, Refuse
<1>3. user'[q] = user[q]
  <2>1. UNCHANGED user \/ \E u : user' = [user EXCEPT ![r] = u]
    BY Zenon DEF CbGet, CbReplace, CbCheck, CbResolve, IdpToken, CbSaveToken, CbVerify,
       CbAccount, Refuse
  <2> QED
    BY <2>1 DEF TypeInv, TypeOK
<1>4. UNCHANGED req
  BY DEF CbGet, CbReplace, CbCheck, CbResolve, IdpToken, CbSaveToken, CbVerify, CbAccount
<1>5. sess'[q] = sess[q]
  <2>1. UNCHANGED sess \/ \E e : sess' = [sess EXCEPT ![r] = e]
    BY Zenon DEF CbGet, CbReplace, CbCheck, CbResolve, IdpToken, CbSaveToken, CbVerify, CbAccount
  <2> QED
    BY <2>1 DEF TypeInv, TypeOK
<1>6. idp'[q] = idp[q]
  <2>1. UNCHANGED idp \/ \E i : idp' = [idp EXCEPT ![r] = i]
    BY Zenon DEF CbGet, CbReplace, CbCheck, CbResolve, IdpToken, CbSaveToken, CbVerify, CbAccount
  <2> QED
    BY <2>1 DEF TypeInv, TypeOK
<1>7. resp'[q] = resp[q]
  <2>1. UNCHANGED resp \/ \E t : resp' = [resp EXCEPT ![r] = t]
    BY Zenon DEF CbGet, CbReplace, CbCheck, CbResolve, IdpToken, CbSaveToken, CbVerify, CbAccount
  <2> QED
    BY <2>1 DEF TypeInv, TypeOK
<1>8. tokDb'[q] = tokDb[q]
  <2>1. \/ UNCHANGED tokDb
        \/ CbSaveToken(r) /\ tokDb' \in {tokDb, [tokDb EXCEPT ![r] = NewToken(r)]}
    BY Zenon DEF CbGet, CbReplace, CbCheck, CbResolve, IdpToken, CbSaveToken, CbVerify, CbAccount
  <2> QED
    BY <2>1 DEF TypeInv, TypeOK
<1> QED
  BY <1>1, <1>2, <1>3, <1>4, <1>5, <1>6, <1>7, <1>8

(* What a callback has established stays while it rests.                   *)
LEMMA RestOrigin ==
    ASSUME TypeInv, [Next]_vars, NEW q \in Callback, CallOrigin(q),
           UNCHANGED <<req[q], sess[q], idp[q], resp[q], status[q], user[q]>>,
           pc'[q] = pc[q] \/ (pc'[q] = "dead" /\ pc[q] # "idle"),
           ~Durable \/ tokDb'[q] = tokDb[q]
    PROVE  CallOrigin(q)'
<1>1. /\ \A c \in Code : login[c] # None => login'[c] = login[c]
      /\ \A a \in Auth : Over(a) =>
             Over(a)' /\ authReq'[a] = authReq[a] /\ authIdp'[a] = authIdp[a]
  BY KnownStays
<1>2. /\ pc[q] # "idle" => req[q] \in CallbackRequest
      /\ pc[q] # "idle" /\ req[q].code # None => req[q].code \in Code /\ login[req[q].code] # None
      /\ pc[q] # "idle" => req[q].sessId \in Auth \cup {None}
  BY DEF TypeInv, TypeOK, Shape, RequestShape, CallbackRequest
<1>3. /\ \A places : "dead" \notin places /\ Past(q, places)' => Past(q, places)
      /\ Holds(q)' => Holds(q)
      /\ Holds(q) => pc[q] # "idle" /\ req[q].sessId \in Auth
      /\ status[q] = 302 => pc[q] # "idle"
  BY <1>2 DEF Past, Holds, TypeInv, TypeOK, Shape, SessionShape
<1>4. CopyOf(q)'
  BY <1>1, <1>3 DEF CallOrigin, CopyOf, MadeFor, Location
<1>5. SentAs(q)'
  BY <1>1, <1>2 DEF CallOrigin, SentAs
<1>6. StateCompared(q)' /\ Resolved(q)' /\ Verified(q)'
  BY <1>3 DEF CallOrigin, StateCompared, Resolved, Verified, FrontTokenValid, BackTokenValid
<1>7. Answered(q)'
  BY <1>1, <1>2, <1>3 DEF CallOrigin, Answered, StateCompared, Past
<1>8. Kept(q)'
  BY <1>3 DEF CallOrigin, Kept, NewToken
<1>9. Described(q)'
  BY <1>1, <1>3 DEF CallOrigin, Described, Merged, Answered, Kept, Past
<1> QED
  BY <1>4, <1>5, <1>6, <1>7, <1>8, <1>9 DEF CallOrigin

(* A stored session is new, a copy, or what was stored before.             *)
LEMMA StoredFrom ==
    ASSUME TypeInv, [Next]_vars, NEW x \in Auth
    PROVE  \/ sessDb'[x] = sessDb[x] \/ sessDb'[x] = None
           \/ AuthSave(x) /\ sessDb'[x] = NewSession(x, clock)
           \/ \E r \in Callback :
                 /\ CbReplace(r) /\ req[r].sessId = x
                 /\ Replaceable(Stored(r), savedDate[r])
                 /\ sessDb'[x] = sess[r]
<1>1. sessDb \in [Auth -> Element \cup {None}]
  BY DEF TypeInv, TypeOK
<1>2. ASSUME NEW a \in Auth, AuthSave(a), a # x PROVE sessDb'[x] = sessDb[x]
  BY <1>1, <1>2 DEF AuthSave
<1>3. ASSUME AuthSave(x) PROVE sessDb'[x] \in {sessDb[x], NewSession(x, clock)}
  BY <1>1, <1>3 DEF AuthSave
<1>4. ASSUME NEW r \in Callback, CbReplace(r), sessDb'[x] # sessDb[x]
      PROVE  /\ req[r].sessId = x /\ Replaceable(Stored(r), savedDate[r])
             /\ sessDb'[x] = sess[r]
  <2>1. /\ Replaceable(Stored(r), savedDate[r])
        /\ sessDb' = [sessDb EXCEPT ![req[r].sessId] = sess[r]]
    BY <1>4 DEF CbReplace
  <2> QED
    BY <1>1, <1>4, <2>1
<1>5. ASSUME NEW a \in Auth, Expire(a) PROVE sessDb'[x] \in {sessDb[x], None}
  BY <1>1, <1>5 DEF Expire
<1>6. ASSUME Crash PROVE sessDb'[x] \in {sessDb[x], None}
  BY <1>6 DEF Crash
<1>7. ASSUME \A a \in Auth : ~AuthSave(a) /\ ~Expire(a), \A r \in Callback : ~CbReplace(r), ~Crash
      PROVE  UNCHANGED sessDb
  <2>1. ASSUME NEW a \in Auth, HandleAuth(a) PROVE UNCHANGED sessDb
    BY <1>7, <2>1 DEF HandleAuth, ReceiveAuth, AuthSearch, dbVars
  <2>2. ASSUME NEW r \in Callback, HandleCallback(r) PROVE UNCHANGED sessDb
    BY <1>7, <2>2 DEF HandleCallback, CbGet, CbCheck, CbResolve, IdpToken, CbSaveToken,
       CbVerify, CbAccount, dbVars
  <2>3. CASE Outside
    BY <1>7, <2>3 DEF Outside, Authorize, SendCallback, SendDenied, Send, SyncIdp, dbVars
  <2>4. CASE UNCHANGED vars
    BY <2>4 DEF vars, dbVars
  <2> QED
    BY <2>1, <2>2, <2>3, <2>4 DEF Next
<1> QED
  BY <1>2, <1>3, <1>4, <1>5, <1>6, <1>7, Zenon

(* Sessions stay those of their authentications.                           *)
LEMMA SessionOriginStep ==
    ASSUME TypeInv, Origin, [Next]_vars PROVE SessionOrigin'
<1> SUFFICES ASSUME NEW x \in Auth, sessDb'[x] # None
             PROVE  Over(x)' /\ MadeFor(sessDb[x], x)'
  BY DEF SessionOrigin
<1>1. ASSUME NEW e, Over(x), MadeFor(e, x), sessDb'[x] = e
      PROVE  Over(x)' /\ MadeFor(sessDb[x], x)'
  BY <1>1, KnownStays DEF MadeFor, Location
<1>2. CASE sessDb'[x] = sessDb[x]
  BY <1>1, <1>2 DEF Origin, SessionOrigin
<1>3. ASSUME AuthSave(x), sessDb'[x] = NewSession(x, clock)
      PROVE  Over(x)' /\ MadeFor(sessDb[x], x)'
  <2>1. Over(x)' /\ UNCHANGED <<authReq, authIdp>>
    BY <1>3 DEF AuthSave, AuthGoto, Over, TypeInv, TypeOK
  <2> QED
    BY <1>3, <2>1 DEF NewSession, MadeFor, Location
<1>4. ASSUME NEW r \in Callback, CbReplace(r), req[r].sessId = x, sessDb'[x] = sess[r]
      PROVE  Over(x)' /\ MadeFor(sessDb[x], x)'
  <2>1. Holds(r)
    BY <1>4 DEF CbReplace, Holds
  <2> QED
    BY <1>1, <1>4, <2>1 DEF Origin, CallOrigin, CopyOf
<1> QED
  BY <1>2, <1>3, <1>4, StoredFrom

(* A session is bound to the IdP of its endpoint.                          *)
LEMMA BoundOriginStep ==
    ASSUME TypeInv, Origin, [Next]_vars PROVE BoundOrigin'
<1>1. ASSUME NEW a \in Auth, HandleAuth(a) PROVE BoundOrigin'
  <2>1. CASE \E b \in Browser, u \in AuthUri \cup {None} : ReceiveAuth(a, b, u)
    BY <2>1 DEF ReceiveAuth, AuthGoto, Origin, BoundOrigin, TypeInv, TypeOK
  <2>2. CASE AuthSearch(a)
    BY <2>2 DEF AuthSearch, AuthGoto, Origin, BoundOrigin, TypeInv, TypeOK
  <2>3. CASE AuthSave(a)
    BY <2>3 DEF AuthSave, AuthGoto, Origin, BoundOrigin, TypeInv, TypeOK
  <2> QED
    BY <1>1, <2>1, <2>2, <2>3 DEF HandleAuth
<1>2. ASSUME NEW r \in Callback, HandleCallback(r) PROVE UNCHANGED authVars
  BY <1>2 DEF HandleCallback, CbGet, CbReplace, CbCheck, CbResolve, IdpToken, CbSaveToken,
     CbVerify, CbAccount
<1>3. CASE Crash
  BY <1>3 DEF Crash, authInFlight, Origin, BoundOrigin, TypeInv, TypeOK
<1>4. CASE Outside /\ ~Crash
  BY <1>4 DEF Outside, Authorize, SendCallback, SendDenied, Send, SyncIdp, Expire, authVars,
     Origin, BoundOrigin
<1> QED
  BY <1>1, <1>2, <1>3, <1>4 DEF Next, vars, authVars, Origin, BoundOrigin

(* An IdP issues codes and ID tokens for redirects that reach it.          *)
LEMMA LoginOriginStep ==
    ASSUME TypeInv, Origin, [Next]_vars PROVE LoginOrigin'
<1>1. \A a \in Auth : Over(a) => authReq'[a] = authReq[a] /\ authIdp'[a] = authIdp[a]
  BY KnownStays
<1>2. \A c \in Code : login[c] # None => login[c].auth \in Auth /\ Over(login[c].auth)
  BY DEF TypeInv, TypeOK, Login, Shape, LoginShape, Over
<1>3. ASSUME NEW c \in Code, login'[c] # None, login'[c] = login[c]
      PROVE  /\ Location(login[c].auth)'.ep \in {login'[c].idp, Selector}
             /\ login'[c].idTok # None => FromIdp(login'[c].idTok, login'[c].idp)
  BY <1>1, <1>2, <1>3 DEF Origin, LoginOrigin, Location, FromIdp
<1>4. ASSUME NEW a \in Auth, NEW i \in Idp, NEW c \in Code, Authorize(a, i, c)
      PROVE  LoginOrigin'
  <2>1. PICK t : /\ login' = [login EXCEPT ![c] = [auth |-> a, idp |-> i, idTok |-> t]]
                 /\ t \in IF Location(a).idToken
                          THEN Answers([iss |-> i, nonc |-> a, sign |-> i, hash |-> c])
                          ELSE {None}
    BY <1>4 DEF Authorize
  <2>2. t # None => FromIdp(t, i)
    BY <2>1 DEF Answers, TokenField, FromIdp
  <2>3. \A d \in Code : login'[d] = IF d = c THEN [auth |-> a, idp |-> i, idTok |-> t] ELSE login[d]
    BY <2>1 DEF TypeInv, TypeOK
  <2>4. Location(a).ep \in {i, Selector} /\ UNCHANGED authVars
    BY <1>4 DEF Authorize
  <2> QED
    BY <2>2, <2>3, <2>4 DEF LoginOrigin, Origin, Location, FromIdp, authVars
<1>5. ASSUME \A a \in Auth, i \in Idp, c \in Code : ~Authorize(a, i, c)
      PROVE  UNCHANGED login
  <2>1. ASSUME NEW a \in Auth, HandleAuth(a) PROVE UNCHANGED login
    BY <2>1 DEF HandleAuth, ReceiveAuth, AuthSearch, AuthSave, idpVars
  <2>2. ASSUME NEW r \in Callback, HandleCallback(r) PROVE UNCHANGED login
    BY <2>2 DEF HandleCallback, CbGet, CbReplace, CbCheck, CbResolve, IdpToken,
       CbSaveToken, CbVerify, CbAccount, idpVars
  <2>3. CASE Outside
    BY <1>5, <2>3 DEF Outside, SendCallback, SendDenied, Send, SyncIdp, Crash, Expire, idpVars
  <2>4. CASE UNCHANGED vars
    BY <2>4 DEF vars, idpVars
  <2> QED
    BY <2>1, <2>2, <2>3, <2>4 DEF Next
<1> QED
  BY <1>3, <1>4, <1>5 DEF LoginOrigin, Location

(***************************************************************************)
(* The callback that takes the step.                                       *)
(***************************************************************************)
(* A callback is sent with what the authentication response says.          *)
LEMMA SendOrigin ==
    ASSUME TypeInv, NEW r \in Callback, NEW a, NEW c, NEW t, Send(r, a, c, t),
           c # None => login[c] # None /\ a = login[c].auth /\ t = login[c].idTok
    PROVE  CallOrigin(r)'
<1>1. pc'[r] = "get" /\ status'[r] = 0 /\ UNCHANGED login
  BY DEF Send, idpVars, TypeInv, TypeOK, Shape, SessionShape
<1>2. req'[r].code = c /\ req'[r].stat = a /\ req'[r].idTok = t
  BY DEF Send, TypeInv, TypeOK
<1>3. SentAs(r)'
  BY <1>1, <1>2 DEF SentAs
<1> QED
  BY <1>1, <1>3 DEF CallOrigin, CopyOf, Holds, StateCompared, Resolved, Answered, Kept,
     Verified, Described, Past

(* What all steps of a callback keep.                                      *)
LEMMA CbKeeps ==
    ASSUME TypeInv, NEW r \in Callback, CallOrigin(r), HandleCallback(r)
    PROVE  /\ UNCHANGED <<req, login, authVars>>
           /\ SentAs(r)'
           /\ pc[r] \notin {"idle", "done", "dead"} /\ status[r] = 0
<1>1. UNCHANGED <<req, login, authVars>> /\ pc[r] \notin {"idle", "done", "dead"}
  BY DEF HandleCallback, CbGet, CbReplace, CbCheck, CbResolve, IdpToken, CbSaveToken,
     CbVerify, CbAccount, idpVars
<1>2. status[r] = 0
  BY <1>1 DEF TypeInv, TypeOK, Shape, SessionShape
<1> QED
  BY <1>1, <1>2 DEF CallOrigin, SentAs

(* A refused callback has nothing left to say.                             *)
LEMMA RefusedOrigin ==
    ASSUME TypeInv, NEW r \in Callback, CallOrigin(r), HandleCallback(r),
           NEW st \in {400, 403, 500}, Refuse(r, st)
    PROVE  CallOrigin(r)'
<1>1. pc'[r] = "done" /\ status'[r] = st
  BY DEF Refuse, Goto, TypeInv, TypeOK
<1>2. SentAs(r)'
  BY CbKeeps
<1> QED
  BY <1>1, <1>2 DEF CallOrigin, CopyOf, Holds, StateCompared, Resolved, Answered, Kept,
     Verified, Described, Past

(* A copy is made of a stored session.                                     *)
LEMMA CbGetOrigin ==
    ASSUME TypeInv, Origin, NEW r \in Callback, CbGet(r)
    PROVE  CallOrigin(r)'
<1>1. CallOrigin(r) /\ HandleCallback(r)
  BY DEF Origin, HandleCallback
<1>2. CASE Refuse(r, 400) \/ Refuse(r, 500)
  BY <1>1, <1>2, RefusedOrigin
<1>3. CASE ~(Refuse(r, 400) \/ Refuse(r, 500))
  <2>1. /\ req[r].sessId # None /\ Stored(r) # None
        /\ sess' = [sess EXCEPT ![r] = Invalidated(Stored(r), clock)]
        /\ Goto(r, "replace") /\ UNCHANGED status
    BY <1>3 DEF CbGet
  <2>2. req[r].sessId \in Auth /\ Stored(r) \in Element /\ clock \in Nat
    BY <2>1 DEF CbGet, Stored, TypeInv, TypeOK, Shape, RequestShape, CallbackRequest
  <2>3. /\ sess'[r] = Invalidated(Stored(r), clock) /\ pc'[r] = "replace" /\ status'[r] = 0
        /\ UNCHANGED <<req, login, authVars>> /\ SentAs(r)'
    BY <1>1, <2>1, CbKeeps DEF Goto, TypeInv, TypeOK
  <2>4. Over(req[r].sessId) /\ MadeFor(Stored(r), req[r].sessId)
    BY <2>1, <2>2 DEF Origin, SessionOrigin, Stored
  <2>5. CopyOf(r)'
    BY <2>2, <2>3, <2>4, InvalidatedType DEF CopyOf, MadeFor, Over, Location, authVars
  <2> QED
    BY <2>3, <2>5 DEF CallOrigin, StateCompared, Resolved, Answered, Kept, Verified,
       Described, Past
<1> QED
  BY <1>2, <1>3

(* A callback that goes on has established what it had, and more when the  *)
(* place it comes to asks for it.                                          *)
LEMMA GoesOnOrigin ==
    ASSUME TypeInv, Origin, NEW r \in Callback, HandleCallback(r), Holds(r),
           NEW l \in {"check", "resolve", "token", "save", "verify", "account"}, Goto(r, l),
           UNCHANGED <<sess, status, user>>,
           StateCompared(r)', Resolved(r)', Answered(r)', Kept(r)', Verified(r)'
    PROVE  CallOrigin(r)'
<1>1. /\ UNCHANGED <<req, login, authVars>> /\ SentAs(r)' /\ status'[r] = 0
  BY CbKeeps DEF Origin
<1>2. CopyOf(r)'
  BY <1>1 DEF Origin, CallOrigin, CopyOf, MadeFor, Over, Location, authVars
<1>3. Described(r)'
  BY <1>1 DEF Described
<1> QED
  BY <1>1, <1>2, <1>3 DEF CallOrigin

(* Past Replace, the session is known to be taken; past CbCheck, the state *)
(* to be that of the session; past CbResolve, the IdP to be the right one. *)
LEMMA CbReplaceOrigin ==
    ASSUME TypeInv, Origin, NEW r \in Callback, CbReplace(r)
    PROVE  CallOrigin(r)'
<1>1. CallOrigin(r) /\ HandleCallback(r) /\ Holds(r)
  BY DEF Origin, HandleCallback, CbReplace, Holds
<1>2. CASE Refuse(r, 400) \/ Refuse(r, 500)
  BY <1>1, <1>2, RefusedOrigin
<1>3. CASE Goto(r, "check") /\ UNCHANGED <<status, user>>
  <2>1. pc'[r] = "check" /\ status'[r] = 0 /\ UNCHANGED sess
    BY <1>1, <1>3, CbKeeps DEF CbReplace, Goto, TypeInv, TypeOK
  <2> QED
    BY <1>1, <1>3, <2>1, GoesOnOrigin DEF StateCompared, Resolved, Answered, Kept, Verified, Past
<1> QED
  BY <1>2, <1>3 DEF CbReplace

LEMMA CbCheckOrigin ==
    ASSUME TypeInv, Origin, NEW r \in Callback, CbCheck(r)
    PROVE  CallOrigin(r)'
<1>1. CallOrigin(r) /\ HandleCallback(r) /\ Holds(r)
  BY DEF Origin, HandleCallback, CbCheck, Holds
<1>2. CASE Refuse(r, 400) \/ Refuse(r, 403)
  BY <1>1, <1>2, RefusedOrigin
<1>3. CASE /\ req[r].code # None /\ StateMatches(r)
           /\ Goto(r, "resolve") /\ UNCHANGED <<status, user>>
  <2>1. pc'[r] = "resolve" /\ status'[r] = 0 /\ UNCHANGED <<sess, req>>
    BY <1>1, <1>3, CbKeeps DEF CbCheck, Goto, TypeInv, TypeOK
  <2>2. StateCompared(r)'
    BY <1>3, <2>1 DEF StateCompared, StateMatches
  <2> QED
    BY <1>1, <1>3, <2>1, <2>2, GoesOnOrigin DEF Resolved, Answered, Kept, Verified, Past
<1> QED
  BY <1>2, <1>3 DEF CbCheck

LEMMA CbResolveOrigin ==
    ASSUME TypeInv, Origin, NEW r \in Callback, CbResolve(r)
    PROVE  CallOrigin(r)'
<1>1. CallOrigin(r) /\ HandleCallback(r) /\ Holds(r) /\ pc[r] = "resolve"
  BY DEF Origin, HandleCallback, CbResolve, Holds
<1>2. CASE Refuse(r, 400) \/ Refuse(r, 403) \/ Refuse(r, 500)
  BY <1>1, <1>2, RefusedOrigin
<1>3. CASE /\ NamedIdp(r) \in idpDb
           /\ sess[r].idp = None => FrontTokenValid(r)
           /\ idp' = [idp EXCEPT ![r] = NamedIdp(r)]
           /\ Goto(r, "token") /\ UNCHANGED <<status, user>>
  <2>1. /\ pc'[r] = "token" /\ status'[r] = 0 /\ UNCHANGED <<sess, req>>
        /\ idp'[r] = NamedIdp(r) /\ NamedIdp(r) # None
    BY <1>1, <1>3, CbKeeps, NoneAssumption DEF CbResolve, Goto, TypeInv, TypeOK
  <2>2. StateCompared(r)'
    BY <1>1, <2>1 DEF CallOrigin, StateCompared, Past
  <2>3. Resolved(r)'
    BY <1>3, <2>1 DEF Resolved, NamedIdp, FrontTokenValid
  <2> QED
    BY <1>1, <1>3, <2>1, <2>2, <2>3, GoesOnOrigin DEF Answered, Kept, Verified, Past
<1> QED
  BY <1>2, <1>3 DEF CbResolve

(* The IdP that exchanges the code had issued it.                          *)
LEMMA IdpTokenOrigin ==
    ASSUME TypeInv, Origin, NEW r \in Callback, IdpToken(r)
    PROVE  CallOrigin(r)'
<1> DEFINE c == req[r].code
<1>1. CallOrigin(r) /\ HandleCallback(r) /\ Holds(r) /\ pc[r] = "token"
  BY DEF Origin, HandleCallback, IdpToken, Holds
<1>2. CASE Refuse(r, 500)
  BY <1>1, <1>2, RefusedOrigin
<1>3. CASE ~Refuse(r, 500)
  <2>1. /\ Goto(r, "save") /\ UNCHANGED <<status, user, sess, idp>>
        /\ \/ Redeemable(r) /\ \E t \in TokenAnswers(c, idp[r]) : resp' = [resp EXCEPT ![r] = t]
           \/ resp' = [resp EXCEPT ![r] = Refusal]
    BY <1>3 DEF IdpToken
  <2>2. pc'[r] = "save" /\ status'[r] = 0 /\ UNCHANGED <<req, login>>
    BY <1>1, <2>1, CbKeeps DEF Goto, TypeInv, TypeOK
  <2>3. c \in Code /\ login[c] # None /\ idp[r] \in Idp
    BY <1>1 DEF TypeInv, TypeOK, Shape, RequestShape, ExchangeShape, CallbackRequest
  <2>4. ASSUME Redeemable(r), NEW t \in TokenAnswers(c, idp[r]), resp'[r] = t
        PROVE  Answered(r)'
    <3>1. login[c].idp = idp[r]
      BY <2>4 DEF Redeemable, TokenRequest
    <3>2. t \in TokenResponse /\ t.tok # None /\ login[t.tok] # None
      BY <2>3, <2>4, TokenAnswersType DEF TypeInv, Shape
    <3>3. t.tok \in Code
      BY <3>2 DEF TokenResponse
    <3>4. "tok" \notin Fault => t.tok = c
      BY <2>4 DEF TokenAnswers
    <3>5. AtHash /\ "hash" \notin Fault /\ t.idTok # None => t.idTok.hash = c
      BY <2>4 DEF TokenAnswers, Answers, TokenField
    <3> QED
      BY <2>1, <2>2, <2>4, <3>1, <3>2, <3>3, <3>4, <3>5 DEF Answered
  <2>5. ASSUME resp' = [resp EXCEPT ![r] = Refusal] PROVE Answered(r)'
    <3>1. resp'[r].tok = None
      BY <2>5 DEF Refusal, TypeInv, TypeOK
    <3> QED
      BY <3>1 DEF Answered
  <2>6. Answered(r)'
    BY <2>1, <2>4, <2>5 DEF TypeInv, TypeOK
  <2>7. StateCompared(r)' /\ Resolved(r)'
    BY <1>1, <2>1, <2>2 DEF CallOrigin, StateCompared, Resolved, Past, FrontTokenValid
  <2> QED
    BY <1>1, <2>1, <2>2, <2>6, <2>7, GoesOnOrigin DEF Kept, Verified, Past
<1> QED
  BY <1>2, <1>3

(* Past CbSaveToken, the token is saved; past CbVerify, the ID token that  *)
(* came with it is for this session.                                       *)
LEMMA CbSaveTokenOrigin ==
    ASSUME TypeInv, Origin, NEW r \in Callback, CbSaveToken(r)
    PROVE  CallOrigin(r)'
<1>1. CallOrigin(r) /\ HandleCallback(r) /\ Holds(r) /\ pc[r] = "save"
  BY DEF Origin, HandleCallback, CbSaveToken, Holds
<1>2. CASE Refuse(r, 403) \/ Refuse(r, 500)
  BY <1>1, <1>2, RefusedOrigin
<1>3. CASE /\ resp[r].tok # None
           /\ tokDb' = [tokDb EXCEPT ![r] = NewToken(r)]
           /\ Goto(r, "verify") /\ UNCHANGED <<status, user>>
  <2>1. pc'[r] = "verify" /\ status'[r] = 0 /\ UNCHANGED <<sess, req, login, idp, resp>>
    BY <1>1, <1>3, CbKeeps DEF CbSaveToken, Goto, TypeInv, TypeOK
  <2>2. Kept(r)'
    BY <1>3, <2>1 DEF Kept, NewToken, TypeInv, TypeOK
  <2>3. StateCompared(r)' /\ Resolved(r)' /\ Answered(r)'
    BY <1>1, <2>1 DEF CallOrigin, StateCompared, Resolved, Answered, Past, FrontTokenValid
  <2> QED
    BY <1>1, <1>3, <2>1, <2>2, <2>3, GoesOnOrigin DEF Verified, Past
<1> QED
  BY <1>2, <1>3 DEF CbSaveToken

LEMMA CbVerifyOrigin ==
    ASSUME TypeInv, Origin, NEW r \in Callback, CbVerify(r)
    PROVE  CallOrigin(r)'
<1>1. CallOrigin(r) /\ HandleCallback(r) /\ Holds(r) /\ pc[r] = "verify"
  BY DEF Origin, HandleCallback, CbVerify, Holds
<1>2. CASE Refuse(r, 403)
  BY <1>1, <1>2, RefusedOrigin
<1>3. CASE BackTokenValid(r) /\ Goto(r, "account") /\ UNCHANGED <<status, user>>
  <2>1. /\ pc'[r] = "account" /\ status'[r] = 0
        /\ UNCHANGED <<sess, req, login, idp, resp, tokDb>>
    BY <1>1, <1>3, CbKeeps DEF CbVerify, Goto, TypeInv, TypeOK
  <2>2. StateCompared(r)' /\ Resolved(r)' /\ Answered(r)' /\ Kept(r)'
    BY <1>1, <2>1 DEF CallOrigin, StateCompared, Resolved, Answered, Kept, Past,
       FrontTokenValid, NewToken
  <2>3. Verified(r)'
    BY <1>3, <2>1 DEF Verified, BackTokenValid
  <2> QED
    BY <1>1, <1>3, <2>1, <2>2, <2>3, GoesOnOrigin
<1> QED
  BY <1>2, <1>3 DEF CbVerify

(* What the user info tells is of the login of the access token.           *)
LEMMA CbAccountOrigin ==
    ASSUME TypeInv, Origin, NEW r \in Callback, CbAccount(r)
    PROVE  CallOrigin(r)'
<1>1. CallOrigin(r) /\ HandleCallback(r) /\ Holds(r) /\ pc[r] = "account"
  BY DEF Origin, HandleCallback, CbAccount, Holds
<1>2. CASE Refuse(r, 500)
  BY <1>1, <1>2, RefusedOrigin
<1>3. CASE ~Refuse(r, 500)
  <2>1. /\ \E acnts \in AccountAnswers(r) : user' = [user EXCEPT ![r] = Merged(r, acnts)]
        /\ status' = [status EXCEPT ![r] = 302]
        /\ Goto(r, "done")
        /\ UNCHANGED <<sess, idp, resp, tokDb>>
    BY <1>3 DEF CbAccount
  <2>2. UNCHANGED <<req, login, authVars>> /\ SentAs(r)'
    BY <1>1, CbKeeps
  <2>3. status'[r] = 302 /\ pc'[r] = "done"
    BY <2>1 DEF Goto, TypeInv, TypeOK
  <2>4. CopyOf(r)'
    BY <1>1, <2>1, <2>2 DEF CallOrigin, CopyOf, MadeFor, Over, Location, authVars
  <2>5. StateCompared(r)' /\ Resolved(r)' /\ Answered(r)' /\ Kept(r)' /\ Verified(r)'
    BY <1>1, <2>1, <2>2 DEF CallOrigin, StateCompared, Resolved, Answered, Kept, Verified, Past,
       FrontTokenValid, BackTokenValid, NewToken
  <2>6. Described(r)'
    <3>1. PICK acnts \in AccountAnswers(r) : user' = [user EXCEPT ![r] = Merged(r, acnts)]
      BY <2>1
    <3>2. user'[r] = Merged(r, acnts) /\ acnts \subseteq {login[resp[r].tok].auth}
      BY <3>1 DEF AccountAnswers, TypeInv, TypeOK
    <3> QED
      BY <2>1, <2>2, <3>2 DEF Described, Merged
  <2> QED
    BY <2>2, <2>4, <2>5, <2>6 DEF CallOrigin
<1> QED
  BY <1>2, <1>3

(***************************************************************************)
(* The invariant.                                                          *)
(***************************************************************************)
LEMMA OriginInit == Init => Origin
BY DEF Init, Origin, SessionOrigin, BoundOrigin, LoginOrigin, CallOrigin, CopyOf, SentAs,
   StateCompared, Resolved, Answered, Kept, Verified, Described, Past, Holds

(* Every step keeps what is known of sessions, codes and callbacks.        *)
LEMMA OriginStep == TypeInv /\ Origin /\ [Next]_vars => Origin'
<1> SUFFICES ASSUME TypeInv, Origin, [Next]_vars PROVE Origin'
  OBVIOUS
<1>1. SessionOrigin' /\ BoundOrigin' /\ LoginOrigin'
  BY SessionOriginStep, BoundOriginStep, LoginOriginStep
<1> SUFFICES ASSUME NEW q \in Callback PROVE CallOrigin(q)'
  BY <1>1 DEF Origin
<1>2. CallOrigin(q)
  BY DEF Origin
<1>3. ASSUME NEW r \in Callback, HandleCallback(r) PROVE CallOrigin(q)'
  <2>1. CASE r = q
    BY <1>3, <2>1, CbGetOrigin, CbReplaceOrigin, CbCheckOrigin, CbResolveOrigin,
       IdpTokenOrigin, CbSaveTokenOrigin, CbVerifyOrigin, CbAccountOrigin DEF HandleCallback
  <2>2. CASE r # q
    BY <1>2, <1>3, <2>2, CbElsewhere, RestOrigin
  <2> QED
    BY <2>1, <2>2
<1>4. ASSUME UNCHANGED <<cbVars, tokDb>> PROVE CallOrigin(q)'
  BY <1>2, <1>4, RestOrigin DEF cbVars
<1>5. ASSUME NEW a \in Auth, HandleAuth(a) PROVE UNCHANGED <<cbVars, tokDb>>
  BY <1>5 DEF HandleAuth, ReceiveAuth, AuthSearch, AuthSave
<1>6. CASE Outside
  <2>1. ASSUME NEW r \in Callback, NEW a, NEW c, NEW t, Send(r, a, c, t),
               c # None => login[c] # None /\ a = login[c].auth /\ t = login[c].idTok
        PROVE  CallOrigin(q)'
    <3>1. CASE r = q
      BY <2>1, <3>1, SendOrigin
    <3>2. CASE r # q
      <4>1. UNCHANGED <<pc[q], req[q], sess[q], idp[q], resp[q], status[q], user[q], tokDb[q]>>
        BY <2>1, <3>2 DEF Send, TypeInv, TypeOK
      <4> QED
        BY <1>2, <4>1, RestOrigin
    <3> QED
      BY <3>1, <3>2
  <2>2. CASE Crash
    <3>1. /\ UNCHANGED <<req[q], sess[q], idp[q], resp[q], status[q], user[q]>>
          /\ pc'[q] = pc[q] \/ (pc'[q] = "dead" /\ pc[q] # "idle")
          /\ ~Durable \/ tokDb'[q] = tokDb[q]
      BY <2>2 DEF Crash, inFlight
    <3> QED
      BY <1>2, <3>1, RestOrigin
  <2>3. ASSUME NEW a \in Auth, NEW i \in Idp, NEW c \in Code, Authorize(a, i, c)
        PROVE  CallOrigin(q)'
    BY <1>4, <2>3 DEF Authorize
  <2>4. ASSUME NEW i \in Idp, SyncIdp(i) PROVE CallOrigin(q)'
    BY <1>4, <2>4 DEF SyncIdp
  <2>5. ASSUME NEW a \in Auth, Expire(a) PROVE CallOrigin(q)'
    BY <1>4, <2>5 DEF Expire
  <2>6. ASSUME NEW r \in Callback, NEW c \in Code, SendCallback(r, c) PROVE CallOrigin(q)'
    BY <2>1, <2>6 DEF SendCallback
  <2>7. ASSUME NEW r \in Callback, NEW a \in Auth, SendDenied(r, a) PROVE CallOrigin(q)'
    BY <2>1, <2>7 DEF SendDenied
  <2> QED
    BY <1>6, <2>2, <2>3, <2>4, <2>5, <2>6, <2>7 DEF Outside
<1>7. CASE UNCHANGED vars
  BY <1>4, <1>7 DEF vars
<1> QED
  BY <1>3, <1>4, <1>5, <1>6, <1>7 DEF Next

(***************************************************************************)
(* What follows.                                                           *)
(***************************************************************************)
(* A token request under way carries the code of the very authentication   *)
(* the session was made for, goes to the IdP that issued it and repeats    *)
(* the client ID and redirect URI of its redirect, unless an IdP signs     *)
(* with the key of another one and in its name.                            *)
THEOREM Redeemed ==
    ~({"iss", "sign"} \subseteq Fault) => (Spec => []RedeemedAsIssued)
<1> SUFFICES ASSUME ~({"iss", "sign"} \subseteq Fault) PROVE Spec => []RedeemedAsIssued
  OBVIOUS
<1>1. TypeInv /\ Origin => RedeemedAsIssued
  <2> SUFFICES ASSUME TypeInv, Origin, NEW r \in Callback, pc[r] = "token"
               PROVE  LET l == login[req[r].code]
                      IN  /\ l.auth = req[r].sessId
                          /\ l.idp = idp[r]
                          /\ Location(l.auth).ta = sess[r].ta
                          /\ Location(l.auth).redi = sess[r].redi
    BY DEF RedeemedAsIssued
  <2> DEFINE c == req[r].code
             a == req[r].sessId
  <2>1. /\ CallOrigin(r) /\ Holds(r) /\ Past(r, {"token", "save", "verify", "account"})
        /\ Past(r, {"resolve", "token", "save", "verify", "account"})
    BY DEF Origin, Holds, Past
  <2>2. c \in Code /\ login[c] # None /\ a \in Auth /\ idp[r] # None /\ login[c].idp \in Idp
    BY DEF TypeInv, TypeOK, Shape, RequestShape, SessionShape, ExchangeShape, Holds,
       CallbackRequest, Login
  <2>3. MadeFor(sess[r], a)
    BY <2>1 DEF CallOrigin, CopyOf
  <2>4. login[c].auth = a /\ req[r].idTok = login[c].idTok
    BY <2>1, <2>2, <2>3 DEF CallOrigin, StateCompared, SentAs, MadeFor
  <2>5. login[c].idp = idp[r]
    <3>1. CASE sess[r].idp # None
      <4>1. idp[r] = authIdp[a] /\ Location(a).ep = idp[r]
        BY <2>1, <2>2, <2>3, <3>1 DEF CallOrigin, Resolved, MadeFor, Origin, BoundOrigin, Location
      <4>2. idp[r] \in Idp
        BY <2>2 DEF TypeInv, TypeOK
      <4> QED
        BY <2>2, <2>4, <4>1, <4>2, SelectorAssumption DEF Origin, LoginOrigin
    <3>2. CASE sess[r].idp = None
      <4>1. req[r].idTok # None /\ idp[r] = req[r].idTok.iss /\ req[r].idTok.sign = req[r].idTok.iss
        BY <2>1, <3>2 DEF CallOrigin, Resolved, FrontTokenValid, Verifies
      <4>2. FromIdp(req[r].idTok, login[c].idp)
        BY <2>2, <2>4, <4>1 DEF Origin, LoginOrigin
      <4> QED
        BY <4>1, <4>2 DEF FromIdp
    <3> QED
      BY <3>1, <3>2
  <2> QED
    BY <2>3, <2>4, <2>5 DEF MadeFor
<1> QED
  BY TypeInit, TypeStep, OriginInit, OriginStep, <1>1, PTL DEF Spec

(* X-Auth-User describes nobody but who logged in for the session of the   *)
(* callback, unless an IdP may answer with the access token of another     *)
(* login and no at_hash tells.                                             *)
THEOREM SignedIn ==
    ("tok" \notin Fault \/ (AtHash /\ "hash" \notin Fault)) => (Spec => []SignedInAsLoggedIn)
<1> SUFFICES ASSUME "tok" \notin Fault \/ (AtHash /\ "hash" \notin Fault)
             PROVE  Spec => []SignedInAsLoggedIn
  OBVIOUS
<1>1. TypeInv /\ Origin => SignedInAsLoggedIn
  <2> SUFFICES ASSUME TypeInv, Origin, NEW r \in Callback, status[r] = 302
               PROVE  user[r] \subseteq {req[r].sessId}
    BY DEF SignedInAsLoggedIn
  <2> DEFINE c == req[r].code
             a == req[r].sessId
  <2>1. CallOrigin(r) /\ Holds(r) /\ \A places : Past(r, places)
    BY DEF Origin, Holds, Past
  <2>2. pc[r] # "idle" /\ c # None
    BY <2>1 DEF TypeInv, Shape, SessionShape, CallOrigin, StateCompared
  <2>3. MadeFor(sess[r], a)
    BY <2>1 DEF CallOrigin, CopyOf
  <2>4. login[c].auth = a
    BY <2>1, <2>2, <2>3 DEF CallOrigin, StateCompared, SentAs, MadeFor
  <2>5. resp[r].tok # None /\ BackTokenValid(r)
    BY <2>1 DEF CallOrigin, Kept, Verified
  <2>6. c \in Code /\ c # None
    BY <2>2, NoneAssumption DEF TypeInv, TypeOK, Shape, RequestShape, CallbackRequest
  <2>7. resp[r].tok = c
    BY <2>1, <2>5, <2>6 DEF CallOrigin, Answered, BackTokenValid
  <2>8. sess[r].idp = None => req[r].idTok.nonc = a
    BY <2>1, <2>3 DEF CallOrigin, Resolved, FrontTokenValid, MadeFor
  <2>9. resp[r].idTok.nonc = a
    BY <2>3, <2>5 DEF BackTokenValid, MadeFor
  <2>10. Merged(r, {login[resp[r].tok].auth}) \subseteq {a}
    BY <2>4, <2>7, <2>8, <2>9 DEF Merged
  <2> QED
    BY <2>1, <2>10 DEF CallOrigin, Described
<1> QED
  BY TypeInit, TypeStep, OriginInit, OriginStep, <1>1, PTL DEF Spec

(* The at_tag handed to the backend names a saved access token of the IdP  *)
(* that logged the user in, unless a restart lost a token DB in memory.    *)
THEOREM TagNamesToken == Spec => []TagResolves
<1>1. TypeInv /\ Origin => TagResolves
  <2> SUFFICES ASSUME TypeInv, Origin, NEW r \in Callback, status[r] = 302, Durable
               PROVE  tokDb[r] # None /\ tokDb[r].idp = login[req[r].code].idp
    BY DEF TagResolves
  <2>1. CallOrigin(r) /\ \A places : Past(r, places)
    BY DEF Origin, Past
  <2>2. tokDb[r] = NewToken(r) /\ resp[r].tok \in Code /\ login[req[r].code].idp = idp[r]
    BY <2>1 DEF CallOrigin, Kept, Answered
  <2>3. login[req[r].code].idp \in Idp
    <3>1. req[r].code \in Code /\ login[req[r].code] # None
      BY <2>1 DEF CallOrigin, StateCompared, TypeInv, TypeOK, Shape, RequestShape,
         SessionShape, CallbackRequest
    <3> QED
      BY <3>1 DEF TypeInv, TypeOK, Login
  <2>4. NewToken(r) \in SavedToken
    BY <2>2, <2>3 DEF NewToken, SavedToken
  <2> QED
    BY <2>2, <2>4, RecordAssumption DEF NewToken
<1> QED
  BY TypeInit, TypeStep, OriginInit, OriginStep, <1>1, PTL DEF Spec

(***************************************************************************)
(* Spent sessions.  A session that is stored invalid stays so, because     *)
(* only copies of it are stored again; whoever is past Replace has stored  *)
(* one, and only such a callback lets a code be spent.                     *)
(***************************************************************************)
SpentSession(x) == sessDb[x] # None => sessDb[x].inv

TakenSpent == \A r \in taken : SpentSession(req[r].sessId)

SpentInv == TakenSpent /\ SpentCodeSpentSession

(* The session of an authentication that is over stays spent.              *)
LEMMA StaysSpent ==
    ASSUME TypeInv, Origin, [Next]_vars, NEW x \in Auth, Over(x), SpentSession(x)
    PROVE  SpentSession(x)'
<1>1. ~AuthSave(x)
  BY DEF AuthSave, Over
<1>2. \A r \in Callback : CbReplace(r) => sess[r].inv
  BY DEF CbReplace, Holds, Origin, CallOrigin, CopyOf
<1> QED
  BY <1>1, <1>2, StoredFrom DEF SpentSession

(* A callback takes its session in Replace.                                *)
LEMMA TakenBy ==
    ASSUME TypeInv, [Next]_vars, NEW r \in taken'
    PROVE  /\ r \in Callback /\ req'[r] = req[r] /\ Holds(r)
           /\ r \in taken \/ (CbReplace(r) /\ sessDb'[req[r].sessId] = sess[r])
<1>1. r \in Callback
  BY DEF taken
<1>2. r \in taken => Holds(r)
  BY TakenHolds
<1>3. ASSUME NEW q \in Callback, HandleCallback(q), q # r
      PROVE  req'[r] = req[r] /\ r \in taken
  BY <1>1, <1>3, CbElsewhere DEF taken
<1>4. CASE CbReplace(r)
  <2>1. Holds(r) /\ req[r].sessId \in Auth /\ UNCHANGED req
    BY <1>1, <1>4 DEF CbReplace, Holds, TypeInv, TypeOK, Shape, SessionShape, RequestShape,
       CallbackRequest
  <2>2. /\ pc' = [pc EXCEPT ![r] = "check"]
        /\ sessDb' = [sessDb EXCEPT ![req[r].sessId] = sess[r]]
    <3>1. \/ Refuse(r, 400) \/ Refuse(r, 500)
          \/ /\ Goto(r, "check")
             /\ sessDb' = [sessDb EXCEPT ![req[r].sessId] = sess[r]]
      BY <1>4 DEF CbReplace
    <3>2. ~Refuse(r, 400) /\ ~Refuse(r, 500)
      BY <1>1 DEF Refuse, Goto, taken, TypeInv, TypeOK
    <3> QED
      BY <3>1, <3>2 DEF Goto
  <2> QED
    BY <1>1, <1>4, <2>1, <2>2 DEF TypeInv, TypeOK
<1>5. ~CbGet(r)
  <2> SUFFICES ASSUME CbGet(r) PROVE FALSE
    OBVIOUS
  <2>1. (Goto(r, "replace") /\ UNCHANGED status) \/ Refuse(r, 400) \/ Refuse(r, 500)
    BY DEF CbGet
  <2>2. status[r] = 0
    BY <1>1 DEF CbGet, TypeInv, TypeOK, Shape, SessionShape
  <2> QED
    BY <1>1, <2>1, <2>2 DEF Refuse, Goto, taken, TypeInv, TypeOK
<1>6. ASSUME NEW a \in Auth, AuthSave(a) PROVE req'[r] = req[r] /\ r \in taken
  BY <1>1, <1>6 DEF AuthSave, cbVars, taken
<1>7. CASE Quiet
  <2>1. r \in taken /\ Holds(r)'
    BY <1>1, <1>7 DEF Quiet, taken, Holds
  <2> QED
    BY <1>1, <1>2, <1>7, <2>1 DEF Quiet
<1> QED
  BY <1>1, <1>2, <1>3, <1>4, <1>5, <1>6, <1>7, QuietSteps DEF HandleCallback

(* A code is spent by a callback that exchanges it.                        *)
LEMMA SpentBy ==
    ASSUME TypeInv, [Next]_vars, NEW c \in redeemed', c \notin redeemed
    PROVE  \E r \in Callback : pc[r] = "token" /\ req[r].code = c
<1>1. ASSUME NEW r \in Callback, IdpToken(r) PROVE pc[r] = "token" /\ req[r].code = c
  BY <1>1 DEF IdpToken
<1>2. ASSUME \A r \in Callback : ~IdpToken(r) PROVE UNCHANGED redeemed
  <2>1. ASSUME NEW a \in Auth, HandleAuth(a) PROVE UNCHANGED redeemed
    BY <2>1 DEF HandleAuth, ReceiveAuth, AuthSearch, AuthSave, idpVars
  <2>2. ASSUME NEW r \in Callback, HandleCallback(r) PROVE UNCHANGED redeemed
    BY <1>2, <2>2 DEF HandleCallback, CbGet, CbReplace, CbCheck, CbResolve, CbSaveToken,
       CbVerify, CbAccount, idpVars
  <2>3. CASE Outside
    BY <2>3 DEF Outside, Authorize, SendCallback, SendDenied, Send, SyncIdp, Crash, Expire,
       idpVars
  <2>4. CASE UNCHANGED vars
    BY <2>4 DEF vars, idpVars
  <2> QED
    BY <2>1, <2>2, <2>3, <2>4 DEF Next
<1> QED
  BY <1>1, <1>2

(* Every step keeps sessions spent.                                        *)
LEMMA SpentStep ==
    TypeInv /\ Origin /\ SpentInv /\ [Next]_vars => SpentInv'
<1> SUFFICES ASSUME TypeInv, Origin, SpentInv, [Next]_vars PROVE SpentInv'
  OBVIOUS
<1>1. TakenSpent'
  <2> SUFFICES ASSUME NEW r \in taken' PROVE SpentSession(req[r].sessId)'
    BY DEF TakenSpent
  <2>1. r \in Callback /\ req'[r] = req[r] /\ Holds(r)
    BY TakenBy
  <2>2. CopyOf(r) /\ req[r].sessId \in Auth
    BY <2>1 DEF Origin, CallOrigin, TypeInv, TypeOK, Shape, SessionShape, RequestShape,
       CallbackRequest
  <2>3. CASE r \in taken
    <3>1. SpentSession(req[r].sessId)'
      BY <2>1, <2>2, <2>3, StaysSpent DEF SpentInv, TakenSpent, CopyOf, SpentSession
    <3> QED
      BY <2>1, <3>1 DEF SpentSession
  <2>4. CASE sessDb'[req[r].sessId] = sess[r]
    BY <2>1, <2>2, <2>4 DEF CopyOf, SpentSession
  <2> QED
    BY <2>3, <2>4, TakenBy
<1>2. SpentCodeSpentSession'
  <2> SUFFICES ASSUME NEW c \in redeemed'
               PROVE  sessDb'[login'[c].auth] # None => sessDb'[login'[c].auth].inv
    BY DEF SpentCodeSpentSession
  <2>1. c \in Code /\ login[c] # None /\ SpentSession(login[c].auth)
    <3>1. CASE c \in redeemed
      BY <3>1 DEF SpentInv, SpentCodeSpentSession, SpentSession, TypeInv, TypeOK, Shape, LoginShape
    <3>2. CASE c \notin redeemed
      <4>1. PICK r \in Callback : pc[r] = "token" /\ req[r].code = c
        BY <3>2, SpentBy
      <4>2. r \in taken /\ CallOrigin(r) /\ Holds(r)
        BY <4>1 DEF taken, Origin, Holds
      <4>3. c \in Code /\ login[c] # None
        BY <4>1 DEF TypeInv, TypeOK, Shape, RequestShape, ExchangeShape, CallbackRequest
      <4>4. login[c].auth = req[r].sessId
        BY <4>1, <4>2, <4>3, NoneAssumption DEF CallOrigin, CopyOf, MadeFor, SentAs,
           StateCompared, Past
      <4> QED
        BY <4>2, <4>3, <4>4 DEF SpentInv, TakenSpent
    <3> QED
      BY <3>1, <3>2
  <2>2. login'[c] = login[c] /\ login[c].auth \in Auth /\ Over(login[c].auth)
    BY <2>1, KnownStays DEF TypeInv, TypeOK, Login, Shape, LoginShape, Over
  <2>3. SpentSession(login[c].auth)'
    <3> DEFINE x == login[c].auth
    <3>1. sessDb'[x] # None => sessDb'[x].inv
      BY <2>1, <2>2, StaysSpent DEF SpentSession
    <3> QED
      BY <2>2, <3>1 DEF SpentSession
  <2> QED
    BY <2>2, <2>3 DEF SpentSession
<1> QED
  BY <1>1, <1>2 DEF SpentInv

(* Once the code of an authentication has been exchanged, no later reader  *)
(* of its session can find it valid, whatever crashes, expires or fails.   *)
THEOREM SpentCode == Spec => []SpentCodeSpentSession
<1>1. Init => SpentInv
  BY DEF Init, SpentInv, TakenSpent, SpentCodeSpentSession, taken
<1>2. SpentInv => SpentCodeSpentSession
  BY DEF SpentInv
<1> QED
  BY TypeInit, TypeStep, OriginInit, OriginStep, SpentStep, <1>1, <1>2, PTL DEF Spec

(* A stored session never turns valid again, nor is a newer version        *)
(* overwritten by a copy stamped before it.                                *)
THEOREM MovesForward == Spec => SessionMovesForward
<1> DEFINE Forward(x) ==
        sessDb[x] # None /\ sessDb'[x] # None /\ sessDb[x] # sessDb'[x] =>
            sessDb'[x].inv /\ sessDb'[x].date > sessDb[x].date
<1>1. ASSUME TypeInv, VersionInv, Origin, [Next]_vars, NEW x \in Auth PROVE Forward(x)
  <2>1. sessDb[x] # None => ~AuthSave(x)
    BY <1>1 DEF AuthSave, Origin, SessionOrigin, Over
  <2>2. ASSUME NEW r \in Callback, CbReplace(r), req[r].sessId = x,
               Replaceable(Stored(r), savedDate[r])
        PROVE  sess[r].inv /\ sess[r].date > sessDb[x].date
    <3>1. Holds(r) /\ sess[r] \in Element /\ sessDb[x] \in Element
      BY <1>1, <2>2 DEF CbReplace, Holds, Replaceable, Stored, TypeInv, TypeOK, Shape, SessionShape
    <3>2. sessDb[x].date = savedDate[r] /\ savedDate[r] < sess[r].date
      BY <1>1, <2>2, <3>1 DEF Replaceable, Stored, VersionInv, StampedAfterRead
    <3>3. sess[r].date \in Nat /\ sessDb[x].date \in Nat
      BY <3>1 DEF Element
    <3>4. sess[r].inv
      BY <1>1, <3>1 DEF Origin, CallOrigin, CopyOf
    <3> QED
      BY <3>2, <3>3, <3>4
  <2> QED
    BY <1>1, <2>1, <2>2, StoredFrom
<1>2. TypeInv /\ VersionInv /\ Origin /\ [Next]_vars
          => [\A a \in Auth :
                 LET old == sessDb[a]
                     new == sessDb'[a]
                 IN  old # None /\ new # None /\ old # new =>
                         new.inv /\ new.date > old.date]_vars
  BY <1>1
<1> QED
  BY TypeInit, TypeStep, VersionInit, VersionStep, OriginInit, OriginStep, <1>2, PTL
     DEF Spec, SessionMovesForward
=============================================================================
