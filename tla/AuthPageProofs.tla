--------------------------- MODULE AuthPageProofs ---------------------------
(***************************************************************************)
(* Proofs about the user authentication page, for any number of requests,  *)
(* codes, IdPs and browsers, whatever fails.                               *)
(***************************************************************************)
EXTENDS AuthPage, TLAPS

(***************************************************************************)
(* Type correctness needs to know which variables are set where a call is. *)
(***************************************************************************)
(* The call has a session of its own, or had one and signed its user in.   *)
Holds(r) ==
    \/ pc[r] \in {"replace", "check", "resolve", "token", "save", "verify", "account"}
    \/ status[r] = 302

AuthShape ==
    \A a \in Auth : authPc[a] \in {"search", "save", "redirected"} =>
        authReq[a] # None /\ authReq[a].uri # None

LoginShape ==
    /\ \A c \in redeemed : login[c] # None
    /\ \A c \in Code : login[c] # None => authPc[login[c].auth] = "redirected"

RequestShape ==
    \A r \in Callback : pc[r] # "idle" =>
        req[r] # None /\ (req[r].code # None => login[req[r].code] # None)

SessionShape ==
    \A r \in Callback :
        /\ status[r] # 0 => pc[r] = "done"
        /\ Holds(r) => pc[r] # "idle" /\ req[r].sessId # None /\ sess[r] # None

ExchangeShape ==
    \A r \in Callback :
        /\ pc[r] \in {"resolve", "token", "save", "verify", "account"} => req[r].code # None
        /\ pc[r] \in {"token", "save", "verify", "account"} =>
               idp[r] # None /\ (sess[r].idp = None => req[r].idTok # None)
        /\ pc[r] \in {"save", "verify", "account"} =>
               resp[r] # None /\ (resp[r].tok # None => login[resp[r].tok] # None)
        /\ pc[r] \in {"verify", "account"} => resp[r].tok # None
        /\ pc[r] = "account" => resp[r].idTok # None

Shape == AuthShape /\ LoginShape /\ RequestShape /\ SessionShape /\ ExchangeShape

TypeInv == TypeOK /\ Shape

(* An IdP answers with an ID token or none.                                *)
LEMMA AnswersType ==
    ASSUME NEW t PROVE Answers(t) \subseteq IdToken \cup {None}
BY Zenon DEF Answers

(* The client ID and the redirect URI of a redirect are always known.      *)
LEMMA UriType ==
    ASSUME NEW u \in AuthUri
    PROVE  ClientId(u) \in Ta /\ RedirectUri(u) \in Redi
BY DefaultAssumption, AuthUriAssumption DEF ClientId, RedirectUri

(* A new session is an element.                                            *)
LEMMA NewSessionType ==
    ASSUME TypeOK, NEW a \in Auth, authReq[a] # None, authReq[a].uri # None
    PROVE  NewSession(a, clock) \in Element
<1>1. authReq[a] \in AuthRequest
  BY DEF TypeOK
<1>2. authReq[a].uri \in AuthUri
  BY <1>1 DEF AuthRequest
<1> QED
  BY <1>2, UriType DEF TypeOK, NewSession, Element

(* Invalidation changes inv and date only.                                 *)
LEMMA InvalidatedType ==
    ASSUME NEW e \in Element, NEW n \in Nat
    PROVE  /\ Invalidated(e, n) \in Element
           /\ Invalidated(e, n).inv
           /\ Invalidated(e, n).date = n
           /\ Invalidated(e, n).idp = e.idp /\ Invalidated(e, n).ta = e.ta
           /\ Invalidated(e, n).redi = e.redi /\ Invalidated(e, n).stat = e.stat
           /\ Invalidated(e, n).nonc = e.nonc
BY DEF Invalidated, Element

(* The initial state.                                                      *)
LEMMA TypeInit == Init => TypeInv
<1> SUFFICES ASSUME Init PROVE TypeInv
  OBVIOUS
<1>1. TypeOK
  BY DEF Init, TypeOK
<1>2. Shape
  BY DEF Init, Shape, AuthShape, LoginShape, RequestShape, SessionShape, ExchangeShape, Holds
<1> QED
  BY <1>1, <1>2 DEF TypeInv


(* Every step keeps the types and the shape.                               *)
LEMMA ReceiveAuthType ==
    ASSUME TypeInv, NEW a \in Auth, NEW b \in Browser, NEW u \in AuthUri \cup {None},
           ReceiveAuth(a, b, u)
    PROVE  TypeInv'
<1> USE DEF TypeInv
<1>1. [browser |-> b, uri |-> u] \in AuthRequest
  BY DEF AuthRequest
<1>2. TypeOK'
  BY <1>1 DEF TypeOK, ReceiveAuth, AuthGoto, dbVars, idpVars, cbVars
<1>3. AuthShape'
  BY <1>1, RecordAssumption DEF TypeOK, Shape, AuthShape, ReceiveAuth, AuthGoto
<1>4. LoginShape'
  BY DEF TypeOK, Shape, LoginShape, ReceiveAuth, AuthGoto, idpVars
<1>5. RequestShape' /\ SessionShape' /\ ExchangeShape'
  BY DEF Shape, RequestShape, SessionShape, ExchangeShape, Holds, ReceiveAuth, idpVars, cbVars
<1> QED
  BY <1>2, <1>3, <1>4, <1>5 DEF Shape

LEMMA AuthSearchType ==
    ASSUME TypeInv, NEW a \in Auth, AuthSearch(a) PROVE TypeInv'
<1> USE DEF TypeInv
<1>1. TypeOK'
  BY DEF TypeOK, AuthSearch, AuthGoto, dbVars, idpVars, cbVars
<1>2. AuthShape'
  BY DEF TypeOK, Shape, AuthShape, AuthSearch, AuthGoto
<1>3. LoginShape'
  BY DEF TypeOK, Login, Shape, LoginShape, AuthSearch, AuthGoto, idpVars
<1>4. RequestShape' /\ SessionShape' /\ ExchangeShape'
  BY DEF Shape, RequestShape, SessionShape, ExchangeShape, Holds, AuthSearch, idpVars, cbVars
<1> QED
  BY <1>1, <1>2, <1>3, <1>4 DEF Shape

LEMMA AuthSaveType ==
    ASSUME TypeInv, NEW a \in Auth, AuthSave(a) PROVE TypeInv'
<1> USE DEF TypeInv
<1>1. NewSession(a, clock) \in Element
  BY NewSessionType DEF Shape, AuthShape, AuthSave
<1>2. TypeOK'
  BY <1>1 DEF TypeOK, AuthSave, AuthGoto, idpVars, cbVars
<1>3. AuthShape'
  BY DEF TypeOK, Shape, AuthShape, AuthSave, AuthGoto
<1>4. LoginShape'
  BY DEF TypeOK, Login, Shape, LoginShape, AuthSave, AuthGoto, idpVars
<1>5. RequestShape' /\ SessionShape' /\ ExchangeShape'
  BY DEF Shape, RequestShape, SessionShape, ExchangeShape, Holds, AuthSave, idpVars, cbVars
<1> QED
  BY <1>2, <1>3, <1>4, <1>5 DEF Shape

(* The outside.                                                            *)
LEMMA AuthorizeType ==
    ASSUME TypeInv, NEW a \in Auth, NEW i \in Idp, NEW c \in Code, Authorize(a, i, c)
    PROVE  TypeInv'
<1> USE DEF TypeInv
<1>1. PICK t \in IdToken \cup {None} :
          login' = [login EXCEPT ![c] = [auth |-> a, idp |-> i, idTok |-> t]]
  BY AnswersType DEF Authorize
<1> DEFINE l == [auth |-> a, idp |-> i, idTok |-> t]
<1>2. l \in Login /\ l # None /\ l.auth = a
  BY RecordAssumption DEF Login
<1> HIDE DEF l
<1>3. TypeOK'
  BY <1>1, <1>2 DEF TypeOK, Authorize, authVars, dbVars, cbVars, l
<1>4. \A d \in Code : login'[d] = IF d = c THEN l ELSE login[d]
  BY <1>1 DEF TypeOK, l
<1>5. AuthShape' /\ LoginShape'
  BY <1>2, <1>4 DEF TypeOK, Shape, AuthShape, LoginShape, Authorize, authVars
<1>6. RequestShape'
  BY <1>2, <1>4 DEF TypeOK, Shape, RequestShape, Authorize, cbVars, CallbackRequest
<1>7. SessionShape' /\ ExchangeShape'
  BY <1>2, <1>4 DEF TypeOK, Shape, SessionShape, ExchangeShape, Holds, Authorize, cbVars,
                    TokenResponse
<1> QED
  BY <1>3, <1>5, <1>6, <1>7 DEF Shape

(* A callback may come with no code, or with one that was issued.          *)
LEMMA SendType ==
    ASSUME TypeInv, NEW r \in Callback, NEW a \in Auth, NEW c \in Code \cup {None},
           NEW t \in IdToken \cup {None}, authReq[a] # None, c # None => login[c] # None,
           Send(r, a, c, t)
    PROVE  TypeInv'
<1> USE DEF TypeInv
<1>1. authReq[a].browser \in Browser
  BY DEF TypeOK, AuthRequest
<1>2. cookie[authReq[a].browser] \in Auth \cup {None}
  BY <1>1 DEF TypeOK
<1>3. PICK s \in Auth \cup {None} :
          req' = [req EXCEPT ![r] = [sessId |-> s, code |-> c, stat |-> a, idTok |-> t,
                                     browser |-> authReq[a].browser]]
  BY <1>2 DEF Send
<1> DEFINE q == [sessId |-> s, code |-> c, stat |-> a, idTok |-> t,
                 browser |-> authReq[a].browser]
<1>4. q \in CallbackRequest /\ q # None /\ q.code = c
  BY <1>1, RecordAssumption DEF CallbackRequest
<1> HIDE DEF q
<1>5. TypeOK'
  BY <1>3, <1>4 DEF TypeOK, Send, authVars, dbVars, idpVars, q
<1>6. \A x \in Callback : req'[x] = IF x = r THEN q ELSE req[x]
  BY <1>3 DEF TypeOK, q
<1>7. AuthShape' /\ LoginShape'
  BY DEF Shape, AuthShape, LoginShape, Send, authVars, idpVars
<1>8. RequestShape' /\ SessionShape' /\ ExchangeShape'
  BY <1>4, <1>6 DEF TypeOK, Shape, RequestShape, SessionShape, ExchangeShape, Holds, Send,
                    idpVars
<1> QED
  BY <1>5, <1>7, <1>8 DEF Shape

LEMMA SendCallbackType ==
    ASSUME TypeInv, NEW r \in Callback, NEW c \in Code, SendCallback(r, c) PROVE TypeInv'
<1>1. login[c] \in Login /\ login[c] # None
  BY DEF TypeInv, TypeOK, SendCallback
<1>2. login[c].auth \in Auth /\ login[c].idTok \in IdToken \cup {None}
  BY <1>1 DEF Login
<1>3. authReq[login[c].auth] # None
  BY <1>1, <1>2 DEF TypeInv, Shape, LoginShape, AuthShape
<1> QED
  BY <1>1, <1>2, <1>3, SendType DEF SendCallback

LEMMA SendDeniedType ==
    ASSUME TypeInv, NEW r \in Callback, NEW a \in Auth, SendDenied(r, a) PROVE TypeInv'
BY SendType DEF SendDenied, TypeInv, Shape, AuthShape

LEMMA SyncIdpType ==
    ASSUME TypeInv, NEW i \in Idp, SyncIdp(i) PROVE TypeInv'
BY DEF TypeInv, TypeOK, Shape, AuthShape, LoginShape, RequestShape, SessionShape,
       ExchangeShape, Holds, SyncIdp, authVars, dbVars, idpVars, cbVars

LEMMA ExpireType ==
    ASSUME TypeInv, NEW a \in Auth, Expire(a) PROVE TypeInv'
BY DEF TypeInv, TypeOK, Shape, AuthShape, LoginShape, RequestShape, SessionShape,
       ExchangeShape, Holds, Expire, authVars, idpVars, cbVars

LEMMA CrashType ==
    ASSUME TypeInv, Crash PROVE TypeInv'
<1> USE DEF TypeInv
<1>1. TypeOK'
  BY DEF TypeOK, Crash, idpVars, authInFlight, inFlight
<1>2. AuthShape'
  BY DEF Shape, AuthShape, Crash, authInFlight
<1>3. LoginShape'
  BY DEF TypeOK, Login, Shape, LoginShape, Crash, authInFlight, idpVars
<1>4. RequestShape' /\ SessionShape' /\ ExchangeShape'
  BY DEF Shape, RequestShape, SessionShape, ExchangeShape, Holds, Crash, inFlight, idpVars
<1> QED
  BY <1>1, <1>2, <1>3, <1>4 DEF Shape

(* The steps of HandleCallback.                                            *)
LEMMA CbGetType ==
    ASSUME TypeInv, NEW r \in Callback, CbGet(r) PROVE TypeInv'
<1> USE DEF TypeInv
<1>1. req[r] \in CallbackRequest
  BY DEF TypeOK, Shape, RequestShape, CbGet
<1>2. req[r].sessId # None /\ Stored(r) # None =>
          /\ Stored(r) \in Element
          /\ Stored(r).date \in Nat
          /\ Invalidated(Stored(r), clock) \in Element
          /\ Invalidated(Stored(r), clock) # None
  BY <1>1, InvalidatedType, RecordAssumption DEF TypeOK, Stored, CallbackRequest, Element
<1>3. TypeOK'
  BY <1>2 DEF TypeOK, CbGet, Goto, Refuse, authVars, idpVars
<1>4. AuthShape' /\ LoginShape'
  BY DEF Shape, AuthShape, LoginShape, CbGet, authVars, idpVars
<1>5. RequestShape' /\ SessionShape' /\ ExchangeShape'
  BY <1>2 DEF TypeOK, Shape, RequestShape, SessionShape, ExchangeShape, Holds, CbGet, Goto,
              Refuse, idpVars
<1> QED
  BY <1>3, <1>4, <1>5 DEF Shape

LEMMA CbReplaceType ==
    ASSUME TypeInv, NEW r \in Callback, CbReplace(r) PROVE TypeInv'
<1> USE DEF TypeInv
<1>1. sess[r] \in Element
  BY DEF TypeOK, Shape, SessionShape, Holds, CbReplace
<1>2. TypeOK'
  BY <1>1 DEF TypeOK, CbReplace, Goto, Refuse, authVars, idpVars
<1>3. AuthShape' /\ LoginShape'
  BY DEF Shape, AuthShape, LoginShape, CbReplace, authVars, idpVars
<1>4. RequestShape' /\ SessionShape' /\ ExchangeShape'
  BY DEF TypeOK, Shape, RequestShape, SessionShape, ExchangeShape, Holds, CbReplace, Goto,
         Refuse, idpVars
<1> QED
  BY <1>2, <1>3, <1>4 DEF Shape

LEMMA CbCheckType ==
    ASSUME TypeInv, NEW r \in Callback, CbCheck(r) PROVE TypeInv'
<1> USE DEF TypeInv
<1>1. TypeOK'
  BY DEF TypeOK, CbCheck, Goto, Refuse, authVars, dbVars, idpVars
<1>2. AuthShape' /\ LoginShape'
  BY DEF Shape, AuthShape, LoginShape, CbCheck, authVars, idpVars
<1>3. RequestShape' /\ SessionShape' /\ ExchangeShape'
  BY DEF TypeOK, Shape, RequestShape, SessionShape, ExchangeShape, Holds, CbCheck, Goto,
         Refuse, idpVars
<1> QED
  BY <1>1, <1>2, <1>3 DEF Shape

LEMMA CbResolveType ==
    ASSUME TypeInv, NEW r \in Callback, CbResolve(r) PROVE TypeInv'
<1> USE DEF TypeInv
<1>1. NamedIdp(r) \in idpDb =>
          NamedIdp(r) \in Idp /\ NamedIdp(r) # None /\ (sess[r].idp = None => req[r].idTok # None)
  BY NoneAssumption DEF TypeOK, NamedIdp
<1>2. TypeOK'
  BY <1>1 DEF TypeOK, CbResolve, Goto, Refuse, authVars, dbVars, idpVars
<1>3. AuthShape' /\ LoginShape'
  BY DEF Shape, AuthShape, LoginShape, CbResolve, authVars, idpVars
<1>4. RequestShape' /\ SessionShape'
  BY DEF TypeOK, Shape, RequestShape, SessionShape, Holds, CbResolve, Goto, Refuse, idpVars
<1>5. ExchangeShape'
  BY <1>1 DEF TypeOK, Shape, ExchangeShape, CbResolve, Goto, Refuse, idpVars
<1> QED
  BY <1>2, <1>3, <1>4, <1>5 DEF Shape

(* The token response holds access tokens of codes that were issued.       *)
LEMMA TokenAnswersType ==
    ASSUME TypeOK, LoginShape, NEW c \in Code, NEW i \in Idp, login[c] # None,
           NEW t \in TokenAnswers(c, i)
    PROVE  t \in TokenResponse /\ t # None /\ t.tok # None /\ login[t.tok] # None
<1> DEFINE h == [iss |-> i, nonc |-> login[c].auth, sign |-> i,
                 hash |-> IF AtHash THEN c ELSE None]
           toks == IF "tok" \in Fault THEN redeemed \cup {c} ELSE {c}
<1>1. toks \subseteq Code /\ \A d \in toks : login[d] # None
  BY DEF TypeOK, LoginShape
<1>2. Answers(h) \subseteq IdToken \cup {None}
  BY AnswersType
<1>3. t \in [tok : toks, idTok : Answers(h)]
  BY DEF TokenAnswers
<1> HIDE DEF h, toks
<1>4. t \in TokenResponse /\ t.tok \in toks
  BY <1>1, <1>2, <1>3 DEF TokenResponse
<1> QED
  BY <1>1, <1>4, NoneAssumption, RecordAssumption

LEMMA IdpTokenType ==
    ASSUME TypeInv, NEW r \in Callback, IdpToken(r) PROVE TypeInv'
<1> USE DEF TypeInv
<1> DEFINE c == req[r].code
<1>1. c \in Code /\ login[c] # None /\ idp[r] \in Idp
  BY DEF TypeOK, Shape, RequestShape, ExchangeShape, IdpToken, CallbackRequest
<1>2. Refusal \in TokenResponse /\ Refusal # None /\ Refusal.tok = None
  BY RecordAssumption DEF Refusal, TokenResponse
<1>3. \A t \in TokenAnswers(c, idp[r]) :
          t \in TokenResponse /\ t # None /\ t.tok # None /\ login[t.tok] # None
  BY <1>1, TokenAnswersType DEF Shape
<1> HIDE DEF c
<1>4. /\ redeemed' \subseteq redeemed \cup {c}
      /\ \/ /\ pc' = [pc EXCEPT ![r] = "done"]
            /\ status' = [status EXCEPT ![r] = 500]
            /\ UNCHANGED <<resp, user>>
         \/ /\ pc' = [pc EXCEPT ![r] = "save"]
            /\ UNCHANGED <<status, user>>
            /\ \E t \in TokenResponse :
                  /\ resp' = [resp EXCEPT ![r] = t]
                  /\ t # None /\ (t.tok # None => login[t.tok] # None)
  BY <1>2, <1>3 DEF IdpToken, Goto, Refuse, c
<1>5. TypeOK'
  BY <1>1, <1>4 DEF TypeOK, IdpToken, authVars, dbVars
<1>6. AuthShape' /\ LoginShape'
  BY <1>1, <1>4 DEF Shape, AuthShape, LoginShape, IdpToken, authVars
<1>7. RequestShape' /\ SessionShape'
  BY <1>4 DEF TypeOK, Shape, RequestShape, SessionShape, Holds, IdpToken
<1>8. ExchangeShape'
  BY <1>4 DEF TypeOK, Shape, ExchangeShape, IdpToken
<1> QED
  BY <1>5, <1>6, <1>7, <1>8 DEF Shape

LEMMA CbSaveTokenType ==
    ASSUME TypeInv, NEW r \in Callback, CbSaveToken(r) PROVE TypeInv'
<1> USE DEF TypeInv
<1>1. resp[r] \in TokenResponse /\ idp[r] \in Idp
  BY DEF TypeOK, Shape, ExchangeShape, CbSaveToken
<1>2. resp[r].tok # None => NewToken(r) \in SavedToken
  BY <1>1 DEF NewToken, SavedToken, TokenResponse
<1>3. TypeOK'
  BY <1>2 DEF TypeOK, CbSaveToken, Goto, Refuse, authVars, dbVars, idpVars
<1>4. AuthShape' /\ LoginShape'
  BY DEF Shape, AuthShape, LoginShape, CbSaveToken, authVars, idpVars
<1>5. RequestShape' /\ SessionShape' /\ ExchangeShape'
  BY DEF TypeOK, Shape, RequestShape, SessionShape, ExchangeShape, Holds, CbSaveToken, Goto,
         Refuse, idpVars
<1> QED
  BY <1>3, <1>4, <1>5 DEF Shape

LEMMA CbVerifyType ==
    ASSUME TypeInv, NEW r \in Callback, CbVerify(r) PROVE TypeInv'
<1> USE DEF TypeInv
<1>1. TypeOK'
  BY DEF TypeOK, CbVerify, Goto, Refuse, authVars, dbVars, idpVars
<1>2. AuthShape' /\ LoginShape'
  BY DEF Shape, AuthShape, LoginShape, CbVerify, authVars, idpVars
<1>3. RequestShape' /\ SessionShape' /\ ExchangeShape'
  BY DEF TypeOK, Shape, RequestShape, SessionShape, ExchangeShape, Holds, CbVerify, Goto,
         Refuse, BackTokenValid, idpVars
<1> QED
  BY <1>1, <1>2, <1>3 DEF Shape

LEMMA CbAccountType ==
    ASSUME TypeInv, NEW r \in Callback, CbAccount(r) PROVE TypeInv'
<1> USE DEF TypeInv
<1>1. /\ req[r] \in CallbackRequest
      /\ resp[r] \in TokenResponse
      /\ resp[r].tok \in Code /\ login[resp[r].tok] \in Login
      /\ resp[r].idTok \in IdToken
      /\ sess[r].idp = None => req[r].idTok \in IdToken
  BY DEF TypeOK, Shape, RequestShape, ExchangeShape, CbAccount, TokenResponse, CallbackRequest
<1>2. \A acnts \in AccountAnswers(r) : Merged(r, acnts) \subseteq Auth
  BY <1>1 DEF Merged, AccountAnswers, Login, IdToken
<1>3. user' = user \/ \E u \in SUBSET Auth : user' = [user EXCEPT ![r] = u]
  BY <1>2, Zenon DEF CbAccount, Refuse
<1>4. TypeOK'
  BY <1>3 DEF TypeOK, CbAccount, Goto, Refuse, authVars, dbVars, idpVars
<1>5. AuthShape' /\ LoginShape'
  BY DEF Shape, AuthShape, LoginShape, CbAccount, authVars, idpVars
<1>6. RequestShape' /\ SessionShape' /\ ExchangeShape'
  BY DEF TypeOK, Shape, RequestShape, SessionShape, ExchangeShape, Holds, CbAccount, Goto,
         Refuse, idpVars
<1> QED
  BY <1>4, <1>5, <1>6 DEF Shape

(* All steps.                                                              *)
LEMMA TypeStep ==
    TypeInv /\ [Next]_vars => TypeInv'
<1> SUFFICES ASSUME TypeInv, [Next]_vars PROVE TypeInv'
  OBVIOUS
<1>1. ASSUME NEW a \in Auth, HandleAuth(a) PROVE TypeInv'
  BY <1>1, ReceiveAuthType, AuthSearchType, AuthSaveType DEF HandleAuth
<1>2. ASSUME NEW r \in Callback, HandleCallback(r) PROVE TypeInv'
  BY <1>2, CbGetType, CbReplaceType, CbCheckType, CbResolveType, IdpTokenType,
     CbSaveTokenType, CbVerifyType, CbAccountType DEF HandleCallback
<1>3. CASE Outside
  BY <1>3, AuthorizeType, SendCallbackType, SendDeniedType, SyncIdpType, CrashType,
     ExpireType DEF Outside
<1>4. CASE UNCHANGED vars
  BY <1>4 DEF TypeInv, TypeOK, Shape, AuthShape, LoginShape, RequestShape, SessionShape,
     ExchangeShape, Holds, vars, authVars, dbVars, idpVars, cbVars
<1> QED
  BY <1>1, <1>2, <1>3, <1>4 DEF Next

(* Every variable keeps its type.                                          *)
THEOREM TypeCorrect == Spec => []TypeOK
<1>1. TypeInv => TypeOK
  BY DEF TypeInv
<1> QED
  BY TypeInit, TypeStep, <1>1, PTL DEF Spec

(***************************************************************************)
(* One winner per version.  Every date handed out is older than clock, a   *)
(* call stamps its copy after it has read the version, and from the moment *)
(* that it is past Replace nothing older than its stamp is in the DB.  So  *)
(* whoever gets past Replace after it has read a later version.            *)
(***************************************************************************)
DatesBeforeClock ==
    \A a \in Auth : sessDb[a] # None => sessDb[a].date < clock

StampedAfterRead ==
    \A r \in Callback : Holds(r) => savedDate[r] < sess[r].date /\ sess[r].date < clock

NothingOlderThanTaken ==
    \A r \in taken :
        sessDb[req[r].sessId] # None => sessDb[req[r].sessId].date >= sess[r].date

VersionInv ==
    DatesBeforeClock /\ StampedAfterRead /\ NothingOlderThanTaken /\ OneWinnerPerVersion

(* A step that stores no session and lets no call past Get or Replace.     *)
Quiet ==
    /\ \A a \in Auth : sessDb'[a] = sessDb[a] \/ sessDb'[a] = None
    /\ clock' = clock
    /\ \A r \in Callback : Holds(r)' =>
           /\ Holds(r)
           /\ req'[r] = req[r] /\ sess'[r] = sess[r] /\ savedDate'[r] = savedDate[r]
    /\ taken' \subseteq taken

(* Whoever took a session has a copy of it.                                *)
LEMMA TakenHolds == \A r \in taken : r \in Callback /\ Holds(r)
BY DEF taken, Holds

(* All steps but three are quiet.                                          *)
LEMMA QuietSteps ==
    ASSUME TypeInv, [Next]_vars,
           \A a \in Auth : ~AuthSave(a), \A r \in Callback : ~CbGet(r) /\ ~CbReplace(r)
    PROVE  Quiet
<1> USE DEF Quiet, taken, Holds
<1>1. ASSUME NEW a \in Auth, HandleAuth(a) PROVE Quiet
  BY <1>1 DEF HandleAuth, ReceiveAuth, AuthSearch, dbVars, cbVars
<1>2. ASSUME NEW r \in Callback, HandleCallback(r) PROVE Quiet
  <2>1. CASE CbCheck(r)
    BY <2>1 DEF TypeInv, TypeOK, CbCheck, Goto, Refuse, dbVars
  <2>2. CASE CbResolve(r)
    BY <2>2 DEF TypeInv, TypeOK, CbResolve, Goto, Refuse, dbVars
  <2>3. CASE IdpToken(r)
    BY <2>3 DEF TypeInv, TypeOK, IdpToken, Goto, Refuse, dbVars
  <2>4. CASE CbSaveToken(r)
    BY <2>4 DEF TypeInv, TypeOK, CbSaveToken, Goto, Refuse, dbVars
  <2>5. CASE CbVerify(r)
    BY <2>5 DEF TypeInv, TypeOK, CbVerify, Goto, Refuse, dbVars
  <2>6. CASE CbAccount(r)
    BY <2>6 DEF TypeInv, TypeOK, CbAccount, Goto, Refuse, dbVars
  <2> QED
    BY <1>2, <2>1, <2>2, <2>3, <2>4, <2>5, <2>6 DEF HandleCallback
<1>3. CASE Outside
  <2>1. ASSUME NEW a \in Auth, NEW i \in Idp, NEW c \in Code, Authorize(a, i, c) PROVE Quiet
    BY <2>1 DEF Authorize, dbVars, cbVars
  <2>2. ASSUME NEW r \in Callback, NEW a, NEW c, NEW t, Send(r, a, c, t) PROVE Quiet
    BY <2>2 DEF Send, TypeInv, TypeOK, Shape, SessionShape, dbVars
  <2>3. ASSUME NEW i \in Idp, SyncIdp(i) PROVE Quiet
    BY <2>3 DEF SyncIdp, dbVars, cbVars
  <2>4. CASE Crash
    BY <2>4 DEF Crash, inFlight, TypeInv, TypeOK
  <2>5. ASSUME NEW a \in Auth, Expire(a) PROVE Quiet
    BY <2>5 DEF Expire, cbVars, TypeInv, TypeOK
  <2> QED
    BY <1>3, <2>1, <2>2, <2>3, <2>4, <2>5 DEF Outside, SendCallback, SendDenied
<1>4. CASE UNCHANGED vars
  BY <1>4 DEF vars, dbVars, cbVars
<1> QED
  BY <1>1, <1>2, <1>3, <1>4 DEF Next

(* Quiet steps keep the versions apart.                                    *)
LEMMA QuietVersion ==
    ASSUME TypeInv, VersionInv, Quiet PROVE VersionInv'
<1>1. DatesBeforeClock'
  BY DEF VersionInv, DatesBeforeClock, Quiet
<1>2. StampedAfterRead'
  BY DEF VersionInv, StampedAfterRead, Quiet
<1>3. \A r \in taken' : /\ r \in taken /\ r \in Callback /\ req'[r] = req[r]
                        /\ sess'[r] = sess[r] /\ savedDate'[r] = savedDate[r]
                        /\ req[r].sessId \in Auth
  <2>1. \A r \in taken' : r \in taken /\ r \in Callback /\ Holds(r)'
    BY DEF Quiet, taken, Holds
  <2>2. \A r \in Callback : Holds(r) => req[r].sessId \in Auth
    BY DEF TypeInv, TypeOK, Shape, SessionShape, RequestShape, CallbackRequest
  <2> QED
    BY <2>1, <2>2, TakenHolds DEF Quiet
<1>4. NothingOlderThanTaken'
  BY <1>3 DEF VersionInv, NothingOlderThanTaken, Quiet
<1>5. OneWinnerPerVersion'
  BY <1>3 DEF VersionInv, OneWinnerPerVersion
<1> QED
  BY <1>1, <1>2, <1>4, <1>5 DEF VersionInv

(* A new session is newer than anything there is.                          *)
LEMMA AuthSaveVersion ==
    ASSUME TypeInv, VersionInv, NEW a \in Auth, AuthSave(a) PROVE VersionInv'
<1>1. /\ NewSession(a, clock).date = clock
      /\ clock \in Nat /\ clock' = clock + 1
  BY DEF NewSession, TypeInv, TypeOK, AuthSave
<1>2. \A x \in Auth : sessDb'[x] = sessDb[x] \/ sessDb'[x].date = clock
  BY <1>1 DEF AuthSave, TypeInv, TypeOK
<1>3. \A x \in Auth : sessDb[x] # None => sessDb[x].date \in Nat
  BY DEF TypeInv, TypeOK, Element
<1>4. UNCHANGED <<pc, req, sess, savedDate, status>> /\ taken' = taken
  BY DEF AuthSave, cbVars, taken
<1>5. \A r \in Callback : Holds(r) =>
          /\ req[r].sessId \in Auth
          /\ sess[r].date \in Nat /\ savedDate[r] \in Nat
  BY DEF TypeInv, TypeOK, Shape, SessionShape, RequestShape, CallbackRequest, Element
<1>6. DatesBeforeClock'
  BY <1>1, <1>2, <1>3 DEF VersionInv, DatesBeforeClock
<1>7. StampedAfterRead'
  BY <1>1, <1>4, <1>5 DEF VersionInv, StampedAfterRead, Holds
<1>8. NothingOlderThanTaken'
  BY <1>1, <1>2, <1>4, <1>5, TakenHolds DEF VersionInv, StampedAfterRead, NothingOlderThanTaken
<1>9. OneWinnerPerVersion'
  BY <1>4 DEF VersionInv, OneWinnerPerVersion
<1> QED
  BY <1>6, <1>7, <1>8, <1>9 DEF VersionInv

(* The stamp of a copy is newer than the version it was read with.         *)
LEMMA CbGetVersion ==
    ASSUME TypeInv, VersionInv, NEW r \in Callback, CbGet(r) PROVE VersionInv'
<1>1. CASE pc'[r] # "replace"
  <2>1. Quiet
    BY <1>1 DEF CbGet, Goto, Refuse, Quiet, taken, Holds, TypeInv, TypeOK
  <2> QED
    BY <2>1, QuietVersion
<1>2. CASE pc'[r] = "replace"
  <2>1. /\ req[r].sessId \in Auth /\ Stored(r) # None
        /\ pc' = [pc EXCEPT ![r] = "replace"]
        /\ sess' = [sess EXCEPT ![r] = Invalidated(Stored(r), clock)]
        /\ savedDate' = [savedDate EXCEPT ![r] = Stored(r).date]
        /\ clock' = clock + 1
        /\ UNCHANGED <<status, req, sessDb>>
    BY <1>2 DEF CbGet, Goto, Refuse, TypeInv, TypeOK, Shape, RequestShape, CallbackRequest
  <2>2. Stored(r) \in Element /\ clock \in Nat
    BY <2>1 DEF Stored, TypeInv, TypeOK
  <2>3. Invalidated(Stored(r), clock).date = clock /\ Stored(r).date < clock
    BY <2>1, <2>2, InvalidatedType DEF VersionInv, DatesBeforeClock, Stored
  <2>4. /\ sess'[r].date = clock /\ savedDate'[r] < clock
        /\ \A x \in Callback \ {r} : /\ sess'[x] = sess[x] /\ savedDate'[x] = savedDate[x]
                                     /\ pc'[x] = pc[x]
    BY <2>1, <2>3 DEF TypeInv, TypeOK
  <2>5. status[r] # 302
    BY DEF TypeInv, Shape, SessionShape, CbGet
  <2>6. taken' = taken /\ r \notin taken
    BY <1>2, <2>1, <2>4, <2>5 DEF taken, CbGet
  <2>7. \A x \in Callback : Holds(x) => sess[x].date \in Nat
    BY DEF TypeInv, TypeOK, Shape, SessionShape, Element
  <2>8. DatesBeforeClock'
    BY <2>1, <2>2 DEF VersionInv, DatesBeforeClock, TypeInv, TypeOK, Element
  <2>9. StampedAfterRead'
    BY <2>1, <2>2, <2>4, <2>7 DEF VersionInv, StampedAfterRead, Holds
  <2>10. NothingOlderThanTaken'
    BY <2>1, <2>4, <2>6, TakenHolds DEF VersionInv, NothingOlderThanTaken
  <2>11. OneWinnerPerVersion'
    BY <2>1, <2>4, <2>6, TakenHolds DEF VersionInv, OneWinnerPerVersion
  <2> QED
    BY <2>8, <2>9, <2>10, <2>11 DEF VersionInv
<1> QED
  BY <1>1, <1>2

(* What gets past Replace had read what is stored, so it had read a later  *)
(* version than anyone who got past Replace before it.                     *)
LEMMA CbReplaceVersion ==
    ASSUME TypeInv, VersionInv, NEW r \in Callback, CbReplace(r) PROVE VersionInv'
<1> DEFINE s == req[r].sessId
<1>1. /\ Holds(r) /\ s \in Auth /\ sess[r] \in Element /\ sess[r] # None
      /\ savedDate[r] \in Nat /\ sess[r].date \in Nat
      /\ savedDate[r] < sess[r].date /\ sess[r].date < clock
      /\ clock' = clock /\ UNCHANGED <<req, sess, savedDate>>
  BY DEF CbReplace, TypeInv, TypeOK, Shape, SessionShape, RequestShape, Holds,
         CallbackRequest, Element, VersionInv, StampedAfterRead
<1>2. \/ sessDb' = sessDb
      \/ /\ Replaceable(Stored(r), savedDate[r])
         /\ sessDb' = [sessDb EXCEPT ![s] = sess[r]]
  BY DEF CbReplace
<1>3. \/ pc'[r] = "done" /\ status'[r] # 302
      \/ /\ pc'[r] = "check" /\ status' = status
         /\ Replaceable(Stored(r), savedDate[r])
         /\ sessDb' = [sessDb EXCEPT ![s] = sess[r]]
  BY DEF CbReplace, Goto, Refuse, TypeInv, TypeOK
<1>4. \A x \in Callback \ {r} : pc'[x] = pc[x] /\ status'[x] = status[x]
  BY DEF CbReplace, Goto, Refuse, TypeInv, TypeOK
<1>5. Replaceable(Stored(r), savedDate[r]) => sessDb[s] # None /\ sessDb[s].date = savedDate[r]
  BY DEF Replaceable, Stored
<1>6. \A x \in Auth : \/ sessDb'[x] = sessDb[x]
                      \/ /\ x = s /\ sessDb'[x] = sess[r]
                         /\ sessDb[x] # None /\ sessDb[x].date = savedDate[r]
  BY <1>1, <1>2, <1>5 DEF TypeInv, TypeOK
<1>7. r \notin taken
  BY DEF taken, CbReplace, TypeInv, Shape, SessionShape
<1>8. taken' \subseteq taken \cup {r}
  BY <1>4 DEF taken
<1>9. r \in taken' => /\ sessDb'[s] = sess[r]
                      /\ sessDb[s] # None /\ sessDb[s].date = savedDate[r]
  BY <1>1, <1>3, <1>5 DEF taken, TypeInv, TypeOK
<1>10. \A x \in taken : /\ x \in Callback /\ req[x].sessId \in Auth
                        /\ sess[x].date \in Nat /\ savedDate[x] \in Nat
                        /\ savedDate[x] < sess[x].date
  BY TakenHolds DEF TypeInv, TypeOK, Shape, SessionShape, RequestShape, CallbackRequest,
     Element, VersionInv, StampedAfterRead
<1>11. DatesBeforeClock'
  BY <1>1, <1>6 DEF VersionInv, DatesBeforeClock
<1>12. StampedAfterRead'
  <2> SUFFICES ASSUME NEW x \in Callback, Holds(x)'
               PROVE  savedDate[x] < sess[x].date /\ sess[x].date < clock
    BY <1>1 DEF StampedAfterRead
  <2>1. Holds(x)
    BY <1>1, <1>4 DEF Holds
  <2> QED
    BY <2>1 DEF VersionInv, StampedAfterRead
<1>13. NothingOlderThanTaken'
  <2> SUFFICES ASSUME NEW x \in taken', sessDb'[req[x].sessId] # None
               PROVE  sessDb'[req[x].sessId].date >= sess[x].date
    BY <1>1 DEF NothingOlderThanTaken
  <2>1. CASE x = r
    BY <2>1, <1>1, <1>9
  <2>2. CASE x # r
    BY <2>2, <1>1, <1>6, <1>8, <1>10 DEF VersionInv, NothingOlderThanTaken
  <2> QED
    BY <2>1, <2>2
<1>14. OneWinnerPerVersion'
  <2>1. ASSUME r \in taken', NEW x \in taken, req[x].sessId = s
        PROVE  savedDate[x] < savedDate[r]
    BY <2>1, <1>1, <1>9, <1>10 DEF VersionInv, NothingOlderThanTaken
  <2>2. ASSUME NEW x \in taken', NEW y \in taken', x # y, req[x].sessId = req[y].sessId
        PROVE  savedDate[x] # savedDate[y]
    BY <2>1, <2>2, <1>1, <1>8, <1>10 DEF VersionInv, OneWinnerPerVersion
  <2> QED
    BY <2>2, <1>1 DEF OneWinnerPerVersion
<1> QED
  BY <1>11, <1>12, <1>13, <1>14 DEF VersionInv

(* The versions are apart in the beginning and after every step.           *)
LEMMA VersionInit == Init => VersionInv
BY DEF Init, VersionInv, DatesBeforeClock, StampedAfterRead, NothingOlderThanTaken,
   OneWinnerPerVersion, taken, Holds

LEMMA VersionStep == TypeInv /\ VersionInv /\ [Next]_vars => VersionInv'
BY QuietSteps, QuietVersion, AuthSaveVersion, CbGetVersion, CbReplaceVersion

(* Of all callbacks that read one version of a session, at most one gets   *)
(* past Replace, however their reads, stamps and writes interleave, and    *)
(* whatever crashes, expires or fails.                                     *)
THEOREM OneWinner == Spec => []OneWinnerPerVersion
<1>1. VersionInv => OneWinnerPerVersion
  BY DEF VersionInv
<1> QED
  BY TypeInit, TypeStep, VersionInit, VersionStep, <1>1, PTL DEF Spec
=============================================================================
