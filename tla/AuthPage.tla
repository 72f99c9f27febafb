------------------------------ MODULE AuthPage ------------------------------
(***************************************************************************)
(* The user authentication page of edo-auth: HandleAuth and HandleCallback *)
(* of page/auth, run concurrently by any number of HTTP requests over one  *)
(* session DB, one token DB and one IdP DB, against browsers that keep one *)
(* session cookie and identity providers that issue codes and tokens.      *)
(*                                                                         *)
(* Every request is one-shot: an element of Auth is one call of HandleAuth *)
(* and an element of Callback one call of HandleCallback.  The identifiers *)
(* that a call draws from idGen (session ID, state and nonce of an         *)
(* authentication; access token tag of a callback) are fresh, so they are  *)
(* named by the call that drew them.  An access token is named by the code *)
(* it was issued for.                                                      *)
(***************************************************************************)
EXTENDS Integers, FiniteSets

CONSTANTS
    Auth,       \* calls of HandleAuth
    Callback,   \* calls of HandleCallback
    Code,       \* authorization codes
    Idp,        \* identity providers
    Browser,
    Ta,         \* client IDs
    Redi,       \* redirect URIs
    SelfId,     \* Page.selfId, the client ID used by default
    RediUri,    \* Page.rediUri, the redirect URI used by default
    AuthUri,    \* the values of the X-Auth-Uri header
    Selector,   \* an authorization endpoint that forwards to some IdP
    Synced,     \* IdPs the external synchronisation adds to and drops from idpDb
    Durable,    \* the DBs are in redis (TRUE) or in memory (FALSE)
    AtHash,     \* IdPs put the optional at_hash into their ID tokens
    Fault,      \* what may go wrong: see FaultAssumption
    None

ASSUME NoneAssumption ==
    None \notin Auth \cup Callback \cup Code \cup Idp \cup Ta \cup Redi \cup AuthUri \cup {Selector}
ASSUME SelectorAssumption == Selector \notin Idp
ASSUME DefaultAssumption == SelfId \in Ta /\ RediUri \in Redi
ASSUME AuthUriAssumption ==
    AuthUri \subseteq [ep : Idp \cup {Selector}, ta : Ta \cup {None}, redi : Redi \cup {None}]
ASSUME SyncedAssumption == Synced \subseteq Idp
ASSUME FlagAssumption == Durable \in BOOLEAN /\ AtHash \in BOOLEAN

(* "db": a DB access fails (before or after it took effect).  "net": an    *)
(* exchange with an IdP fails.  "crash": the server is restarted.          *)
(* "expire": a saved session reaches its retention limit.  "tok": an IdP   *)
(* answers with the access token of another login.  "idTok": it leaves the *)
(* ID token out.  The others are the claims of an ID token it gets wrong.  *)
TokenField == {"iss", "nonc", "sign", "hash"}
ASSUME FaultAssumption ==
    Fault \subseteq {"db", "net", "crash", "expire", "tok", "idTok"} \cup TokenField

(***************************************************************************)
(* Data.                                                                   *)
(***************************************************************************)
(* asession.Element: inv is set once a callback took the session, date is  *)
(* the update time.  The state and nonce are those of authentication stat. *)
Element == [inv : BOOLEAN, idp : Idp \cup {None}, ta : Ta, redi : Redi,
            stat : Auth, nonc : Auth, date : Nat]

(* idToken: issuer, nonce, whose key signed it, and the hashed code        *)
(* (c_hash) or access token (at_hash).  The login that the token is about  *)
(* is the one whose nonce it carries.                                      *)
IdToken == [iss : Idp, nonc : Auth, sign : Idp \cup {None}, hash : Code \cup {None}]

AuthRequest == [browser : Browser, uri : AuthUri \cup {None}]
CallbackRequest == [sessId : Auth \cup {None}, code : Code \cup {None}, stat : Auth,
                    idTok : IdToken \cup {None}, browser : Browser]
Login == [auth : Auth, idp : Idp, idTok : IdToken \cup {None}]
SavedToken == [tok : Code, idp : Idp]
TokenResponse == [tok : Code \cup {None}, idTok : IdToken \cup {None}]
Refusal == [tok |-> None, idTok |-> None]

ASSUME RecordAssumption ==
    /\ None \notin Element /\ None \notin IdToken /\ None \notin AuthRequest
    /\ None \notin CallbackRequest /\ None \notin Login /\ None \notin SavedToken
    /\ None \notin TokenResponse

(* What an IdP that should answer with the ID token t may answer with.     *)
Answers(t) ==
    {u \in IdToken : \A f \in TokenField \ Fault : u[f] = t[f]}
        \cup (IF "idTok" \in Fault THEN {None} ELSE {})

ClientId(u)    == IF u.ta = None THEN SelfId ELSE u.ta
RedirectUri(u) == IF u.redi = None THEN RediUri ELSE u.redi

VARIABLES
    authPc,     \* [Auth -> ..]: where each call of HandleAuth is
    authReq,    \* [Auth -> ..]: its request
    authIdp,    \* [Auth -> ..]: the IdP it found for the endpoint
    sessDb,     \* [Auth -> ..]: asession.Db
    clock,      \* the next reading of time.Now()
    cookie,     \* [Browser -> ..]: the session cookie
    idpDb,      \* the registered IdPs
    login,      \* [Code -> ..]: the authentication response the code came with
    redeemed,   \* the codes an IdP exchanged for an access token
    pc,         \* [Callback -> ..]: where each call of HandleCallback is
    req,        \* [Callback -> ..]: its request
    sess,       \* [Callback -> ..]: its copy of the session
    savedDate,  \* [Callback -> ..]: the update time the copy was read with
    idp,        \* [Callback -> ..]: the IdP to ask
    resp,       \* [Callback -> ..]: the answer of the IdP's token endpoint
    tokDb,      \* [Callback -> ..]: token.Db, by tag
    status,     \* [Callback -> ..]: the HTTP status answered, 0 before
    user        \* [Callback -> ..]: the logins that X-Auth-User describes

authVars == <<authPc, authReq, authIdp>>
dbVars   == <<sessDb, clock>>
idpVars  == <<login, redeemed>>
cbVars   == <<pc, req, sess, savedDate, idp, resp, status, user>>
vars     == <<authVars, dbVars, cookie, idpDb, idpVars, cbVars, tokDb>>

(* A call that is neither new nor over.                                    *)
authInFlight == {a \in Auth : authPc[a] \in {"search", "save"}}
inFlight == {r \in Callback : pc[r] \notin {"idle", "done", "dead"}}

TypeOK ==
    /\ authPc \in [Auth -> {"idle", "search", "save", "redirected", "failed"}]
    /\ authReq \in [Auth -> AuthRequest \cup {None}]
    /\ authIdp \in [Auth -> Idp \cup {None}]
    /\ sessDb \in [Auth -> Element \cup {None}]
    /\ clock \in Nat
    /\ cookie \in [Browser -> Auth \cup {None}]
    /\ idpDb \in SUBSET Idp
    /\ login \in [Code -> Login \cup {None}]
    /\ redeemed \in SUBSET Code
    /\ pc \in [Callback -> {"idle", "get", "replace", "check", "resolve", "token",
                            "save", "verify", "account", "done", "dead"}]
    /\ req \in [Callback -> CallbackRequest \cup {None}]
    /\ sess \in [Callback -> Element \cup {None}]
    /\ savedDate \in [Callback -> Nat]
    /\ idp \in [Callback -> Idp \cup {None}]
    /\ resp \in [Callback -> TokenResponse \cup {None}]
    /\ tokDb \in [Callback -> SavedToken \cup {None}]
    /\ status \in [Callback -> {0, 302, 400, 403, 500}]
    /\ user \in [Callback -> SUBSET Auth]

Init ==
    /\ authPc = [a \in Auth |-> "idle"]
    /\ authReq = [a \in Auth |-> None]
    /\ authIdp = [a \in Auth |-> None]
    /\ sessDb = [a \in Auth |-> None]
    /\ clock = 0
    /\ cookie = [b \in Browser |-> None]
    /\ idpDb = Idp
    /\ login = [c \in Code |-> None]
    /\ redeemed = {}
    /\ pc = [r \in Callback |-> "idle"]
    /\ req = [r \in Callback |-> None]
    /\ sess = [r \in Callback |-> None]
    /\ savedDate = [r \in Callback |-> 0]
    /\ idp = [r \in Callback |-> None]
    /\ resp = [r \in Callback |-> None]
    /\ tokDb = [r \in Callback |-> None]
    /\ status = [r \in Callback |-> 0]
    /\ user = [r \in Callback |-> {}]

(***************************************************************************)
(* HandleAuth.                                                             *)
(***************************************************************************)
AuthGoto(a, l) == authPc' = [authPc EXCEPT ![a] = l]

(* A request without X-Auth-Uri is answered with 400.                      *)
ReceiveAuth(a, b, u) ==
    /\ authPc[a] = "idle"
    /\ authReq' = [authReq EXCEPT ![a] = [browser |-> b, uri |-> u]]
    /\ AuthGoto(a, IF u = None THEN "failed" ELSE "search")
    /\ UNCHANGED <<authIdp, dbVars, cookie, idpDb, idpVars, cbVars, tokDb>>

(* The session is bound to an IdP when the endpoint belongs to a           *)
(* registered one.                                                         *)
AuthSearch(a) ==
    /\ authPc[a] = "search"
    /\ \/ /\ authReq[a].uri.ep \in idpDb
          /\ authIdp' = [authIdp EXCEPT ![a] = authReq[a].uri.ep]
          /\ AuthGoto(a, "save")
       \/ /\ authReq[a].uri.ep \notin idpDb
          /\ AuthGoto(a, "save")
          /\ UNCHANGED authIdp
       \/ /\ "db" \in Fault
          /\ AuthGoto(a, "failed")
          /\ UNCHANGED authIdp
    /\ UNCHANGED <<authReq, dbVars, cookie, idpDb, idpVars, cbVars, tokDb>>

(* A mutant: the client ID of the request, not the one acted as.           *)
NewSessionBareTa(a, now) ==
    [inv |-> FALSE, idp |-> authIdp[a], ta |-> authReq[a].uri.ta,
     redi |-> RedirectUri(authReq[a].uri), stat |-> a, nonc |-> a, date |-> now]

NewSession(a, now) ==
    [inv |-> FALSE, idp |-> authIdp[a], ta |-> ClientId(authReq[a].uri),
     redi |-> RedirectUri(authReq[a].uri), stat |-> a, nonc |-> a, date |-> now]

(* The query of the URI that the browser is sent to.                       *)
Location(a) ==
    [ep |-> authReq[a].uri.ep, ta |-> ClientId(authReq[a].uri),
     redi |-> RedirectUri(authReq[a].uri), idToken |-> authIdp[a] = None]

(* The session is saved, then the cookie and the redirect are answered.    *)
AuthSave(a) ==
    /\ authPc[a] = "save"
    /\ clock' = clock + 1
    /\ \/ /\ sessDb' = [sessDb EXCEPT ![a] = NewSession(a, clock)]
          /\ cookie' = [cookie EXCEPT ![authReq[a].browser] = a]
          /\ AuthGoto(a, "redirected")
       \/ /\ "db" \in Fault
          /\ sessDb' \in {sessDb, [sessDb EXCEPT ![a] = NewSession(a, clock)]}
          /\ AuthGoto(a, "failed")
          /\ UNCHANGED cookie
    /\ UNCHANGED <<authReq, authIdp, idpDb, idpVars, cbVars, tokDb>>

(***************************************************************************)
(* The outside: identity providers, browsers, synchronisation.             *)
(***************************************************************************)
(* IdP i logs the user of a in and issues code c, with an ID token when    *)
(* the response type asked for one.  A code is issued once.                *)
Authorize(a, i, c) ==
    /\ authPc[a] = "redirected"
    /\ Location(a).ep \in {i, Selector}
    /\ login[c] = None
    /\ \E t \in IF Location(a).idToken
                THEN Answers([iss |-> i, nonc |-> a, sign |-> i, hash |-> c])
                ELSE {None} :
          login' = [login EXCEPT ![c] = [auth |-> a, idp |-> i, idTok |-> t]]
    /\ UNCHANGED <<authVars, dbVars, cookie, idpDb, redeemed, cbVars, tokDb>>

(* The browser sends rq with the cookie it has by now, or with none when   *)
(* it dropped an outdated one.                                             *)
Send(r, a, c, t) ==
    LET b == authReq[a].browser
    IN  /\ pc[r] = "idle"
        /\ \E s \in {cookie[b], None} :
              req' = [req EXCEPT ![r] = [sessId |-> s, code |-> c, stat |-> a,
                                         idTok |-> t, browser |-> b]]
        /\ pc' = [pc EXCEPT ![r] = "get"]
        /\ UNCHANGED <<authVars, dbVars, cookie, idpDb, idpVars, sess, savedDate, idp,
                       resp, status, user, tokDb>>

(* The redirect of an authentication response, perhaps not for the first   *)
(* time.                                                                   *)
SendCallback(r, c) ==
    /\ login[c] # None
    /\ Send(r, login[c].auth, c, login[c].idTok)

(* The redirect of an error response, which has no code.                   *)
SendDenied(r, a) ==
    /\ authPc[a] = "redirected"
    /\ Send(r, a, None, None)

(* The data of an IdP is added to or dropped from the shared IdP DB.       *)
SyncIdp(i) ==
    /\ i \in Synced
    /\ idpDb' = IF i \in idpDb THEN idpDb \ {i} ELSE idpDb \cup {i}
    /\ UNCHANGED <<authVars, dbVars, cookie, idpVars, cbVars, tokDb>>

(***************************************************************************)
(* HandleCallback.                                                         *)
(***************************************************************************)
Goto(r, l) == pc' = [pc EXCEPT ![r] = l]

(* The answer without X-Auth-User.                                         *)
Refuse(r, st) ==
    /\ Goto(r, "done")
    /\ status' = [status EXCEPT ![r] = st]
    /\ UNCHANGED user

(* Mutants: one of the two assignments is missing.                         *)
InvalidatedUndated(e, now)  == [e EXCEPT !.inv = TRUE]
InvalidatedUnmarked(e, now) == [e EXCEPT !.date = now]

(* Element.Invalidate                                                      *)
Invalidated(e, now) == [e EXCEPT !.inv = TRUE, !.date = now]

Stored(r) == sessDb[req[r].sessId]

(* The session is read and the local copy is invalidated.                  *)
CbGet(r) ==
    /\ pc[r] = "get"
    /\ \/ /\ req[r].sessId # None
          /\ Stored(r) # None
          /\ sess' = [sess EXCEPT ![r] = Invalidated(Stored(r), clock)]
          /\ savedDate' = [savedDate EXCEPT ![r] = Stored(r).date]
          /\ clock' = clock + 1
          /\ Goto(r, "replace")
          /\ UNCHANGED <<status, user>>
       \/ /\ \/ req[r].sessId = None
             \/ req[r].sessId # None /\ Stored(r) = None
          /\ Refuse(r, 400)
          /\ UNCHANGED <<sess, savedDate, clock>>
       \/ /\ req[r].sessId # None
          /\ "db" \in Fault
          /\ Refuse(r, 500)
          /\ UNCHANGED <<sess, savedDate, clock>>
    /\ UNCHANGED <<authVars, sessDb, cookie, idpDb, idpVars, req, idp, resp, tokDb>>

(* Mutants: the date is not compared, or compared by order.                *)
ReplaceableAnyVersion(e, date) == e # None
ReplaceableOlder(e, date)      == e # None /\ e.date < date

(* The condition under which Db.Replace stores the element.                *)
Replaceable(e, date) == e # None /\ e.date = date

(* Only the copy read last may replace the session.                        *)
CbReplace(r) ==
    /\ pc[r] = "replace"
    /\ LET ok == Replaceable(Stored(r), savedDate[r])
           replaced == [sessDb EXCEPT ![req[r].sessId] = sess[r]]
       IN  \/ /\ ok
              /\ sessDb' = replaced
              /\ Goto(r, "check")
              /\ UNCHANGED <<status, user>>
           \/ /\ ~ok
              /\ Refuse(r, 400)
              /\ UNCHANGED sessDb
           \/ /\ "db" \in Fault
              /\ Refuse(r, 500)
              /\ sessDb' \in IF ok THEN {sessDb, replaced} ELSE {sessDb}
    /\ UNCHANGED <<authVars, clock, cookie, idpDb, idpVars, req, sess, savedDate, idp,
                   resp, tokDb>>

(* A mutant: the state is not compared.                                    *)
StateUnchecked(r) == TRUE

StateMatches(r) == req[r].stat = sess[r].stat

(* The request is parsed and its state compared.                           *)
CbCheck(r) ==
    /\ pc[r] = "check"
    /\ \/ /\ req[r].code # None
          /\ StateMatches(r)
          /\ Goto(r, "resolve")
          /\ UNCHANGED <<status, user>>
       \/ req[r].code = None /\ Refuse(r, 400)
       \/ req[r].code # None /\ ~StateMatches(r) /\ Refuse(r, 403)
    /\ UNCHANGED <<authVars, dbVars, cookie, idpDb, idpVars, req, sess, savedDate, idp,
                   resp, tokDb>>

(* The IdP that the session is bound to, or else the one that the request  *)
(* carries an ID token of.                                                 *)
NamedIdp(r) ==
    IF sess[r].idp # None THEN sess[r].idp
    ELSE IF req[r].idTok # None THEN req[r].idTok.iss ELSE None

(* idToken.verify succeeds with the keys of IdP i.                         *)
Verifies(t, i) == t.sign = i

FrontTokenValid(r) ==
    LET t == req[r].idTok
    IN  /\ t.nonc = sess[r].nonc
        /\ Verifies(t, t.iss)
        /\ t.hash = req[r].code

(* The IdP is looked up, the ID token of an unbound session is verified    *)
(* and the token request is signed and sent.                               *)
CbResolve(r) ==
    /\ pc[r] = "resolve"
    /\ \/ /\ NamedIdp(r) \in idpDb
          /\ sess[r].idp = None => FrontTokenValid(r)
          /\ idp' = [idp EXCEPT ![r] = NamedIdp(r)]
          /\ Goto(r, "token")
          /\ UNCHANGED <<status, user>>
       \/ /\ NamedIdp(r) \notin idpDb
          /\ Refuse(r, 400)
          /\ UNCHANGED idp
       \/ /\ NamedIdp(r) \in idpDb
          /\ sess[r].idp = None
          /\ ~FrontTokenValid(r)
          /\ Refuse(r, 403)
          /\ UNCHANGED idp
       \/ /\ "db" \in Fault
          /\ Refuse(r, 500)
          /\ UNCHANGED idp
    /\ UNCHANGED <<authVars, dbVars, cookie, idpDb, idpVars, req, sess, savedDate, resp,
                   tokDb>>

(* The request to the token endpoint of idp[r].                            *)
TokenRequest(r) == [code |-> req[r].code, ta |-> sess[r].ta, redi |-> sess[r].redi]

(* What the IdP requires of it: its own unspent code, from the client it   *)
(* issued the code to.                                                     *)
Redeemable(r) ==
    LET q == TokenRequest(r)
        l == login[q.code]
    IN  /\ q.code \notin redeemed
        /\ l.idp = idp[r]
        /\ Location(l.auth).ta = q.ta
        /\ Location(l.auth).redi = q.redi

(* The answers to the token request for code c of IdP i.                   *)
TokenAnswers(c, i) ==
    LET honest == [iss |-> i, nonc |-> login[c].auth, sign |-> i,
                   hash |-> IF AtHash THEN c ELSE None]
    IN  [tok : IF "tok" \in Fault THEN redeemed \cup {c} ELSE {c}, idTok : Answers(honest)]

(* The token endpoint answers.  http.DefaultClient waits without limit.    *)
IdpToken(r) ==
    /\ pc[r] = "token"
    /\ \/ /\ Redeemable(r)
          /\ redeemed' = redeemed \cup {req[r].code}
          /\ \E t \in TokenAnswers(req[r].code, idp[r]) : resp' = [resp EXCEPT ![r] = t]
          /\ Goto(r, "save")
          /\ UNCHANGED <<status, user>>
       \/ /\ ~Redeemable(r)
          /\ resp' = [resp EXCEPT ![r] = Refusal]
          /\ Goto(r, "save")
          /\ UNCHANGED <<redeemed, status, user>>
       \/ /\ "net" \in Fault
          /\ redeemed' \in {redeemed} \cup
                 (IF Redeemable(r) THEN {redeemed \cup {req[r].code}} ELSE {})
          /\ Refuse(r, 500)
          /\ UNCHANGED resp
    /\ UNCHANGED <<authVars, dbVars, cookie, idpDb, login, req, sess, savedDate, idp, tokDb>>

(* A mutant: the IdP of the session, which may have none.                  *)
NewTokenOfSession(r) == [tok |-> resp[r].tok, idp |-> sess[r].idp]

NewToken(r) == [tok |-> resp[r].tok, idp |-> idp[r]]

(* The access token is saved under a fresh tag.                            *)
CbSaveToken(r) ==
    /\ pc[r] = "save"
    /\ \/ /\ resp[r].tok # None
          /\ tokDb' = [tokDb EXCEPT ![r] = NewToken(r)]
          /\ Goto(r, "verify")
          /\ UNCHANGED <<status, user>>
       \/ /\ resp[r].tok = None
          /\ Refuse(r, 403)
          /\ UNCHANGED tokDb
       \/ /\ resp[r].tok # None
          /\ "db" \in Fault
          /\ Refuse(r, 500)
          /\ tokDb' \in {tokDb, [tokDb EXCEPT ![r] = NewToken(r)]}
    /\ UNCHANGED <<authVars, dbVars, cookie, idpDb, idpVars, req, sess, savedDate, idp, resp>>

(* A mutant: the nonce is not compared.                                    *)
BackTokenAnyNonce(r) ==
    LET t == resp[r].idTok
    IN  /\ t # None
        /\ Verifies(t, idp[r])
        /\ t.hash # None => t.hash = resp[r].tok

BackTokenValid(r) ==
    LET t == resp[r].idTok
    IN  /\ t # None
        /\ t.nonc = sess[r].nonc
        /\ Verifies(t, idp[r])
        /\ t.hash # None => t.hash = resp[r].tok

(* The ID token of the token response is verified.                         *)
CbVerify(r) ==
    /\ pc[r] = "verify"
    /\ \/ /\ BackTokenValid(r)
          /\ Goto(r, "account")
          /\ UNCHANGED <<status, user>>
       \/ ~BackTokenValid(r) /\ Refuse(r, 403)
    /\ UNCHANGED <<authVars, dbVars, cookie, idpDb, idpVars, req, sess, savedDate, idp,
                   resp, tokDb>>

(* The logins whose attributes are merged into X-Auth-User when the user   *)
(* info describes the logins in acnts.                                     *)
Merged(r, acnts) ==
    (IF sess[r].idp = None THEN {req[r].idTok.nonc} ELSE {})
        \cup {resp[r].idTok.nonc} \cup acnts

(* The user info endpoint answers with the account of the token, or with   *)
(* an error, which is taken for attributes too if it is JSON.              *)
AccountAnswers(r) == {{login[resp[r].tok].auth}, {}}

(* The user info is fetched and merged, the session cookie is dropped and  *)
(* the user is sent back.                                                  *)
CbAccount(r) ==
    /\ pc[r] = "account"
    /\ \/ /\ \E acnts \in AccountAnswers(r) :
                user' = [user EXCEPT ![r] = Merged(r, acnts)]
          /\ status' = [status EXCEPT ![r] = 302]
          /\ cookie' = [cookie EXCEPT ![req[r].browser] = None]
          /\ Goto(r, "done")
       \/ /\ "net" \in Fault
          /\ Refuse(r, 500)
          /\ UNCHANGED cookie
    /\ UNCHANGED <<authVars, dbVars, idpDb, idpVars, req, sess, savedDate, idp, resp, tokDb>>

(***************************************************************************)
(* The process and the DBs.                                                *)
(***************************************************************************)
(* A restart ends the calls in flight, and loses DBs kept in memory.       *)
Crash ==
    /\ "crash" \in Fault
    /\ authPc' = [a \in Auth |-> IF a \in authInFlight THEN "failed" ELSE authPc[a]]
    /\ pc' = [r \in Callback |-> IF r \in inFlight THEN "dead" ELSE pc[r]]
    /\ \/ /\ ~Durable
          /\ sessDb' = [a \in Auth |-> None]
          /\ tokDb' = [r \in Callback |-> None]
       \/ Durable /\ UNCHANGED <<sessDb, tokDb>>
    /\ UNCHANGED <<authReq, authIdp, clock, cookie, idpDb, idpVars, req, sess, savedDate,
                   idp, resp, status, user>>

Expire(a) ==
    /\ "expire" \in Fault
    /\ sessDb[a] # None
    /\ sessDb' = [sessDb EXCEPT ![a] = None]
    /\ UNCHANGED <<authVars, clock, cookie, idpDb, idpVars, cbVars, tokDb>>

HandleAuth(a) ==
    \/ \E b \in Browser, u \in AuthUri \cup {None} : ReceiveAuth(a, b, u)
    \/ AuthSearch(a)
    \/ AuthSave(a)

HandleCallback(r) ==
    \/ CbGet(r)
    \/ CbReplace(r)
    \/ CbCheck(r)
    \/ CbResolve(r)
    \/ IdpToken(r)
    \/ CbSaveToken(r)
    \/ CbVerify(r)
    \/ CbAccount(r)

Outside ==
    \/ \E a \in Auth, i \in Idp, c \in Code : Authorize(a, i, c)
    \/ \E r \in Callback, c \in Code : SendCallback(r, c)
    \/ \E r \in Callback, a \in Auth : SendDenied(r, a)
    \/ \E i \in Idp : SyncIdp(i)
    \/ Crash
    \/ \E a \in Auth : Expire(a)

Next ==
    \/ \E a \in Auth : HandleAuth(a)
    \/ \E r \in Callback : HandleCallback(r)
    \/ Outside

Spec == Init /\ [][Next]_vars

(* A handler is a goroutine, which the Go scheduler runs; the IdP and the  *)
(* connections to it are assumed to answer or to break in the end.         *)
FairSpec == Spec /\ \A r \in Callback : WF_vars(HandleCallback(r))

(***************************************************************************)
(* Properties.                                                             *)
(***************************************************************************)
(* The callbacks that Replace let take their session.                      *)
taken == {r \in Callback : pc[r] \in {"check", "resolve", "token", "save", "verify", "account"}
                           \/ status[r] = 302}

(* Of all callbacks that read one version of a session, at most one gets   *)
(* past Replace, in whatever order they read, stamp and write: the purpose *)
(* of savedDate in handler_callback.go.                                    *)
OneWinnerPerVersion ==
    \A r1, r2 \in taken :
        r1 # r2 /\ req[r1].sessId = req[r2].sessId => savedDate[r1] # savedDate[r2]

(* Once the code of an authentication has been exchanged, no later reader  *)
(* of its session can find it valid: callbackServe writes the invalidation *)
(* to the DB before anything leaves for the IdP.                           *)
SpentCodeSpentSession ==
    \A c \in redeemed :
        LET e == sessDb[login[c].auth] IN e # None => e.inv

(* A token request under way carries the code of the very authentication   *)
(* the session was made for, goes to the IdP that issued it and repeats    *)
(* the client ID and redirect URI of its redirect, whatever tabs and       *)
(* cookies got mixed up and whatever the ID token of the front channel     *)
(* claims.                                                                 *)
RedeemedAsIssued ==
    \A r \in Callback : pc[r] = "token" =>
        LET l == login[req[r].code]
        IN  /\ l.auth = req[r].sessId
            /\ l.idp = idp[r]
            /\ Location(l.auth).ta = sess[r].ta
            /\ Location(l.auth).redi = sess[r].redi

(* X-Auth-User describes nobody but who logged in for the session of the   *)
(* callback, though its claims come from two ID tokens and the user info.  *)
SignedInAsLoggedIn ==
    \A r \in Callback : status[r] = 302 => user[r] \subseteq {req[r].sessId}

(* The at_tag handed to the backend names a saved access token of the IdP  *)
(* that logged the user in, unless a restart lost a token DB in memory.    *)
TagResolves ==
    \A r \in Callback : status[r] = 302 =>
        \/ tokDb[r] # None /\ tokDb[r].idp = login[req[r].code].idp
        \/ ~Durable

(* A stored session only moves forward: it never turns valid again, nor is *)
(* a newer version overwritten by a copy stamped before it.                *)
SessionMovesForward ==
    [][\A a \in Auth :
           LET old == sessDb[a]
               new == sessDb'[a]
           IN  old # None /\ new # None /\ old # new =>
                   new.inv /\ new.date > old.date]_vars

(* When nothing fails and no other tab uses the cookie, a user who comes   *)
(* back with a code is signed in in the end by some callback of the        *)
(* session, however often the browser repeats the request, unless one      *)
(* without a code came in between and used the session up.                 *)
SignedInInTheEnd ==
    \A a \in Auth :
        (\E r \in Callback : pc[r] = "get" /\ req[r].sessId = a /\ req[r].code # None)
            ~> (\E r \in Callback : req[r] # None /\ req[r].sessId = a
                                        /\ (status[r] = 302 \/ req[r].code = None))

(* What "reused user session" (handler_callback.go:79) promises: a session *)
(* signs a user in once.                                                   *)
SessionUsedOnce ==
    \A r1, r2 \in Callback :
        r1 # r2 /\ status[r1] = 302 /\ status[r2] = 302 => req[r1].sessId # req[r2].sessId

(* What page/auth/README.md 1.4 promises: an access token is saved only    *)
(* when the nonce of the ID token that came with it is right.              *)
OnlyVerifiedTokensSaved ==
    \A r \in Callback : tokDb[r] # None => resp[r].idTok # None /\ resp[r].idTok.nonc = sess[r].nonc
=============================================================================
