------------------------------- MODULE Front -------------------------------
(***************************************************************************)
(* The nginx frontends (auth.lua, auth_callback.lua, coop.lua and their    *)
(* session modules in lib) over one redis, in front of the backends over   *)
(* one token DB, with the times that tie them: the expiry of the access    *)
(* token told as at_exp, its retention in the token DB, the Expires of the *)
(* cookies and the lifetimes of the sessions in redis.                     *)
(*                                                                         *)
(* Every request is one-shot: one of a page, a callback or one of an API.  *)
(* Callbacks and API requests with code tokens go to the backend, which    *)
(* gets an access token, saves it and answers; the session ID, the tag and *)
(* the headers it draws are named by the request.  How the backends come   *)
(* to an answer is in AuthPage and Coop.                                   *)
(*                                                                         *)
(* All hosts share one clock, of Sec ticks to a second.                    *)
(***************************************************************************)
EXTENDS Integers

CONSTANTS
    Request,
    Sec,        \* ticks per second
    TokLife,    \* the lifetimes IdPs give to access tokens, 0 for none told
    TokDbExpIn, \* how long access tokens are kept
    FsessExpIn, \* lifetime of the frontend session
    Lag,        \* bound of a connection to redis and a SET together, of redis_timeout each
    Fault,      \* what may go wrong: see FaultAssumption
    Start,      \* the time at which a run begins
    MaxNow,     \* bound of the time
    None

(* "redis": an access to redis from nginx fails, before or after it took   *)
(* effect.  "backend": the backend answers with an error.  "crash": it is  *)
(* restarted.                                                              *)
ASSUME FaultAssumption == Fault \subseteq {"redis", "backend", "crash"}
ASSUME TimeAssumption ==
    /\ Sec \in Nat \ {0} /\ TokDbExpIn \in Nat \ {0} /\ FsessExpIn \in Nat
    /\ TokLife \subseteq Nat /\ Lag \in Nat /\ Start \in Nat /\ MaxNow \in Nat

VARIABLES
    now,
    tokDbType, tokDb,   \* see TokenDb
    lost,       \* the requests whose access tokens went with a DB in memory
    store,      \* [{"asession", "csession"} -> [Request -> ..]]: the sessions in redis
    pc,         \* [Request -> ..]: where each request is
    kind,       \* [Request -> ..]: the frontend it comes to
    form,       \* [Request -> ..]: how the request is made
    sess,       \* [Request -> ..]: the session that its cookie declares
    got,        \* [Request -> ..]: what the backend has got for it and answered
    status,     \* [Request -> ..]: the status answered, 0 before; 200 if passed on
    shown       \* [Request -> ..]: the headers it is passed on with

reqVars == <<pc, kind, form, sess, got, status, shown>>
vars == <<now, tokDbType, tokDb, lost, store, reqVars>>

Tokens == INSTANCE TokenDb WITH Tag <- Request, Keep <- TokDbExpIn

(* The values of the headers X-Auth-User, X-Auth-User-Tag, X-Auth-From-Id  *)
(* and X-Auth-Users in the answer to request r, and, named "own", those    *)
(* that request r came with.                                               *)
User == [of : Request, at_tag : Request, at_exp : Int]
Value == [name : {"tag", "from", "users", "own"}, of : Request] \cup {None}
Headers == [user : User, tag : Value, from : Value, users : Value]

(* The access token's expiry and the lifetime that it was given, the       *)
(* headers answered, Expires of the session cookie, the lifetime to save   *)
(* the session with and by when that has reached redis or failed.          *)
Got == [exp : Int, life : Nat, answer : Headers \cup {None}, cookie : Int \cup {None},
        expIn : Nat, sentBy : Nat]
Nothing == [exp |-> 0, life |-> 0, answer |-> None, cookie |-> None, expIn |-> 0, sentBy |-> 0]

(* A session as redis has it.                                              *)
Session(p) == [value : IF p = "asession" THEN User ELSE Headers, until : Nat]

ASSUME RecordAssumption ==
    /\ None \notin Session("asession") \cup Session("csession")
    /\ None \notin Headers \cup [exp : Int, until : Nat]

TypeOK ==
    /\ now \in Nat
    /\ Tokens!TypeOK
    /\ lost \subseteq Request
    /\ DOMAIN store = {"asession", "csession"}
    /\ \A s \in {"asession", "csession"} :
          store[s] \in [Request -> Session(s) \cup {None}]
    /\ pc \in [Request -> {"idle", "exchange", "save", "answer", "front", "set", "get", "done"}]
    /\ kind \in [Request -> {"none", "page", "callback", "api"}]
    /\ form \in [Request -> {"none", "session", "header", "query"}]
    /\ sess \in [Request -> Request \cup {None}]
    /\ got \in [Request -> Got]
    /\ status \in [Request -> {0, 200, 302, 400, 403, 500}]
    /\ shown \in [Request -> Headers \cup {None}]

Init ==
    /\ now = Start
    /\ Tokens!Init
    /\ lost = {}
    /\ store = [s \in {"asession", "csession"} |-> [r \in Request |-> None]]
    /\ pc = [r \in Request |-> "idle"]
    /\ kind = [r \in Request |-> "none"]
    /\ form = [r \in Request |-> "none"]
    /\ sess = [r \in Request |-> None]
    /\ got = [r \in Request |-> Nothing]
    /\ status = [r \in Request |-> 0]
    /\ shown = [r \in Request |-> None]

Floor(t) == (t \div Sec) * Sec

(***************************************************************************)
(* Requests come in.                                                       *)
(***************************************************************************)
Goto(r, l) == pc' = [pc EXCEPT ![r] = l]
Ends(r, st) == Goto(r, "done") /\ status' = [status EXCEPT ![r] = st]

Arrives(r, k) == pc[r] = "idle" /\ kind' = [kind EXCEPT ![r] = k]

(* Nothing of what the backend got reaches the client.                     *)
Fails(r, st) == Ends(r, st) /\ got' = [got EXCEPT ![r] = Nothing]

(* The requests whose session cookies clients have got.                    *)
Handed(k) == {r \in Request : kind[r] = k /\ pc[r] = "done" /\ got[r].cookie # None}

(* A page is asked for with or without the cookie of a session.  One       *)
(* without goes to the backend, which starts an authentication.            *)
ReceivePage(r) ==
    /\ Arrives(r, "page")
    /\ \/ /\ \E s \in Handed("callback") : sess' = [sess EXCEPT ![r] = s]
          /\ form' = [form EXCEPT ![r] = "session"]
          /\ Goto(r, "get")
          /\ UNCHANGED status
       \/ Ends(r, 302) /\ UNCHANGED <<form, sess>>
    /\ UNCHANGED <<now, tokDbType, tokDb, lost, store, got, shown>>

ReceiveCallback(r) ==
    /\ Arrives(r, "callback")
    /\ Goto(r, "exchange")
    /\ UNCHANGED <<now, tokDbType, tokDb, lost, store, form, sess, got, status, shown>>

(* The backend finds code tokens in the request of the frontend, which has *)
(* the headers, but not the query, of the one that it is made for.         *)
Reaches(f) == f = "header"

(* A declared session goes before code tokens.                             *)
ReceiveApi(r) ==
    /\ Arrives(r, "api")
    /\ \/ /\ \E s \in Handed("api") : sess' = [sess EXCEPT ![r] = s]
          /\ form' = [form EXCEPT ![r] = "session"]
          /\ Goto(r, "get")
          /\ UNCHANGED status
       \/ /\ \E f \in {"header", "query"} :
                /\ form' = [form EXCEPT ![r] = f]
                /\ \/ Reaches(f) /\ Goto(r, "exchange") /\ UNCHANGED status
                   \/ ~Reaches(f) /\ Ends(r, 400)
          /\ UNCHANGED sess
       \/ Ends(r, 403) /\ UNCHANGED <<form, sess>>
    /\ UNCHANGED <<now, tokDbType, tokDb, lost, store, got, shown>>

(***************************************************************************)
(* The backends.                                                           *)
(***************************************************************************)
(* The answer of an IdP is read.  A token response without expires_in      *)
(* leaves the zero time, long past, and a cooperation response now.        *)
Exchange(r) ==
    /\ pc[r] = "exchange"
    /\ \E l \in TokLife :
          got' = [got EXCEPT ![r].life = l,
                             ![r].exp = IF kind[r] = "callback" /\ l = 0 THEN -Sec ELSE now + l]
    /\ Goto(r, "save")
    /\ UNCHANGED <<now, tokDbType, tokDb, lost, store, kind, form, sess, status, shown>>

(* A mutant: another lifetime among the parameters of authpage.New.        *)
KeptUntilFsess(r) == now + FsessExpIn

(* The end of the retention: of a cooperation it counts from the answer of *)
(* the IdP, like the expiry.                                               *)
KeptUntil(r) ==
    (IF kind[r] = "callback" THEN now ELSE got[r].exp - got[r].life) + TokDbExpIn

SaveToken(r) ==
    /\ pc[r] = "save"
    /\ \/ /\ Tokens!Save(r, got[r].exp, KeptUntil(r))
          /\ Goto(r, "answer")
          /\ UNCHANGED <<got, status>>
       \/ /\ Tokens!Refused(KeptUntil(r))
          /\ Fails(r, 500)
          /\ UNCHANGED tokDb
    /\ UNCHANGED <<now, tokDbType, lost, store, kind, form, sess, shown>>

AnswerTo(r, users) ==
    [user  |-> [of |-> r, at_tag |-> r, at_exp |-> Floor(got[r].exp)],
     tag   |-> IF kind[r] = "api" THEN [name |-> "tag", of |-> r] ELSE None,
     from  |-> IF kind[r] = "api" THEN [name |-> "from", of |-> r] ELSE None,
     users |-> users]

(* X-Auth-Users is there if other accounts take part.                      *)
Users(r) == {None} \cup (IF kind[r] = "api" THEN {[name |-> "users", of |-> r]} ELSE {})

(* The session cookie: of the frontend with its own lifetime, or of a      *)
(* cooperation that may be repeated with that of the access token.         *)
Cookies(r) ==
    IF kind[r] = "callback" THEN {Floor(now + FsessExpIn)} ELSE {Floor(got[r].exp), None}

Answer(r) ==
    /\ pc[r] = "answer"
    /\ \E u \in Users(r), c \in Cookies(r) :
          got' = [got EXCEPT ![r].answer = AnswerTo(r, u), ![r].cookie = c]
    /\ Goto(r, "front")
    /\ UNCHANGED <<now, tokDbType, tokDb, lost, store, kind, form, sess, status, shown>>

AtBackend == {r \in Request : pc[r] \in {"exchange", "save", "answer"}}

(* An answer without X-Auth-User is passed back, whatever its status.      *)
BackendFails(r) ==
    /\ "backend" \in Fault
    /\ r \in AtBackend
    /\ Fails(r, 500)
    /\ UNCHANGED <<now, tokDbType, tokDb, lost, store, kind, form, sess, shown>>

(***************************************************************************)
(* The frontends.                                                          *)
(***************************************************************************)
(* A mutant: the date is taken for a duration.                             *)
RemainingAbsolute(r) == got[r].cookie

(* Expires less ngx.time, in whole seconds.                                *)
Remaining(r) == got[r].cookie - Floor(now)

(* A mutant: a lifetime that has run out is not told apart.                *)
SavableOutdated(r) == got[r].cookie # None

Savable(r) == got[r].cookie # None /\ Remaining(r) > 0

(* The frontends set the headers that there are, and clear none: what the  *)
(* request came with goes on in place of one that is missing.              *)
HeaderOf(r, v) == IF v # None THEN {v} ELSE {None, [name |-> "own", of |-> r]}

PassedOn(r, h) ==
    [user  : {h.user},
     tag   : HeaderOf(r, h.tag),
     from  : HeaderOf(r, h.from),
     users : HeaderOf(r, h.users)]

(* auth_callback.lua needs a session to save, coop.lua goes without.       *)
Front(r) ==
    /\ pc[r] = "front"
    /\ \/ /\ Savable(r)
          /\ got' = [got EXCEPT ![r].expIn = Remaining(r), ![r].sentBy = now + Lag]
          /\ Goto(r, "set")
          /\ UNCHANGED <<status, shown>>
       \/ /\ ~Savable(r) /\ kind[r] = "callback"
          /\ Fails(r, 400)
          /\ UNCHANGED shown
       \/ /\ ~Savable(r) /\ kind[r] = "api"
          /\ \E h \in PassedOn(r, got[r].answer) : shown' = [shown EXCEPT ![r] = h]
          /\ got' = [got EXCEPT ![r].cookie = None]
          /\ Ends(r, 200)
    /\ UNCHANGED <<now, tokDbType, tokDb, lost, store, kind, form, sess>>

(* A mutant: the tag and the from-TA change places.                        *)
CoopSessionSwapped(h) == [h EXCEPT !.tag = h.from, !.from = h.tag]

(* session.new of coop_session.lua, whose arguments go by position.        *)
CoopSession(h) == h

Prefix(r) == IF kind[r] = "callback" THEN "asession" ELSE "csession"

SessionSet(r) ==
    [store EXCEPT ![Prefix(r)][r] =
        [value |-> IF kind[r] = "callback" THEN got[r].answer.user ELSE CoopSession(got[r].answer),
         until |-> now + got[r].expIn]]

(* The client gets the answer with the session cookie.                     *)
Succeeds(r) ==
    /\ Ends(r, IF kind[r] = "callback" THEN 302 ELSE 200)
    /\ got' = [got EXCEPT ![r].expIn = 0, ![r].sentBy = 0]
    /\ \/ kind[r] = "callback" /\ UNCHANGED shown
       \/ /\ kind[r] = "api"
          /\ \E h \in PassedOn(r, got[r].answer) : shown' = [shown EXCEPT ![r] = h]

(* A mutant: the error of redis is ignored.                                *)
NotSavedIgnored(r) == Succeeds(r)

NotSaved(r) == Fails(r, 500) /\ UNCHANGED shown

(* The session is saved, then its cookie goes to the client.               *)
SetSession(r) ==
    /\ pc[r] = "set"
    /\ \/ /\ now <= got[r].sentBy
          /\ store' = SessionSet(r)
          /\ Succeeds(r)
       \/ /\ now > got[r].sentBy \/ "redis" \in Fault
          /\ store' \in {store} \cup (IF now <= got[r].sentBy THEN {SessionSet(r)} ELSE {})
          /\ NotSaved(r)
    /\ UNCHANGED <<now, tokDbType, tokDb, lost, kind, form, sess>>

(* The headers that a session stands for.                                  *)
Replay(p, v) ==
    IF p = "asession" THEN [user |-> v, tag |-> None, from |-> None, users |-> None] ELSE v

(* The declared session is looked for.                                     *)
GetSession(r) ==
    LET p == IF kind[r] = "page" THEN "asession" ELSE "csession"
        s == store[p][sess[r]]
    IN  /\ pc[r] = "get"
        /\ \/ /\ s # None
              /\ \E h \in PassedOn(r, Replay(p, s.value)) : shown' = [shown EXCEPT ![r] = h]
              /\ Ends(r, 200)
           \/ s = None /\ Ends(r, IF kind[r] = "page" THEN 302 ELSE 403) /\ UNCHANGED shown
           \/ "redis" \in Fault /\ Ends(r, 500) /\ UNCHANGED shown
        /\ UNCHANGED <<now, tokDbType, tokDb, lost, store, kind, form, sess, got>>

(***************************************************************************)
(* Time, and the process of the backend.                                   *)
(***************************************************************************)
Tick ==
    /\ now < MaxNow
    /\ now' = now + 1
    /\ Tokens!Age(now')
    /\ store' = [p \in DOMAIN store |-> [s \in Request |->
           IF store[p][s] # None /\ now' > store[p][s].until THEN None ELSE store[p][s]]]
    /\ UNCHANGED <<tokDbType, lost, reqVars>>

(* Somebody looks an access token up.                                      *)
GetByTag(t) == Tokens!Forget(t) /\ UNCHANGED <<now, tokDbType, lost, store, reqVars>>

Crash ==
    /\ "crash" \in Fault
    /\ Tokens!Restart
    /\ lost' = lost \cup {t \in Request : tokDb[t] # None /\ tokDb'[t] = None}
    /\ pc' = [r \in Request |-> IF r \in AtBackend THEN "done" ELSE pc[r]]
    /\ status' = [r \in Request |-> IF r \in AtBackend THEN 500 ELSE status[r]]
    /\ got' = [r \in Request |-> IF r \in AtBackend THEN Nothing ELSE got[r]]
    /\ UNCHANGED <<now, tokDbType, store, kind, form, sess, shown>>

Next ==
    \/ Tick
    \/ Crash
    \/ \E t \in Request : GetByTag(t)
    \/ \E r \in Request : ReceivePage(r) \/ ReceiveCallback(r) \/ ReceiveApi(r)
    \/ \E r \in Request :
          Exchange(r) \/ SaveToken(r) \/ Answer(r) \/ BackendFails(r) \/ Front(r) \/ SetSession(r)
    \/ \E r \in Request : GetSession(r)

Spec == Init /\ [][Next]_vars

(***************************************************************************)
(* Properties.                                                             *)
(***************************************************************************)
(* Whoever is passed on, through a session or at once, is passed on with   *)
(* the headers that the backend answered for the session or the codes,     *)
(* each in its place; where the backend answered none, with what the       *)
(* request came with, if anything, never with a header of another request. *)
ShownAsAnswered ==
    \A r \in Request : shown[r] # None =>
        LET h == got[IF form[r] = "session" THEN sess[r] ELSE r].answer
            Shows(v, w) == v = w \/ (w = None /\ v = [name |-> "own", of |-> r])
        IN  /\ shown[r].user = h.user
            /\ Shows(shown[r].tag, h.tag)
            /\ Shows(shown[r].from, h.from)
            /\ Shows(shown[r].users, h.users)

(* The X-Auth-User of a session that redis has.                            *)
UserOf(r) ==
    LET v == store[Prefix(r)][r].value IN IF kind[r] = "callback" THEN v ELSE v.user

(* As long as the at_exp of a session that a client can declare says that  *)
(* the access token is good, the token DB has it under at_tag, for tokens  *)
(* that do not outlive what tokDbExpIn keeps, and unless a restart lost it *)
(* with a DB in memory.                                                    *)
GoodTagResolves ==
    \A r \in Handed("callback") \cup Handed("api") : store[Prefix(r)][r] # None =>
        LET u == UserOf(r)
        IN  now < u.at_exp /\ got[u.at_tag].life <= TokDbExpIn =>
                Tokens!Found(u.at_tag) \/ u.at_tag \in lost

(* The session of a cooperation ends with its access token, up to the way  *)
(* to redis and the seconds that Expires counts in.                        *)
SessionEndsWithToken ==
    \A r \in Request : store["csession"][r] # None => now < UserOf(r).at_exp + Lag + Sec

(* A client never holds an unexpired cookie of a session that redis does   *)
(* not have: the session is saved first and lives as long as the cookie.   *)
CookieNamesSession ==
    \A r \in Handed("callback") \cup Handed("api") : now <= got[r].cookie => store[Prefix(r)][r] # None

(* SPEC_coop.md 1.3: code tokens are sent to the backend in the form in    *)
(* which they came, so that no form of them is refused for want of them.   *)
AnyFormReaches == \A r \in Request : form[r] = "query" => status[r] # 400
=============================================================================
