# Verification of edo-auth

edo-auth lets a web application (a TA, "trusted application") delegate two jobs:
logging users in at identity providers (IdPs), and accepting requests that another TA
makes on behalf of users ("cooperation").  Each job has a *frontend* (Lua scripts inside
nginx) and a *backend* (the Go server `edo-auth`).  This directory holds TLA+ modules of
both, the TLC configurations that check them on small instances, and proofs that TLAPS
checks for instances of every size.

## 1. Inventory

| Component | State | Operations | Talks to |
|:--|:--|:--|:--|
| User authentication page, `page/auth` | none of its own; each request has a local copy of its session | `HandleAuth`, `HandleCallback` | session DB, token DB, IdP DB, IdPs over HTTP, the browser's cookie |
| Session DB, `database/asession` | session ID -> element with `inv` and `date`, retention limit | `Get`, `Save`, `Replace` (compare `date` and set); memory and redis | called by `page/auth` |
| Access token DB, `database/token` | tag -> token | `GetByTag`, `Save`; memory and redis | called by both backends, read by edo-access-proxy |
| Cooperation backend, `api/coop` | none of its own | `ServeHTTP`: check all code tokens, exchange them one by one, answer | token DB, IdP DB, IdPs |
| Authentication frontend, `auth.lua`, `auth_callback.lua` | frontend sessions in redis | pass a known session on, else hand over to the backend; save what `X-Auth-User` says | authentication page, redis |
| Cooperation frontend, `coop.lua` | cooperation sessions in redis | replay a session, else ask the backend and save | cooperation backend, redis |
| Server, `main.go` | the stopper's count of handlers, connection pools | start, serve, wait for handlers, close pools | everything |
| Parameters, `parameter.go` | none | parse flags and a file | server |
| Lua helpers, `lib/` | a connection | redis pool, `table.equal`, conversions | frontends |

Interaction: a browser that has no frontend session is sent by `HandleAuth` to an IdP (or
to a service that lets the user pick one) with a fresh session, state and nonce in its
cookie and query.  It comes back to `HandleCallback` with a code; the callback takes the
session out of circulation (`Get`, `Invalidate`, `Replace`), exchanges the code at the
IdP, saves the access token under a tag, checks ID tokens, fetches the user info and
answers with `X-Auth-User`, which the frontend saves under a session of its own.  In a
cooperation, another TA sends code tokens of one or several IdPs; the backend exchanges
every code and answers with the accounts, which the frontend adds to the request.

What is hard in it:

* *concurrency*: any number of callbacks may carry the same cookie (reload, several tabs),
  and the only guard is one compare-and-set on a date; cooperation requests may carry the
  same code tokens;
* *several parties*: what ends up in one header comes from a cookie, a session, one or two
  ID tokens, a token response and the user info, each of which may belong to something else;
* *partial failure*: a handler crosses four DBs and two or more HTTP exchanges, each of
  which may fail before or after it took effect, and nothing is rolled back;
* *restarts*: DBs in memory are lost while cookies and codes live on;
* *time*: sessions are kept in two redis keys with lifetimes of their own; the access
  token, its retention, the session that tells its tag and that session's cookie each
  have an end of their own, computed on different hosts and in different units;
* *shutdown*: handlers, which may wait for an IdP, come and go while `main` waits for them.

What makes each part correct:

* authentication page: one callback per version of a session; no code is spent while its
  session could still be taken for new; a code goes to the IdP that issued it with the
  client ID and redirect URI of its own authentication; `X-Auth-User` is about who logged
  in; `at_tag` names a saved token; an honest user is signed in in the end;
* session DB: `Get` gives what was last stored, `Replace` succeeds exactly when the stored
  date is the given one and the element has not expired, keeps the retention limit, and
  a caller's element is not the stored one;
* cooperation backend: no code is spent for a request that does not hang together; an
  answer is complete and each account is the one its own IdP told; one from-TA; whole
  referrals are served;
* frontends: what is passed on for a session is what the backend answered for the request
  that made it; the session of a cooperation ends with the access token it tells of (that of
  a page has a lifetime of its own); a cookie names a session that exists, and a tag said to
  be good a token that the DB still has;
* server: the command line has the last word; no handler that `main` waits for meets a
  closed pool; the process exits in the end, with a code that tells how it went.

`PROJECT.json` lists the components with their status and, under `hazards`, what in this
code is hard to test, at its line, with the properties that watch it.

## 2. Modules

| Module | Models | Used by |
|:--|:--|:--|
| `AuthPage` | `page/auth`: both handlers, with session, token and IdP DB, IdPs and browsers as their environment | `MCAuthPage`, `AuthPageProofs`, `AuthPageOriginProofs` |
| `SessionStore` | what `asession.Db` promises (`database.go`) | `SessionDb` |
| `SessionMemoryDb` | `database_memory.go`, with pointers and defensive copies | `SessionDb` |
| `SessionRedisDb` | `database_redis.go`, with its transaction, script, two keys and JSON | `SessionDb` |
| `SessionDb` | the DB that `asessDbType` chooses, and that it keeps the promise | `MCSessionDb` |
| `Coop` | `api/coop`: the handler with token and IdP DB and IdPs | `MCCoop`, `CoopProofs`, `CoopUsersProofs` |
| `TokenDb` | `database/token` in memory and in redis, with retention | `Front` |
| `Front` | `auth.lua`, `auth_callback.lua`, `coop.lua` and their session DBs, with the backends' times | `MCFront`, `FrontProofs` |
| `Parameters` | `parseParameters`: command line, file, defaults | `Server` |
| `Server` | `main.go`: start, routes, handlers and the stopper, shutdown | `MCServer`, `ServerProofs` |
| `AuthPageProofs`, `AuthPageOriginProofs`, `CoopProofs`, `CoopUsersProofs`, `SessionStoreProofs`, `SessionDbProofs`, `FrontProofs`, `ServerProofs` | theorems | |

The `MC*` modules only name constants and symmetry sets for TLC.  Operators whose comment
says "a mutant" are not part of the specifications: each is the form that the definition
after it would take with a plausible bug, and `PROJECT.json` says which property notices.

### 2.1 AuthPage

An element of `Auth` is one call of `HandleAuth`, an element of `Callback` one call of
`HandleCallback`: every call happens at most once, and all of them run concurrently.
Identifiers drawn from `idGen` (session ID, state, nonce, tag) are fresh and therefore
named by the call that drew them; an access token is named by its code.  `idGen` is
external (`go-lib/rand`): that its strings do not collide is assumed.

`authPc` and `pc` say where a call is.  An action reaches from one access to something
shared (a DB, an IdP, the browser) to the next, so everything that other calls can get
in between is an interleaving of the model:

| Action | Code |
|:--|:--|
| `ReceiveAuth`, `AuthSearch`, `AuthSave` | `handler_auth.go`: request and `X-Auth-Uri`; `idpDb.Search`; `sessDb.Save`, cookie and redirect |
| `CbGet`, `CbReplace` | `handler_callback.go:60-80`: `sessDb.Get` and `Invalidate`; `sessDb.Replace` |
| `CbCheck`, `CbResolve` | `:82-127`: parse, state; the IdP by session or by ID token, and that token |
| `IdpToken`, `CbSaveToken`, `CbVerify` | `page.go:159-237`: token request; `tokDb.Save`; ID token |
| `CbAccount` | `page.go:240-262` and `handler_callback.go:135-171`: user info, claims, cookies, redirect |
| `Authorize`, `SendCallback`, `SendDenied`, `SyncIdp` | outside: IdPs, browsers, synchronisation of the IdP DB |
| `Crash`, `Expire` | restart of the process; retention limit of a session |

`sessDb` is the abstract session DB (section 2.2); the update time of a session is the
reading of an ever increasing `clock`, so two readings never agree.  In the code, dates
have the resolution of the system clock (nanoseconds in memory, what survives JSON in
redis); two callbacks that stamp one session in the same tick are outside the model, and
the mutant `InvalidatedUndated` shows what depends on it.

`Fault` chooses what goes wrong: DB errors before or after the effect, broken exchanges,
restarts, expiry, and every claim of an ID token (issuer, nonce, key, hash), the access
token or the whole ID token of an IdP's answer.  The hash of a token response is only
checked if there is one, so an IdP that confuses the access token *and* its hash cannot
be noticed, and these two are not combined.

### 2.2 The session DB

`SessionStore` is the interface as its comments state it: stored elements, elements in
the hands of callers, a clock and retention limits.  `SessionMemoryDb` has a heap, the
map from IDs to pointers, and callers that change elements they were given;
`SessionRedisDb` has the element key and the date key, each with the time it dies, the
lifetime computed before `MULTI`, an `EXEC` whose inner errors nobody reads, and the
script of `Replace`, which both count lifetimes anew, so that a key lives up to a millisecond
longer; the element goes through `MarshalJSON` and `UnmarshalJSON`, which
leave the IdP out if there is none.  `SessionDb` is the DB of the kind that the parameter
`asessDbType` names, as `serve` makes it; its `KeepsPromise == Promise!Spec` states, over a
refinement mapping that follows the pointers or reads the keys, that either kind keeps
the promise.  `AuthPage` uses the promise: a map with an atomic `Get`,
`Save` and `Replace`, and `Expire` for retention.

### 2.3 Coop

An element of `Call` is one call of `ServeHTTP` with a request of up to `MaxTokens` code
tokens from `Token`, the tokens in circulation, in any order and with repetitions.
`CheckToken` is one turn of the first loop of `serve` (each reads the IdP DB, which may
change between turns), `CoopTo` the request of `getInfo` to an IdP, `Receive` the check of
its answer, `tokDb.Save`, the merge and the from-TA comparison of one turn of the second
loop, and `Respond` the headers.  What the loop collects about earlier tokens (`acntTag`,
`tags`, `refHash`) is read off the tokens before the one at hand.  The panic on a nil
access token (`handler.go:253`) is a step to status 500, as the recovery in `ServeHTTP`
makes it.  An account is the code it was tagged under and whether it has attributes
beyond `iss` and `sub`.

`getInfo` saves the access token under the issuer that the ids_token names
(`handler.go:413-415`), and compares that with nothing: it looks at the signature, which is
checked with the keys of the IdP asked.  The IdPs in `Astray` name any issuer.  The `iss` of
`X-Auth-User` and `X-Auth-Users` is the IdP asked (`handler.go:252`), whatever the ids_token
says, so `UsersAsIssued` holds for those too, while `TagResolves` promises that the saved
token is under the IdP of the main code only if that IdP names itself.

### 2.4 Front and TokenDb

An element of `Request` is one request to nginx, of a kind chosen when it arrives: a page
(`auth.lua`), a callback (`auth_callback.lua`) or a request to an API (`coop.lua`).  What
the backends do in between is in `AuthPage` and `Coop`; here each is three steps, those at
which a time is read: the IdP's answer (`Exchange`, the token's expiry), `tokDb.Save`
(`SaveToken`, its retention) and the answer (`Answer`, `at_exp` and the cookie), with an
error possible at any of them.

| Action | Code |
|:--|:--|
| `ReceivePage`, `ReceiveCallback`, `ReceiveApi` | the beginning of `auth.lua`, `auth_callback.lua`, `coop.lua`: session cookie, code tokens, subrequest |
| `Exchange`, `SaveToken`, `Answer`, `BackendFails` | the backends |
| `Front` | `auth_callback.lua:74-97`, `coop.lua:152-185`: the answer is read, the session's lifetime computed |
| `PassedOn` | `coop.lua:96-102`, `:159-173`, `auth.lua:74`: headers are set, and none is cleared |
| `SetSession` | `database:save` of either session DB, and the answer to the client |
| `GetSession` | `database:get` of either, and the headers passed on |
| `GetByTag` | `TokenDb`: an access token is looked up (by edo-access-proxy) |
| `Tick`, `Crash` | time and the expiry it brings, restart of the backend |

Time counts in ticks, `Sec` to a second: an IdP's lifetime, the token's expiry and its
retention are kept exactly, while `Expires`, `at_exp` and nginx's clock are cut to seconds
and a session's lifetime in redis is a number of seconds from when redis gets the command,
up to `Lag` later, which bounds the connection and the `SET` together (`redis_timeout` is set
for each of them, `lib/redis_wrapper.lua:31`).  All hosts share one clock: what happens when their
clocks differ is not modelled.  A command of which nginx has been told that it is late does
not take effect afterwards.

`TokenDb` is the DB that `tokDbType` names.  In redis a token dies up to a tick after its
time and a lifetime that is not positive is refused; in memory an entry whose time is over
stays until it is asked for, and a restart loses all: `lost` records whose tokens went.

The scripts set the headers of the request that they pass on and clear none.  A header that
the backend did not answer (`X-Auth-Users` without further accounts, all but `X-Auth-User`
on pages) is therefore passed on as the request brought it, if it did: `HeaderOf` chooses
between none and the request's own.  `ShownAsAnswered` says no more than that of those.

### 2.5 Parameters and Server

`Parameters` keeps the twelve flags that steer the server of the 64: what differs between
the others is a name, a type and a default.  A command line is a sequence of settings,
plain words, at which `FlagSet.Parse` stops, and malformed ones, at which it ends the
process.  `ParseParameters` reads as the code does, command line, file, command line, and
`Effective` says what that is for.

`Server` is the process.  `phase` is where `main` is: `ParseArgs`, `SetupLog`, `Setup`
(DBs, template, routes; each way it may fail), `Listen`, `Shutdown` (`server.Serve`
returns), `Wait`, `ClosePool` (the deferred `Close` calls, last made first) and `Exit`.
`Accept`, `Stop`, `Work`, `IdpAnswers`, `Unstop` and `Flush` are one request from the mux
to the buffered answer that `net/http` sends after the handler has returned.  `stops` is
the stopper's count as a set.  A handler reads its DBs at any time between `Stop` and
`Unstop`; one that finds a pool of its DBs closed is recorded in `met`, one that announced
itself after `main` was done waiting in `late`.

## 3. Runs

Every run is exhaustive for its constants.  Deadlock is not an error in any of them:
requests are one-shot, so a run ends when all have been sent and answered or the process
has exited, and the runs with time end at its bound.

| Run | Constants that matter | Shows |
|:--|:--|:--|
| `auth_race` | 1 authentication, 3 callbacks, 2 codes, fairness | `TypeOK`; `OneWinnerPerVersion`: one callback per version; `SessionMovesForward`: no overwritten or revived session; `SignedInInTheEnd` |
| `auth_tabs` | 2 authentications in one browser, 2 callbacks, 2 IdPs, selection service, one IdP comes and goes, wrong `iss`, restarts that lose the DBs | `RedeemedAsIssued` |
| `auth_faults` | 2 authentications, 2 callbacks, DB and network errors, expiry, restarts over redis, wrong nonces, missing ID tokens, foreign ID and access tokens | `TagResolves`, `SignedInAsLoggedIn`, `SpentCodeSpentSession` |
| `auth_reuse` | 1 authentication, 2 callbacks | violated: `SessionUsedOnce` |
| `auth_saved` | 2 authentications, 1 callback, wrong nonce | violated: `OnlyVerifiedTokensSaved` |
| `session_db` | memory and redis, 2 sessions, 2 callers, 1 IdP or none, time up to 4, 4 dates | `KeepsPromise`: the refinement; `KeysAgree` for redis; `OnlyNewer`: a version is replaced once |
| `coop_answers` | 1 request of up to 3 out of 8 code tokens, all faults, an IdP comes and goes and names any issuer, two from-TAs | `SentTogether`, `UsersAsIssued`, `OneFromTa`, `TagResolves` |
| `coop_race` | 2 requests of up to 3 tokens of one referral, fairness | `AnsweredInFull`, `ServedInTheEnd` |
| `coop_clash` | a sub token with the main tag | violated: `MainUserIsMain` |
| `server` | command lines of up to 2 out of 5 words, files of up to 2 out of 5 or 1 of 2 more, 2 requests, fairness | `CommandLineWins`, `ServedOut`, `ExitsClean`, `ShutsDown` |
| `front` | 2 requests, 2 ticks to a second, tokens for 0, 3 and 4 ticks kept for 3, frontend sessions of 1, lag 1, time from 10 to 15, redis and backend errors, restarts | `ShownAsAnswered`, `GoodTagResolves`, `SessionEndsWithToken`, `CookieNamesSession` |
| `front_query` | 2 requests | violated: `AnyFormReaches` |

Why the bounds suffice for what is asked: a lost race of `Replace` needs two callbacks on
one version, and a third shows that a loser cannot prepare the ground for another one.
Two authentications are the least with which cookies, states, nonces and codes can be
mixed up, two IdPs the least with which an exchange can go to the wrong one, and the
client ID, the redirect URI and the endpoint take two values each.  The session DB needs
two IDs (a key of one must not touch the other), two callers, and enough time for a
lifetime to end before, within and after an operation.  Three code tokens are a main
token and two sub tokens: the turn that checks the last sees one that agrees and one that
does not.  Two words are a flag given twice, or one before another that changes what it
means; the words are a flag that both set, one that only one of them sets, a path that
clashes with another or is empty, an unknown DB, a word and a malformed flag.  Two requests are one
that `main` waits for and one that comes while it does, or after.  For the frontends they
are one that makes a session and one that shows it, which covers every pair of kinds, or
two sessions whose keys must not touch; a second has two ticks so that cutting to seconds
loses something, tokens live shorter than, as long as and longer than they are kept, and
five ticks pass from an exchange to the end of whatever it made.  The run begins at 10, so
that a time taken for a duration is far off.

What the violated runs show (also under `findings`):

* `auth_reuse`: `HandleCallback` never asks `Invalid()`.  Callbacks that overlap are told
  "reused user session", but one that reads the session after the first has replaced it
  finds a matching date and goes on.  The IdP refuses a code the second time; a second
  code for the same state signs in again.
* `auth_saved`: `getAccessToken` saves the token before it looks at the ID token that came
  with it; `page/auth/README.md` 1.4 says it the other way round.
* `coop_clash`: the tag of the main token is not among those compared for overlap, so a
  later sub token may name it, and `X-Auth-User` then describes that token's account.
* `front_query`: when the code tokens come in the query, `coop.lua` hands a table of its own
  to `ngx.location.capture`, which looks for the query under `args`: the backend gets a
  subrequest without code tokens and refuses it.  `SPEC_coop.md` 1.3 sends them on in the
  form in which they came.

Other differences between the documents and the code, which no run checks: `SPEC_coop.md`
1.7 issues a session only if the subject is the only account, while `handler.go:281-294`
also does so for related accounts with nothing but `iss` and `sub`; `SPEC_auth.md` 1.3 and
`SPEC_coop.md` 1.5 take the session cookie out of the request that is passed on, which
neither script does; `SPEC_coop.md` 1.5 adds `X-Auth-Users` only if there are accounts other
than the subject's, while `coop.lua:99-102` and `:170-173` leave the one that the request
came with.

### Fairness

`FairSpec` of both handlers assumes weak fairness of each request's next step, and
nothing of the environment: requests, synchronisation and crashes may happen or not.  A
handler is a goroutine, so the scheduler runs it.  One step needs more than the code
gives: the HTTP clients have no timeout (`page.go:202`, `api/coop/handler.go:365`), so an
IdP that neither answers nor closes the connection keeps a handler for ever.  The
liveness properties are therefore about IdPs that answer; `ShutsDown` says so itself, and
without that condition it is false.  It also holds only because the requests of the model
are finitely many: `main` waits until no handler is at work (`main.go:257-263`), and requests
that keep coming in over kept connections, each before the last one has ended, would keep it
there.

`FairSpec` of `Server` assumes weak fairness of `main` and of each handler, which are
goroutines, but not of `Accept`, `Shutdown` and `IdpAnswers`.

## 4. Proofs

TLAPS proves, for every value of the constants that meets the named assumptions:

* `AuthPageProofs!TypeCorrect`: `Spec => []TypeOK`.  `TypeOK` alone is not inductive: a
  step that reads, say, `authReq[a].uri.ep` needs to know that a call at that place has a
  request.  The invariant `TypeInv` adds the *shapes*: which of its data a call has at
  which place (`AuthShape`, `RequestShape`, `SessionShape`, `ExchangeShape`, and
  `LoginShape` for codes).  One lemma per action shows that it keeps `TypeInv`.
* `AuthPageProofs!OneWinner`: `Spec => []OneWinnerPerVersion`.  Two callbacks that are
  past `Replace` have different versions because the first of them moved the session's
  date past the version it read, the date never returns, and the second must have found
  its own version stored.  `VersionInv` says this as an induction: dates lie before the
  clock (`DatesBeforeClock`), a copy about to be written is stamped after the version it
  was read with (`StampedAfterRead`), and what is stored is newer than every version taken
  (`NothingOlderThanTaken`).  Faults, crashes and expiry are all included.
* `AuthPageOriginProofs` carries the other safety properties of the page.  Its invariant
  `Origin` says where things come from: a stored session and every copy of one was made by
  the `NewSession` of the call it is named by and repeats what that call's redirect says
  (`SessionOrigin`, `CopyOf`), a bound session is bound to the IdP of its endpoint
  (`BoundOrigin`), and a code was issued by an IdP that the redirect reaches
  (`LoginOrigin`).  For each place of `HandleCallback` it then names what has been
  compared there: the state (`StateCompared`), the IdP and the ID token of the front
  channel (`Resolved`), the exchange (`Answered`), the saved token (`Kept`), the second ID
  token (`Verified`), and what is merged (`Described`).  It is inductive together with
  `TypeInv`; `KnownStays` and `RestOrigin` show that nothing a call has established is
  changed by others.
  * `Redeemed`: `RedeemedAsIssued`, unless IdPs get both the issuer *and* the signing key
    of an ID token wrong, which is an IdP that signs with another one's key in its name.
  * `SignedIn`: `SignedInAsLoggedIn`, if IdPs answer with the access token of the code, or
    else put a right `at_hash` into their ID tokens.  The optional hash is the only thing
    in the code that ties an access token to an ID token, so one of the two is needed.
  * `TagNamesToken`: `TagResolves`, under all faults.
  * `SpentCode`: `SpentCodeSpentSession`, under all faults.  `SpentInv` adds that whoever
    is past `Replace` has left an invalid session behind, and `StaysSpent` that only copies
    are stored after that.
  * `MovesForward`: `SessionMovesForward`, an action property, from `VersionInv` and
    `Origin`.
* `CoopProofs!TypeCorrect`: `Spec => []TypeOK`, again by an invariant with the shapes of
  calls (`Shape`: a call at work has a code token at hand, one that waits has an answer to
  look at, only a finished one has a status).
* `CoopProofs!Together`: `Spec => []SentTogether`.  What the request as a whole must
  satisfy is compared turn by turn with the tokens before, so the invariant is about
  prefixes: `Vetted(s, k)` is what has been established of the first `k` tokens, one turn
  of the loop extends it by one (`VetsOneMore`), and leaving the loop makes it the whole
  request.  `VettedInv` adds that a request never changes after it came in, which carries
  the fact to every code that has been sent; that its main token is the only one is then
  a fact about sets (`OneMain`).
* `CoopProofs!InFull`: `Spec => []AnsweredInFull`.  An exchanged code stays with the call
  that exchanged it (`SpentStays`), whoever else holds the same code token, and a call
  goes on to its next code only after it has exchanged the one at hand (`InOrder`).
* `CoopProofs!FromOne`: `Spec => []OneFromTa`, by the same kind of prefix invariant over
  the from-TA a call has and the answer it is about to look at (`OneFrom`).
* `CoopUsersProofs` proves what the answer says.  `Told(r, k)` is what a call holds after
  its first `k` codes: the account under each related tag, told by the IdP of the token
  that names it (`UsersTold`), the subject as the IdP of the main code told it, unless
  another token names the main tag too (`MainTold`), and the saved access token of the main
  code, under the issuer named with it (`TokenKept`).  One turn of the second loop extends it by one, because the related
  tags of a request that was vetted as a whole do not overlap; `ToldInv` joins it to
  `VettedInv`.  `AsIssued` (`UsersAsIssued`) and `TagNamesToken` (`TagResolves`) follow, for
  any set of IdPs that name other issuers.
* `FrontProofs` proves all that the run `front` checks, by one invariant.  For each request
  `Own` says what it has at which place (`Place`), that the expiry an IdP told is at most
  its lifetime away and the retention covers it (`Expiry`, `Kept`), that a session about to
  be saved reaches to its cookie and, for a cooperation, ends in time even if `SET` comes as
  late as it may (`Sent`), and the same of what redis has and clients hold (`Stored`,
  `HandedOut`).  Other requests enter in two places only: `Declared`, that a declared
  session was handed out by the same frontend, and `Shown`, that what is passed on is what
  that session's own request was answered, or its own header where that answer had none
  (`HeaderOf`); both last because an answered request never
  changes again (`DoneStays`).  `Elsewhere` and `SameOwn` show once for all actions that a
  step of one request leaves the others' part alone; the arithmetic of seconds is in
  `FloorBounds`.  From it: `TypeCorrect` (`TypeOK`; it needs `Expiry`, as the end of a
  retention is computed by a subtraction), `PassedOnAsAnswered` (`ShownAsAnswered`),
  `GoodTag` (`GoodTagResolves`), `EndsWithToken` (`SessionEndsWithToken`) and
  `CookieNames` (`CookieNamesSession`), for any number of ticks to the second, any
  lifetimes and any delay.
* `SessionDbProofs!PromiseKept`: `Spec => KeepsPromise`, the refinement.  For redis its
  invariant bounds lifetimes (`RedShape`): the one that `Save` has computed reaches, from
  any later time, to the end of the retention and no further than the promise allows.
  `RoundTrip` is that an element comes out of JSON as it went in, `BothSetKeys` what a pair
  of `SET`s leaves behind.  For the memory it says who owns what (`Owns`, `Entry`): a
  handler at work holds a heap cell of its own, and a map entry points to a cell that
  nobody else holds, so that a change through a pointer shows in one copy (`OthersKeep`)
  and a copy into the map in one session (`OthersStay`).  One lemma per action shows that
  it keeps the invariant and is a step of `SessionStore`.
* `SessionDbProofs!TypeCorrect` and `AgreeingKeys` (`KeysAgree`) follow from the same
  invariant.
* `SessionStoreProofs!NewerOnly` proves `StoredGetsNewer` of the abstract specification: a
  session not yet saved is in one handler's hands (`NotSavedYet`), and dates come in the
  order of the clock (`DatedInOrder`).  `SessionDbProofs!ReplacedOnce` carries it over to
  both DBs along the refinement, as `OnlyNewer`.
* `ServerProofs`: `LastWord` (`CommandLineWins`) is the lemma `ReadTwice`, about a command
  line and a file of any length, and that `main` parses once.  `WaitsForHandlers`
  (`ServedOut`) and `EndsClean` (`ExitsClean`) follow from an invariant of `main` and the
  handlers together: the stopper knows of every handler at work (`WorkAnnounced`), whoever
  it knows of once `main` is done waiting has come later (`OnlyLateAfterWait`), and which
  pools are open, and which exit code set, is a matter of the phase (`PoolsByPhase`,
  `CodeTells`, `NoneBeforeServing`).  `TypeCorrect` (`TypeOK`) rests on a fact about
  `Parse`, for words of any number: the word at which it stops and the last setting of a
  flag before it exist whenever there is any (`HasMin`, `HasMax`), so that every flag has a
  value given to it or its default, however often it is parsed.

The assumptions: `StoreAssumption` (a positive retention, handlers are not session IDs)
and `NoneAssumption` (`None` is not a value of any kind) for the session DB; `TextAssumption`
and `ArgsAssumption` (defaults are texts, command lines and files are sequences of words)
for the server; `TimeAssumption` (a second has at least one tick, lifetimes are not
negative), `FaultAssumption` and `RecordAssumption` (`None` is no record) for the
frontends; and those that `AuthPage` and `Coop` name about their constants.  TLC evaluates
all of them in the runs.

Every safety and action property of a passing run is a theorem, two of them under the
conditions on IdPs named above.  Only model-checked are
the liveness properties `SignedInInTheEnd`, `ServedInTheEnd` and `ShutsDown`: a proof would
need `ENABLED`, which the prover does not handle.  The bounds of their runs are the ones
above.

## 5. What is left out

* Logging, error pages, HTML, debug output; a panic is recovered in `Server` only.
* Contents of JWTs beyond the claims above; cryptography is "whose key signed it".
* The cookie by which `HandleCallback` takes its session back, and the time until which a
  session says it lives: `handler_callback.go` never compares it with the clock.
* Clocks of nginx and backend that differ, and redis commands that take effect after nginx
  has given up on them.
* What comes in over kept connections once `main` has stopped waiting, and the answer that
  `net/http` has buffered: both may be cut off, and nothing in the code prevents it.
* The other flags, `lib/table.lua` (used by the tests only), `lib/varutil.lua`,
  `lib/erro.lua`, installation scripts, `log.go`: no state that a later step observes.
* edo-lib, edo-id-provider, edo-idp-selector, nginx and redis are external and modelled
  only as the code here uses them.

## 6. Plan

In this order; the first lines are done.

1. `AuthPage`, its runs, type correctness and `OneWinnerPerVersion` (done).
2. `SessionStore` and the two DBs, refinement by TLC (done).
3. `Coop`, its runs, type correctness and its safety properties as theorems (done).
4. The origin invariant of `AuthPage` and the theorems that follow from it (done).
5. `SessionDb`: both DBs under one refinement, and the refinement as a theorem (done).
6. `TokenDb` and `Front`: the frontends over the promise of the backends, with the times
   that tie them, and the theorems about them (done).
7. `Parameters` and `Server`: start, shutdown and the handlers in flight (done), with the
   theorems about them (done).
