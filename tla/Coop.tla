-------------------------------- MODULE Coop --------------------------------
(***************************************************************************)
(* The cooperation backend of edo-auth: the handler of api/coop, which     *)
(* takes the code tokens another TA sent, exchanges the code of each at    *)
(* the identity provider that issued it and answers with the accounts of   *)
(* all of them.  Any number of requests run concurrently over one IdP DB   *)
(* and one token DB, and the same code tokens may be sent more than once.  *)
(*                                                                         *)
(* An element of Call is one call of ServeHTTP.  The tag that a call draws *)
(* for its access token is fresh and named by the call; an access token is *)
(* named by the code it was issued for.                                    *)
(***************************************************************************)
EXTENDS Integers, Sequences, FiniteSets

CONSTANTS
    Call,       \* calls of ServeHTTP
    Code,       \* cooperation codes
    Idp,        \* identity providers
    Tag,        \* account tags
    Ta,         \* TAs that cooperate
    Hash,       \* referral hashes
    Token,      \* the code tokens in circulation
    FrTa,       \* [Code -> Ta]: the TA an IdP issued the code to
    MaxTokens,  \* code tokens in a request
    Synced,     \* IdPs the external synchronisation adds to and drops from idpDb
    Astray,     \* IdPs whose ids_token may name any IdP as its issuer
    Durable,    \* tokDb is in redis (TRUE) or in memory (FALSE)
    Fault,      \* what may go wrong: see FaultAssumption
    None

(* codeToken.  aud: the token is meant for this TA.  sign: whose key       *)
(* signed it.                                                              *)
CodeToken == [idp : Idp, cod : Code, aud : BOOLEAN, frTa : Ta \cup {None},
              acntTag : Tag \cup {None}, acntTags : SUBSET Tag,
              refHash : Hash \cup {None}, sign : Idp \cup {None}]

(* codeToken.verify succeeds.                                              *)
Verifies(t) == t.sign = t.idp

ASSUME NoneAssumption == None \notin Call \cup Code \cup Idp \cup Tag \cup Ta \cup Hash
ASSUME TokenAssumption ==
    /\ Token \subseteq CodeToken
    /\ \A t, u \in Token : Verifies(t) /\ Verifies(u) /\ t.cod = u.cod => t = u
ASSUME FrTaAssumption ==
    /\ FrTa \in [Code -> Ta]
    /\ \A t \in Token : Verifies(t) => t.frTa \in {FrTa[t.cod], None}
ASSUME BoundAssumption == MaxTokens \in Nat /\ Synced \subseteq Idp /\ Durable \in BOOLEAN
ASSUME AstrayAssumption == Astray \subseteq Idp

(* "db": a DB access fails (tokDb before or after it took effect).  "net": *)
(* an exchange with an IdP fails.  "crash": the server is restarted.       *)
(* "ids", "tok", "sign": an IdP leaves an account or the access token out, *)
(* or does not sign.                                                       *)
ASSUME FaultAssumption == Fault \subseteq {"db", "net", "crash", "ids", "tok", "sign"}

(* What an IdP tells of an account: the code it was tagged under and       *)
(* whether there is more than iss and sub.  The handler adds the issuer.   *)
Account == [cod : Code, more : BOOLEAN]
Attributes == [iss : Idp, cod : Code, more : BOOLEAN]

(* coopResponse with its idsToken.  idp: whom that names as its issuer.    *)
CoopResponse == [idp : Idp, frTa : Ta, ids : [Tag -> Account \cup {None}],
                 sign : Idp \cup {None}, tok : Code \cup {None}]
SavedToken == [tok : Code, idp : Idp]

ASSUME RecordAssumption ==
    /\ None \notin Attributes /\ None \notin Account
    /\ None \notin CoopResponse /\ None \notin SavedToken

VARIABLES
    idpDb,      \* the registered IdPs
    spentBy,    \* [Code -> ..]: the call an IdP exchanged the code for
    tokDb,      \* [Call -> ..]: token.Db, by tag
    pc,         \* [Call -> ..]: where each call is
    req,        \* [Call -> ..]: its code tokens
    n,          \* [Call -> ..]: the code token at hand
    resp,       \* [Call -> ..]: the answer of the IdP of that code token
    main,       \* [Call -> ..]: mainAttrs
    users,      \* [Call -> ..]: tagToAttrs
    frTa,       \* [Call -> ..]: the from-TA the IdPs named
    status,     \* [Call -> ..]: the HTTP status answered, 0 before
    sess        \* [Call -> ..]: a session is reported

shared == <<idpDb, spentBy, tokDb>>
local  == <<req, n, resp, main, users, frTa, sess>>
vars   == <<shared, local, pc, status>>

Requests == UNION {[1 .. k -> Token] : k \in 0 .. MaxTokens}
NoUsers  == [g \in Tag |-> None]
inFlight == {r \in Call : pc[r] \in {"check", "send", "receive", "respond"}}

TypeOK ==
    /\ idpDb \in SUBSET Idp
    /\ spentBy \in [Code -> Call \cup {None}]
    /\ tokDb \in [Call -> SavedToken \cup {None}]
    /\ pc \in [Call -> {"idle", "check", "send", "receive", "respond", "done", "dead"}]
    /\ req \in [Call -> Seq(Token)]
    /\ n \in [Call -> Nat]
    /\ resp \in [Call -> CoopResponse \cup {None}]
    /\ main \in [Call -> Attributes \cup {None}]
    /\ users \in [Call -> [Tag -> Attributes \cup {None}]]
    /\ frTa \in [Call -> Ta \cup {None}]
    /\ status \in [Call -> {0, 200, 400, 403, 500}]
    /\ sess \in [Call -> BOOLEAN]

Init ==
    /\ idpDb = Idp
    /\ spentBy = [c \in Code |-> None]
    /\ tokDb = [r \in Call |-> None]
    /\ pc = [r \in Call |-> "idle"]
    /\ req = [r \in Call |-> <<>>]
    /\ n = [r \in Call |-> 1]
    /\ resp = [r \in Call |-> None]
    /\ main = [r \in Call |-> None]
    /\ users = [r \in Call |-> NoUsers]
    /\ frTa = [r \in Call |-> None]
    /\ status = [r \in Call |-> 0]
    /\ sess = [r \in Call |-> FALSE]

Goto(r, l) == pc' = [pc EXCEPT ![r] = l]

(* The answer of an error.                                                 *)
Refuse(r, st) ==
    /\ Goto(r, "done")
    /\ status' = [status EXCEPT ![r] = st]

(* The code token at hand, and those before it.                            *)
At(r)     == req[r][n[r]]
Before(r) == {req[r][i] : i \in 1 .. n[r] - 1}

(* A mutant: the last code token is left out.                              *)
MoreButOne(r) == n[r] + 1 < Len(req[r])

More(r) == n[r] < Len(req[r])

(***************************************************************************)
(* The code tokens are checked.                                            *)
(***************************************************************************)
ReceiveRequest(r, s) ==
    /\ pc[r] = "idle"
    /\ req' = [req EXCEPT ![r] = s]
    /\ \/ /\ s # <<>>
          /\ Goto(r, "check")
          /\ UNCHANGED status
       \/ s = <<>> /\ Refuse(r, 400)
    /\ UNCHANGED <<shared, n, resp, main, users, frTa, sess>>

(* A mutant: the main token must be the first.                             *)
MainOrSubInOrder(r) ==
    LET t == At(r)
    IN  IF t.acntTag # None THEN t.frTa # None /\ n[r] = 1 ELSE t.acntTags # {}

(* A main token names the subject and the TA it comes from, a sub token    *)
(* other accounts; no second main token is taken.                          *)
MainOrSub(r) ==
    LET t == At(r)
    IN  IF t.acntTag # None
        THEN t.frTa # None /\ \A u \in Before(r) : u.acntTag = None
        ELSE t.acntTags # {}

NewTags(r) == \A i \in 1 .. n[r] - 1 : At(r).acntTags \cap req[r][i].acntTags = {}

(* A mutant: a token without the hash is let pass.                         *)
SameReferralIfAny(r) ==
    \A u \in Before(r) : At(r).refHash # None /\ u.refHash # None => At(r).refHash = u.refHash

(* The tokens of a request with several carry one referral hash.           *)
SameReferral(r) ==
    /\ Len(req[r]) > 1 => At(r).refHash # None
    /\ \A u \in Before(r) : At(r).refHash # None /\ u.refHash # None => At(r).refHash = u.refHash

Acceptable(r) == At(r).aud /\ MainOrSub(r) /\ NewTags(r) /\ SameReferral(r)

HasMain(s) == \E i \in 1 .. Len(s) : s[i].acntTag # None
MainTag(s) == s[CHOOSE i \in 1 .. Len(s) : s[i].acntTag # None].acntTag

(* One turn of the first loop.  Nothing is sent before all are checked.    *)
CheckToken(r) ==
    /\ pc[r] = "check"
    /\ \/ /\ Acceptable(r) /\ At(r).idp \in idpDb /\ Verifies(At(r))
          /\ \/ /\ More(r)
                /\ n' = [n EXCEPT ![r] = @ + 1]
                /\ UNCHANGED <<pc, status>>
             \/ /\ ~More(r) /\ HasMain(req[r])
                /\ n' = [n EXCEPT ![r] = 1]
                /\ Goto(r, "send")
                /\ UNCHANGED status
             \/ /\ ~More(r) /\ ~HasMain(req[r])
                /\ Refuse(r, 400)
                /\ UNCHANGED n
       \/ /\ ~(Acceptable(r) /\ At(r).idp \in idpDb /\ Verifies(At(r)))
          /\ Refuse(r, 400)
          /\ UNCHANGED n
       \/ /\ "db" \in Fault
          /\ Acceptable(r)
          /\ Refuse(r, 500)
          /\ UNCHANGED n
    /\ UNCHANGED <<shared, req, resp, main, users, frTa, sess>>

(***************************************************************************)
(* The codes are exchanged, one after another.                             *)
(***************************************************************************)
IsMain(t) == t.acntTag # None
TagsOf(t) == t.acntTags \cup ({t.acntTag} \ {None})

(* The answers of an IdP to the code of t.  Nothing compares the issuer    *)
(* that an ids_token names with the IdP that was asked.                    *)
Issuers(i) == IF i \in Astray THEN Idp ELSE {i}
Answers(t) ==
    {a \in [idp  : Issuers(t.idp),
            frTa : {FrTa[t.cod]},
            ids  : [Tag -> [cod : {t.cod}, more : BOOLEAN] \cup {None}],
            sign : {t.idp} \cup (IF "sign" \in Fault THEN {None} ELSE {}),
            tok  : {IF IsMain(t) THEN t.cod ELSE None}
                       \cup (IF "tok" \in Fault THEN {None} ELSE {})] :
        \A g \in Tag : /\ g \notin TagsOf(t) => a.ids[g] = None
                       /\ g \in TagsOf(t) /\ "ids" \notin Fault => a.ids[g] # None}

(* The signing key is fetched, the code is posted and the IdP answers.  An *)
(* IdP exchanges a code once; its error is passed on with its status.      *)
CoopTo(r) ==
    /\ pc[r] = "send"
    /\ LET c == At(r).cod
           spent == [spentBy EXCEPT ![c] = r]
       IN  \/ /\ spentBy[c] = None
              /\ spentBy' = spent
              /\ \E a \in Answers(At(r)) : resp' = [resp EXCEPT ![r] = a]
              /\ Goto(r, "receive")
              /\ UNCHANGED status
           \/ /\ spentBy[c] # None
              /\ Refuse(r, 400)
              /\ UNCHANGED <<spentBy, resp>>
           \/ /\ Fault \cap {"db", "net"} # {}
              /\ spentBy' \in {spentBy} \cup
                     (IF "net" \in Fault /\ spentBy[c] = None THEN {spent} ELSE {})
              /\ Refuse(r, 500)
              /\ UNCHANGED resp
    /\ UNCHANGED <<idpDb, tokDb, req, n, main, users, frTa, sess>>

(* A mutant: a main token's answer need not bring an access token.         *)
AnswerWithIds(r) ==
    LET t == At(r)
    IN  /\ resp[r].sign = t.idp
        /\ \A g \in TagsOf(t) : resp[r].ids[g] # None

(* The answer tells the accounts of all tags of the code token, and a main *)
(* token's answer brings an access token.                                  *)
AnswerValid(r) ==
    LET t == At(r)
    IN  /\ resp[r].sign = t.idp
        /\ \A g \in TagsOf(t) : resp[r].ids[g] # None
        /\ IsMain(t) => resp[r].tok # None

(* A mutant: the IdP of the first code token.                              *)
NewTokenOfFirst(r) == [tok |-> resp[r].tok, idp |-> req[r][1].idp]

NewToken(r) == [tok |-> resp[r].tok, idp |-> resp[r].idp]
MainSeen(r) == IsMain(At(r)) \/ \E t \in Before(r) : IsMain(t)
AttributesOf(r, g) ==
    [iss |-> At(r).idp, cod |-> resp[r].ids[g].cod, more |-> resp[r].ids[g].more]

(* A mutant: the accounts of the code tokens before are forgotten.         *)
MergeAnew(r) ==
    LET g == MainTag(req[r])
        t == At(r)
    IN  /\ main' = IF g \in TagsOf(t) THEN [main EXCEPT ![r] = AttributesOf(r, g)] ELSE main
        /\ users' = [users EXCEPT ![r] = [h \in Tag |->
               IF h \in TagsOf(t) \ {g} THEN AttributesOf(r, h) ELSE None]]

(* The accounts of the code token at hand are added.                       *)
Merge(r) ==
    LET g == MainTag(req[r])
        t == At(r)
    IN  /\ main' = IF g \in TagsOf(t) THEN [main EXCEPT ![r] = AttributesOf(r, g)] ELSE main
        /\ users' = [users EXCEPT ![r] = [h \in Tag |->
               IF h \in TagsOf(t) \ {g} THEN AttributesOf(r, h) ELSE @[h]]]

(* A mutant: the from-TAs of two IdPs are not compared.                    *)
AnyFromTa(r) == TRUE

SameFromTa(r) == frTa[r] \in {None, resp[r].frTa}

(* The answer is checked, a main token's access token is saved, and the    *)
(* accounts are merged.  A sub token that names the main tag meets no      *)
(* access token when it comes before the main token: the handler panics,   *)
(* which is answered with 500.                                             *)
Receive(r) ==
    LET saved == IF IsMain(At(r)) THEN [tokDb EXCEPT ![r] = NewToken(r)] ELSE tokDb
        panics == MainTag(req[r]) \in TagsOf(At(r)) /\ ~MainSeen(r)
    IN  /\ pc[r] = "receive"
        /\ \/ /\ AnswerValid(r) /\ ~panics
              /\ tokDb' = saved
              /\ Merge(r)
              /\ \/ /\ SameFromTa(r)
                    /\ frTa' = [frTa EXCEPT ![r] = resp[r].frTa]
                    /\ IF More(r)
                       THEN n' = [n EXCEPT ![r] = @ + 1] /\ Goto(r, "send")
                       ELSE Goto(r, "respond") /\ UNCHANGED n
                    /\ UNCHANGED status
                 \/ /\ ~SameFromTa(r)
                    /\ Refuse(r, 400)
                    /\ UNCHANGED <<frTa, n>>
           \/ /\ AnswerValid(r) /\ panics
              /\ Refuse(r, 500)
              /\ UNCHANGED <<tokDb, main, users, frTa, n>>
           \/ /\ ~AnswerValid(r)
              /\ Refuse(r, 403)
              /\ UNCHANGED <<tokDb, main, users, frTa, n>>
           \/ /\ "db" \in Fault /\ AnswerValid(r) /\ IsMain(At(r))
              /\ tokDb' \in {tokDb, saved}
              /\ Refuse(r, 500)
              /\ UNCHANGED <<main, users, frTa, n>>
        /\ UNCHANGED <<idpDb, spentBy, req, resp, sess>>

(* sessionEnable holds of all attributes of all related accounts.          *)
SessionEnabled(r) == \A g \in Tag : users[r][g] # None => ~users[r][g].more

(* X-Auth-User and the other headers are answered.                         *)
Respond(r) ==
    /\ pc[r] = "respond"
    /\ sess' = [sess EXCEPT ![r] = SessionEnabled(r)]
    /\ status' = [status EXCEPT ![r] = 200]
    /\ Goto(r, "done")
    /\ UNCHANGED <<shared, req, n, resp, main, users, frTa>>

(***************************************************************************)
(* The process, the IdP DB and the whole.                                  *)
(***************************************************************************)
(* A restart ends the calls in flight, and loses a DB kept in memory.      *)
Crash ==
    /\ "crash" \in Fault
    /\ pc' = [r \in Call |-> IF r \in inFlight THEN "dead" ELSE pc[r]]
    /\ \/ ~Durable /\ tokDb' = [r \in Call |-> None]
       \/ Durable /\ UNCHANGED tokDb
    /\ UNCHANGED <<idpDb, spentBy, local, status>>

(* The data of an IdP is added to or dropped from the shared IdP DB.       *)
SyncIdp(i) ==
    /\ i \in Synced
    /\ idpDb' = IF i \in idpDb THEN idpDb \ {i} ELSE idpDb \cup {i}
    /\ UNCHANGED <<spentBy, tokDb, local, pc, status>>

ServeHTTP(r) == CheckToken(r) \/ CoopTo(r) \/ Receive(r) \/ Respond(r)

Next ==
    \/ \E r \in Call, s \in Requests : ReceiveRequest(r, s)
    \/ \E r \in Call : ServeHTTP(r)
    \/ \E i \in Idp : SyncIdp(i)
    \/ Crash

Spec == Init /\ [][Next]_vars

(* A handler is a goroutine, which the Go scheduler runs; the IdP and the  *)
(* connections to it are assumed to answer or to break in the end.         *)
FairSpec == Spec /\ \A r \in Call : WF_vars(ServeHTTP(r))

(***************************************************************************)
(* Properties.                                                             *)
(***************************************************************************)
TokensOf(r) == {req[r][i] : i \in 1 .. Len(req[r])}

(* No code leaves for its IdP unless the whole request it came in has been *)
(* found good: one main token, several tokens only under one referral      *)
(* hash, no tag twice among the related accounts, all signed and for us.   *)
SentTogether ==
    \A c \in Code : spentBy[c] # None =>
        LET s == req[spentBy[c]]
        IN  /\ Cardinality({i \in 1 .. Len(s) : IsMain(s[i])}) = 1
            /\ \A i \in 1 .. Len(s) : s[i].aud /\ Verifies(s[i])
            /\ \A i, j \in 1 .. Len(s) : i # j =>
                   /\ s[i].refHash = s[j].refHash /\ s[i].refHash # None
                   /\ s[i].acntTags \cap s[j].acntTags = {}

(* A request is answered with accounts only by the call that exchanged all *)
(* of its codes itself, however often and in whatever company the code     *)
(* tokens are sent ("if one is an error, return it": api/coop/README.md).  *)
AnsweredInFull ==
    \A r \in Call : status[r] = 200 => \A t \in TokensOf(r) : spentBy[t.cod] = r

(* X-Auth-Users has exactly the related tags of the code tokens, each with *)
(* the account of the code token that names the tag and that token's IdP,  *)
(* and X-Auth-User that of the main token, unless another one names its    *)
(* tag as well.                                                            *)
UsersAsIssued ==
    \A r \in Call : status[r] = 200 =>
        LET g == MainTag(req[r])
            tells(t, a) == a # None /\ a.cod = t.cod /\ a.iss = t.idp
        IN  /\ \A h \in Tag \ {g} :
                   \/ \E t \in TokensOf(r) : h \in t.acntTags /\ tells(t, users[r][h])
                   \/ users[r][h] = None /\ \A t \in TokensOf(r) : h \notin t.acntTags
            /\ users[r][g] = None
            /\ \A t \in TokensOf(r) : t.acntTag = g =>
                   \/ tells(t, main[r])
                   \/ \E u \in TokensOf(r) \ {t} : g \in u.acntTags

(* X-Auth-From-Id is the TA that every one of the codes was issued to.     *)
OneFromTa ==
    \A r \in Call : status[r] = 200 => \A t \in TokensOf(r) : frTa[r] = FrTa[t.cod]

(* The at_tag handed out names a saved access token, that of the main      *)
(* code, unless a restart lost a token DB in memory.  The token is saved   *)
(* under the issuer that the ids_token names, which is the IdP of the main *)
(* code as long as that IdP names itself, whatever the others do.          *)
TagResolves ==
    \A r \in Call : status[r] = 200 =>
        \/ \E t \in TokensOf(r) :
              /\ IsMain(t)
              /\ tokDb[r] # None /\ tokDb[r].tok = t.cod
              /\ t.idp \notin Astray => tokDb[r].idp = t.idp
        \/ ~Durable

(* When nothing fails, the code tokens of a whole referral are answered    *)
(* with accounts in the end, in whatever order they come, unless somebody  *)
(* else uses one of the codes.                                             *)
WholeReferral(s) ==
    /\ \A i, j \in 1 .. Len(s) : i # j => s[i].cod # s[j].cod
    /\ {s[i] : i \in 1 .. Len(s)} \in
           {{t \in Token : Verifies(t) /\ t.refHash = h} : h \in Hash}
ServedInTheEnd ==
    \A r \in Call :
        (pc[r] = "check" /\ WholeReferral(req[r]))
            ~> \/ status[r] = 200
               \/ \E q \in Call \ {r}, t \in TokensOf(r) : spentBy[t.cod] = q

(* What api/coop/README.md 1.5 says of X-Auth-User: it describes the       *)
(* subject, the account of the main token.                                 *)
MainUserIsMain ==
    \A r \in Call : status[r] = 200 =>
        \A t \in TokensOf(r) : IsMain(t) => main[r].cod = t.cod
=============================================================================
