--------------------------- MODULE CoopUsersProofs ---------------------------
(***************************************************************************)
(* Proofs about what the cooperation backend answers: the accounts and the *)
(* tag of the saved access token, for any number of requests of any        *)
(* length, whatever fails.                                                 *)
(***************************************************************************)
EXTENDS CoopProofs

(* The account a was told for the code token t.                            *)
Tells(t, a) == a # None /\ a.cod = t.cod /\ a.iss = t.idp

(* X-Auth-Users after the first k code tokens.                             *)
UsersTold(r, k) ==
    LET g == MainTag(req[r])
    IN  /\ users[r][g] = None
        /\ \A h \in Tag \ {g} :
              \/ \E i \in 1 .. k : h \in req[r][i].acntTags /\ Tells(req[r][i], users[r][h])
              \/ users[r][h] = None /\ \A i \in 1 .. k : h \notin req[r][i].acntTags

(* X-Auth-User after the first k code tokens.                              *)
MainTold(r, k) ==
    \A i \in 1 .. k : IsMain(req[r][i]) =>
        \/ Tells(req[r][i], main[r])
        \/ \E j \in 1 .. k : j # i /\ MainTag(req[r]) \in req[r][j].acntTags

(* The access token of the main code is saved once its answer is in, under *)
(* the issuer that the answer named.                                       *)
TokenKept(r, k) ==
    \A i \in 1 .. k : IsMain(req[r][i]) =>
        \/ /\ tokDb[r] # None /\ tokDb[r].tok = req[r][i].cod
           /\ req[r][i].idp \notin Astray => tokDb[r].idp = req[r][i].idp
        \/ ~Durable

Told(r, k) == UsersTold(r, k) /\ MainTold(r, k) /\ TokenKept(r, k)

(* What is known of a call at each place.                                  *)
ToldFirst(r) ==
    /\ pc[r] \in {"idle", "check"} => users[r] = NoUsers
    /\ pc[r] \in {"send", "receive"} => Told(r, n[r] - 1)
    /\ pc[r] = "receive" => resp[r] \in Answers(At(r))
    /\ pc[r] = "respond" \/ status[r] = 200 =>
          Told(r, Len(req[r])) /\ WhollyVetted(req[r])

ToldInv == VettedInv /\ \A r \in Call : ToldFirst(r)

(* The main tag of a vetted request is that of its one main token.         *)
LEMMA MainTagIs ==
    ASSUME NEW s \in Seq(Token), WhollyVetted(s), NEW i \in 1 .. Len(s), IsMain(s[i])
    PROVE  /\ MainTag(s) = s[i].acntTag /\ MainTag(s) \in Tag
           /\ \A j \in 1 .. Len(s) : IsMain(s[j]) => j = i
<1>1. Len(s) \in Nat
  BY LenProperties
<1>2. \A j \in 1 .. Len(s) : IsMain(s[j]) => j = i
  BY <1>1 DEF WhollyVetted, Vetted
<1>3. (CHOOSE j \in 1 .. Len(s) : s[j].acntTag # None) = i
  BY <1>2 DEF IsMain
<1>4. s[i] \in Token
  BY ElementOfSeq
<1>5. s[i].acntTag \in Tag
  BY <1>4, TokenType DEF IsMain
<1>6. QED BY <1>2, <1>3, <1>5 DEF MainTag

(* A vetted request has a main tag.                                        *)
LEMMA HasMainTag ==
    ASSUME NEW s \in Seq(Token), WhollyVetted(s)
    PROVE  MainTag(s) \in Tag
BY MainTagIs DEF WhollyVetted, HasMain, IsMain

(* What a valid answer of the code token's IdP tells of its tags.          *)
LEMMA AnswerTells ==
    ASSUME TypeInv, NEW r \in Call, pc[r] = "receive", AnswerValid(r),
           resp[r] \in Answers(At(r)), NEW h \in TagsOf(At(r))
    PROVE  Tells(At(r), AttributesOf(r, h))
<1>1. At(r) \in Token
  BY AtType DEF TypeInv, Shape
<1>2. h \in Tag
  BY <1>1, TokenType
<1>3. resp[r].ids[h] # None /\ resp[r].ids \in [Tag -> [cod : {At(r).cod}, more : BOOLEAN] \cup {None}]
  BY DEF AnswerValid, Answers
<1>4. resp[r].ids[h].cod = At(r).cod
  BY <1>2, <1>3
<1>5. AttributesOf(r, h) \in Attributes
  BY AttributesType
<1>6. AttributesOf(r, h) # None
  BY <1>5, RecordAssumption
<1>7. AttributesOf(r, h).cod = At(r).cod /\ AttributesOf(r, h).iss = At(r).idp
  BY <1>4 DEF AttributesOf
<1>8. QED BY <1>6, <1>7 DEF Tells

(* A turn of the second loop that goes on has merged a valid answer.       *)
LEMMA ReceiveMerges ==
    ASSUME TypeInv, NEW r \in Call, Receive(r), pc'[r] # "done"
    PROVE  /\ AnswerValid(r) /\ Merge(r)
           /\ MainTag(req[r]) \in TagsOf(At(r)) => MainSeen(r)
           /\ tokDb' = IF IsMain(At(r)) THEN [tokDb EXCEPT ![r] = NewToken(r)] ELSE tokDb
<1>1. \A st : ~Refuse(r, st)
  BY DEF Refuse, Goto, TypeInv, TypeOK
<1>2. QED BY <1>1, ZenonT(60) DEF Receive

(* Whose code token names the main tag.                                    *)
LEMMA TagsOfHand ==
    ASSUME TypeInv, NEW r \in Call, pc[r] = "receive", WhollyVetted(req[r])
    PROVE  \A h \in Tag \ {MainTag(req[r])} : h \in TagsOf(At(r)) <=> h \in At(r).acntTags
<1>1. req[r] \in Seq(Token) /\ n[r] \in 1 .. Len(req[r])
  BY DEF TypeInv, TypeOK, Shape
<1>2. CASE IsMain(At(r))
  BY <1>1, <1>2, MainTagIs DEF At, TagsOf
<1>3. CASE ~IsMain(At(r))
  BY <1>3 DEF TagsOf, IsMain
<1>4. QED BY <1>2, <1>3

(* The answer to one code token more is merged.                            *)
LEMMA ToldOneMore ==
    ASSUME TypeInv, NEW r \in Call, pc[r] = "receive", WhollyVetted(req[r]),
           Told(r, n[r] - 1), resp[r] \in Answers(At(r)), Receive(r), pc'[r] # "done",
           NEW k, k = n[r]
    PROVE  Told(r, k)'
<1> DEFINE s == req[r]
           g == MainTag(s)
           t == At(r)
<1>1. /\ s \in Seq(Token) /\ Len(s) \in Nat /\ k \in 1 .. Len(s)
      /\ t = s[k] /\ t \in Token /\ g \in Tag
  BY LenProperties, AtType, HasMainTag DEF TypeInv, TypeOK, Shape, At
<1>2. /\ AnswerValid(r) /\ Merge(r)
      /\ tokDb' = IF IsMain(t) THEN [tokDb EXCEPT ![r] = NewToken(r)] ELSE tokDb
      /\ UNCHANGED req
  BY ReceiveMerges DEF Receive
<1>3. k - 1 \in Nat /\ \A i \in 1 .. k : i = k \/ i \in 1 .. k - 1
  BY <1>1
<1>4. TagsOf(t) \subseteq Tag /\ t.acntTags \subseteq TagsOf(t)
  BY <1>1, TokenType DEF TagsOf
<1>5. /\ users'[r] = [h \in Tag |-> IF h \in TagsOf(t) \ {g} THEN AttributesOf(r, h) ELSE users[r][h]]
      /\ main'[r] = IF g \in TagsOf(t) THEN AttributesOf(r, g) ELSE main[r]
  BY <1>2 DEF TypeInv, TypeOK, Merge
<1>6. \A h \in TagsOf(t) : Tells(t, AttributesOf(r, h))
  BY <1>2, AnswerTells
<1>7. UsersTold(r, k)'
  <2>1. users[r][g] = None /\ users'[r][g] = users[r][g]
    BY <1>1, <1>5 DEF Told, UsersTold
  <2>2. ASSUME NEW h \in Tag \ {g}
        PROVE  \/ \E i \in 1 .. k : h \in s[i].acntTags /\ Tells(s[i], users'[r][h])
               \/ users'[r][h] = None /\ \A i \in 1 .. k : h \notin s[i].acntTags
    <3>1. CASE h \in TagsOf(t)
      <4>1. h \in s[k].acntTags
        BY <1>1, <3>1, TagsOfHand
      <4>2. Tells(s[k], users'[r][h])
        BY <1>1, <1>5, <1>6, <3>1
      <4>3. QED BY <1>1, <4>1, <4>2
    <3>2. CASE h \notin TagsOf(t)
      <4>1. users'[r][h] = users[r][h] /\ h \notin s[k].acntTags
        BY <1>1, <1>4, <1>5, <3>2
      <4>2. \/ \E i \in 1 .. k - 1 : h \in s[i].acntTags /\ Tells(s[i], users[r][h])
            \/ users[r][h] = None /\ \A i \in 1 .. k - 1 : h \notin s[i].acntTags
        BY DEF Told, UsersTold
      <4>3. QED BY <1>1, <1>3, <4>1, <4>2
    <3>3. QED BY <3>1, <3>2
  <2>3. QED BY <1>2, <2>1, <2>2 DEF UsersTold, Tells
<1>8. MainTold(r, k)'
  <2> SUFFICES ASSUME NEW i \in 1 .. k, IsMain(s[i])
               PROVE  Tells(s[i], main'[r]) \/ \E j \in 1 .. k : j # i /\ g \in s[j].acntTags
    BY <1>2 DEF MainTold, Tells
  <2>1. CASE i = k
    <3>1. g \in TagsOf(t)
      BY <1>1, <2>1, MainTagIs DEF TagsOf, IsMain
    <3>2. QED BY <1>1, <1>5, <1>6, <2>1, <3>1
  <2>2. CASE i # k
    <3>1. i \in 1 .. k - 1 /\ ~IsMain(t)
      BY <1>1, <1>3, <2>2, MainTagIs
    <3>2. CASE g \in TagsOf(t)
      BY <1>1, <2>2, <3>1, <3>2 DEF TagsOf, IsMain
    <3>3. CASE g \notin TagsOf(t)
      BY <1>1, <1>3, <1>5, <3>1, <3>3 DEF Told, MainTold
    <3>4. QED BY <3>2, <3>3
  <2>3. QED BY <2>1, <2>2
<1>9. TokenKept(r, k)'
  <2> SUFFICES ASSUME NEW i \in 1 .. k, IsMain(s[i])
               PROVE  \/ /\ tokDb'[r] # None /\ tokDb'[r].tok = s[i].cod
                         /\ s[i].idp \notin Astray => tokDb'[r].idp = s[i].idp
                      \/ ~Durable
    BY <1>2 DEF TokenKept
  <2>1. CASE i = k
    <3>1. tokDb'[r] = NewToken(r)
      BY <1>1, <1>2, <2>1 DEF TypeInv, TypeOK
    <3>2. resp[r].tok = t.cod /\ (t.idp \notin Astray => resp[r].idp = t.idp)
      BY <1>1, <1>2, <2>1 DEF Answers, Issuers, AnswerValid
    <3>3. NewToken(r) # None
      BY <1>1, <1>2, <2>1, NewTokenType, RecordAssumption
    <3>4. QED BY <1>1, <2>1, <3>1, <3>2, <3>3 DEF NewToken
  <2>2. CASE i # k
    <3>1. i \in 1 .. k - 1 /\ ~IsMain(t)
      BY <1>1, <1>3, <2>2, MainTagIs
    <3>2. QED BY <1>2, <3>1 DEF Told, TokenKept
  <2>3. QED BY <2>1, <2>2
<1>10. QED BY <1>7, <1>8, <1>9 DEF Told

(* What a step of a call does to its answer, and that only it does it.     *)
LEMMA AnswerOfOthers ==
    ASSUME TypeInv, NEW r \in Call, NEW q \in Call \ {r},
           ServeHTTP(r) \/ \E s \in Requests : ReceiveRequest(r, s)
    PROVE  UNCHANGED <<users[q], main[q], tokDb[q], resp[q]>>
<1>1. UNCHANGED users \/ \E u : users' = [users EXCEPT ![r] = u]
  BY Zenon DEF ServeHTTP, ReceiveRequest, CheckToken, CoopTo, Receive, Respond, Merge
<1>2. UNCHANGED main \/ \E a : main' = [main EXCEPT ![r] = a]
  BY Zenon DEF ServeHTTP, ReceiveRequest, CheckToken, CoopTo, Receive, Respond, Merge
<1>3. UNCHANGED tokDb \/ \E t : tokDb' = [tokDb EXCEPT ![r] = t]
  <2>1. CASE Receive(r)
    BY <2>1, Zenon DEF Receive
  <2>2. CASE ~Receive(r)
    BY <2>2, Zenon DEF ServeHTTP, ReceiveRequest, CheckToken, CoopTo, Respond, shared
  <2>3. QED BY <2>1, <2>2
<1>4. UNCHANGED resp \/ \E a : resp' = [resp EXCEPT ![r] = a]
  BY Zenon DEF ServeHTTP, ReceiveRequest, CheckToken, CoopTo, Receive, Respond
<1>5. q # r
  OBVIOUS
<1>6. QED BY <1>1, <1>2, <1>3, <1>4, <1>5 DEF TypeInv, TypeOK

(* What is told of a call stays with its request and its answer.           *)
LEMMA ToldStays ==
    ASSUME NEW r \in Call, UNCHANGED <<req[r], users[r], main[r]>>,
           tokDb'[r] = tokDb[r] \/ ~Durable, NEW k, Told(r, k)
    PROVE  Told(r, k)'
<1>1. UsersTold(r, k)'
  BY DEF Told, UsersTold, Tells
<1>2. MainTold(r, k)'
  BY DEF Told, MainTold, Tells
<1>3. TokenKept(r, k)'
  BY DEF Told, TokenKept
<1>4. QED BY <1>1, <1>2, <1>3 DEF Told

(* The same for its length.                                                *)
LEMMA ToldAllStays ==
    ASSUME NEW r \in Call, UNCHANGED <<req[r], users[r], main[r]>>,
           tokDb'[r] = tokDb[r] \/ ~Durable, Told(r, Len(req[r])), WhollyVetted(req[r])
    PROVE  Told(r, Len(req[r]))' /\ WhollyVetted(req[r])'
<1>1. Len(req'[r]) = Len(req[r])
  OBVIOUS
<1>2. ASSUME NEW k, k = Len(req[r]) PROVE Told(r, k)'
  BY <1>2, ToldStays
<1>3. Told(r, Len(req[r]))'
  BY <1>1, <1>2 DEF Told, UsersTold, MainTold, TokenKept
<1>4. QED BY <1>3 DEF WhollyVetted, Vetted, HasMain

(* And before the code token at hand.                                      *)
LEMMA ToldBeforeStays ==
    ASSUME NEW r \in Call, UNCHANGED <<req[r], users[r], main[r], n[r]>>,
           tokDb'[r] = tokDb[r] \/ ~Durable, Told(r, n[r] - 1)
    PROVE  Told(r, n[r] - 1)'
<1>1. ASSUME NEW k, k = n[r] - 1 PROVE Told(r, k)'
  BY <1>1, ToldStays
<1>2. QED BY <1>1 DEF Told, UsersTold, MainTold, TokenKept

(* The call that takes the step.                                           *)
LEMMA ToldHere ==
    ASSUME TypeInv, TypeInv', NEW r \in Call, ToldFirst(r), VettedFirst(r),
           ServeHTTP(r) \/ \E s \in Requests : ReceiveRequest(r, s)
    PROVE  ToldFirst(r)'
<1>1. ControlOK /\ n \in [Call -> Nat] /\ req[r] \in Seq(Token) /\ Len(req[r]) \in Nat
  BY LenProperties, ControlType DEF TypeInv, TypeOK
<1>2. CASE \E s \in Requests : ReceiveRequest(r, s)
  <2>1. pc[r] = "idle" /\ UNCHANGED users
    BY <1>2 DEF ReceiveRequest
  <2>2. pc'[r] \in {"check", "done"} /\ status'[r] # 200
    BY <1>2, ReceiveRequestGoes
  <2>3. QED BY <2>1, <2>2 DEF ToldFirst
<1>3. CASE CheckToken(r)
  <2>1. pc[r] = "check" /\ UNCHANGED <<req, users, main, tokDb>>
    BY <1>3 DEF CheckToken, shared
  <2>2. status'[r] # 200 /\ (\/ pc'[r] \in {"check", "done"}
                             \/ pc'[r] = "send" /\ n'[r] = 1)
    BY <1>3, CheckTokenGoes
  <2>3. users[r] = NoUsers
    BY <2>1 DEF ToldFirst
  <2>4. CASE pc'[r] = "send"
    <3>1. WhollyVetted(req[r])
      <4>1. VettedFirst(r)'
        BY <1>3, VettedHere DEF ServeHTTP
      <4>2. QED BY <2>1, <2>4, <4>1 DEF VettedFirst, WhollyVetted, Vetted, HasMain
    <3>2. MainTag(req[r]) \in Tag
      BY <1>1, <3>1, HasMainTag
    <3>3. Told(r, n[r] - 1)'
      BY <2>1, <2>2, <2>3, <2>4, <3>2
         DEF Told, UsersTold, MainTold, TokenKept, NoUsers, Tells
    <3>4. QED BY <2>1, <2>2, <2>3, <2>4, <3>3 DEF ToldFirst
  <2>5. CASE pc'[r] # "send"
    BY <2>1, <2>2, <2>3, <2>5 DEF ToldFirst
  <2>6. QED BY <2>4, <2>5
<1>4. CASE CoopTo(r)
  <2>1. /\ pc[r] = "send" /\ n[r] \in 1 .. Len(req[r]) /\ status'[r] # 200
        /\ UNCHANGED <<n, req, users, main, tokDb>>
    BY <1>4, CoopToGoes DEF CoopTo
  <2>2. \/ pc'[r] = "done"
        \/ pc'[r] = "receive" /\ \E a \in Answers(At(r)) : resp' = [resp EXCEPT ![r] = a]
    BY <1>4, CoopToGoes
  <2>3. pc'[r] = "receive" => resp'[r] \in Answers(At(r))
    BY <2>2 DEF TypeInv, TypeOK
  <2>4. Told(r, n[r] - 1)
    BY <2>1 DEF ToldFirst
  <2>5. Told(r, n[r] - 1)'
    BY <2>1, <2>4, ToldBeforeStays
  <2>6. QED BY <2>1, <2>2, <2>3, <2>4, <2>5 DEF ToldFirst, At
<1>5. CASE Receive(r)
  <2>1. /\ pc[r] = "receive" /\ n[r] \in 1 .. Len(req[r]) /\ status'[r] # 200
        /\ UNCHANGED <<req, resp>>
    BY <1>5, ReceiveGoes DEF Receive
  <2>2. WhollyVetted(req[r]) /\ Told(r, n[r] - 1) /\ resp[r] \in Answers(At(r))
    BY <2>1 DEF ToldFirst, VettedFirst
  <2>3. CASE pc'[r] = "done"
    BY <2>1, <2>2, <2>3 DEF ToldFirst
  <2>4. CASE pc'[r] # "done"
    <3> DEFINE k == n[r]
    <3>1. \/ pc'[r] = "send" /\ n'[r] = k + 1
          \/ pc'[r] = "respond" /\ k = Len(req[r])
      BY <1>5, <2>4, ReceiveGoes
    <3>2. ASSUME NEW i, i = k PROVE Told(r, i)'
      BY <1>5, <2>1, <2>2, <2>4, <3>2, ToldOneMore
    <3>3. CASE pc'[r] = "send"
      <4>1. Told(r, n[r] - 1)'
        <5>1. n'[r] - 1 = k
          BY <1>1, <3>1, <3>3
        <5>2. QED BY <3>2, <5>1 DEF Told, UsersTold, MainTold, TokenKept
      <4>2. QED BY <2>1, <2>2, <3>3, <4>1 DEF ToldFirst
    <3>4. CASE pc'[r] = "respond"
      <4>1. Told(r, Len(req[r]))' /\ WhollyVetted(req[r])'
        <5>1. Len(req'[r]) = k
          BY <2>1, <3>1, <3>4
        <5>2. QED BY <2>1, <2>2, <3>2, <5>1
                  DEF Told, UsersTold, MainTold, TokenKept, WhollyVetted, Vetted, HasMain
      <4>2. QED BY <2>1, <2>2, <3>4, <4>1 DEF ToldFirst
    <3>5. QED BY <3>1, <3>3, <3>4
  <2>5. QED BY <2>3, <2>4
<1>6. CASE Respond(r)
  <2>1. pc[r] = "respond" /\ UNCHANGED <<req, users, main, tokDb>> /\ pc'[r] = "done"
    BY <1>1, <1>6 DEF ControlOK, Respond, Goto, shared
  <2>2. Told(r, Len(req[r])) /\ WhollyVetted(req[r])
    BY <2>1 DEF ToldFirst
  <2>3. Told(r, Len(req[r]))' /\ WhollyVetted(req[r])'
    BY <2>1, <2>2, ToldAllStays
  <2>4. QED BY <2>1, <2>3 DEF ToldFirst
<1>7. QED BY <1>2, <1>3, <1>4, <1>5, <1>6 DEF ServeHTTP

(* Initially.                                                              *)
LEMMA ToldInit == Init => ToldInv
<1>1. Init => VettedInv
  BY VettedInit
<1>2. Init => \A r \in Call : ToldFirst(r)
  BY DEF Init, ToldFirst
<1>3. QED BY <1>1, <1>2 DEF ToldInv

(* Every step keeps it.                                                    *)
LEMMA ToldStep == ToldInv /\ [Next]_vars => ToldInv'
<1> SUFFICES ASSUME ToldInv, [Next]_vars PROVE ToldInv'
  OBVIOUS
<1>1. TypeInv /\ TypeInv' /\ VettedInv'
  BY TypeStep, VettedStep DEF ToldInv, VettedInv
<1> SUFFICES ASSUME NEW q \in Call PROVE ToldFirst(q)'
  BY <1>1 DEF ToldInv
<1>2. ToldFirst(q) /\ VettedFirst(q)
  BY DEF ToldInv, VettedInv
<1>3. ASSUME pc'[q] \in {pc[q], "dead"}, status[q] # 0 => pc[q] = "done" /\ pc'[q] = "done",
             UNCHANGED <<n[q], req[q], status[q], resp[q], users[q], main[q]>>,
             tokDb'[q] = tokDb[q] \/ ~Durable
      PROVE  ToldFirst(q)'
  <2>1. Told(q, n[q] - 1) => Told(q, n[q] - 1)'
    BY <1>3, ToldBeforeStays
  <2>2. Told(q, Len(req[q])) /\ WhollyVetted(req[q])
          => Told(q, Len(req[q]))' /\ WhollyVetted(req[q])'
    BY <1>3, ToldAllStays
  <2>3. At(q)' = At(q)
    BY <1>3 DEF At
  <2>4. Answers(At(q))' = Answers(At(q))
    BY <2>3 DEF Answers
  <2>5. QED BY <1>2, <1>3, <2>1, <2>2, <2>4 DEF ToldFirst
<1>4. status[q] # 0 => pc[q] = "done"
  BY <1>1 DEF TypeInv, Shape
<1>5. ASSUME NEW r \in Call, ServeHTTP(r) \/ \E s \in Requests : ReceiveRequest(r, s)
      PROVE  ToldFirst(q)'
  <2>1. CASE r = q
    BY <1>1, <1>2, <1>5, <2>1, ToldHere
  <2>2. CASE r # q
    <3>1. UNCHANGED <<pc[q], n[q], req[q], status[q]>>
      BY <1>1, <1>5, <2>2, Elsewhere
    <3>2. UNCHANGED <<users[q], main[q], tokDb[q], resp[q]>>
      BY <1>1, <1>5, <2>2, AnswerOfOthers
    <3>3. QED BY <1>3, <1>4, <3>1, <3>2
  <2>3. QED BY <2>1, <2>2
<1>6. CASE Crash
  <2>1. pc'[q] \in {pc[q], "dead"} /\ (pc[q] = "done" => pc'[q] = "done")
    BY <1>6 DEF Crash, inFlight
  <2>2. UNCHANGED local /\ UNCHANGED status /\ (UNCHANGED tokDb \/ ~Durable)
    BY <1>6 DEF Crash
  <2>3. QED BY <1>3, <1>4, <2>1, <2>2 DEF local
<1>7. CASE UNCHANGED vars \/ \E i \in Idp : SyncIdp(i)
  <2>1. UNCHANGED <<pc, local, status, tokDb>>
    BY <1>7 DEF SyncIdp, vars, shared
  <2>2. QED BY <1>3, <1>4, <2>1 DEF local
<1>8. QED BY <1>5, <1>6, <1>7 DEF Next

(* What is known of the answers holds throughout.                          *)
LEMMA ToldAlways == Spec => []ToldInv
BY ToldInit, ToldStep, PTL DEF Spec

(***************************************************************************)
(* The theorems.                                                           *)
(***************************************************************************)
(* The two ways of naming the code tokens of a request.                    *)
LEMMA TokensByIndex ==
    ASSUME TypeInv, NEW r \in Call
    PROVE  /\ req[r] \in Seq(Token) /\ Len(req[r]) \in Nat
           /\ \A i \in 1 .. Len(req[r]) : req[r][i] \in TokensOf(r)
           /\ \A t \in TokensOf(r) : \E i \in 1 .. Len(req[r]) : t = req[r][i]
BY LenProperties DEF TypeInv, TypeOK, TokensOf

(* X-Auth-Users has exactly the related tags of the code tokens, each with *)
(* the account that the token's IdP told, and X-Auth-User that of the main *)
(* token unless another token names its tag as well.                       *)
THEOREM AsIssued == Spec => []UsersAsIssued
<1>1. ToldInv => UsersAsIssued
  <2> SUFFICES ASSUME ToldInv, NEW r \in Call, status[r] = 200
               PROVE  LET g == MainTag(req[r])
                          tells(t, a) == a # None /\ a.cod = t.cod /\ a.iss = t.idp
                      IN  /\ \A h \in Tag \ {g} :
                                 \/ \E t \in TokensOf(r) :
                                       h \in t.acntTags /\ tells(t, users[r][h])
                                 \/ users[r][h] = None /\ \A t \in TokensOf(r) : h \notin t.acntTags
                          /\ users[r][g] = None
                          /\ \A t \in TokensOf(r) : t.acntTag = g =>
                                 \/ tells(t, main[r])
                                 \/ \E u \in TokensOf(r) \ {t} : g \in u.acntTags
    BY DEF UsersAsIssued
  <2> DEFINE s == req[r]
             g == MainTag(s)
             k == Len(s)
  <2>1. TypeInv /\ Told(r, k) /\ WhollyVetted(s)
    BY DEF ToldInv, VettedInv, ToldFirst
  <2>2. /\ s \in Seq(Token) /\ k \in Nat
        /\ \A i \in 1 .. k : s[i] \in TokensOf(r)
        /\ \A t \in TokensOf(r) : \E i \in 1 .. k : t = s[i]
    BY <2>1, TokensByIndex
  <2>3. ASSUME NEW h \in Tag \ {g}
        PROVE  \/ \E t \in TokensOf(r) : h \in t.acntTags /\ Tells(t, users[r][h])
               \/ users[r][h] = None /\ \A t \in TokensOf(r) : h \notin t.acntTags
    BY <2>1, <2>2 DEF Told, UsersTold
  <2>4. ASSUME NEW t \in TokensOf(r), t.acntTag = g
        PROVE  Tells(t, main[r]) \/ \E u \in TokensOf(r) \ {t} : g \in u.acntTags
    <3>1. PICK i \in 1 .. k : t = s[i]
      BY <2>2
    <3>2. g \in Tag /\ IsMain(s[i])
      BY <2>1, <2>2, <2>4, <3>1, HasMainTag, NoneAssumption DEF IsMain
    <3>3. CASE Tells(s[i], main[r])
      BY <3>1, <3>3
    <3>4. CASE \E j \in 1 .. k : j # i /\ g \in s[j].acntTags
      <4>1. PICK j \in 1 .. k : j # i /\ g \in s[j].acntTags
        BY <3>4
      <4>2. ~IsMain(s[j])
        BY <2>1, <2>2, <3>2, <4>1, MainTagIs
      <4>3. s[j] \in TokensOf(r) \ {t}
        BY <2>2, <3>1, <3>2, <4>2
      <4>4. QED BY <4>1, <4>3
    <3>5. QED BY <2>1, <3>2, <3>3, <3>4 DEF Told, MainTold
  <2>5. users[r][g] = None
    BY <2>1 DEF Told, UsersTold
  <2>6. QED BY <2>3, <2>4, <2>5 DEF Tells
<1>2. QED BY <1>1, ToldAlways, PTL

(* The at_tag handed out names the saved access token of the main code,    *)
(* under its IdP if that names itself, whatever issuers the IdPs of the    *)
(* other code tokens name, unless a restart lost a token DB in memory.     *)
THEOREM TagNamesToken == Spec => []TagResolves
<1>1. ToldInv => TagResolves
  <2> SUFFICES ASSUME ToldInv, NEW r \in Call, status[r] = 200, Durable
               PROVE  \E t \in TokensOf(r) :
                         /\ IsMain(t)
                         /\ tokDb[r] # None /\ tokDb[r].tok = t.cod
                         /\ t.idp \notin Astray => tokDb[r].idp = t.idp
    BY DEF TagResolves
  <2>1. TypeInv /\ TokenKept(r, Len(req[r])) /\ HasMain(req[r])
    BY DEF ToldInv, VettedInv, ToldFirst, Told, WhollyVetted
  <2>2. PICK i \in 1 .. Len(req[r]) : IsMain(req[r][i])
    BY <2>1 DEF HasMain, IsMain
  <2>3. req[r][i] \in TokensOf(r)
    BY <2>1, TokensByIndex
  <2>4. QED BY <2>1, <2>2, <2>3 DEF TokenKept
<1>2. QED BY <1>1, ToldAlways, PTL
=============================================================================
